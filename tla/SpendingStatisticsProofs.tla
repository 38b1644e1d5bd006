---------------------- MODULE SpendingStatisticsProofs ----------------------
(***************************************************************************)
(* Theorems about spending statistics, for any ledger, calendar, rates and *)
(* read calls, and any number of threads, processes, writes, failures and  *)
(* restarts.                                                               *)
(*                                                                         *)
(* Between the query that reads a period and the answer every record is    *)
(* either still to be converted or converted (Complete), once (Unique),    *)
(* and one that nobody wrote since is the ledger's (AsRead); a rate that   *)
(* is cached or on its way is as late as any that a thread still at work   *)
(* in that process may count on (RateFor).                                 *)
(***************************************************************************)
EXTENDS SpendingStatistics, Sums

Converting == {"convert", "earlier", "store"}
Working == Converting \cup {"read"}
Labels == Working \cup {"idle", "done"}

(* The record belongs to period k of the question.                         *)
Chosen(e, q, k, today) ==
    InScope(e, q) /\ InPeriod(e, Resolve(q.periods[k], today)) /\ Matches(e, q)

World ==
    /\ day \in Day /\ published \subseteq RateDay
    /\ DOMAIN ledger = Id /\ \A i \in Id : ledger[i] = None \/ IsRecord(ledger[i], i)
    /\ DOMAIN cache = Process
    /\ \A p \in Process :
        /\ DOMAIN cache[p] \subseteq Foreign \X Day
        /\ \A k \in DOMAIN cache[p] : cache[p][k] \in RateDay

Locals ==
    /\ base \in [Worker -> SUBSET RateDay]
    /\ pc \in [Worker -> Labels]
    /\ sent \in [Worker -> Day \cup {0}]
    /\ half \in [Worker -> 1 .. 2]
    /\ got \in [Worker -> RateDay \cup {0}]
    /\ touched \in [Worker -> SUBSET Id]
    /\ DOMAIN asked = Worker /\ DOMAIN answer = Worker
    /\ DOMAIN rows = Worker /\ DOMAIN priced = Worker

(* Where a thread is tells what it has in hand.                            *)
Stage(w) ==
    /\ asked[w] \in Question[w] \cup {NoQuestion}
    /\ pc[w] = "done" <=> answer[w] # NoAnswer
    /\ pc[w] = "idle" <=> asked[w] = NoQuestion
    /\ got[w] # 0 <=> pc[w] = "store"
    /\ pc[w] # "idle" => sent[w] \in Day
    /\ pc[w] \in {"idle", "read"} => rows[w] = {}
    /\ pc[w] = "idle" => priced[w] = {} /\ half[w] = 1
    /\ pc[w] \in Converting => asked[w].fn # "recent"
    /\ pc[w] \in Working /\ asked[w].fn # "recent" => half[w] \in DOMAIN asked[w].periods
    /\ pc[w] \in Working /\ asked[w].fn \in {"top", "recent"} => asked[w].limit \in Nat
    /\ pc[w] \in {"earlier", "store"} => rows[w] # {} /\ Head1(w).currency # Home

(* What it has read and converted belongs to the question.                 *)
Read(w) ==
    \A e \in rows[w] :
        e.id \in Id /\ IsRecord(e, e.id) /\ Chosen(e, asked[w], half[w], sent[w])

Converted(w) ==
    /\ IsFiniteSet(priced[w])
    /\ \A x \in priced[w] :
        /\ x.half \in 1 .. half[w] /\ x.worth \in Nat \ {0}
        /\ x.row.id \in Id /\ IsRecord(x.row, x.row.id)
        /\ Chosen(x.row, asked[w], x.half, sent[w])

(* No record is there twice.                                               *)
Unique(w) ==
    /\ \A e, f \in rows[w] : e.id = f.id => e = f
    /\ \A x, y \in priced[w] : x.half = y.half /\ x.row.id = y.row.id => x = y
    /\ \A x \in priced[w], e \in rows[w] : x.half = half[w] => x.row.id # e.id
    /\ pc[w] = "read" => \A x \in priced[w] : x.half < half[w]

Thread(w) == Stage(w) /\ Read(w) /\ Converted(w) /\ Unique(w)

TypeInv == World /\ Locals /\ \A w \in Worker : Thread(w)

(* What it has read of period k, and has or has not converted.             *)
HasRead(w, k) ==
    \/ k < half[w]
    \/ k = half[w] /\ (pc[w] \in Converting \/ answer[w].status \in {"sums", "top"})

InHand(w, k, e) ==
    (k = half[w] /\ e \in rows[w]) \/ \E x \in priced[w] : x.half = k /\ x.row = e

Complete(w) ==
    pc[w] # "idle" => \A k \in DOMAIN asked[w].periods : HasRead(w, k) =>
        \A i \in Id \ touched[w] :
            ledger[i] # None /\ Chosen(ledger[i], asked[w], k, sent[w]) =>
                InHand(w, k, ledger[i])

Finished(w) ==
    answer[w].status \in {"sums", "top"} =>
        /\ rows[w] = {} /\ asked[w].fn # "recent" /\ half[w] = Len(asked[w].periods)
        /\ answer[w].status = "top" => half[w] = 1

AsRead(w) == \A e \in rows[w] : e.id \in touched[w] \/ e = ledger[e.id]

Accounted(w) == Complete(w) /\ Finished(w) /\ AsRead(w)

PeriodInv == TypeInv /\ \A w \in Worker : Accounted(w)

(* The rate of day r may serve an expense of day d in process p, given the *)
(* days published, where threads are and what they may count on.           *)
Serves(r, d, p, days, at, known) ==
    /\ r \in days /\ r <= d
    /\ \A w \in Worker : ProcessOf[w] = p /\ at[w] # "done" =>
        \A b \in known[w] : b <= d => b <= r

RateFor(r, d, p) == Serves(r, d, p, published, pc, base)

RateInv ==
    /\ failures \in Nat
    /\ \A w \in Worker : base[w] \subseteq published
    /\ \A p \in Process : \A k \in DOMAIN cache[p] : RateFor(cache[p][k], k[2], p)
    /\ \A w \in Worker : pc[w] = "store" => RateFor(got[w], Head1(w).date, ProcessOf[w])
    /\ RatesUsable

ListedInScope ==
    \A w \in Worker : answer[w].status = "list" =>
        \A k \in DOMAIN answer[w].list : InScope(answer[w].list[k], asked[w])
-----------------------------------------------------------------------------
(* Numbers and orders *)

LEMMA MinOfTwo ==
    ASSUME NEW a \in Nat, NEW b \in Nat
    PROVE  /\ Min({a, b}) \in {a, b} /\ Min({a, b}) \in Nat
           /\ Min({a, b}) <= a /\ Min({a, b}) <= b
<1>1. \E x \in {a, b} : \A y \in {a, b} : x <= y
    BY Smallest
<1> QED
    BY <1>1 DEF Min

(* There is a record that all others are newer than.                       *)
LEMMA OldestExists ==
    ASSUME NEW S, S # {}, \A e \in S : e.date \in Nat /\ e.made \in Nat,
           \A e, f \in S : e.made = f.made => e = f
    PROVE  \E e \in S : \A f \in S : f = e \/ Newer(f, e)
<1> DEFINE Dates == {e.date : e \in S}
<1>1. PICK d \in Dates : \A c \in Dates : d <= c
    <2>1. Dates \subseteq Nat /\ Dates # {}
        OBVIOUS
    <2> QED
        BY <2>1, Smallest
<1> DEFINE T == {e \in S : e.date = d}
           Made == {e.made : e \in T}
<1>2. PICK m \in Made : \A c \in Made : m <= c
    <2>1. Made \subseteq Nat /\ Made # {}
        BY <1>1
    <2> HIDE DEF Made
    <2> QED
        BY <2>1, Smallest
<1>3. PICK e \in T : e.made = m
    BY <1>2
<1>4. ASSUME NEW f \in S, f # e PROVE Newer(f, e)
    <2>1. CASE f \in T
        <3>1. f.made \in Made /\ e.made <= f.made /\ f.made # e.made /\ f.date = e.date
            BY <1>2, <1>3, <1>4, <2>1
        <3> QED
            BY <1>3, <3>1 DEF Newer
    <2>2. CASE f \notin T
        <3>1. f.date \in Dates /\ e.date = d /\ f.date # d
            BY <1>3, <2>2
        <3>2. d <= f.date /\ d \in Nat /\ f.date \in Nat
            BY <1>1, <3>1
        <3> QED
            BY <3>1, <3>2 DEF Newer
    <2> QED
        BY <2>1, <2>2
<1> QED
    BY <1>3, <1>4

(* How many of S come before x under the relation R.                       *)
Before(S, R, x) == {y \in S : <<y, x>> \in R}
Rank(S, R, x) == Cardinality(Before(S, R, x))

TotalOrder(S, R) ==
    /\ \A x, y \in S : <<x, y>> \in R => <<y, x>> \notin R
    /\ \A x, y \in S : x # y => <<x, y>> \in R \/ <<y, x>> \in R
    /\ \A x, y, z \in S : <<x, y>> \in R /\ <<y, z>> \in R => <<x, z>> \in R

LEMMA RankGrows ==
    ASSUME NEW S, IsFiniteSet(S), NEW R, TotalOrder(S, R), NEW x \in S, NEW y \in S,
           <<x, y>> \in R
    PROVE  Rank(S, R, x) < Rank(S, R, y)
<1>1. Before(S, R, x) \subseteq Before(S, R, y)
    BY DEF Before, TotalOrder
<1>2. x \in Before(S, R, y) /\ x \notin Before(S, R, x)
    BY DEF Before, TotalOrder
<1>3. Before(S, R, y) \subseteq S
    BY DEF Before
<1> DEFINE X == Before(S, R, x)
           Y == Before(S, R, y)
<1> HIDE DEF X, Y
<1>4. IsFiniteSet(Y)
    BY <1>3, FS_Subset DEF Y
<1>5. IsFiniteSet(X) /\ Cardinality(X) <= Cardinality(Y) /\ Cardinality(X) # Cardinality(Y)
    BY <1>1, <1>2, <1>4, FS_Subset DEF X, Y
<1>6. Cardinality(X) \in Nat /\ Cardinality(Y) \in Nat
    BY <1>4, <1>5, FS_CardinalityType
<1> QED
    BY <1>5, <1>6 DEF Rank, X, Y

(* The ranks of a finite totally ordered set are 0 .. its cardinality - 1, *)
(* each of one element.                                                    *)
LEMMA RanksAreAll ==
    ASSUME NEW S, IsFiniteSet(S), NEW R, TotalOrder(S, R)
    PROVE  /\ Cardinality(S) \in Nat
           /\ \A x \in S : Rank(S, R, x) \in 0 .. Cardinality(S) - 1
           /\ \A x, y \in S : Rank(S, R, x) = Rank(S, R, y) => x = y
           /\ \A n \in 0 .. Cardinality(S) - 1 : \E x \in S : Rank(S, R, x) = n
<1> DEFINE N == Cardinality(S)
<1>1. N \in Nat
    BY FS_CardinalityType
<1>2. ASSUME NEW x \in S PROVE Rank(S, R, x) \in 0 .. N - 1
    <2>1. Before(S, R, x) \subseteq S /\ x \notin Before(S, R, x)
        BY DEF Before, TotalOrder
    <2> DEFINE X == Before(S, R, x)
    <2> HIDE DEF X
    <2>2. IsFiniteSet(X) /\ Cardinality(X) <= N /\ Cardinality(X) # N
        BY <2>1, FS_Subset DEF X
    <2>3. Cardinality(X) \in Nat
        BY <2>2, FS_CardinalityType
    <2>4. Cardinality(X) \in 0 .. N - 1
        BY <1>1, <2>2, <2>3
    <2> QED
        BY <2>4 DEF X, Rank
<1>3. ASSUME NEW x \in S, NEW y \in S, x # y PROVE Rank(S, R, x) # Rank(S, R, y)
    <2>1. Rank(S, R, x) \in Nat /\ Rank(S, R, y) \in Nat
        BY <1>2
    <2>2. CASE <<x, y>> \in R
        <3>1. Rank(S, R, x) < Rank(S, R, y)
            BY <2>2, RankGrows
        <3> QED
            BY <2>1, <3>1
    <2>3. CASE <<y, x>> \in R
        <3>1. Rank(S, R, y) < Rank(S, R, x)
            BY <2>3, RankGrows
        <3> QED
            BY <2>1, <3>1
    <2> QED
        BY <1>3, <2>2, <2>3 DEF TotalOrder
<1> DEFINE T == 0 .. N - 1
           f == [x \in S |-> Rank(S, R, x)]
<1>4. IsFiniteSet(T) /\ Cardinality(T) = N
    <2>1. 0 \in Int /\ N - 1 \in Int
        BY <1>1
    <2>2. IsFiniteSet(T) /\ Cardinality(T) = IF 0 > N - 1 THEN 0 ELSE N - 1 - 0 + 1
        BY <2>1, FS_Interval
    <2> QED
        BY <1>1, <2>2
<1> HIDE DEF N, T
<1>5. f \in Injection(S, T)
    BY <1>2, <1>3 DEF Injection, IsInjective, T
<1>6. f \in Surjection(S, T)
    BY <1>4, <1>5, FS_Injection DEF N
<1>7. \A n \in T : \E x \in S : f[x] = n
    BY <1>6 DEF Surjection
<1> QED
    BY <1>1, <1>2, <1>3, <1>7 DEF N, T

-----------------------------------------------------------------------------
(* Lists *)

(* L lists the first n of S in the order R.                                *)
IsFirst(L, S, R, n) ==
    /\ L \in Seq(S) /\ Len(L) = Min({n, Cardinality(S)})
    /\ \A k \in 1 .. Len(L) : Rank(S, R, L[k]) = k - 1

LEMMA FirstOfAll ==
    ASSUME NEW S, IsFiniteSet(S), NEW R, TotalOrder(S, R), NEW n \in Nat, NEW L,
           IsFirst(L, S, R, n)
    PROVE  /\ Len(L) <= n /\ DOMAIN L = 1 .. Len(L) /\ Len(L) \in Nat
           /\ \A k \in DOMAIN L : L[k] \in S
           /\ \A j, k \in DOMAIN L : j < k => <<L[j], L[k]>> \in R
           /\ Cardinality({L[k] : k \in DOMAIN L}) = Len(L)
           /\ \A y \in S \ {L[k] : k \in DOMAIN L} :
                  Len(L) = n /\ \A k \in DOMAIN L : <<L[k], y>> \in R
<1> DEFINE N == Cardinality(S)
<1>1. N \in Nat /\ \A x \in S : Rank(S, R, x) \in 0 .. N - 1
    BY RanksAreAll
<1>2. /\ Len(L) \in Nat /\ Len(L) <= n /\ Len(L) <= N /\ Len(L) \in {n, N}
    BY <1>1, MinOfTwo DEF IsFirst
<1>3. DOMAIN L = 1 .. Len(L) /\ \A k \in DOMAIN L : L[k] \in S
    BY DEF IsFirst
<1>4. DOMAIN L \subseteq Nat
    <2>1. DOMAIN L = 1 .. Len(L)
        BY <1>3
    <2> QED
        BY <2>1
<1>5. ASSUME NEW x \in S, NEW y \in S, Rank(S, R, x) < Rank(S, R, y)
      PROVE  <<x, y>> \in R
    <2>1. x # y
        BY <1>1, <1>5
    <2>2. <<y, x>> \notin R
        <3>1. SUFFICES ASSUME <<y, x>> \in R PROVE FALSE
            OBVIOUS
        <3>2. Rank(S, R, y) < Rank(S, R, x)
            BY <3>1, RankGrows
        <3> QED
            BY <1>1, <1>5, <3>2
    <2> QED
        BY <2>1, <2>2 DEF TotalOrder
<1>6. ASSUME NEW j \in DOMAIN L, NEW k \in DOMAIN L, j < k PROVE <<L[j], L[k]>> \in R
    <2>1. Rank(S, R, L[j]) = j - 1 /\ Rank(S, R, L[k]) = k - 1
        BY <1>3 DEF IsFirst
    <2>2. j \in Nat /\ k \in Nat
        BY <1>4
    <2>3. Rank(S, R, L[j]) < Rank(S, R, L[k])
        BY <1>6, <2>1, <2>2
    <2> QED
        BY <1>3, <1>5, <2>3
<1> DEFINE T == {L[k] : k \in DOMAIN L}
           f == [k \in 1 .. Len(L) |-> L[k]]
<1>7. Cardinality(T) = Len(L)
    <2>1. ASSUME NEW j \in DOMAIN L, NEW k \in DOMAIN L, L[j] = L[k] PROVE j = k
        <3>1. Rank(S, R, L[j]) = j - 1 /\ Rank(S, R, L[k]) = k - 1
            BY <1>3 DEF IsFirst
        <3>2. j \in Nat /\ k \in Nat
            BY <1>4
        <3> QED
            BY <2>1, <3>1, <3>2
    <2>2. f \in Bijection(1 .. Len(L), T)
        BY <1>3, <2>1 DEF Bijection, Injection, Surjection, IsInjective
    <2>3. ExistsBijection(1 .. Len(L), T)
        BY <2>2 DEF ExistsBijection
    <2> HIDE DEF T
    <2> QED
        BY <1>2, <2>3, FS_CountingElements
<1>8. ASSUME NEW y \in S, y \notin T
      PROVE  Len(L) = n /\ \A k \in DOMAIN L : <<L[k], y>> \in R
    <2>1. ~ (Rank(S, R, y) < Len(L))
        <3>1. SUFFICES ASSUME Rank(S, R, y) < Len(L) PROVE FALSE
            OBVIOUS
        <3> DEFINE k == Rank(S, R, y) + 1
        <3>2. Rank(S, R, y) \in Nat
            BY <1>1
        <3>3. k \in DOMAIN L /\ k - 1 = Rank(S, R, y)
            <4>1. k \in 1 .. Len(L) /\ k - 1 = Rank(S, R, y)
                BY <1>2, <3>1, <3>2
            <4> QED
                BY <1>3, <4>1
        <3>4. Rank(S, R, L[k]) = Rank(S, R, y) /\ L[k] \in S
            BY <1>3, <3>3 DEF IsFirst
        <3>5. L[k] = y
            BY <3>4, RanksAreAll
        <3> QED
            BY <1>8, <3>3, <3>5
    <2>2. Len(L) # N
        BY <1>1, <1>2, <2>1
    <2>3. ASSUME NEW k \in DOMAIN L PROVE <<L[k], y>> \in R
        <3>1. Rank(S, R, L[k]) = k - 1
            BY <1>3 DEF IsFirst
        <3>2. k \in 1 .. Len(L) /\ Rank(S, R, y) \in Nat
            BY <1>1, <1>3
        <3>3. Rank(S, R, L[k]) < Rank(S, R, y)
            BY <1>2, <2>1, <3>1, <3>2
        <3> QED
            BY <1>3, <1>5, <3>3
    <2> QED
        BY <1>2, <2>2, <2>3
<1> QED
    BY <1>2, <1>3, <1>6, <1>7, <1>8

(* The relations that the two lists are ordered by.                        *)
NewerIn(S) == {p \in S \X S : Newer(p[1], p[2])}
DearerIn(S) == {p \in S \X S : Dearer(p[1], p[2])}

LEMMA RecentAreFirst ==
    ASSUME NEW S, IsFiniteSet(S), NEW n \in Nat,
           \A e \in S : e.date \in Nat /\ e.made \in Nat,
           \A e, f \in S : e.made = f.made => e = f
    PROVE  TotalOrder(S, NewerIn(S)) /\ IsFirst(Least(S, Newer, n), S, NewerIn(S), n)
<1> DEFINE R == NewerIn(S)
           N == Cardinality(S)
           m == Min({n, N})
           L == Least(S, Newer, n)
<1>1. \A x, y \in S : <<x, y>> \in R <=> Newer(x, y)
    BY DEF NewerIn
<1> HIDE DEF R
<1>2. TotalOrder(S, R)
    <2>1. \A x, y \in S : <<x, y>> \in R => <<y, x>> \notin R
        BY <1>1 DEF Newer
    <2>2. \A x, y \in S : x # y => <<x, y>> \in R \/ <<y, x>> \in R
        BY <1>1 DEF Newer
    <2>3. \A x, y, z \in S : <<x, y>> \in R /\ <<y, z>> \in R => <<x, z>> \in R
        BY <1>1 DEF Newer
    <2> QED
        BY <2>1, <2>2, <2>3 DEF TotalOrder
<1>3. \A x \in S : {y \in S : Newer(y, x)} = Before(S, R, x)
    BY <1>1 DEF Before
<1>4. \A x \in S : Cardinality({y \in S : Newer(y, x)}) = Rank(S, R, x)
    BY <1>3 DEF Rank
<1>5. L = [k \in 1 .. m |-> CHOOSE x \in S : Cardinality({y \in S : Newer(y, x)}) = k - 1]
    BY DEF Least
<1>6. N \in Nat /\ \A r \in 0 .. N - 1 : \E x \in S : Rank(S, R, x) = r
    BY <1>2, RanksAreAll
<1>7. m \in Nat /\ m <= N
    BY <1>6, MinOfTwo
<1> HIDE DEF L, m, N
<1>8. ASSUME NEW k \in 1 .. m PROVE L[k] \in S /\ Rank(S, R, L[k]) = k - 1
    <2>1. \E x \in S : Rank(S, R, x) = k - 1
        BY <1>6, <1>7
    <2>2. \E x \in S : Cardinality({y \in S : Newer(y, x)}) = k - 1
        BY <1>4, <2>1
    <2> DEFINE c == CHOOSE x \in S : Cardinality({y \in S : Newer(y, x)}) = k - 1
    <2>3. c \in S /\ Cardinality({y \in S : Newer(y, c)}) = k - 1
        BY <2>2
    <2>4. L[k] = c
        BY <1>5
    <2> HIDE DEF c
    <2> QED
        BY <1>4, <2>3, <2>4
<1>9. L \in Seq(S) /\ Len(L) = m
    <2>1. L \in [1 .. m -> S]
        BY <1>5, <1>8
    <2> QED
        BY <1>7, <2>1
<1> QED
    BY <1>2, <1>8, <1>9 DEF IsFirst, L, R, m, N

LEMMA DearestAreFirst ==
    ASSUME NEW S, IsFiniteSet(S), NEW n \in Nat,
           \A x \in S : x.worth \in Nat /\ x.row.date \in Nat /\ x.row.id \in Nat,
           \A x, y \in S : x.row.id = y.row.id => x = y
    PROVE  TotalOrder(S, DearerIn(S)) /\ IsFirst(Least(S, Dearer, n), S, DearerIn(S), n)
<1> DEFINE R == DearerIn(S)
           N == Cardinality(S)
           m == Min({n, N})
           L == Least(S, Dearer, n)
<1>1. \A x, y \in S : <<x, y>> \in R <=> Dearer(x, y)
    BY DEF DearerIn
<1> HIDE DEF R
<1>2. TotalOrder(S, R)
    <2>1. \A x, y \in S : <<x, y>> \in R => <<y, x>> \notin R
        BY <1>1 DEF Dearer
    <2>2. \A x, y \in S : x # y => <<x, y>> \in R \/ <<y, x>> \in R
        BY <1>1 DEF Dearer
    <2>3. \A x, y, z \in S : <<x, y>> \in R /\ <<y, z>> \in R => <<x, z>> \in R
        BY <1>1 DEF Dearer
    <2> QED
        BY <2>1, <2>2, <2>3 DEF TotalOrder
<1>3. \A x \in S : {y \in S : Dearer(y, x)} = Before(S, R, x)
    BY <1>1 DEF Before
<1>4. \A x \in S : Cardinality({y \in S : Dearer(y, x)}) = Rank(S, R, x)
    BY <1>3 DEF Rank
<1>5. L = [k \in 1 .. m |-> CHOOSE x \in S : Cardinality({y \in S : Dearer(y, x)}) = k - 1]
    BY DEF Least
<1>6. N \in Nat /\ \A r \in 0 .. N - 1 : \E x \in S : Rank(S, R, x) = r
    BY <1>2, RanksAreAll
<1>7. m \in Nat /\ m <= N
    BY <1>6, MinOfTwo
<1> HIDE DEF L, m, N
<1>8. ASSUME NEW k \in 1 .. m PROVE L[k] \in S /\ Rank(S, R, L[k]) = k - 1
    <2>1. \E x \in S : Rank(S, R, x) = k - 1
        BY <1>6, <1>7
    <2>2. \E x \in S : Cardinality({y \in S : Dearer(y, x)}) = k - 1
        BY <1>4, <2>1
    <2> DEFINE c == CHOOSE x \in S : Cardinality({y \in S : Dearer(y, x)}) = k - 1
    <2>3. c \in S /\ Cardinality({y \in S : Dearer(y, c)}) = k - 1
        BY <2>2
    <2>4. L[k] = c
        BY <1>5
    <2> HIDE DEF c
    <2> QED
        BY <1>4, <2>3, <2>4
<1>9. L \in Seq(S) /\ Len(L) = m
    <2>1. L \in [1 .. m -> S]
        BY <1>5, <1>8
    <2> QED
        BY <1>7, <2>1
<1> QED
    BY <1>2, <1>8, <1>9 DEF IsFirst, L, R, m, N

-----------------------------------------------------------------------------
(* Sums *)

Worths(S) == [x \in S |-> x.worth]

LEMMA WorthAdds ==
    ASSUME NEW S, IsFiniteSet(S)
    PROVE  \E g : Adds(g, Worths(S), S) /\ MapThenSumSet(LAMBDA x : x.worth, S) = g[S]
<1> DEFINE g == CHOOSE h : h = [s \in SUBSET S |->
                    IF s = {} THEN 0
                    ELSE (CHOOSE x \in s : TRUE).worth + h[s \ {CHOOSE x \in s : TRUE}]]
<1>1. MapThenSumSet(LAMBDA x : x.worth, S) = g[S]
    BY DEF MapThenSumSet, MapThenFoldSet
<1>2. PICK f : Adds(f, Worths(S), S)
    BY AddsExists
<1>3. \A s \in SUBSET S : s # {} => Pick(s) \in S
    BY DEF Pick
<1>4. \A s \in SUBSET S : s # {} => Worths(S)[Pick(s)] = Pick(s).worth
    BY <1>3 DEF Worths
<1>5. \A h : Adds(h, Worths(S), S) <=>
            h = [s \in SUBSET S |-> IF s = {} THEN 0 ELSE Pick(s).worth + h[s \ {Pick(s)}]]
    BY <1>4 DEF Adds
<1>6. f = [s \in SUBSET S |->
                IF s = {} THEN 0
                ELSE (CHOOSE x \in s : TRUE).worth + f[s \ {CHOOSE x \in s : TRUE}]]
    BY <1>2, <1>5 DEF Pick
<1>7. g = [s \in SUBSET S |->
                IF s = {} THEN 0
                ELSE (CHOOSE x \in s : TRUE).worth + g[s \ {CHOOSE x \in s : TRUE}]]
    BY <1>6
<1> HIDE DEF g
<1>8. Adds(g, Worths(S), S)
    BY <1>5, <1>7 DEF Pick
<1> QED
    BY <1>1, <1>8

-----------------------------------------------------------------------------
(* Types *)

LEMMA Constants ==
    /\ Id \subseteq Nat \ {0} /\ IsFiniteSet(Id)
    /\ Day \subseteq Nat \ {0} /\ RateDay \subseteq Day /\ 0 \notin RateDay
    /\ RateDay \subseteq Nat /\ Published0 \subseteq RateDay /\ Lookback \in Nat
    /\ Home \notin Foreign /\ \A c \in Foreign : Rate[c] \in [RateDay -> Nat \ {0}]
    /\ \A w \in Worker : ProcessOf[w] \in Process
    /\ \A w \in Worker : NoQuestion \notin Question[w]
BY StatisticsAssumption DEF IsQuestion, NoQuestion

LEMMA RecordHas ==
    ASSUME NEW i \in Id, NEW e, IsRecord(e, i)
    PROVE  /\ e # None /\ e.id = i /\ e.made = i /\ i \in Nat /\ e.date \in Day /\ e.date \in Nat
           /\ e.amount \in Nat \ {0} /\ e.currency \in Foreign \cup {Home}
<1>1. e.id = i /\ e.made = i /\ i \in Nat \ {0} /\ None.id = 0
    BY Constants DEF IsRecord, None
<1>2. e.date \in Day /\ e.amount \in Nat \ {0} /\ e.currency \in Foreign \cup {Home}
    BY DEF IsRecord, IsContent
<1>3. e.date \in Nat
    BY <1>2, Constants
<1>4. e # None
    BY <1>1
<1> QED
    BY <1>1, <1>2, <1>3, <1>4

LEMMA HeadIsRead ==
    ASSUME TypeInv, NEW w \in Worker, rows[w] # {}
    PROVE  /\ Head1(w) \in rows[w]
           /\ \A f \in rows[w] : f = Head1(w) \/ Newer(f, Head1(w))
<1>1. \A e \in rows[w] : e.date \in Nat /\ e.made \in Nat /\ e.made = e.id
    BY RecordHas DEF TypeInv, Thread, Read
<1>2. \A e, f \in rows[w] : e.made = f.made => e = f
    BY <1>1 DEF TypeInv, Thread, Unique
<1>3. \E e \in rows[w] : \A f \in rows[w] : f = e \/ Newer(f, e)
    BY <1>1, <1>2, OldestExists
<1> QED
    BY <1>3 DEF Head1

(* What the predicates of a thread are about.                              *)
Local(w) ==
    <<pc[w], asked[w], sent[w], half[w], rows[w], priced[w], got[w], answer[w]>>

LEMMA SameThread ==
    ASSUME NEW w \in Worker, Thread(w), UNCHANGED Local(w) PROVE Thread(w)'
<1>1. /\ pc'[w] = pc[w] /\ asked'[w] = asked[w] /\ sent'[w] = sent[w] /\ half'[w] = half[w]
      /\ rows'[w] = rows[w] /\ priced'[w] = priced[w] /\ got'[w] = got[w]
      /\ answer'[w] = answer[w]
    BY DEF Local
<1>2. Stage(w)'
    BY <1>1 DEF Thread, Stage, Head1
<1>3. Read(w)'
    BY <1>1 DEF Thread, Read
<1>4. Converted(w)'
    BY <1>1 DEF Thread, Converted
<1>5. Unique(w)'
    BY <1>1 DEF Thread, Unique
<1> QED
    BY <1>2, <1>3, <1>4, <1>5 DEF Thread

(* A record leaves the rows with its worth.                                *)
LEMMA PriceKeeps ==
    ASSUME TypeInv, NEW w \in Worker, NEW d \in RateDay \cup {0}, rows[w] # {},
           d = 0 <=> Head1(w).currency = Home, Price(w, Head1(w), d),
           asked'[w] = asked[w], sent'[w] = sent[w], half'[w] = half[w], pc'[w] # "read"
    PROVE  Read(w)' /\ Converted(w)' /\ Unique(w)'
<1> DEFINE e == Head1(w)
           x == [half |-> half[w], row |-> e, rateDay |-> d, worth |-> Worth(e, d)]
<1>1. /\ e \in rows[w] /\ e.id \in Id /\ IsRecord(e, e.id)
      /\ Chosen(e, asked[w], half[w], sent[w])
    BY HeadIsRead DEF TypeInv, Thread, Read
<1>2. rows'[w] = rows[w] \ {e} /\ priced'[w] = priced[w] \cup {x}
    BY DEF Price, TypeInv, Locals
<1>3. Worth(e, d) \in Nat \ {0}
    <2>1. e.amount \in Nat \ {0} /\ e.currency \in Foreign \cup {Home}
        BY <1>1, RecordHas
    <2>2. CASE d = 0
        BY <2>1, <2>2 DEF Worth
    <2>3. CASE d # 0
        <3>1. Rate[e.currency][d] \in Nat \ {0}
            BY <2>1, <2>3, Constants
        <3>2. \A a, b \in Nat \ {0} : a * b \in Nat \ {0}
            OBVIOUS
        <3> QED
            BY <2>1, <2>3, <3>1, <3>2 DEF Worth
    <2> QED
        BY <2>2, <2>3
<1>4. half[w] \in 1 .. 2
    BY DEF TypeInv, Locals
<1>5. x.half = half[w] /\ x.row = e /\ x.worth = Worth(e, d)
    OBVIOUS
<1>6. Read(w) /\ Converted(w) /\ Unique(w)
    BY DEF TypeInv, Thread
<1> HIDE DEF x, e
<1>7. Read(w)'
    BY <1>2, <1>6 DEF Read
<1>8. Converted(w)'
    <2>1. IsFiniteSet(priced'[w])
        <3>1. IsFiniteSet(priced[w])
            BY <1>6 DEF Converted
        <3>2. IsFiniteSet(priced[w] \cup {x})
            BY <3>1, FS_AddElement
        <3> QED
            BY <1>2, <3>2
    <2>2. ASSUME NEW y \in priced'[w]
          PROVE  /\ y.half \in 1 .. half[w] /\ y.worth \in Nat \ {0}
                 /\ y.row.id \in Id /\ IsRecord(y.row, y.row.id)
                 /\ Chosen(y.row, asked[w], y.half, sent[w])
        <3>1. CASE y \in priced[w]
            BY <1>6, <3>1 DEF Converted
        <3>2. CASE y = x
            BY <1>1, <1>3, <1>4, <1>5, <3>2
        <3> QED
            BY <1>2, <3>1, <3>2
    <2> QED
        BY <2>1, <2>2 DEF Converted
<1>9. Unique(w)'
    BY <1>1, <1>2, <1>5, <1>6 DEF Unique
<1> QED
    BY <1>7, <1>8, <1>9

LEMMA TypeInit == Init => TypeInv
<1> SUFFICES ASSUME Init PROVE TypeInv
    OBVIOUS
<1> USE Constants DEF Init
<1>1. World
    BY StatisticsAssumption DEF World, NoRates, Id
<1>2. Locals
    BY DEF Locals, Labels, Working, Converting
<1>3. ASSUME NEW w \in Worker PROVE Stage(w)
    BY DEF Stage, Working, Converting, NoQuestion, NoAnswer
<1>4. ASSUME NEW w \in Worker PROVE Read(w) /\ Unique(w)
    BY DEF Read, Unique
<1>5. ASSUME NEW w \in Worker PROVE Converted(w)
    BY FS_EmptySet DEF Converted
<1> QED
    BY <1>1, <1>2, <1>3, <1>4, <1>5 DEF TypeInv, Thread

LEMMA WorldKept == TypeInv /\ [Next]_vars => World'
<1> SUFFICES ASSUME TypeInv, [Next]_vars PROVE World'
    OBVIOUS
<1> USE Constants
<1>1. World /\ Locals
    BY DEF TypeInv, Thread
<1>2. CASE NextDay
    BY <1>1, <1>2 DEF NextDay, World
<1>3. ASSUME NEW d \in RateDay, Publish(d) PROVE World'
    BY <1>1, <1>3 DEF Publish, World
<1>4. ASSUME NEW i \in Id, NEW at \in Place, NEW c \in Content, WriteLedger(i, at, c)
      PROVE  World'
    <2>1. IsRecord(Written(i, at, c), i)
        BY StatisticsAssumption DEF IsRecord, IsContent, Written
    <2>2. ledger' = [ledger EXCEPT ![i] = Written(i, at, c)]
          /\ day' = day /\ published' = published /\ cache' = cache
        BY <1>4 DEF WriteLedger, marketVars
    <2> QED
        BY <1>1, <2>1, <2>2 DEF World
<1>5. ASSUME NEW w \in Worker, Store(w) PROVE World'
    <2> DEFINE e == Head1(w)
               p == ProcessOf[w]
               c == cache[p]
               new == [k \in DOMAIN c \cup {RateKey(e)} |-> IF k = RateKey(e) THEN got[w] ELSE c[k]]
    <2>1. pc[w] = "store" /\ cache' = [cache EXCEPT ![p] = new]
          /\ day' = day /\ published' = published /\ ledger' = ledger
        BY <1>5 DEF Store, marketVars
    <2>2. rows[w] # {} /\ e.currency # Home /\ got[w] # 0
        BY <2>1 DEF TypeInv, Thread, Stage
    <2>3. e.currency \in Foreign /\ e.date \in Day
        <3>1. e \in rows[w] /\ e.id \in Id /\ IsRecord(e, e.id)
            BY <2>2, HeadIsRead DEF TypeInv, Thread, Read
        <3>2. e.date \in Day /\ e.currency \in Foreign \cup {Home}
            BY <3>1, RecordHas
        <3> QED
            BY <2>2, <3>2
    <2>4. RateKey(e) \in Foreign \X Day
        BY <2>3 DEF RateKey
    <2>5. got[w] \in RateDay
        BY <1>1, <2>2 DEF Locals
    <2> HIDE DEF e
    <2>6. p \in Process /\ DOMAIN c \subseteq Foreign \X Day
          /\ \A k \in DOMAIN c : c[k] \in RateDay
        BY <1>1 DEF World
    <2>7. DOMAIN new \subseteq Foreign \X Day /\ \A k \in DOMAIN new : new[k] \in RateDay
        BY <2>4, <2>5, <2>6
    <2> HIDE DEF new, p
    <2>8. DOMAIN cache' = Process /\ cache'[p] = new /\ \A q \in Process \ {p} : cache'[q] = cache[q]
        BY <1>1, <2>1, <2>6 DEF World
    <2> QED
        BY <1>1, <2>1, <2>7, <2>8 DEF World
<1>6. ASSUME NEW p \in Process, Restart(p) PROVE World'
    <2>1. cache' = [cache EXCEPT ![p] = NoRates]
          /\ day' = day /\ published' = published /\ ledger' = ledger
        BY <1>6 DEF Restart, marketVars
    <2>2. DOMAIN NoRates = {}
        BY DEF NoRates
    <2> QED
        BY <1>1, <2>1, <2>2 DEF World
<1>7. CASE day' = day /\ published' = published /\ ledger' = ledger /\ cache' = cache
    BY <1>1, <1>7 DEF World
<1>8. ASSUME NEW w \in Worker, WorkerStep(w) \/ CallFails(w) PROVE World'
    BY <1>5, <1>7, <1>8
    DEF WorkerStep, CallFails, ReadExpenses, ListRecent, Convert, FetchDirect, FetchEarlier,
        NextHalf, Answer, marketVars
<1>9. ASSUME NEW w \in Worker, NEW q \in Question[w], Ask(w, q) PROVE World'
    BY <1>7, <1>9 DEF Ask, marketVars
<1>10. CASE UNCHANGED vars
    BY <1>7, <1>10 DEF vars
<1> QED
    BY <1>2, <1>3, <1>4, <1>6, <1>8, <1>9, <1>10 DEF Next

LEMMA QuestionHas ==
    ASSUME NEW w \in Worker, NEW q \in Question[w]
    PROVE  /\ q.fn \in {"summary", "compare", "top", "recent"} /\ q # NoQuestion
           /\ q.periods \in Seq(Period) /\ DOMAIN q.periods = 1 .. Len(q.periods)
           /\ Len(q.periods) \in Nat
           /\ q.fn # "recent" => Len(q.periods) \in 1 .. 2
           /\ q.fn \in {"summary", "top"} => Len(q.periods) = 1
           /\ q.fn = "compare" => Len(q.periods) = 2
<1>1. IsQuestion(q) /\ q # NoQuestion
    BY StatisticsAssumption, Constants
<1>2. q.periods \in Seq(Period)
    BY <1>1 DEF IsQuestion
<1>3. DOMAIN q.periods = 1 .. Len(q.periods) /\ Len(q.periods) \in Nat
    BY <1>2
<1>4. /\ q.fn \in {"summary", "compare", "top", "recent"}
      /\ q.fn # "recent" => Len(q.periods) = IF q.fn = "compare" THEN 2 ELSE 1
    BY <1>1 DEF IsQuestion
<1>5. /\ q.fn \in {"summary", "top"} => Len(q.periods) = 1
      /\ q.fn = "compare" => Len(q.periods) = 2
    BY <1>4
<1>6. q.fn # "recent" => Len(q.periods) \in 1 .. 2
    BY <1>4, <1>5
<1> QED
    BY <1>1, <1>2, <1>3, <1>4, <1>5, <1>6

(* The rates that may be used on a date, and the latest of them.           *)
LEMMA LatestRate ==
    ASSUME World, NEW d \in Nat
    PROVE  /\ UpTo(d) \subseteq RateDay
           /\ UpTo(d) # {} =>
                  Max(UpTo(d)) \in UpTo(d) /\ \A y \in UpTo(d) : y <= Max(UpTo(d))
           /\ LET window == {r \in UpTo(d) : r >= d - Lookback} IN
              window # {} =>
                  Newest(window) \in window /\ \A y \in UpTo(d) : y <= Newest(window)
<1> DEFINE S == UpTo(d)
           T == {r \in UpTo(d) : r >= d - Lookback}
<1>1. S \subseteq RateDay /\ S \subseteq Nat /\ \A r \in S : r <= d
    BY Constants DEF UpTo, World
<1>2. T \subseteq S /\ \A y \in S \ T : y < d - Lookback
    BY <1>1, Constants
<1>3. \A r \in T : r >= d - Lookback
    OBVIOUS
<1> HIDE DEF S, T
<1>4. S # {} => Max(S) \in S /\ \A y \in S : Max(S) >= y
    BY <1>1, MaxIsIn
<1>5. T # {} => Max(T) \in T /\ \A y \in T : Max(T) >= y
    BY <1>1, <1>2, MaxIsIn
<1>6. ASSUME T # {}, NEW y \in S PROVE y <= Max(T)
    <2>1. Max(T) \in Nat /\ y \in Nat /\ d - Lookback \in Int
        <3>1. Max(T) \in S /\ y \in S
            BY <1>2, <1>5, <1>6
        <3>2. d - Lookback \in Int
            BY Constants
        <3> QED
            BY <1>1, <3>1, <3>2
    <2>2. CASE y \in T
        BY <1>5, <2>1, <2>2
    <2>3. CASE y \notin T
        <3>1. y < d - Lookback /\ Max(T) >= d - Lookback
            BY <1>2, <1>3, <1>5, <1>6, <2>3
        <3> QED
            BY <2>1, <3>1
    <2> QED
        BY <2>2, <2>3
<1>7. S # {} => \A y \in S : y <= Max(S)
    BY <1>1, <1>4
<1> QED
    BY <1>1, <1>4, <1>5, <1>6, <1>7 DEF Newest, S, T

(* A fetch brings the latest rate there is, or nothing.                    *)
LEMMA FetchStep ==
    ASSUME TypeInv, NEW w \in Worker, FetchDirect(w) \/ FetchEarlier(w)
    PROVE  /\ pc[w] \in {"convert", "earlier"} /\ rows[w] # {} /\ Head1(w).currency # Home
           /\ \/ /\ \E r \in UpTo(Head1(w).date) :
                        /\ \A y \in UpTo(Head1(w).date) : y <= r
                        /\ got' = [got EXCEPT ![w] = r]
                 /\ pc' = [pc EXCEPT ![w] = "store"] /\ answer' = answer
              \/ /\ got' = got /\ pc' = [pc EXCEPT ![w] = "earlier"] /\ answer' = answer
              \/ /\ {r \in UpTo(Head1(w).date) : r >= Head1(w).date - Lookback} = {}
                 /\ got' = got /\ pc' = [pc EXCEPT ![w] = "done"]
                 /\ answer' = [answer EXCEPT ![w] = [status |-> "failed"]]
           /\ UNCHANGED <<day, published, ledger, cache, base, asked, sent, half, rows, priced,
                          touched>>
<1> DEFINE e == Head1(w)
<1>1. Thread(w) /\ World
    BY DEF TypeInv
<1>2. pc[w] \in {"convert", "earlier"} /\ rows[w] # {} /\ e.currency # Home
    <2>1. CASE FetchDirect(w)
        BY <1>1, <2>1 DEF FetchDirect, Known
    <2>2. CASE FetchEarlier(w)
        BY <1>1, <2>2 DEF FetchEarlier, Thread, Stage
    <2> QED
        BY <2>1, <2>2
<1>3. e.date \in Nat
    <2>1. e \in rows[w] /\ e.id \in Id /\ IsRecord(e, e.id)
        BY <1>2, HeadIsRead DEF TypeInv, Thread, Read
    <2> QED
        BY <2>1, RecordHas
<1> HIDE DEF e
<1> DEFINE S == UpTo(e.date)
           T == {r \in S : r >= e.date - Lookback}
<1>4. /\ S # {} => Max(S) \in S /\ \A y \in S : y <= Max(S)
      /\ T # {} => Newest(T) \in S /\ \A y \in S : y <= Newest(T)
    BY <1>1, <1>3, LatestRate
<1> HIDE DEF S, T
<1>5. CASE FetchDirect(w)
    <2>1. /\ \/ /\ S # {} /\ got' = [got EXCEPT ![w] = Max(S)]
                /\ pc' = [pc EXCEPT ![w] = "store"]
             \/ got' = got /\ pc' = [pc EXCEPT ![w] = "earlier"]
          /\ answer' = answer
          /\ UNCHANGED <<day, published, ledger, cache, base, asked, sent, half, rows, priced,
                          touched>>
        BY <1>5 DEF FetchDirect, Goto, marketVars, S, e
    <2> QED
        BY <1>2, <1>4, <2>1 DEF S, e
<1>6. CASE FetchEarlier(w)
    <2>1. /\ \/ /\ T # {} /\ got' = [got EXCEPT ![w] = Newest(T)]
                /\ pc' = [pc EXCEPT ![w] = "store"] /\ answer' = answer
             \/ /\ T = {} /\ got' = got /\ pc' = [pc EXCEPT ![w] = "done"]
                /\ answer' = [answer EXCEPT ![w] = [status |-> "failed"]]
          /\ UNCHANGED <<day, published, ledger, cache, base, asked, sent, half, rows, priced,
                          touched>>
        BY <1>6 DEF FetchEarlier, Goto, GiveUp, marketVars, S, T, e
    <2> QED
        BY <1>2, <1>4, <2>1 DEF S, T, e
<1> QED
    BY <1>5, <1>6

LEMMA LocalsKept == TypeInv /\ [Next]_vars => Locals'
<1> SUFFICES ASSUME TypeInv, [Next]_vars PROVE Locals'
    OBVIOUS
<1>1. World /\ Locals /\ \A w \in Worker : Stage(w)
    BY DEF TypeInv, Thread
<1> USE DEF localVars, marketVars, bounds
<1>2. CASE UNCHANGED <<base, pc, asked, sent, half, rows, priced, got, answer, touched>>
    BY <1>1, <1>2 DEF Locals
<1>3. CASE NextDay \/ \E d \in RateDay : Publish(d)
    BY <1>2, <1>3 DEF NextDay, Publish
<1>4. ASSUME NEW i \in Id, NEW at \in Place, NEW c \in Content, WriteLedger(i, at, c)
      PROVE  Locals'
    BY <1>1, <1>4 DEF WriteLedger, Locals
<1>5. ASSUME NEW w \in Worker, NEW q \in Question[w], Ask(w, q) PROVE Locals'
    BY <1>1, <1>5 DEF Ask, Goto, Locals, World, Labels, Working, Converting
<1>6. ASSUME NEW p \in Process, Restart(p) PROVE Locals'
    <2>1. base' \in [Worker -> SUBSET RateDay]
        BY <1>1, <1>6 DEF Restart, Locals, World
    <2>2. pc' \in [Worker -> Labels]
        BY <1>1, <1>6 DEF Restart, Locals, Labels, Working
    <2>3. half' \in [Worker -> 1 .. 2] /\ got' \in [Worker -> RateDay \cup {0}]
        BY <1>1, <1>6 DEF Restart, Locals
    <2>4. DOMAIN rows' = Worker /\ DOMAIN priced' = Worker
        BY <1>6 DEF Restart
    <2> QED
        BY <1>1, <1>6, <2>1, <2>2, <2>3, <2>4 DEF Restart, Locals
<1>7. ASSUME NEW w \in Worker, WorkerStep(w) \/ CallFails(w) PROVE Locals'
    <2> USE DEF Goto, GiveUp, Labels, Working, Converting
    <2>1. CASE ReadExpenses(w)
        BY <1>1, <2>1 DEF ReadExpenses, Locals
    <2>2. CASE ListRecent(w)
        BY <1>1, <2>2 DEF ListRecent, Locals
    <2>3. CASE Convert(w)
        BY <1>1, <2>3 DEF Convert, Price, Locals
    <2>4. CASE FetchDirect(w) \/ FetchEarlier(w)
        <3>1. UpTo(Head1(w).date) \subseteq RateDay
            BY <1>1 DEF UpTo, World
        <3> QED
            BY <1>1, <2>4, <3>1, FetchStep DEF Locals
    <2>6. CASE Store(w)
        BY <1>1, <2>6 DEF Store, Price, Locals
    <2>7. CASE NextHalf(w)
        <3>1. half[w] + 1 \in 1 .. 2
            <4>1. pc[w] = "convert" /\ half[w] < Len(asked[w].periods) /\ half[w] \in 1 .. 2
                BY <1>1, <2>7 DEF NextHalf, Locals
            <4>2. asked[w] \in Question[w] /\ asked[w].fn # "recent"
                BY <1>1, <4>1 DEF Stage
            <4>3. Len(asked[w].periods) \in 1 .. 2
                BY <4>2, QuestionHas
            <4>4. \A h, n \in 1 .. 2 : h < n => h + 1 \in 1 .. 2
                OBVIOUS
            <4> QED
                BY <4>1, <4>3, <4>4
        <3> QED
            BY <1>1, <2>7, <3>1 DEF NextHalf, Locals
    <2>8. CASE Answer(w)
        BY <1>1, <2>8 DEF Answer, Locals
    <2>9. CASE CallFails(w)
        BY <1>1, <2>9 DEF CallFails, Locals
    <2> QED
        BY <1>7, <2>1, <2>2, <2>3, <2>4, <2>6, <2>7, <2>8, <2>9 DEF WorkerStep
<1>8. CASE UNCHANGED vars
    BY <1>2, <1>8 DEF vars
<1> QED
    BY <1>3, <1>4, <1>5, <1>6, <1>7, <1>8 DEF Next

LEMMA OthersApart ==
    ASSUME TypeInv, NEW w \in Worker, NEW v \in Worker, v # w,
           WorkerStep(w) \/ CallFails(w) \/ \E q \in Question[w] : Ask(w, q)
    PROVE  UNCHANGED Local(v)
<1>1. Locals
    BY DEF TypeInv
<1> USE DEF Locals, Goto, GiveUp, localVars, Local
<1>2. CASE CallFails(w)
    BY <1>1, <1>2 DEF CallFails
<1>3. CASE \E q \in Question[w] : Ask(w, q)
    BY <1>1, <1>3 DEF Ask
<1>4. CASE ReadExpenses(w) \/ ListRecent(w) \/ Convert(w) \/ FetchDirect(w)
    BY <1>1, <1>4 DEF ReadExpenses, ListRecent, Convert, Price, FetchDirect
<1>5. CASE FetchEarlier(w) \/ Store(w)
    BY <1>1, <1>5 DEF FetchEarlier, Store, Price
<1>6. CASE NextHalf(w) \/ Answer(w)
    BY <1>1, <1>6 DEF NextHalf, Answer
<1> QED
    BY <1>2, <1>3, <1>4, <1>5, <1>6 DEF WorkerStep

(* Records of the ledger are what they are called by.                      *)
LEMMA LedgerHas ==
    ASSUME TypeInv, NEW e \in Recorded
    PROVE  e.id \in Id /\ ledger[e.id] = e /\ IsRecord(e, e.id)
<1>1. PICK i \in Id : e = ledger[i] /\ e # None
    BY DEF Recorded
<1>2. IsRecord(e, i)
    BY <1>1 DEF TypeInv, World
<1>3. e.id = i
    BY <1>2 DEF IsRecord
<1> QED
    BY <1>1, <1>2, <1>3

LEMMA AskKeeps ==
    ASSUME TypeInv, NEW w \in Worker, NEW q \in Question[w], Ask(w, q)
    PROVE  Thread(w)'
<1>1. Thread(w) /\ World /\ Locals
    BY DEF TypeInv
<1>2. /\ pc[w] = "idle" /\ asked'[w] = q /\ sent'[w] = day /\ day \in Day
      /\ half'[w] = half[w] /\ rows'[w] = rows[w] /\ priced'[w] = priced[w] /\ got'[w] = got[w]
    BY <1>1 DEF Ask, localVars, Locals, World
<1>3. rows[w] = {} /\ priced[w] = {} /\ half[w] = 1 /\ got[w] = 0 /\ answer[w] = NoAnswer
    BY <1>1, <1>2 DEF Thread, Stage
<1>4. \/ /\ Acceptable(q, day) /\ pc'[w] = "read" /\ answer'[w] = answer[w]
      \/ /\ pc'[w] = "done" /\ answer'[w] # NoAnswer
    BY <1>1 DEF Ask, Locals, Goto, NoAnswer
<1>5. Read(w)' /\ Converted(w)' /\ Unique(w)'
    <2>1. Converted(w)'
        BY <1>2, <1>3, FS_EmptySet DEF Converted
    <2> QED
        BY <1>2, <1>3, <2>1 DEF Read, Unique
<1>6. q # NoQuestion /\ (q.fn # "recent" => 1 \in DOMAIN q.periods)
    BY QuestionHas
<1>7. Acceptable(q, day) /\ q.fn \in {"top", "recent"} => q.limit \in Nat
    BY StatisticsAssumption DEF Acceptable
<1>8. Stage(w)'
    BY <1>2, <1>3, <1>4, <1>6, <1>7 DEF Stage, Working, Converting
<1> QED
    BY <1>5, <1>8 DEF Thread

LEMMA ReadKeeps ==
    ASSUME TypeInv, NEW w \in Worker, ReadExpenses(w)
    PROVE  Thread(w)'
<1>1. Thread(w) /\ World /\ Locals
    BY DEF TypeInv
<1> DEFINE q == asked[w]
           r == Resolve(q.periods[half[w]], sent[w])
<1>2. /\ pc[w] = "read" /\ q.fn # "recent" /\ pc'[w] = "convert"
      /\ rows'[w] = {e \in Recorded : InScope(e, q) /\ InPeriod(e, r) /\ Matches(e, q)}
      /\ asked'[w] = q /\ sent'[w] = sent[w] /\ half'[w] = half[w] /\ priced'[w] = priced[w]
      /\ got'[w] = got[w] /\ answer'[w] = answer[w]
    BY <1>1 DEF ReadExpenses, Locals, Goto
<1>3. \A e \in rows'[w] : Chosen(e, q, half[w], sent[w]) /\ e \in Recorded
    BY <1>2 DEF Chosen
<1> HIDE DEF q, r
<1>4. Read(w)'
    BY <1>2, <1>3, LedgerHas DEF Read, q
<1>5. Converted(w)'
    BY <1>1, <1>2 DEF Thread, Converted, q
<1>6. Unique(w)'
    <2>1. \A e, f \in rows'[w] : e.id = f.id => e = f
        BY <1>3, LedgerHas
    <2>2. \A x \in priced[w] : x.half < half[w] /\ x.half \in Nat
        BY <1>1, <1>2 DEF Thread, Unique, Converted
    <2>3. \A x \in priced[w] : x.half # half[w]
        BY <1>1, <2>2 DEF Locals
    <2> QED
        BY <1>1, <1>2, <2>1, <2>3 DEF Thread, Unique
<1>7. Stage(w)'
    BY <1>1, <1>2 DEF Thread, Stage, Working, Converting, q
<1> QED
    BY <1>4, <1>5, <1>6, <1>7 DEF Thread

LEMMA ConvertKeeps ==
    ASSUME TypeInv, NEW w \in Worker, Convert(w)
    PROVE  Thread(w)'
<1>1. Thread(w) /\ World /\ Locals
    BY DEF TypeInv
<1> DEFINE e == Head1(w)
           d == KnownRateDay(w, e)
<1>2. /\ pc[w] = "convert" /\ rows[w] # {} /\ Known(w, e) /\ Price(w, e, d)
      /\ pc'[w] = "convert" /\ asked'[w] = asked[w] /\ sent'[w] = sent[w]
      /\ half'[w] = half[w] /\ got'[w] = got[w] /\ answer'[w] = answer[w]
    BY <1>1 DEF Convert, Locals
<1>3. d \in RateDay \cup {0} /\ (d = 0 <=> e.currency = Home)
    <2>1. ProcessOf[w] \in Process /\ 0 \notin RateDay
        BY Constants
    <2> QED
        BY <1>1, <1>2, <2>1 DEF Known, KnownRateDay, World
<1> HIDE DEF d
<1>4. Read(w)' /\ Converted(w)' /\ Unique(w)'
    BY <1>2, <1>3, PriceKeeps
<1>5. Stage(w)'
    BY <1>1, <1>2 DEF Thread, Stage, Working, Converting
<1> QED
    BY <1>4, <1>5 DEF Thread

LEMMA StoreKeeps ==
    ASSUME TypeInv, NEW w \in Worker, Store(w)
    PROVE  Thread(w)'
<1>1. Thread(w) /\ World /\ Locals
    BY DEF TypeInv
<1>2. /\ pc[w] = "store" /\ Price(w, Head1(w), got[w]) /\ got'[w] = 0
      /\ pc'[w] = "convert" /\ asked'[w] = asked[w] /\ sent'[w] = sent[w]
      /\ half'[w] = half[w] /\ answer'[w] = answer[w]
    BY <1>1 DEF Store, Locals, Goto
<1>3. rows[w] # {} /\ Head1(w).currency # Home /\ got[w] # 0 /\ got[w] \in RateDay \cup {0}
    BY <1>1, <1>2 DEF Thread, Stage, Locals
<1>4. Read(w)' /\ Converted(w)' /\ Unique(w)'
    BY <1>2, <1>3, PriceKeeps
<1>5. Stage(w)'
    BY <1>1, <1>2 DEF Thread, Stage, Working, Converting
<1> QED
    BY <1>4, <1>5 DEF Thread

LEMMA FetchKeeps ==
    ASSUME TypeInv, NEW w \in Worker, FetchDirect(w) \/ FetchEarlier(w)
    PROVE  Thread(w)'
<1>1. Thread(w) /\ World /\ Locals
    BY DEF TypeInv
<1>2. /\ pc[w] \in {"convert", "earlier"} /\ rows[w] # {} /\ Head1(w).currency # Home
      /\ got[w] = 0 /\ answer[w] = NoAnswer
    BY <1>1, FetchStep DEF Thread, Stage
<1>3. /\ asked'[w] = asked[w] /\ sent'[w] = sent[w] /\ half'[w] = half[w]
      /\ rows'[w] = rows[w] /\ priced'[w] = priced[w]
    BY FetchStep
<1>4. 0 \notin UpTo(Head1(w).date)
    BY <1>1, Constants DEF UpTo, World
<1>5. \/ pc'[w] = "store" /\ answer'[w] = NoAnswer /\ got'[w] # 0
      \/ pc'[w] = "earlier" /\ answer'[w] = NoAnswer /\ got'[w] = 0
      \/ pc'[w] = "done" /\ answer'[w] # NoAnswer /\ got'[w] = 0
    BY <1>1, <1>2, <1>4, FetchStep DEF Locals, NoAnswer
<1>6. Stage(w)'
    BY <1>1, <1>2, <1>3, <1>5 DEF Thread, Stage, Working, Converting, Head1
<1>7. Read(w)' /\ Converted(w)' /\ Unique(w)'
    BY <1>1, <1>2, <1>3, <1>5 DEF Thread, Read, Converted, Unique
<1> QED
    BY <1>6, <1>7 DEF Thread

(* It is answered, and what it had in hand is left as it was.              *)
LEMMA EndKeeps ==
    ASSUME TypeInv, NEW w \in Worker, ListRecent(w) \/ Answer(w) \/ CallFails(w)
    PROVE  Thread(w)'
<1>1. Thread(w) /\ World /\ Locals
    BY DEF TypeInv
<1>2. /\ pc[w] \in {"read", "convert", "earlier"} /\ pc'[w] = "done" /\ got'[w] = got[w]
      /\ asked'[w] = asked[w] /\ sent'[w] = sent[w] /\ half'[w] = half[w]
      /\ rows'[w] = rows[w] /\ priced'[w] = priced[w]
    BY <1>1 DEF ListRecent, Answer, CallFails, GiveUp, Goto, Locals, localVars
<1>3. answer'[w] # NoAnswer
    <2>1. CASE ListRecent(w)
        BY <1>1, <2>1 DEF ListRecent, Locals, NoAnswer
    <2>2. CASE CallFails(w)
        BY <1>1, <2>2 DEF CallFails, GiveUp, Locals, NoAnswer
    <2>3. CASE Answer(w)
        <3>1. asked[w] \in Question[w] /\ asked[w].fn # "recent"
            BY <1>1, <2>3 DEF Answer, Thread, Stage, Converting
        <3>2. asked[w].fn \in {"summary", "compare", "top"}
            BY <3>1, QuestionHas
        <3>3. answer'[w].status \in {"sums", "top"}
            BY <1>1, <2>3, <3>2 DEF Answer, Locals
        <3> QED
            BY <3>3 DEF NoAnswer
    <2> QED
        BY <2>1, <2>2, <2>3
<1>4. Stage(w)'
    BY <1>1, <1>2, <1>3 DEF Thread, Stage, Working, Converting
<1>5. Read(w)' /\ Converted(w)' /\ Unique(w)'
    BY <1>1, <1>2 DEF Thread, Read, Converted, Unique
<1> QED
    BY <1>4, <1>5 DEF Thread

LEMMA NextHalfKeeps ==
    ASSUME TypeInv, NEW w \in Worker, NextHalf(w)
    PROVE  Thread(w)'
<1>1. Thread(w) /\ World /\ Locals
    BY DEF TypeInv
<1>2. /\ pc[w] = "convert" /\ rows[w] = {} /\ half[w] < Len(asked[w].periods)
      /\ pc'[w] = "read" /\ half'[w] = half[w] + 1 /\ got'[w] = got[w]
      /\ asked'[w] = asked[w] /\ sent'[w] = sent[w]
      /\ rows'[w] = rows[w] /\ priced'[w] = priced[w] /\ answer'[w] = answer[w]
    BY <1>1 DEF NextHalf, Goto, Locals
<1>3. half[w] \in 1 .. 2 /\ asked[w] \in Question[w] /\ asked[w].fn # "recent"
    BY <1>1, <1>2 DEF Thread, Stage, Locals, Converting
<1>4. half'[w] \in DOMAIN asked[w].periods
    BY <1>2, <1>3, QuestionHas
<1>5. Stage(w)'
    BY <1>1, <1>2, <1>4 DEF Thread, Stage, Working, Converting
<1>6. Read(w)'
    BY <1>2 DEF Read
<1>7. \A x \in priced[w] : x.half \in 1 .. half'[w] /\ x.half < half'[w]
    BY <1>1, <1>2, <1>3 DEF Thread, Converted
<1>8. Converted(w)'
    BY <1>1, <1>2, <1>7 DEF Thread, Converted
<1>9. Unique(w)'
    BY <1>1, <1>2, <1>7 DEF Thread, Unique
<1> QED
    BY <1>5, <1>6, <1>8, <1>9 DEF Thread

LEMMA RestartKeeps ==
    ASSUME TypeInv, NEW p \in Process, Restart(p), NEW w \in Worker
    PROVE  Thread(w)'
<1>1. Thread(w) /\ World /\ Locals
    BY DEF TypeInv
<1> DEFINE lost == ProcessOf[w] = p /\ pc[w] \notin {"idle", "done"}
<1>2. CASE ~lost
    <2>1. UNCHANGED Local(w)
        BY <1>2 DEF Restart, Local
    <2> QED
        BY <1>1, <2>1, SameThread
<1>3. CASE lost
    <2>1. /\ pc'[w] = "read" /\ half'[w] = 1 /\ rows'[w] = {} /\ priced'[w] = {} /\ got'[w] = 0
          /\ asked'[w] = asked[w] /\ sent'[w] = sent[w] /\ answer'[w] = answer[w]
        BY <1>3 DEF Restart
    <2>2. pc[w] \in Working
        BY <1>1, <1>3 DEF Locals, Labels
    <2>3. asked[w] \in Question[w] /\ answer[w] = NoAnswer
        BY <1>1, <1>3 DEF Thread, Stage
    <2>4. asked[w].fn # "recent" => 1 \in DOMAIN asked[w].periods
        BY <2>3, QuestionHas
    <2>5. Stage(w)'
        BY <1>1, <1>3, <2>1, <2>2, <2>3, <2>4 DEF Thread, Stage, Working, Converting
    <2>6. Converted(w)'
        BY <2>1, FS_EmptySet DEF Converted
    <2>7. Read(w)' /\ Unique(w)'
        BY <2>1 DEF Read, Unique
    <2> QED
        BY <2>5, <2>6, <2>7 DEF Thread
<1> QED
    BY <1>2, <1>3

LEMMA ThreadsKept ==
    ASSUME TypeInv, [Next]_vars, NEW v \in Worker PROVE Thread(v)'
<1>1. Thread(v)
    BY DEF TypeInv
<1>2. CASE UNCHANGED Local(v)
    BY <1>1, <1>2, SameThread
<1>3. CASE NextDay \/ (\E d \in RateDay : Publish(d)) \/ UNCHANGED vars
    BY <1>2, <1>3 DEF NextDay, Publish, Local, localVars, vars
<1>4. ASSUME NEW i \in Id, NEW at \in Place, NEW c \in Content, WriteLedger(i, at, c)
      PROVE  Thread(v)'
    BY <1>2, <1>4 DEF WriteLedger, Local, localVars
<1>5. ASSUME NEW w \in Worker, NEW q \in Question[w], Ask(w, q) PROVE Thread(v)'
    BY <1>2, <1>5, AskKeeps, OthersApart
<1>6. ASSUME NEW w \in Worker, WorkerStep(w) \/ CallFails(w) PROVE Thread(v)'
    <2>1. CASE v # w
        BY <1>2, <1>6, <2>1, OthersApart
    <2>2. CASE v = w
        BY <1>6, <2>2, ReadKeeps, ConvertKeeps, StoreKeeps, FetchKeeps, EndKeeps, NextHalfKeeps
        DEF WorkerStep
    <2> QED
        BY <2>1, <2>2
<1>7. ASSUME NEW p \in Process, Restart(p) PROVE Thread(v)'
    BY <1>7, RestartKeeps
<1> QED
    BY <1>3, <1>4, <1>5, <1>6, <1>7 DEF Next

LEMMA TypeStep == TypeInv /\ [Next]_vars => TypeInv'
<1> SUFFICES ASSUME TypeInv, [Next]_vars PROVE TypeInv'
    OBVIOUS
<1> QED
    BY WorldKept, LocalsKept, ThreadsKept DEF TypeInv

(* Every variable has its type: in particular a thread that waits for a    *)
(* rate has a record to convert, and an amount it has converted is one of  *)
(* a period that it has read.                                              *)
THEOREM StatisticsTypes == Spec => []StatisticsTypeOK
<1>1. TypeInv => StatisticsTypeOK
    <2> SUFFICES ASSUME TypeInv PROVE StatisticsTypeOK
        OBVIOUS
    <2>1. World /\ Locals /\ \A w \in Worker : Thread(w)
        BY DEF TypeInv
    <2>2. \A p \in Process : DOMAIN cache[p] \subseteq Foreign \X Nat
        <3>1. Day \subseteq Nat
            BY Constants
        <3>2. \A p \in Process : DOMAIN cache[p] \subseteq Foreign \X Day
            BY <2>1 DEF World
        <3> QED
            BY <3>1, <3>2
    <2>3. pc \in [Worker -> {"idle", "read", "convert", "earlier", "store", "done"}]
        BY <2>1 DEF Locals, Labels, Working, Converting
    <2>4. ASSUME NEW w \in Worker
          PROVE  /\ asked[w] \in Question[w] \cup {NoQuestion}
                 /\ pc[w] = "done" <=> answer[w] # NoAnswer
                 /\ pc[w] = "idle" <=> asked[w] = NoQuestion
                 /\ got[w] # 0 <=> pc[w] = "store"
                 /\ \A x \in priced[w] : x.half \in 1 .. half[w] /\ x.worth \in Nat \ {0}
                 /\ touched[w] \subseteq Id
        BY <2>1 DEF Locals, Thread, Stage, Converted
    <2> QED
        BY <2>1, <2>2, <2>3, <2>4 DEF StatisticsTypeOK, World, Locals
<1> QED
    BY <1>1, TypeInit, TypeStep, PTL DEF Spec

-----------------------------------------------------------------------------
(* Scope *)

(* What the list of recent expenses is made from, and that it is its first.*)
RecentOf(q) == {e \in Recorded : InScope(e, q) /\ Matches(e, q)}

LEMMA RecentHas ==
    ASSUME TypeInv, NEW q, q.limit \in Nat
    PROVE  /\ IsFiniteSet(RecentOf(q)) /\ TotalOrder(RecentOf(q), NewerIn(RecentOf(q)))
           /\ IsFirst(Recent(q), RecentOf(q), NewerIn(RecentOf(q)), q.limit)
<1> DEFINE S == RecentOf(q)
           T == {ledger[i] : i \in Id}
           f == [i \in Id |-> ledger[i]]
<1>1. IsFiniteSet(T)
    <2>1. f \in Surjection(Id, T)
        BY DEF Surjection
    <2> HIDE DEF T, f
    <2> QED
        BY <2>1, Constants, FS_Surjection
<1>2. S \subseteq Recorded /\ Recorded \subseteq T
    BY DEF RecentOf, Recorded
<1> HIDE DEF S, T
<1>3. IsFiniteSet(S)
    BY <1>1, <1>2, FS_Subset
<1>4. \A e \in S : e.date \in Nat /\ e.made \in Nat
    BY <1>2, LedgerHas, RecordHas
<1>5. \A e, f1 \in S : e.made = f1.made => e = f1
    BY <1>2, LedgerHas, RecordHas
<1>6. TotalOrder(S, NewerIn(S)) /\ IsFirst(Least(S, Newer, q.limit), S, NewerIn(S), q.limit)
    BY <1>3, <1>4, <1>5, RecentAreFirst
<1>7. Recent(q) = Least(S, Newer, q.limit)
    BY DEF Recent, S, RecentOf
<1> QED
    BY <1>3, <1>6, <1>7 DEF S

(* Once it has answered, a thread keeps its question and what it answered. *)
LEMMA AnsweredStays ==
    ASSUME TypeInv, [Next]_vars, NEW w \in Worker, answer[w] # NoAnswer
    PROVE  UNCHANGED Local(w)
<1>1. pc[w] = "done"
    BY DEF TypeInv, Thread, Stage
<1>2. CASE NextDay \/ (\E d \in RateDay : Publish(d)) \/ UNCHANGED vars
    BY <1>2 DEF NextDay, Publish, Local, localVars, vars
<1>3. CASE \E i \in Id, at \in Place, c \in Content : WriteLedger(i, at, c)
    BY <1>3 DEF WriteLedger, Local, localVars
<1>4. ASSUME NEW v \in Worker, WorkerStep(v) \/ CallFails(v) \/ \E q \in Question[v] : Ask(v, q)
      PROVE  UNCHANGED Local(w)
    <2>1. pc[v] # "done"
        <3>1. CASE FetchDirect(v) \/ FetchEarlier(v)
            BY <3>1, FetchStep
        <3>2. CASE ~(FetchDirect(v) \/ FetchEarlier(v))
            BY <1>4, <3>2 DEF WorkerStep, CallFails, Ask, ReadExpenses, ListRecent, Convert,
                              Store, NextHalf, Answer
        <3> QED
            BY <3>1, <3>2
    <2> QED
        BY <1>1, <1>4, <2>1, OthersApart
<1>5. ASSUME NEW p \in Process, Restart(p) PROVE UNCHANGED Local(w)
    BY <1>1, <1>5 DEF Restart, Local
<1> QED
    BY <1>2, <1>3, <1>4, <1>5 DEF Next

(* Nobody but the thread itself answers, and it answers in one of the ways *)
(* it may.                                                                 *)
LEMMA NewAnswer ==
    ASSUME TypeInv, [Next]_vars, NEW w \in Worker, answer[w] = NoAnswer, answer'[w] # NoAnswer
    PROVE  \/ ListRecent(w) \/ Answer(w) \/ CallFails(w) \/ FetchEarlier(w)
           \/ \E q \in Question[w] : Ask(w, q) /\ answer'[w] = [status |-> "refused"]
<1>1. UNCHANGED answer => FALSE
    OBVIOUS
<1>2. CASE NextDay \/ (\E d \in RateDay : Publish(d)) \/ UNCHANGED vars
    BY <1>1, <1>2 DEF NextDay, Publish, vars
<1>3. CASE \E i \in Id, at \in Place, c \in Content : WriteLedger(i, at, c)
    BY <1>1, <1>3 DEF WriteLedger
<1>4. CASE \E p \in Process : Restart(p)
    BY <1>1, <1>4 DEF Restart
<1>5. ASSUME NEW v \in Worker, WorkerStep(v) \/ CallFails(v) \/ \E q \in Question[v] : Ask(v, q)
      PROVE  v = w
    BY <1>5, OthersApart DEF Local
<1>6. CASE \E v \in Worker : WorkerStep(v) \/ CallFails(v)
    <2>1. WorkerStep(w) \/ CallFails(w)
        BY <1>5, <1>6
    <2> QED
        BY <1>1, <2>1 DEF WorkerStep, ReadExpenses, Convert, FetchDirect, Store, NextHalf
<1>7. CASE \E v \in Worker : \E q \in Question[v] : Ask(v, q)
    <2>1. PICK q \in Question[w] : Ask(w, q)
        BY <1>5, <1>7
    <2>2. answer'[w] = [status |-> "refused"]
        BY <1>1, <2>1 DEF Ask, TypeInv, Locals
    <2> QED
        BY <2>1, <2>2
<1> QED
    BY <1>2, <1>3, <1>4, <1>6, <1>7 DEF Next

LEMMA ListedStep ==
    ASSUME TypeInv, [Next]_vars, ListedInScope PROVE ListedInScope'
<1> SUFFICES ASSUME NEW w \in Worker, answer'[w].status = "list",
                    NEW k \in DOMAIN answer'[w].list
             PROVE  InScope(answer'[w].list[k], asked'[w])
    BY DEF ListedInScope
<1>1. CASE answer[w] # NoAnswer
    BY <1>1, AnsweredStays DEF ListedInScope, Local
<1>2. CASE answer[w] = NoAnswer
    <2>1. answer'[w] # NoAnswer
        BY DEF NoAnswer
    <2>2. ListRecent(w)
        <3>1. CASE Answer(w)
            <4>1. asked[w] \in Question[w] /\ asked[w].fn # "recent"
                BY <3>1 DEF Answer, TypeInv, Thread, Stage, Converting
            <4>2. asked[w].fn \in {"summary", "compare", "top"}
                BY <4>1, QuestionHas
            <4> QED
                BY <3>1, <4>2 DEF Answer, TypeInv, Locals
        <3>2. CASE CallFails(w) \/ FetchEarlier(w)
            BY <2>1, <1>2, <3>2 DEF CallFails, FetchEarlier, GiveUp, TypeInv, Locals
        <3> QED
            BY <1>2, <2>1, <3>1, <3>2, NewAnswer
    <2>3. /\ answer'[w] = [status |-> "list", list |-> Recent(asked[w])]
          /\ asked'[w] = asked[w]
          /\ asked[w].limit \in Nat
        BY <2>2 DEF ListRecent, TypeInv, Locals, Thread, Stage, Working
    <2>4. /\ IsFiniteSet(RecentOf(asked[w]))
          /\ TotalOrder(RecentOf(asked[w]), NewerIn(RecentOf(asked[w])))
          /\ IsFirst(Recent(asked[w]), RecentOf(asked[w]), NewerIn(RecentOf(asked[w])),
                     asked[w].limit)
        BY <2>3, RecentHas
    <2>5. Recent(asked[w])[k] \in RecentOf(asked[w])
        <3> DEFINE S == RecentOf(asked[w])
                   R == NewerIn(S)
                   L == Recent(asked[w])
                   n == asked[w].limit
        <3>1. k \in DOMAIN L /\ n \in Nat
            BY <2>3
        <3>2. IsFiniteSet(S) /\ TotalOrder(S, R) /\ IsFirst(L, S, R, n)
            BY <2>4
        <3> HIDE DEF S, R, L, n
        <3>3. \A j \in DOMAIN L : L[j] \in S
            BY <3>1, <3>2, FirstOfAll
        <3> QED
            BY <3>1, <3>3 DEF S, L
    <2> QED
        BY <2>3, <2>5 DEF RecentOf
<1> QED
    BY <1>1, <1>2

(* What a group is told was recorded in that group, and what somebody is   *)
(* told who asks in private or for their own was recorded by them: of      *)
(* every record that an answer is made from, whatever is written meanwhile.*)
THEOREM ScopeIsKept == Spec => []AnswersStayInScope
<1>1. Init => ListedInScope
    BY DEF Init, ListedInScope, NoAnswer
<1>2. TypeInv /\ ListedInScope /\ [Next]_vars => ListedInScope'
    BY ListedStep
<1>3. TypeInv /\ ListedInScope => AnswersStayInScope
    <2> SUFFICES ASSUME TypeInv, ListedInScope, NEW w \in Worker, NEW e \in Shown(w)
                 PROVE  InScope(e, asked[w])
        BY DEF AnswersStayInScope, InScope
    <2>1. CASE \E x \in priced[w] : e = x.row
        BY <2>1 DEF TypeInv, Thread, Converted, Chosen
    <2>2. CASE ~(\E x \in priced[w] : e = x.row)
        BY <2>2 DEF Shown, ListedInScope
    <2> QED
        BY <2>1, <2>2
<1> QED
    BY <1>1, <1>2, <1>3, TypeInit, TypeStep, PTL DEF Spec

-----------------------------------------------------------------------------
(* The calendar *)

(* The first days of months up to a day.                                   *)
Months(d) == {m \in MonthStart : m <= d}

LEMMA MonthsAre ==
    ASSUME NEW d \in Nat
    PROVE  /\ Months(d) \subseteq Nat /\ IsFiniteSet(Months(d))
           /\ MonthOf(d) = Cardinality(Months(d)) /\ MonthOf(d) \in Nat
           /\ Months(d) # {} =>
                  MonthFirst(d) \in Months(d) /\ \A m \in Months(d) : m <= MonthFirst(d)
<1> DEFINE M == Months(d)
<1>1. M \subseteq Nat /\ \A m \in M : m <= d
    BY StatisticsAssumption DEF Months
<1> HIDE DEF M
<1>2. IsFiniteSet(M)
    BY <1>1, FS_BoundedSetOfNaturals
<1>3. Cardinality(M) \in Nat
    BY <1>2, FS_CardinalityType
<1>4. M # {} => Max(M) \in M /\ \A m \in M : Max(M) >= m
    BY <1>1, MaxIsIn
<1>5. \A m \in M : m \in Nat
    BY <1>1
<1> QED
    BY <1>1, <1>2, <1>3, <1>4, <1>5 DEF M, Months, MonthOf, MonthFirst

(* No month begins between two days of one month, and one does between     *)
(* days of two.                                                            *)
LEMMA MonthsGrow ==
    ASSUME NEW c \in Nat, NEW d \in Nat, c <= d
    PROVE  /\ MonthOf(c) <= MonthOf(d)
           /\ MonthOf(c) = MonthOf(d) <=> Months(c) = Months(d)
<1>1. Months(c) \subseteq Months(d)
    <2>1. ASSUME NEW m \in Months(c) PROVE m \in MonthStart /\ m <= d
        <3>1. m \in Nat /\ m \in MonthStart /\ m <= c
            BY MonthsAre DEF Months
        <3> QED
            BY <3>1
    <2> QED
        BY <2>1 DEF Months
<1>2. /\ IsFiniteSet(Months(d)) /\ MonthOf(c) = Cardinality(Months(c))
      /\ MonthOf(d) = Cardinality(Months(d))
    BY MonthsAre
<1> QED
    BY <1>1, <1>2, FS_Subset

LEMMA ThisMonth ==
    ASSUME NEW t \in Nat, Months(t) # {}, NEW d \in Nat
    PROVE  MonthFirst(t) <= d /\ d <= t <=> MonthOf(d) = MonthOf(t) /\ d <= t
<1>1. MonthFirst(t) \in Months(t) /\ MonthFirst(t) \in Nat /\ MonthFirst(t) <= t
      /\ \A m \in Months(t) : m <= MonthFirst(t)
    BY MonthsAre DEF Months
<1>2. SUFFICES ASSUME d <= t PROVE MonthFirst(t) <= d <=> Months(d) = Months(t)
    BY MonthsGrow
<1>3. ASSUME MonthFirst(t) <= d PROVE Months(d) = Months(t)
    <2>1. ASSUME NEW m \in Months(t) PROVE m <= d
        <3>1. m \in Nat /\ m <= MonthFirst(t)
            BY <1>1, MonthsAre
        <3> QED
            BY <1>1, <1>3, <3>1
    <2>2. ASSUME NEW m \in Months(d) PROVE m \in Months(t)
        <3>1. m \in Nat /\ m \in MonthStart /\ m <= d
            BY MonthsAre DEF Months
        <3>2. m <= t
            BY <1>2, <3>1
        <3> QED
            BY <3>1, <3>2 DEF Months
    <2> QED
        BY <2>1, <2>2 DEF Months
<1>4. ASSUME Months(d) = Months(t) PROVE MonthFirst(t) <= d
    BY <1>1, <1>4 DEF Months
<1> QED
    BY <1>3, <1>4

(* The month before that of t: those up to the day before its first.       *)
LEMMA MonthBefore ==
    ASSUME NEW t \in Nat, MonthOf(t) >= 2
    PROVE  /\ Months(t) # {} /\ MonthFirst(t) - 1 \in Nat /\ Months(MonthFirst(t) - 1) # {}
           /\ MonthOf(MonthFirst(t) - 1) = MonthOf(t) - 1
<1> DEFINE f == MonthFirst(t)
<1>0. IsFiniteSet(Months(t)) /\ MonthOf(t) = Cardinality(Months(t))
    BY MonthsAre
<1>1. Months(t) # {}
    BY <1>0, FS_EmptySet
<1>2. f \in Months(t) /\ f \in Nat /\ f <= t /\ \A m \in Months(t) : m <= f
    BY <1>1, MonthsAre DEF Months
<1> HIDE DEF f
<1>3. Cardinality(Months(t) \ {f}) = MonthOf(t) - 1
    BY <1>0, <1>2, FS_RemoveElement
<1>4. Months(t) \ {f} # {}
    <2>1. Cardinality({}) = 0 /\ MonthOf(t) - 1 # 0
        BY FS_EmptySet, MonthsAre
    <2> QED
        BY <1>3, <2>1
<1>5. PICK m \in Months(t) : m # f
    BY <1>4
<1>6. m \in Nat /\ m <= f /\ f - 1 \in Nat
    BY <1>2, <1>5, MonthsAre
<1>7. Months(f - 1) = Months(t) \ {f}
    <2>1. ASSUME NEW x \in MonthStart PROVE x <= f - 1 <=> x <= t /\ x # f
        <3>1. x \in Nat
            BY StatisticsAssumption
        <3>2. x <= t => x <= f
            BY <1>2 DEF Months
        <3> QED
            BY <1>2, <1>6, <3>1, <3>2
    <2> QED
        BY <2>1 DEF Months
<1> QED
    BY <1>1, <1>3, <1>4, <1>6, <1>7, MonthsAre DEF f

(* resolve_period gives the first and the last of the days that a period   *)
(* means, whatever day it is.                                              *)
LEMMA PeriodsAreRight ==
    ASSUME NEW p \in Period, NEW t \in Day, NEW e, e.date \in Day
    PROVE  InPeriod(e, Resolve(p, t)) <=> e.date \in DaysOf(p, t)
<1> DEFINE d == e.date
<1>1. d \in Nat /\ t \in Nat /\ MonthOf(t) >= 2 /\ d \in Day
    BY StatisticsAssumption, Constants DEF MonthOf
<1>2. p.kind \in Kind \/ (p.kind = "custom" /\ p.from \in Nat /\ p.to \in Nat)
    BY DEF Period
<1>3. CASE p.kind = "today"
    <2>1. Resolve(p, t) = <<t, t>>
        BY <1>3 DEF Resolve
    <2>2. d \in DaysOf(p, t) <=> d = t
        BY <1>1, <1>3 DEF DaysOf
    <2> QED
        BY <1>1, <2>1, <2>2 DEF InPeriod
<1>4. CASE p.kind = "yesterday"
    <2>1. Resolve(p, t) = <<t - 1, t - 1>>
        BY <1>4 DEF Resolve
    <2>2. d \in DaysOf(p, t) <=> d + 1 = t
        BY <1>1, <1>4 DEF DaysOf
    <2> QED
        BY <1>1, <2>1, <2>2 DEF InPeriod
<1>5. CASE p.kind = "this_week"
    <2>1. Resolve(p, t) = <<t - (t % 7), t>>
        BY <1>5 DEF Resolve, Monday
    <2>2. d \in DaysOf(p, t) <=> d \div 7 = t \div 7 /\ d <= t
        BY <1>1, <1>5 DEF DaysOf
    <2>3. d >= t - (t % 7) /\ d <= t <=> d \div 7 = t \div 7 /\ d <= t
        BY <1>1
    <2> QED
        BY <2>1, <2>2, <2>3 DEF InPeriod
<1>6. CASE p.kind = "last_week"
    <2>1. Resolve(p, t) = <<t - (t % 7) - 7, t - (t % 7) - 1>>
        BY <1>6 DEF Resolve, Monday
    <2>2. d \in DaysOf(p, t) <=> d \div 7 = (t \div 7) - 1
        BY <1>1, <1>6 DEF DaysOf
    <2>3. d >= t - (t % 7) - 7 /\ d <= t - (t % 7) - 1 <=> d \div 7 = (t \div 7) - 1
        BY <1>1
    <2> QED
        BY <2>1, <2>2, <2>3 DEF InPeriod
<1>7. CASE p.kind = "this_month"
    <2>1. Resolve(p, t) = <<MonthFirst(t), t>>
        BY <1>7 DEF Resolve
    <2>2. d \in DaysOf(p, t) <=> MonthOf(d) = MonthOf(t) /\ d <= t
        BY <1>1, <1>7 DEF DaysOf
    <2>3. Months(t) # {} /\ MonthFirst(t) \in Nat
        BY <1>1, MonthBefore, MonthsAre
    <2>4. MonthFirst(t) <= d /\ d <= t <=> MonthOf(d) = MonthOf(t) /\ d <= t
        BY <1>1, <2>3, ThisMonth
    <2>5. d >= MonthFirst(t) <=> MonthFirst(t) <= d
        BY <1>1, <2>3
    <2> HIDE DEF d
    <2> QED
        BY <2>1, <2>2, <2>4, <2>5 DEF InPeriod, d
<1>8. CASE p.kind = "last_month"
    <2> DEFINE f == MonthFirst(t)
               g == MonthFirst(f - 1)
    <2>1. Resolve(p, t) = <<g, f - 1>>
        BY <1>8 DEF Resolve
    <2>2. d \in DaysOf(p, t) <=> MonthOf(d) = MonthOf(t) - 1
        BY <1>1, <1>8 DEF DaysOf
    <2>3. /\ Months(t) # {} /\ f - 1 \in Nat /\ Months(f - 1) # {}
          /\ MonthOf(f - 1) = MonthOf(t) - 1
        BY <1>1, MonthBefore
    <2>4. f \in Nat /\ g \in Nat /\ f <= t /\ \A m \in Months(t) : m <= f
        BY <1>1, <2>3, MonthsAre DEF Months
    <2> HIDE DEF d, f, g
    <2>5. g <= d /\ d <= f - 1 <=> MonthOf(d) = MonthOf(f - 1) /\ d <= f - 1
        BY <1>1, <2>3, ThisMonth DEF g
    <2>6. ASSUME ~(d <= f - 1) PROVE MonthOf(d) # MonthOf(t) - 1
        <3>1. f <= d /\ f \in Nat
            BY <1>1, <2>4, <2>6
        <3>2. MonthOf(f) <= MonthOf(d) /\ MonthOf(d) \in Nat /\ MonthOf(f) \in Nat
            BY <1>1, <3>1, MonthsGrow, MonthsAre
        <3>3. MonthOf(f) = MonthOf(t)
            BY <1>1, <2>3, <2>4, ThisMonth DEF f
        <3> QED
            BY <3>2, <3>3
    <2>7. g <= d /\ d <= f - 1 <=> MonthOf(d) = MonthOf(t) - 1
        BY <2>3, <2>5, <2>6
    <2>8. d >= g <=> g <= d
        BY <1>1, <2>4
    <2> QED
        BY <2>1, <2>2, <2>7, <2>8 DEF InPeriod, d
<1>9. CASE p.kind = "custom"
    <2>1. Resolve(p, t) = <<p.from, p.to>>
        BY <1>9 DEF Resolve
    <2>2. d \in DaysOf(p, t) <=> d \in p.from .. p.to
        BY <1>1, <1>9 DEF DaysOf
    <2>3. p.from \in Nat /\ p.to \in Nat
        BY <1>2, <1>9 DEF Kind
    <2> QED
        BY <1>1, <2>1, <2>2, <2>3 DEF InPeriod
<1> QED
    BY <1>2, <1>3, <1>4, <1>5, <1>6, <1>7, <1>8, <1>9 DEF Kind

-----------------------------------------------------------------------------
(* Every period counts its expenses *)

(* A thread that is at rest, while others write.                           *)
LEMMA PeriodsRest ==
    ASSUME TypeInv, [Next]_vars, NEW w \in Worker, Accounted(w), UNCHANGED Local(w),
           touched[w] \subseteq touched'[w],
           \A i \in Id \ touched'[w] : ledger'[i] = ledger[i]
    PROVE  Accounted(w)'
<1>1. /\ pc'[w] = pc[w] /\ asked'[w] = asked[w] /\ sent'[w] = sent[w] /\ half'[w] = half[w]
      /\ rows'[w] = rows[w] /\ priced'[w] = priced[w] /\ answer'[w] = answer[w]
    BY DEF Local
<1>2. Complete(w)'
    BY <1>1 DEF Accounted, Complete, HasRead, InHand
<1>3. Finished(w)'
    BY <1>1 DEF Accounted, Finished
<1>4. AsRead(w)'
    <2>1. \A e \in rows[w] : e.id \in Id
        BY DEF TypeInv, Thread, Read
    <2> QED
        BY <1>1, <2>1 DEF Accounted, AsRead
<1> QED
    BY <1>2, <1>3, <1>4 DEF Accounted

(* What a thread has in hand stays in hand when it prices a record.        *)
LEMMA PricedInHand ==
    ASSUME TypeInv, NEW w \in Worker, NEW d, Price(w, Head1(w), d), half'[w] = half[w],
           rows[w] # {}, NEW k, NEW e, InHand(w, k, e)
    PROVE  InHand(w, k, e)'
<1> DEFINE h == Head1(w)
           x == [half |-> half[w], row |-> h, rateDay |-> d, worth |-> Worth(h, d)]
<1>1. rows'[w] = rows[w] \ {h} /\ priced'[w] = priced[w] \cup {x}
    BY DEF Price, TypeInv, Locals
<1>2. x.half = half[w] /\ x.row = h
    OBVIOUS
<1> HIDE DEF h, x
<1> QED
    BY <1>1, <1>2 DEF InHand

(* A step of a thread after which it has read no more periods and has all  *)
(* that it had in hand.                                                    *)
LEMMA PeriodsOn ==
    ASSUME TypeInv, NEW w \in Worker, Accounted(w), pc[w] # "idle",
           asked'[w] = asked[w], sent'[w] = sent[w],
           touched'[w] = touched[w], ledger' = ledger,
           \A k \in DOMAIN asked[w].periods : HasRead(w, k)' => HasRead(w, k),
           \A k, e : HasRead(w, k)' /\ InHand(w, k, e) => InHand(w, k, e)'
    PROVE  Complete(w)'
<1> SUFFICES ASSUME NEW k \in DOMAIN asked[w].periods, HasRead(w, k)', NEW i \in Id \ touched[w],
                    ledger[i] # None, Chosen(ledger[i], asked[w], k, sent[w])
             PROVE  InHand(w, k, ledger[i])'
    BY DEF Complete
<1>1. InHand(w, k, ledger[i])
    BY DEF Accounted, Complete
<1> QED
    BY <1>1

LEMMA PeriodsAsk ==
    ASSUME TypeInv, NEW w \in Worker, NEW q \in Question[w], Ask(w, q), Accounted(w)
    PROVE  Accounted(w)'
<1>1. Thread(w) /\ Locals
    BY DEF TypeInv
<1>2. /\ pc[w] = "idle" /\ asked'[w] = q /\ half'[w] = half[w] /\ rows'[w] = rows[w]
      /\ pc'[w] \in {"read", "done"} /\ answer'[w].status \notin {"sums", "top"}
    BY <1>1 DEF Ask, localVars, Locals, Goto, Thread, Stage, NoAnswer
<1>3. rows[w] = {} /\ half[w] = 1
    BY <1>1, <1>2 DEF Thread, Stage
<1>4. \A k \in DOMAIN q.periods : ~HasRead(w, k)'
    <2>1. \A k \in DOMAIN q.periods : ~(k < 1)
        BY QuestionHas
    <2> QED
        BY <1>2, <1>3, <2>1 DEF HasRead, Converting
<1> QED
    BY <1>2, <1>3, <1>4 DEF Accounted, Complete, Finished, AsRead

LEMMA PeriodsRead ==
    ASSUME TypeInv, NEW w \in Worker, ReadExpenses(w), Accounted(w)
    PROVE  Accounted(w)'
<1>1. Thread(w) /\ Locals
    BY DEF TypeInv
<1> DEFINE q == asked[w]
           r == Resolve(q.periods[half[w]], sent[w])
<1>2. /\ pc[w] = "read" /\ pc'[w] = "convert"
      /\ rows'[w] = {e \in Recorded : InScope(e, q) /\ InPeriod(e, r) /\ Matches(e, q)}
      /\ asked'[w] = q /\ sent'[w] = sent[w] /\ half'[w] = half[w] /\ priced'[w] = priced[w]
      /\ answer'[w] = answer[w] /\ touched'[w] = touched[w] /\ ledger' = ledger
    BY <1>1 DEF ReadExpenses, Locals, Goto
<1>3. answer[w] = NoAnswer /\ rows[w] = {} /\ half[w] \in 1 .. 2
    BY <1>1, <1>2 DEF Thread, Stage, Locals
<1>4. Complete(w)'
    <2> SUFFICES ASSUME NEW k \in DOMAIN q.periods, HasRead(w, k)', NEW i \in Id \ touched[w],
                        ledger[i] # None, Chosen(ledger[i], q, k, sent[w])
                 PROVE  InHand(w, k, ledger[i])'
        BY <1>2 DEF Complete
    <2>1. CASE k = half[w]
        <3>1. ledger[i] \in Recorded
            BY DEF Recorded
        <3>2. ledger[i] \in rows'[w]
            BY <1>2, <2>1, <3>1 DEF Chosen
        <3> QED
            BY <1>2, <2>1, <3>2 DEF InHand
    <2>2. CASE k # half[w]
        <3>1. HasRead(w, k)
            BY <1>2, <2>2 DEF HasRead
        <3>2. InHand(w, k, ledger[i])
            BY <1>2, <3>1 DEF Accounted, Complete
        <3> QED
            BY <1>2, <2>2, <3>2 DEF InHand
    <2> QED
        BY <2>1, <2>2
<1>5. Finished(w)'
    BY <1>2, <1>3 DEF Finished, NoAnswer
<1>6. AsRead(w)'
    BY <1>2, LedgerHas DEF AsRead
<1> QED
    BY <1>4, <1>5, <1>6 DEF Accounted

LEMMA PeriodsConvert ==
    ASSUME TypeInv, NEW w \in Worker, Convert(w) \/ Store(w), Accounted(w)
    PROVE  Accounted(w)'
<1>1. Thread(w) /\ Locals
    BY DEF TypeInv
<1>2. PICK d : Price(w, Head1(w), d)
    BY DEF Convert, Store
<1>3. /\ pc[w] \in {"convert", "store"} /\ pc'[w] = "convert" /\ asked'[w] = asked[w]
      /\ sent'[w] = sent[w] /\ half'[w] = half[w] /\ touched'[w] = touched[w]
      /\ ledger' = ledger /\ answer'[w] = answer[w]
    BY <1>1 DEF Convert, Store, Locals, Goto
<1>4. rows[w] # {} /\ answer[w] = NoAnswer
    <2>1. answer[w] = NoAnswer /\ (pc[w] = "store" => rows[w] # {})
        BY <1>1, <1>3 DEF Thread, Stage
    <2>2. Convert(w) => rows[w] # {}
        BY DEF Convert
    <2>3. Store(w) => pc[w] = "store"
        BY DEF Store
    <2> QED
        BY <2>1, <2>2, <2>3
<1>5. \A k : HasRead(w, k)' => HasRead(w, k)
    BY <1>3 DEF HasRead, Converting
<1>6. \A k, e : InHand(w, k, e) => InHand(w, k, e)'
    BY <1>2, <1>3, <1>4, PricedInHand
<1>7. Complete(w)'
    BY <1>3, <1>5, <1>6, PeriodsOn
<1>8. Finished(w)'
    BY <1>3, <1>4 DEF Finished, NoAnswer
<1>9. rows'[w] \subseteq rows[w]
    BY <1>1, <1>2 DEF Price, Locals
<1>10. AsRead(w)'
    BY <1>3, <1>9 DEF Accounted, AsRead
<1> QED
    BY <1>7, <1>8, <1>10 DEF Accounted

LEMMA PeriodsKeep ==
    ASSUME TypeInv, NEW w \in Worker, Accounted(w),
           FetchDirect(w) \/ FetchEarlier(w) \/ ListRecent(w) \/ CallFails(w)
    PROVE  Accounted(w)'
<1>1. Thread(w) /\ Locals
    BY DEF TypeInv
<1>2. /\ asked'[w] = asked[w] /\ sent'[w] = sent[w] /\ half'[w] = half[w]
      /\ rows'[w] = rows[w] /\ priced'[w] = priced[w] /\ touched'[w] = touched[w]
      /\ ledger' = ledger /\ pc[w] \in {"read", "convert", "earlier"}
      /\ answer'[w].status \notin {"sums", "top"}
      /\ pc'[w] \in Converting => pc[w] \in Converting
    <2>1. CASE FetchDirect(w) \/ FetchEarlier(w)
        <3>1. answer[w] = NoAnswer
            BY <1>1, <2>1, FetchStep DEF Thread, Stage
        <3>2. answer'[w].status \notin {"sums", "top"}
            BY <1>1, <2>1, <3>1, FetchStep DEF NoAnswer, Locals
        <3> QED
            BY <2>1, <3>2, FetchStep DEF Converting
    <2>2. CASE ListRecent(w)
        BY <1>1, <2>2 DEF ListRecent, localVars, marketVars, Locals, Goto, Converting
    <2>3. CASE CallFails(w)
        BY <1>1, <2>3 DEF CallFails, GiveUp, localVars, marketVars, Locals, Goto, Converting
    <2> QED
        BY <2>1, <2>2, <2>3
<1>3. \A k : HasRead(w, k)' => HasRead(w, k)
    BY <1>2 DEF HasRead
<1>4. \A k, e : InHand(w, k, e) => InHand(w, k, e)'
    BY <1>2 DEF InHand
<1>5. Complete(w)'
    BY <1>2, <1>3, <1>4, PeriodsOn
<1>6. Finished(w)' /\ AsRead(w)'
    BY <1>2 DEF Accounted, Finished, AsRead
<1> QED
    BY <1>5, <1>6 DEF Accounted

LEMMA PeriodsNext ==
    ASSUME TypeInv, NEW w \in Worker, Accounted(w), NextHalf(w)
    PROVE  Accounted(w)'
<1>1. Thread(w) /\ Locals
    BY DEF TypeInv
<1>2. /\ pc[w] = "convert" /\ rows[w] = {} /\ pc'[w] = "read" /\ half'[w] = half[w] + 1
      /\ asked'[w] = asked[w] /\ sent'[w] = sent[w] /\ rows'[w] = rows[w]
      /\ priced'[w] = priced[w] /\ touched'[w] = touched[w] /\ ledger' = ledger
      /\ answer'[w] = answer[w]
    BY <1>1 DEF NextHalf, marketVars, Locals, Goto
<1>3. answer[w] = NoAnswer /\ half[w] \in 1 .. 2
    BY <1>1, <1>2 DEF Thread, Stage, Locals
<1>4. ASSUME NEW k \in DOMAIN asked[w].periods, HasRead(w, k)' PROVE HasRead(w, k)
    <2>1. k < half[w] + 1
        BY <1>2, <1>3, <1>4 DEF HasRead, Converting, NoAnswer
    <2>2. k \in Nat
        <3>1. asked[w] \in Question[w]
            BY <1>1, <1>2 DEF Thread, Stage
        <3> QED
            BY <3>1, QuestionHas
    <2>3. k < half[w] \/ k = half[w]
        BY <1>3, <2>1, <2>2
    <2> QED
        BY <1>2, <2>3 DEF HasRead, Converting
<1>5. \A k, e : InHand(w, k, e) => InHand(w, k, e)'
    BY <1>2 DEF InHand
<1>6. Complete(w)'
    BY <1>2, <1>4, <1>5, PeriodsOn
<1>7. Finished(w)' /\ AsRead(w)'
    BY <1>2, <1>3 DEF Finished, AsRead, NoAnswer
<1> QED
    BY <1>6, <1>7 DEF Accounted

LEMMA PeriodsAnswer ==
    ASSUME TypeInv, NEW w \in Worker, Accounted(w), Answer(w)
    PROVE  Accounted(w)'
<1>1. Thread(w) /\ Locals
    BY DEF TypeInv
<1>2. /\ pc[w] = "convert" /\ rows[w] = {} /\ half[w] = Len(asked[w].periods)
      /\ asked'[w] = asked[w] /\ sent'[w] = sent[w] /\ half'[w] = half[w]
      /\ rows'[w] = rows[w] /\ priced'[w] = priced[w] /\ touched'[w] = touched[w]
      /\ ledger' = ledger
    BY DEF Answer, localVars, marketVars
<1>3. asked[w] \in Question[w] /\ asked[w].fn # "recent"
    BY <1>1, <1>2 DEF Thread, Stage, Converting
<1>4. asked[w].fn \in {"summary", "compare", "top"}
    BY <1>3, QuestionHas
<1>5. answer'[w].status = "top" => asked[w].fn = "top"
    BY <1>1, <1>4 DEF Answer, Locals
<1>6. asked[w].fn = "top" => half[w] = 1
    BY <1>2, <1>3, QuestionHas
<1>7. Finished(w)' /\ AsRead(w)'
    BY <1>2, <1>3, <1>5, <1>6 DEF Finished, AsRead
<1>8. \A k : HasRead(w, k)' => HasRead(w, k)
    BY <1>2 DEF HasRead, Converting
<1>9. \A k, e : InHand(w, k, e) => InHand(w, k, e)'
    BY <1>2 DEF InHand
<1>10. Complete(w)'
    BY <1>2, <1>8, <1>9, PeriodsOn
<1> QED
    BY <1>7, <1>10 DEF Accounted

LEMMA PeriodsStep ==
    ASSUME TypeInv, [Next]_vars, \A v \in Worker : Accounted(v), NEW w \in Worker
    PROVE  Accounted(w)'
<1>1. Thread(w) /\ World /\ Locals /\ Accounted(w)
    BY DEF TypeInv
<1>2. CASE NextDay \/ (\E d \in RateDay : Publish(d)) \/ UNCHANGED vars
    <2>1. UNCHANGED <<Local(w), touched, ledger>>
        BY <1>2 DEF NextDay, Publish, Local, localVars, vars
    <2> QED
        BY <1>1, <2>1, PeriodsRest
<1>3. ASSUME NEW j \in Id, NEW at \in Place, NEW c \in Content, WriteLedger(j, at, c)
      PROVE  Accounted(w)'
    <2>1. /\ UNCHANGED Local(w) /\ touched'[w] = touched[w] \cup {j}
          /\ \A i \in Id \ {j} : ledger'[i] = ledger[i]
        BY <1>1, <1>3 DEF WriteLedger, Local, localVars, World
    <2> QED
        BY <1>1, <2>1, PeriodsRest
<1>4. ASSUME NEW v \in Worker, v # w,
             WorkerStep(v) \/ CallFails(v) \/ \E q \in Question[v] : Ask(v, q)
      PROVE  Accounted(w)'
    <2>1. UNCHANGED Local(w)
        BY <1>4, OthersApart
    <2>2. ledger' = ledger /\ touched'[w] = touched[w]
        <3>1. CASE FetchDirect(v) \/ FetchEarlier(v)
            BY <3>1, FetchStep
        <3>2. CASE ~(FetchDirect(v) \/ FetchEarlier(v))
            BY <1>1, <1>4, <3>2
            DEF WorkerStep, CallFails, Ask, ReadExpenses, ListRecent, Convert, Store, NextHalf,
                Answer, marketVars, Locals
        <3> QED
            BY <3>1, <3>2
    <2> QED
        BY <1>1, <2>1, <2>2, PeriodsRest
<1>5. CASE WorkerStep(w) \/ CallFails(w) \/ \E q \in Question[w] : Ask(w, q)
    BY <1>1, <1>5, PeriodsAsk, PeriodsRead, PeriodsConvert, PeriodsKeep, PeriodsNext,
       PeriodsAnswer DEF WorkerStep
<1>6. ASSUME NEW p \in Process, Restart(p) PROVE Accounted(w)'
    <2> DEFINE lost == ProcessOf[w] = p /\ pc[w] \notin {"idle", "done"}
    <2>1. UNCHANGED <<ledger, touched>>
        BY <1>6 DEF Restart, marketVars
    <2>2. CASE ~lost
        <3>1. UNCHANGED Local(w)
            BY <1>6, <2>2 DEF Restart, Local
        <3> QED
            BY <1>1, <2>1, <3>1, PeriodsRest
    <2>3. CASE lost
        <3>1. /\ pc'[w] = "read" /\ half'[w] = 1 /\ rows'[w] = {} /\ priced'[w] = {}
              /\ asked'[w] = asked[w] /\ answer'[w] = answer[w]
            BY <1>6, <2>3 DEF Restart
        <3>2. answer[w] = NoAnswer /\ asked[w] \in Question[w]
            BY <1>1, <2>3 DEF Thread, Stage
        <3>3. \A k \in DOMAIN asked[w].periods : ~(k < 1)
            BY <3>2, QuestionHas
        <3>4. \A k \in DOMAIN asked[w].periods : ~HasRead(w, k)'
            BY <3>1, <3>2, <3>3 DEF HasRead, NoAnswer, Converting
        <3> QED
            BY <3>1, <3>2, <3>4 DEF Accounted, Complete, Finished, AsRead, NoAnswer
    <2> QED
        BY <2>2, <2>3
<1> QED
    BY <1>2, <1>3, <1>4, <1>5, <1>6 DEF Next

LEMMA PeriodInit == Init => PeriodInv
BY TypeInit DEF Init, PeriodInv, Accounted, Complete, Finished, AsRead, NoAnswer

LEMMA PeriodStep == PeriodInv /\ [Next]_vars => PeriodInv'
BY TypeStep, PeriodsStep DEF PeriodInv, Accounted

(* In the answer to a summary, comparison or top list each period counts   *)
(* exactly its expenses, among those that nobody wrote meanwhile: in the   *)
(* scope asked for, passing the filters, and dated on one of the days that *)
(* the period means by the calendar on the day of the message.             *)
THEOREM PeriodsAreExact == Spec => []EveryPeriodCounts
<1>1. PeriodInv => EveryPeriodCounts
    <2> SUFFICES ASSUME PeriodInv, NEW w \in Worker, answer[w].status \in {"sums", "top"},
                        NEW i \in Id \ touched[w], NEW k \in DOMAIN asked[w].periods
                 PROVE  LET q == asked[w]
                            e == ledger[i]
                            counted == e # None /\ e.date \in DaysOf(q.periods[k], sent[w])
                                       /\ Matches(e, q)
                                       /\ (e.user = q.user \/ q.chat \in Group)
                                       /\ (q.personal \/ q.chat \notin Group => e.user = q.user)
                                       /\ (~q.personal /\ q.chat \in Group => e.chat = q.chat)
                        IN  counted <=> \E x \in priced[w] : x.half = k /\ x.row = e
        BY DEF EveryPeriodCounts
    <2> DEFINE q == asked[w]
               e == ledger[i]
    <2>1. TypeInv /\ World /\ Thread(w) /\ Accounted(w)
        BY DEF PeriodInv, TypeInv
    <2>2. pc[w] = "done" /\ q \in Question[w] /\ sent[w] \in Day
        BY <2>1 DEF Thread, Stage, NoAnswer
    <2>3. rows[w] = {} /\ k \in 1 .. half[w] /\ half[w] \in Nat
        BY <2>1, <2>2, QuestionHas DEF Accounted, Finished
    <2>4. HasRead(w, k)
        <3>1. k < half[w] \/ k = half[w]
            BY <2>3
        <3> QED
            BY <3>1 DEF HasRead
    <2>5. q.periods[k] \in Period
        BY <2>2, QuestionHas
    <2>6. e # None => IsRecord(e, i)
        BY <2>1 DEF World
    <2>7. e # None => e.date \in Day
        BY <2>6, RecordHas
    <2>8. e # None => (InPeriod(e, Resolve(q.periods[k], sent[w]))
                          <=> e.date \in DaysOf(q.periods[k], sent[w]))
        BY <2>2, <2>5, <2>7, PeriodsAreRight
    <2>9. InScope(e, q) <=>
              /\ e.user = q.user \/ q.chat \in Group
              /\ q.personal \/ q.chat \notin Group => e.user = q.user
              /\ ~q.personal /\ q.chat \in Group => e.chat = q.chat
        BY DEF InScope
    <2>10. ASSUME e # None, Chosen(e, q, k, sent[w])
           PROVE  \E x \in priced[w] : x.half = k /\ x.row = e
        BY <2>1, <2>2, <2>3, <2>4, <2>10 DEF Accounted, Complete, InHand
    <2>11. ASSUME NEW x \in priced[w], x.half = k, x.row = e
           PROVE  e # None /\ Chosen(e, q, k, sent[w])
        <3>1. x.row.id \in Id /\ IsRecord(x.row, x.row.id) /\ Chosen(x.row, q, x.half, sent[w])
            BY <2>1 DEF Thread, Converted
        <3> QED
            BY <2>11, <3>1, RecordHas
    <2> HIDE DEF q, e
    <2>12. e # None /\ Chosen(e, q, k, sent[w]) <=> \E x \in priced[w] : x.half = k /\ x.row = e
        BY <2>10, <2>11
    <2> QED
        BY <2>8, <2>9, <2>12 DEF Chosen, q, e
<1> QED
    BY <1>1, PeriodInit, PeriodStep, PTL DEF Spec

-----------------------------------------------------------------------------
(* The right lists *)

Listed(w) == {answer[w].list[k] : k \in DOMAIN answer[w].list}

TopIsRight(w) ==
    LET L == answer[w].list IN
    answer[w].status = "top" =>
        /\ Len(L) = Min({asked[w].limit, Cardinality(priced[w])})
        /\ \A x \in Listed(w), y \in priced[w] \ Listed(w) : x.worth >= y.worth
        /\ \A j, k \in DOMAIN L : j < k => L[j].worth >= L[k].worth

RecentIsRight(w) ==
    LET L == answer[w].list
        q == asked[w]
    IN
    answer[w].status = "list" =>
        /\ Len(L) <= q.limit /\ Cardinality(Listed(w)) = Len(L)
        /\ \A j, k \in DOMAIN L : j < k => L[j].date >= L[k].date
        /\ \A e \in Listed(w) : Matches(e, q)
        /\ \A i \in Id \ touched[w] :
            ledger[i] # None /\ InScope(ledger[i], q) /\ Matches(ledger[i], q)
              /\ ledger[i] \notin Listed(w) =>
                Len(L) = q.limit /\ \A f \in Listed(w) : f.date >= ledger[i].date

(* What changes in the ledger counts as touched for who has answered.      *)
LEMMA LedgerAsTouched ==
    ASSUME TypeInv, [Next]_vars, NEW w \in Worker, answer[w] # NoAnswer
    PROVE  \A i \in Id \ touched'[w] : i \notin touched[w] /\ ledger'[i] = ledger[i]
<1>1. World /\ Locals /\ pc[w] = "done"
    BY DEF TypeInv, Thread, Stage
<1>2. CASE UNCHANGED <<ledger, touched>>
    BY <1>2
<1>3. CASE NextDay \/ (\E d \in RateDay : Publish(d)) \/ (\E p \in Process : Restart(p))
           \/ UNCHANGED vars
    BY <1>2, <1>3 DEF NextDay, Publish, Restart, marketVars, vars
<1>4. CASE \E i \in Id, at \in Place, c \in Content : WriteLedger(i, at, c)
    BY <1>1, <1>4 DEF WriteLedger, World
<1>5. CASE \E v \in Worker : WorkerStep(v) \/ CallFails(v)
    <2>1. CASE \E v \in Worker : FetchDirect(v) \/ FetchEarlier(v)
        BY <1>2, <2>1, FetchStep
    <2>2. CASE ~ \E v \in Worker : FetchDirect(v) \/ FetchEarlier(v)
        BY <1>2, <1>5, <2>2
        DEF WorkerStep, CallFails, ReadExpenses, ListRecent, Convert, Store, NextHalf, Answer,
            marketVars
    <2> QED
        BY <2>1, <2>2
<1>6. ASSUME NEW v \in Worker, NEW q \in Question[v], Ask(v, q)
      PROVE  \A i \in Id \ touched'[w] : i \notin touched[w] /\ ledger'[i] = ledger[i]
    <2>1. v # w /\ ledger' = ledger /\ touched'[w] = touched[w]
        BY <1>1, <1>6 DEF Ask, Locals
    <2> QED
        BY <2>1
<1> QED
    BY <1>3, <1>4, <1>5, <1>6 DEF Next

LEMMA ListsRest ==
    ASSUME TypeInv, [Next]_vars, NEW w \in Worker, answer[w] # NoAnswer, TopIsRight(w),
           RecentIsRight(w)
    PROVE  TopIsRight(w)' /\ RecentIsRight(w)'
<1>1. answer'[w] = answer[w] /\ asked'[w] = asked[w] /\ priced'[w] = priced[w]
    BY AnsweredStays DEF Local
<1>2. \A i \in Id \ touched'[w] : i \notin touched[w] /\ ledger'[i] = ledger[i]
    BY LedgerAsTouched
<1>3. TopIsRight(w)'
    BY <1>1 DEF TopIsRight, Listed
<1>4. Listed(w)' = Listed(w)
    BY <1>1 DEF Listed
<1>5. RecentIsRight(w)'
    BY <1>1, <1>2, <1>4 DEF RecentIsRight
<1> QED
    BY <1>3, <1>5

LEMMA NewTop ==
    ASSUME TypeInv, NEW w \in Worker, Answer(w), answer'[w].status = "top"
    PROVE  TopIsRight(w)'
<1>1. Thread(w) /\ Locals
    BY DEF TypeInv
<1> DEFINE q == asked[w]
           S == {x \in priced[w] : x.half = 1}
           R == DearerIn(S)
           L == answer'[w].list
           n == q.limit
<1>2. /\ pc[w] = "convert" /\ half[w] = Len(q.periods) /\ asked'[w] = q
      /\ priced'[w] = priced[w]
    BY DEF Answer, localVars
<1>3. q \in Question[w] /\ q.fn # "recent"
    BY <1>1, <1>2 DEF Thread, Stage, Converting
<1>4. q.fn = "top"
    <2>1. q.fn \in {"summary", "compare", "top"}
        BY <1>3, QuestionHas
    <2> QED
        BY <1>1, <2>1 DEF Answer, Locals
<1>5. half[w] = 1 /\ n \in Nat
    BY <1>1, <1>2, <1>3, <1>4, QuestionHas DEF Thread, Stage, Working, Converting
<1>6. S = priced[w]
    BY <1>1, <1>5 DEF Thread, Converted
<1>7. L = Least(S, Dearer, n)
    BY <1>1, <1>4 DEF Answer, Locals
<1> HIDE DEF q, S, L, n
<1>8. IsFiniteSet(S)
    BY <1>1, <1>6 DEF Thread, Converted
<1>9. \A x \in S : x.worth \in Nat /\ x.row.date \in Nat /\ x.row.id \in Nat
    <2> SUFFICES ASSUME NEW x \in S
                 PROVE  x.worth \in Nat /\ x.row.date \in Nat /\ x.row.id \in Nat
        OBVIOUS
    <2>1. x.worth \in Nat /\ x.row.id \in Id /\ IsRecord(x.row, x.row.id)
        BY <1>1, <1>6 DEF Thread, Converted
    <2> QED
        BY <2>1, RecordHas
<1>10. \A x, y \in S : x.row.id = y.row.id => x = y
    <2>1. \A x \in S : x.half = 1
        BY DEF S
    <2> QED
        BY <1>1, <1>6, <2>1 DEF Thread, Unique
<1>11. TotalOrder(S, R) /\ IsFirst(L, S, R, n)
    BY <1>5, <1>7, <1>8, <1>9, <1>10, DearestAreFirst
<1>12. \A x, y \in S : <<x, y>> \in R => x.worth >= y.worth
    BY <1>9 DEF DearerIn, Dearer
<1> HIDE DEF R
<1>13. /\ \A k \in DOMAIN L : L[k] \in S
       /\ \A j, k \in DOMAIN L : j < k => <<L[j], L[k]>> \in R
       /\ \A y \in S \ {L[k] : k \in DOMAIN L} : \A k \in DOMAIN L : <<L[k], y>> \in R
    BY <1>5, <1>8, <1>11, FirstOfAll
<1>14. Len(L) = Min({n, Cardinality(S)})
    BY <1>11 DEF IsFirst
<1>15. /\ \A x \in {L[k] : k \in DOMAIN L}, y \in S \ {L[k] : k \in DOMAIN L} : x.worth >= y.worth
       /\ \A j, k \in DOMAIN L : j < k => L[j].worth >= L[k].worth
    BY <1>12, <1>13
<1> QED
    BY <1>2, <1>6, <1>14, <1>15 DEF TopIsRight, Listed, L, n, q

LEMMA NewRecent ==
    ASSUME TypeInv, NEW w \in Worker, ListRecent(w)
    PROVE  RecentIsRight(w)'
<1>1. Thread(w) /\ Locals
    BY DEF TypeInv
<1> DEFINE q == asked[w]
           S == RecentOf(q)
           R == NewerIn(S)
           L == answer'[w].list
           n == q.limit
<1>2. /\ pc[w] = "read" /\ q.fn = "recent" /\ asked'[w] = q /\ L = Recent(q)
      /\ ledger' = ledger /\ touched'[w] = touched[w]
    BY <1>1 DEF ListRecent, Locals
<1>3. n \in Nat
    BY <1>1, <1>2 DEF Thread, Stage, Working
<1>4. IsFiniteSet(S) /\ TotalOrder(S, R) /\ IsFirst(L, S, R, n)
    BY <1>2, <1>3, RecentHas
<1>5. \A e \in S : Matches(e, q) /\ e \in Recorded
    BY DEF RecentOf
<1>6. \A e \in S : e.date \in Nat
    BY <1>5, LedgerHas, RecordHas
<1>7. \A x, y \in S : <<x, y>> \in R => x.date >= y.date
    BY <1>6 DEF NewerIn, Newer
<1>8. \A i \in Id : ledger[i] # None /\ InScope(ledger[i], q) /\ Matches(ledger[i], q) =>
          ledger[i] \in S
    BY DEF RecentOf, Recorded
<1> HIDE DEF q, S, R, L, n
<1> DEFINE T == {L[k] : k \in DOMAIN L}
<1>9. /\ Len(L) <= n /\ Cardinality(T) = Len(L)
      /\ \A k \in DOMAIN L : L[k] \in S
      /\ \A j, k \in DOMAIN L : j < k => <<L[j], L[k]>> \in R
      /\ \A y \in S \ T : Len(L) = n /\ \A k \in DOMAIN L : <<L[k], y>> \in R
    <2>1. Len(L) <= n /\ \A k \in DOMAIN L : L[k] \in S
        BY <1>3, <1>4, FirstOfAll
    <2>2. Cardinality({L[k] : k \in DOMAIN L}) = Len(L)
        BY <1>3, <1>4, FirstOfAll
    <2>3. /\ \A j, k \in DOMAIN L : j < k => <<L[j], L[k]>> \in R
          /\ \A y \in S \ {L[k] : k \in DOMAIN L} :
                 Len(L) = n /\ \A k \in DOMAIN L : <<L[k], y>> \in R
        BY <1>3, <1>4, FirstOfAll
    <2> QED
        BY <2>1, <2>2, <2>3
<1>10. /\ \A j, k \in DOMAIN L : j < k => L[j].date >= L[k].date
       /\ \A e \in T : Matches(e, q)
       /\ \A y \in S \ T : Len(L) = n /\ \A f \in T : f.date >= y.date
    BY <1>5, <1>7, <1>9
<1>11. Listed(w)' = T
    BY DEF Listed, L
<1>12. \A i \in Id \ touched'[w] :
            ledger'[i] # None /\ InScope(ledger'[i], q) /\ Matches(ledger'[i], q)
              /\ ledger'[i] \notin T =>
                Len(L) = n /\ \A f \in T : f.date >= ledger'[i].date
    BY <1>2, <1>8, <1>10
<1> HIDE DEF T
<1>13. /\ Len(L) <= n /\ Cardinality(T) = Len(L)
       /\ \A j, k \in DOMAIN L : j < k => L[j].date >= L[k].date
       /\ \A e \in T : Matches(e, q)
    BY <1>9, <1>10
<1> QED
    BY <1>2, <1>11, <1>12, <1>13 DEF RecentIsRight, L, n, q

LEMMA ListsStep ==
    ASSUME TypeInv, [Next]_vars, NEW w \in Worker, TopIsRight(w), RecentIsRight(w)
    PROVE  TopIsRight(w)' /\ RecentIsRight(w)'
<1>1. CASE answer[w] # NoAnswer
    BY <1>1, ListsRest
<1>2. CASE answer'[w] = NoAnswer
    BY <1>2 DEF TopIsRight, RecentIsRight, NoAnswer
<1>3. CASE answer[w] = NoAnswer /\ answer'[w] # NoAnswer
    <2>1. CASE ListRecent(w)
        <3>1. answer'[w].status = "list"
            BY <2>1 DEF ListRecent, TypeInv, Locals
        <3>2. RecentIsRight(w)'
            BY <2>1, NewRecent
        <3> QED
            BY <3>1, <3>2 DEF TopIsRight
    <2>2. CASE Answer(w)
        <3>1. asked[w] \in Question[w] /\ asked[w].fn # "recent"
            BY <2>2 DEF Answer, TypeInv, Thread, Stage, Converting
        <3>2. asked[w].fn \in {"summary", "compare", "top"}
            BY <3>1, QuestionHas
        <3>3. answer'[w].status \in {"sums", "top"}
            BY <2>2, <3>2 DEF Answer, TypeInv, Locals
        <3>4. TopIsRight(w)'
            <4>1. CASE answer'[w].status = "top"
                BY <2>2, <4>1, NewTop
            <4>2. CASE answer'[w].status # "top"
                BY <4>2 DEF TopIsRight
            <4> QED
                BY <4>1, <4>2
        <3> QED
            BY <3>3, <3>4 DEF RecentIsRight
    <2>3. CASE answer'[w].status \in {"failed", "refused"}
        BY <2>3 DEF TopIsRight, RecentIsRight
    <2>4. CASE CallFails(w) \/ FetchEarlier(w)
        BY <1>3, <2>3, <2>4 DEF CallFails, FetchEarlier, GiveUp, TypeInv, Locals
    <2> QED
        BY <1>3, <2>1, <2>2, <2>3, <2>4, NewAnswer
<1> QED
    BY <1>1, <1>2, <1>3

(* A list has as many entries as there are, up to the limit, in order, and *)
(* none that was left out should have been in: for the top list by what    *)
(* was converted, for the recent list in the ledger as it was read.        *)
THEOREM ListsAreRight == Spec => []ListsAreTheRightOnes
<1> DEFINE Right == \A w \in Worker : TopIsRight(w) /\ RecentIsRight(w)
<1>1. Init => Right
    BY DEF Init, TopIsRight, RecentIsRight, NoAnswer
<1>2. TypeInv /\ Right /\ [Next]_vars => Right'
    <2> SUFFICES ASSUME TypeInv, Right, [Next]_vars, NEW w \in Worker
                 PROVE  TopIsRight(w)' /\ RecentIsRight(w)'
        OBVIOUS
    <2> QED
        BY ListsStep
<1>3. Right => ListsAreTheRightOnes
    <2> SUFFICES ASSUME NEW w \in Worker, TopIsRight(w), RecentIsRight(w)
                 PROVE  ListsAreTheRightOnes!(w)
        BY DEF ListsAreTheRightOnes
    <2> QED
        BY DEF TopIsRight, RecentIsRight, Listed
<1> QED
    BY <1>1, <1>2, <1>3, TypeInit, TypeStep, PTL DEF Spec

-----------------------------------------------------------------------------
(* Rates *)

(* What was published stays published, and the rates that a thread may     *)
(* count on change only when its process is replaced under it.             *)
LEMMA BaseKept ==
    ASSUME TypeInv, [Next]_vars
    PROVE  /\ published \subseteq published'
           /\ \A w \in Worker :
                  \/ base'[w] = base[w] /\ (pc[w] = "done" => pc'[w] = "done")
                  \/ Restart(ProcessOf[w]) /\ pc[w] # "done" /\ base'[w] = published
<1>1. \A w \in Worker : pc[w] = "done" => pc'[w] = "done"
    <2> SUFFICES ASSUME NEW w \in Worker, pc[w] = "done" PROVE pc'[w] = "done"
        OBVIOUS
    <2>1. answer[w] # NoAnswer
        BY DEF TypeInv, Thread, Stage
    <2> QED
        BY <2>1, AnsweredStays DEF Local
<1>2. CASE UNCHANGED <<published, base>>
    BY <1>1, <1>2
<1>3. CASE NextDay \/ (\E i \in Id, at \in Place, c \in Content : WriteLedger(i, at, c))
           \/ UNCHANGED vars
    BY <1>2, <1>3 DEF NextDay, WriteLedger, marketVars, vars
<1>4. CASE \E d \in RateDay : Publish(d)
    BY <1>1, <1>4 DEF Publish
<1>5. CASE \E v \in Worker : \E q \in Question[v] : Ask(v, q)
    BY <1>2, <1>5 DEF Ask, marketVars
<1>6. CASE \E v \in Worker : WorkerStep(v) \/ CallFails(v)
    <2>1. CASE \E v \in Worker : FetchDirect(v) \/ FetchEarlier(v)
        BY <1>2, <2>1, FetchStep
    <2>2. CASE ~ \E v \in Worker : FetchDirect(v) \/ FetchEarlier(v)
        BY <1>2, <1>6, <2>2
        DEF WorkerStep, CallFails, ReadExpenses, ListRecent, Convert, Store, NextHalf, Answer,
            marketVars
    <2> QED
        BY <2>1, <2>2
<1>7. ASSUME NEW p \in Process, Restart(p)
      PROVE  /\ published \subseteq published'
             /\ \A w \in Worker :
                  \/ base'[w] = base[w]
                  \/ p = ProcessOf[w] /\ pc[w] # "done" /\ base'[w] = published
    BY <1>7 DEF Restart, marketVars
<1> QED
    BY <1>1, <1>3, <1>4, <1>5, <1>6, <1>7 DEF Next

LEMMA RateForKept ==
    ASSUME TypeInv, [Next]_vars, NEW p, ~Restart(p), NEW r, NEW d, RateFor(r, d, p)
    PROVE  RateFor(r, d, p)'
<1>1. ASSUME NEW w \in Worker, ProcessOf[w] = p, pc'[w] # "done"
      PROVE  pc[w] # "done" /\ base'[w] = base[w]
    BY <1>1, BaseKept
<1>2. published \subseteq published'
    BY BaseKept
<1> QED
    BY <1>1, <1>2 DEF RateFor, Serves

LEMMA BaseStep ==
    ASSUME TypeInv, RateInv, [Next]_vars
    PROVE  \A w \in Worker : base'[w] \subseteq published'
BY BaseKept DEF RateInv

LEMMA FailuresCount ==
    ASSUME TypeInv, failures \in Nat, [Next]_vars
    PROVE  failures' \in Nat /\ (failures > 0 => failures' > 0)
<1>1. failures' = failures \/ failures' = failures + 1
    <2>1. CASE UNCHANGED vars
        BY <2>1 DEF vars
    <2>2. CASE NextDay \/ (\E d \in RateDay : Publish(d))
        BY <2>2 DEF NextDay, Publish, bounds
    <2>3. CASE \E i \in Id, at \in Place, c \in Content : WriteLedger(i, at, c)
        BY <2>3 DEF WriteLedger
    <2>4. CASE \E v \in Worker : \E q \in Question[v] : Ask(v, q)
        BY <2>4 DEF Ask, bounds
    <2>5. CASE \E p \in Process : Restart(p)
        BY <2>5 DEF Restart
    <2>6. CASE \E v \in Worker : FetchDirect(v) \/ FetchEarlier(v) \/ CallFails(v)
        BY <2>6 DEF FetchDirect, FetchEarlier, CallFails, Failure, bounds
    <2>7. CASE \E v \in Worker : \/ ReadExpenses(v) \/ ListRecent(v) \/ Convert(v) \/ Store(v)
                                 \/ NextHalf(v) \/ Answer(v)
        BY <2>7 DEF ReadExpenses, ListRecent, Convert, Store, NextHalf, Answer, bounds
    <2> QED
        BY <2>1, <2>2, <2>3, <2>4, <2>5, <2>6, <2>7 DEF Next, WorkerStep
<1> QED
    BY <1>1

(* Only Store fills a cache, with the rate on its way; a new process has   *)
(* an empty one.                                                           *)
LEMMA CacheStep ==
    ASSUME TypeInv, [Next]_vars, NEW p \in Process
    PROVE  \/ cache'[p] = cache[p] /\ ~Restart(p)
           \/ cache'[p] = NoRates
           \/ \E w \in Worker :
                /\ Store(w) /\ ProcessOf[w] = p /\ ~Restart(p)
                /\ DOMAIN cache'[p] = DOMAIN cache[p] \cup {RateKey(Head1(w))}
                /\ \A k \in DOMAIN cache'[p] :
                     cache'[p][k] = IF k = RateKey(Head1(w)) THEN got[w] ELSE cache[p][k]
<1>1. World
    BY DEF TypeInv
<1>2. CASE Restart(p)
    BY <1>1, <1>2 DEF Restart, World
<1>3. CASE ~Restart(p) /\ \E w \in Worker : Store(w)
    <2>1. PICK w \in Worker : Store(w)
        BY <1>3
    <2> DEFINE c == cache[ProcessOf[w]]
               key == RateKey(Head1(w))
               new == [k \in DOMAIN c \cup {key} |-> IF k = key THEN got[w] ELSE c[k]]
    <2>2. cache' = [cache EXCEPT ![ProcessOf[w]] = new]
        BY <2>1 DEF Store
    <2>3. CASE ProcessOf[w] = p
        <3>1. cache'[p] = new
            BY <1>1, <2>2, <2>3 DEF World
        <3> QED
            BY <1>3, <2>1, <2>3, <3>1
    <2>4. CASE ProcessOf[w] # p
        BY <1>1, <1>3, <2>2, <2>4 DEF World
    <2> QED
        BY <2>3, <2>4
<1>4. CASE ~Restart(p) /\ cache' = cache
    BY <1>4
<1>5. CASE ~Restart(p) /\ ~(\E w \in Worker : Store(w))
    <2>1. CASE UNCHANGED vars
        BY <1>4, <1>5, <2>1 DEF vars
    <2>2. CASE NextDay \/ (\E d \in RateDay : Publish(d))
        BY <1>4, <1>5, <2>2 DEF NextDay, Publish
    <2>3. CASE \E i \in Id, at \in Place, c \in Content : WriteLedger(i, at, c)
        BY <1>4, <1>5, <2>3 DEF WriteLedger
    <2>4. CASE \E v \in Worker : \E q \in Question[v] : Ask(v, q)
        BY <1>4, <1>5, <2>4 DEF Ask
    <2>5. CASE \E q \in Process : Restart(q)
        BY <1>1, <1>5, <2>5 DEF Restart, World
    <2>6. CASE \E v \in Worker : WorkerStep(v) \/ CallFails(v)
        BY <1>4, <1>5, <2>6
        DEF WorkerStep, ReadExpenses, ListRecent, Convert, NextHalf, Answer, FetchDirect,
            FetchEarlier, CallFails
    <2> QED
        BY <2>1, <2>2, <2>3, <2>4, <2>5, <2>6 DEF Next
<1> QED
    BY <1>2, <1>3, <1>5

LEMMA CachedRates ==
    ASSUME TypeInv, RateInv, [Next]_vars, NEW p \in Process, NEW k \in DOMAIN cache'[p]
    PROVE  Serves(cache'[p][k], k[2], p, published', pc', base')
<1>1. CASE cache'[p] = cache[p] /\ ~Restart(p)
    <2>1. PICK r : r = cache[p][k]
        OBVIOUS
    <2>2. PICK d : d = k[2]
        OBVIOUS
    <2>3. RateFor(r, d, p)
        BY <1>1, <2>1, <2>2 DEF RateInv
    <2>4. RateFor(r, d, p)'
        BY <1>1, <2>3, RateForKept
    <2> QED
        BY <1>1, <2>1, <2>2, <2>4 DEF RateFor
<1>2. CASE cache'[p] = NoRates
    BY <1>2 DEF NoRates
<1>3. ASSUME NEW w \in Worker, Store(w), ProcessOf[w] = p, ~Restart(p),
             DOMAIN cache'[p] = DOMAIN cache[p] \cup {RateKey(Head1(w))},
             \A j \in DOMAIN cache'[p] :
                 cache'[p][j] = IF j = RateKey(Head1(w)) THEN got[w] ELSE cache[p][j]
      PROVE  Serves(cache'[p][k], k[2], p, published', pc', base')
    <2>1. PICK r : r = cache'[p][k]
        OBVIOUS
    <2>2. PICK d : d = k[2]
        OBVIOUS
    <2>3. RateFor(r, d, p)
        <3>1. CASE k = RateKey(Head1(w))
            <4>1. pc[w] = "store"
                BY <1>3 DEF Store
            <4>2. RateFor(got[w], Head1(w).date, p)
                BY <1>3, <4>1 DEF RateInv
            <4> QED
                BY <1>3, <2>1, <2>2, <3>1, <4>2 DEF RateKey
        <3>2. CASE k # RateKey(Head1(w))
            BY <1>3, <2>1, <2>2, <3>2 DEF RateInv
        <3> QED
            BY <3>1, <3>2
    <2>4. RateFor(r, d, p)'
        BY <1>3, <2>3, RateForKept
    <2> QED
        BY <2>1, <2>2, <2>4 DEF RateFor
<1> QED
    BY <1>1, <1>2, <1>3, CacheStep

LEMMA RatesOnTheWay ==
    ASSUME TypeInv, RateInv, [Next]_vars, NEW w \in Worker, pc'[w] = "store"
    PROVE  RateFor(got[w], Head1(w).date, ProcessOf[w])'
<1>1. ~Restart(ProcessOf[w])
    <2>1. Locals
        BY DEF TypeInv
    <2> QED
        BY <2>1 DEF Restart, Locals, TypeInv, Thread, Stage
<1>2. CASE UNCHANGED Local(w)
    <2>1. PICK r : r = got[w]
        OBVIOUS
    <2>2. PICK d : d = Head1(w).date
        OBVIOUS
    <2>3. RateFor(r, d, ProcessOf[w])
        BY <1>2, <2>1, <2>2 DEF RateInv, Local
    <2>4. RateFor(r, d, ProcessOf[w])'
        BY <1>1, <2>3, RateForKept
    <2>5. got'[w] = r /\ Head1(w).date' = d
        BY <1>2, <2>1, <2>2 DEF Local, Head1
    <2> QED
        BY <2>4, <2>5 DEF RateFor
<1>3. CASE FetchDirect(w) \/ FetchEarlier(w)
    <2>0. PICK d : d = Head1(w).date
        OBVIOUS
    <2>1. /\ pc[w] # "store" /\ rows'[w] = rows[w] /\ published' = published /\ base' = base
          /\ pc[w] # "done" /\ Locals
        BY <1>3, FetchStep DEF TypeInv
    <2>2. PICK r \in UpTo(d) : (\A y \in UpTo(d) : y <= r) /\ got'[w] = r
        BY <1>3, <2>0, <2>1, FetchStep DEF Locals
    <2>3. \A v \in Worker : base[v] \subseteq published
        BY DEF RateInv
    <2>4. Head1(w).date' = d
        BY <2>0, <2>1 DEF Head1
    <2>5. ASSUME NEW v \in Worker, NEW b \in base'[v], b <= d PROVE b <= r
        BY <2>1, <2>2, <2>3, <2>5 DEF UpTo
    <2>6. Serves(r, d, ProcessOf[w], published', pc', base')
        BY <2>1, <2>2, <2>5 DEF Serves, UpTo
    <2> QED
        BY <2>2, <2>4, <2>6 DEF RateFor
<1>4. CASE NextDay \/ (\E d \in RateDay : Publish(d)) \/ UNCHANGED vars
    BY <1>2, <1>4 DEF NextDay, Publish, Local, localVars, vars
<1>5. CASE \E i \in Id, at \in Place, c \in Content : WriteLedger(i, at, c)
    BY <1>2, <1>5 DEF WriteLedger, Local, localVars
<1>6. ASSUME NEW v \in Worker, v # w,
             WorkerStep(v) \/ CallFails(v) \/ \E q \in Question[v] : Ask(v, q)
      PROVE  UNCHANGED Local(w)
    BY <1>6, OthersApart
<1>7. CASE \E q \in Question[w] : Ask(w, q)
    BY <1>7 DEF Ask, Goto, TypeInv, Locals
<1>8. CASE WorkerStep(w) \/ CallFails(w)
    <2>1. CASE ReadExpenses(w) \/ ListRecent(w) \/ Store(w) \/ NextHalf(w) \/ Answer(w)
               \/ CallFails(w)
        BY <2>1 DEF ReadExpenses, ListRecent, Store, NextHalf, Answer, CallFails, GiveUp, Goto,
                    TypeInv, Locals
    <2>2. Convert(w) => pc[w] # "store" /\ pc' = pc
        BY DEF Convert
    <2> QED
        BY <1>3, <1>8, <2>1, <2>2 DEF WorkerStep
<1>9. ASSUME NEW p \in Process, Restart(p) PROVE UNCHANGED Local(w)
    <2>1. p # ProcessOf[w]
        BY <1>1, <1>9
    <2> QED
        BY <1>9, <2>1 DEF Restart, Local
<1> QED
    BY <1>2, <1>4, <1>5, <1>6, <1>7, <1>8, <1>9 DEF Next

(* What leaves the rows of a thread: the record at their head, with what a *)
(* rate makes it worth.                                                    *)
PricedAt(w, d) == [half |-> half[w], row |-> Head1(w), rateDay |-> d, worth |-> Worth(Head1(w), d)]

LEMMA PricedStep ==
    ASSUME TypeInv, [Next]_vars, NEW w \in Worker
    PROVE  \/ priced'[w] = priced[w]
           \/ priced'[w] = {}
           \/ Convert(w) /\ priced'[w] = priced[w] \cup {PricedAt(w, KnownRateDay(w, Head1(w)))}
           \/ Store(w) /\ priced'[w] = priced[w] \cup {PricedAt(w, got[w])}
<1>1. Locals
    BY DEF TypeInv
<1>2. CASE UNCHANGED Local(w)
    BY <1>2 DEF Local
<1>3. CASE NextDay \/ (\E d \in RateDay : Publish(d)) \/ UNCHANGED vars
    BY <1>3 DEF NextDay, Publish, localVars, vars
<1>4. CASE \E i \in Id, at \in Place, c \in Content : WriteLedger(i, at, c)
    BY <1>4 DEF WriteLedger, localVars
<1>5. ASSUME NEW v \in Worker, WorkerStep(v) \/ CallFails(v) \/ \E q \in Question[v] : Ask(v, q),
             v # w
      PROVE  UNCHANGED Local(w)
    BY <1>5, OthersApart
<1>6. CASE CallFails(w) \/ \E q \in Question[w] : Ask(w, q)
    BY <1>6 DEF CallFails, Ask, localVars
<1>7. CASE Convert(w) \/ Store(w)
    BY <1>1, <1>7 DEF Convert, Store, Price, PricedAt, Locals
<1>8. CASE ReadExpenses(w) \/ ListRecent(w) \/ FetchDirect(w) \/ FetchEarlier(w) \/ NextHalf(w)
           \/ Answer(w)
    BY <1>8 DEF ReadExpenses, ListRecent, FetchDirect, FetchEarlier, NextHalf, Answer, localVars
<1>9. CASE \E p \in Process : Restart(p)
    BY <1>9 DEF Restart
<1> QED
    BY <1>2, <1>3, <1>4, <1>5, <1>6, <1>7, <1>8, <1>9 DEF Next, WorkerStep

(* The body of RatesUsable, for given days.                                *)
Sound(x, days, known) ==
    IF x.row.currency = Home THEN x.worth = x.row.amount
    ELSE /\ x.rateDay \in days /\ x.rateDay <= x.row.date
         /\ \A d \in known : d <= x.row.date => d <= x.rateDay
         /\ x.worth = x.row.amount * Rate[x.row.currency][x.rateDay]

LEMMA SoundMeans ==
    RatesUsable <=> \A w \in Worker : \A x \in priced[w] : Sound(x, published, base[w])
BY DEF RatesUsable, UsableRate, Sound

(* An amount converted with a rate that serves its date is soundly worth.  *)
LEMMA SoundlyPriced ==
    ASSUME TypeInv, NEW w \in Worker, NEW d \in RateDay \cup {0}, rows[w] # {},
           d = 0 <=> Head1(w).currency = Home, pc[w] # "done",
           d # 0 => RateFor(d, Head1(w).date, ProcessOf[w])
    PROVE  Sound(PricedAt(w, d), published, base[w])
<1>1. PICK e : e = Head1(w)
    OBVIOUS
<1>2. PICK x : x = PricedAt(w, d)
    OBVIOUS
<1>3. x.row = e /\ x.rateDay = d /\ x.worth = Worth(e, d)
    BY <1>1, <1>2 DEF PricedAt
<1>4. CASE d = 0
    BY <1>1, <1>2, <1>3, <1>4 DEF Sound, Worth
<1>5. CASE d # 0
    <2>1. Serves(d, e.date, ProcessOf[w], published, pc, base)
        BY <1>1, <1>5 DEF RateFor
    <2>2. /\ d \in published /\ d <= e.date
          /\ \A b \in base[w] : b <= e.date => b <= d
        BY <2>1 DEF Serves
    <2>3. x.worth = e.amount * Rate[e.currency][d]
        BY <1>3, <1>5 DEF Worth
    <2> QED
        BY <1>1, <1>2, <1>3, <1>5, <2>2, <2>3 DEF Sound
<1> QED
    BY <1>2, <1>4, <1>5

LEMMA UsableStep ==
    ASSUME TypeInv, RateInv, [Next]_vars PROVE RatesUsable'
<1> SUFFICES ASSUME NEW w \in Worker, NEW x \in priced'[w]
             PROVE  Sound(x, published', base'[w])
    BY DEF RatesUsable, UsableRate, Sound
<1>1. published \subseteq published'
    BY BaseKept
<1>2. ASSUME x \in priced[w] PROVE Sound(x, published', base'[w])
    <2>1. Sound(x, published, base[w])
        BY <1>2, SoundMeans DEF RateInv
    <2>2. CASE base'[w] = base[w]
        BY <1>1, <2>1, <2>2 DEF Sound
    <2>3. CASE Restart(ProcessOf[w]) /\ pc[w] # "done"
        <3>1. pc[w] # "idle"
            BY <1>2 DEF TypeInv, Thread, Stage
        <3>2. priced'[w] = {}
            BY <2>3, <3>1 DEF Restart
        <3> QED
            BY <3>2
    <2> QED
        BY <2>2, <2>3, BaseKept
<1>3. ASSUME NEW d, x = PricedAt(w, d), Convert(w) \/ Store(w),
             d \in RateDay \cup {0}, rows[w] # {}, d = 0 <=> Head1(w).currency = Home,
             d # 0 => RateFor(d, Head1(w).date, ProcessOf[w])
      PROVE  Sound(x, published', base'[w])
    <2>1. pc[w] # "done" /\ published' = published /\ base' = base
        BY <1>3 DEF Convert, Store, marketVars
    <2>2. Sound(x, published, base[w])
        BY <1>3, <2>1, SoundlyPriced
    <2> QED
        BY <2>1, <2>2
<1>4. CASE Convert(w) /\ x = PricedAt(w, KnownRateDay(w, Head1(w)))
    <2>1. PICK e : e = Head1(w)
        OBVIOUS
    <2>2. PICK d : d = KnownRateDay(w, e)
        OBVIOUS
    <2>3. rows[w] # {} /\ Known(w, e) /\ World /\ ProcessOf[w] \in Process /\ 0 \notin RateDay
        BY <1>4, <2>1, Constants DEF Convert, TypeInv
    <2>4. d \in RateDay \cup {0} /\ (d = 0 <=> e.currency = Home)
        BY <2>2, <2>3 DEF Known, KnownRateDay, World
    <2>5. ASSUME d # 0 PROVE RateFor(d, e.date, ProcessOf[w])
        <3>1. PICK k : k = RateKey(e)
            OBVIOUS
        <3>2. k \in DOMAIN cache[ProcessOf[w]] /\ d = cache[ProcessOf[w]][k]
            BY <2>2, <2>3, <2>4, <2>5, <3>1 DEF Known, KnownRateDay
        <3>3. RateFor(cache[ProcessOf[w]][k], k[2], ProcessOf[w])
            BY <2>3, <3>2 DEF RateInv
        <3> QED
            BY <3>1, <3>2, <3>3 DEF RateKey
    <2> QED
        BY <1>3, <1>4, <2>1, <2>2, <2>3, <2>4, <2>5
<1>5. CASE Store(w) /\ x = PricedAt(w, got[w])
    <2>1. pc[w] = "store" /\ Thread(w) /\ Locals
        BY <1>5 DEF Store, TypeInv
    <2>2. rows[w] # {} /\ Head1(w).currency # Home /\ got[w] # 0 /\ got[w] \in RateDay \cup {0}
        BY <2>1 DEF Thread, Stage, Locals
    <2>3. RateFor(got[w], Head1(w).date, ProcessOf[w])
        BY <2>1 DEF RateInv
    <2> QED
        BY <1>3, <1>5, <2>2, <2>3
<1> QED
    BY <1>2, <1>4, <1>5, PricedStep

LEMMA RateInit == Init => RateInv
<1> SUFFICES ASSUME Init PROVE RateInv
    OBVIOUS
<1>1. \A p \in Process : cache[p] = NoRates
    BY DEF Init
<1>2. \A p \in Process : DOMAIN cache[p] = {}
    BY <1>1 DEF NoRates
<1> QED
    BY <1>2 DEF Init, RateInv, RatesUsable

LEMMA RateStep == TypeInv /\ RateInv /\ [Next]_vars => RateInv'
<1> SUFFICES ASSUME TypeInv, RateInv, [Next]_vars PROVE RateInv'
    OBVIOUS
<1>1. failures' \in Nat
    BY FailuresCount DEF RateInv
<1>2. \A w \in Worker : base'[w] \subseteq published'
    BY BaseStep
<1>3. \A p \in Process : \A k \in DOMAIN cache'[p] :
          Serves(cache'[p][k], k[2], p, published', pc', base')
    BY CachedRates
<1>4. \A w \in Worker : pc'[w] = "store" => RateFor(got[w], Head1(w).date, ProcessOf[w])'
    BY RatesOnTheWay
<1>5. RatesUsable'
    BY UsableStep
<1> QED
    BY <1>1, <1>2, <1>3, <1>4, <1>5 DEF RateInv, RateFor

(* A summary adds up: each record is in the sum of its category, and in no *)
(* other.                                                                  *)
AddsUp(s) ==
    LET worth(c) == s.byCategory[c] IN s.total = MapThenSumSet(worth, DOMAIN s.byCategory)

LEMMA SummaryAddsUp ==
    ASSUME NEW S, IsFiniteSet(S), \A x \in S : x.worth \in Nat
    PROVE  AddsUp(Summary(S))
<1> DEFINE C == {x.row.category : x \in S}
           part(c) == {x \in S : x.row.category = c}
           kind == [x \in S |-> x.row.category]
<1>1. PICK u : u = Summary(S).byCategory
    OBVIOUS
<1>2. /\ Summary(S).total = MapThenSumSet(LAMBDA x : x.worth, S)
      /\ DOMAIN u = C
      /\ \A c \in C : u[c] = MapThenSumSet(LAMBDA x : x.worth, part(c))
    BY <1>1 DEF Summary
<1>3. PICK f : Adds(f, Worths(S), S) /\ MapThenSumSet(LAMBDA x : x.worth, S) = f[S]
    BY WorthAdds
<1>4. \A x \in S : Worths(S)[x] = x.worth
    BY DEF Worths
<1>5. ASSUME NEW c \in C PROVE u[c] = f[part(c)]
    <2>1. PICK T \in SUBSET S : T = part(c)
        OBVIOUS
    <2>2. IsFiniteSet(T)
        BY FS_Subset
    <2>3. PICK h : Adds(h, Worths(T), T) /\ MapThenSumSet(LAMBDA x : x.worth, T) = h[T]
        BY <2>2, WorthAdds
    <2>4. \A x \in T : Worths(S)[x] = Worths(T)[x]
        BY DEF Worths
    <2>5. f[T] = h[T]
        BY <1>3, <2>3, <2>4, SameSum
    <2> QED
        BY <1>2, <2>1, <2>3, <2>5
<1>6. C = {kind[x] : x \in S} /\ \A c \in C : part(c) = {x \in S : kind[x] = c}
    OBVIOUS
<1> HIDE DEF C, kind
<1>7. IsFiniteSet(C)
    <2>1. kind \in Surjection(S, C)
        BY <1>6 DEF Surjection, kind
    <2> QED
        BY <2>1, FS_Surjection
<1>8. PICK g : Adds(g, u, C) /\ Folded(u, C) = g[C]
    BY <1>7, FoldAdds
<1>9. Kinds(C, kind, S) /\ SumsOf(u, f, kind, S, C)
    BY <1>5, <1>6 DEF Kinds, SumsOf
<1>10. \A x \in S : Worths(S)[x] \in Nat
    BY <1>4
<1>11. g[C] = f[S]
    BY <1>3, <1>8, <1>9, <1>10, ClassesAdd
<1>12. Summary(S).total = Folded(u, C)
    BY <1>2, <1>3, <1>8, <1>11
<1> QED
    BY <1>1, <1>2, <1>12 DEF AddsUp, Folded

NamesRates(w) ==
    answer[w].status = "sums" => \A k \in DOMAIN answer[w].sums :
        LET s == answer[w].sums[k] IN
        /\ {c \in Foreign : \E d \in RateDay : <<c, d>> \in s.rateDates} = DOMAIN s.foreign
        /\ \A x \in priced[w] : x.half = k /\ x.row.currency # Home =>
               <<x.row.currency, x.rateDay>> \in s.rateDates
        /\ AddsUp(s)

Explained(w) ==
    answer[w].status = "failed" =>
        \/ failures > 0 \/ touched[w] # {}
        \/ \E i \in Id : /\ ledger[i] # None /\ ledger[i].currency # Home
                         /\ \A d \in base[w] :
                                d \notin ledger[i].date - Lookback .. ledger[i].date

(* A summary names the rates of what it is a summary of.                   *)
LEMMA SummaryNames ==
    ASSUME NEW S,
           \A x \in S : x.row.currency \in Foreign \cup {Home},
           \A x \in S : x.row.currency # Home => x.rateDay \in RateDay
    PROVE  /\ {c \in Foreign : \E d \in RateDay : <<c, d>> \in Summary(S).rateDates}
                = DOMAIN Summary(S).foreign
           /\ \A x \in S : x.row.currency # Home =>
                <<x.row.currency, x.rateDay>> \in Summary(S).rateDates
<1> DEFINE foreign == {x \in S : x.row.currency # Home}
<1>1. Summary(S).rateDates = {<<x.row.currency, x.rateDay>> : x \in foreign}
    BY DEF Summary
<1>2. DOMAIN Summary(S).foreign = {x.row.currency : x \in foreign}
    BY DEF Summary
<1>3. ASSUME NEW c \in Foreign, NEW d \in RateDay, <<c, d>> \in Summary(S).rateDates
      PROVE  c \in DOMAIN Summary(S).foreign
    BY <1>1, <1>2, <1>3
<1>4. ASSUME NEW c \in DOMAIN Summary(S).foreign
      PROVE  c \in Foreign /\ \E d \in RateDay : <<c, d>> \in Summary(S).rateDates
    <2>1. PICK x \in foreign : c = x.row.currency
        BY <1>2
    <2>2. x \in S /\ c # Home /\ x.rateDay \in RateDay
        BY <2>1
    <2>3. <<c, x.rateDay>> \in Summary(S).rateDates
        BY <1>1, <2>1
    <2> QED
        BY <2>1, <2>2, <2>3
<1> QED
    BY <1>1, <1>3, <1>4

LEMMA NamesStep ==
    ASSUME TypeInv, RateInv, [Next]_vars, NEW w \in Worker, NamesRates(w)
    PROVE  NamesRates(w)'
<1>1. CASE answer[w] # NoAnswer
    <2>1. answer'[w] = answer[w] /\ priced'[w] = priced[w]
        BY <1>1, AnsweredStays DEF Local
    <2> QED
        BY <2>1 DEF NamesRates
<1>2. CASE answer'[w].status # "sums"
    BY <1>2 DEF NamesRates
<1>3. CASE answer[w] = NoAnswer /\ answer'[w].status = "sums"
    <2>1. Answer(w)
        <3>1. answer'[w] # NoAnswer
            BY <1>3 DEF NoAnswer
        <3>2. ~(ListRecent(w) \/ CallFails(w) \/ FetchEarlier(w))
            BY <1>3 DEF ListRecent, CallFails, FetchEarlier, GiveUp, TypeInv, Locals, NoAnswer
        <3> QED
            BY <1>3, <3>1, <3>2, NewAnswer
    <2> DEFINE q == asked[w]
               part(k) == {x \in priced[w] : x.half = k}
               sums == [k \in DOMAIN q.periods |-> Summary(part(k))]
    <2>2. asked[w] \in Question[w] /\ asked[w].fn # "recent"
        BY <2>1 DEF Answer, TypeInv, Thread, Stage, Converting
    <2>3. q.fn \in {"summary", "compare", "top"}
        BY <2>2, QuestionHas
    <2>4. answer'[w].sums = sums /\ priced' = priced
        BY <1>3, <2>1, <2>3 DEF Answer, TypeInv, Locals, localVars
    <2>5. ASSUME NEW x \in priced[w]
          PROVE  /\ x.row.currency \in Foreign \cup {Home}
                 /\ x.row.currency # Home => x.rateDay \in RateDay
        <3>1. x.row.currency \in Foreign \cup {Home}
            BY RecordHas DEF TypeInv, Thread, Converted
        <3>2. Sound(x, published, base[w]) /\ published \subseteq RateDay
            BY SoundMeans DEF RateInv, TypeInv, World
        <3> QED
            BY <3>1, <3>2 DEF Sound
    <2> HIDE DEF q
    <2>6. ASSUME NEW k \in DOMAIN sums
          PROVE  /\ {c \in Foreign : \E d \in RateDay : <<c, d>> \in sums[k].rateDates}
                        = DOMAIN sums[k].foreign
                 /\ \A x \in priced[w] : x.half = k /\ x.row.currency # Home =>
                        <<x.row.currency, x.rateDay>> \in sums[k].rateDates
                 /\ AddsUp(sums[k])
        <3>1. PICK S : S = part(k)
            OBVIOUS
        <3>2. sums[k] = Summary(S)
            BY <3>1
        <3>3. \A x \in S : x \in priced[w]
            BY <3>1
        <3>4. /\ {c \in Foreign : \E d \in RateDay : <<c, d>> \in Summary(S).rateDates}
                    = DOMAIN Summary(S).foreign
              /\ \A x \in S : x.row.currency # Home =>
                    <<x.row.currency, x.rateDay>> \in Summary(S).rateDates
            BY <2>5, <3>3, SummaryNames
        <3>5. IsFiniteSet(S) /\ \A x \in S : x.worth \in Nat
            <4>1. IsFiniteSet(priced[w]) /\ S \subseteq priced[w]
                BY <3>3 DEF TypeInv, Thread, Converted
            <4>2. \A x \in priced[w] : x.worth \in Nat
                BY DEF TypeInv, Thread, Converted
            <4> QED
                BY <4>1, <4>2, FS_Subset
        <3>6. AddsUp(Summary(S))
            BY <3>5, SummaryAddsUp
        <3> QED
            BY <3>1, <3>2, <3>4, <3>6
    <2> HIDE DEF sums
    <2> QED
        BY <2>4, <2>6 DEF NamesRates
<1> QED
    BY <1>1, <1>2, <1>3

LEMMA ExplainedStep ==
    ASSUME TypeInv, RateInv, [Next]_vars, NEW w \in Worker, AsRead(w), Explained(w)
    PROVE  Explained(w)'
<1>0. Thread(w) /\ Locals /\ failures \in Nat /\ base[w] \subseteq published
    BY DEF TypeInv, RateInv
<1>1. CASE answer[w] # NoAnswer
    <2>1. answer'[w] = answer[w]
        BY <1>1, AnsweredStays DEF Local
    <2>2. \A i \in Id \ touched'[w] : i \notin touched[w] /\ ledger'[i] = ledger[i]
        BY <1>1, LedgerAsTouched
    <2>3. base'[w] = base[w]
        BY <1>0, <1>1, BaseKept DEF Thread, Stage
    <2>4. failures > 0 => failures' > 0
        BY <1>0, FailuresCount
    <2>5. touched[w] # {} => touched'[w] # {}
        BY <1>0, <2>2 DEF Locals
    <2>6. CASE touched'[w] = {}
        BY <2>1, <2>2, <2>3, <2>4, <2>5, <2>6 DEF Explained
    <2>7. CASE touched'[w] # {}
        BY <2>7 DEF Explained
    <2> QED
        BY <2>6, <2>7
<1>2. CASE answer'[w].status # "failed"
    BY <1>2 DEF Explained
<1>3. CASE answer[w] = NoAnswer /\ answer'[w].status = "failed"
    <2>1. answer'[w] # NoAnswer
        BY <1>3 DEF NoAnswer
    <2>2. CASE CallFails(w)
        <3>1. failures' = failures + 1
            BY <2>2 DEF CallFails, Failure
        <3> QED
            BY <1>0, <3>1 DEF Explained
    <2>3. CASE FetchEarlier(w)
        <3>1. PICK e : e = Head1(w)
            OBVIOUS
        <3>2. /\ {r \in UpTo(e.date) : r >= e.date - Lookback} = {} /\ rows[w] # {}
              /\ e.currency # Home /\ UNCHANGED <<ledger, base, touched>>
            BY <1>3, <2>1, <2>3, <3>1, FetchStep
        <3>3. e \in rows[w] /\ e.id \in Id /\ IsRecord(e, e.id)
            BY <1>0, <3>1, <3>2, HeadIsRead DEF Thread, Read
        <3>4. e # None /\ e.date \in Nat
            BY <3>3, RecordHas
        <3>5. \A d \in base[w] : d \notin e.date - Lookback .. e.date
            BY <1>0, <3>2 DEF UpTo
        <3>6. e.id \in touched[w] \/ ledger[e.id] = e
            BY <3>3 DEF AsRead
        <3> QED
            BY <3>2, <3>3, <3>4, <3>5, <3>6 DEF Explained
    <2>4. CASE Answer(w)
        <3>1. asked[w] \in Question[w] /\ asked[w].fn # "recent"
            BY <2>4 DEF Answer, TypeInv, Thread, Stage, Converting
        <3>2. asked[w].fn \in {"summary", "compare", "top"}
            BY <3>1, QuestionHas
        <3>3. answer'[w].status \in {"sums", "top"}
            BY <2>4, <3>2 DEF Answer, TypeInv, Locals
        <3> QED
            BY <1>3, <3>3
    <2>5. CASE ListRecent(w)
        BY <1>0, <1>3, <2>5 DEF ListRecent, Locals
    <2> QED
        BY <1>3, <2>1, <2>2, <2>3, <2>4, <2>5, NewAnswer
<1> QED
    BY <1>1, <1>2, <1>3

(* Every foreign amount is converted with a published rate, no later than  *)
(* the expense and at least as late as any that was published when the     *)
(* process of the thread started, whichever thread's response the cache    *)
(* kept; every summary names the days of the rates it used, and its        *)
(* categories add up to its total; and a question fails only if a call     *)
(* failed, or an expense of the ledger had no rate on the days looked      *)
(* back, or the ledger was written meanwhile.                              *)
THEOREM RatesAreReported == Spec => []RatesAsReported
<1> DEFINE Told == \A w \in Worker : NamesRates(w) /\ Explained(w)
<1>1. Init => Told
    BY DEF Init, NamesRates, Explained, NoAnswer
<1>2. PeriodInv /\ RateInv /\ Told /\ [Next]_vars => Told'
    <2> SUFFICES ASSUME PeriodInv, RateInv, Told, [Next]_vars, NEW w \in Worker
                 PROVE  NamesRates(w)' /\ Explained(w)'
        OBVIOUS
    <2>1. TypeInv /\ AsRead(w)
        BY DEF PeriodInv, Accounted
    <2> QED
        BY <2>1, NamesStep, ExplainedStep
<1>3. PeriodInv => TypeInv
    BY DEF PeriodInv
<1>4. RateInv /\ Told => RatesAsReported
    <2> SUFFICES ASSUME RateInv, Told PROVE RatesAsReported
        OBVIOUS
    <2>1. RatesUsable
        BY DEF RateInv
    <2>2. RatesNamed
        BY DEF NamesRates, RatesNamed
    <2>3. TotalsAddUp
        BY DEF NamesRates, AddsUp, TotalsAddUp
    <2>4. FailuresExplained
        BY DEF Explained, FailuresExplained
    <2> QED
        BY <2>1, <2>2, <2>3, <2>4 DEF RatesAsReported
<1> HIDE DEF Told
<1> QED
    BY <1>1, <1>2, <1>3, <1>4, PeriodInit, PeriodStep, RateInit, RateStep, PTL DEF Spec
=============================================================================
