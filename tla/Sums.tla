-------------------------------- MODULE Sums --------------------------------
(***************************************************************************)
(* Facts about numbers and sums over finite sets that the proofs about the *)
(* statistics and about the verification of a backfill share.              *)
(***************************************************************************)
EXTENDS Integers, FiniteSetsExt, FiniteSetTheorems, TLAPS

(* A nonempty set of numbers has a smallest one.                           *)
LEMMA Smallest ==
    ASSUME NEW S, S \subseteq Nat, S # {} PROVE \E x \in S : \A y \in S : x <= y
<1> DEFINE R == OpToRel(<, Nat)
<1>1. \A x, y \in Nat : x < y => <<x, y>> \in R
    BY DEF OpToRel
<1>2. IsWellFoundedOn(R, Nat)
    BY NatLessThanWellFounded
<1> HIDE DEF R
<1>3. PICK x \in S : \A y \in S : ~ (<<y, x>> \in R)
    BY <1>2, WFMin
<1>4. \A y \in S : ~ (y < x)
    BY <1>1, <1>3
<1> QED
    BY <1>4

(* A nonempty set of numbers with a bound has a largest one.               *)
LEMMA MaxIsIn ==
    ASSUME NEW S, S \subseteq Nat, S # {}, NEW b \in Nat, \A x \in S : x <= b
    PROVE  Max(S) \in S /\ \A y \in S : Max(S) >= y
<1> DEFINE T == {b - x : x \in S}
<1>1. T \subseteq Nat /\ T # {}
    <2>1. \A x \in S : b - x \in Nat
        OBVIOUS
    <2> QED
        BY <2>1
<1>2. PICK z \in T : \A y \in T : z <= y
    BY <1>1, Smallest
<1>3. PICK x \in S : z = b - x
    BY <1>2
<1>4. ASSUME NEW y \in S PROVE x >= y
    <2>1. b - y \in T
        OBVIOUS
    <2> QED
        BY <1>2, <1>3, <2>1
<1> QED
    BY <1>4 DEF Max

-----------------------------------------------------------------------------
(* Induction over the subsets of a finite set, for a property that is      *)
(* given as the set P of those that have it.                               *)
LEMMA SubsetInduction ==
    ASSUME NEW S, IsFiniteSet(S), NEW P, {} \in P,
           \A s \in SUBSET S : s # {} /\ (\A x \in s : s \ {x} \in P) => s \in P
    PROVE  \A s \in SUBSET S : s \in P
<1> DEFINE Bad == {s \in SUBSET S : s \notin P}
           N == {Cardinality(s) : s \in Bad}
<1>1. ASSUME NEW s \in SUBSET S PROVE IsFiniteSet(s) /\ Cardinality(s) \in Nat
    BY FS_Subset, FS_CardinalityType
<1>2. SUFFICES ASSUME Bad # {} PROVE FALSE
    OBVIOUS
<1>3. N \subseteq Nat /\ N # {}
    BY <1>1, <1>2
<1>4. PICK n \in N : \A k \in N : n <= k
    BY <1>3, Smallest
<1>5. PICK s \in Bad : n = Cardinality(s)
    BY <1>4
<1>6. ASSUME NEW x \in s PROVE s \ {x} \in P
    <2>1. Cardinality(s \ {x}) = Cardinality(s) - 1
        BY <1>1, <1>5, FS_RemoveElement
    <2>2. ~ (n <= Cardinality(s \ {x}))
        BY <1>1, <1>5, <2>1
    <2> QED
        BY <1>4, <1>5, <2>2
<1> QED
    BY <1>5, <1>6

(* A finite set has an element with the largest v.                         *)
LEMMA Largest ==
    ASSUME NEW S, IsFiniteSet(S), S # {}, NEW v, \A x \in S : v[x] \in Nat
    PROVE  \E x \in S : \A y \in S : v[y] <= v[x]
<1> DEFINE P == {s \in SUBSET S : s # {} => \E x \in s : \A y \in s : v[y] <= v[x]}
<1>1. {} \in P
    OBVIOUS
<1>2. ASSUME NEW s \in SUBSET S, s # {}, \A x \in s : s \ {x} \in P PROVE s \in P
    <2>1. PICK x \in s : TRUE
        BY <1>2
    <2>2. v[x] \in Nat /\ \A y \in s : v[y] \in Nat
        BY <2>1
    <2>3. CASE s \ {x} = {}
        <3>1. \A y \in s : v[y] <= v[x]
            BY <2>2, <2>3
        <3> QED
            BY <2>1, <3>1
    <2>4. CASE s \ {x} # {}
        <3>1. PICK m \in s \ {x} : \A y \in s \ {x} : v[y] <= v[m]
            BY <1>2, <2>1, <2>4
        <3>2. CASE v[x] <= v[m]
            <4>1. \A y \in s : v[y] <= v[m]
                BY <3>1, <3>2
            <4> QED
                BY <3>1, <4>1
        <3>3. CASE ~ (v[x] <= v[m])
            <4>1. \A y \in s : v[y] <= v[x]
                BY <2>2, <3>1, <3>3
            <4> QED
                BY <2>1, <4>1
        <3> QED
            BY <3>2, <3>3
    <2> QED
        BY <2>3, <2>4
<1>3. \A s \in SUBSET S : s # {} /\ (\A x \in s : s \ {x} \in P) => s \in P
    BY <1>2
<1> HIDE DEF P
<1>4. \A s \in SUBSET S : s \in P
    BY <1>1, <1>3, SubsetInduction
<1> QED
    BY <1>4 DEF P

(* The sums of v over the subsets of S, as a fold computes them.           *)
Pick(s) == CHOOSE x \in s : TRUE
Adds(f, v, S) ==
    f = [s \in SUBSET S |-> IF s = {} THEN 0 ELSE v[Pick(s)] + f[s \ {Pick(s)}]]

StepByStep(f, v, S) ==
    /\ f[{}] = 0
    /\ \A s \in SUBSET S : s # {} =>
         Pick(s) \in s /\ f[s] = v[Pick(s)] + f[s \ {Pick(s)}]

LEMMA AddsIs ==
    ASSUME NEW S, NEW v, NEW f, Adds(f, v, S)
    PROVE  StepByStep(f, v, S)
<1>1. \A s \in SUBSET S : s # {} => Pick(s) \in s
    BY DEF Pick
<1>2. \A s \in SUBSET S : f[s] = IF s = {} THEN 0 ELSE v[Pick(s)] + f[s \ {Pick(s)}]
    BY DEF Adds
<1> QED
    BY <1>1, <1>2 DEF StepByStep

(* Those of at most n elements.                                            *)
UpToSize(S, n) == {s \in SUBSET S : Cardinality(s) <= n}

AddsUpTo(f, v, S, n) ==
    /\ DOMAIN f = UpToSize(S, n) /\ f[{}] = 0
    /\ \A s \in UpToSize(S, n) \ {{}} : f[s] = v[Pick(s)] + f[s \ {Pick(s)}]

LEMMA AddsExists ==
    ASSUME NEW S, IsFiniteSet(S), NEW v PROVE \E f : Adds(f, v, S)
<1>1. ASSUME NEW s \in SUBSET S
      PROVE  /\ Cardinality(s) \in Nat /\ (Cardinality(s) = 0 <=> s = {})
             /\ s # {} => Pick(s) \in s /\ Cardinality(s \ {Pick(s)}) = Cardinality(s) - 1
             /\ Cardinality(s) <= Cardinality(S)
    <2>1. IsFiniteSet(s) /\ Cardinality(s) \in Nat /\ Cardinality(s) <= Cardinality(S)
        BY FS_Subset, FS_CardinalityType
    <2>2. Cardinality(s) = 0 <=> s = {}
        BY <2>1, FS_EmptySet
    <2>3. s # {} => Pick(s) \in s
        BY DEF Pick
    <2>4. s # {} => Cardinality(s \ {Pick(s)}) = Cardinality(s) - 1
        BY <2>1, <2>3, FS_RemoveElement
    <2> QED
        BY <2>1, <2>2, <2>3, <2>4
<1> DEFINE Bad == {n \in Nat : ~ \E f : AddsUpTo(f, v, S, n)}
<1>2. Bad = {}
    <2>1. SUFFICES ASSUME Bad # {} PROVE FALSE
        OBVIOUS
    <2>2. PICK n \in Bad : \A k \in Bad : n <= k
        BY <2>1, Smallest
    <2>3. CASE n = 0
        <3>1. UpToSize(S, 0) = {{}}
            <4>1. \A k \in Nat : k <= 0 <=> k = 0
                OBVIOUS
            <4>2. \A s \in SUBSET S : Cardinality(s) <= 0 <=> s = {}
                BY <1>1, <4>1
            <4> QED
                BY <4>2 DEF UpToSize
        <3>2. PICK f : f = [s \in {{}} |-> 0]
            OBVIOUS
        <3>3. DOMAIN f = UpToSize(S, 0) /\ f[{}] = 0 /\ UpToSize(S, 0) \ {{}} = {}
            BY <3>1, <3>2
        <3>4. AddsUpTo(f, v, S, 0)
            BY <3>3 DEF AddsUpTo
        <3> QED
            BY <2>2, <2>3, <3>4
    <2>4. CASE n # 0
        <3>1. n - 1 \in Nat /\ n \in Nat /\ n - 1 \notin Bad
            BY <2>2, <2>4
        <3>2. PICK f : AddsUpTo(f, v, S, n - 1)
            BY <3>1
        <3> DEFINE L == UpToSize(S, n - 1)
                   M == UpToSize(S, n)
                   g == [s \in M |-> IF s \in L THEN f[s] ELSE v[Pick(s)] + f[s \ {Pick(s)}]]
        <3>3. L \subseteq M /\ {} \in L
            <4>1. \A s \in L : s \in M
                <5>1. ASSUME NEW k \in Nat, k <= n - 1 PROVE k <= n
                    BY <3>1, <5>1
                <5> QED
                    BY <1>1, <5>1 DEF UpToSize
            <4>2. Cardinality({}) = 0
                BY <1>1
            <4> QED
                BY <3>1, <4>1, <4>2 DEF UpToSize
        <3>4. \A s \in M \ {{}} : s \ {Pick(s)} \in L
            BY <1>1, <3>1 DEF UpToSize
        <3>5. DOMAIN f = L /\ f[{}] = 0 /\ \A s \in L \ {{}} : f[s] = v[Pick(s)] + f[s \ {Pick(s)}]
            BY <3>2 DEF AddsUpTo
        <3> HIDE DEF L, M
        <3>6. \A s \in M \ {{}} : g[s] = v[Pick(s)] + g[s \ {Pick(s)}]
            BY <3>3, <3>4, <3>5
        <3>7. g[{}] = 0 /\ DOMAIN g = M
            BY <3>3, <3>5
        <3> HIDE DEF g
        <3>8. AddsUpTo(g, v, S, n)
            BY <3>6, <3>7 DEF AddsUpTo, M
        <3> QED
            BY <2>2, <3>8
    <2> QED
        BY <2>3, <2>4
<1>3. UpToSize(S, Cardinality(S)) = SUBSET S /\ Cardinality(S) \in Nat
    BY <1>1 DEF UpToSize
<1>4. PICK f : AddsUpTo(f, v, S, Cardinality(S))
    BY <1>2, <1>3
<1> DEFINE g == [s \in SUBSET S |-> f[s]]
<1>5. \A s \in SUBSET S :
          g[s] = IF s = {} THEN 0 ELSE v[Pick(s)] + g[s \ {Pick(s)}]
    BY <1>1, <1>3, <1>4 DEF AddsUpTo
<1>6. g = [s \in SUBSET S |-> g[s]]
    OBVIOUS
<1> HIDE DEF g
<1>7. Adds(g, v, S)
    BY <1>5, <1>6 DEF Adds
<1> QED
    BY <1>7

(* Any element may be added last.                                          *)
LEMMA AnyLast ==
    ASSUME NEW S, IsFiniteSet(S), NEW v, \A x \in S : v[x] \in Nat, NEW f, Adds(f, v, S)
    PROVE  /\ \A s \in SUBSET S : f[s] \in Nat
           /\ \A s \in SUBSET S : \A x \in s : f[s] = v[x] + f[s \ {x}]
<1>0. StepByStep(f, v, S)
    BY AddsIs
<1>1. /\ f[{}] = 0
      /\ \A s \in SUBSET S : s # {} =>
            Pick(s) \in s /\ f[s] = v[Pick(s)] + f[s \ {Pick(s)}]
    BY <1>0 DEF StepByStep
<1> DEFINE P == {s \in SUBSET S : f[s] \in Nat}
           Q == {s \in SUBSET S : \A x \in s : f[s] = v[x] + f[s \ {x}]}
<1>2. \A s \in SUBSET S : s \in P
    <2>1. ASSUME NEW s \in SUBSET S, s # {}, \A x \in s : s \ {x} \in P PROVE s \in P
        <3>1. PICK c \in s : f[s] = v[c] + f[s \ {c}]
            BY <1>1, <2>1
        <3>2. v[c] \in Nat /\ f[s \ {c}] \in Nat
            BY <2>1
        <3> QED
            BY <3>1, <3>2
    <2>2. {} \in P
        BY <1>1
    <2> HIDE DEF P
    <2> QED
        BY <2>1, <2>2, SubsetInduction
<1>3. \A s \in SUBSET S : s \in Q
    <2>1. ASSUME NEW s \in SUBSET S, s # {}, \A x \in s : s \ {x} \in Q, NEW x \in s
          PROVE  f[s] = v[x] + f[s \ {x}]
        <3>1. PICK c \in s : c = Pick(s) /\ f[s] = v[c] + f[s \ {c}]
            BY <1>1
        <3>2. CASE c # x
            <4>1. PICK t : t = (s \ {c}) \ {x}
                OBVIOUS
            <4>2. t = (s \ {x}) \ {c} /\ t \in SUBSET S
                BY <4>1
            <4>3. s \ {c} \in Q /\ s \ {x} \in Q
                BY <2>1
            <4>4. f[s \ {c}] = v[x] + f[t]
                BY <3>2, <4>1, <4>3
            <4>5. f[s \ {x}] = v[c] + f[t]
                BY <3>2, <4>2, <4>3
            <4>6. v[x] \in Nat /\ v[c] \in Nat /\ f[t] \in Nat
                BY <1>2, <4>2
            <4> QED
                BY <3>1, <4>4, <4>5, <4>6
        <3> QED
            BY <3>1, <3>2
    <2>2. {} \in Q
        OBVIOUS
    <2>3. \A s \in SUBSET S : s # {} /\ (\A x \in s : s \ {x} \in Q) => s \in Q
        BY <2>1
    <2> HIDE DEF Q
    <2> QED
        BY <2>2, <2>3, SubsetInduction
<1> QED
    BY <1>2, <1>3

(* Sums over sets without a common element add up.                         *)
LEMMA SumsAdd ==
    ASSUME NEW S, IsFiniteSet(S), NEW v, \A x \in S : v[x] \in Nat, NEW f, Adds(f, v, S),
           NEW a \in SUBSET S, NEW b \in SUBSET S, a \cap b = {}
    PROVE  f[a \cup b] = f[a] + f[b]
<1>1. /\ \A s \in SUBSET S : f[s] \in Nat
      /\ \A s \in SUBSET S : \A x \in s : f[s] = v[x] + f[s \ {x}]
    BY AnyLast
<1>0. f[{}] = 0
    BY AddsIs DEF StepByStep
<1> DEFINE P == {s \in SUBSET S : a \cap s = {} => f[a \cup s] = f[a] + f[s]}
<1>2. {} \in P
    <2>1. a \cup {} = a
        OBVIOUS
    <2> QED
        BY <1>0, <1>1, <2>1
<1>3. ASSUME NEW s \in SUBSET S, s # {}, \A x \in s : s \ {x} \in P, a \cap s = {}
      PROVE  f[a \cup s] = f[a] + f[s]
    <2>1. PICK x \in s : TRUE
        BY <1>3
    <2>2. (a \cup s) \ {x} = a \cup (s \ {x}) /\ a \cap (s \ {x}) = {} /\ x \in S
        BY <1>3, <2>1
    <2>3. f[a \cup (s \ {x})] = f[a] + f[s \ {x}]
        BY <1>3, <2>1, <2>2
    <2>4. f[a \cup s] = v[x] + f[(a \cup s) \ {x}] /\ f[s] = v[x] + f[s \ {x}]
        BY <1>1, <2>1
    <2>5. v[x] \in Nat /\ f[a] \in Nat /\ f[s \ {x}] \in Nat
        BY <1>1, <2>2
    <2>6. f[a \cup s] = v[x] + f[a \cup (s \ {x})]
        BY <2>2, <2>4
    <2> QED
        BY <2>3, <2>4, <2>5, <2>6
<1>4. \A s \in SUBSET S : s # {} /\ (\A x \in s : s \ {x} \in P) => s \in P
    BY <1>3
<1> HIDE DEF P
<1>5. b \in P
    BY <1>2, <1>4, SubsetInduction
<1> QED
    BY <1>5 DEF P

(* Folds of the same numbers give the same sum.                            *)
LEMMA SameSum ==
    ASSUME NEW S, IsFiniteSet(S), NEW v, NEW f, Adds(f, v, S),
           NEW T \in SUBSET S, NEW w, NEW g, Adds(g, w, T), \A x \in T : v[x] = w[x]
    PROVE  f[T] = g[T]
<1>1. IsFiniteSet(T)
    BY FS_Subset
<1> DEFINE P == {s \in SUBSET T : f[s] = g[s]}
<1>0. StepByStep(f, v, S) /\ StepByStep(g, w, T)
    BY AddsIs
<1>2. {} \in P
    BY <1>0 DEF StepByStep
<1>3. ASSUME NEW s \in SUBSET T, s # {}, \A x \in s : s \ {x} \in P PROVE s \in P
    <2>1. s \in SUBSET S
        OBVIOUS
    <2>2. Pick(s) \in s /\ f[s] = v[Pick(s)] + f[s \ {Pick(s)}]
        BY <1>0, <1>3, <2>1 DEF StepByStep
    <2>3. g[s] = w[Pick(s)] + g[s \ {Pick(s)}]
        BY <1>0, <1>3 DEF StepByStep
    <2>4. f[s \ {Pick(s)}] = g[s \ {Pick(s)}] /\ v[Pick(s)] = w[Pick(s)]
        BY <1>3, <2>2
    <2> QED
        BY <2>2, <2>3, <2>4
<1> HIDE DEF P
<1>4. T \in P
    BY <1>1, <1>2, <1>3, SubsetInduction
<1> QED
    BY <1>4 DEF P

(* What the fold of the community modules computes.                        *)
Folded(v, S) == MapThenSumSet(LAMBDA x : v[x], S)

LEMMA FoldAdds ==
    ASSUME NEW S, IsFiniteSet(S), NEW v
    PROVE  \E g : Adds(g, v, S) /\ Folded(v, S) = g[S]
<1> DEFINE g == CHOOSE h : h = [s \in SUBSET S |->
                    IF s = {} THEN 0
                    ELSE v[CHOOSE x \in s : TRUE] + h[s \ {CHOOSE x \in s : TRUE}]]
<1>1. Folded(v, S) = g[S]
    BY DEF Folded, MapThenSumSet, MapThenFoldSet
<1>2. PICK f : Adds(f, v, S)
    BY AddsExists
<1>3. Adds(g, v, S)
    BY <1>2 DEF Adds, Pick
<1> QED
    BY <1>1, <1>3

(* Sums by class add up to the sum.                                        *)
SumsOf(u, f, kind, S, C) == \A c \in C : u[c] = f[{x \in S : kind[x] = c}]

Kinds(C, kind, S) == C = {kind[x] : x \in S}

LEMMA ClassesAdd ==
    ASSUME NEW S, IsFiniteSet(S), NEW v, \A x \in S : v[x] \in Nat, NEW f, Adds(f, v, S),
           NEW kind, NEW C, Kinds(C, kind, S), NEW u, SumsOf(u, f, kind, S, C),
           NEW g, Adds(g, u, C)
    PROVE  g[C] = f[S]
<1>0. C = {kind[x] : x \in S}
    BY DEF Kinds
<1>1. IsFiniteSet(C)
    <2> DEFINE h == [x \in S |-> kind[x]]
    <2>1. h \in Surjection(S, C)
        BY <1>0 DEF Surjection
    <2> HIDE DEF h
    <2> QED
        BY <2>1, FS_Surjection
<1>2. \A a, b \in SUBSET S : a \cap b = {} => f[a \cup b] = f[a] + f[b]
    BY SumsAdd
<1> DEFINE part(D) == {x \in S : kind[x] \in D}
           P == {D \in SUBSET C : g[D] = f[part(D)]}
<1>3. StepByStep(f, v, S) /\ StepByStep(g, u, C)
    BY AddsIs
<1>4. {} \in P
    <2>1. part({}) = {}
        OBVIOUS
    <2> QED
        BY <1>3, <2>1 DEF StepByStep
<1>5. ASSUME NEW D \in SUBSET C, D # {}, \A c \in D : D \ {c} \in P PROVE D \in P
    <2>1. PICK c \in D : g[D] = u[c] + g[D \ {c}]
        BY <1>3, <1>5 DEF StepByStep
    <2>2. PICK a : a = part({c})
        OBVIOUS
    <2>3. PICK b : b = part(D \ {c})
        OBVIOUS
    <2>4. a \in SUBSET S /\ b \in SUBSET S /\ a \cap b = {} /\ a \cup b = part(D)
        BY <2>2, <2>3
    <2>5. f[a \cup b] = f[a] + f[b]
        BY <1>2, <2>4
    <2>6. g[D \ {c}] = f[b]
        BY <1>5, <2>3
    <2>7. a = {x \in S : kind[x] = c}
        BY <2>2
    <2>8. u[c] = f[a]
        BY <2>7 DEF SumsOf
    <2> QED
        BY <2>1, <2>4, <2>5, <2>6, <2>8
<1>6. part(C) = S
    BY <1>0
<1> HIDE DEF P
<1>7. \A D \in SUBSET C : D # {} /\ (\A c \in D : D \ {c} \in P) => D \in P
    BY <1>5
<1>8. \A D \in SUBSET C : D \in P
    BY <1>1, <1>4, <1>7, SubsetInduction
<1> QED
    BY <1>1, <1>6, <1>8 DEF P

-----------------------------------------------------------------------------
(* Sums over sequences *)

(* Elements beyond a part add to its sum.                                  *)
LEMMA SumBeyond ==
    ASSUME NEW S, IsFiniteSet(S), NEW v, \A x \in S : v[x] \in Nat, NEW f, Adds(f, v, S),
           NEW a \in SUBSET S, NEW x \in S \ a
    PROVE  f[S] >= f[a] + v[x]
<1>1. PICK b : b = S \ a
    OBVIOUS
<1>2. b \in SUBSET S /\ a \cap b = {} /\ a \cup b = S /\ x \in b
    BY <1>1
<1>3. f[S] = f[a] + f[b]
    BY <1>2, SumsAdd
<1>4. f[b] = v[x] + f[b \ {x}] /\ f[a] \in Nat /\ f[b \ {x}] \in Nat /\ v[x] \in Nat
    BY <1>2, AnyLast
<1> QED
    BY <1>3, <1>4

Apart(s, a) == \A i, j \in a : s[i] = s[j] => i = j
Image(s, a) == {s[i] : i \in a}

Numbers(v, S) == \A x \in S : v[x] \in Nat
AddsAny(f, v, S) == \A a \in SUBSET S : \A x \in a : f[a] = v[x] + f[a \ {x}]

LEMMA AnyAdded ==
    ASSUME NEW S, IsFiniteSet(S), NEW v, Numbers(v, S), NEW f, Adds(f, v, S)
    PROVE  AddsAny(f, v, S)
<1>1. \A x \in S : v[x] \in Nat
    BY DEF Numbers
<1>2. ASSUME NEW a \in SUBSET S, NEW x \in a PROVE f[a] = v[x] + f[a \ {x}]
    BY <1>1, AnyLast
<1> QED
    BY <1>2 DEF AddsAny

Weights(v, s, g, A) == \A i \in A : v[i] = g[s[i]] /\ v[i] \in Nat

(* Two lists of the same things, each once, have the same total, whatever  *)
(* g the things weigh.                                                     *)
LEMMA SameTotals ==
    ASSUME NEW A, IsFiniteSet(A), NEW s, NEW v, NEW f, Adds(f, v, A),
           NEW B, IsFiniteSet(B), NEW t, NEW w, NEW h, Adds(h, w, B),
           NEW g, Weights(v, s, g, A), Weights(w, t, g, B),
           NEW a0 \in SUBSET A, NEW b0 \in SUBSET B, Apart(s, a0), Apart(t, b0),
           Image(s, a0) = Image(t, b0)
    PROVE  f[a0] = h[b0]
<1> DEFINE P == {a \in SUBSET a0 :
                    \A b \in SUBSET b0 : Image(s, a) = Image(t, b) => f[a] = h[b]}
<1>0. f[{}] = 0 /\ h[{}] = 0
    BY AddsIs DEF StepByStep
<1>1. /\ \A x \in A : v[x] = g[s[x]]
      /\ \A x \in B : w[x] = g[t[x]]
    BY DEF Weights
<1>a. Numbers(v, A) /\ Numbers(w, B)
    BY DEF Weights, Numbers
<1> HIDE DEF P
<1>2. AddsAny(f, v, A) /\ AddsAny(h, w, B)
    BY <1>a, AnyAdded
<1>3. /\ \A a \in SUBSET A : \A x \in a : f[a] = v[x] + f[a \ {x}]
      /\ \A b \in SUBSET B : \A x \in b : h[b] = w[x] + h[b \ {x}]
    BY <1>2 DEF AddsAny
<1> USE DEF P
<1>4. {} \in P
    <2>1. ASSUME NEW b \in SUBSET b0, Image(s, {}) = Image(t, b) PROVE b = {}
        BY <2>1 DEF Image
    <2> QED
        BY <1>0, <2>1
<1>5. ASSUME NEW a \in SUBSET a0, a # {}, \A x \in a : a \ {x} \in P PROVE a \in P
    <2> SUFFICES ASSUME NEW b \in SUBSET b0, Image(s, a) = Image(t, b) PROVE f[a] = h[b]
        OBVIOUS
    <2>1. PICK x \in a : TRUE
        BY <1>5
    <2>2. PICK y \in b : s[x] = t[y]
        BY <2>1 DEF Image
    <2>3. Image(s, a \ {x}) = Image(t, b \ {y})
        <3>1. Image(s, a \ {x}) = Image(s, a) \ {s[x]}
            BY <2>1 DEF Image, Apart
        <3>2. Image(t, b \ {y}) = Image(t, b) \ {t[y]}
            BY <2>2 DEF Image, Apart
        <3> QED
            BY <2>2, <3>1, <3>2
    <2>4. f[a \ {x}] = h[b \ {y}]
        BY <1>5, <2>1, <2>3
    <2>5. f[a] = v[x] + f[a \ {x}] /\ h[b] = w[y] + h[b \ {y}] /\ v[x] = w[y]
        BY <1>1, <1>3, <2>1, <2>2
    <2> QED
        BY <2>4, <2>5
<1>6. IsFiniteSet(a0)
    BY FS_Subset
<1>7. \A a \in SUBSET a0 : a # {} /\ (\A x \in a : a \ {x} \in P) => a \in P
    BY <1>5
<1> HIDE DEF P
<1>8. \A a \in SUBSET a0 : a \in P
    BY <1>4, <1>6, <1>7, SubsetInduction
<1> QED
    BY <1>8 DEF P

(* A fold that adds each number to what it has.                            *)
AddsAfter(g, v, S) ==
    g = [s \in SUBSET S |-> IF s = {} THEN 0 ELSE g[s \ {Pick(s)}] + v[Pick(s)]]

LEMMA AddsEither ==
    ASSUME NEW S, IsFiniteSet(S), NEW v, \A x \in S : v[x] \in Nat
    PROVE  /\ \E g : AddsAfter(g, v, S)
           /\ \A g : AddsAfter(g, v, S) => Adds(g, v, S)
<1>1. PICK f : Adds(f, v, S)
    BY AddsExists
<1>2. \A s \in SUBSET S : f[s] \in Nat
    BY <1>1, AnyLast
<1>3. StepByStep(f, v, S)
    BY <1>1, AddsIs
<1>4. AddsAfter(f, v, S)
    <2>1. f = [s \in SUBSET S |-> f[s]]
        BY <1>1 DEF Adds
    <2>2. ASSUME NEW s \in SUBSET S
          PROVE  f[s] = IF s = {} THEN 0 ELSE f[s \ {Pick(s)}] + v[Pick(s)]
        <3>1. CASE s # {}
            <4>1. Pick(s) \in s /\ f[s] = v[Pick(s)] + f[s \ {Pick(s)}]
                BY <1>3, <3>1 DEF StepByStep
            <4>2. v[Pick(s)] \in Nat /\ f[s \ {Pick(s)}] \in Nat
                BY <1>2, <4>1
            <4> QED
                BY <3>1, <4>1, <4>2
        <3>2. CASE s = {}
            BY <1>3, <3>2 DEF StepByStep
        <3> QED
            BY <3>1, <3>2
    <2> QED
        BY <2>1, <2>2 DEF AddsAfter
<1>5. ASSUME NEW g, AddsAfter(g, v, S) PROVE g = f
    <2> DEFINE P == {s \in SUBSET S : g[s] = f[s]}
    <2>1. \A s \in SUBSET S : g[s] = IF s = {} THEN 0 ELSE g[s \ {Pick(s)}] + v[Pick(s)]
        BY <1>5 DEF AddsAfter
    <2>2. \A s \in SUBSET S : f[s] = IF s = {} THEN 0 ELSE f[s \ {Pick(s)}] + v[Pick(s)]
        BY <1>4 DEF AddsAfter
    <2>3. {} \in P
        BY <2>1, <2>2
    <2>4. \A s \in SUBSET S : s # {} /\ (\A x \in s : s \ {x} \in P) => s \in P
        BY <2>1, <2>2 DEF Pick
    <2> HIDE DEF P
    <2>5. \A s \in SUBSET S : s \in P
        BY <2>3, <2>4, SubsetInduction
    <2>6. DOMAIN g = SUBSET S /\ DOMAIN f = SUBSET S
        BY <1>4, <1>5 DEF AddsAfter
    <2>7. g = [s \in SUBSET S |-> g[s]] /\ f = [s \in SUBSET S |-> f[s]]
        BY <1>4, <1>5 DEF AddsAfter
    <2> QED
        BY <2>5, <2>7 DEF P
<1> QED
    BY <1>1, <1>4, <1>5

=============================================================================
