------------------------- MODULE BookQueriesProofs -------------------------
(***************************************************************************)
(* The queries on a side of a book are right, whatever its prices and      *)
(* volumes, the tick size and the precision.  Each query is a loop over    *)
(* the levels (Visit); it is unfolded to the values after each level       *)
(* (lemmas ...Folds), which the lemmas on lists and sums of the first part *)
(* compare with what the query promises.  Induction goes over the length   *)
(* of a list by way of a least counterexample (UpTo).                      *)
(***************************************************************************)
EXTENDS BookQueries, FiniteSetTheorems, WellFoundedInduction, TLAPS

(***************************************************************************)
(* Induction, lists and sums, for the queries of BookQueries.              *)
(***************************************************************************)
(* A set of naturals has a least element. *)
LEMMA WellOrder ==
    ASSUME NEW T, T \subseteq Nat, T # {}
    PROVE  \E n \in T : \A k \in T : n <= k
<1> DEFINE R == OpToRel(<, Nat)
<1>1. IsWellFoundedOn(R, Nat)
    BY NatLessThanWellFounded, Zenon
<1>2. \A x, y \in Nat : x < y => <<x, y>> \in R
    BY Zenon DEF OpToRel
<1> HIDE DEF R
<1>3. PICK n \in T : \A k \in T : ~(<<k, n>> \in R)
    BY <1>1, WFMin, Zenon
<1>4. \A k \in T : ~(k < n)
    BY <1>2, <1>3, Zenon
<1> QED BY <1>4

(* Induction up to n: a set that has 0 and each number after one it has. *)
LEMMA UpTo ==
    ASSUME NEW n \in Nat, NEW T, 0 \in T, \A k \in 1 .. n : k - 1 \in T => k \in T
    PROVE  \A k \in 0 .. n : k \in T
<1> SUFFICES ASSUME NEW k \in 0 .. n, k \notin T PROVE FALSE
    BY Zenon
<1> DEFINE X == {i \in 0 .. n : i \notin T}
<1>1. X \subseteq Nat /\ X # {}
    OBVIOUS
<1>2. PICK i \in X : \A j \in X : i <= j
    BY <1>1, WellOrder, Zenon
<1>3. i \in 1 .. n /\ i - 1 \in 0 .. n
    BY <1>2
<1>4. i - 1 \in T
    BY <1>2, <1>3
<1> QED BY <1>2, <1>3, <1>4

(* The order of a side's prices: the best price first. *)
Before(down, p, q) == IF down THEN p > q ELSE p < q

(* A finite set of prices has a worst one. *)
LEMMA Worst ==
    ASSUME NEW down \in BOOLEAN, NEW S, S \subseteq Int, IsFiniteSet(S), S # {}
    PROVE  \E m \in S : \A p \in S \ {m} : Before(down, p, m)
<1> DEFINE HasWorst(U) == \E m \in U : \A p \in U \ {m} : Before(down, p, m)
           T == {k \in Nat : \A U \in SUBSET S : Cardinality(U) = k /\ U # {} => HasWorst(U)}
           n == Cardinality(S)
<1>0. \A U \in SUBSET S : IsFiniteSet(U) /\ Cardinality(U) \in Nat
    BY FS_Subset, FS_CardinalityType, Zenon
<1>1. n \in Nat
    BY <1>0, Zenon
<1>2. 0 \in T
    BY <1>0, FS_EmptySet
<1>3. ASSUME NEW k \in 1 .. n, k - 1 \in T PROVE k \in T
    <2> SUFFICES ASSUME NEW U \in SUBSET S, Cardinality(U) = k PROVE HasWorst(U)
        BY <1>3
    <2>0. U # {}
        BY <1>0, <1>3, FS_EmptySet
    <2>1. PICK x \in U : TRUE
        BY <2>0, Zenon
    <2>2. U \ {x} \in SUBSET S /\ Cardinality(U \ {x}) = k - 1
        BY <1>0, FS_RemoveElement, Zenon
    <2>3. CASE U \ {x} = {}
        BY <2>1, <2>3, Zenon
    <2>4. CASE U \ {x} # {}
        <3>1. PICK m \in U \ {x} : \A p \in (U \ {x}) \ {m} : Before(down, p, m)
            BY <1>3, <2>2, <2>4, Zenon
        <3>2. x # m /\ x \in Int /\ m \in Int /\ \A p \in U : p \in Int
            BY <2>1, <3>1
        <3>3. CASE Before(down, x, m)
            BY <3>1, <3>3, Zenon
        <3>4. CASE ~Before(down, x, m)
            <4>1. Before(down, m, x)
                BY <3>2, <3>4 DEF Before
            <4>2. \A p \in U \ {x} : Before(down, p, x)
                BY <3>1, <3>2, <4>1 DEF Before
            <4> QED BY <2>1, <4>2, Zenon
        <3> QED BY <3>3, <3>4, Zenon
    <2> QED BY <2>3, <2>4, Zenon
<1> HIDE DEF T
<1>4. \A k \in 0 .. n : k \in T
    BY <1>1, <1>2, <1>3, UpTo, Zenon
<1>5. n \in T
    BY <1>1, <1>4
<1> QED BY <1>5, Zenon DEF T

(* s has the members of S, each once, in their order. *)
Lists(s, S, down) ==
    /\ s \in [1 .. Cardinality(S) -> S]
    /\ \A i, j \in 1 .. Cardinality(S) : i # j => s[i] # s[j]
    /\ \A i, j \in 1 .. Cardinality(S) : i < j => Before(down, s[i], s[j])

(* Every finite set of prices can be listed in order. *)
LEMMA ListExists ==
    ASSUME NEW down \in BOOLEAN, NEW S, S \subseteq Int, IsFiniteSet(S)
    PROVE  \E s : Lists(s, S, down)
<1> DEFINE T == {k \in Nat : \A U \in SUBSET S : Cardinality(U) = k => \E s : Lists(s, U, down)}
           n == Cardinality(S)
<1>0. \A U \in SUBSET S : IsFiniteSet(U) /\ Cardinality(U) \in Nat
    BY FS_Subset, FS_CardinalityType, Zenon
<1>1. n \in Nat
    BY <1>0, Zenon
<1>2. 0 \in T
    <2> SUFFICES ASSUME NEW U \in SUBSET S, Cardinality(U) = 0 PROVE Lists(<<>>, U, down)
        OBVIOUS
    <2> QED BY DEF Lists
<1>3. ASSUME NEW k \in 1 .. n, k - 1 \in T PROVE k \in T
    <2> SUFFICES ASSUME NEW U \in SUBSET S, Cardinality(U) = k PROVE \E s : Lists(s, U, down)
        BY <1>3
    <2>1. U # {} /\ U \subseteq Int /\ IsFiniteSet(U)
        BY <1>0, <1>3, FS_EmptySet
    <2>2. PICK m \in U : \A p \in U \ {m} : Before(down, p, m)
        BY <2>1, Worst, Zenon
    <2> DEFINE W == U \ {m}
    <2>3. W \in SUBSET S /\ Cardinality(W) = k - 1
        BY <1>0, FS_RemoveElement, Zenon
    <2>4. PICK r : Lists(r, W, down)
        BY <1>3, <2>3, Zenon
    <2> DEFINE s == [i \in 1 .. k |-> IF i = k THEN m ELSE r[i]]
    <2>5. /\ r \in [1 .. k - 1 -> W]
          /\ \A i, j \in 1 .. k - 1 : i # j => r[i] # r[j]
          /\ \A i, j \in 1 .. k - 1 : i < j => Before(down, r[i], r[j])
        BY <2>3, <2>4, Zenon DEF Lists
    <2> HIDE DEF W
    <2>6. \A i \in 1 .. k : i # k => i \in 1 .. k - 1
        BY <1>3
    <2>7. \A p \in W : p \in U /\ p # m /\ Before(down, p, m)
        BY <2>2, Zenon DEF W
    <2>8. s \in [1 .. k -> U]
        BY <2>5, <2>6, <2>7
    <2>9. \A i, j \in 1 .. k : i # j => s[i] # s[j]
        BY <2>5, <2>6, <2>7
    <2>10. ASSUME NEW i \in 1 .. k, NEW j \in 1 .. k, i < j PROVE Before(down, s[i], s[j])
        <3>1. i \in 1 .. k - 1 /\ i # k
            BY <2>10
        <3>2. s[i] = r[i] /\ r[i] \in W
            BY <2>5, <3>1
        <3>3. CASE j = k
            <4>1. s[j] = m
                BY <3>3
            <4> QED BY <2>7, <3>2, <4>1, Zenon
        <3>4. CASE j # k
            <4>1. j \in 1 .. k - 1 /\ s[j] = r[j]
                BY <2>6, <3>4
            <4> QED BY <2>5, <2>10, <3>1, <3>2, <4>1, Zenon
        <3> QED BY <3>3, <3>4, Zenon
    <2> HIDE DEF s
    <2>11. Lists(s, U, down)
        BY <2>8, <2>9, <2>10, Zenon DEF Lists
    <2> QED BY <2>11, Zenon
<1> HIDE DEF T
<1>4. \A k \in 0 .. n : k \in T
    BY <1>1, <1>2, <1>3, UpTo, Zenon
<1>5. n \in T
    BY <1>1, <1>4
<1> QED BY <1>5, Zenon DEF T

(* A list has every member of its set. *)
Onto(s, n, S) == \A p \in S : \E i \in 1 .. n : s[i] = p

(* Two members of a list of n prices differ, so n of them are all there    *)
(* are.                                                                    *)
LEMMA ListIsOnto ==
    ASSUME NEW down, NEW S, IsFiniteSet(S), NEW s, Lists(s, S, down)
    PROVE  Onto(s, Cardinality(S), S)
<1> DEFINE n == Cardinality(S)
<1>1. n \in Nat
    BY FS_CardinalityType, Zenon
<1>2. IsFiniteSet(1 .. n) /\ Cardinality(1 .. n) = n
    BY <1>1, FS_Interval
<1>3. s \in [1 .. n -> S] /\ \A i, j \in 1 .. n : i # j => s[i] # s[j]
    BY Zenon DEF Lists
<1> HIDE DEF n
<1>4. s \in Injection(1 .. n, S)
    BY <1>3, Zenon DEF Injection, IsInjective
<1>5. s \in Surjection(1 .. n, S)
    BY <1>2, <1>4, FS_Injection, Zenon DEF n
<1> QED BY <1>5, Zenon DEF Surjection, Onto, n

(* A fold over the subsets of D that takes out the element c[S] of S first  *)
(* exists: on sets of k elements it is built from that on sets of k - 1.    *)
IsFold(it, D, base, F, c) ==
    \A S \in SUBSET D : it[S] = IF S = {} THEN base ELSE F[c[S]][it[S \ {c[S]}]]

(* F has a step on A for every member of D, and c a member for every       *)
(* subset.                                                                 *)
Steps(F, D, A) == F \in [D -> [A -> A]]
Chooses(c, D) == \A S \in SUBSET D : S # {} => c[S] \in S

(* Such a fold exists for every step function F on A and every choice c. *)
LEMMA FoldExists ==
    ASSUME NEW D, IsFiniteSet(D), NEW A, NEW base \in A, NEW F, Steps(F, D, A),
           NEW c, Chooses(c, D)
    PROVE  \E it \in [SUBSET D -> A] : IsFold(it, D, base, F, c)
<1> DEFINE n == Cardinality(D)
           Small(k) == {S \in SUBSET D : Cardinality(S) <= k}
           next(it, S) == IF S = {} THEN base ELSE F[c[S]][it[S \ {c[S]}]]
           T == {k \in Nat : \E it \in [SUBSET D -> A] : \A S \in Small(k) : it[S] = next(it, S)}
<1>0. \A S \in SUBSET D : IsFiniteSet(S) /\ Cardinality(S) \in Nat /\ Cardinality(S) <= n
    BY FS_Subset, FS_CardinalityType, Zenon
<1>1. n \in Nat
    BY <1>0, Zenon
<1>2. 0 \in T
    <2> DEFINE it == [S \in SUBSET D |-> base]
    <2>1. it \in [SUBSET D -> A]
        BY Zenon
    <2>2. ASSUME NEW S \in Small(0) PROVE it[S] = next(it, S)
        <3>1. S = {}
            BY <1>0, <2>2, FS_EmptySet
        <3> QED BY <3>1, Zenon
    <2> QED BY <2>1, <2>2
<1>3. ASSUME NEW k \in 1 .. n, k - 1 \in T PROVE k \in T
    <2>1. PICK it \in [SUBSET D -> A] : \A S \in Small(k - 1) : it[S] = next(it, S)
        BY <1>3
    <2> DEFINE jt == [S \in SUBSET D |-> next(it, S)]
    <2>2. jt \in [SUBSET D -> A]
        <3> SUFFICES ASSUME NEW S \in SUBSET D PROVE next(it, S) \in A
            BY Zenon
        <3>1. CASE S = {}
            BY <3>1, Zenon
        <3>2. CASE S # {}
            <4>1. c[S] \in D /\ S \ {c[S]} \in SUBSET D
                BY <3>2, Zenon DEF Chooses
            <4>2. F[c[S]] \in [A -> A] /\ it[S \ {c[S]}] \in A
                BY <4>1, Zenon DEF Steps
            <4> QED BY <3>2, <4>2, Zenon
        <3> QED BY <3>1, <3>2, Zenon
    <2>3. ASSUME NEW S \in Small(k) PROVE jt[S] = next(jt, S)
        <3>1. CASE S = {}
            BY <3>1, Zenon
        <3>2. CASE S # {}
            <4> DEFINE x == c[S]
                       R == S \ {x}
            <4>1. x \in S /\ S \in SUBSET D /\ R \in SUBSET D
                BY <3>2, Zenon DEF Chooses
            <4>2. Cardinality(R) = Cardinality(S) - 1
                <5> HIDE DEF x
                <5>1. IsFiniteSet(S)
                    BY <1>0, <4>1, Zenon
                <5> QED BY <4>1, <5>1, FS_RemoveElement, Zenon
            <4>3. R \in Small(k - 1)
                BY <1>0, <2>3, <4>1, <4>2
            <4>4. it[R] = next(it, R) /\ jt[R] = next(it, R)
                BY <2>1, <4>1, <4>3, Zenon
            <4>5. jt[S] = F[c[S]][it[R]]
                BY <3>2, <4>1, Zenon
            <4> QED BY <3>2, <4>4, <4>5, Zenon
        <3> QED BY <3>1, <3>2, Zenon
    <2> HIDE DEF jt
    <2>4. k \in Nat
        BY <1>1
    <2> QED BY <2>2, <2>3, <2>4, Zenon
<1> HIDE DEF T
<1>4. \A k \in 0 .. n : k \in T
    BY <1>1, <1>2, <1>3, UpTo, Zenon
<1>5. n \in T
    BY <1>1, <1>4
<1>6. PICK it \in [SUBSET D -> A] : \A S \in Small(n) : it[S] = next(it, S)
    BY <1>5, Zenon DEF T
<1>7. \A S \in SUBSET D : S \in Small(n)
    BY <1>0, Zenon
<1> QED BY <1>6, <1>7, Zenon DEF IsFold

(* A list of n integers. *)
Ints(f, n) == f \in [1 .. n -> Int]

(* The sums of the first numbers of f. *)
IsSums(h, f, n) ==
    /\ h \in [0 .. n -> Int] /\ h[0] = 0
    /\ \A k \in 1 .. n : h[k] = h[k - 1] + f[k]

(* Every list of integers has such sums. *)
LEMMA SumsExist ==
    ASSUME NEW n \in Nat, NEW f, Ints(f, n)
    PROVE  \E h : IsSums(h, f, n)
<1> DEFINE T == {k \in Nat : k <= n => \E h : IsSums(h, f, k)}
<1>1. 0 \in T
    <2>1. IsSums([k \in 0 .. 0 |-> 0], f, 0)
        BY DEF IsSums
    <2> QED BY <2>1
<1>2. ASSUME NEW k \in 1 .. n, k - 1 \in T PROVE k \in T
    <2>1. PICK h : IsSums(h, f, k - 1)
        BY <1>2
    <2> DEFINE g == [i \in 0 .. k |-> IF i = k THEN h[k - 1] + f[k] ELSE h[i]]
    <2>2. /\ h \in [0 .. k - 1 -> Int] /\ h[0] = 0 /\ f[k] \in Int
          /\ \A i \in 1 .. k - 1 : h[i] = h[i - 1] + f[i]
        BY <2>1 DEF IsSums, Ints
    <2>3. g \in [0 .. k -> Int] /\ g[0] = 0
        BY <2>2
    <2>4. ASSUME NEW i \in 1 .. k PROVE g[i] = g[i - 1] + f[i]
        <3>1. i - 1 \in 0 .. k /\ i - 1 # k /\ g[i - 1] = h[i - 1]
            BY <2>4
        <3>2. CASE i = k
            BY <3>1, <3>2
        <3>3. CASE i # k
            BY <2>2, <3>1, <3>3
        <3> QED BY <3>2, <3>3
    <2> HIDE DEF g
    <2>5. IsSums(g, f, k)
        BY <2>3, <2>4, Zenon DEF IsSums
    <2> QED BY <2>5
<1> HIDE DEF T
<1>3. \A k \in 0 .. n : k \in T
    BY <1>1, <1>2, UpTo, Zenon
<1>4. n \in T /\ n <= n
    BY <1>3
<1> QED BY <1>4, Zenon DEF T

(* A sum and the one before it. *)
Adds(F, f, n) == \A k \in 1 .. n : /\ F[k] = F[k - 1] + f[k]
                                  /\ F[k] \in Int /\ F[k - 1] \in Int /\ f[k] \in Int

(* The sums of a list are integers, each the one before it and the next    *)
(* number.                                                                 *)
LEMMA SumsAdd ==
    ASSUME NEW n \in Nat, NEW f, Ints(f, n), NEW F, IsSums(F, f, n)
    PROVE  Adds(F, f, n)
<1> SUFFICES ASSUME NEW k \in 1 .. n
             PROVE  /\ F[k] = F[k - 1] + f[k]
                    /\ F[k] \in Int /\ F[k - 1] \in Int /\ f[k] \in Int
    BY Zenon DEF Adds
<1>1. F[k] = F[k - 1] + f[k] /\ F \in [0 .. n -> Int]
    BY Zenon DEF IsSums
<1>2. k - 1 \in 0 .. n /\ k \in 0 .. n
    OBVIOUS
<1>3. f[k] \in Int
    BY DEF Ints
<1> QED BY <1>1, <1>2, <1>3, Zenon

(* Steps of arithmetic. *)
LEMMA AddCompare ==
    ASSUME NEW M \in Int, NEW a \in Int, NEW b \in Int, NEW c \in Int, NEW d \in Int,
           NEW p \in Int, NEW q \in Int, NEW r \in Int, NEW s \in Int,
           a - M * b >= c - M * d, p - M * q >= r - M * s
    PROVE  (a + p) - M * (b + q) >= (c + r) - M * (d + s)
<1>1. M * (b + q) = M * b + M * q /\ M * (d + s) = M * d + M * s
    OBVIOUS
<1>2. M * b \in Int /\ M * q \in Int /\ M * d \in Int /\ M * s \in Int
    OBVIOUS
<1> QED BY <1>1, <1>2

(* Equal differences, the other way round. *)
LEMMA SwapDiff ==
    ASSUME NEW a \in Int, NEW b \in Int, NEW p \in Int, NEW q \in Int, a - b = p - q
    PROVE  a - p = b - q
OBVIOUS

(* The terms of two lists, each less M times a weight, are in order. *)
Compares(f, u, g, v, n, M) == \A i \in 1 .. n : f[i] - M * u[i] >= g[i] - M * v[i]

(* The weighted sums of two lists are in the order of their terms. *)
LEMMA SumsCompare ==
    ASSUME NEW n \in Nat, NEW M \in Int, NEW f, Ints(f, n), NEW u, Ints(u, n),
           NEW g, Ints(g, n), NEW v, Ints(v, n), NEW F, IsSums(F, f, n),
           NEW U, IsSums(U, u, n), NEW G, IsSums(G, g, n), NEW V, IsSums(V, v, n),
           Compares(f, u, g, v, n, M), U[n] = V[n]
    PROVE  F[n] >= G[n]
<1> DEFINE T == {k \in 0 .. n : F[k] - M * U[k] >= G[k] - M * V[k]}
<1>0. Adds(F, f, n) /\ Adds(U, u, n) /\ Adds(G, g, n) /\ Adds(V, v, n)
    BY SumsAdd, Zenon
<1>1. 0 \in T
    <2>1. F[0] = 0 /\ U[0] = 0 /\ G[0] = 0 /\ V[0] = 0
        BY Zenon DEF IsSums
    <2> QED BY <2>1
<1>2. ASSUME NEW k \in 1 .. n, k - 1 \in T PROVE k \in T
    <2>1. /\ F[k] = F[k - 1] + f[k] /\ F[k - 1] \in Int /\ f[k] \in Int
          /\ U[k] = U[k - 1] + u[k] /\ U[k - 1] \in Int /\ u[k] \in Int
          /\ G[k] = G[k - 1] + g[k] /\ G[k - 1] \in Int /\ g[k] \in Int
          /\ V[k] = V[k - 1] + v[k] /\ V[k - 1] \in Int /\ v[k] \in Int
        BY <1>0, Zenon DEF Adds
    <2>2. F[k - 1] - M * U[k - 1] >= G[k - 1] - M * V[k - 1]
        BY <1>2, Zenon
    <2>3. f[k] - M * u[k] >= g[k] - M * v[k]
        BY Zenon DEF Compares
    <2>4. F[k] - M * U[k] >= G[k] - M * V[k]
        BY <2>1, <2>2, <2>3, AddCompare, ZenonT(40)
    <2>5. k \in 0 .. n
        OBVIOUS
    <2> QED BY <2>4, <2>5, Zenon
<1> HIDE DEF T
<1>3. \A k \in 0 .. n : k \in T
    BY <1>1, <1>2, UpTo, Zenon
<1>4. n \in T
    BY <1>3
<1>5. F[n] - M * U[n] >= G[n] - M * U[n]
    BY <1>4, Zenon DEF T
<1>6. F[n] \in Int /\ G[n] \in Int /\ U[n] \in Int
    BY DEF IsSums
<1>7. M * U[n] \in Int
    BY <1>6
<1> QED BY <1>5, <1>6, <1>7

(* Two lists that differ at one place at most. *)
AgreeBut(f, g, n, j) == \A i \in 1 .. n : i # j => f[i] = g[i]
DifferBy(F, G, n, f, g, j) == F[n] - f[j] = G[n] - g[j]

(* The sums of two lists that agree but at j differ by what the lists      *)
(* differ by there.                                                        *)
LEMMA SumsDiffer ==
    ASSUME NEW n \in Nat, NEW f, Ints(f, n), NEW g, Ints(g, n), NEW j \in 1 .. n,
           AgreeBut(f, g, n, j), NEW F, IsSums(F, f, n), NEW G, IsSums(G, g, n)
    PROVE  DifferBy(F, G, n, f, g, j)
<1> DEFINE T == {k \in 0 .. n : F[k] - G[k] = IF k < j THEN 0 ELSE f[j] - g[j]}
<1>a. Adds(F, f, n) /\ Adds(G, g, n)
    BY SumsAdd, Zenon
<1>0. f[j] \in Int /\ g[j] \in Int
    BY DEF Ints
<1>1. 0 \in T
    <2>1. F[0] = 0 /\ G[0] = 0
        BY Zenon DEF IsSums
    <2> QED BY <2>1
<1>2. ASSUME NEW k \in 1 .. n, k - 1 \in T PROVE k \in T
    <2> DEFINE a == F[k - 1]
               b == G[k - 1]
               p == f[k]
               q == g[k]
               x == F[k]
               y == G[k]
               d == f[j]
               e == g[j]
    <2>1. /\ x = a + p /\ a \in Int /\ p \in Int
          /\ y = b + q /\ b \in Int /\ q \in Int
        BY <1>a, Zenon DEF Adds
    <2>2. /\ a - b = IF k - 1 < j THEN 0 ELSE d - e
          /\ k # j => p = q
          /\ k = j => p = d /\ q = e
        BY <1>2, Zenon DEF AgreeBut
    <2>3. k \in 0 .. n
        OBVIOUS
    <2>4. x - y = IF k < j THEN 0 ELSE d - e
        <3>0. d \in Int /\ e \in Int
            BY <1>0
        <3> HIDE DEF a, b, p, q, x, y, d, e
        <3>1. CASE k < j
            BY <2>1, <2>2, <3>1
        <3>2. CASE k = j
            BY <2>1, <2>2, <3>2
        <3>3. CASE k > j
            BY <2>1, <2>2, <3>0, <3>3
        <3> QED BY <3>1, <3>2, <3>3
    <2> QED BY <2>3, <2>4, Zenon
<1> HIDE DEF T
<1>3. \A k \in 0 .. n : k \in T
    BY <1>1, <1>2, UpTo, Zenon
<1>4. n \in T /\ ~(n < j)
    BY <1>3
<1>5. F[n] - G[n] = f[j] - g[j]
    BY <1>4, Zenon DEF T
<1>6. F[n] \in Int /\ G[n] \in Int
    BY DEF IsSums
<1> QED BY <1>0, <1>5, <1>6, SwapDiff DEF DifferBy

(* Sums of naturals do not fall. *)
Nats(f, n) == f \in [1 .. n -> Nat]
Rises(F, n) == F \in [0 .. n -> Nat] /\ \A i, j \in 0 .. n : i <= j => F[i] <= F[j]

(* The volume of a side up to a level does not fall from one level to the  *)
(* next.                                                                   *)
LEMMA SumsRise ==
    ASSUME NEW n \in Nat, NEW f, Nats(f, n), NEW F, IsSums(F, f, n)
    PROVE  Rises(F, n)
<1> DEFINE T == {k \in 0 .. n : F[k] >= 0 /\ \A i \in 0 .. k : F[i] <= F[k]}
<1>1. 0 \in T
    BY DEF IsSums
<1>2. ASSUME NEW k \in 1 .. n, k - 1 \in T PROVE k \in T
    <2>1. F[k] = F[k - 1] + f[k] /\ F \in [0 .. n -> Int]
        BY Zenon DEF IsSums
    <2>2. F[k - 1] \in Int /\ f[k] \in Nat
        BY <2>1 DEF Nats
    <2>3. F[k - 1] >= 0 /\ \A i \in 0 .. k - 1 : F[i] <= F[k - 1]
        BY <1>2
    <2>4. ASSUME NEW i \in 0 .. k PROVE F[i] <= F[k]
        <3>1. CASE i = k
            BY <2>1, <2>2, <3>1
        <3>2. CASE i # k
            <4>1. i \in 0 .. k - 1 /\ F[i] \in Int
                BY <2>1, <3>2
            <4> QED BY <2>1, <2>2, <2>3, <4>1
        <3> QED BY <3>1, <3>2
    <2> QED BY <2>1, <2>2, <2>3, <2>4
<1> HIDE DEF T
<1>3. \A k \in 0 .. n : k \in T
    BY <1>1, <1>2, UpTo, Zenon
<1>4. F \in [0 .. n -> Int]
    BY Zenon DEF IsSums
<1>5. \A k \in 0 .. n : F[k] >= 0 /\ \A i \in 0 .. k : F[i] <= F[k]
    BY <1>3, Zenon DEF T
<1> QED BY <1>4, <1>5 DEF Rises

(* Equal lists have equal sums. *)
Agree(f, g, n) == \A i \in 1 .. n : f[i] = g[i]
SameSums(F, G, n) == \A k \in 0 .. n : F[k] = G[k]

(* Lists with equal numbers have equal sums. *)
LEMMA SumsEqual ==
    ASSUME NEW n \in Nat, NEW f, Ints(f, n), NEW g, Ints(g, n),
           Agree(f, g, n), NEW F, IsSums(F, f, n), NEW G, IsSums(G, g, n)
    PROVE  SameSums(F, G, n)
<1> DEFINE T == {k \in 0 .. n : F[k] = G[k]}
<1>1. 0 \in T
    BY DEF IsSums
<1>2. ASSUME NEW k \in 1 .. n, k - 1 \in T PROVE k \in T
    <2>1. F[k] = F[k - 1] + f[k] /\ G[k] = G[k - 1] + g[k] /\ f[k] = g[k]
        BY Zenon DEF IsSums, Agree
    <2>2. F[k - 1] = G[k - 1]
        BY <1>2, Zenon
    <2>3. k \in 0 .. n
        OBVIOUS
    <2> QED BY <2>1, <2>2, <2>3, Zenon
<1> HIDE DEF T
<1>3. \A k \in 0 .. n : k \in T
    BY <1>1, <1>2, UpTo, Zenon
<1> QED BY <1>3, Zenon DEF T, SameSums

(* A sum over a set, taken in any order, is the sum over the set's list:   *)
(* on every subset it is the sum of the list with zeros for the others.    *)
Masked(f, s, S, n) == [i \in 1 .. n |-> IF s[i] \in S THEN f[s[i]] ELSE 0]

(* A list without repetition, and a sum that has one number more. *)
Injects(s, n) == \A i, j \in 1 .. n : i # j => s[i] # s[j]
OneMore(g, G, n, f, x) == g[n] = f[x] + G[n]

(* The sum over the empty set is 0. *)
LEMMA MaskedNone ==
    ASSUME NEW n \in Nat, NEW f, NEW s
    PROVE  \A g : IsSums(g, Masked(f, s, {}, n), n) => g[n] = 0
<1> SUFFICES ASSUME NEW g, IsSums(g, Masked(f, s, {}, n), n) PROVE g[n] = 0
    BY Zenon
<1> DEFINE z == [i \in 1 .. n |-> 0]
           Z == [k \in 0 .. n |-> 0]
<1>1. IsSums(Z, z, n) /\ Ints(z, n) /\ Z[n] = 0 /\ n \in 0 .. n
    BY DEF IsSums, Ints
<1>2. Masked(f, s, {}, n) = z /\ Agree(z, z, n)
    BY Zenon DEF Masked, Agree
<1>3. IsSums(g, z, n)
    BY <1>2, Zenon
<1> HIDE DEF z, Z
<1>4. SameSums(g, Z, n)
    BY <1>1, <1>2, <1>3, SumsEqual, Zenon
<1> QED BY <1>1, <1>4, Zenon DEF SameSums

(* A price more in the set adds its number to the sum. *)
LEMMA MaskedOne ==
    ASSUME NEW D, NEW n \in Nat, NEW s \in [1 .. n -> D], NEW f \in [D -> Int],
           Injects(s, n), NEW j \in 1 .. n,
           NEW S \in SUBSET D, s[j] \in S,
           NEW g, IsSums(g, Masked(f, s, S, n), n),
           NEW G, IsSums(G, Masked(f, s, S \ {s[j]}, n), n)
    PROVE  OneMore(g, G, n, f, s[j])
<1> DEFINE u == Masked(f, s, S, n)
           v == Masked(f, s, S \ {s[j]}, n)
<1>1. u[j] = f[s[j]] /\ v[j] = 0
    BY Zenon DEF Masked
<1>2. ASSUME NEW i \in 1 .. n, i # j PROVE u[i] = v[i]
    <2>1. s[i] # s[j]
        BY <1>2, Zenon DEF Injects
    <2>2. s[i] \in S <=> s[i] \in S \ {s[j]}
        BY <2>1, Zenon
    <2> QED BY <2>2, Zenon DEF Masked
<1>3. Ints(u, n) /\ Ints(v, n) /\ f[s[j]] \in Int
    BY DEF Masked, Ints
<1>4. AgreeBut(u, v, n, j)
    BY <1>2, Zenon DEF AgreeBut
<1> HIDE DEF u, v
<1>5. IsSums(g, u, n) /\ IsSums(G, v, n)
    BY Zenon DEF u, v
<1>6. DifferBy(g, G, n, u, v, j)
    BY <1>3, <1>4, <1>5, SumsDiffer, Zenon
<1>7. g[n] \in Int /\ G[n] \in Int
    BY <1>5 DEF IsSums
<1> DEFINE a == g[n]
           b == G[n]
           d == f[s[j]]
<1>8. a - d = b - 0 /\ a \in Int /\ b \in Int /\ d \in Int
    BY <1>1, <1>3, <1>6, <1>7, Zenon DEF DifferBy
<1>9. a = d + b
    <2> HIDE DEF a, b, d
    <2> QED BY <1>8
<1> QED BY <1>9, Zenon DEF OneMore

(* The sum over a set that takes out c[S] first; the numbers, and their    *)
(* list in the order of s.                                                 *)
AddsOver(it, f, c, D) == \A S \in SUBSET D : it[S] = IF S = {} THEN 0 ELSE f[c[S]] + it[S \ {c[S]}]
IntsOver(f, D) == f \in [D -> Int]
Along(f, s, n) == [i \in 1 .. n |-> f[s[i]]]

(* The sum over a set in the order of c is the sum over its list. *)
LEMMA AnyOrder ==
    ASSUME NEW D, IsFiniteSet(D), NEW n \in Nat, n = Cardinality(D), NEW s, NEW down,
           Lists(s, D, down), NEW f, IntsOver(f, D), NEW c, Chooses(c, D),
           NEW it, AddsOver(it, f, c, D), NEW h, IsSums(h, Along(f, s, n), n)
    PROVE  it[D] = h[n]
<1> DEFINE T == {k \in 0 .. n : \A S \in SUBSET D : Cardinality(S) = k =>
                     \A g : IsSums(g, Masked(f, s, S, n), n) => it[S] = g[n]}
<1>0. \A S \in SUBSET D : IsFiniteSet(S) /\ Cardinality(S) \in Nat
    BY FS_Subset, FS_CardinalityType, Zenon
<1>a. s \in [1 .. n -> D] /\ f \in [D -> Int] /\ Injects(s, n)
    BY Zenon DEF Lists, IntsOver, Injects
<1>b. Onto(s, n, D)
    BY ListIsOnto, Zenon
<1>1. \A S \in SUBSET D : Ints(Masked(f, s, S, n), n)
    BY <1>a DEF Masked, Ints
<1>2. 0 \in T
    <2> SUFFICES ASSUME NEW S \in SUBSET D, Cardinality(S) = 0,
                        NEW g, IsSums(g, Masked(f, s, S, n), n)
                 PROVE  it[S] = g[n]
        OBVIOUS
    <2>1. S = {}
        BY <1>0, FS_EmptySet, Zenon
    <2>2. it[S] = 0
        BY <2>1, Zenon DEF AddsOver
    <2>3. g[n] = 0
        BY <2>1, MaskedNone
    <2> QED BY <2>2, <2>3, Zenon
<1>3. ASSUME NEW k \in 1 .. n, k - 1 \in T PROVE k \in T
    <2> SUFFICES ASSUME NEW S \in SUBSET D, Cardinality(S) = k,
                        NEW g, IsSums(g, Masked(f, s, S, n), n)
                 PROVE  it[S] = g[n]
        BY <1>3
    <2>1. S # {}
        BY <1>0, <1>3, FS_EmptySet
    <2> DEFINE x == c[S]
               R == S \ {x}
    <2>2. x \in S /\ x \in D /\ R \in SUBSET D /\ it[S] = f[x] + it[R]
        BY <2>1, Zenon DEF AddsOver, Chooses
    <2> HIDE DEF x
    <2>3. Cardinality(R) = k - 1
        BY <1>0, <2>2, FS_RemoveElement, Zenon
    <2>4. PICK j \in 1 .. n : s[j] = x
        BY <1>b, <2>2, Zenon DEF Onto
    <2>5. PICK G : IsSums(G, Masked(f, s, R, n), n)
        BY <1>1, <2>2, SumsExist, Zenon
    <2>6. it[R] = G[n]
        BY <1>3, <2>2, <2>3, <2>5, Zenon
    <2>7. s[j] \in S /\ IsSums(G, Masked(f, s, S \ {s[j]}, n), n)
        BY <2>2, <2>4, <2>5, Zenon
    <2>8. OneMore(g, G, n, f, s[j])
        BY <1>a, <2>7, MaskedOne, Zenon
    <2> QED BY <2>2, <2>4, <2>6, <2>8, Zenon DEF OneMore
<1> HIDE DEF T
<1>4. \A k \in 0 .. n : k \in T
    BY <1>2, <1>3, UpTo, Zenon
<1>5. n \in T
    BY <1>4
<1>6. Masked(f, s, D, n) = Along(f, s, n)
    BY <1>a DEF Masked, Along
<1>7. IsSums(h, Masked(f, s, D, n), n)
    BY <1>6
<1> QED BY <1>5, <1>7, Zenon DEF T

(***************************************************************************)
(* A side as the list s of its prices with the volumes v.                  *)
(***************************************************************************)
(* The level at which a quantity is filled. *)
LEMMA QuantityCut ==
    ASSUME NEW n \in Nat, NEW v, Nats(v, n), NEW V, IsSums(V, v, n), NEW q \in 1 .. V[n]
    PROVE  \E m \in 1 .. n : V[m - 1] < q /\ q <= V[m]
<1> DEFINE T == {k \in 0 .. n : q <= V[k]}
<1>0. V \in [0 .. n -> Nat] /\ V[0] = 0
    BY SumsRise, Zenon DEF IsSums, Rises
<1>1. V[n] \in Nat /\ q \in Nat /\ q <= V[n] /\ q # 0
    BY <1>0
<1>2. T \subseteq Nat /\ T # {}
    BY <1>1
<1>3. PICK m \in T : \A k \in T : m <= k
    BY <1>2, WellOrder, Zenon
<1>4. m \in 0 .. n /\ q <= V[m]
    BY <1>3
<1>5. m # 0
    BY <1>0, <1>1, <1>4
<1>6. m \in 1 .. n /\ m - 1 \in 0 .. n /\ ~(m <= m - 1)
    BY <1>4, <1>5
<1>7. ~(q <= V[m - 1]) /\ V[m - 1] \in Nat
    BY <1>0, <1>3, <1>6, Zenon
<1>8. V[m - 1] < q
    BY <1>1, <1>7
<1> QED BY <1>4, <1>6, <1>8, Zenon

(* The first prices of the list are not beyond a given one, the others are. *)
Upto(s, n, down, price, m) ==
    /\ m \in 0 .. n
    /\ \A i \in 1 .. m : ~Before(down, price, s[i])
    /\ \A i \in m + 1 .. n : Before(down, price, s[i])

(* In a list in the order of a side, every price has a place up to which   *)
(* the prices are not beyond it.                                           *)
LEMMA PriceCut ==
    ASSUME NEW n \in Nat, NEW s \in [1 .. n -> Int], NEW down \in BOOLEAN, NEW price \in Int,
           \A i, j \in 1 .. n : i < j => Before(down, s[i], s[j])
    PROVE  \E m : Upto(s, n, down, price, m)
<1> DEFINE T == {k \in 1 .. n : Before(down, price, s[k])}
<1>1. CASE T = {}
    <2>1. Upto(s, n, down, price, n)
        BY <1>1 DEF Upto
    <2> QED BY <2>1, Zenon
<1>2. CASE T # {}
    <2>1. T \subseteq Nat
        OBVIOUS
    <2>2. PICK m \in T : \A k \in T : m <= k
        BY <1>2, <2>1, WellOrder, Zenon
    <2>3. m \in 1 .. n /\ Before(down, price, s[m])
        BY <2>2
    <2>4. ASSUME NEW i \in 1 .. m - 1 PROVE ~Before(down, price, s[i])
        <3>1. i \in 1 .. n /\ ~(m <= i)
            BY <2>3
        <3> QED BY <2>2, <3>1, Zenon
    <2>5. ASSUME NEW i \in (m - 1) + 1 .. n PROVE Before(down, price, s[i])
        <3>1. i \in 1 .. n /\ (i = m \/ m < i)
            BY <2>3
        <3>2. CASE i = m
            BY <2>3, <3>2, Zenon
        <3>3. CASE m < i
            <4>1. Before(down, s[m], s[i]) /\ s[m] \in Int /\ s[i] \in Int
                BY <2>3, <3>1, <3>3, Zenon
            <4> QED BY <2>3, <4>1 DEF Before
        <3> QED BY <3>1, <3>2, <3>3, Zenon
    <2>6. m - 1 \in 0 .. n
        BY <2>3
    <2>7. Upto(s, n, down, price, m - 1)
        BY <2>4, <2>5, <2>6, Zenon DEF Upto
    <2> QED BY <2>7, Zenon
<1> QED BY <1>1, <1>2, Zenon

(* The loop of SumVolume adds the volumes up to the price. *)
SumsUpto(g, s, v, n, down, price) ==
    /\ g[0] = 0
    /\ \A k \in 1 .. n : g[k] = IF Before(down, price, s[k]) THEN g[k - 1] ELSE g[k - 1] + v[k]

(* That loop ends with the volume of the levels up to the price. *)
LEMMA VolumeUpto ==
    ASSUME NEW n \in Nat, NEW s, NEW v, Nats(v, n), NEW V, IsSums(V, v, n),
           NEW down, NEW price, NEW m, Upto(s, n, down, price, m), NEW g, SumsUpto(g, s, v, n, down, price)
    PROVE  g[n] = V[m]
<1> DEFINE T == {k \in 0 .. n : g[k] = IF k <= m THEN V[k] ELSE V[m]}
<1>0. m \in 0 .. n
    BY Zenon DEF Upto
<1>1. 0 \in T
    BY <1>0 DEF IsSums, SumsUpto
<1>2. ASSUME NEW k \in 1 .. n, k - 1 \in T PROVE k \in T
    <2>1. g[k - 1] = IF k - 1 <= m THEN V[k - 1] ELSE V[m]
        BY <1>2, Zenon
    <2>2. V[k] = V[k - 1] + v[k]
        BY Zenon DEF IsSums
    <2>3. k \in 0 .. n
        OBVIOUS
    <2>4. CASE k <= m
        <3>1. k \in 1 .. m /\ k - 1 <= m
            BY <1>0, <2>4
        <3>2. ~Before(down, price, s[k])
            BY <3>1, Zenon DEF Upto
        <3> QED BY <2>1, <2>2, <2>3, <2>4, <3>1, <3>2, Zenon DEF SumsUpto
    <2>5. CASE ~(k <= m)
        <3>1. k \in m + 1 .. n /\ (k - 1 <= m => k - 1 = m)
            BY <1>0, <2>5
        <3>2. Before(down, price, s[k])
            BY <3>1, Zenon DEF Upto
        <3> QED BY <2>1, <2>3, <2>5, <3>1, <3>2, Zenon DEF SumsUpto
    <2> QED BY <2>4, <2>5, Zenon
<1> HIDE DEF T
<1>3. \A k \in 0 .. n : k \in T
    BY <1>1, <1>2, UpTo, Zenon
<1>4. n \in T /\ (n <= m => n = m)
    BY <1>0, <1>3
<1> QED BY <1>4, Zenon DEF T

(* The cost of taking t[i] at the price s[i]. *)
Costs(s, t, n) == [i \in 1 .. n |-> s[i] * t[i]]

(* What a quantity costs that ends in level m. *)
CostAt(C, V, s, m, q) == C[m - 1] + s[m] * (q - V[m - 1])

(* Costs of integers at integer prices are integers. *)
LEMMA CostsAreInts ==
    ASSUME NEW n \in Nat, NEW s, Ints(s, n), NEW t, Ints(t, n)
    PROVE  Ints(Costs(s, t, n), n)
<1>1. \A i \in 1 .. n : s[i] \in Int /\ t[i] \in Int
    BY DEF Ints
<1>2. \A i \in 1 .. n : s[i] * t[i] \in Int
    BY <1>1
<1> QED BY <1>2, Zenon DEF Ints, Costs

(* The loop of AvgExecPrice. *)
Spends(g, s, v, n, q) ==
    /\ g[0] = [qty |-> q, sum |-> 0]
    /\ \A k \in 1 .. n :
          g[k] = IF g[k - 1].qty <= v[k]
                 THEN [qty |-> 0, sum |-> g[k - 1].sum + s[k] * g[k - 1].qty]
                 ELSE [qty |-> g[k - 1].qty - v[k], sum |-> g[k - 1].sum + s[k] * v[k]]

(* It takes whole levels before the one in which the quantity ends. *)
LEMMA SpendsCost ==
    ASSUME NEW n \in Nat, NEW s, Ints(s, n), NEW v, Nats(v, n), NEW V, IsSums(V, v, n),
           NEW C, IsSums(C, Costs(s, v, n), n), NEW m \in 1 .. n, NEW q \in Nat,
           V[m - 1] <= q, q <= V[m], NEW g, Spends(g, s, v, n, q)
    PROVE  g[n].sum = CostAt(C, V, s, m, q)
<1> DEFINE z == CostAt(C, V, s, m, q)
           T == {k \in 0 .. n : IF k < m THEN g[k].qty = q - V[k] /\ g[k].sum = C[k]
                                ELSE g[k].qty = 0 /\ g[k].sum = z}
<1> DEFINE d == Costs(s, v, n)
<1>a. Ints(v, n)
    BY DEF Ints, Nats
<1>b. Ints(d, n) /\ Rises(V, n)
    BY <1>a, CostsAreInts, SumsRise, Zenon
<1>c. Adds(V, v, n) /\ Adds(C, d, n)
    BY <1>a, <1>b, SumsAdd, Zenon
<1>0. V \in [0 .. n -> Nat] /\ \A i, j \in 0 .. n : i <= j => V[i] <= V[j]
    BY <1>b, Zenon DEF Rises
<1>1. V[0] = 0 /\ C[0] = 0 /\ g[0].qty = q /\ g[0].sum = 0
    BY DEF IsSums, Spends
<1>2. 0 \in T
    BY <1>1
<1>3. C[m - 1] \in Int /\ s[m] \in Int /\ V[m - 1] \in Nat /\ m - 1 \in 0 .. n
    <2>1. m - 1 \in 0 .. n
        OBVIOUS
    <2> QED BY <1>0, <1>c, <2>1, Zenon DEF Adds, Ints
<1>4. z \in Int
    BY <1>3 DEF CostAt
<1>5. ASSUME NEW k \in 1 .. n, k - 1 \in T PROVE k \in T
    <2> DEFINE a == V[k - 1]
               b == V[k]
               c == C[k - 1]
               w == v[k]
               p == s[k]
               x == g[k - 1].qty
               y == g[k - 1].sum
    <2>1. /\ b = a + w /\ a \in Nat /\ b \in Nat /\ w \in Nat /\ c \in Int /\ p \in Int
          /\ C[k] = c + p * w
        <3>1. V[k] = V[k - 1] + v[k] /\ C[k] = C[k - 1] + d[k] /\ C[k - 1] \in Int
            BY <1>c, Zenon DEF Adds
        <3>2. d[k] = s[k] * v[k]
            BY Zenon DEF Costs
        <3>3. v[k] \in Nat /\ s[k] \in Int
            BY DEF Nats, Ints
        <3>4. k \in 0 .. n /\ k - 1 \in 0 .. n
            OBVIOUS
        <3> QED BY <1>0, <3>1, <3>2, <3>3, <3>4, Zenon
    <2>2. g[k] = IF x <= w THEN [qty |-> 0, sum |-> y + p * x]
                 ELSE [qty |-> x - w, sum |-> y + p * w]
        BY Zenon DEF Spends
    <2>3. IF k - 1 < m THEN x = q - a /\ y = c ELSE x = 0 /\ y = z
        BY <1>5, Zenon
    <2>4. k \in 0 .. n
        OBVIOUS
    <2>5. CASE k < m
        <3>1. b <= V[m - 1] /\ k - 1 < m
            BY <1>0, <1>3, <2>5, <2>4
        <3>2. b <= q
            BY <1>3, <2>1, <3>1
        <3> HIDE DEF a, b, c, w, p, x, y
        <3>3. x = q - a /\ y = c
            BY <2>3, <3>1, Zenon
        <3>4. CASE x <= w
            <4>1. x = w /\ q - b = 0
                BY <2>1, <3>2, <3>3, <3>4
            <4>2. g[k].qty = 0 /\ g[k].sum = c + p * w
                BY <2>2, <3>3, <3>4, <4>1
            <4> QED BY <2>1, <2>4, <2>5, <4>1, <4>2, Zenon DEF b
        <3>5. CASE ~(x <= w)
            <4>1. g[k].qty = x - w /\ g[k].sum = c + p * w
                BY <2>2, <3>3, <3>5
            <4>2. x - w = q - b
                BY <2>1, <3>3
            <4> QED BY <2>1, <2>4, <2>5, <4>1, <4>2, Zenon DEF b
        <3> QED BY <3>4, <3>5, Zenon
    <2>6. CASE k = m
        <3>1. k - 1 < m /\ ~(k < m)
            BY <2>6
        <3>2. z = c + p * (q - a) /\ q <= b
            BY <2>6, Zenon DEF CostAt
        <3> HIDE DEF a, b, c, w, p, x, y, z
        <3>3. x = q - a /\ y = c
            BY <2>3, <3>1, Zenon
        <3>4. x <= w
            BY <2>1, <3>2, <3>3
        <3>5. g[k].qty = 0 /\ g[k].sum = z
            BY <2>2, <3>2, <3>3, <3>4
        <3> QED BY <2>4, <3>1, <3>5, Zenon
    <2>7. CASE k > m
        <3>1. ~(k - 1 < m) /\ ~(k < m)
            BY <2>7
        <3> HIDE DEF a, b, c, w, p, x, y, z
        <3>2. x = 0 /\ y = z
            BY <2>3, <3>1, Zenon
        <3>3. g[k].qty = 0 /\ g[k].sum = z
            BY <1>4, <2>1, <2>2, <3>2
        <3> QED BY <2>4, <3>1, <3>3, Zenon
    <2> QED BY <2>5, <2>6, <2>7
<1> HIDE DEF T, z
<1>6. \A k \in 0 .. n : k \in T
    BY <1>2, <1>5, UpTo, Zenon
<1>7. n \in T /\ ~(n < m)
    BY <1>6
<1> QED BY <1>7, Zenon DEF T, z

(* The best way to take a quantity that ends in level m. *)
Greedy(V, v, n, m, q) ==
    [i \in 1 .. n |-> IF i < m THEN v[i] ELSE IF i = m THEN q - V[m - 1] ELSE 0]

(* It takes the quantity, no more of a level than there is, ... *)
LEMMA GreedyTakes ==
    ASSUME NEW n \in Nat, NEW v, Nats(v, n), NEW V, IsSums(V, v, n), NEW m \in 1 .. n,
           NEW q \in Nat, V[m - 1] <= q, q <= V[m]
    PROVE  \A i \in 1 .. n : Greedy(V, v, n, m, q)[i] \in 0 .. q /\ Greedy(V, v, n, m, q)[i] <= v[i]
<1>a. Rises(V, n) /\ Ints(v, n)
    <2>1. Rises(V, n)
        BY SumsRise, Zenon
    <2>2. Ints(v, n)
        BY DEF Nats, Ints
    <2> QED BY <2>1, <2>2
<1>b. Adds(V, v, n)
    BY <1>a, SumsAdd, Zenon
<1> SUFFICES ASSUME NEW i \in 1 .. n
             PROVE  Greedy(V, v, n, m, q)[i] \in 0 .. q /\ Greedy(V, v, n, m, q)[i] <= v[i]
    BY Zenon
<1> DEFINE x == Greedy(V, v, n, m, q)[i]
<1>1. x = IF i < m THEN v[i] ELSE IF i = m THEN q - V[m - 1] ELSE 0
    BY Zenon DEF Greedy
<1>2. v[i] \in Nat /\ V \in [0 .. n -> Nat] /\ \A k, j \in 0 .. n : k <= j => V[k] <= V[j]
    BY <1>a DEF Nats, Rises
<1>3. i \in 0 .. n /\ i - 1 \in 0 .. n /\ m \in 0 .. n /\ m - 1 \in 0 .. n
    OBVIOUS
<1>4. V[i] = V[i - 1] + v[i]
    BY <1>b, Zenon DEF Adds
<1> HIDE DEF x
<1>5. CASE i < m
    <2>1. V[i] <= V[m - 1] /\ V[i - 1] \in Nat /\ V[i] \in Nat /\ V[m - 1] \in Nat
        BY <1>2, <1>3, <1>5
    <2>2. x = v[i]
        BY <1>1, <1>5, Zenon
    <2>3. x \in 0 .. q /\ x <= v[i]
        BY <1>2, <1>4, <2>1, <2>2
    <2> QED BY <2>3, Zenon DEF x
<1>6. CASE i = m
    <2>1. V[m - 1] \in Nat /\ V[m] \in Nat /\ V[m] = V[m - 1] + v[m] /\ v[m] \in Nat
        BY <1>2, <1>3, <1>4, <1>6, Zenon
    <2>2. x = q - V[m - 1]
        BY <1>1, <1>6
    <2>3. x \in 0 .. q /\ x <= v[m]
        BY <2>1, <2>2
    <2> QED BY <1>6, <2>3, Zenon DEF x
<1>7. CASE i > m
    <2>1. x = 0
        BY <1>1, <1>7
    <2>2. x \in 0 .. q /\ x <= v[i]
        BY <1>2, <2>1
    <2> QED BY <2>2, Zenon DEF x
<1> QED BY <1>5, <1>6, <1>7

(* ... and costs what the loop of AvgExecPrice sums up. *)
LEMMA GreedyCosts ==
    ASSUME NEW n \in Nat, NEW s, Ints(s, n), NEW v, Nats(v, n), NEW V, IsSums(V, v, n),
           NEW C, IsSums(C, Costs(s, v, n), n), NEW m \in 1 .. n, NEW q \in Nat,
           NEW t, t = Greedy(V, v, n, m, q), Ints(t, n),
           NEW U, IsSums(U, t, n), NEW K, IsSums(K, Costs(s, t, n), n)
    PROVE  U[n] = q /\ K[n] = CostAt(C, V, s, m, q)
<1> DEFINE z == CostAt(C, V, s, m, q)
           T == {k \in 0 .. n : IF k < m THEN U[k] = V[k] /\ K[k] = C[k] ELSE U[k] = q /\ K[k] = z}
           d == Costs(s, v, n)
           e == Costs(s, t, n)
<1>a. Ints(v, n)
    BY DEF Ints, Nats
<1>b. Ints(d, n) /\ Ints(e, n)
    BY <1>a, CostsAreInts, Zenon
<1>c. Adds(V, v, n) /\ Adds(C, d, n) /\ Adds(U, t, n) /\ Adds(K, e, n)
    BY <1>a, <1>b, SumsAdd, Zenon
<1>d. V[m - 1] \in Int /\ C[m - 1] \in Int /\ s[m] \in Int
    BY <1>c, Zenon DEF Adds, Ints
<1>e. z \in Int
    BY <1>d DEF CostAt
<1>1. 0 \in T
    BY DEF IsSums
<1>2. ASSUME NEW k \in 1 .. n, k - 1 \in T PROVE k \in T
    <2>1. /\ V[k] = V[k - 1] + v[k] /\ C[k] = C[k - 1] + d[k]
          /\ U[k] = U[k - 1] + t[k] /\ K[k] = K[k - 1] + e[k]
        BY <1>c, Zenon DEF Adds
    <2>2. d[k] = s[k] * v[k] /\ e[k] = s[k] * t[k]
        BY Zenon DEF Costs
    <2>3. t[k] = IF k < m THEN v[k] ELSE IF k = m THEN q - V[m - 1] ELSE 0
        BY Zenon DEF Greedy
    <2>4. IF k - 1 < m THEN U[k - 1] = V[k - 1] /\ K[k - 1] = C[k - 1]
          ELSE U[k - 1] = q /\ K[k - 1] = z
        BY <1>2, Zenon
    <2>5. k \in 0 .. n
        OBVIOUS
    <2>6. CASE k < m
        <3>1. k - 1 < m
            BY <2>6
        <3> QED BY <2>1, <2>2, <2>3, <2>4, <2>5, <2>6, <3>1, Zenon
    <2>7. CASE k = m
        <3>1. k - 1 < m /\ ~(k < m)
            BY <2>7
        <3>2. U[k] = V[m - 1] + (q - V[m - 1]) /\ K[k] = z
            BY <2>1, <2>2, <2>3, <2>4, <2>7, <3>1, Zenon DEF CostAt
        <3>3. V[m - 1] + (q - V[m - 1]) = q
            BY <1>d
        <3> QED BY <2>5, <3>1, <3>2, <3>3, Zenon
    <2>8. CASE k > m
        <3>1. ~(k - 1 < m) /\ ~(k < m) /\ k # m
            BY <2>8
        <3>2. t[k] = 0 /\ U[k - 1] = q /\ K[k - 1] = z
            BY <2>3, <2>4, <3>1, Zenon
        <3>3. s[k] \in Int
            BY DEF Ints
        <3>4. s[k] * 0 = 0 /\ q + 0 = q /\ z + 0 = z
            BY <1>e, <3>3
        <3>5. U[k] = q /\ K[k] = z
            BY <2>1, <2>2, <3>2, <3>4, Zenon
        <3> QED BY <2>5, <3>1, <3>5, Zenon
    <2> QED BY <2>6, <2>7, <2>8
<1> HIDE DEF T, z
<1>3. \A k \in 0 .. n : k \in T
    BY <1>1, <1>2, UpTo, Zenon
<1>4. n \in T /\ ~(n < m)
    BY <1>3
<1> QED BY <1>4, Zenon DEF T, z

(* Moving a unit from a better price to a worse one does not pay. *)
LEMMA ExchangeTerm ==
    ASSUME NEW p \in Int, NEW M \in Int, NEW a \in Int, NEW b \in Int,
           (p <= M /\ a <= b) \/ (p >= M /\ a >= b)
    PROVE  p * a - M * a >= p * b - M * b
<1>1. p * a - M * a = (p - M) * a /\ p * b - M * b = (p - M) * b
    OBVIOUS
<1>2. (p - M) * a - (p - M) * b = (p - M) * (a - b)
    OBVIOUS
<1>3. (p - M) * (a - b) >= 0
    <2> DEFINE x == p - M
               y == a - b
    <2>1. x \in Int /\ y \in Int /\ ((x <= 0 /\ y <= 0) \/ (x >= 0 /\ y >= 0))
        OBVIOUS
    <2> HIDE DEF x, y
    <2>2. x * y >= 0
        BY <2>1
    <2> QED BY <2>2 DEF x, y
<1>4. (p - M) * a \in Int /\ (p - M) * b \in Int
    OBVIOUS
<1> QED BY <1>1, <1>2, <1>3, <1>4

(* No other way of taking the quantity is cheaper on the ask side, or      *)
(* earns more on the bid side.                                             *)
LEMMA GreedyIsBest ==
    ASSUME NEW n \in Nat, NEW s, Ints(s, n), NEW down \in BOOLEAN,
           \A i, j \in 1 .. n : i < j => Before(down, s[i], s[j]),
           NEW v, Nats(v, n), NEW V, IsSums(V, v, n), NEW C, IsSums(C, Costs(s, v, n), n),
           NEW m \in 1 .. n, NEW q \in Nat, V[m - 1] <= q, q <= V[m],
           NEW t, Nats(t, n), \A i \in 1 .. n : t[i] <= v[i],
           NEW U, IsSums(U, t, n), U[n] = q, NEW K, IsSums(K, Costs(s, t, n), n)
    PROVE  IF down THEN K[n] <= CostAt(C, V, s, m, q) ELSE K[n] >= CostAt(C, V, s, m, q)
<1> DEFINE g == Greedy(V, v, n, m, q)
           M == s[m]
           d == Costs(s, t, n)
           e == Costs(s, g, n)
<1>1. \A i \in 1 .. n : g[i] \in 0 .. q /\ g[i] <= v[i]
    BY GreedyTakes
<1>2. Ints(g, n) /\ Ints(t, n) /\ M \in Int
    BY <1>1 DEF Ints, Nats, Greedy
<1>3. Ints(d, n) /\ Ints(e, n)
    BY <1>2, CostsAreInts, Zenon
<1>4. PICK G : IsSums(G, g, n)
    BY <1>2, SumsExist, Zenon
<1>5. PICK L : IsSums(L, e, n)
    BY <1>3, SumsExist, Zenon
<1>6. G[n] = q /\ L[n] = CostAt(C, V, s, m, q)
    <2> HIDE DEF g
    <2> QED BY <1>2, <1>4, <1>5, GreedyCosts DEF g
<1>7. ASSUME NEW i \in 1 .. n
      PROVE  /\ {s[i], t[i], g[i], v[i]} \subseteq Int
             /\ d[i] = s[i] * t[i] /\ e[i] = s[i] * g[i]
             /\ i < m => Before(down, s[i], M) /\ t[i] <= g[i]
             /\ i > m => Before(down, M, s[i]) /\ t[i] >= g[i]
    <2>1. s[i] \in Int /\ t[i] \in Nat /\ g[i] \in Int /\ v[i] \in Int
        BY <1>1 DEF Ints, Nats
    <2>2. d[i] = s[i] * t[i] /\ e[i] = s[i] * g[i]
        BY Zenon DEF Costs
    <2>3. g[i] = IF i < m THEN v[i] ELSE IF i = m THEN q - V[m - 1] ELSE 0
        BY Zenon DEF Greedy
    <2>4. t[i] <= v[i] /\ (i < m => Before(down, s[i], M)) /\ (m < i => Before(down, M, s[i]))
        BY Zenon
    <2> HIDE DEF g, d, e
    <2> QED BY <2>1, <2>2, <2>3, <2>4
<1> HIDE DEF g, M, d, e
<1>8. CASE ~down
    <2>1. Compares(d, t, e, g, n, M)
        <3> SUFFICES ASSUME NEW i \in 1 .. n PROVE d[i] - M * t[i] >= e[i] - M * g[i]
            BY Zenon DEF Compares
        <3>1. (s[i] <= M /\ t[i] <= g[i]) \/ (s[i] >= M /\ t[i] >= g[i])
            BY <1>2, <1>7, <1>8 DEF Before, M
        <3> QED BY <1>2, <1>7, <3>1, ExchangeTerm
    <2>2. U[n] = G[n]
        BY <1>6
    <2>3. K[n] >= L[n]
        BY <1>2, <1>3, <1>4, <1>5, <2>1, <2>2, SumsCompare, Zenon DEF d
    <2> QED BY <1>6, <1>8, <2>3
<1>9. CASE down
    <2>1. Compares(e, g, d, t, n, M)
        <3> SUFFICES ASSUME NEW i \in 1 .. n PROVE e[i] - M * g[i] >= d[i] - M * t[i]
            BY Zenon DEF Compares
        <3>1. (s[i] >= M /\ t[i] <= g[i]) \/ (s[i] <= M /\ t[i] >= g[i])
            BY <1>2, <1>7, <1>9 DEF Before, M
        <3> QED BY <1>2, <1>7, <3>1, ExchangeTerm
    <2>2. G[n] = U[n]
        BY <1>6
    <2>3. L[n] >= K[n]
        BY <1>2, <1>3, <1>4, <1>5, <2>1, <2>2, SumsCompare, Zenon DEF d
    <2>4. L[n] \in Int /\ K[n] \in Int
        BY <1>5 DEF IsSums
    <2> QED BY <1>6, <1>9, <2>3, <2>4
<1> QED BY <1>8, <1>9

(* What integer division leaves. *)
LEMMA DivBounds ==
    ASSUME NEW a \in Int, NEW b \in Nat \ {0}
    PROVE  (a \div b) \in Int /\ b * (a \div b) <= a /\ a < b * (a \div b) + b
OBVIOUS

(* Two roundings to the nearest multiple of 1/P and one down to a tick do   *)
(* not pass a quotient, while q is small enough for P, ...                 *)
LEMMA LowerBound ==
    ASSUME NEW a \in Nat, NEW q \in Nat \ {0}, NEW T \in Nat \ {0}, NEW P \in Nat \ {0},
           q * (T + 1) < 2 * P, NEW x \in Int, NEW y \in Int, NEW k \in Int,
           2 * (q * x) <= 2 * (a * P) + q, 2 * (T * y) <= 2 * x + T, P * k <= y
    PROVE  (k * T) * q <= a
<1> DEFINE K == k * T
<1>1. K \in Int
    OBVIOUS
<1>2. SUFFICES ASSUME K * q >= a + 1 PROVE FALSE
    BY <1>1
<1>3. T * (P * k) <= T * y
    OBVIOUS
<1>4. T * (P * k) = K * P
    OBVIOUS
<1> HIDE DEF K
<1>5. 2 * (K * P) <= 2 * x + T
    BY <1>1, <1>3, <1>4
<1>6. q * (2 * (K * P)) <= q * (2 * x + T)
    BY <1>1, <1>5
<1>7. q * (2 * (K * P)) = 2 * P * (K * q) /\ q * (2 * x + T) = 2 * (q * x) + q * T
    BY <1>1
<1>8. 2 * P * (K * q) >= 2 * P * (a + 1)
    BY <1>1, <1>2
<1>9. 2 * P * (a + 1) = 2 * (a * P) + 2 * P
    OBVIOUS
<1>10. q * (T + 1) = q * T + q
    OBVIOUS
<1> QED BY <1>1, <1>6, <1>7, <1>8, <1>9, <1>10

(* ... and stay less than a tick below it. *)
LEMMA UpperBound ==
    ASSUME NEW a \in Nat, NEW q \in Nat \ {0}, NEW T \in Nat \ {0}, NEW P \in Nat \ {0},
           NEW x \in Int, NEW y \in Int, NEW k \in Int,
           2 * (a * P) + q < 2 * (q * x) + 2 * q, 2 * x + T < 2 * (T * y) + 2 * T, y <= P * k + P - 1
    PROVE  a < (k * T + T) * q
<1> DEFINE K == k * T + T
<1>1. K \in Int
    OBVIOUS
<1>2. SUFFICES ASSUME K * q <= a PROVE FALSE
    BY <1>1
<1>3. T * y <= T * (P * k + P - 1)
    OBVIOUS
<1>4. T * (P * k + P - 1) = K * P - T
    OBVIOUS
<1> HIDE DEF K
<1>5. 2 * x + T < 2 * (K * P)
    BY <1>1, <1>3, <1>4
<1>6. x <= K * P - 1
    BY <1>1, <1>5
<1>7. q * x <= q * (K * P - 1)
    BY <1>1, <1>6
<1>8. q * (K * P - 1) = P * (K * q) - q
    BY <1>1
<1>9. P * (K * q) <= P * a
    BY <1>1, <1>2
<1> QED BY <1>1, <1>7, <1>8, <1>9
(* So the tick of RoundToTickSize is the one at or just below a / q. *)
LEMMA TickBelow ==
    ASSUME NEW a \in Nat, NEW q \in Nat \ {0}, NEW T \in Nat \ {0}, NEW P \in Nat \ {0},
           q * (T + 1) < 2 * P, NEW x, x = (2 * a * P + q) \div (2 * q),
           NEW y, y = (2 * x * P + T * P) \div (2 * (T * P)), NEW k, k = y \div P
    PROVE  k \in Int /\ (k * T) * q <= a /\ a < (k * T + T) * q
<1>1. 2 * a * P + q \in Int /\ 2 * q \in Nat \ {0}
    OBVIOUS
<1>2. x \in Int /\ (2 * q) * x <= 2 * a * P + q /\ 2 * a * P + q < (2 * q) * x + 2 * q
    BY <1>1, DivBounds
<1>3. T * P \in Nat \ {0}
    OBVIOUS
<1>4. 2 * x * P + T * P \in Int /\ 2 * (T * P) \in Nat \ {0}
    BY <1>2, <1>3
<1>5. /\ y \in Int /\ (2 * (T * P)) * y <= 2 * x * P + T * P
      /\ 2 * x * P + T * P < (2 * (T * P)) * y + 2 * (T * P)
    BY <1>4, DivBounds
<1>6. k \in Int /\ P * k <= y /\ y < P * k + P
    BY <1>5, DivBounds
<1>7. (2 * (T * P)) * y = P * (2 * (T * y)) /\ 2 * x * P + T * P = P * (2 * x + T)
    BY <1>2, <1>5
<1>8. (2 * (T * P)) * y + 2 * (T * P) = P * (2 * (T * y) + 2 * T)
    BY <1>2, <1>5
<1>9. 2 * (T * y) <= 2 * x + T /\ 2 * x + T < 2 * (T * y) + 2 * T
    <2> DEFINE u == 2 * (T * y)
               v == 2 * x + T
               w == 2 * (T * y) + 2 * T
    <2>1. u \in Int /\ v \in Int /\ w \in Int
        BY <1>2, <1>5
    <2>2. P * u <= P * v /\ P * v < P * w
        BY <1>5, <1>7, <1>8
    <2> HIDE DEF u, v, w
    <2>3. u <= v /\ v < w
        BY <2>1, <2>2
    <2> QED BY <2>3 DEF u, v, w
<1>10. (2 * q) * x = 2 * (q * x) /\ 2 * a * P = 2 * (a * P)
    BY <1>2
<1>11. 2 * (q * x) <= 2 * (a * P) + q /\ 2 * (a * P) + q < 2 * (q * x) + 2 * q
    BY <1>2, <1>10
<1>12. y <= P * k + P - 1
    BY <1>5, <1>6
<1>13. (k * T) * q <= a
    BY <1>2, <1>5, <1>6, <1>9, <1>11, LowerBound
<1>14. a < (k * T + T) * q
    BY <1>2, <1>5, <1>6, <1>9, <1>11, <1>12, UpperBound
<1> QED BY <1>6, <1>13, <1>14

(* The index that a fold over a list takes off last. *)
Largest(S) == CHOOSE x \in S : \A y \in S : x >= y

(* A set of indices has a largest one. *)
LEMMA LargestIn ==
    ASSUME NEW n \in Nat, NEW S \in SUBSET (1 .. n), S # {}
    PROVE  Largest(S) \in S /\ \A y \in S : Largest(S) >= y
<1>1. S \subseteq Int /\ IsFiniteSet(S)
    <2>1. IsFiniteSet(1 .. n)
        BY FS_Interval
    <2>2. IsFiniteSet(S)
        BY <2>1, FS_Subset
    <2> QED BY <2>2
<1>2. PICK m \in S : \A p \in S \ {m} : Before(FALSE, p, m)
    BY <1>1, Worst, Zenon
<1>3. \A y \in S : m >= y
    BY <1>1, <1>2 DEF Before
<1> QED BY <1>3, Zenon DEF Largest

(* The first k indices without the largest are the first k - 1. *)
LEMMA PrefixOf ==
    ASSUME NEW n \in Nat, NEW k \in 1 .. n
    PROVE  /\ 1 .. k \in SUBSET (1 .. n) /\ 1 .. k # {} /\ Largest(1 .. k) = k
           /\ (1 .. k) \ {k} = 1 .. k - 1
<1>1. 1 .. k \in SUBSET (1 .. n) /\ 1 .. k # {} /\ k \in 1 .. k
    OBVIOUS
<1>2. Largest(1 .. k) \in 1 .. k /\ Largest(1 .. k) >= k
    BY <1>1, LargestIn
<1> QED BY <1>1, <1>2

(* What a fold over a list of n elements computes, from the last one taken *)
(* off.                                                                    *)
Folded(it, n, A, base, F) ==
    /\ it \in [SUBSET (1 .. n) -> A]
    /\ \A S \in SUBSET (1 .. n) :
          it[S] = IF S = {} THEN base ELSE F[Largest(S)][it[S \ {Largest(S)}]]

(* Such a fold exists for every list of steps F on A. *)
LEMMA FoldChoice ==
    ASSUME NEW n \in Nat, NEW A, NEW base \in A, NEW F, Steps(F, 1 .. n, A)
    PROVE  \E it : Folded(it, n, A, base, F)
<1> DEFINE c == [S \in SUBSET (1 .. n) |-> Largest(S)]
<1>1. IsFiniteSet(1 .. n)
    BY FS_Interval
<1>2. Chooses(c, 1 .. n)
    BY LargestIn, Zenon DEF Chooses
<1>3. \A S \in SUBSET (1 .. n) : c[S] = Largest(S)
    BY Zenon
<1> HIDE DEF c
<1>4. PICK it \in [SUBSET (1 .. n) -> A] : IsFold(it, 1 .. n, base, F, c)
    BY <1>1, <1>2, FoldExists, Zenon
<1>5. Folded(it, n, A, base, F)
    BY <1>3, <1>4, Zenon DEF IsFold, Folded
<1> QED BY <1>5, Zenon
-----------------------------------------------------------------------------
(* What a side of a book is: a finite tree of prices with their volumes. *)
Side(b) ==
    /\ b.side \in {"ask", "bid"}
    /\ IsFiniteSet(DOMAIN b.levels) /\ DOMAIN b.levels \subseteq Nat
    /\ b.levels \in [DOMAIN b.levels -> Nat]

(* How many levels a side has, whether its prices fall, its volumes in its *)
(* order.                                                                  *)
Size(b) == Cardinality(DOMAIN b.levels)
Down(b) == b.side = "bid"
Vols(b) == [i \in 1 .. Size(b) |-> b.levels[prices(b)[i]]]

(* The comparison of the tree (newAsks, newBids) is the order of the side. *)
LEMMA LessIsBefore ==
    ASSUME NEW b, NEW p, NEW q
    PROVE  less(b, p, q) = Before(Down(b), p, q)
BY Zenon DEF less, Before, Down

(* The tree has an order: its prices are a list of them in that order. *)
LEMMA PricesListed ==
    ASSUME NEW b, Side(b)
    PROVE  Size(b) \in Nat /\ Lists(prices(b), DOMAIN b.levels, Down(b))
<1> DEFINE D == DOMAIN b.levels
           Q == [1 .. Cardinality(D) -> D]
           Ordered(s) == \A i, j \in DOMAIN s : i < j => less(b, s[i], s[j])
<1>1. Size(b) \in Nat /\ D \subseteq Int /\ Down(b) \in BOOLEAN
    BY FS_CardinalityType DEF Side, Size, Down
<1>2. PICK t : Lists(t, D, Down(b))
    BY <1>1, ListExists, Zenon DEF Side
<1>3. t \in Q
    BY <1>2, Zenon DEF Lists
<1>4. \A s \in Q : DOMAIN s = 1 .. Size(b)
    BY Zenon DEF Size
<1>5. Ordered(t)
    BY <1>2, <1>3, <1>4, LessIsBefore, Zenon DEF Lists, Size
<1>6. prices(b) \in Q /\ Ordered(prices(b))
    <2>1. prices(b) = CHOOSE s \in Q : Ordered(s)
        BY Zenon DEF prices
    <2> HIDE DEF Ordered, Q
    <2> QED BY <1>3, <1>5, <2>1, Zenon
<1>7. \A i, j \in 1 .. Size(b) : i < j => Before(Down(b), prices(b)[i], prices(b)[j])
    BY <1>4, <1>6, LessIsBefore, Zenon
<1>8. \A i \in 1 .. Size(b) : prices(b)[i] \in Int
    BY <1>1, <1>6, Zenon DEF Size
<1>9. ASSUME NEW i \in 1 .. Size(b), NEW j \in 1 .. Size(b), i # j
      PROVE  prices(b)[i] # prices(b)[j]
    <2>1. i < j \/ j < i
        BY <1>1, <1>9
    <2>2. \A p \in Int : ~Before(Down(b), p, p)
        BY DEF Before
    <2> QED BY <1>7, <1>8, <2>1, <2>2, Zenon
<1>10. Lists(prices(b), D, Down(b))
    BY <1>6, <1>7, <1>9, Zenon DEF Lists, Size
<1> QED BY <1>1, <1>10

(* The types of the prices and volumes along the tree. *)
LEMMA SideFacts ==
    ASSUME NEW b, Side(b)
    PROVE  /\ Ints(prices(b), Size(b)) /\ prices(b) \in [1 .. Size(b) -> DOMAIN b.levels]
           /\ Nats(Vols(b), Size(b)) /\ Ints(Vols(b), Size(b))
           /\ Down(b) \in BOOLEAN /\ Size(b) \in Nat
<1>1. Size(b) \in Nat /\ prices(b) \in [1 .. Size(b) -> DOMAIN b.levels] /\ Down(b) \in BOOLEAN
    BY PricesListed, Zenon DEF Lists, Size, Down
<1>2. Ints(prices(b), Size(b))
    BY <1>1 DEF Ints, Side
<1>3. \A i \in 1 .. Size(b) : b.levels[prices(b)[i]] \in Nat
    BY <1>1, Zenon DEF Side
<1>4. Nats(Vols(b), Size(b)) /\ Ints(Vols(b), Size(b))
    BY <1>3 DEF Nats, Ints, Vols
<1> QED BY <1>1, <1>2, <1>4

(* SortedRange visits the levels in the order of their prices. *)
LEMMA Visited ==
    ASSUME NEW b, Side(b)
    PROVE  /\ DOMAIN SortedRange(b) = 1 .. Size(b)
           /\ \A k \in 1 .. Size(b) : SortedRange(b)[k] = <<prices(b)[k], Vols(b)[k]>>
<1>1. DOMAIN prices(b) = 1 .. Size(b)
    BY SideFacts, Zenon
<1> QED BY <1>1 DEF SortedRange, Vols

(* The index that Visit takes off last is the largest. *)
LEMMA LargestIsMax ==
    ASSUME NEW S PROVE Max(S) = Largest(S)
BY Zenon DEF Max, Largest

(* The fold of SumVolume, as MapThenFoldSet defines it. *)
SumSteps(it, b, price, n) ==
    it = [S \in SUBSET (1 .. n) |->
             IF S = {} THEN 0
             ELSE IF less(b, price, SortedRange(b)[Max(S)][1]) THEN it[S \ {Max(S)}]
                  ELSE it[S \ {Max(S)}] + SortedRange(b)[Max(S)][2]]

(* SumVolume is what its loop computes level by level. *)
LEMMA SumVolumeFolds ==
    ASSUME NEW b, Side(b), NEW price
    PROVE  \E g : /\ SumsUpto(g, prices(b), Vols(b), Size(b), Down(b), price)
                  /\ SumVolume(b, price) = g[Size(b)]
<1> DEFINE n == Size(b)
           s == SortedRange(b)
<1>1. n \in Nat /\ DOMAIN s = 1 .. n /\ \A k \in 1 .. n : s[k][1] = prices(b)[k] /\ s[k][2] = Vols(b)[k]
    BY SideFacts, Visited
<1>2. SumVolume(b, price) = (CHOOSE it : SumSteps(it, b, price, n))[1 .. n]
    <2>1. SumVolume(b, price) =
             (CHOOSE it : it = [S \in SUBSET DOMAIN SortedRange(b) |->
                 IF S = {} THEN 0
                 ELSE IF less(b, price, SortedRange(b)[Max(S)][1]) THEN it[S \ {Max(S)}]
                      ELSE it[S \ {Max(S)}] + SortedRange(b)[Max(S)][2]])[DOMAIN SortedRange(b)]
        BY DEF SumVolume, Visit, MapThenFoldSet
    <2> QED BY <1>1, <2>1, Zenon DEF SumSteps
<1>3. \E it : SumSteps(it, b, price, n)
    <2> DEFINE F == [i \in 1 .. n |-> [x \in Int |-> IF less(b, price, s[i][1]) THEN x ELSE x + s[i][2]]]
    <2>1. \A k \in 1 .. n : s[k][2] \in Int
        BY <1>1, SideFacts DEF Nats
    <2>2. Steps(F, 1 .. n, Int)
        BY <2>1 DEF Steps
    <2>3. PICK it : Folded(it, n, Int, 0, F)
        <3>1. 0 \in Int
            OBVIOUS
        <3> HIDE DEF F
        <3> QED BY <1>1, <2>2, <3>1, FoldChoice, Zenon
    <2>4. ASSUME NEW S \in SUBSET (1 .. n)
          PROVE it[S] = IF S = {} THEN 0
                        ELSE IF less(b, price, s[Max(S)][1]) THEN it[S \ {Max(S)}]
                             ELSE it[S \ {Max(S)}] + s[Max(S)][2]
        <3>1. CASE S = {}
            BY <2>3, <3>1, Zenon DEF Folded
        <3>2. CASE S # {}
            <4>1. Max(S) \in 1 .. n /\ Max(S) = Largest(S)
                BY <1>1, <3>2, LargestIn, LargestIsMax, Zenon
            <4>2. it[S \ {Max(S)}] \in Int
                BY <2>3, Zenon DEF Folded
            <4> QED BY <2>3, <3>2, <4>1, <4>2, Zenon DEF Folded
        <3> QED BY <3>1, <3>2
    <2> HIDE DEF F
    <2>5. SumSteps(it, b, price, n)
        BY <2>3, <2>4, Zenon DEF SumSteps, Folded
    <2> QED BY <2>5
<1>4. PICK it : SumSteps(it, b, price, n) /\ SumVolume(b, price) = it[1 .. n]
    BY <1>2, <1>3, Zenon
<1> DEFINE g == [k \in 0 .. n |-> it[1 .. k]]
<1>5. it[{}] = 0 /\ 1 .. 0 = {} /\ 0 \in 0 .. n /\ n \in 0 .. n
    BY <1>1, <1>4 DEF SumSteps
<1>6. ASSUME NEW k \in 1 .. n
      PROVE  g[k] = IF Before(Down(b), price, prices(b)[k]) THEN g[k - 1] ELSE g[k - 1] + Vols(b)[k]
    <2>1. /\ 1 .. k \in SUBSET (1 .. n) /\ 1 .. k # {} /\ Max(1 .. k) = k
          /\ (1 .. k) \ {k} = 1 .. k - 1
        BY <1>1, PrefixOf, LargestIsMax, Zenon
    <2>2. it[1 .. k] = IF less(b, price, s[k][1]) THEN it[1 .. k - 1] ELSE it[1 .. k - 1] + s[k][2]
        BY <1>4, <2>1, Zenon DEF SumSteps
    <2>3. k \in 0 .. n /\ k - 1 \in 0 .. n
        BY <1>1
    <2> QED BY <1>1, <2>2, <2>3, LessIsBefore, Zenon
<1>7. g[0] = 0 /\ SumVolume(b, price) = g[n]
    BY <1>4, <1>5, Zenon
<1> HIDE DEF g
<1>8. SumsUpto(g, prices(b), Vols(b), n, Down(b), price)
    BY <1>6, <1>7, Zenon DEF SumsUpto
<1> QED BY <1>7, <1>8, Zenon

(* The state of the loop of AvgExecPrice, its step, and its fold. *)
Spent == [qty : Int, sum : Int]
Spend(x, p, v) ==
    IF x.qty <= v THEN [qty |-> 0, sum |-> x.sum + p * x.qty]
    ELSE [qty |-> x.qty - v, sum |-> x.sum + p * v]
SpendSteps(it, b, qty, n) ==
    it = [S \in SUBSET (1 .. n) |->
             IF S = {} THEN [qty |-> qty, sum |-> 0]
             ELSE Spend(it[S \ {Max(S)}], SortedRange(b)[Max(S)][1], SortedRange(b)[Max(S)][2])]

(* The sum of AvgExecPrice is what its loop computes level by level. *)
LEMMA WeightedSumFolds ==
    ASSUME NEW b, Side(b), NEW qty \in Int
    PROVE  \E g : /\ Spends(g, prices(b), Vols(b), Size(b), qty)
                  /\ weightedSum(b, qty) = g[Size(b)].sum
<1> DEFINE n == Size(b)
           s == SortedRange(b)
<1>1. n \in Nat /\ DOMAIN s = 1 .. n /\ \A k \in 1 .. n : s[k][1] = prices(b)[k] /\ s[k][2] = Vols(b)[k]
    BY SideFacts, Visited
<1>2. weightedSum(b, qty) = (CHOOSE it : SpendSteps(it, b, qty, n))[1 .. n].sum
    <2>1. weightedSum(b, qty) =
             (CHOOSE it : it = [S \in SUBSET DOMAIN SortedRange(b) |->
                 IF S = {} THEN [qty |-> qty, sum |-> 0]
                 ELSE Spend(it[S \ {Max(S)}], SortedRange(b)[Max(S)][1], SortedRange(b)[Max(S)][2])])
             [DOMAIN SortedRange(b)].sum
        BY DEF weightedSum, Visit, MapThenFoldSet, Spend
    <2> QED BY <1>1, <2>1, Zenon DEF SpendSteps
<1>3. \E it : SpendSteps(it, b, qty, n)
    <2> DEFINE F == [i \in 1 .. n |-> [x \in Spent |-> Spend(x, s[i][1], s[i][2])]]
    <2>1. ASSUME NEW k \in 1 .. n, NEW x \in Spent PROVE Spend(x, s[k][1], s[k][2]) \in Spent
        <3>1. s[k][2] \in Int /\ s[k][1] \in Int
            BY <1>1, SideFacts DEF Ints
        <3> QED BY <3>1 DEF Spent, Spend
    <2>2. Steps(F, 1 .. n, Spent)
        BY <2>1, Zenon DEF Steps
    <2>3. PICK it : Folded(it, n, Spent, [qty |-> qty, sum |-> 0], F)
        <3>1. [qty |-> qty, sum |-> 0] \in Spent
            BY DEF Spent
        <3> HIDE DEF F
        <3> QED BY <1>1, <2>2, <3>1, FoldChoice, Zenon
    <2>4. ASSUME NEW S \in SUBSET (1 .. n)
          PROVE it[S] = IF S = {} THEN [qty |-> qty, sum |-> 0]
                        ELSE Spend(it[S \ {Max(S)}], s[Max(S)][1], s[Max(S)][2])
        <3>1. CASE S = {}
            BY <2>3, <3>1, Zenon DEF Folded
        <3>2. CASE S # {}
            <4>1. Max(S) \in 1 .. n /\ Max(S) = Largest(S)
                BY <1>1, <3>2, LargestIn, LargestIsMax, Zenon
            <4>2. it[S \ {Max(S)}] \in Spent
                BY <2>3, Zenon DEF Folded
            <4> QED BY <2>3, <3>2, <4>1, <4>2, Zenon DEF Folded
        <3> QED BY <3>1, <3>2
    <2> HIDE DEF F
    <2>5. SpendSteps(it, b, qty, n)
        BY <2>3, <2>4, Zenon DEF SpendSteps, Folded
    <2> QED BY <2>5
<1>4. PICK it : SpendSteps(it, b, qty, n) /\ weightedSum(b, qty) = it[1 .. n].sum
    BY <1>2, <1>3, Zenon
<1> DEFINE g == [k \in 0 .. n |-> it[1 .. k]]
<1>5. it[{}] = [qty |-> qty, sum |-> 0] /\ 1 .. 0 = {} /\ 0 \in 0 .. n /\ n \in 0 .. n
    BY <1>1, <1>4 DEF SpendSteps
<1>6. ASSUME NEW k \in 1 .. n PROVE g[k] = Spend(g[k - 1], prices(b)[k], Vols(b)[k])
    <2>1. /\ 1 .. k \in SUBSET (1 .. n) /\ 1 .. k # {} /\ Max(1 .. k) = k
          /\ (1 .. k) \ {k} = 1 .. k - 1
        BY <1>1, PrefixOf, LargestIsMax, Zenon
    <2>2. it[1 .. k] = Spend(it[1 .. k - 1], s[k][1], s[k][2])
        BY <1>4, <2>1, Zenon DEF SpendSteps
    <2>3. k \in 0 .. n /\ k - 1 \in 0 .. n
        BY <1>1
    <2> QED BY <1>1, <2>2, <2>3, Zenon
<1>7. g[0] = [qty |-> qty, sum |-> 0] /\ weightedSum(b, qty) = g[n].sum
    BY <1>4, <1>5, Zenon
<1> HIDE DEF g
<1>8. Spends(g, prices(b), Vols(b), n, qty)
    BY <1>6, <1>7, Zenon DEF Spends, Spend
<1> QED BY <1>7, <1>8, Zenon

(* The fold of SumFunction, which takes the prices in any order. *)
Pick(S) == CHOOSE x \in S : TRUE
AddSteps(it, f, D) == it = [S \in SUBSET D |-> IF S = {} THEN 0 ELSE f[Pick(S)] + it[S \ {Pick(S)}]]

(* The sum of a function over the prices is the sum along their list. *)
LEMMA SumFunctionFolds ==
    ASSUME NEW f, NEW D, IsFiniteSet(D), f \in [D -> Int], NEW s, NEW down, Lists(s, D, down),
           NEW h, IsSums(h, Along(f, s, Cardinality(D)), Cardinality(D))
    PROVE  SumFunction(f) = h[Cardinality(D)]
<1> DEFINE c == [S \in SUBSET D |-> Pick(S)]
           n == Cardinality(D)
<1>1. n \in Nat /\ DOMAIN f = D
    BY FS_CardinalityType
<1>2. SumFunction(f) = (CHOOSE it : AddSteps(it, f, D))[D]
    <2>1. SumFunction(f) =
             (CHOOSE it : it = [S \in SUBSET DOMAIN f |->
                 IF S = {} THEN 0 ELSE f[Pick(S)] + it[S \ {Pick(S)}]])[DOMAIN f]
        BY DEF SumFunction, SumFunctionOnSet, FoldFunctionOnSet, MapThenFoldSet, Pick
    <2> QED BY <1>1, <2>1, Zenon DEF AddSteps
<1>3. /\ Chooses(c, D) /\ \A S \in SUBSET D : c[S] = Pick(S)
      /\ \A S \in SUBSET D : S # {} => Pick(S) \in D
    BY Zenon DEF Chooses, Pick
<1>4. \E it : AddSteps(it, f, D)
    <2> DEFINE F == [p \in D |-> [x \in Int |-> f[p] + x]]
    <2>1. Steps(F, D, Int)
        <3>1. ASSUME NEW p \in D, NEW x \in Int PROVE f[p] + x \in Int
            OBVIOUS
        <3> QED BY <3>1, Zenon DEF Steps
    <2>2. 0 \in Int
        OBVIOUS
    <2>3. PICK it \in [SUBSET D -> Int] : IsFold(it, D, 0, F, c)
        <3> HIDE DEF c, F
        <3> QED BY <1>3, <2>1, <2>2, FoldExists, Zenon
    <2>4. ASSUME NEW S \in SUBSET D
          PROVE it[S] = IF S = {} THEN 0 ELSE f[Pick(S)] + it[S \ {Pick(S)}]
        <3> HIDE DEF c
        <3>1. it[S] = IF S = {} THEN 0 ELSE F[Pick(S)][it[S \ {Pick(S)}]]
            BY <1>3, <2>3, Zenon DEF IsFold
        <3>2. it[S \ {Pick(S)}] \in Int
            BY Zenon
        <3> QED BY <1>3, <3>1, <3>2, Zenon
    <2> HIDE DEF F, c
    <2>5. AddSteps(it, f, D)
        BY <2>4, Zenon DEF AddSteps
    <2> QED BY <2>5
<1>5. PICK it : AddSteps(it, f, D) /\ SumFunction(f) = it[D]
    BY <1>2, <1>4, Zenon
<1> HIDE DEF c
<1>6. AddsOver(it, f, c, D)
    BY <1>3, <1>5, Zenon DEF AddSteps, AddsOver
<1>7. IntsOver(f, D)
    BY Zenon DEF IntsOver
<1>8. IsSums(h, Along(f, s, n), n) /\ n = Cardinality(D) /\ Chooses(c, D)
    BY <1>3
<1> HIDE DEF n
<1>9. it[D] = h[n]
    BY <1>1, <1>6, <1>7, <1>8, AnyOrder
<1> QED BY <1>5, <1>8, <1>9, Zenon

(* The volumes and the costs along a side have sums. *)
LEMMA SideSums ==
    ASSUME NEW b, Side(b)
    PROVE  \E V, C : /\ IsSums(V, Vols(b), Size(b))
                     /\ IsSums(C, Costs(prices(b), Vols(b), Size(b)), Size(b))
<1>1. Ints(Costs(prices(b), Vols(b), Size(b)), Size(b))
    BY SideFacts, CostsAreInts, Zenon
<1>2. PICK C : IsSums(C, Costs(prices(b), Vols(b), Size(b)), Size(b))
    BY <1>1, SideFacts, SumsExist, Zenon
<1>3. PICK V : IsSums(V, Vols(b), Size(b))
    BY SideFacts, SumsExist, Zenon
<1> QED BY <1>2, <1>3, Zenon

(* The volume of a side is the last of the sums of its volumes. *)
LEMMA TotalIs ==
    ASSUME NEW b, Side(b), NEW V, IsSums(V, Vols(b), Size(b))
    PROVE  Total(b) = V[Size(b)]
<1> DEFINE D == DOMAIN b.levels
           f == b.levels
<1>1. IsFiniteSet(D) /\ f \in [D -> Int]
    BY DEF Side
<1>2. Lists(prices(b), D, Down(b))
    BY PricesListed, Zenon
<1>3. IsSums(V, Along(f, prices(b), Cardinality(D)), Cardinality(D))
    BY Zenon DEF Along, Vols, Size
<1> HIDE DEF D, f
<1>4. SumFunction(f) = V[Cardinality(D)]
    BY <1>1, <1>2, <1>3, SumFunctionFolds
<1> QED BY <1>4, Zenon DEF Total, Size, D, f

(* The sum of AvgExecPrice for a quantity that ends in level m. *)
LEMMA WeightedSumIs ==
    ASSUME NEW b, Side(b), NEW V, IsSums(V, Vols(b), Size(b)),
           NEW C, IsSums(C, Costs(prices(b), Vols(b), Size(b)), Size(b)),
           NEW m \in 1 .. Size(b), NEW q \in Nat, V[m - 1] <= q, q <= V[m]
    PROVE  weightedSum(b, q) = CostAt(C, V, prices(b), m, q)
<1>0. q \in Int
    OBVIOUS
<1>1. PICK g : Spends(g, prices(b), Vols(b), Size(b), q) /\ weightedSum(b, q) = g[Size(b)].sum
    BY <1>0, WeightedSumFolds, Zenon
<1>2. Size(b) \in Nat /\ Ints(prices(b), Size(b)) /\ Nats(Vols(b), Size(b))
    BY SideFacts, Zenon
<1>3. g[Size(b)].sum = CostAt(C, V, prices(b), m, q)
    BY <1>1, <1>2, SpendsCost
<1> QED BY <1>1, <1>3

(* SumVolume of a price is the sum of the volumes up to its place. *)
LEMMA SumVolumeIs ==
    ASSUME NEW b, Side(b), NEW V, IsSums(V, Vols(b), Size(b)),
           NEW price, NEW m, Upto(prices(b), Size(b), Down(b), price, m)
    PROVE  SumVolume(b, price) = V[m]
<1>1. PICK g : /\ SumsUpto(g, prices(b), Vols(b), Size(b), Down(b), price)
               /\ SumVolume(b, price) = g[Size(b)]
    BY SumVolumeFolds, Zenon
<1>2. Size(b) \in Nat /\ Nats(Vols(b), Size(b))
    BY SideFacts, Zenon
<1>3. g[Size(b)] = V[m]
    BY <1>1, <1>2, VolumeUpto
<1> QED BY <1>1, <1>3, Zenon

(* Every price has a place in a side. *)
LEMMA UptoExists ==
    ASSUME NEW b, Side(b), NEW price \in Int
    PROVE  \E m : Upto(prices(b), Size(b), Down(b), price, m)
<1>1. Size(b) \in Nat /\ Down(b) \in BOOLEAN /\ prices(b) \in [1 .. Size(b) -> Int]
    BY SideFacts, Zenon DEF Ints
<1>2. \A i, j \in 1 .. Size(b) : i < j => Before(Down(b), prices(b)[i], prices(b)[j])
    BY PricesListed, Zenon DEF Lists, Size
<1> QED BY <1>1, <1>2, PriceCut

(* SumVolume is the quantity that executes at the price or better. *)
THEOREM SideFillsUpTo ==
    ASSUME NEW b, Side(b), NEW price \in Int
    PROVE  FillsUpTo(b, price)
<1> DEFINE n == Size(b)
           s == prices(b)
<1>1. PICK V, C : IsSums(V, Vols(b), n) /\ IsSums(C, Costs(s, Vols(b), n), n)
    BY SideSums, Zenon
<1>2. PICK mm : Upto(s, n, Down(b), price, mm)
    BY UptoExists, Zenon
<1>3. SumVolume(b, price) = V[mm] /\ Total(b) = V[n]
    BY <1>1, <1>2, SumVolumeIs, TotalIs
<1>4. n \in Nat /\ Nats(Vols(b), n) /\ Ints(s, n) /\ mm \in 0 .. n
    BY <1>2, SideFacts, Zenon DEF Upto
<1>5. Rises(V, n)
    BY <1>1, <1>4, SumsRise, Zenon
<1>6. Ints(Costs(s, Vols(b), n), n)
    BY <1>4, SideFacts, CostsAreInts, Zenon
<1>7. Adds(C, Costs(s, Vols(b), n), n)
    BY <1>1, <1>4, <1>6, SumsAdd, Zenon
<1> SUFFICES ASSUME NEW qty \in 1 .. V[n]
             PROVE  qty <= SumVolume(b, price)
                       <=> ~less(b, price, weightedSum(b, qty) - weightedSum(b, qty - 1))
    BY <1>3, Zenon DEF FillsUpTo
<1> HIDE DEF n, s
<1>8. PICK m \in 1 .. n : V[m - 1] < qty /\ qty <= V[m]
    BY <1>1, <1>4, QuantityCut, Zenon
<1>9. /\ m \in 0 .. n /\ m - 1 \in 0 .. n /\ V \in [0 .. n -> Nat]
      /\ \A i, j \in 0 .. n : i <= j => V[i] <= V[j]
    BY <1>4, <1>5 DEF Rises
<1>10. /\ V[m - 1] \in Nat /\ V[m] \in Nat /\ V[mm] \in Nat
       /\ m <= mm => V[m] <= V[mm]
       /\ mm <= m - 1 => V[mm] <= V[m - 1]
    BY <1>4, <1>9, Zenon
<1>11. V[n] \in Nat
    BY <1>4, <1>9
<1>12. qty \in Nat /\ qty - 1 \in Nat /\ V[m - 1] <= qty /\ V[m - 1] <= qty - 1 /\ qty - 1 <= V[m]
    BY <1>8, <1>10, <1>11
<1>13. weightedSum(b, qty) = CostAt(C, V, s, m, qty)
    BY <1>1, <1>8, <1>12, WeightedSumIs, Zenon DEF n, s
<1>14. weightedSum(b, qty - 1) = CostAt(C, V, s, m, qty - 1)
    BY <1>1, <1>8, <1>12, WeightedSumIs, Zenon DEF n, s
<1>15. s[m] \in Int /\ C[m - 1] \in Int
    BY <1>4, <1>7, Zenon DEF Adds, Ints
<1>16. CostAt(C, V, s, m, qty) - CostAt(C, V, s, m, qty - 1) = s[m]
    BY <1>10, <1>12, <1>15 DEF CostAt
<1>17. CASE m <= mm
    <2>1. qty <= V[mm]
        BY <1>8, <1>10, <1>12, <1>17
    <2>2. m \in 1 .. mm
        BY <1>4, <1>17
    <2>3. ~Before(Down(b), price, s[m])
        BY <1>2, <2>2, Zenon DEF Upto, n, s
    <2> QED BY <1>3, <1>13, <1>14, <1>16, <2>1, <2>3, LessIsBefore, Zenon
<1>18. CASE ~(m <= mm)
    <2>1. ~(qty <= V[mm])
        BY <1>4, <1>8, <1>10, <1>12, <1>18
    <2>2. m \in mm + 1 .. n
        BY <1>4, <1>18
    <2>3. Before(Down(b), price, s[m])
        BY <1>2, <2>2, Zenon DEF Upto, n, s
    <2> QED BY <1>3, <1>13, <1>14, <1>16, <2>1, <2>3, LessIsBefore, Zenon
<1> QED BY <1>17, <1>18

(* What a way to take a quantity takes and costs, level by level. *)
LEMMA TakenAlong ==
    ASSUME NEW b, Side(b), NEW t, t \in [DOMAIN b.levels -> Nat]
    PROVE  /\ Nats(Along(t, prices(b), Size(b)), Size(b))
           /\ \A U : IsSums(U, Along(t, prices(b), Size(b)), Size(b)) => SumFunction(t) = U[Size(b)]
           /\ \A K : IsSums(K, Costs(prices(b), Along(t, prices(b), Size(b)), Size(b)), Size(b))
                        => Cost(t) = K[Size(b)]
<1> DEFINE D == DOMAIN b.levels
           n == Size(b)
           s == prices(b)
           f == [p \in D |-> p * t[p]]
<1>1. IsFiniteSet(D) /\ D \subseteq Nat /\ DOMAIN t = D /\ n = Cardinality(D) /\ n \in Nat
    BY SideFacts DEF Side, Size
<1>2. Lists(s, D, Down(b)) /\ s \in [1 .. n -> D]
    BY PricesListed, SideFacts, Zenon
<1>3. t \in [D -> Int] /\ f \in [D -> Int]
    BY <1>1
<1>4. Along(f, s, n) = Costs(s, Along(t, s, n), n)
    BY <1>2, Zenon DEF Along, Costs
<1>5. Cost(t) = SumFunction(f)
    BY <1>1, Zenon DEF Cost
<1>6. Nats(Along(t, s, n), n)
    BY <1>2 DEF Nats, Along
<1> HIDE DEF D, n, s, f
<1>7. ASSUME NEW U, IsSums(U, Along(t, s, n), n) PROVE SumFunction(t) = U[n]
    BY <1>1, <1>2, <1>3, <1>7, SumFunctionFolds
<1>8. ASSUME NEW K, IsSums(K, Costs(s, Along(t, s, n), n), n) PROVE Cost(t) = K[n]
    <2>1. IsSums(K, Along(f, s, Cardinality(D)), Cardinality(D))
        BY <1>1, <1>4, <1>8
    <2>2. SumFunction(f) = K[Cardinality(D)]
        BY <1>1, <1>2, <1>3, <2>1, SumFunctionFolds
    <2> QED BY <1>1, <1>5, <2>2, Zenon
<1> QED BY <1>6, <1>7, <1>8 DEF n, s

(* The way in which the loop of AvgExecPrice takes a quantity. *)
LEMMA GreedyIsTake ==
    ASSUME NEW b, Side(b), NEW V, IsSums(V, Vols(b), Size(b)),
           NEW C, IsSums(C, Costs(prices(b), Vols(b), Size(b)), Size(b)),
           NEW m \in 1 .. Size(b), NEW q \in Nat, V[m - 1] <= q, q <= V[m]
    PROVE  \E t \in Takes(b, q) : Cost(t) = CostAt(C, V, prices(b), m, q)
<1> DEFINE D == DOMAIN b.levels
           n == Size(b)
           s == prices(b)
           g == Greedy(V, Vols(b), n, m, q)
           t == [p \in D |-> g[CHOOSE i \in 1 .. n : s[i] = p]]
<1>1. n \in Nat /\ s \in [1 .. n -> D] /\ Nats(Vols(b), n) /\ Ints(s, n)
    BY SideFacts, Zenon
<1>2. \A i \in 1 .. n : g[i] \in 0 .. q /\ g[i] <= Vols(b)[i]
    BY <1>1, GreedyTakes
<1>3. Injects(s, n) /\ Onto(s, n, D)
    BY PricesListed, ListIsOnto, Zenon DEF Lists, Injects, Side, Size
<1>4. ASSUME NEW i \in 1 .. n PROVE t[s[i]] = g[i]
    <2>1. s[i] \in D
        BY <1>1, Zenon
    <2>2. (CHOOSE j \in 1 .. n : s[j] = s[i]) = i
        BY <1>3, Zenon DEF Injects
    <2> HIDE DEF g
    <2> QED BY <2>1, <2>2, Zenon
<1>5. ASSUME NEW p \in D PROVE t[p] \in 0 .. q /\ t[p] <= b.levels[p]
    <2>1. PICK i \in 1 .. n : s[i] = p
        BY <1>3, Zenon DEF Onto
    <2>2. t[p] = g[i] /\ b.levels[p] = Vols(b)[i]
        BY <1>4, <2>1, Zenon DEF Vols
    <2> QED BY <1>2, <2>1, <2>2, Zenon
<1>6. DOMAIN t = D
    BY Zenon
<1>7. Along(t, s, n) = g
    BY <1>4, Zenon DEF Along, Greedy
<1>8. t \in [D -> 0 .. q] /\ t \in [D -> Nat]
    <2>1. t \in [D -> 0 .. q]
        BY <1>5, Zenon
    <2> HIDE DEF t
    <2> QED BY <2>1
<1> HIDE DEF t, g
<1>9. Nats(g, n)
    BY <1>7, <1>8, TakenAlong, Zenon
<1>10. Ints(g, n)
    BY <1>9 DEF Ints, Nats
<1>11. Ints(Costs(s, g, n), n)
    BY <1>1, <1>10, CostsAreInts, Zenon
<1>12. PICK U : IsSums(U, g, n)
    BY <1>1, <1>10, SumsExist, Zenon
<1>13. PICK K : IsSums(K, Costs(s, g, n), n)
    BY <1>1, <1>11, SumsExist, Zenon
<1>14. U[n] = q /\ K[n] = CostAt(C, V, s, m, q)
    BY <1>1, <1>10, <1>12, <1>13, GreedyCosts DEF g
<1>15. SumFunction(t) = U[n] /\ Cost(t) = K[n]
    BY <1>7, <1>8, <1>12, <1>13, TakenAlong, Zenon
<1>16. t \in Takes(b, q)
    BY <1>5, <1>6, <1>8, <1>14, <1>15, Zenon DEF Takes
<1> QED BY <1>14, <1>15, <1>16, Zenon

(* No way of taking the quantity is better. *)
NotBetter(down, x, w) == x \in Int /\ IF down THEN x <= w ELSE x >= w

(* This holds for every way of taking the quantity that there is. *)
LEMMA TakesAreWorse ==
    ASSUME NEW b, Side(b), NEW V, IsSums(V, Vols(b), Size(b)),
           NEW C, IsSums(C, Costs(prices(b), Vols(b), Size(b)), Size(b)),
           NEW m \in 1 .. Size(b), NEW q \in Nat, V[m - 1] <= q, q <= V[m], NEW t \in Takes(b, q)
    PROVE  NotBetter(Down(b), Cost(t), CostAt(C, V, prices(b), m, q))
<1> DEFINE D == DOMAIN b.levels
           n == Size(b)
           s == prices(b)
           a == Along(t, s, n)
<1>1. n \in Nat /\ s \in [1 .. n -> D] /\ Nats(Vols(b), n) /\ Ints(s, n) /\ Down(b) \in BOOLEAN
    BY SideFacts, Zenon
<1>2. t \in [D -> Nat] /\ SumFunction(t) = q /\ \A p \in D : t[p] <= b.levels[p]
    BY DEF Takes
<1>3. \A i \in 1 .. n : a[i] <= Vols(b)[i]
    BY <1>1, <1>2, Zenon DEF Along, Vols
<1>4. Nats(a, n)
    BY <1>2, TakenAlong, Zenon
<1> HIDE DEF a
<1>5. Ints(a, n)
    BY <1>4 DEF Ints, Nats
<1>6. Ints(Costs(s, a, n), n)
    BY <1>1, <1>5, CostsAreInts, Zenon
<1>7. PICK U : IsSums(U, a, n)
    BY <1>1, <1>5, SumsExist, Zenon
<1>8. PICK K : IsSums(K, Costs(s, a, n), n)
    BY <1>1, <1>6, SumsExist, Zenon
<1>9. U[n] = q /\ Cost(t) = K[n]
    BY <1>2, <1>7, <1>8, TakenAlong, Zenon DEF a
<1>10. \A i, j \in 1 .. n : i < j => Before(Down(b), s[i], s[j])
    BY PricesListed, Zenon DEF Lists, Size
<1>11. K[n] \in Int
    BY <1>1, <1>8 DEF IsSums
<1> HIDE DEF n, s
<1>12. IF Down(b) THEN K[n] <= CostAt(C, V, s, m, q) ELSE K[n] >= CostAt(C, V, s, m, q)
    BY <1>1, <1>3, <1>4, <1>7, <1>8, <1>9, <1>10, GreedyIsBest DEF n, s
<1> QED BY <1>9, <1>11, <1>12, Zenon DEF NotBetter, s

(* A member not above the others is the minimum. *)
LEMMA LeastIsMin ==
    ASSUME NEW S, NEW w \in Int, w \in S, \A x \in S : x \in Int /\ x >= w
    PROVE  Min(S) = w
<1>1. \A y \in S : w <= y
    OBVIOUS
<1>2. Min(S) \in S /\ \A y \in S : Min(S) <= y
    BY <1>1, Zenon DEF Min
<1> DEFINE v == Min(S)
<1>3. v \in Int /\ v <= w /\ v >= w
    BY <1>2, Zenon
<1> HIDE DEF v
<1>4. v = w
    BY <1>3
<1> QED BY <1>4, Zenon DEF v

(* A member not below the others is the maximum. *)
LEMMA GreatestIsMax ==
    ASSUME NEW S, NEW w \in Int, w \in S, \A x \in S : x \in Int /\ x <= w
    PROVE  Max(S) = w
<1>1. \A y \in S : w >= y
    OBVIOUS
<1>2. Max(S) \in S /\ \A y \in S : Max(S) >= y
    BY <1>1, Zenon DEF Max
<1> DEFINE v == Max(S)
<1>3. v \in Int /\ v <= w /\ v >= w
    BY <1>2, Zenon
<1> HIDE DEF v
<1>4. v = w
    BY <1>3
<1> QED BY <1>4, Zenon DEF v

(* So the loop computes the best cost there is. *)
LEMMA LoopIsBest ==
    ASSUME NEW b, Side(b), NEW q \in 1 .. Total(b)
    PROVE  weightedSum(b, q) \in Nat /\ q \in Nat /\ BestCost(b, q) = weightedSum(b, q)
<1> DEFINE n == Size(b)
           s == prices(b)
           costs == {Cost(t) : t \in Takes(b, q)}
<1>1. PICK V, C : IsSums(V, Vols(b), n) /\ IsSums(C, Costs(s, Vols(b), n), n)
    BY SideSums, Zenon
<1>2. Total(b) = V[n]
    BY <1>1, TotalIs
<1>3. n \in Nat /\ Nats(Vols(b), n) /\ s \in [1 .. n -> DOMAIN b.levels]
    BY SideFacts, Zenon
<1>4. Nats(Costs(s, Vols(b), n), n)
    <2>1. \A i \in 1 .. n : s[i] \in Nat /\ Vols(b)[i] \in Nat
        BY <1>3 DEF Nats, Side
    <2>2. \A x, y \in Nat : x * y \in Nat
        OBVIOUS
    <2> QED BY <2>1, <2>2, Zenon DEF Nats, Costs
<1>5. Rises(V, n) /\ Rises(C, n)
    BY <1>1, <1>3, <1>4, SumsRise, Zenon
<1>6. q \in 1 .. V[n]
    BY <1>2, Zenon
<1> HIDE DEF n, s
<1>7. PICK m \in 1 .. n : V[m - 1] < q /\ q <= V[m]
    BY <1>1, <1>3, <1>6, QuantityCut, Zenon
<1>8. V[m - 1] \in Nat /\ C[m - 1] \in Nat /\ V[n] \in Nat /\ s[m] \in Nat
    BY <1>3, <1>5 DEF Rises, Side
<1>9. q \in Nat /\ V[m - 1] <= q /\ q - V[m - 1] \in Nat
    BY <1>6, <1>7, <1>8
<1> DEFINE w == CostAt(C, V, s, m, q)
<1>10. weightedSum(b, q) = w
    BY <1>1, <1>7, <1>9, WeightedSumIs, Zenon DEF n, s
<1>11. w \in Nat
    <2>1. s[m] * (q - V[m - 1]) \in Nat
        BY <1>8, <1>9
    <2> QED BY <1>8, <2>1 DEF CostAt
<1>12. w \in costs
    <2>1. \E t \in Takes(b, q) : Cost(t) = w
        BY <1>1, <1>7, <1>9, GreedyIsTake, Zenon DEF n, s
    <2> QED BY <2>1, Zenon
<1>13. \A x \in costs : NotBetter(Down(b), x, w)
    BY <1>1, <1>7, <1>9, TakesAreWorse, Zenon DEF n, s
<1>14. BestCost(b, q) = IF b.side = "ask" THEN Min(costs) ELSE Max(costs)
    BY Zenon DEF BestCost
<1> HIDE DEF w, costs
<1>15. CASE b.side = "ask"
    <2>1. \A x \in costs : x \in Int /\ x >= w
        BY <1>13, <1>15 DEF Down, NotBetter
    <2>2. Min(costs) = w
        BY <1>11, <1>12, <2>1, LeastIsMin
    <2> QED BY <1>9, <1>10, <1>11, <1>14, <1>15, <2>2, Zenon
<1>16. CASE b.side = "bid"
    <2>1. \A x \in costs : x \in Int /\ x <= w
        BY <1>13, <1>16, Zenon DEF Down, NotBetter
    <2>2. Max(costs) = w
        BY <1>11, <1>12, <2>1, GreatestIsMax
    <2>3. b.side # "ask"
        BY <1>16
    <2> QED BY <1>9, <1>10, <1>11, <1>14, <2>2, <2>3, Zenon
<1> QED BY <1>15, <1>16 DEF Side

(* AvgExecPrice is the tick at or just below the average of the best cost. *)
THEOREM SideRoundsDown ==
    ASSUME NEW b, Side(b), TickSize \in Nat \ {0}, Precision \in Nat \ {0}
    PROVE  RoundsDown(b)
<1> SUFFICES ASSUME NEW qty \in 1 .. Total(b), qty * (TickSize + 1) < 2 * Precision
             PROVE  /\ AvgExecPrice(b, qty) * qty <= BestCost(b, qty)
                    /\ BestCost(b, qty) < (AvgExecPrice(b, qty) + TickSize) * qty
    BY Zenon DEF RoundsDown
<1> DEFINE w == weightedSum(b, qty)
           x == Div(w, qty)
           y == Div(x, TickSize * Precision)
           k == y \div Precision
<1>1. w \in Nat /\ qty \in Nat /\ BestCost(b, qty) = w
    BY LoopIsBest, Zenon
<1>2. qty \in Nat \ {0}
    BY <1>1
<1>3. x = (2 * w * Precision + qty) \div (2 * qty)
    BY Zenon DEF Div
<1>4. y = (2 * x * Precision + TickSize * Precision) \div (2 * (TickSize * Precision))
    BY Zenon DEF Div
<1>5. AvgExecPrice(b, qty) = k * TickSize
    BY Zenon DEF AvgExecPrice, RoundToTickSize
<1>6. k = y \div Precision
    OBVIOUS
<1> HIDE DEF w, x, y, k
<1>7. (k * TickSize) * qty <= w /\ w < (k * TickSize + TickSize) * qty
    BY <1>1, <1>2, <1>3, <1>4, <1>6, TickBelow
<1> QED BY <1>1, <1>5, <1>7, Zenon

(* The state of the loop of CalculateAsksVolSumMap, its step, its fold and *)
(* the map it sets.                                                        *)
Mapped == [vol : Int, map : SUBSET (Int \X Int)]
Sets(x, p, v) == [vol |-> x.vol + v, map |-> x.map \union {<<p, x.vol + v>>}]
NoneMapped == [vol |-> 0, map |-> {}]
MapSteps(it, b, n) ==
    it = [S \in SUBSET (1 .. n) |->
             IF S = {} THEN NoneMapped
             ELSE Sets(it[S \ {Max(S)}], SortedRange(b)[Max(S)][1], SortedRange(b)[Max(S)][2])]
MapOf(sums) == [p \in {e[1] : e \in sums} |-> (CHOOSE e \in sums : e[1] = p)[2]]
MapsTo(g, s, v, n) == g[0] = NoneMapped /\ \A k \in 1 .. n : g[k] = Sets(g[k - 1], s[k], v[k])

(* CalculateAsksVolSumMap and CalculateBidsVolSumMap set what their loop   *)
(* computes level by level.                                                *)
LEMMA VolSumMapFolds ==
    ASSUME NEW b, Side(b)
    PROVE  \E g : /\ MapsTo(g, prices(b), Vols(b), Size(b))
                  /\ CalculateVolSumMap(b) = MapOf(g[Size(b)].map)
<1> DEFINE n == Size(b)
           s == SortedRange(b)
<1>1. n \in Nat /\ DOMAIN s = 1 .. n /\ \A k \in 1 .. n : s[k][1] = prices(b)[k] /\ s[k][2] = Vols(b)[k]
    BY SideFacts, Visited
<1>2. CalculateVolSumMap(b) = MapOf((CHOOSE it : MapSteps(it, b, n))[1 .. n].map)
    <2>1. CalculateVolSumMap(b) =
             MapOf((CHOOSE it : it = [S \in SUBSET DOMAIN SortedRange(b) |->
                 IF S = {} THEN NoneMapped
                 ELSE Sets(it[S \ {Max(S)}], SortedRange(b)[Max(S)][1], SortedRange(b)[Max(S)][2])])
             [DOMAIN SortedRange(b)].map)
        BY Zenon DEF CalculateVolSumMap, Visit, MapThenFoldSet, Sets, NoneMapped, MapOf
    <2> QED BY <1>1, <2>1, Zenon DEF MapSteps
<1>3. \E it : MapSteps(it, b, n)
    <2> DEFINE F == [i \in 1 .. n |-> [x \in Mapped |-> Sets(x, s[i][1], s[i][2])]]
    <2>1. ASSUME NEW k \in 1 .. n, NEW x \in Mapped PROVE Sets(x, s[k][1], s[k][2]) \in Mapped
        <3>1. s[k][2] \in Int /\ s[k][1] \in Int
            BY <1>1, SideFacts DEF Ints
        <3> HIDE DEF s
        <3> QED BY <3>1 DEF Mapped, Sets
    <2>2. Steps(F, 1 .. n, Mapped)
        BY <2>1, Zenon DEF Steps
    <2>3. PICK it : Folded(it, n, Mapped, NoneMapped, F)
        <3>1. NoneMapped \in Mapped
            BY DEF Mapped, NoneMapped
        <3> HIDE DEF F
        <3> QED BY <1>1, <2>2, <3>1, FoldChoice, Zenon
    <2>4. ASSUME NEW S \in SUBSET (1 .. n)
          PROVE it[S] = IF S = {} THEN NoneMapped
                        ELSE Sets(it[S \ {Max(S)}], s[Max(S)][1], s[Max(S)][2])
        <3>1. CASE S = {}
            BY <2>3, <3>1, Zenon DEF Folded
        <3>2. CASE S # {}
            <4>1. Max(S) \in 1 .. n /\ Max(S) = Largest(S)
                BY <1>1, <3>2, LargestIn, LargestIsMax, Zenon
            <4>2. it[S \ {Max(S)}] \in Mapped
                BY <2>3, Zenon DEF Folded
            <4> QED BY <2>3, <3>2, <4>1, <4>2, Zenon DEF Folded
        <3> QED BY <3>1, <3>2
    <2> HIDE DEF F
    <2>5. MapSteps(it, b, n)
        BY <2>3, <2>4, Zenon DEF MapSteps, Folded
    <2> QED BY <2>5
<1>4. PICK it : MapSteps(it, b, n) /\ CalculateVolSumMap(b) = MapOf(it[1 .. n].map)
    BY <1>2, <1>3, Zenon
<1> DEFINE g == [k \in 0 .. n |-> it[1 .. k]]
<1>5. it[{}] = NoneMapped /\ 1 .. 0 = {} /\ 0 \in 0 .. n /\ n \in 0 .. n
    BY <1>1, <1>4 DEF MapSteps
<1>6. ASSUME NEW k \in 1 .. n PROVE g[k] = Sets(g[k - 1], prices(b)[k], Vols(b)[k])
    <2>1. /\ 1 .. k \in SUBSET (1 .. n) /\ 1 .. k # {} /\ Max(1 .. k) = k
          /\ (1 .. k) \ {k} = 1 .. k - 1
        BY <1>1, PrefixOf, LargestIsMax, Zenon
    <2>2. it[1 .. k] = Sets(it[1 .. k - 1], s[k][1], s[k][2])
        BY <1>4, <2>1, Zenon DEF MapSteps
    <2>3. k \in 0 .. n /\ k - 1 \in 0 .. n
        BY <1>1
    <2> QED BY <1>1, <2>2, <2>3, Zenon
<1>7. g[0] = NoneMapped /\ CalculateVolSumMap(b) = MapOf(g[n].map)
    BY <1>4, <1>5, Zenon
<1> HIDE DEF g
<1>8. MapsTo(g, prices(b), Vols(b), n)
    BY <1>6, <1>7, Zenon DEF MapsTo
<1> QED BY <1>7, <1>8, Zenon

(* The place of the price of level i is i. *)
LEMMA UptoLevel ==
    ASSUME NEW b, Side(b), NEW i \in 1 .. Size(b)
    PROVE  Upto(prices(b), Size(b), Down(b), prices(b)[i], i)
<1> DEFINE n == Size(b)
           s == prices(b)
           down == Down(b)
<1>1. n \in Nat /\ down \in BOOLEAN /\ \A j \in 1 .. n : s[j] \in Int
    BY SideFacts, Zenon DEF Ints
<1>2. \A j, k \in 1 .. n : j < k => Before(down, s[j], s[k])
    BY PricesListed, Zenon DEF Lists, Size
<1> HIDE DEF s, n, down
<1>3. i \in 1 .. n /\ i \in 0 .. n
    BY <1>1 DEF n
<1>4. \A j \in 1 .. i : ~Before(down, s[i], s[j])
    BY <1>1, <1>2, <1>3 DEF Before
<1>5. \A j \in i + 1 .. n : Before(down, s[i], s[j])
    <2> TAKE j \in i + 1 .. n
    <2>1. j \in 1 .. n /\ i < j
        BY <1>1, <1>3
    <2> QED BY <1>2, <1>3, <2>1, Zenon
<1> QED BY <1>3, <1>4, <1>5, Zenon DEF Upto, n, s, down

(* The map has the prices of the book and at each what SumVolume returns. *)
THEOREM SideMapAgrees ==
    ASSUME NEW b, Side(b)
    PROVE  MapAgrees(b)
<1> DEFINE D == DOMAIN b.levels
           n == Size(b)
           s == prices(b)
<1>1. PICK V : IsSums(V, Vols(b), n)
    BY SideSums, Zenon
<1>2. PICK g : MapsTo(g, s, Vols(b), n) /\ CalculateVolSumMap(b) = MapOf(g[n].map)
    BY VolSumMapFolds, Zenon
<1> DEFINE M(k) == {<<s[i], V[i]>> : i \in 1 .. k}
           T == {k \in 0 .. n : g[k] = [vol |-> V[k], map |-> M(k)]}
<1>3. /\ n \in Nat /\ s \in [1 .. n -> D] /\ Injects(s, n)
      /\ IsFiniteSet(D) /\ n = Cardinality(D) /\ Lists(s, D, Down(b))
    BY SideFacts, PricesListed, Zenon DEF Lists, Injects, Size, Side
<1>4. Onto(s, n, D)
    BY <1>3, ListIsOnto, Zenon
<1>5. 0 \in T
    <2>1. M(0) = {} /\ V[0] = 0 /\ g[0] = NoneMapped /\ 0 \in 0 .. n
        BY <1>1, <1>2, <1>3 DEF IsSums, MapsTo
    <2> HIDE DEF M
    <2> QED BY <2>1, Zenon DEF NoneMapped
<1>6. ASSUME NEW k \in 1 .. n, k - 1 \in T PROVE k \in T
    <2>1. V[k] = V[k - 1] + Vols(b)[k]
        BY <1>1, Zenon DEF IsSums
    <2>2. g[k] = Sets(g[k - 1], s[k], Vols(b)[k]) /\ g[k - 1] = [vol |-> V[k - 1], map |-> M(k - 1)]
        BY <1>2, <1>6, Zenon DEF MapsTo
    <2>3. M(k) = M(k - 1) \union {<<s[k], V[k]>>}
        <3>1. 1 .. k = (1 .. k - 1) \union {k}
            BY <1>3
        <3> QED BY <3>1, Zenon
    <2>4. k \in 0 .. n
        BY <1>3
    <2> HIDE DEF M
    <2>5. g[k] = [vol |-> V[k], map |-> M(k)]
        BY <2>1, <2>2, <2>3 DEF Sets
    <2> QED BY <2>4, <2>5, Zenon
<1> HIDE DEF T
<1>7. \A k \in 0 .. n : k \in T
    BY <1>3, <1>5, <1>6, UpTo, Zenon
<1>8. g[n].map = M(n)
    <2>1. n \in T
        BY <1>3, <1>7
    <2>2. g[n] = [vol |-> V[n], map |-> M(n)]
        BY <2>1, Zenon DEF T
    <2> HIDE DEF M
    <2> QED BY <2>2
<1>9. {e[1] : e \in M(n)} = D
    <2>1. ASSUME NEW e \in M(n) PROVE e[1] \in D
        BY <1>3
    <2>2. ASSUME NEW p \in D PROVE \E e \in M(n) : e[1] = p
        <3>1. PICK i \in 1 .. n : s[i] = p
            BY <1>4, Zenon DEF Onto
        <3>2. <<s[i], V[i]>> \in M(n) /\ <<s[i], V[i]>>[1] = p
            BY <3>1
        <3> QED BY <3>2, Zenon
    <2> HIDE DEF M
    <2> QED BY <2>1, <2>2, Zenon
<1>10. ASSUME NEW p \in D PROVE (CHOOSE e \in M(n) : e[1] = p)[2] = SumVolume(b, p)
    <2>1. PICK i \in 1 .. n : s[i] = p
        BY <1>4, Zenon DEF Onto
    <2>2. Upto(s, n, Down(b), p, i)
        BY <2>1, UptoLevel, Zenon
    <2>3. SumVolume(b, p) = V[i]
        BY <1>1, <2>2, SumVolumeIs
    <2> DEFINE e == CHOOSE e \in M(n) : e[1] = p
    <2>4. e \in M(n) /\ e[1] = p
        <3>1. <<s[i], V[i]>> \in M(n) /\ <<s[i], V[i]>>[1] = p
            BY <2>1
        <3> HIDE DEF M
        <3> QED BY <3>1, Zenon
    <2> HIDE DEF e
    <2>5. PICK j \in 1 .. n : e = <<s[j], V[j]>>
        BY <2>4, Zenon
    <2>6. s[j] = s[i] /\ e[2] = V[j]
        BY <2>1, <2>4, <2>5
    <2>7. j = i
        BY <1>3, <2>6, Zenon DEF Injects
    <2> QED BY <2>3, <2>6, <2>7, Zenon DEF e
<1> HIDE DEF M
<1>11. MapOf(M(n)) = [p \in D |-> SumVolume(b, p)]
    <2> DEFINE at(p) == (CHOOSE e \in M(n) : e[1] = p)[2]
    <2>1. MapOf(M(n)) = [p \in {e[1] : e \in M(n)} |-> at(p)]
        BY Zenon DEF MapOf
    <2>2. \A p \in D : at(p) = SumVolume(b, p)
        BY <1>10, Zenon
    <2> HIDE DEF at, D
    <2>3. MapOf(M(n)) = [p \in D |-> at(p)]
        BY <1>9, <2>1
    <2> QED BY <2>2, <2>3
<1> QED BY <1>2, <1>8, <1>11, Zenon DEF MapAgrees

(* The first m elements of a list. *)
Firsts(r, m) == [i \in 1 .. m |-> r[i]]

(* The first m elements are m. *)
LEMMA FirstsLen ==
    ASSUME NEW r, NEW m \in Nat
    PROVE  Len(Firsts(r, m)) = m /\ (Firsts(r, m) = << >> <=> m = 0)
<1> DEFINE S == {r[i] : i \in 1 .. m}
           q == Firsts(r, m)
<1>1. q \in Seq(S) /\ Len(q) = m
    BY DEF Firsts
<1>2. q = << >> <=> m = 0
    BY <1>1
<1> QED BY <1>1, <1>2

(* The first elements and the next one. *)
LEMMA FirstsGrow ==
    ASSUME NEW r, NEW m \in Nat, NEW k, k = m + 1
    PROVE  Append(Firsts(r, m), r[k]) = Firsts(r, k)
<1> DEFINE S == {r[i] : i \in 1 .. m + 1}
           q == Firsts(r, m)
<1>1. q \in Seq(S) /\ Len(q) = m
    BY DEF Firsts
<1> QED BY <1>1 DEF Firsts

(* The first elements of the first elements. *)
LEMMA FirstsCut ==
    ASSUME NEW r, NEW m \in Nat, NEW i \in 1 .. m
    PROVE  Firsts(r, m)[i] = r[i] /\ SubSeq(Firsts(r, m), 1, i) = Firsts(r, i)
<1> DEFINE S == {r[j] : j \in 1 .. m}
           q == Firsts(r, m)
<1>1. q \in Seq(S) /\ Len(q) = m
    BY DEF Firsts
<1> QED BY <1>1 DEF Firsts

(* A level, the step of the loop of GetAsks, its fold, and its values      *)
(* level by level.                                                         *)
PricedVolume == Int \X Int
Adding(x, l, depth) == IF x # << >> /\ Len(x) >= depth THEN x ELSE Append(x, l)
GetSteps(it, b, depth, n) ==
    it = [S \in SUBSET (1 .. n) |->
             IF S = {} THEN << >> ELSE Adding(it[S \ {Max(S)}], SortedRange(b)[Max(S)], depth)]
Gets(g, r, depth, n) == g[0] = << >> /\ \A k \in 1 .. n : g[k] = Adding(g[k - 1], r[k], depth)

(* GetAsks and GetBids return what their loop computes level by level. *)
LEMMA GetLevelsFolds ==
    ASSUME NEW b, Side(b), NEW depth \in Nat
    PROVE  \E g : Gets(g, SortedRange(b), depth, Size(b)) /\ GetLevels(b, depth) = g[Size(b)]
<1> DEFINE n == Size(b)
           s == SortedRange(b)
<1>1. n \in Nat /\ DOMAIN s = 1 .. n /\ \A k \in 1 .. n : s[k] = <<prices(b)[k], Vols(b)[k]>>
    BY SideFacts, Visited
<1>2. GetLevels(b, depth) = (CHOOSE it : GetSteps(it, b, depth, n))[1 .. n]
    <2>1. GetLevels(b, depth) =
             (CHOOSE it : it = [S \in SUBSET DOMAIN SortedRange(b) |->
                 IF S = {} THEN << >>
                 ELSE Adding(it[S \ {Max(S)}], SortedRange(b)[Max(S)], depth)])[DOMAIN SortedRange(b)]
        BY Zenon DEF GetLevels, Visit, MapThenFoldSet, Adding
    <2> QED BY <1>1, <2>1, Zenon DEF GetSteps
<1>3. \E it : GetSteps(it, b, depth, n)
    <2> DEFINE A == Seq(PricedVolume)
               F == [i \in 1 .. n |-> [x \in A |-> Adding(x, s[i], depth)]]
    <2>1. ASSUME NEW k \in 1 .. n, NEW x \in A PROVE Adding(x, s[k], depth) \in A
        <3>1. s[k] \in PricedVolume
            <4>1. prices(b)[k] \in Int /\ Vols(b)[k] \in Int
                BY SideFacts, Zenon DEF Ints
            <4>2. <<prices(b)[k], Vols(b)[k]>> \in PricedVolume
                BY <4>1 DEF PricedVolume
            <4> QED BY <1>1, <4>2, Zenon
        <3> HIDE DEF s
        <3> QED BY <3>1 DEF Adding
    <2>3. << >> \in A
        OBVIOUS
    <2> HIDE DEF A
    <2>2. Steps(F, 1 .. n, A)
        BY <2>1, Zenon DEF Steps
    <2>4. PICK it : Folded(it, n, A, << >>, F)
        <3> HIDE DEF F
        <3> QED BY <1>1, <2>2, <2>3, FoldChoice, Zenon
    <2>5. ASSUME NEW S \in SUBSET (1 .. n)
          PROVE it[S] = IF S = {} THEN << >> ELSE Adding(it[S \ {Max(S)}], s[Max(S)], depth)
        <3>1. CASE S = {}
            BY <2>4, <3>1, Zenon DEF Folded
        <3>2. CASE S # {}
            <4>1. Max(S) \in 1 .. n /\ Max(S) = Largest(S)
                BY <1>1, <3>2, LargestIn, LargestIsMax, Zenon
            <4>2. it[S \ {Max(S)}] \in A
                BY <2>4, Zenon DEF Folded
            <4> QED BY <2>4, <3>2, <4>1, <4>2, Zenon DEF Folded
        <3> QED BY <3>1, <3>2
    <2> HIDE DEF F
    <2>6. GetSteps(it, b, depth, n)
        BY <2>4, <2>5, Zenon DEF GetSteps, Folded
    <2> QED BY <2>6
<1>4. PICK it : GetSteps(it, b, depth, n) /\ GetLevels(b, depth) = it[1 .. n]
    BY <1>2, <1>3, Zenon
<1> DEFINE g == [k \in 0 .. n |-> it[1 .. k]]
<1>5. it[{}] = << >> /\ 1 .. 0 = {} /\ 0 \in 0 .. n /\ n \in 0 .. n
    BY <1>1, <1>4 DEF GetSteps
<1>6. ASSUME NEW k \in 1 .. n PROVE g[k] = Adding(g[k - 1], s[k], depth)
    <2>1. /\ 1 .. k \in SUBSET (1 .. n) /\ 1 .. k # {} /\ Max(1 .. k) = k
          /\ (1 .. k) \ {k} = 1 .. k - 1
        BY <1>1, PrefixOf, LargestIsMax, Zenon
    <2>2. it[1 .. k] = Adding(it[1 .. k - 1], s[k], depth)
        BY <1>4, <2>1, Zenon DEF GetSteps
    <2>3. k \in 0 .. n /\ k - 1 \in 0 .. n
        BY <1>1
    <2> QED BY <1>1, <2>2, <2>3, Zenon
<1>7. g[0] = << >> /\ GetLevels(b, depth) = g[n]
    BY <1>4, <1>5, Zenon
<1> HIDE DEF g
<1>8. Gets(g, s, depth, n)
    BY <1>6, <1>7, Zenon DEF Gets
<1> QED BY <1>7, <1>8, Zenon

(* The first levels are as many as asked for, or all. *)
LEMMA GetLevelsIs ==
    ASSUME NEW b, Side(b), NEW depth \in Nat \ {0}
    PROVE  GetLevels(b, depth) = Firsts(SortedRange(b), IF Size(b) <= depth THEN Size(b) ELSE depth)
<1> DEFINE n == Size(b)
           r == SortedRange(b)
           lo(k) == IF k <= depth THEN k ELSE depth
<1>1. depth \in Nat /\ n \in Nat
    BY SideFacts
<1>2. PICK g : Gets(g, r, depth, n) /\ GetLevels(b, depth) = g[n]
    BY <1>1, GetLevelsFolds, Zenon
<1> DEFINE T == {k \in 0 .. n : g[k] = Firsts(r, lo(k))}
<1> HIDE DEF n, r
<1>3. 0 \in T
    <2>1. lo(0) = 0 /\ 0 \in Nat /\ 0 \in 0 .. n
        BY <1>1
    <2>2. Firsts(r, 0) = << >>
        BY <2>1, FirstsLen
    <2> QED BY <1>2, <2>1, <2>2, Zenon DEF Gets
<1>4. ASSUME NEW k \in 1 .. n, k - 1 \in T PROVE k \in T
    <2> DEFINE m == lo(k - 1)
    <2>1. g[k] = Adding(g[k - 1], r[k], depth) /\ g[k - 1] = Firsts(r, m)
        BY <1>2, <1>4, Zenon DEF Gets
    <2>2. m \in Nat /\ k \in 0 .. n
        BY <1>1
    <2>3. CASE k <= depth
        <3>1. m = k - 1 /\ lo(k) = m + 1 /\ k = m + 1 /\ ~(m >= depth)
            BY <1>1, <2>3
        <3> HIDE DEF m, lo
        <3>2. Len(Firsts(r, m)) = m /\ lo(k) = k
            BY <2>2, <3>1, FirstsLen, Zenon
        <3>3. Append(Firsts(r, m), r[k]) = Firsts(r, k)
            BY <2>2, <3>1, FirstsGrow, Zenon
        <3>4. g[k] = Firsts(r, k)
            BY <2>1, <3>1, <3>2, <3>3, Zenon DEF Adding
        <3> QED BY <2>2, <3>2, <3>4, Zenon
    <2>4. CASE ~(k <= depth)
        <3>1. m = depth /\ lo(k) = depth /\ m >= depth /\ m # 0
            BY <1>1, <2>4
        <3> HIDE DEF m, lo
        <3>2. Len(Firsts(r, m)) = m /\ Firsts(r, m) # << >>
            BY <2>2, <3>1, FirstsLen
        <3>3. g[k] = Firsts(r, m)
            BY <2>1, <3>1, <3>2, Zenon DEF Adding
        <3> QED BY <2>2, <3>1, <3>3, Zenon
    <2> QED BY <2>3, <2>4
<1> HIDE DEF T
<1>5. \A k \in 0 .. n : k \in T
    BY <1>1, <1>3, <1>4, UpTo, Zenon
<1>6. n \in T
    BY <1>1, <1>5
<1> QED BY <1>2, <1>6, Zenon DEF T, n, r

(* The step of the sum of the volumes of a list of levels, and its fold. *)
Plus(x, l) == x + l[2]
VolumeSteps(it, q, n) ==
    it = [S \in SUBSET (1 .. n) |-> IF S = {} THEN 0 ELSE Plus(it[S \ {Max(S)}], q[Max(S)])]

(* The volume of the first levels of a side is the sum of its first        *)
(* volumes.                                                                *)
LEMMA VolumeIs ==
    ASSUME NEW n \in Nat, NEW q, DOMAIN q = 1 .. n, NEW v, Ints(v, n),
           \A k \in 1 .. n : q[k][2] = v[k], NEW V, IsSums(V, v, n)
    PROVE  VolumeOf(q) = V[n]
<1>1. VolumeOf(q) = (CHOOSE it : VolumeSteps(it, q, n))[1 .. n]
    <2>1. VolumeOf(q) =
             (CHOOSE it : it = [S \in SUBSET DOMAIN q |->
                 IF S = {} THEN 0 ELSE Plus(it[S \ {Max(S)}], q[Max(S)])])[DOMAIN q]
        BY Zenon DEF VolumeOf, Visit, MapThenFoldSet, Plus
    <2> QED BY <2>1, Zenon DEF VolumeSteps
<1>2. \E it : VolumeSteps(it, q, n)
    <2> DEFINE F == [i \in 1 .. n |-> [x \in Int |-> Plus(x, q[i])]]
    <2>1. \A k \in 1 .. n : \A x \in Int : Plus(x, q[k]) \in Int
        BY DEF Ints, Plus
    <2>2. Steps(F, 1 .. n, Int)
        BY <2>1, Zenon DEF Steps
    <2>3. 0 \in Int
        OBVIOUS
    <2>4. PICK it : Folded(it, n, Int, 0, F)
        <3> HIDE DEF F
        <3> QED BY <2>2, <2>3, FoldChoice, Zenon
    <2>5. ASSUME NEW S \in SUBSET (1 .. n)
          PROVE it[S] = IF S = {} THEN 0 ELSE Plus(it[S \ {Max(S)}], q[Max(S)])
        <3>1. CASE S = {}
            BY <2>4, <3>1, Zenon DEF Folded
        <3>2. CASE S # {}
            <4>1. Max(S) \in 1 .. n /\ Max(S) = Largest(S)
                BY <3>2, LargestIn, LargestIsMax, Zenon
            <4>2. it[S \ {Max(S)}] \in Int
                BY <2>4, Zenon DEF Folded
            <4> QED BY <2>4, <3>2, <4>1, <4>2, Zenon DEF Folded
        <3> QED BY <3>1, <3>2
    <2> HIDE DEF F
    <2>6. VolumeSteps(it, q, n)
        BY <2>4, <2>5, Zenon DEF VolumeSteps, Folded
    <2> QED BY <2>6
<1>3. PICK it : VolumeSteps(it, q, n) /\ VolumeOf(q) = it[1 .. n]
    BY <1>1, <1>2, Zenon
<1> DEFINE T == {k \in 0 .. n : it[1 .. k] = V[k]}
<1>4. 0 \in T
    <2>1. it[{}] = 0 /\ 1 .. 0 = {} /\ 0 \in 0 .. n
        BY <1>3 DEF VolumeSteps
    <2> QED BY <2>1, Zenon DEF IsSums
<1>5. ASSUME NEW k \in 1 .. n, k - 1 \in T PROVE k \in T
    <2>1. /\ 1 .. k \in SUBSET (1 .. n) /\ 1 .. k # {} /\ Max(1 .. k) = k
          /\ (1 .. k) \ {k} = 1 .. k - 1
        BY PrefixOf, LargestIsMax, Zenon
    <2>2. it[1 .. k] = Plus(it[1 .. k - 1], q[k])
        <3>1. \A S \in SUBSET (1 .. n) :
                 it[S] = IF S = {} THEN 0 ELSE Plus(it[S \ {Max(S)}], q[Max(S)])
            BY <1>3, Zenon DEF VolumeSteps
        <3>2. it[1 .. k] = Plus(it[(1 .. k) \ {Max(1 .. k)}], q[Max(1 .. k)])
            BY <2>1, <3>1, Zenon
        <3> QED BY <2>1, <3>2, Zenon
    <2>3. k \in 0 .. n
        OBVIOUS
    <2>4. V[k] = V[k - 1] + v[k] /\ it[1 .. k - 1] = V[k - 1]
        BY <1>5, Zenon DEF IsSums
    <2> QED BY <2>2, <2>3, <2>4, Zenon DEF Plus
<1> HIDE DEF T
<1>6. \A k \in 0 .. n : k \in T
    BY <1>4, <1>5, UpTo, Zenon
<1>7. n \in T
    BY <1>6
<1> QED BY <1>3, <1>7, Zenon DEF T

(* The volumes of the first levels add up to what SumVolume returns. *)
THEOREM SideLevelsAgree ==
    ASSUME NEW b, Side(b), NEW depth \in Nat \ {0}
    PROVE  LevelsAgree(b, depth)
<1> DEFINE n == Size(b)
           r == SortedRange(b)
           v == Vols(b)
           m == IF n <= depth THEN n ELSE depth
           got == GetLevels(b, depth)
<1>1. n \in Nat /\ m \in Nat /\ m <= n /\ m <= depth /\ m \in {depth, n}
    BY SideFacts
<1>2. got = Firsts(r, m)
    BY GetLevelsIs, Zenon
<1>3. PICK V : IsSums(V, v, n)
    BY SideSums, Zenon
<1>4. \A i \in 1 .. n : r[i] = <<prices(b)[i], v[i]>>
    BY Visited, Zenon
<1>5. Ints(v, n)
    BY SideFacts, Zenon
<1> HIDE DEF m, got
<1>6. Len(got) = m /\ \A i \in 1 .. m : got[i] = r[i] /\ SubSeq(got, 1, i) = Firsts(r, i)
    BY <1>1, <1>2, FirstsLen, FirstsCut, Zenon
<1>7. m = Min({depth, Cardinality(DOMAIN b.levels)})
    <2>1. \A x \in {depth, n} : x \in Int /\ x >= m
        BY <1>1 DEF m
    <2> DEFINE S == {depth, n}
    <2>2. m \in Int /\ m \in S /\ \A x \in S : x \in Int /\ x >= m
        BY <1>1, <2>1
    <2> HIDE DEF S
    <2>3. Min(S) = m
        BY <2>2, LeastIsMin
    <2> QED BY <2>3, Zenon DEF S, Size
<1>8. ASSUME NEW i \in 1 .. m PROVE VolumeOf(SubSeq(got, 1, i)) = SumVolume(b, got[i][1])
    <2>1. i \in 1 .. n /\ i \in Nat
        BY <1>1
    <2>2. /\ SubSeq(got, 1, i) = Firsts(r, i) /\ got[i] = r[i]
          /\ r[i][1] = prices(b)[i]
        BY <1>4, <1>6, <2>1
    <2>3. SumVolume(b, prices(b)[i]) = V[i]
        <3>1. Upto(prices(b), n, Down(b), prices(b)[i], i)
            BY <2>1, UptoLevel, Zenon
        <3> QED BY <1>3, <3>1, SumVolumeIs
    <2> DEFINE q == Firsts(r, i)
               u == Firsts(v, i)
               U == [k \in 0 .. i |-> V[k]]
    <2>a. \A k \in 1 .. i : k \in 1 .. n
        BY <2>1, <1>1
    <2>b. \A k \in 0 .. i : k \in 0 .. n
        BY <2>1, <1>1
    <2>c. \A k \in 1 .. i : k \in 0 .. i /\ k - 1 \in 0 .. i
        BY <2>1
    <2>4. DOMAIN q = 1 .. i /\ \A k \in 1 .. i : q[k][2] = u[k]
        <3>1. DOMAIN q = 1 .. i /\ \A k \in 1 .. i : q[k] = r[k] /\ u[k] = v[k]
            BY Zenon DEF Firsts
        <3>2. ASSUME NEW k \in 1 .. n PROVE r[k][2] = v[k]
            BY <1>4
        <3> QED BY <2>a, <3>1, <3>2, Zenon
    <2>5. Ints(u, i)
        BY <1>5, <2>a, Zenon DEF Ints, Firsts
    <2>6. IsSums(U, u, i)
        <3>1. 0 \in 0 .. i
            BY <2>1
        <3> QED BY <1>3, <2>a, <2>b, <2>c, <3>1, Zenon DEF IsSums, Firsts
    <2>7. U[i] = V[i]
        BY <2>1
    <2> HIDE DEF q, u, U
    <2>8. VolumeOf(q) = U[i]
        BY <2>1, <2>4, <2>5, <2>6, VolumeIs
    <2> QED BY <2>2, <2>3, <2>7, <2>8, Zenon DEF q
<1> QED BY <1>6, <1>7, <1>8, Zenon DEF LevelsAgree, got
=============================================================================
