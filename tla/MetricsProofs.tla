--------------------------- MODULE MetricsProofs ----------------------------
(***************************************************************************)
(* What holds of Metrics for every number of measurers, topics, exports    *)
(* and records: points are right about their samples, and no sample and no *)
(* custom metric is lost or counted twice.                                 *)
(*                                                                         *)
(* Totals of samples are defined by recursion over a sequence.  What is    *)
(* proved of them by induction is proved with a least counterexample       *)
(* (WellOrder), as the provers cannot apply an induction rule.             *)
(***************************************************************************)
EXTENDS Metrics, FiniteSetTheorems, WellFoundedInduction, TLAPS

(***************************************************************************)
(* Numbers.                                                                *)
(***************************************************************************)
(* A set of naturals has a least element. *)
LEMMA WellOrder ==
    ASSUME NEW T, T \subseteq Nat, T # {}
    PROVE  \E n \in T : \A k \in T : n <= k
<1> DEFINE R == OpToRel(<, Nat)
<1>1. IsWellFoundedOn(R, Nat)
    BY NatLessThanWellFounded, Zenon
<1>2. \A x, y \in Nat : x < y => <<x, y>> \in R
    BY Zenon DEF OpToRel
<1> HIDE DEF R
<1>3. PICK n \in T : \A k \in T : ~(<<k, n>> \in R)
    BY <1>1, WFMin, Zenon
<1>4. \A k \in T : ~(k < n)
    BY <1>2, <1>3, Zenon
<1> QED BY <1>4

(* Products with a natural number keep an order, ... *)
LEMMA MulMono ==
    ASSUME NEW n \in Nat, NEW a \in Int, NEW b \in Int, a <= b
    PROVE  n * a <= n * b
<1>1. n * (b - a) >= 0
    OBVIOUS
<1> QED BY <1>1

(* ... and a strict order of products is one of the factors. *)
LEMMA MulCancel ==
    ASSUME NEW n \in Nat, NEW a \in Int, NEW b \in Int, n * a < n * b
    PROVE  a < b
<1> SUFFICES ASSUME b <= a PROVE FALSE
    OBVIOUS
<1>1. n * b <= n * a
    BY MulMono, Zenon
<1>2. n * a \in Int /\ n * b \in Int
    OBVIOUS
<1> QED BY <1>1, <1>2

(* What the division of naturals leaves is less than the divisor. *)
LEMMA DivFacts ==
    ASSUME NEW a \in Nat, NEW b \in Nat \ {0}
    PROVE  a \div b \in Nat /\ b * (a \div b) <= a /\ a < b * (a \div b) + b
OBVIOUS

(* Go's division is less than a divisor off, towards zero. *)
LEMMA QuoFacts ==
    ASSUME NEW a \in Int, NEW b \in Nat \ {0}
    PROVE  /\ Quo(a, b) \in Int
           /\ a - b * Quo(a, b) < b /\ b * Quo(a, b) - a < b
           /\ a >= 0 => Quo(a, b) >= 0 /\ b * Quo(a, b) <= a
           /\ a < 0 => Quo(a, b) <= 0 /\ b * Quo(a, b) >= a
<1>1. CASE a >= 0
    <2> DEFINE q == a \div b
    <2>1. a \in Nat
        BY <1>1
    <2>2. q \in Nat /\ b * q <= a /\ a < b * q + b
        BY <2>1, DivFacts, Zenon
    <2>3. Quo(a, b) = q
        BY <1>1, Zenon DEF Quo
    <2> HIDE DEF q
    <2>4. b * q \in Int
        BY <2>2
    <2> QED BY <1>1, <2>2, <2>3, <2>4
<1>2. CASE a < 0
    <2> DEFINE q == (-a) \div b
    <2>1. -a \in Nat
        BY <1>2
    <2>2. q \in Nat /\ b * q <= -a /\ -a < b * q + b
        BY <2>1, DivFacts, Zenon
    <2>3. Quo(a, b) = -q
        BY <1>2 DEF Quo
    <2> HIDE DEF q
    <2>4. b * q \in Int /\ b * (-q) = -(b * q)
        BY <2>2
    <2> QED BY <1>2, <2>2, <2>3, <2>4
<1> QED BY <1>1, <1>2

(* A quotient lies between the bounds of what is divided. *)
LEMMA QuoBetween ==
    ASSUME NEW a \in Int, NEW b \in Nat \ {0}, NEW x \in Int
    PROVE  (b * x <= a => x <= Quo(a, b)) /\ (a <= b * x => Quo(a, b) <= x)
<1> DEFINE q == Quo(a, b)
<1>1. q \in Int /\ a - b * q < b /\ b * q - a < b
    BY QuoFacts, Zenon
<1> HIDE DEF q
<1>2. b * q \in Int /\ b * x \in Int /\ b * (q + 1) = b * q + b /\ b * (x + 1) = b * x + b
    BY <1>1
<1>3. ASSUME b * x <= a PROVE x <= q
    <2>1. b * x < b * (q + 1)
        BY <1>1, <1>2, <1>3
    <2>2. x < q + 1
        BY <1>1, <2>1, MulCancel
    <2> QED BY <1>1, <2>2
<1>4. ASSUME a <= b * x PROVE q <= x
    <2>1. b * q < b * (x + 1)
        BY <1>1, <1>2, <1>4
    <2>2. q < x + 1
        BY <1>1, <2>1, MulCancel
    <2> QED BY <1>1, <2>2
<1> QED BY <1>3, <1>4, Zenon DEF q

(* Division keeps an order: the quotients of the least, the average and the *)
(* greatest are in that order.                                              *)
LEMMA QuoMono ==
    ASSUME NEW a \in Int, NEW c \in Int, NEW b \in Nat \ {0}, a <= c
    PROVE  Quo(a, b) <= Quo(c, b)
<1> DEFINE p == Quo(a, b)
           q == Quo(c, b)
<1>1. p \in Int /\ q \in Int
    BY QuoFacts, Zenon
<1>2. /\ a - b * p < b /\ b * p - a < b /\ c - b * q < b /\ b * q - c < b
      /\ (a >= 0 => p >= 0 /\ b * p <= a) /\ (a < 0 => p <= 0 /\ b * p >= a)
      /\ (c >= 0 => q >= 0 /\ b * q <= c) /\ (c < 0 => q <= 0 /\ b * q >= c)
    BY QuoFacts, Zenon
<1> HIDE DEF p, q
<1>3. b * p \in Int /\ b * q \in Int /\ b * (q + 1) = b * q + b
    BY <1>1
<1>4. CASE a >= 0 \/ c < 0
    <2>1. b * p < b * (q + 1)
        BY <1>2, <1>3, <1>4
    <2>2. p < q + 1
        BY <1>1, <2>1, MulCancel
    <2> QED BY <1>1, <2>2 DEF p, q
<1>5. CASE a < 0 /\ c >= 0
    BY <1>1, <1>2, <1>5 DEF p, q
<1> QED BY <1>4, <1>5

(* Samples and their latencies. *)
Reading == [id : Nat, latency : Latencies]
Timed(s) == s \in Seq(Reading)

IsSums(f, s, n) == f = [k \in 0 .. n |-> IF k = 0 THEN 0 ELSE f[k - 1] + s[k].latency]

(* The equation of Sums has a solution on every prefix: a first prefix *)
(* without one would extend the solution of the one before it.         *)
LEMMA SumsExist ==
    ASSUME NEW s, Timed(s), NEW n \in Nat, n <= Len(s)
    PROVE  \E f : IsSums(f, s, n)
<1> DEFINE T == {m \in Nat : m <= Len(s) /\ ~\E f : IsSums(f, s, m)}
<1> SUFFICES ASSUME T # {} PROVE FALSE
    BY Zenon
<1>1. PICK m \in T : \A k \in T : m <= k
    BY WellOrder, Zenon
<1>2. m \in Nat /\ m <= Len(s) /\ ~\E f : IsSums(f, s, m)
    BY <1>1, Zenon
<1>3. m # 0
    <2> DEFINE g == [k \in 0 .. 0 |-> 0]
    <2>1. IsSums(g, s, 0)
        BY DEF IsSums
    <2> HIDE DEF g
    <2> QED BY <1>2, <2>1, Zenon
<1>4. m - 1 \in Nat /\ m - 1 <= Len(s) /\ ~(m <= m - 1)
    BY <1>2, <1>3 DEF Timed
<1>5. PICK f : IsSums(f, s, m - 1)
    BY <1>1, <1>4, Zenon
<1> DEFINE g == [k \in 0 .. m |-> IF k = m THEN f[m - 1] + s[m].latency ELSE f[k]]
<1>6. IsSums(g, s, m)
    <2> SUFFICES ASSUME NEW k \in 0 .. m
                 PROVE  g[k] = IF k = 0 THEN 0 ELSE g[k - 1] + s[k].latency
        BY Zenon DEF IsSums
    <2>1. CASE k = m
        <3>1. g[k] = f[m - 1] + s[m].latency
            BY <2>1, Zenon
        <3>2. g[k - 1] = f[m - 1]
            BY <2>1, <1>4
        <3> QED BY <3>1, <3>2, <2>1, <1>3, Zenon
    <2>2. CASE k # m /\ k # 0
        <3>1. k \in 0 .. (m - 1) /\ k - 1 \in 0 .. m /\ k - 1 # m
            BY <1>2, <2>2
        <3>2. f[k] = f[k - 1] + s[k].latency
            BY <1>5, <2>2, <3>1, Zenon DEF IsSums
        <3>3. g[k] = f[k] /\ g[k - 1] = f[k - 1]
            BY <2>2, <3>1, Zenon
        <3> QED BY <2>2, <3>2, <3>3, Zenon
    <2>3. CASE k # m /\ k = 0
        <3>1. 0 \in 0 .. (m - 1)
            BY <1>4
        <3>2. f[0] = 0
            BY <1>5, <3>1, Zenon DEF IsSums
        <3> QED BY <2>3, <3>2, Zenon
    <2> QED BY <2>1, <2>2, <2>3, Zenon
<1> HIDE DEF g
<1> QED BY <1>2, <1>6, Zenon

(* Sums adds up the latencies. *)
LEMMA SumsAre ==
    ASSUME NEW s, Timed(s)
    PROVE  /\ Sums(s)[0] = 0
           /\ \A k \in 1 .. Len(s) : Sums(s)[k] = Sums(s)[k - 1] + s[k].latency
           /\ \A k \in 0 .. Len(s) : Sums(s)[k] \in Int
<1>0. \A k \in 1 .. Len(s) : s[k].latency \in Int
    <2> SUFFICES ASSUME NEW k \in 1 .. Len(s) PROVE s[k].latency \in Int
        BY Zenon
    <2>1. s[k] \in Reading
        BY DEF Timed
    <2> QED BY <2>1, MetricsAssumption, Zenon DEF Reading
<1>1. Len(s) \in Nat /\ Len(s) <= Len(s)
    BY DEF Timed
<1>2. PICK g : IsSums(g, s, Len(s))
    BY <1>1, SumsExist, Zenon
<1>3. IsSums(Sums(s), s, Len(s))
    BY <1>2, Zenon DEF Sums, IsSums
<1> DEFINE f == Sums(s)
<1> HIDE DEF f
<1>4. f = [k \in 0 .. Len(s) |-> IF k = 0 THEN 0 ELSE f[k - 1] + s[k].latency]
    BY <1>3, Zenon DEF IsSums, f
<1>5. f[0] = 0
    BY <1>1, <1>4
<1>6. \A k \in 1 .. Len(s) : f[k] = f[k - 1] + s[k].latency
    BY <1>1, <1>4
<1>7. \A k \in 0 .. Len(s) : f[k] \in Int
    <2> DEFINE T == {k \in 0 .. Len(s) : f[k] \notin Int}
    <2> SUFFICES ASSUME T # {} PROVE FALSE
        BY Zenon
    <2>a. T \subseteq Nat
        BY <1>1
    <2>1. PICK m \in T : \A k \in T : m <= k
        <3> HIDE DEF T
        <3> QED BY <2>a, WellOrder, Zenon
    <2>2. m # 0
        BY <1>5, <2>1
    <2>3. m \in 1 .. Len(s) /\ m - 1 \in 0 .. Len(s) /\ ~(m <= m - 1)
        BY <1>1, <2>1, <2>2
    <2>4. f[m - 1] \in Int
        BY <2>1, <2>3, Zenon
    <2>5. s[m].latency \in Int
        BY <1>0, <2>3, Zenon
    <2>6. f[m] = f[m - 1] + s[m].latency
        BY <1>6, <2>3, Zenon
    <2> QED BY <2>1, <2>4, <2>5, <2>6
<1> QED BY <1>5, <1>6, <1>7, Zenon DEF f

(* The total of no samples. *)
LEMMA TotalEmpty ==
    ASSUME NEW s, Timed(s), Len(s) = 0
    PROVE  Total(s) = 0
BY SumsAre, Zenon DEF Total

(* AggLatency.Add: a sample more adds its latency to the total. *)
LEMMA TotalAppend ==
    ASSUME NEW s, Timed(s), NEW x \in Reading
    PROVE  Total(s) \in Int /\ Total(Append(s, x)) = Total(s) + x.latency
<1> DEFINE r == Append(s, x)
           f == Sums(s)
           g == Sums(r)
<1>1. /\ Timed(r) /\ Len(s) \in Nat /\ Len(r) = Len(s) + 1 /\ r[Len(s) + 1] = x
      /\ \A k \in 1 .. Len(s) : r[k] = s[k]
    BY DEF Timed
<1> HIDE DEF r
<1>2. /\ f[0] = 0
      /\ \A k \in 1 .. Len(s) : f[k] = f[k - 1] + s[k].latency
      /\ \A k \in 0 .. Len(s) : f[k] \in Int
    BY SumsAre, Zenon
<1>3. /\ g[0] = 0
      /\ \A k \in 1 .. Len(r) : g[k] = g[k - 1] + r[k].latency
      /\ \A k \in 0 .. Len(r) : g[k] \in Int
    BY <1>1, SumsAre, Zenon
<1> HIDE DEF f, g
<1>4. \A k \in 0 .. Len(s) : g[k] = f[k]
    <2> DEFINE T == {k \in 0 .. Len(s) : g[k] # f[k]}
    <2> SUFFICES ASSUME T # {} PROVE FALSE
        BY Zenon
    <2>a. T \subseteq Nat
        BY <1>1
    <2>1. PICK m \in T : \A k \in T : m <= k
        <3> HIDE DEF T
        <3> QED BY <2>a, WellOrder, Zenon
    <2>2. m # 0
        BY <1>2, <1>3, <2>1, Zenon
    <2>3. m \in 1 .. Len(s) /\ m \in 1 .. Len(r) /\ m - 1 \in 0 .. Len(s) /\ ~(m <= m - 1)
        BY <1>1, <2>1, <2>2
    <2>4. g[m - 1] = f[m - 1]
        BY <2>1, <2>3, Zenon
    <2>5. g[m] = g[m - 1] + s[m].latency /\ f[m] = f[m - 1] + s[m].latency
        BY <1>1, <1>2, <1>3, <2>3, Zenon
    <2> QED BY <2>1, <2>4, <2>5, Zenon
<1>5. Total(s) = f[Len(s)] /\ Total(r) = g[Len(r)]
    BY Zenon DEF Total, f, g
<1>6. g[Len(r)] = g[Len(s)] + x.latency
    <2>1. Len(r) \in 1 .. Len(r) /\ Len(r) - 1 = Len(s)
        BY <1>1
    <2>2. g[Len(r)] = g[Len(r) - 1] + r[Len(r)].latency
        BY <1>3, <2>1, Zenon
    <2> QED BY <1>1, <2>1, <2>2, Zenon
<1>7. Len(s) \in 0 .. Len(s)
    BY <1>1
<1> QED BY <1>2, <1>4, <1>5, <1>6, <1>7, Zenon DEF r

(* What an aggregate says is true of its samples. *)
StandsFor(l) ==
    /\ Timed(l.samples)
    /\ l.counter = Len(l.samples)
    /\ l.sumVal = Total(l.samples) /\ l.sumVal \in Int
    /\ l.counter > 0 =>
          /\ Greatest(l.maxVal, l.samples) /\ Least(l.minVal, l.samples)
          /\ l.maxVal \in Latencies /\ l.minVal \in Latencies
          /\ l.counter * l.minVal <= l.sumVal /\ l.sumVal <= l.counter * l.maxVal

(* NewAggLatency stands for no samples. *)
LEMMA NewStands == StandsFor(NewAggLatency)
<1> DEFINE l == NewAggLatency
<1>1. l.counter = 0 /\ l.sumVal = 0 /\ l.samples = <<>>
    BY Zenon DEF NewAggLatency
<1> HIDE DEF l
<1>2. Timed(l.samples) /\ Len(l.samples) = 0
    BY <1>1 DEF Timed
<1>3. Total(l.samples) = 0
    BY <1>2, TotalEmpty, Zenon
<1> QED BY <1>1, <1>2, <1>3 DEF StandsFor, l

(* AggLatency.Add keeps an aggregate true to its samples, the first one *)
(* included.                                                            *)
LEMMA AddStands ==
    ASSUME NEW l, StandsFor(l), NEW x \in Reading
    PROVE  StandsFor(Add(l, x))
<1> DEFINE a == Add(l, x)
           s == l.samples
           y == x.latency
<1>1. /\ a.counter = l.counter + 1 /\ a.sumVal = l.sumVal + y /\ a.samples = Append(s, x)
      /\ a.maxVal = IF l.maxVal < y \/ l.counter = 0 THEN y ELSE l.maxVal
      /\ a.minVal = IF l.minVal > y \/ l.counter = 0 THEN y ELSE l.minVal
    BY Zenon DEF Add
<1> HIDE DEF a
<1>2. y \in Latencies /\ y \in Int
    BY MetricsAssumption, Zenon DEF Reading
<1>3. /\ s \in Seq(Reading) /\ l.counter = Len(s) /\ l.counter \in Nat
      /\ l.sumVal = Total(s) /\ l.sumVal \in Int
    BY DEF StandsFor, Timed
<1>4. Timed(a.samples) /\ a.counter = Len(a.samples)
    BY <1>1, <1>3 DEF Timed
<1>5. Total(Append(s, x)) = Total(s) + y
    BY <1>3, TotalAppend, Zenon DEF Timed
<1>6. a.sumVal = Total(a.samples) /\ a.sumVal \in Int
    BY <1>1, <1>2, <1>3, <1>5
<1>7. /\ DOMAIN s = 1 .. l.counter /\ DOMAIN a.samples = 1 .. (l.counter + 1)
      /\ a.samples[l.counter + 1] = x
      /\ \A k \in 1 .. l.counter : a.samples[k] = s[k]
    BY <1>1, <1>3
<1>8. /\ Greatest(a.maxVal, a.samples) /\ Least(a.minVal, a.samples)
      /\ a.maxVal \in Latencies /\ a.minVal \in Latencies
      /\ a.counter * a.minVal <= a.sumVal /\ a.sumVal <= a.counter * a.maxVal
    <2>1. CASE l.counter = 0
        <3>1. a.maxVal = y /\ a.minVal = y /\ a.counter = 1
            BY <1>1, <2>1
        <3>2. Greatest(y, a.samples) /\ Least(y, a.samples)
            BY <1>2, <1>7, <2>1 DEF Greatest, Least
        <3>3. l.sumVal = 0
            <4>1. Timed(s) /\ Len(s) = 0
                BY <1>3, <2>1, Zenon DEF Timed
            <4> QED BY <1>3, <4>1, TotalEmpty, Zenon
        <3> QED BY <1>1, <1>2, <3>1, <3>2, <3>3
    <2>2. CASE l.counter > 0
        <3> DEFINE u == l.maxVal
                   v == l.minVal
                   c == l.counter
                   p == a.maxVal
                   q == a.minVal
        <3>1. /\ Greatest(u, s) /\ Least(v, s) /\ u \in Latencies /\ v \in Latencies
              /\ c * v <= l.sumVal /\ l.sumVal <= c * u
            BY <2>2, Zenon DEF StandsFor
        <3>2. u \in Int /\ v \in Int /\ c \in Nat
            BY <1>3, <3>1, MetricsAssumption, Zenon
        <3>3. p = (IF u < y THEN y ELSE u) /\ q = (IF v > y THEN y ELSE v)
            BY <1>1, <1>2, <2>2, <3>2
        <3>4. a.counter = c + 1 /\ a.sumVal = l.sumVal + y
            BY <1>1, Zenon
        <3> HIDE DEF u, v, c, p, q
        <3>5. /\ p \in Latencies /\ q \in Latencies /\ p \in Int /\ q \in Int
              /\ u <= p /\ y <= p /\ q <= v /\ q <= y
              /\ (p = u \/ p = y) /\ (q = v \/ q = y)
            BY <1>2, <3>1, <3>2, <3>3
        <3>6. Greatest(p, a.samples) /\ Least(q, a.samples)
            <4>1. \A k \in 1 .. c : s[k].latency \in Int /\ s[k].latency <= u /\ s[k].latency >= v
                <5> SUFFICES ASSUME NEW k \in 1 .. c
                             PROVE  s[k].latency \in Int /\ s[k].latency <= u /\ s[k].latency >= v
                    BY Zenon
                <5>1. s[k] \in Reading
                    BY <1>3 DEF c
                <5>2. s[k].latency <= u /\ s[k].latency >= v
                    BY <1>7, <3>1, Zenon DEF Greatest, Least, c
                <5> QED BY <5>1, <5>2, MetricsAssumption, Zenon DEF Reading
            <4>2. \A k \in 1 .. (c + 1) : a.samples[k].latency <= p /\ a.samples[k].latency >= q
                <5> SUFFICES ASSUME NEW k \in 1 .. (c + 1)
                             PROVE  a.samples[k].latency <= p /\ a.samples[k].latency >= q
                    BY Zenon
                <5>1. CASE k = c + 1
                    BY <1>7, <3>5, <5>1, <1>2, Zenon DEF c
                <5>2. CASE k # c + 1
                    <6>1. k \in 1 .. c
                        BY <3>2, <5>2
                    <6>2. a.samples[k] = s[k]
                        BY <1>7, <6>1, Zenon DEF c
                    <6>3. s[k].latency \in Int /\ s[k].latency <= u /\ s[k].latency >= v
                        BY <4>1, <6>1, Zenon
                    <6> QED BY <3>2, <3>5, <6>2, <6>3
                <5> QED BY <5>1, <5>2, Zenon
            <4>3. c + 1 \in 1 .. (c + 1) /\ \A k \in 1 .. c : k \in 1 .. (c + 1)
                BY <3>2
            <4>4. a.samples[c + 1].latency = y
                BY <1>7, Zenon DEF c
            <4>5. PICK k \in 1 .. c : s[k].latency = u
                BY <1>7, <3>1, Zenon DEF Greatest, c
            <4>6. PICK m \in 1 .. c : s[m].latency = v
                BY <1>7, <3>1, Zenon DEF Least, c
            <4>7. a.samples[k].latency = u /\ a.samples[m].latency = v
                BY <1>7, <4>5, <4>6, Zenon DEF c
            <4>8. DOMAIN a.samples = 1 .. (c + 1)
                BY <1>7, Zenon DEF c
            <4>9. \E j \in 1 .. (c + 1) : a.samples[j].latency = p
                BY <3>5, <4>3, <4>4, <4>7, Zenon
            <4>10. \E j \in 1 .. (c + 1) : a.samples[j].latency = q
                BY <3>5, <4>3, <4>4, <4>7, Zenon
            <4> QED BY <4>2, <4>8, <4>9, <4>10, Zenon DEF Greatest, Least
        <3>7. c * u <= c * p /\ c * q <= c * v
            BY <3>2, <3>5, MulMono, Zenon
        <3>8. /\ c * u \in Int /\ c * p \in Int /\ c * q \in Int /\ c * v \in Int
              /\ (c + 1) * p = c * p + p /\ (c + 1) * q = c * q + q
            BY <3>2, <3>5
        <3> DEFINE cu == c * u
                   cv == c * v
                   cp == c * p
                   cq == c * q
        <3>9. (c + 1) * q <= a.sumVal /\ a.sumVal <= (c + 1) * p
            <4>1. /\ cu \in Int /\ cv \in Int /\ cp \in Int /\ cq \in Int /\ cu <= cp /\ cq <= cv
                  /\ cv <= l.sumVal /\ l.sumVal <= cu
                  /\ (c + 1) * p = cp + p /\ (c + 1) * q = cq + q
                BY <3>1, <3>7, <3>8, Zenon
            <4> HIDE DEF cu, cv, cp, cq
            <4>2. cq + q <= a.sumVal /\ a.sumVal <= cp + p
                BY <1>2, <1>3, <3>4, <3>5, <4>1
            <4> QED BY <4>1, <4>2, Zenon
        <3> QED BY <3>4, <3>5, <3>6, <3>9, Zenon DEF p, q
    <2> QED BY <1>3, <2>1, <2>2
<1> QED BY <1>4, <1>6, <1>8, Zenon DEF StandsFor, a

(* The point of an aggregate that has samples is right. *)
LEMMA PointIsRight ==
    ASSUME NEW i, NEW t, NEW l, StandsFor(l), l.counter > 0
    PROVE  IsRight(translateToLatency(i, t, l))
<1> DEFINE p == translateToLatency(i, t, l)
           n == l.counter
           a == Quo(l.sumVal, n)
           M == MilliSecond
           u == l.maxVal
           v == l.minVal
<1>1. /\ p.avg = Quo(a, M) /\ p.max = Quo(u, M) /\ p.min = Quo(v, M) /\ p.samples = l.samples
    BY Zenon DEF translateToLatency, Avg
<1>2. /\ l.samples \in Seq(Reading) /\ n = Len(l.samples)
      /\ l.sumVal = Total(l.samples) /\ l.sumVal \in Int
      /\ Greatest(u, l.samples) /\ Least(v, l.samples) /\ u \in Latencies /\ v \in Latencies
      /\ n * v <= l.sumVal /\ l.sumVal <= n * u
    BY Zenon DEF StandsFor, Timed
<1>3. n \in Nat \ {0} /\ M \in Nat \ {0} /\ u \in Int /\ v \in Int
    <2>1. n \in Nat /\ n > 0
        BY <1>2
    <2>2. M \in Nat \ {0} /\ u \in Int /\ v \in Int
        BY <1>2, MetricsAssumption, Zenon
    <2> HIDE DEF n, M, u, v
    <2> QED BY <2>1, <2>2
<1> DEFINE s == l.sumVal
           w == Quo(a, M)
<1> HIDE DEF p, n, a, M, u, v, s, w
<1>4. s \in Int
    BY <1>2, Zenon DEF s
<1>5. a \in Int /\ s - n * a < n /\ n * a - s < n
    BY <1>3, <1>4, QuoFacts, Zenon DEF a, s
<1>6. w \in Int /\ a - M * w < M /\ M * w - a < M
    BY <1>3, <1>5, QuoFacts, Zenon DEF w
<1>7. v <= a /\ a <= u
    BY <1>2, <1>3, <1>4, QuoBetween, Zenon DEF a, s
<1>8. Quo(v, M) <= w /\ w <= Quo(u, M)
    BY <1>3, <1>5, <1>7, QuoMono, Zenon DEF w
<1>9. s - w * n * M < n * (M + 1) /\ -(s - w * n * M) < n * (M + 1)
    <2>1. M * w \in Int /\ a - M * w \in Int /\ M * w - a \in Int
        BY <1>3, <1>5, <1>6
    <2>2. n * (a - M * w) <= n * M /\ n * (M * w - a) <= n * M
        BY <1>3, <1>6, <2>1, MulMono
    <2> DEFINE z == M * w
    <2>3. w * n * M = n * z
        BY <1>3, <1>6
    <2>4. z \in Int
        BY <2>1, Zenon
    <2> HIDE DEF z
    <2>5. /\ n * (a - z) = n * a - n * z /\ n * (z - a) = n * z - n * a
          /\ n * (M + 1) = n * M + n
          /\ n * a \in Int /\ n * z \in Int /\ n * M \in Int
        BY <1>3, <1>5, <2>4
    <2>6. n * a - n * z <= n * M /\ n * z - n * a <= n * M
        BY <2>2, <2>5, Zenon DEF z
    <2> QED BY <1>3, <1>4, <1>5, <2>3, <2>5, <2>6
<1>10. /\ \E x \in Latencies : Greatest(x, p.samples) /\ p.max = Quo(x, M)
       /\ \E x \in Latencies : Least(x, p.samples) /\ p.min = Quo(x, M)
    BY <1>1, <1>2, Zenon
<1>11. p.min <= p.avg /\ p.avg <= p.max
    BY <1>1, <1>8, Zenon DEF w
<1>12. Len(p.samples) = n /\ Total(p.samples) = s /\ p.avg = w
    BY <1>1, <1>2, Zenon DEF s, w
<1> QED BY <1>9, <1>10, <1>11, <1>12, Zenon DEF IsRight, p, M

(* Aggregates that stand for their samples, maps of them, points that are *)
(* right, and the exports that carry such points.                         *)
Aggregates ==
    {l \in [counter : Nat, sumVal : Int, maxVal : Int, minVal : Int, samples : Seq(Reading)] :
        StandsFor(l)}
AggregateMaps == [Topics -> Aggregates]
RightPoints ==
    {p \in [measurer : Measurers, topic : Topics, avg : Int, max : Int, min : Int,
            samples : Seq(Reading)] : IsRight(p)}
Collecting == [at : {"collect"}, next : Measurers, points : SUBSET RightPoints]
Writing == [at : {"write"}, points : SUBSET RightPoints]

(* The invariant behind PointsAreRight: what is right stays right from the *)
(* map of a measurer to the bucket.                                        *)
RightInv ==
    /\ current \in [Measurers -> AggregateMaps]
    /\ history \in [Measurers -> Seq(AggregateMaps)]
    /\ latencies \in [Exports -> {Idle} \union Collecting \union Writing]
    /\ points \subseteq RightPoints
    /\ recorded \in Nat

(* The empty map of a measurer is right, ... *)
LEMMA NewMapIsRight == NewMap \in AggregateMaps
<1>1. NewAggLatency \in Aggregates
    BY NewStands DEF NewAggLatency, Aggregates
<1> QED BY <1>1, Zenon DEF NewMap, AggregateMaps

(* ... and Add keeps a map right. *)
LEMMA AddIsRight ==
    ASSUME NEW l \in Aggregates, NEW x \in Reading
    PROVE  Add(l, x) \in Aggregates
<1>1. /\ l.counter \in Nat /\ l.sumVal \in Int /\ l.maxVal \in Int /\ l.minVal \in Int
      /\ l.samples \in Seq(Reading) /\ StandsFor(l)
    BY Zenon DEF Aggregates
<1>2. x.latency \in Int
    BY MetricsAssumption, Zenon DEF Reading
<1>3. Append(l.samples, x) \in Seq(Reading)
    BY <1>1
<1>4. Add(l, x) \in [counter : Nat, sumVal : Int, maxVal : Int, minVal : Int, samples : Seq(Reading)]
    <2> HIDE DEF Reading
    <2> QED BY <1>1, <1>2, <1>3 DEF Add
<1>5. StandsFor(Add(l, x))
    BY <1>1, AddStands, Zenon
<1> QED BY <1>4, <1>5, Zenon DEF Aggregates

(* The points of a history are right. *)
LEMMA TranslatedAreRight ==
    ASSUME NEW i \in Measurers, NEW h \in Seq(AggregateMaps)
    PROVE  TranslateToLatencies(i, h) \subseteq RightPoints
<1> SUFFICES ASSUME NEW x \in (DOMAIN h) \X Topics, h[x[1]][x[2]].counter > 0
             PROVE  translateToLatency(i, x[2], h[x[1]][x[2]]) \in RightPoints
    BY Zenon DEF TranslateToLatencies
<1> DEFINE l == h[x[1]][x[2]]
           p == translateToLatency(i, x[2], l)
<1>1. x[1] \in DOMAIN h /\ x[2] \in Topics
    BY Zenon
<1>2. h[x[1]] \in AggregateMaps
    BY <1>1
<1>3. l \in Aggregates
    BY <1>1, <1>2, Zenon DEF AggregateMaps
<1>4. /\ l.counter \in Nat /\ l.sumVal \in Int /\ l.maxVal \in Int /\ l.minVal \in Int
      /\ l.samples \in Seq(Reading) /\ StandsFor(l)
    <2> HIDE DEF l
    <2> QED BY <1>3, Zenon DEF Aggregates
<1> HIDE DEF l
<1>5. l.counter \in Nat \ {0} /\ MilliSecond \in Nat \ {0} /\ l.counter > 0
    BY <1>4, MetricsAssumption DEF l
<1>6. Quo(l.sumVal, l.counter) \in Int
    BY <1>4, <1>5, QuoFacts, Zenon
<1>7. /\ Quo(Avg(l), MilliSecond) \in Int
      /\ Quo(l.maxVal, MilliSecond) \in Int /\ Quo(l.minVal, MilliSecond) \in Int
    BY <1>4, <1>5, <1>6, QuoFacts, Zenon DEF Avg
<1>8. p \in [measurer : Measurers, topic : Topics, avg : Int, max : Int, min : Int,
             samples : Seq(Reading)]
    <2> DEFINE S == Seq(Reading)
    <2>1. l.samples \in S
        BY <1>4, Zenon
    <2> HIDE DEF S
    <2>2. p \in [measurer : Measurers, topic : Topics, avg : Int, max : Int, min : Int, samples : S]
        BY <1>1, <1>7, <2>1, Zenon DEF translateToLatency
    <2> QED BY <2>2, Zenon DEF S
<1>9. IsRight(p)
    BY <1>4, <1>5, PointIsRight, Zenon
<1> QED BY <1>8, <1>9, Zenon DEF RightPoints, l

(* The invariant holds when the process starts, ... *)
LEMMA RightInit == Init => RightInv
<1> SUFFICES ASSUME Init PROVE RightInv
    BY Zenon
<1>1. current \in [Measurers -> AggregateMaps]
    BY NewMapIsRight, Zenon DEF Init
<1>2. history \in [Measurers -> Seq(AggregateMaps)]
    BY DEF Init
<1>3. latencies \in [Exports -> {Idle} \union Collecting \union Writing]
    BY Zenon DEF Init
<1>4. points \subseteq RightPoints /\ recorded \in Nat
    BY Zenon DEF Init
<1> QED BY <1>1, <1>2, <1>3, <1>4, Zenon DEF RightInv

(* What an export in one of its states is. *)
LEMMA ExportFacts ==
    ASSUME RightInv, NEW e \in Exports
    PROVE  /\ latencies[e].at = "collect" =>
                 latencies[e].next \in Measurers /\ latencies[e].points \subseteq RightPoints
           /\ latencies[e].at = "write" => latencies[e].points \subseteq RightPoints
<1>1. latencies[e] \in {Idle} \union Collecting \union Writing
    BY Zenon DEF RightInv
<1>2. CASE latencies[e] = Idle
    BY <1>2 DEF Idle
<1>3. CASE latencies[e] \in Collecting
    BY <1>3, Zenon DEF Collecting
<1>4. CASE latencies[e] \in Writing
    BY <1>4, Zenon DEF Writing
<1> QED BY <1>1, <1>2, <1>3, <1>4, Zenon

(* ... and every step keeps it. *)
LEMMA RightStep == RightInv /\ [Next]_vars => RightInv'
<1> SUFFICES ASSUME RightInv, [Next]_vars PROVE RightInv'
    BY Zenon
<1>0. /\ current \in [Measurers -> AggregateMaps]
      /\ history \in [Measurers -> Seq(AggregateMaps)]
      /\ latencies \in [Exports -> {Idle} \union Collecting \union Writing]
      /\ points \subseteq RightPoints
      /\ recorded \in Nat
    BY Zenon DEF RightInv
<1>1. ASSUME NEW i \in Measurers, NEW t \in Topics, NEW y \in Latencies, RecordLatency(i, t, y)
      PROVE  RightInv'
    <2> DEFINE x == [id |-> recorded + 1, latency |-> y]
    <2>1. x \in Reading
        BY <1>0 DEF Reading
    <2> HIDE DEF x
    <2>2. current' = [current EXCEPT ![i][t] = Add(@, x)]
        BY <1>1, Zenon DEF RecordLatency, x
    <2>3. current[i] \in AggregateMaps /\ current[i][t] \in Aggregates
        BY <1>0, Zenon DEF AggregateMaps
    <2>4. Add(current[i][t], x) \in Aggregates
        BY <2>1, <2>3, AddIsRight, Zenon
    <2>5. [current[i] EXCEPT ![t] = Add(current[i][t], x)] \in AggregateMaps
        BY <2>3, <2>4, Zenon DEF AggregateMaps
    <2>6. current' \in [Measurers -> AggregateMaps]
        BY <1>0, <2>2, <2>5, Zenon
    <2>7. recorded' \in Nat
        BY <1>0, <1>1 DEF RecordLatency
    <2>8. UNCHANGED <<history, latencies, points>>
        BY <1>1, Zenon DEF RecordLatency, exportVars
    <2> QED BY <1>0, <2>6, <2>7, <2>8, Zenon DEF RightInv
<1>2. ASSUME NEW i \in Measurers, aggregate(i)
      PROVE  RightInv'
    <2>1. /\ history' = [history EXCEPT ![i] = Append(@, current[i])]
          /\ current' = [current EXCEPT ![i] = NewMap]
          /\ UNCHANGED <<latencies, points, recorded>>
        BY <1>2, Zenon DEF aggregate, exportVars
    <2>2. current[i] \in AggregateMaps /\ history[i] \in Seq(AggregateMaps)
        BY <1>0, Zenon
    <2>3. Append(history[i], current[i]) \in Seq(AggregateMaps)
        BY <2>2
    <2>4. history' \in [Measurers -> Seq(AggregateMaps)]
        BY <1>0, <2>1, <2>3, Zenon
    <2>5. current' \in [Measurers -> AggregateMaps]
        BY <1>0, <2>1, NewMapIsRight, Zenon
    <2> QED BY <1>0, <2>1, <2>4, <2>5, Zenon DEF RightInv
<1>3. CASE Discard
    <2>1. history' = [i \in Measurers |-> <<>>] /\ UNCHANGED <<current, recorded, latencies, points>>
        BY <1>3, Zenon DEF Discard
    <2>2. history' \in [Measurers -> Seq(AggregateMaps)]
        BY <2>1
    <2> QED BY <1>0, <2>1, <2>2, Zenon DEF RightInv
<1>4. ASSUME NEW e \in Exports, NEW f \in Exports, Tick(e, f)
      PROVE  RightInv'
    <2> DEFINE r == [at |-> "collect", next |-> 1, points |-> {}]
    <2>1. r \in Collecting
        BY MetricsAssumption DEF Collecting, Measurers
    <2> HIDE DEF r
    <2>2. latencies' = [latencies EXCEPT ![e] = r] /\ UNCHANGED <<current, history, recorded, points>>
        BY <1>4, Zenon DEF Tick, measurerVars, r
    <2>3. latencies' \in [Exports -> {Idle} \union Collecting \union Writing]
        BY <1>0, <2>1, <2>2, Zenon
    <2> QED BY <1>0, <2>2, <2>3, Zenon DEF RightInv
<1>5. ASSUME NEW e \in Exports, collectLatencies(e)
      PROVE  RightInv'
    <2> DEFINE i == latencies[e].next
               ps == latencies[e].points \union TranslateToLatencies(i, history[i])
               r == CASE i < N                -> [at |-> "collect", next |-> i + 1, points |-> ps]
                      [] i = N /\ ps # {}   -> [at |-> "write", points |-> ps]
                      [] i = N /\ ps = {}   -> Idle
    <2>1. /\ latencies[e].at = "collect"
          /\ history' = [history EXCEPT ![i] = <<>>]
          /\ latencies' = [latencies EXCEPT ![e] = r]
          /\ UNCHANGED <<current, recorded, points>>
        BY <1>5, Zenon DEF collectLatencies
    <2>2. i \in Measurers /\ latencies[e].points \subseteq RightPoints
        BY <2>1, ExportFacts, Zenon
    <2>3. TranslateToLatencies(i, history[i]) \subseteq RightPoints
        BY <1>0, <2>2, TranslatedAreRight, Zenon
    <2>4. ps \subseteq RightPoints
        BY <2>2, <2>3, Zenon
    <2> HIDE DEF i, ps
    <2>5. r \in {Idle} \union Collecting \union Writing
        <3>1. CASE i < N
            BY <2>2, <2>4, <3>1, MetricsAssumption DEF Measurers, Collecting
        <3>2. CASE i = N /\ ps # {}
            BY <2>4, <3>2, MetricsAssumption DEF Writing
        <3>3. CASE i = N /\ ps = {}
            BY <3>3, MetricsAssumption
        <3>4. i < N \/ i = N
            BY <2>2, MetricsAssumption DEF Measurers
        <3> QED BY <3>1, <3>2, <3>3, <3>4, Zenon
    <2> HIDE DEF r
    <2>6. latencies' \in [Exports -> {Idle} \union Collecting \union Writing]
        BY <1>0, <2>1, <2>5, Zenon
    <2>7. history' \in [Measurers -> Seq(AggregateMaps)]
        <3>1. <<>> \in Seq(AggregateMaps)
            OBVIOUS
        <3> QED BY <1>0, <2>1, <3>1, Zenon
    <2> QED BY <1>0, <2>1, <2>6, <2>7, Zenon DEF RightInv
<1>6. ASSUME NEW e \in Exports, NEW ok \in BOOLEAN, exportLatencies(e, ok)
      PROVE  RightInv'
    <2>1. /\ latencies[e].at = "write"
          /\ points' = points \union latencies[e].points \/ points' = points
          /\ latencies' = [latencies EXCEPT ![e] = Idle]
          /\ UNCHANGED <<current, history, recorded>>
        BY <1>6, Zenon DEF exportLatencies, measurerVars
    <2>2. latencies[e].points \subseteq RightPoints
        BY <2>1, ExportFacts, Zenon
    <2>3. points' \subseteq RightPoints
        BY <1>0, <2>1, <2>2, Zenon
    <2>4. latencies' \in [Exports -> {Idle} \union Collecting \union Writing]
        BY <1>0, <2>1, Zenon
    <2> QED BY <1>0, <2>1, <2>3, <2>4, Zenon DEF RightInv
<1>7. CASE UNCHANGED <<current, history, latencies, points, recorded>>
    BY <1>0, <1>7, Zenon DEF RightInv
<1>8. ASSUME NEW e \in Exports, TakeQueue(e) \/ \E ok \in BOOLEAN : exportCustomMetrics(e, ok)
      PROVE  RightInv'
    BY <1>7, <1>8, Zenon DEF TakeQueue, exportCustomMetrics, measurerVars, exportVars
<1>9. CASE (\E valid \in BOOLEAN : WriteCustomMetrics(valid)) \/ Cancel \/ \E x \in running : Stop(x)
    BY <1>7, <1>9, Zenon DEF WriteCustomMetrics, Cancel, Stop, measurerVars, exportVars
<1>10. CASE UNCHANGED vars
    BY <1>7, <1>10, Zenon DEF vars, measurerVars, exportVars
<1> QED BY <1>1, <1>2, <1>3, <1>4, <1>5, <1>6, <1>8, <1>9, <1>10, Zenon DEF Next

(* Aggregates and points are right in every state of every behaviour. *)
THEOREM RightAlways == Spec => []RightInv
<1> QED BY RightInit, RightStep, PTL DEF Spec

(* Every point in the bucket is right about the samples it stands for, its *)
(* roundings included, for every set of latencies and every millisecond.   *)
THEOREM PointsRight == Spec => []PointsAreRight
<1>1. RightInv => PointsAreRight
    BY Zenon DEF RightInv, PointsAreRight, RightPoints
<1> QED BY <1>1, RightAlways, PTL

-----------------------------------------------------------------------------

(* A set with one element; and five sets of which one has an element, and  *)
(* only one.                                                               *)
One(A) == \E a \in A : A = {a}
OneOf(A, B, C, D, E) ==
    \/ One(A) /\ B = {} /\ C = {} /\ D = {} /\ E = {}
    \/ A = {} /\ One(B) /\ C = {} /\ D = {} /\ E = {}
    \/ A = {} /\ B = {} /\ One(C) /\ D = {} /\ E = {}
    \/ A = {} /\ B = {} /\ C = {} /\ One(D) /\ E = {}
    \/ A = {} /\ B = {} /\ C = {} /\ D = {} /\ One(E)
NoneOf(A, B, C, D, E) == A = {} /\ B = {} /\ C = {} /\ D = {} /\ E = {}

(* The element of A, if it has one, may go to B; nothing else changes. *)
Moves(A, B, A2, B2) ==
    /\ A = {} => A2 = {} /\ B2 = B
    /\ One(A) /\ B = {} => (A2 = A /\ B2 = B) \/ (A2 = {} /\ One(B2))

(* Where sample n is, for maps c, histories h, exports x and points P. *)
MapHas(c, i, t, n) == i \in Measurers /\ t \in Topics /\ n \in IDs(c[i][t].samples)
HistoryHas(h, i, k, t, n) ==
    i \in Measurers /\ k \in DOMAIN h[i] /\ t \in Topics /\ n \in IDs(h[i][k][t].samples)
ExportHas(x, e, p, n) == e \in Exports /\ x[e] # Idle /\ p \in x[e].points /\ n \in IDs(p.samples)
MapsOf(c, n) == {x \in Measurers \X Topics : n \in IDs(c[x[1]][x[2]].samples)}
HistoryOf(h, n) ==
    UNION {{i} \X {x \in (DOMAIN h[i]) \X Topics : n \in IDs(h[i][x[1]][x[2]].samples)} :
              i \in Measurers}
ExportsOf(x, n) ==
    UNION {{e} \X {p \in x[e].points : n \in IDs(p.samples)} : e \in {y \in Exports : x[y] # Idle}}
BucketOf(P, n) == {p \in P : n \in IDs(p.samples)}
LostOf(L, n) == {n} \intersect L

(* Pairs and triples, by name. *)
Pair(a, b) == <<a, b>>
Triple(a, b, c) == <<a, <<b, c>>>>

(* Pairs and triples are equal when their parts are. *)
LEMMA Pairs ==
    /\ \A a, b, c, d : Pair(a, b) = Pair(c, d) => a = c /\ b = d
    /\ \A a, b, c, d, e, f : Triple(a, b, c) = Triple(d, e, f) => a = d /\ b = e /\ c = f
BY Zenon DEF Pair, Triple

(* The samples in the maps, one by one, ... *)
LEMMA InMapsOf ==
    ASSUME NEW c, NEW n
    PROVE  /\ \A i, t : MapHas(c, i, t, n) => Pair(i, t) \in MapsOf(c, n)
           /\ \A z \in MapsOf(c, n) : \E i, t : MapHas(c, i, t, n) /\ z = Pair(i, t)
<1>1. \A i, t : MapHas(c, i, t, n) => Pair(i, t) \in MapsOf(c, n)
    BY Zenon DEF MapsOf, MapHas, Pair
<1>2. ASSUME NEW z \in MapsOf(c, n)
      PROVE  \E i, t : MapHas(c, i, t, n) /\ z = Pair(i, t)
    BY DEF MapsOf, MapHas, Pair
<1> QED BY <1>1, <1>2, Zenon

(* ... in the histories, ... *)
LEMMA InHistoryOf ==
    ASSUME NEW h, NEW n
    PROVE  /\ \A i, k, t : HistoryHas(h, i, k, t, n) => Triple(i, k, t) \in HistoryOf(h, n)
           /\ \A z \in HistoryOf(h, n) :
                 \E i, k, t : HistoryHas(h, i, k, t, n) /\ z = Triple(i, k, t)
<1>1. ASSUME NEW z \in HistoryOf(h, n)
      PROVE  \E i, k, t : HistoryHas(h, i, k, t, n) /\ z = Triple(i, k, t)
    <2>1. PICK i \in Measurers :
              z \in {i} \X {x \in (DOMAIN h[i]) \X Topics : n \in IDs(h[i][x[1]][x[2]].samples)}
        BY <1>1, Zenon DEF HistoryOf
    <2>2. PICK x \in (DOMAIN h[i]) \X Topics : n \in IDs(h[i][x[1]][x[2]].samples) /\ z = <<i, x>>
        BY <2>1
    <2>3. x[1] \in DOMAIN h[i] /\ x[2] \in Topics /\ z = Triple(i, x[1], x[2])
        BY <2>2 DEF Triple
    <2> QED BY <2>2, <2>3, Zenon DEF HistoryHas
<1>2. ASSUME NEW i, NEW k, NEW t, HistoryHas(h, i, k, t, n)
      PROVE  Triple(i, k, t) \in HistoryOf(h, n)
    <2>1. /\ i \in Measurers /\ k \in DOMAIN h[i] /\ t \in Topics
          /\ n \in IDs(h[i][k][t].samples)
        BY <1>2, Zenon DEF HistoryHas
    <2> DEFINE S == {x \in (DOMAIN h[i]) \X Topics : n \in IDs(h[i][x[1]][x[2]].samples)}
    <2>2. <<k, t>> \in S
        BY <2>1, Zenon
    <2> HIDE DEF S
    <2>3. Triple(i, k, t) \in {i} \X S
        BY <2>2, Zenon DEF Triple
    <2> QED BY <2>1, <2>3, Zenon DEF HistoryOf, S
<1> QED BY <1>1, <1>2, Zenon

(* ... and in the exports. *)
LEMMA InExportsOf ==
    ASSUME NEW x, NEW n
    PROVE  /\ \A e, p : ExportHas(x, e, p, n) => Pair(e, p) \in ExportsOf(x, n)
           /\ \A z \in ExportsOf(x, n) : \E e, p : ExportHas(x, e, p, n) /\ z = Pair(e, p)
<1>1. ASSUME NEW z \in ExportsOf(x, n)
      PROVE  \E e, p : ExportHas(x, e, p, n) /\ z = Pair(e, p)
    <2>1. PICK e \in Exports : x[e] # Idle /\ z \in {e} \X {p \in x[e].points : n \in IDs(p.samples)}
        BY <1>1, Zenon DEF ExportsOf
    <2>2. PICK p \in x[e].points : n \in IDs(p.samples) /\ z = Pair(e, p)
        BY <2>1 DEF Pair
    <2> QED BY <2>1, <2>2, Zenon DEF ExportHas
<1>2. ASSUME NEW e, NEW p, ExportHas(x, e, p, n)
      PROVE  Pair(e, p) \in ExportsOf(x, n)
    <2>1. e \in Exports /\ x[e] # Idle /\ p \in x[e].points /\ n \in IDs(p.samples)
        BY <1>2, Zenon DEF ExportHas
    <2> DEFINE S == {q \in x[e].points : n \in IDs(q.samples)}
    <2>2. p \in S
        BY <2>1, Zenon
    <2> HIDE DEF S
    <2>3. Pair(e, p) \in {e} \X S
        BY <2>2, Zenon DEF Pair
    <2> QED BY <2>1, <2>3, Zenon DEF ExportsOf, S
<1> QED BY <1>1, <1>2, Zenon

(* The numbers of samples. *)
LEMMA IDsAppend ==
    ASSUME NEW s \in Seq(Reading), NEW x \in Reading
    PROVE  IDs(Append(s, x)) = IDs(s) \union {x.id}
<1> DEFINE r == Append(s, x)
<1>1. /\ Len(s) \in Nat /\ DOMAIN s = 1 .. Len(s) /\ DOMAIN r = 1 .. (Len(s) + 1)
      /\ r[Len(s) + 1] = x /\ \A k \in 1 .. Len(s) : r[k] = s[k]
    OBVIOUS
<1> HIDE DEF r
<1>2. /\ Len(s) + 1 \in 1 .. (Len(s) + 1)
      /\ \A k \in 1 .. (Len(s) + 1) : k \in 1 .. Len(s) \/ k = Len(s) + 1
      /\ \A k \in 1 .. Len(s) : k \in 1 .. (Len(s) + 1)
    BY <1>1
<1>3. ASSUME NEW n \in IDs(r) PROVE n \in IDs(s) \union {x.id}
    <2>1. PICK k \in 1 .. (Len(s) + 1) : n = r[k].id
        BY <1>1, <1>3, Zenon DEF IDs
    <2> QED BY <1>1, <1>2, <2>1, Zenon DEF IDs
<1>4. ASSUME NEW n \in IDs(s) PROVE n \in IDs(r)
    BY <1>1, <1>2, Zenon DEF IDs
<1>5. x.id \in IDs(r)
    BY <1>1, <1>2, Zenon DEF IDs
<1> QED BY <1>3, <1>4, <1>5, Zenon DEF r

(* A new map has no samples. *)
LEMMA IDsOfNew ==
    ASSUME NEW t \in Topics
    PROVE  IDs(NewMap[t].samples) = {}
BY DEF IDs, NewMap, NewAggLatency

(* An aggregate with a sample has counted it. *)
LEMMA CountedSample ==
    ASSUME NEW l \in Aggregates, NEW n \in IDs(l.samples)
    PROVE  l.counter > 0
<1>1. l.samples \in Seq(Reading) /\ l.counter = Len(l.samples)
    BY Zenon DEF Aggregates, StandsFor, Timed
<1>2. PICK k : k \in DOMAIN l.samples
    BY Zenon DEF IDs
<1> DEFINE s == l.samples
<1> HIDE DEF s
<1>3. s \in Seq(Reading) /\ k \in DOMAIN s
    BY <1>1, <1>2, Zenon DEF s
<1>4. Len(s) > 0
    BY <1>3
<1> QED BY <1>1, <1>4, Zenon DEF s

(* None or one of the maps has a sample. *)
LEMMA MapsFacts ==
    ASSUME NEW c, NEW n
    PROVE  /\ MapsOf(c, n) = {} <=> \A i, t : ~MapHas(c, i, t, n)
           /\ One(MapsOf(c, n)) <=>
                 \E i, t : /\ MapHas(c, i, t, n)
                         /\ \A j, u : MapHas(c, j, u, n) => j = i /\ u = t
<1>1. \A i, t : MapHas(c, i, t, n) => Pair(i, t) \in MapsOf(c, n)
    BY InMapsOf, Zenon
<1>2. \A z \in MapsOf(c, n) : \E i, t : MapHas(c, i, t, n) /\ z = Pair(i, t)
    BY InMapsOf
<1>3. ASSUME One(MapsOf(c, n))
      PROVE  \E i, t : /\ MapHas(c, i, t, n)
                     /\ \A j, u : MapHas(c, j, u, n) => j = i /\ u = t
    <2>1. PICK z \in MapsOf(c, n) : \A y \in MapsOf(c, n) : y = z
        BY <1>3, Zenon DEF One
    <2>2. PICK i, t : MapHas(c, i, t, n) /\ z = Pair(i, t)
        BY <1>2, <2>1, Zenon
    <2>3. \A j, u : MapHas(c, j, u, n) => Pair(j, u) = Pair(i, t)
        BY <1>1, <2>1, <2>2, Zenon
    <2>4. ASSUME NEW j, NEW u, MapHas(c, j, u, n)
          PROVE  j = i /\ u = t
        <3>1. Pair(j, u) = Pair(i, t)
            BY <2>3, <2>4, Zenon
        <3> QED BY <3>1, Pairs
    <2> QED BY <2>2, <2>4
<1>4. ASSUME NEW i, NEW t, MapHas(c, i, t, n),
             \A j, u : MapHas(c, j, u, n) => j = i /\ u = t
      PROVE  One(MapsOf(c, n))
    <2>1. Pair(i, t) \in MapsOf(c, n)
        BY <1>1, <1>4, Zenon
    <2>2. \A z \in MapsOf(c, n) : z = Pair(i, t)
        BY <1>2, <1>4, Zenon
    <2> QED BY <2>1, <2>2, Zenon DEF One
<1>5. MapsOf(c, n) = {} <=> \A i, t : ~MapHas(c, i, t, n)
    BY <1>1, <1>2, Zenon
<1> QED BY <1>3, <1>4, <1>5, Zenon

(* Maps that have a sample in the same places. *)
LEMMA SameMapsOf ==
    ASSUME NEW c, NEW c2, NEW n,
           \A i, t : MapHas(c2, i, t, n) <=> MapHas(c, i, t, n)
    PROVE  MapsOf(c2, n) = MapsOf(c, n)
<1>1. /\ \A i, t : MapHas(c, i, t, n) => Pair(i, t) \in MapsOf(c, n)
      /\ \A i, t : MapHas(c2, i, t, n) => Pair(i, t) \in MapsOf(c2, n)
    BY InMapsOf, Zenon
<1>2. /\ \A z \in MapsOf(c, n) : \E i, t : MapHas(c, i, t, n) /\ z = Pair(i, t)
      /\ \A z \in MapsOf(c2, n) : \E i, t : MapHas(c2, i, t, n) /\ z = Pair(i, t)
    BY InMapsOf
<1>3. ASSUME NEW z \in MapsOf(c, n) PROVE z \in MapsOf(c2, n)
    <2>1. PICK i, t : MapHas(c, i, t, n) /\ z = Pair(i, t)
        BY <1>2, Zenon
    <2>2. Pair(i, t) \in MapsOf(c2, n)
        BY <1>1, <2>1, Zenon
    <2> QED BY <2>1, <2>2, Zenon
<1>4. ASSUME NEW z \in MapsOf(c2, n) PROVE z \in MapsOf(c, n)
    <2>1. PICK i, t : MapHas(c2, i, t, n) /\ z = Pair(i, t)
        BY <1>2, Zenon
    <2>2. Pair(i, t) \in MapsOf(c, n)
        BY <1>1, <2>1, Zenon
    <2> QED BY <2>1, <2>2, Zenon
<1> QED BY <1>3, <1>4, Zenon

(* None or one of the aggregates in the histories has a sample. *)
LEMMA HistoryFacts ==
    ASSUME NEW h, NEW n
    PROVE  /\ HistoryOf(h, n) = {} <=> \A i, k, t : ~HistoryHas(h, i, k, t, n)
           /\ One(HistoryOf(h, n)) <=>
                 \E i, k, t : /\ HistoryHas(h, i, k, t, n)
                         /\ \A j, m, u : HistoryHas(h, j, m, u, n) => j = i /\ m = k /\ u = t
<1>1. \A i, k, t : HistoryHas(h, i, k, t, n) => Triple(i, k, t) \in HistoryOf(h, n)
    BY InHistoryOf, Zenon
<1>2. \A z \in HistoryOf(h, n) : \E i, k, t : HistoryHas(h, i, k, t, n) /\ z = Triple(i, k, t)
    BY InHistoryOf
<1>3. ASSUME One(HistoryOf(h, n))
      PROVE  \E i, k, t : /\ HistoryHas(h, i, k, t, n)
                     /\ \A j, m, u : HistoryHas(h, j, m, u, n) => j = i /\ m = k /\ u = t
    <2>1. PICK z \in HistoryOf(h, n) : \A y \in HistoryOf(h, n) : y = z
        BY <1>3, Zenon DEF One
    <2>2. PICK i, k, t : HistoryHas(h, i, k, t, n) /\ z = Triple(i, k, t)
        BY <1>2, <2>1, Zenon
    <2>3. \A j, m, u : HistoryHas(h, j, m, u, n) => Triple(j, m, u) = Triple(i, k, t)
        BY <1>1, <2>1, <2>2, Zenon
    <2>4. ASSUME NEW j, NEW m, NEW u, HistoryHas(h, j, m, u, n)
          PROVE  j = i /\ m = k /\ u = t
        <3>1. Triple(j, m, u) = Triple(i, k, t)
            BY <2>3, <2>4, Zenon
        <3> QED BY <3>1, Pairs
    <2> QED BY <2>2, <2>4
<1>4. ASSUME NEW i, NEW k, NEW t, HistoryHas(h, i, k, t, n),
             \A j, m, u : HistoryHas(h, j, m, u, n) => j = i /\ m = k /\ u = t
      PROVE  One(HistoryOf(h, n))
    <2>1. Triple(i, k, t) \in HistoryOf(h, n)
        BY <1>1, <1>4, Zenon
    <2>2. ASSUME NEW z \in HistoryOf(h, n) PROVE z = Triple(i, k, t)
        <3>1. PICK j, m, u : HistoryHas(h, j, m, u, n) /\ z = Triple(j, m, u)
            BY <1>2, Zenon
        <3>2. j = i /\ m = k /\ u = t
            BY <1>4, <3>1, Zenon
        <3> QED BY <3>1, <3>2, Zenon
    <2> QED BY <2>1, <2>2, Zenon DEF One
<1>5. HistoryOf(h, n) = {} <=> \A i, k, t : ~HistoryHas(h, i, k, t, n)
    BY <1>1, <1>2, Zenon
<1> QED BY <1>3, <1>4, <1>5, Zenon

(* Histories that have a sample in the same places. *)
LEMMA SameHistoryOf ==
    ASSUME NEW h, NEW h2, NEW n,
           \A i, k, t : HistoryHas(h2, i, k, t, n) <=> HistoryHas(h, i, k, t, n)
    PROVE  HistoryOf(h2, n) = HistoryOf(h, n)
<1>1. /\ \A i, k, t : HistoryHas(h, i, k, t, n) => Triple(i, k, t) \in HistoryOf(h, n)
      /\ \A i, k, t : HistoryHas(h2, i, k, t, n) => Triple(i, k, t) \in HistoryOf(h2, n)
    BY InHistoryOf, Zenon
<1>2. /\ \A z \in HistoryOf(h, n) : \E i, k, t : HistoryHas(h, i, k, t, n) /\ z = Triple(i, k, t)
      /\ \A z \in HistoryOf(h2, n) : \E i, k, t : HistoryHas(h2, i, k, t, n) /\ z = Triple(i, k, t)
    BY InHistoryOf
<1>3. ASSUME NEW z \in HistoryOf(h, n) PROVE z \in HistoryOf(h2, n)
    <2>1. PICK i, k, t : HistoryHas(h, i, k, t, n) /\ z = Triple(i, k, t)
        BY <1>2, Zenon
    <2>2. Triple(i, k, t) \in HistoryOf(h2, n)
        BY <1>1, <2>1, Zenon
    <2> QED BY <2>1, <2>2, Zenon
<1>4. ASSUME NEW z \in HistoryOf(h2, n) PROVE z \in HistoryOf(h, n)
    <2>1. PICK i, k, t : HistoryHas(h2, i, k, t, n) /\ z = Triple(i, k, t)
        BY <1>2, Zenon
    <2>2. Triple(i, k, t) \in HistoryOf(h, n)
        BY <1>1, <2>1, Zenon
    <2> QED BY <2>1, <2>2, Zenon
<1> QED BY <1>3, <1>4, Zenon

(* None or one of the points of the exports has a sample. *)
LEMMA ExportsFacts ==
    ASSUME NEW x, NEW n
    PROVE  /\ ExportsOf(x, n) = {} <=> \A e, p : ~ExportHas(x, e, p, n)
           /\ One(ExportsOf(x, n)) <=>
                 \E e, p : /\ ExportHas(x, e, p, n)
                         /\ \A f, q : ExportHas(x, f, q, n) => f = e /\ q = p
<1>1. \A e, p : ExportHas(x, e, p, n) => Pair(e, p) \in ExportsOf(x, n)
    BY InExportsOf, Zenon
<1>2. \A z \in ExportsOf(x, n) : \E e, p : ExportHas(x, e, p, n) /\ z = Pair(e, p)
    BY InExportsOf
<1>3. ASSUME One(ExportsOf(x, n))
      PROVE  \E e, p : /\ ExportHas(x, e, p, n)
                     /\ \A f, q : ExportHas(x, f, q, n) => f = e /\ q = p
    <2>1. PICK z \in ExportsOf(x, n) : \A y \in ExportsOf(x, n) : y = z
        BY <1>3, Zenon DEF One
    <2>2. PICK e, p : ExportHas(x, e, p, n) /\ z = Pair(e, p)
        BY <1>2, <2>1, Zenon
    <2>3. \A f, q : ExportHas(x, f, q, n) => Pair(f, q) = Pair(e, p)
        BY <1>1, <2>1, <2>2, Zenon
    <2>4. ASSUME NEW f, NEW q, ExportHas(x, f, q, n)
          PROVE  f = e /\ q = p
        <3>1. Pair(f, q) = Pair(e, p)
            BY <2>3, <2>4, Zenon
        <3> QED BY <3>1, Pairs
    <2> QED BY <2>2, <2>4
<1>4. ASSUME NEW e, NEW p, ExportHas(x, e, p, n),
             \A f, q : ExportHas(x, f, q, n) => f = e /\ q = p
      PROVE  One(ExportsOf(x, n))
    <2>1. Pair(e, p) \in ExportsOf(x, n)
        BY <1>1, <1>4, Zenon
    <2>2. \A z \in ExportsOf(x, n) : z = Pair(e, p)
        BY <1>2, <1>4, Zenon
    <2> QED BY <2>1, <2>2, Zenon DEF One
<1>5. ExportsOf(x, n) = {} <=> \A e, p : ~ExportHas(x, e, p, n)
    BY <1>1, <1>2, Zenon
<1> QED BY <1>3, <1>4, <1>5, Zenon

(* Exports that have a sample in the same points. *)
LEMMA SameExportsOf ==
    ASSUME NEW x, NEW x2, NEW n,
           \A e, p : ExportHas(x2, e, p, n) <=> ExportHas(x, e, p, n)
    PROVE  ExportsOf(x2, n) = ExportsOf(x, n)
<1>1. /\ \A e, p : ExportHas(x, e, p, n) => Pair(e, p) \in ExportsOf(x, n)
      /\ \A e, p : ExportHas(x2, e, p, n) => Pair(e, p) \in ExportsOf(x2, n)
    BY InExportsOf, Zenon
<1>2. /\ \A z \in ExportsOf(x, n) : \E e, p : ExportHas(x, e, p, n) /\ z = Pair(e, p)
      /\ \A z \in ExportsOf(x2, n) : \E e, p : ExportHas(x2, e, p, n) /\ z = Pair(e, p)
    BY InExportsOf
<1>3. ASSUME NEW z \in ExportsOf(x, n) PROVE z \in ExportsOf(x2, n)
    <2>1. PICK e, p : ExportHas(x, e, p, n) /\ z = Pair(e, p)
        BY <1>2, Zenon
    <2>2. Pair(e, p) \in ExportsOf(x2, n)
        BY <1>1, <2>1, Zenon
    <2> QED BY <2>1, <2>2, Zenon
<1>4. ASSUME NEW z \in ExportsOf(x2, n) PROVE z \in ExportsOf(x, n)
    <2>1. PICK e, p : ExportHas(x2, e, p, n) /\ z = Pair(e, p)
        BY <1>2, Zenon
    <2>2. Pair(e, p) \in ExportsOf(x, n)
        BY <1>1, <2>1, Zenon
    <2> QED BY <2>1, <2>2, Zenon
<1> QED BY <1>3, <1>4, Zenon

(* A sample that is recorded is in one map, and the others stay where they *)
(* are.                                                                    *)
LEMMA RecordMoves ==
    ASSUME NEW c \in [Measurers -> AggregateMaps], NEW i \in Measurers, NEW t \in Topics,
           NEW x \in Reading, NEW n
    PROVE  LET d == [c EXCEPT ![i][t] = Add(@, x)]
           IN  /\ n # x.id => MapsOf(d, n) = MapsOf(c, n)
               /\ n = x.id /\ MapsOf(c, n) = {} => One(MapsOf(d, n))
<1> DEFINE d == [c EXCEPT ![i][t] = Add(@, x)]
<1>1. c[i] \in AggregateMaps /\ c[i][t] \in Aggregates
    BY Zenon DEF AggregateMaps
<1>2. /\ d[i][t] = Add(c[i][t], x)
      /\ \A j \in Measurers, u \in Topics : ~(j = i /\ u = t) => d[j][u] = c[j][u]
    BY <1>1, Zenon DEF AggregateMaps
<1> HIDE DEF d
<1>3. d[i][t].samples = Append(c[i][t].samples, x)
    BY <1>2 DEF Add
<1>4. c[i][t].samples \in Seq(Reading)
    BY <1>1, Zenon DEF Aggregates, StandsFor, Timed
<1>5. IDs(d[i][t].samples) = IDs(c[i][t].samples) \union {x.id}
    BY <1>3, <1>4, IDsAppend, Zenon
<1>6. \A j, u : MapHas(d, j, u, n) <=> MapHas(c, j, u, n) \/ (n = x.id /\ j = i /\ u = t)
    <2> SUFFICES ASSUME NEW j, NEW u
                 PROVE  MapHas(d, j, u, n) <=> MapHas(c, j, u, n) \/ (n = x.id /\ j = i /\ u = t)
        BY Zenon
    <2>1. CASE j = i /\ u = t
        BY <1>5, <2>1, Zenon DEF MapHas
    <2>2. CASE ~(j = i /\ u = t)
        BY <1>2, <2>2, Zenon DEF MapHas
    <2> QED BY <2>1, <2>2, Zenon
<1>7. ASSUME n # x.id PROVE MapsOf(d, n) = MapsOf(c, n)
    <2>1. \A j, u : MapHas(d, j, u, n) <=> MapHas(c, j, u, n)
        BY <1>6, <1>7, Zenon
    <2> QED BY <2>1, SameMapsOf, Zenon
<1>8. ASSUME n = x.id, MapsOf(c, n) = {} PROVE One(MapsOf(d, n))
    <2>1. \A j, u : ~MapHas(c, j, u, n)
        BY <1>8, MapsFacts, Zenon
    <2>2. MapHas(d, i, t, n) /\ \A j, u : MapHas(d, j, u, n) => j = i /\ u = t
        BY <1>6, <1>8, <2>1, Zenon
    <2> QED BY <2>2, MapsFacts
<1> QED BY <1>7, <1>8, Zenon DEF d

(* aggregate takes samples from the map of a measurer to its history. *)
LEMMA AggregateMoves ==
    ASSUME NEW c \in [Measurers -> AggregateMaps], NEW h \in [Measurers -> Seq(AggregateMaps)],
           NEW i \in Measurers, NEW n
    PROVE  Moves(MapsOf(c, n), HistoryOf(h, n),
                 MapsOf([c EXCEPT ![i] = NewMap], n),
                 HistoryOf([h EXCEPT ![i] = Append(@, c[i])], n))
<1> DEFINE c2 == [c EXCEPT ![i] = NewMap]
           h2 == [h EXCEPT ![i] = Append(@, c[i])]
           m == Len(h[i]) + 1
<1>1. h[i] \in Seq(AggregateMaps) /\ c[i] \in AggregateMaps
    BY Zenon
<1>2. /\ m \notin DOMAIN h[i]
      /\ \A k : k \in DOMAIN Append(h[i], c[i]) <=> k \in DOMAIN h[i] \/ k = m
      /\ Append(h[i], c[i])[m] = c[i]
      /\ \A k \in DOMAIN h[i] : Append(h[i], c[i])[k] = h[i][k]
    BY <1>1
<1>3. h2[i] = Append(h[i], c[i]) /\ \A j \in Measurers : j # i => h2[j] = h[j]
    BY Zenon
<1>4. c2[i] = NewMap /\ \A j \in Measurers : j # i => c2[j] = c[j]
    BY Zenon
<1> HIDE DEF c2, h2, m
<1>5. \A j, t : MapHas(c2, j, t, n) <=> MapHas(c, j, t, n) /\ j # i
    <2>1. \A t \in Topics : n \notin IDs(c2[i][t].samples)
        BY <1>4, IDsOfNew, Zenon
    <2> QED BY <1>4, <2>1, Zenon DEF MapHas
<1>6. \A j, k, t : HistoryHas(h2, j, k, t, n)
                     <=> HistoryHas(h, j, k, t, n) \/ (j = i /\ k = m /\ MapHas(c, i, t, n))
    <2> SUFFICES ASSUME NEW j, NEW k, NEW t
                 PROVE  HistoryHas(h2, j, k, t, n)
                          <=> HistoryHas(h, j, k, t, n) \/ (j = i /\ k = m /\ MapHas(c, i, t, n))
        BY Zenon
    <2>1. CASE j # i
        BY <1>3, <2>1, Zenon DEF HistoryHas
    <2>2. CASE j = i /\ k # m
        BY <1>2, <1>3, <2>2, Zenon DEF HistoryHas
    <2>3. CASE j = i /\ k = m
        BY <1>2, <1>3, <2>3, Zenon DEF HistoryHas, MapHas
    <2> QED BY <2>1, <2>2, <2>3, Zenon
<1>7. ASSUME \A t : ~MapHas(c, i, t, n)
      PROVE  MapsOf(c2, n) = MapsOf(c, n) /\ HistoryOf(h2, n) = HistoryOf(h, n)
    <2>1. \A j, t : MapHas(c2, j, t, n) <=> MapHas(c, j, t, n)
        BY <1>5, <1>7, Zenon
    <2>2. \A j, k, t : HistoryHas(h2, j, k, t, n) <=> HistoryHas(h, j, k, t, n)
        BY <1>6, <1>7, Zenon
    <2>3. MapsOf(c2, n) = MapsOf(c, n)
        BY <2>1, SameMapsOf, Zenon
    <2>4. HistoryOf(h2, n) = HistoryOf(h, n)
        BY <2>2, SameHistoryOf, Zenon
    <2> QED BY <2>3, <2>4, Zenon
<1>8. ASSUME MapsOf(c, n) = {}
      PROVE  MapsOf(c2, n) = {} /\ HistoryOf(h2, n) = HistoryOf(h, n)
    <2>1. \A t : ~MapHas(c, i, t, n)
        BY <1>8, MapsFacts, Zenon
    <2> QED BY <1>7, <1>8, <2>1, Zenon
<1>9. ASSUME One(MapsOf(c, n)), HistoryOf(h, n) = {}, NEW t, MapHas(c, i, t, n)
      PROVE  MapsOf(c2, n) = {} /\ One(HistoryOf(h2, n))
    <2>1. \A j, u : MapHas(c, j, u, n) => j = i /\ u = t
        BY <1>9, MapsFacts
    <2>2. \A j, k, u : ~HistoryHas(h, j, k, u, n)
        BY <1>9, HistoryFacts, Zenon
    <2>3. \A j, u : ~MapHas(c2, j, u, n)
        BY <1>5, <2>1, Zenon
    <2>4. HistoryHas(h2, i, m, t, n)
        BY <1>6, <1>9, Zenon
    <2>5. \A j, k, u : HistoryHas(h2, j, k, u, n) => j = i /\ k = m /\ u = t
        BY <1>6, <2>1, <2>2
    <2>6. MapsOf(c2, n) = {}
        BY <2>3, MapsFacts, Zenon
    <2>7. One(HistoryOf(h2, n))
        BY <2>4, <2>5, HistoryFacts
    <2> QED BY <2>6, <2>7, Zenon
<1> QED BY <1>7, <1>8, <1>9, Zenon DEF Moves, c2, h2

(* The points of a history that have a sample are those of the aggregates *)
(* that have it.                                                          *)
PointHas(h, i, p, n) ==
    \E k, t : HistoryHas(h, i, k, t, n) /\ p = translateToLatency(i, t, h[i][k][t])

(* The translation of a history has a sample in the points of PointHas. *)
LEMMA TranslatedHas ==
    ASSUME NEW h \in [Measurers -> Seq(AggregateMaps)], NEW i \in Measurers, NEW n
    PROVE  \A p : p \in TranslateToLatencies(i, h[i]) /\ n \in IDs(p.samples)
                    <=> PointHas(h, i, p, n)
<1>1. h[i] \in Seq(AggregateMaps)
    BY Zenon
<1>2. \A k \in DOMAIN h[i] : h[i][k] \in AggregateMaps
    BY <1>1
<1>3. \A k \in DOMAIN h[i], t \in Topics : h[i][k][t] \in Aggregates
    BY <1>2, Zenon DEF AggregateMaps
<1>4. \A t, l : translateToLatency(i, t, l).samples = l.samples
    BY Zenon DEF translateToLatency
<1>5. ASSUME NEW p \in TranslateToLatencies(i, h[i]), n \in IDs(p.samples)
      PROVE  \E k, t : HistoryHas(h, i, k, t, n) /\ p = translateToLatency(i, t, h[i][k][t])
    <2>1. PICK x \in (DOMAIN h[i]) \X Topics : p = translateToLatency(i, x[2], h[i][x[1]][x[2]])
        BY <1>5, Zenon DEF TranslateToLatencies
    <2>2. x[1] \in DOMAIN h[i] /\ x[2] \in Topics
        BY <2>1, Zenon
    <2>3. n \in IDs(h[i][x[1]][x[2]].samples)
        BY <1>4, <1>5, <2>1, Zenon
    <2> QED BY <2>1, <2>2, <2>3, Zenon DEF HistoryHas
<1>6. ASSUME NEW p, NEW k, NEW t, HistoryHas(h, i, k, t, n), p = translateToLatency(i, t, h[i][k][t])
      PROVE  p \in TranslateToLatencies(i, h[i]) /\ n \in IDs(p.samples)
    <2>1. k \in DOMAIN h[i] /\ t \in Topics /\ n \in IDs(h[i][k][t].samples)
        BY <1>6, Zenon DEF HistoryHas
    <2>2. h[i][k][t].counter > 0
        BY <1>3, <2>1, CountedSample, Zenon
    <2> DEFINE x == <<k, t>>
    <2>3. x \in (DOMAIN h[i]) \X Topics /\ x[1] = k /\ x[2] = t
        BY <2>1, Zenon
    <2> HIDE DEF x
    <2>4. p \in TranslateToLatencies(i, h[i])
        BY <1>6, <2>2, <2>3, Zenon DEF TranslateToLatencies
    <2> QED BY <1>4, <1>6, <2>1, <2>4, Zenon
<1> QED BY <1>5, <1>6, Zenon DEF PointHas

(* collectLatencies takes samples from the history of a measurer to the    *)
(* points of an export.                                                    *)
LEMMA CollectMoves ==
    ASSUME NEW h \in [Measurers -> Seq(AggregateMaps)],
           NEW x \in [Exports -> {Idle} \union Collecting \union Writing],
           NEW i \in Measurers, NEW e \in Exports, NEW n, NEW r, x[e] # Idle,
           NEW ps, ps = x[e].points \union TranslateToLatencies(i, h[i]),
           (r # Idle /\ r.points = ps) \/ (r = Idle /\ ps = {})
    PROVE  Moves(HistoryOf(h, n), ExportsOf(x, n),
                 HistoryOf([h EXCEPT ![i] = <<>>], n),
                 ExportsOf([x EXCEPT ![e] = r], n))
<1> DEFINE h2 == [h EXCEPT ![i] = <<>>]
           x2 == [x EXCEPT ![e] = r]
<1>1. h2[i] = <<>> /\ \A j \in Measurers : j # i => h2[j] = h[j]
    BY Zenon
<1>2. x2[e] = r /\ \A f \in Exports : f # e => x2[f] = x[f]
    BY Zenon
<1>3. \A k : k \notin DOMAIN <<>>
    OBVIOUS
<1> HIDE DEF h2, x2
<1>4. \A j, k, t : HistoryHas(h2, j, k, t, n) <=> HistoryHas(h, j, k, t, n) /\ j # i
    <2> SUFFICES ASSUME NEW j, NEW k, NEW t
                 PROVE  HistoryHas(h2, j, k, t, n) <=> HistoryHas(h, j, k, t, n) /\ j # i
        BY Zenon
    <2>1. CASE j = i
        BY <1>1, <1>3, <2>1, Zenon DEF HistoryHas
    <2>2. CASE j # i
        BY <1>1, <2>2, Zenon DEF HistoryHas
    <2> QED BY <2>1, <2>2, Zenon
<1>5. \A f, p : ExportHas(x2, f, p, n)
                  <=> \/ ExportHas(x, f, p, n)
                      \/ f = e /\ p \in TranslateToLatencies(i, h[i]) /\ n \in IDs(p.samples)
    <2> SUFFICES ASSUME NEW f, NEW p
                 PROVE  ExportHas(x2, f, p, n)
                          <=> \/ ExportHas(x, f, p, n)
                              \/ f = e /\ p \in TranslateToLatencies(i, h[i]) /\ n \in IDs(p.samples)
        BY Zenon
    <2>1. CASE f = e
        BY <1>2, <2>1, Zenon DEF ExportHas
    <2>2. CASE f # e
        BY <1>2, <2>2, Zenon DEF ExportHas
    <2> QED BY <2>1, <2>2, Zenon
<1>6. \A p : p \in TranslateToLatencies(i, h[i]) /\ n \in IDs(p.samples)
               <=> PointHas(h, i, p, n)
    BY TranslatedHas, Zenon
<1>7. ASSUME \A k, t : ~HistoryHas(h, i, k, t, n)
      PROVE  HistoryOf(h2, n) = HistoryOf(h, n) /\ ExportsOf(x2, n) = ExportsOf(x, n)
    <2>1. \A j, k, t : HistoryHas(h2, j, k, t, n) <=> HistoryHas(h, j, k, t, n)
        BY <1>4, <1>7, Zenon
    <2>2. \A f, p : ExportHas(x2, f, p, n) <=> ExportHas(x, f, p, n)
        BY <1>5, <1>6, <1>7, Zenon DEF PointHas
    <2>3. HistoryOf(h2, n) = HistoryOf(h, n)
        BY <2>1, SameHistoryOf, Zenon
    <2>4. ExportsOf(x2, n) = ExportsOf(x, n)
        BY <2>2, SameExportsOf, Zenon
    <2> QED BY <2>3, <2>4, Zenon
<1>8. ASSUME HistoryOf(h, n) = {}
      PROVE  HistoryOf(h2, n) = {} /\ ExportsOf(x2, n) = ExportsOf(x, n)
    <2>1. \A k, t : ~HistoryHas(h, i, k, t, n)
        BY <1>8, HistoryFacts, Zenon
    <2> QED BY <1>7, <1>8, <2>1, Zenon
<1>9. ASSUME One(HistoryOf(h, n)), ExportsOf(x, n) = {}, NEW k, NEW t, HistoryHas(h, i, k, t, n)
      PROVE  HistoryOf(h2, n) = {} /\ One(ExportsOf(x2, n))
    <2> DEFINE p == translateToLatency(i, t, h[i][k][t])
    <2>1. \A j, m, u : HistoryHas(h, j, m, u, n) => j = i /\ m = k /\ u = t
        BY <1>9, HistoryFacts
    <2>2. \A f, q : ~ExportHas(x, f, q, n)
        BY <1>9, ExportsFacts, Zenon
    <2>3. \A j, m, u : ~HistoryHas(h2, j, m, u, n)
        BY <1>4, <2>1, Zenon
    <2>4. \A q : q \in TranslateToLatencies(i, h[i]) /\ n \in IDs(q.samples) <=> q = p
        BY <1>6, <1>9, <2>1, Zenon DEF PointHas
    <2> HIDE DEF p
    <2>5. ExportHas(x2, e, p, n)
        BY <1>5, <2>4, Zenon
    <2>6. \A f, q : ExportHas(x2, f, q, n) => f = e /\ q = p
        BY <1>5, <2>2, <2>4
    <2>7. HistoryOf(h2, n) = {}
        BY <2>3, HistoryFacts, Zenon
    <2>8. One(ExportsOf(x2, n))
        BY <2>5, <2>6, ExportsFacts
    <2> QED BY <2>7, <2>8, Zenon
<1>10. HistoryOf(h, n) = {} => HistoryOf(h2, n) = {} /\ ExportsOf(x2, n) = ExportsOf(x, n)
    BY <1>8, Zenon
<1>11. One(HistoryOf(h, n)) /\ ExportsOf(x, n) = {} =>
          \/ HistoryOf(h2, n) = HistoryOf(h, n) /\ ExportsOf(x2, n) = ExportsOf(x, n)
          \/ HistoryOf(h2, n) = {} /\ One(ExportsOf(x2, n))
    BY <1>7, <1>9, Zenon
<1> QED BY <1>10, <1>11, Zenon DEF Moves, h2, x2

(* A point that has a sample gives it to the samples of the points. *)
LEMMA InSamplesOf ==
    ASSUME NEW P, NEW n
    PROVE  n \in SamplesOf(P) <=> \E p \in P : n \in IDs(p.samples)
BY Zenon DEF SamplesOf

(* An export that ends keeps no sample. *)
LEMMA ExportEnds ==
    ASSUME NEW x \in [Exports -> {Idle} \union Collecting \union Writing], NEW e \in Exports, NEW n
    PROVE  \A f, p : ExportHas([x EXCEPT ![e] = Idle], f, p, n) <=> ExportHas(x, f, p, n) /\ f # e
<1> DEFINE x2 == [x EXCEPT ![e] = Idle]
<1>1. x2[e] = Idle /\ \A f \in Exports : f # e => x2[f] = x[f]
    BY Zenon
<1> HIDE DEF x2
<1> SUFFICES ASSUME NEW f, NEW p
             PROVE  ExportHas(x2, f, p, n) <=> ExportHas(x, f, p, n) /\ f # e
    BY Zenon DEF x2
<1>2. CASE f = e
    BY <1>1, <1>2, Zenon DEF ExportHas
<1>3. CASE f # e
    BY <1>1, <1>3, Zenon DEF ExportHas
<1> QED BY <1>2, <1>3, Zenon

(* exportLatencies takes the samples of an export to the bucket, ... *)
LEMMA WriteMoves ==
    ASSUME NEW x \in [Exports -> {Idle} \union Collecting \union Writing],
           NEW e \in Exports, x[e] # Idle, NEW P, NEW n
    PROVE  Moves(ExportsOf(x, n), BucketOf(P, n),
                 ExportsOf([x EXCEPT ![e] = Idle], n), BucketOf(P \union x[e].points, n))
<1> DEFINE x2 == [x EXCEPT ![e] = Idle]
           P2 == P \union x[e].points
<1>1. \A f, p : ExportHas(x2, f, p, n) <=> ExportHas(x, f, p, n) /\ f # e
    BY ExportEnds, Zenon
<1>2. \A p : p \in BucketOf(P2, n) <=> p \in BucketOf(P, n) \/ ExportHas(x, e, p, n)
    BY Zenon DEF BucketOf, ExportHas
<1> HIDE DEF x2, P2
<1>3. ASSUME \A p : ~ExportHas(x, e, p, n)
      PROVE  ExportsOf(x2, n) = ExportsOf(x, n) /\ BucketOf(P2, n) = BucketOf(P, n)
    <2>1. \A f, p : ExportHas(x2, f, p, n) <=> ExportHas(x, f, p, n)
        BY <1>1, <1>3, Zenon
    <2>2. ExportsOf(x2, n) = ExportsOf(x, n)
        BY <2>1, SameExportsOf, Zenon
    <2>3. BucketOf(P2, n) = BucketOf(P, n)
        BY <1>2, <1>3, Zenon
    <2> QED BY <2>2, <2>3, Zenon
<1>4. ASSUME ExportsOf(x, n) = {}
      PROVE  ExportsOf(x2, n) = {} /\ BucketOf(P2, n) = BucketOf(P, n)
    <2>1. \A p : ~ExportHas(x, e, p, n)
        BY <1>4, ExportsFacts, Zenon
    <2> QED BY <1>3, <1>4, <2>1, Zenon
<1>5. ASSUME One(ExportsOf(x, n)), BucketOf(P, n) = {}, NEW p, ExportHas(x, e, p, n)
      PROVE  ExportsOf(x2, n) = {} /\ One(BucketOf(P2, n))
    <2>1. \A f, q : ExportHas(x, f, q, n) => f = e /\ q = p
        BY <1>5, ExportsFacts
    <2>2. \A f, q : ~ExportHas(x2, f, q, n)
        BY <1>1, <2>1, Zenon
    <2>3. p \in BucketOf(P2, n)
        BY <1>2, <1>5, Zenon
    <2>4. \A q \in BucketOf(P2, n) : q = p
        BY <1>2, <1>5, <2>1, Zenon
    <2>5. ExportsOf(x2, n) = {}
        BY <2>2, ExportsFacts, Zenon
    <2> QED BY <2>3, <2>4, <2>5, Zenon DEF One
<1>6. ExportsOf(x, n) = {} => ExportsOf(x2, n) = {} /\ BucketOf(P2, n) = BucketOf(P, n)
    BY <1>4, Zenon
<1>7. One(ExportsOf(x, n)) /\ BucketOf(P, n) = {} =>
          \/ ExportsOf(x2, n) = ExportsOf(x, n) /\ BucketOf(P2, n) = BucketOf(P, n)
          \/ ExportsOf(x2, n) = {} /\ One(BucketOf(P2, n))
    BY <1>3, <1>5, Zenon
<1> QED BY <1>6, <1>7, Zenon DEF Moves, x2, P2

(* ... or loses them when the write fails; ... *)
LEMMA LoseMoves ==
    ASSUME NEW x \in [Exports -> {Idle} \union Collecting \union Writing],
           NEW e \in Exports, x[e] # Idle, NEW L, NEW n
    PROVE  Moves(ExportsOf(x, n), LostOf(L, n),
                 ExportsOf([x EXCEPT ![e] = Idle], n), LostOf(L \union SamplesOf(x[e].points), n))
<1> DEFINE x2 == [x EXCEPT ![e] = Idle]
           L2 == L \union SamplesOf(x[e].points)
<1>1. \A f, p : ExportHas(x2, f, p, n) <=> ExportHas(x, f, p, n) /\ f # e
    BY ExportEnds, Zenon
<1>2. n \in L2 <=> n \in L \/ \E p : ExportHas(x, e, p, n)
    <2>1. n \in SamplesOf(x[e].points) <=> \E p : ExportHas(x, e, p, n)
        BY InSamplesOf, Zenon DEF ExportHas
    <2> QED BY <2>1, Zenon
<1> HIDE DEF x2, L2
<1>3. ASSUME \A p : ~ExportHas(x, e, p, n)
      PROVE  ExportsOf(x2, n) = ExportsOf(x, n) /\ LostOf(L2, n) = LostOf(L, n)
    <2>1. \A f, p : ExportHas(x2, f, p, n) <=> ExportHas(x, f, p, n)
        BY <1>1, <1>3, Zenon
    <2>2. ExportsOf(x2, n) = ExportsOf(x, n)
        BY <2>1, SameExportsOf, Zenon
    <2>3. LostOf(L2, n) = LostOf(L, n)
        BY <1>2, <1>3, Zenon DEF LostOf
    <2> QED BY <2>2, <2>3, Zenon
<1>4. ASSUME ExportsOf(x, n) = {}
      PROVE  ExportsOf(x2, n) = {} /\ LostOf(L2, n) = LostOf(L, n)
    <2>1. \A p : ~ExportHas(x, e, p, n)
        BY <1>4, ExportsFacts, Zenon
    <2> QED BY <1>3, <1>4, <2>1, Zenon
<1>5. ASSUME One(ExportsOf(x, n)), NEW p, ExportHas(x, e, p, n)
      PROVE  ExportsOf(x2, n) = {} /\ One(LostOf(L2, n))
    <2>1. \A f, q : ExportHas(x, f, q, n) => f = e /\ q = p
        BY <1>5, ExportsFacts
    <2>2. \A f, q : ~ExportHas(x2, f, q, n)
        BY <1>1, <2>1, Zenon
    <2>3. ExportsOf(x2, n) = {}
        BY <2>2, ExportsFacts, Zenon
    <2>4. n \in L2
        BY <1>2, <1>5, Zenon
    <2>5. One(LostOf(L2, n))
        BY <2>4, Zenon DEF One, LostOf
    <2> QED BY <2>3, <2>5, Zenon
<1>6. ExportsOf(x, n) = {} => ExportsOf(x2, n) = {} /\ LostOf(L2, n) = LostOf(L, n)
    BY <1>4, Zenon
<1>7. One(ExportsOf(x, n)) /\ LostOf(L, n) = {} =>
          \/ ExportsOf(x2, n) = ExportsOf(x, n) /\ LostOf(L2, n) = LostOf(L, n)
          \/ ExportsOf(x2, n) = {} /\ One(LostOf(L2, n))
    BY <1>3, <1>5, Zenon
<1> QED BY <1>6, <1>7, Zenon DEF Moves, x2, L2

(* ... and in noop mode the histories are lost. *)
LEMMA DiscardMoves ==
    ASSUME NEW h \in [Measurers -> Seq(AggregateMaps)], NEW L, NEW n
    PROVE  Moves(HistoryOf(h, n), LostOf(L, n), HistoryOf([i \in Measurers |-> <<>>], n),
                 LostOf(L \union SamplesOf(UNION {TranslateToLatencies(i, h[i]) : i \in Measurers}), n))
<1> DEFINE h2 == [i \in Measurers |-> <<>>]
           P == UNION {TranslateToLatencies(i, h[i]) : i \in Measurers}
           L2 == L \union SamplesOf(P)
<1>1. \A i \in Measurers : \A k : k \notin DOMAIN h2[i]
    OBVIOUS
<1>2. n \in SamplesOf(P) <=> \E i, k, t : HistoryHas(h, i, k, t, n)
    <2>1. n \in SamplesOf(P) <=> \E p \in P : n \in IDs(p.samples)
        BY InSamplesOf, Zenon
    <2>2. ASSUME NEW p \in P, n \in IDs(p.samples)
          PROVE  \E i, k, t : HistoryHas(h, i, k, t, n)
        <3>1. PICK i \in Measurers : p \in TranslateToLatencies(i, h[i])
            BY <2>2, Zenon
        <3>2. PointHas(h, i, p, n)
            BY <2>2, <3>1, TranslatedHas, Zenon
        <3> QED BY <3>2, Zenon DEF PointHas
    <2>3. ASSUME NEW i, NEW k, NEW t, HistoryHas(h, i, k, t, n)
          PROVE  \E p \in P : n \in IDs(p.samples)
        <3> DEFINE p == translateToLatency(i, t, h[i][k][t])
        <3>1. i \in Measurers
            BY <2>3, Zenon DEF HistoryHas
        <3>2. PointHas(h, i, p, n)
            BY <2>3, Zenon DEF PointHas
        <3> HIDE DEF p
        <3>3. p \in TranslateToLatencies(i, h[i]) /\ n \in IDs(p.samples)
            BY <3>1, <3>2, TranslatedHas, Zenon
        <3> QED BY <3>1, <3>3, Zenon
    <2> QED BY <2>1, <2>2, <2>3, Zenon
<1> HIDE DEF h2, P
<1>3. HistoryOf(h2, n) = {}
    <2>1. \A i, k, t : ~HistoryHas(h2, i, k, t, n)
        BY <1>1, Zenon DEF HistoryHas
    <2> QED BY <2>1, HistoryFacts, Zenon
<1>4. ASSUME HistoryOf(h, n) = {} PROVE LostOf(L2, n) = LostOf(L, n)
    <2>1. \A i, k, t : ~HistoryHas(h, i, k, t, n)
        BY <1>4, HistoryFacts, Zenon
    <2> QED BY <1>2, <2>1, Zenon DEF LostOf
<1>5. ASSUME One(HistoryOf(h, n)) PROVE One(LostOf(L2, n))
    <2>1. \E i, k, t : HistoryHas(h, i, k, t, n)
        BY <1>5, HistoryFacts, Zenon
    <2>2. n \in L2
        BY <1>2, <2>1, Zenon
    <2> HIDE DEF L2
    <2> QED BY <2>2, Zenon DEF One, LostOf
<1> QED BY <1>3, <1>4, <1>5, Zenon DEF Moves, h2, P

(* A sample that is in one place, and one that is in none. *)
OnePlace(n) == OneOf(MapsOf(current, n), HistoryOf(history, n), ExportsOf(latencies, n),
                     BucketOf(points, n), LostOf(lost, n))
NoPlace(n) == NoneOf(MapsOf(current, n), HistoryOf(history, n), ExportsOf(latencies, n),
                     BucketOf(points, n), LostOf(lost, n))

(* The invariant behind SamplesConserved: samples are numbered, the next   *)
(* number is nowhere, and those before it are each in one place.           *)
SamplesInv ==
    \A n \in Nat : (n \in 1 .. recorded => OnePlace(n)) /\ (n > recorded => NoPlace(n))

(* No sample is recorded when the process starts. *)
LEMMA SamplesInit == Init => SamplesInv
<1> SUFFICES ASSUME Init, NEW n \in Nat PROVE n \notin 1 .. recorded /\ NoPlace(n)
    BY Zenon DEF SamplesInv
<1>1. n \notin 1 .. recorded
    BY DEF Init
<1>2. MapsOf(current, n) = {}
    <2>1. \A i \in Measurers : current[i] = NewMap
        BY Zenon DEF Init
    <2>2. \A i, t : ~MapHas(current, i, t, n)
        BY <2>1, IDsOfNew, Zenon DEF MapHas
    <2> QED BY <2>2, MapsFacts, Zenon
<1>3. HistoryOf(history, n) = {}
    <2>1. \A i \in Measurers : history[i] = <<>>
        BY Zenon DEF Init
    <2>2. \A k : k \notin DOMAIN <<>>
        OBVIOUS
    <2>3. \A i, k, t : ~HistoryHas(history, i, k, t, n)
        BY <2>1, <2>2, Zenon DEF HistoryHas
    <2> QED BY <2>3, HistoryFacts, Zenon
<1>4. ExportsOf(latencies, n) = {}
    <2>1. \A e \in Exports : latencies[e] = Idle
        BY Zenon DEF Init
    <2>2. \A e, p : ~ExportHas(latencies, e, p, n)
        BY <2>1, Zenon DEF ExportHas
    <2> QED BY <2>2, ExportsFacts, Zenon
<1>5. BucketOf(points, n) = {} /\ LostOf(lost, n) = {}
    BY Zenon DEF Init, BucketOf, LostOf
<1> QED BY <1>1, <1>2, <1>3, <1>4, <1>5, Zenon DEF NoPlace, NoneOf

(* An action that records nothing keeps the invariant if it leaves each    *)
(* sample in one place.                                                    *)
LEMMA PlacesKept ==
    ASSUME SamplesInv, recorded' = recorded,
           \A n : (OnePlace(n) => OnePlace(n)') /\ (NoPlace(n) => NoPlace(n)')
    PROVE  SamplesInv'
BY Zenon DEF SamplesInv

(* Every step of the measurers and of the Exporter leaves each sample in *)
(* one place.                                                            *)
LEMMA SamplesStep == RightInv /\ SamplesInv /\ [Next]_vars => SamplesInv'
<1> SUFFICES ASSUME RightInv, SamplesInv, [Next]_vars PROVE SamplesInv'
    BY Zenon
<1>0. /\ current \in [Measurers -> AggregateMaps]
      /\ history \in [Measurers -> Seq(AggregateMaps)]
      /\ latencies \in [Exports -> {Idle} \union Collecting \union Writing]
      /\ recorded \in Nat
    BY Zenon DEF RightInv
<1>1. ASSUME NEW i \in Measurers, NEW t \in Topics, NEW y \in Latencies, RecordLatency(i, t, y)
      PROVE  SamplesInv'
    <2> DEFINE x == [id |-> recorded + 1, latency |-> y]
    <2>1. x \in Reading /\ x.id = recorded + 1
        BY <1>0 DEF Reading
    <2> HIDE DEF x
    <2>2. /\ current' = [current EXCEPT ![i][t] = Add(@, x)]
          /\ recorded' = recorded + 1
          /\ UNCHANGED <<history, latencies, points, lost>>
        BY <1>1, Zenon DEF RecordLatency, exportVars, x
    <2> SUFFICES ASSUME NEW n \in Nat
                 PROVE  /\ n \in 1 .. (recorded + 1) => OnePlace(n)'
                        /\ n > recorded + 1 => NoPlace(n)'
        BY <2>2, Zenon DEF SamplesInv
    <2>3. /\ n # recorded + 1 => MapsOf(current', n) = MapsOf(current, n)
          /\ n = recorded + 1 /\ MapsOf(current, n) = {} => One(MapsOf(current', n))
        <3>1. LET d == [current EXCEPT ![i][t] = Add(@, x)]
              IN  /\ n # x.id => MapsOf(d, n) = MapsOf(current, n)
                  /\ n = x.id /\ MapsOf(current, n) = {} => One(MapsOf(d, n))
            BY <1>0, <2>1, RecordMoves, Zenon
        <3> QED BY <2>1, <2>2, <3>1, Zenon
    <2>4. CASE n = recorded + 1
        <3>1. n > recorded /\ ~(n > recorded + 1)
            BY <1>0, <2>4
        <3>2. NoPlace(n)
            BY <3>1, Zenon DEF SamplesInv
        <3>3. OnePlace(n)'
            BY <2>2, <2>3, <2>4, <3>2, Zenon DEF OnePlace, NoPlace, OneOf, NoneOf
        <3> QED BY <3>1, <3>3, Zenon
    <2>5. CASE n # recorded + 1
        <3>1. (OnePlace(n)' <=> OnePlace(n)) /\ (NoPlace(n)' <=> NoPlace(n))
            BY <2>2, <2>3, <2>5, Zenon DEF OnePlace, NoPlace
        <3>2. /\ n \in 1 .. (recorded + 1) => n \in 1 .. recorded
              /\ n > recorded + 1 => n > recorded
            BY <1>0, <2>5
        <3> QED BY <3>1, <3>2, Zenon DEF SamplesInv
    <2> QED BY <2>4, <2>5, Zenon
<1>2. ASSUME NEW i \in Measurers, aggregate(i)
      PROVE  SamplesInv'
    <2>1. /\ history' = [history EXCEPT ![i] = Append(@, current[i])]
          /\ current' = [current EXCEPT ![i] = NewMap]
          /\ UNCHANGED <<latencies, points, lost, recorded>>
        BY <1>2, Zenon DEF aggregate, exportVars
    <2>2. ASSUME NEW n
          PROVE  (OnePlace(n) => OnePlace(n)') /\ (NoPlace(n) => NoPlace(n)')
        <3>1. Moves(MapsOf(current, n), HistoryOf(history, n), MapsOf(current', n), HistoryOf(history', n))
            BY <1>0, <2>1, AggregateMoves, Zenon
        <3>2. UNCHANGED <<latencies, points, lost>>
            BY <2>1, Zenon
        <3> QED BY <3>1, <3>2, Zenon DEF OnePlace, NoPlace, OneOf, NoneOf, Moves
    <2> QED BY <2>1, <2>2, PlacesKept, Zenon
<1>3. CASE Discard
    <2> DEFINE P == UNION {TranslateToLatencies(i, history[i]) : i \in Measurers}
    <2>1. /\ history' = [i \in Measurers |-> <<>>] /\ lost' = lost \union SamplesOf(P)
          /\ UNCHANGED <<current, latencies, points, recorded>>
        BY <1>3, Zenon DEF Discard
    <2>2. ASSUME NEW n
          PROVE  (OnePlace(n) => OnePlace(n)') /\ (NoPlace(n) => NoPlace(n)')
        <3>1. Moves(HistoryOf(history, n), LostOf(lost, n), HistoryOf(history', n), LostOf(lost', n))
            BY <1>0, <2>1, DiscardMoves, Zenon
        <3>2. UNCHANGED <<current, latencies, points>>
            BY <2>1, Zenon
        <3> QED BY <3>1, <3>2, Zenon DEF OnePlace, NoPlace, OneOf, NoneOf, Moves
    <2> QED BY <2>1, <2>2, PlacesKept, Zenon
<1>4. ASSUME NEW e \in Exports, NEW f \in Exports, Tick(e, f)
      PROVE  SamplesInv'
    <2> DEFINE r == [at |-> "collect", next |-> 1, points |-> {}]
    <2>1. r.points = {}
        BY Zenon
    <2> HIDE DEF r
    <2>2. /\ latencies[e] = Idle
          /\ latencies' = [latencies EXCEPT ![e] = r]
          /\ UNCHANGED <<current, history, points, lost, recorded>>
        BY <1>4, Zenon DEF Tick, measurerVars, r
    <2>3. latencies'[e] = r /\ \A g \in Exports : g # e => latencies'[g] = latencies[g]
        BY <1>0, <2>2, Zenon
    <2>4. ASSUME NEW n
          PROVE  (OnePlace(n) => OnePlace(n)') /\ (NoPlace(n) => NoPlace(n)')
        <3>1. \A g, p : ExportHas(latencies', g, p, n) <=> ExportHas(latencies, g, p, n)
            <4> SUFFICES ASSUME NEW g, NEW p
                         PROVE  ExportHas(latencies', g, p, n) <=> ExportHas(latencies, g, p, n)
                BY Zenon
            <4>1. CASE g = e
                BY <2>1, <2>2, <2>3, <4>1, Zenon DEF ExportHas
            <4>2. CASE g # e
                BY <2>3, <4>2, Zenon DEF ExportHas
            <4> QED BY <4>1, <4>2, Zenon
        <3>2. ExportsOf(latencies', n) = ExportsOf(latencies, n)
            BY <3>1, SameExportsOf, Zenon
        <3> QED BY <2>2, <3>2, Zenon DEF OnePlace, NoPlace
    <2> QED BY <2>2, <2>4, PlacesKept, Zenon
<1>5. ASSUME NEW e \in Exports, collectLatencies(e)
      PROVE  SamplesInv'
    <2> DEFINE i == latencies[e].next
               ps == latencies[e].points \union TranslateToLatencies(i, history[i])
               r == CASE i < N                -> [at |-> "collect", next |-> i + 1, points |-> ps]
                      [] i = N /\ ps # {}   -> [at |-> "write", points |-> ps]
                      [] i = N /\ ps = {}   -> Idle
    <2>1. /\ latencies[e].at = "collect"
          /\ history' = [history EXCEPT ![i] = <<>>]
          /\ latencies' = [latencies EXCEPT ![e] = r]
          /\ UNCHANGED <<current, points, lost, recorded>>
        BY <1>5, Zenon DEF collectLatencies
    <2>2. i \in Measurers
        BY <2>1, ExportFacts, Zenon
    <2>3. ps = latencies[e].points \union TranslateToLatencies(i, history[i])
        BY Zenon
    <2>4. latencies[e] # Idle
        BY <2>1 DEF Idle
    <2> HIDE DEF i, ps
    <2>5. (r # Idle /\ r.points = ps) \/ (r = Idle /\ ps = {})
        <3>1. CASE i < N
            BY <2>2, <3>1, MetricsAssumption DEF Measurers, Idle
        <3>2. CASE i = N /\ ps # {}
            BY <3>2, MetricsAssumption, Zenon DEF Idle
        <3>3. CASE i = N /\ ps = {}
            BY <3>3, MetricsAssumption
        <3>4. i < N \/ i = N
            BY <2>2, MetricsAssumption DEF Measurers
        <3> QED BY <3>1, <3>2, <3>3, <3>4, Zenon
    <2> HIDE DEF r
    <2>6. ASSUME NEW n
          PROVE  (OnePlace(n) => OnePlace(n)') /\ (NoPlace(n) => NoPlace(n)')
        <3>1. Moves(HistoryOf(history, n), ExportsOf(latencies, n),
                    HistoryOf(history', n), ExportsOf(latencies', n))
            BY <1>0, <2>1, <2>2, <2>3, <2>4, <2>5, CollectMoves, Zenon
        <3>2. UNCHANGED <<current, points, lost>>
            BY <2>1, Zenon
        <3> QED BY <3>1, <3>2, Zenon DEF OnePlace, NoPlace, OneOf, NoneOf, Moves
    <2> QED BY <2>1, <2>6, PlacesKept, Zenon
<1>6. ASSUME NEW e \in Exports, NEW ok \in BOOLEAN, exportLatencies(e, ok)
      PROVE  SamplesInv'
    <2>1. /\ latencies[e].at = "write"
          /\ \/ points' = points \union latencies[e].points /\ lost' = lost
             \/ lost' = lost \union SamplesOf(latencies[e].points) /\ points' = points
          /\ latencies' = [latencies EXCEPT ![e] = Idle]
          /\ UNCHANGED <<current, history, recorded>>
        BY <1>6, Zenon DEF exportLatencies, measurerVars
    <2>2. latencies[e] # Idle
        BY <2>1 DEF Idle
    <2>3. ASSUME NEW n
          PROVE  (OnePlace(n) => OnePlace(n)') /\ (NoPlace(n) => NoPlace(n)')
        <3>1. CASE points' = points \union latencies[e].points /\ lost' = lost
            <4>1. Moves(ExportsOf(latencies, n), BucketOf(points, n),
                        ExportsOf(latencies', n), BucketOf(points', n))
                BY <1>0, <2>1, <2>2, <3>1, WriteMoves, Zenon
            <4>2. UNCHANGED <<current, history, lost>>
                BY <2>1, <3>1, Zenon
            <4> QED BY <4>1, <4>2, Zenon DEF OnePlace, NoPlace, OneOf, NoneOf, Moves
        <3>2. CASE lost' = lost \union SamplesOf(latencies[e].points) /\ points' = points
            <4>1. Moves(ExportsOf(latencies, n), LostOf(lost, n),
                        ExportsOf(latencies', n), LostOf(lost', n))
                BY <1>0, <2>1, <2>2, <3>2, LoseMoves, Zenon
            <4>2. UNCHANGED <<current, history, points>>
                BY <2>1, <3>2, Zenon
            <4> QED BY <4>1, <4>2, Zenon DEF OnePlace, NoPlace, OneOf, NoneOf, Moves
        <3> QED BY <2>1, <3>1, <3>2, Zenon
    <2> QED BY <2>1, <2>3, PlacesKept, Zenon
<1>7. CASE UNCHANGED <<current, history, latencies, points, lost, recorded>>
    BY <1>7, Zenon DEF SamplesInv, OnePlace, NoPlace
<1>8. ASSUME NEW e \in Exports, TakeQueue(e) \/ \E ok \in BOOLEAN : exportCustomMetrics(e, ok)
      PROVE  SamplesInv'
    BY <1>7, <1>8, Zenon DEF TakeQueue, exportCustomMetrics, measurerVars, exportVars
<1>9. CASE (\E valid \in BOOLEAN : WriteCustomMetrics(valid)) \/ Cancel \/ \E x \in running : Stop(x)
    BY <1>7, <1>9, Zenon DEF WriteCustomMetrics, Cancel, Stop, measurerVars, exportVars
<1>10. CASE UNCHANGED vars
    BY <1>7, <1>10, Zenon DEF vars, measurerVars, exportVars
<1> QED BY <1>1, <1>2, <1>3, <1>4, <1>5, <1>6, <1>8, <1>9, <1>10, Zenon DEF Next

(* What is in one place is counted once. *)
LEMMA OneIsCounted ==
    ASSUME NEW A, NEW B, NEW C, NEW D, NEW E, OneOf(A, B, C, D, E)
    PROVE  Cardinality(A) + Cardinality(B) + Cardinality(C) + Cardinality(D) + Cardinality(E) = 1
<1>1. Cardinality({}) = 0
    BY FS_EmptySet, Zenon
<1>2. \A S : One(S) => Cardinality(S) = 1
    BY FS_Singleton, Zenon DEF One
<1>3. \A S : S = {} => Cardinality(S) = 0
    BY <1>1, Zenon
<1>4. \/ Cardinality(A) = 1 /\ Cardinality(B) = 0 /\ Cardinality(C) = 0 /\ Cardinality(D) = 0 /\ Cardinality(E) = 0
      \/ Cardinality(A) = 0 /\ Cardinality(B) = 1 /\ Cardinality(C) = 0 /\ Cardinality(D) = 0 /\ Cardinality(E) = 0
      \/ Cardinality(A) = 0 /\ Cardinality(B) = 0 /\ Cardinality(C) = 1 /\ Cardinality(D) = 0 /\ Cardinality(E) = 0
      \/ Cardinality(A) = 0 /\ Cardinality(B) = 0 /\ Cardinality(C) = 0 /\ Cardinality(D) = 1 /\ Cardinality(E) = 0
      \/ Cardinality(A) = 0 /\ Cardinality(B) = 0 /\ Cardinality(C) = 0 /\ Cardinality(D) = 0 /\ Cardinality(E) = 1
    BY <1>2, <1>3, Zenon DEF OneOf
<1> QED BY <1>4

(* Every latency that is recorded is in exactly one place, the map of a      *)
(* measurer, its history, an export, the bucket or what is lost, however the *)
(* ticks of the measurers and the goroutines of the Exporter interleave, for *)
(* every number of measurers, topics and exports.                            *)
THEOREM SamplesAreConserved == Spec => []SamplesConserved
<1>1. RightInv /\ SamplesInv => SamplesConserved
    <2> SUFFICES ASSUME RightInv, SamplesInv, NEW n \in 1 .. recorded
                 PROVE  Cardinality(InMaps(n)) + Cardinality(InHistory(n)) + Cardinality(InExports(n))
                          + Cardinality(InBucket(n)) + Cardinality({n} \intersect lost) = 1
        BY Zenon DEF SamplesConserved
    <2>1. n \in Nat
        BY DEF RightInv
    <2>2. OnePlace(n)
        BY <2>1, Zenon DEF SamplesInv
    <2>3. /\ InMaps(n) = MapsOf(current, n) /\ InHistory(n) = HistoryOf(history, n)
          /\ InExports(n) = ExportsOf(latencies, n) /\ InBucket(n) = BucketOf(points, n)
          /\ {n} \intersect lost = LostOf(lost, n)
        BY Zenon DEF InMaps, MapsOf, InHistory, HistoryOf, InExports, ExportsOf, InBucket, BucketOf, LostOf
    <2>4. Cardinality(MapsOf(current, n)) + Cardinality(HistoryOf(history, n))
            + Cardinality(ExportsOf(latencies, n)) + Cardinality(BucketOf(points, n))
            + Cardinality(LostOf(lost, n)) = 1
        <3>1. OneOf(MapsOf(current, n), HistoryOf(history, n), ExportsOf(latencies, n),
                    BucketOf(points, n), LostOf(lost, n))
            BY <2>2, Zenon DEF OnePlace
        <3> QED BY <3>1, OneIsCounted
    <2> QED BY <2>3, <2>4, Zenon
<1> QED BY <1>1, RightAlways, SamplesInit, SamplesStep, PTL DEF Spec

-----------------------------------------------------------------------------

(* Custom metrics, where they are by their positions in the queue q and in *)
(* what the exports c have taken of it: an export has a metric once.       *)
CustomMetrics == [id : Nat, valid : BOOLEAN]
CustomWrites == [at : {"write"}, metrics : Seq(CustomMetrics)]
CustomStates == {Idle} \union [at : {"take"}] \union CustomWrites
QueueOf(q, n) == {k \in DOMAIN q : q[k].id = n}
CustomHas(c, e, k, n) ==
    e \in Exports /\ c[e].at = "write" /\ k \in DOMAIN c[e].metrics /\ c[e].metrics[k].id = n
CustomsOf(c, n) ==
    UNION {{Pair(e, k) : k \in QueueOf(c[e].metrics, n)} : e \in {x \in Exports : c[x].at = "write"}}

(* The custom metrics in the exports, one by one. *)
LEMMA InCustomsOf ==
    ASSUME NEW c, NEW n
    PROVE  /\ \A e, k : CustomHas(c, e, k, n) => Pair(e, k) \in CustomsOf(c, n)
           /\ \A z \in CustomsOf(c, n) : \E e, k : CustomHas(c, e, k, n) /\ z = Pair(e, k)
<1>1. ASSUME NEW e, NEW k, CustomHas(c, e, k, n)
      PROVE  Pair(e, k) \in CustomsOf(c, n)
    <2>1. e \in Exports /\ c[e].at = "write" /\ k \in QueueOf(c[e].metrics, n)
        BY <1>1, Zenon DEF CustomHas, QueueOf
    <2>2. Pair(e, k) \in {Pair(e, j) : j \in QueueOf(c[e].metrics, n)}
        BY <2>1, Zenon
    <2> QED BY <2>1, <2>2, Zenon DEF CustomsOf
<1>2. ASSUME NEW z \in CustomsOf(c, n)
      PROVE  \E e, k : CustomHas(c, e, k, n) /\ z = Pair(e, k)
    <2>1. PICK e \in Exports : c[e].at = "write" /\ z \in {Pair(e, k) : k \in QueueOf(c[e].metrics, n)}
        BY Zenon DEF CustomsOf
    <2>2. PICK k \in QueueOf(c[e].metrics, n) : z = Pair(e, k)
        BY <2>1, Zenon
    <2>3. CustomHas(c, e, k, n)
        BY <2>1, <2>2, Zenon DEF QueueOf, CustomHas
    <2> QED BY <2>2, <2>3, Zenon
<1> QED BY <1>1, <1>2, Zenon

(* None or one of the positions in the exports has a custom metric. *)
LEMMA CustomsFacts ==
    ASSUME NEW c, NEW n
    PROVE  /\ CustomsOf(c, n) = {} <=> \A e, k : ~CustomHas(c, e, k, n)
           /\ One(CustomsOf(c, n)) <=>
                 \E e, k : /\ CustomHas(c, e, k, n)
                         /\ \A f, j : CustomHas(c, f, j, n) => f = e /\ j = k
<1>1. \A e, k : CustomHas(c, e, k, n) => Pair(e, k) \in CustomsOf(c, n)
    BY InCustomsOf, Zenon
<1>2. \A z \in CustomsOf(c, n) : \E e, k : CustomHas(c, e, k, n) /\ z = Pair(e, k)
    BY InCustomsOf
<1>3. ASSUME One(CustomsOf(c, n))
      PROVE  \E e, k : /\ CustomHas(c, e, k, n)
                     /\ \A f, j : CustomHas(c, f, j, n) => f = e /\ j = k
    <2>1. PICK z \in CustomsOf(c, n) : \A y \in CustomsOf(c, n) : y = z
        BY <1>3, Zenon DEF One
    <2>2. PICK e, k : CustomHas(c, e, k, n) /\ z = Pair(e, k)
        BY <1>2, <2>1, Zenon
    <2>3. \A f, j : CustomHas(c, f, j, n) => Pair(f, j) = Pair(e, k)
        BY <1>1, <2>1, <2>2, Zenon
    <2>4. ASSUME NEW f, NEW j, CustomHas(c, f, j, n)
          PROVE  f = e /\ j = k
        <3>1. Pair(f, j) = Pair(e, k)
            BY <2>3, <2>4, Zenon
        <3> QED BY <3>1, Pairs
    <2> QED BY <2>2, <2>4
<1>4. ASSUME NEW e, NEW k, CustomHas(c, e, k, n),
             \A f, j : CustomHas(c, f, j, n) => f = e /\ j = k
      PROVE  One(CustomsOf(c, n))
    <2>1. Pair(e, k) \in CustomsOf(c, n)
        BY <1>1, <1>4, Zenon
    <2>2. \A z \in CustomsOf(c, n) : z = Pair(e, k)
        BY <1>2, <1>4, Zenon
    <2> QED BY <2>1, <2>2, Zenon DEF One
<1>5. CustomsOf(c, n) = {} <=> \A e, k : ~CustomHas(c, e, k, n)
    BY <1>1, <1>2, Zenon
<1> QED BY <1>3, <1>4, <1>5, Zenon

(* Exports that have a custom metric in the same positions. *)
LEMMA SameCustomsOf ==
    ASSUME NEW c, NEW c2, NEW n,
           \A e, k : CustomHas(c2, e, k, n) <=> CustomHas(c, e, k, n)
    PROVE  CustomsOf(c2, n) = CustomsOf(c, n)
<1>1. /\ \A e, k : CustomHas(c, e, k, n) => Pair(e, k) \in CustomsOf(c, n)
      /\ \A e, k : CustomHas(c2, e, k, n) => Pair(e, k) \in CustomsOf(c2, n)
    BY InCustomsOf, Zenon
<1>2. /\ \A z \in CustomsOf(c, n) : \E e, k : CustomHas(c, e, k, n) /\ z = Pair(e, k)
      /\ \A z \in CustomsOf(c2, n) : \E e, k : CustomHas(c2, e, k, n) /\ z = Pair(e, k)
    BY InCustomsOf
<1>3. ASSUME NEW z \in CustomsOf(c, n) PROVE z \in CustomsOf(c2, n)
    <2>1. PICK e, k : CustomHas(c, e, k, n) /\ z = Pair(e, k)
        BY <1>2, Zenon
    <2>2. Pair(e, k) \in CustomsOf(c2, n)
        BY <1>1, <2>1, Zenon
    <2> QED BY <2>1, <2>2, Zenon
<1>4. ASSUME NEW z \in CustomsOf(c2, n) PROVE z \in CustomsOf(c, n)
    <2>1. PICK e, k : CustomHas(c2, e, k, n) /\ z = Pair(e, k)
        BY <1>2, Zenon
    <2>2. Pair(e, k) \in CustomsOf(c, n)
        BY <1>1, <2>1, Zenon
    <2> QED BY <2>1, <2>2, Zenon
<1> QED BY <1>3, <1>4, Zenon

(* The numbers of a sequence are those that have a position in it. *)
LEMMA IDsAndPositions ==
    ASSUME NEW q, NEW n
    PROVE  n \in IDs(q) <=> QueueOf(q, n) # {}
BY Zenon DEF IDs, QueueOf

(* A number in a set is there once. *)
LEMMA OneLost ==
    ASSUME NEW L, NEW n \in L
    PROVE  One(LostOf(L, n))
<1>1. n \in LostOf(L, n) /\ \A a \in LostOf(L, n) : a = n
    BY Zenon DEF LostOf
<1> QED BY <1>1, Zenon DEF One

(* WriteCustomMetrics puts a metric in the queue, ... *)
LEMMA WriteCustomMoves ==
    ASSUME NEW q \in Seq(CustomMetrics), NEW x, NEW n
    PROVE  /\ n # x.id => QueueOf(Append(q, x), n) = QueueOf(q, n)
           /\ n = x.id /\ QueueOf(q, n) = {} => One(QueueOf(Append(q, x), n))
<1> DEFINE r == Append(q, x)
           m == Len(q) + 1
<1>1. /\ m \notin DOMAIN q /\ \A k : k \in DOMAIN r <=> k \in DOMAIN q \/ k = m
      /\ r[m] = x /\ \A k \in DOMAIN q : r[k] = q[k]
    OBVIOUS
<1> HIDE DEF r, m
<1>2. \A k : k \in QueueOf(r, n) <=> k \in QueueOf(q, n) \/ (k = m /\ n = x.id)
    <2> SUFFICES ASSUME NEW k
                 PROVE  k \in QueueOf(r, n) <=> k \in QueueOf(q, n) \/ (k = m /\ n = x.id)
        BY Zenon
    <2>1. CASE k = m
        BY <1>1, <2>1, Zenon DEF QueueOf
    <2>2. CASE k # m
        BY <1>1, <2>2, Zenon DEF QueueOf
    <2> QED BY <2>1, <2>2, Zenon
<1>3. ASSUME n # x.id PROVE QueueOf(r, n) = QueueOf(q, n)
    BY <1>2, <1>3, Zenon
<1>4. ASSUME n = x.id, QueueOf(q, n) = {} PROVE One(QueueOf(r, n))
    <2>1. m \in QueueOf(r, n)
        BY <1>2, <1>4, Zenon
    <2>2. \A k \in QueueOf(r, n) : k = m
        BY <1>2, <1>4, Zenon
    <2> QED BY <2>1, <2>2, Zenon DEF One
<1> QED BY <1>3, <1>4, Zenon DEF r

(* ... TakeQueue takes it to an export, ... *)
LEMMA TakeMoves ==
    ASSUME NEW c, NEW d, NEW f \in Exports, NEW q, NEW n, c[f].at # "write",
           \A e \in Exports : e # f => d[e] = c[e],
           (q = <<>> /\ d[f].at # "write") \/ (d[f].at = "write" /\ d[f].metrics = q)
    PROVE  Moves(QueueOf(q, n), CustomsOf(c, n), QueueOf(<<>>, n), CustomsOf(d, n))
<1>1. QueueOf(<<>>, n) = {}
    BY DEF QueueOf
<1>2. \A e, k : CustomHas(d, e, k, n) <=> CustomHas(c, e, k, n) \/ (e = f /\ k \in QueueOf(q, n))
    <2> SUFFICES ASSUME NEW e, NEW k
                 PROVE  CustomHas(d, e, k, n)
                          <=> CustomHas(c, e, k, n) \/ (e = f /\ k \in QueueOf(q, n))
        BY Zenon
    <2>1. CASE e # f
        BY <2>1, Zenon DEF CustomHas
    <2>2. CASE e = f /\ q = <<>> /\ d[f].at # "write"
        BY <1>1, <2>2, Zenon DEF CustomHas
    <2>3. CASE e = f /\ d[f].at = "write" /\ d[f].metrics = q
        BY <2>3, Zenon DEF CustomHas, QueueOf
    <2> QED BY <2>1, <2>2, <2>3, Zenon
<1>3. ASSUME QueueOf(q, n) = {} PROVE CustomsOf(d, n) = CustomsOf(c, n)
    <2>1. \A e, k : CustomHas(d, e, k, n) <=> CustomHas(c, e, k, n)
        BY <1>2, <1>3, Zenon
    <2> QED BY <2>1, SameCustomsOf, Zenon
<1>4. ASSUME One(QueueOf(q, n)), CustomsOf(c, n) = {} PROVE One(CustomsOf(d, n))
    <2>1. PICK m \in QueueOf(q, n) : \A k \in QueueOf(q, n) : k = m
        BY <1>4, Zenon DEF One
    <2>2. \A e, k : ~CustomHas(c, e, k, n)
        BY <1>4, CustomsFacts, Zenon
    <2>3. CustomHas(d, f, m, n)
        BY <1>2, <2>1, Zenon
    <2>4. \A e, k : CustomHas(d, e, k, n) => e = f /\ k = m
        BY <1>2, <2>1, <2>2, Zenon
    <2> QED BY <2>3, <2>4, CustomsFacts
<1> QED BY <1>1, <1>3, <1>4, Zenon DEF Moves

(* The metrics of an export that are stored, and those that are dropped. *)
SplitMoves(A, B, C, A2, B2, C2) ==
    \/ Moves(A, B, A2, B2) /\ C2 = C
    \/ Moves(A, C, A2, C2) /\ B2 = B
AtMostOne(A) == A = {} \/ One(A)
Entries(s) == {s[k] : k \in DOMAIN s}
StoredOf(s, ok) == {x.id : x \in {y \in Entries(s) : ok /\ y.valid}}
DroppedOf(s, ok) == {x.id : x \in Entries(s) \ {y \in Entries(s) : ok /\ y.valid}}

(* ... and exportCustomMetrics to one of what is stored and what is        *)
(* dropped: not to both, as the export has it once.                        *)
LEMMA ExportCustomMoves ==
    ASSUME NEW c \in [Exports -> CustomStates],
           NEW f \in Exports, NEW ok \in BOOLEAN, NEW S, NEW D, NEW n, c[f].at = "write",
           AtMostOne(CustomsOf(c, n)), NEW d, d = [c EXCEPT ![f] = Idle],
           NEW S2, S2 = S \union StoredOf(c[f].metrics, ok),
           NEW D2, D2 = D \union DroppedOf(c[f].metrics, ok)
    PROVE  SplitMoves(CustomsOf(c, n), LostOf(S, n), LostOf(D, n),
                      CustomsOf(d, n), LostOf(S2, n), LostOf(D2, n))
<1> DEFINE s == c[f].metrics
           Good(k) == ok /\ s[k].valid
           G == StoredOf(s, ok)
           B == DroppedOf(s, ok)
<1>1. d[f] = Idle /\ \A e \in Exports : e # f => d[e] = c[e]
    BY Zenon
<1>2. Idle.at # "write"
    BY Zenon DEF Idle
<1>3. \A e, k : CustomHas(d, e, k, n) <=> CustomHas(c, e, k, n) /\ e # f
    <2> SUFFICES ASSUME NEW e, NEW k
                 PROVE  CustomHas(d, e, k, n) <=> CustomHas(c, e, k, n) /\ e # f
        BY Zenon
    <2>1. CASE e = f
        BY <1>1, <1>2, <2>1, Zenon DEF CustomHas
    <2>2. CASE e # f
        BY <1>1, <2>2, Zenon DEF CustomHas
    <2> QED BY <2>1, <2>2, Zenon
<1>4. n \in G <=> \E k : CustomHas(c, f, k, n) /\ Good(k)
    BY Zenon DEF CustomHas, StoredOf, Entries
<1>5. n \in B <=> \E k : CustomHas(c, f, k, n) /\ ~Good(k)
    BY Zenon DEF CustomHas, DroppedOf, Entries
<1>6. /\ n \in G <=> \E k : CustomHas(c, f, k, n) /\ Good(k)
      /\ n \in B <=> \E k : CustomHas(c, f, k, n) /\ ~Good(k)
    BY <1>4, <1>5, Zenon
<1>7. S2 = S \union G /\ D2 = D \union B
    BY Zenon
<1> HIDE DEF G, B, Good, s
<1>8. CASE \A k : ~CustomHas(c, f, k, n)
    <2>1. \A e, k : CustomHas(d, e, k, n) <=> CustomHas(c, e, k, n)
        BY <1>3, <1>8, Zenon
    <2>2. CustomsOf(d, n) = CustomsOf(c, n)
        BY <2>1, SameCustomsOf, Zenon
    <2>3. n \notin G /\ n \notin B
        BY <1>6, <1>8, Zenon
    <2>4. LostOf(S2, n) = LostOf(S, n) /\ LostOf(D2, n) = LostOf(D, n)
        BY <1>7, <2>3, Zenon DEF LostOf
    <2>5. Moves(CustomsOf(c, n), LostOf(S, n), CustomsOf(d, n), LostOf(S2, n))
        BY <2>2, <2>4, Zenon DEF Moves
    <2> QED BY <2>4, <2>5, Zenon DEF SplitMoves
<1>9. ASSUME NEW k, CustomHas(c, f, k, n)
      PROVE  SplitMoves(CustomsOf(c, n), LostOf(S, n), LostOf(D, n),
                        CustomsOf(d, n), LostOf(S2, n), LostOf(D2, n))
    <2>1. CustomsOf(c, n) # {}
        BY <1>9, CustomsFacts, Zenon
    <2>2. \A e, j : CustomHas(c, e, j, n) => e = f /\ j = k
        BY <1>9, <2>1, CustomsFacts DEF AtMostOne
    <2>3. \A e, j : ~CustomHas(d, e, j, n)
        BY <1>3, <2>2, Zenon
    <2>4. CustomsOf(d, n) = {}
        BY <2>3, CustomsFacts, Zenon
    <2>5. CASE Good(k)
        <3>1. n \in G /\ n \notin B
            BY <1>6, <1>9, <2>2, <2>5, Zenon
        <3>2. n \in S2 /\ (n \in D2 <=> n \in D)
            BY <1>7, <3>1, Zenon
        <3>3. LostOf(D2, n) = LostOf(D, n)
            BY <3>2, Zenon DEF LostOf
        <3>4. One(LostOf(S2, n))
            BY <3>2, OneLost, Zenon
        <3> QED BY <2>1, <2>4, <3>3, <3>4, Zenon DEF Moves, SplitMoves
    <2>6. CASE ~Good(k)
        <3>1. n \in B /\ n \notin G
            BY <1>6, <1>9, <2>2, <2>6, Zenon
        <3>2. n \in D2 /\ (n \in S2 <=> n \in S)
            BY <1>7, <3>1, Zenon
        <3>3. LostOf(S2, n) = LostOf(S, n)
            BY <3>2, Zenon DEF LostOf
        <3>4. One(LostOf(D2, n))
            BY <3>2, OneLost, Zenon
        <3> QED BY <2>1, <2>4, <3>3, <3>4, Zenon DEF Moves, SplitMoves
    <2> QED BY <2>5, <2>6, Zenon
<1> QED BY <1>8, <1>9, Zenon

(* A custom metric that is in one place, and one that is in none. *)
OneMetric(n) ==
    OneOf(QueueOf(queue, n), CustomsOf(customs, n), LostOf(stored, n), LostOf(dropped, n), {})
NoMetric(n) ==
    NoneOf(QueueOf(queue, n), CustomsOf(customs, n), LostOf(stored, n), LostOf(dropped, n), {})

(* The invariant behind MetricsOnce. *)
CustomsInv ==
    /\ queue \in Seq(CustomMetrics)
    /\ customs \in [Exports -> CustomStates]
    /\ metrics \in Nat
    /\ \A n \in Nat : (n \in 1 .. metrics => OneMetric(n)) /\ (n > metrics => NoMetric(n))

(* No custom metric is written when the process starts. *)
LEMMA CustomsInit == Init => CustomsInv
<1> SUFFICES ASSUME Init PROVE CustomsInv
    BY Zenon
<1>1. queue = <<>> /\ queue \in Seq(CustomMetrics) /\ metrics \in Nat
    BY DEF Init
<1>2. customs \in [Exports -> CustomStates]
    BY Zenon DEF Init, CustomStates
<1>3. ASSUME NEW n \in Nat PROVE n \notin 1 .. metrics /\ NoMetric(n)
    <2>1. n \notin 1 .. metrics
        BY DEF Init
    <2>2. QueueOf(queue, n) = {}
        BY <1>1 DEF QueueOf
    <2>3. CustomsOf(customs, n) = {}
        <3>1. \A e \in Exports : customs[e] = Idle
            BY Zenon DEF Init
        <3>2. Idle.at # "write"
            BY Zenon DEF Idle
        <3>3. \A e, k : ~CustomHas(customs, e, k, n)
            BY <3>1, <3>2, Zenon DEF CustomHas
        <3> QED BY <3>3, CustomsFacts, Zenon
    <2>4. LostOf(stored, n) = {} /\ LostOf(dropped, n) = {}
        BY Zenon DEF Init, LostOf
    <2> QED BY <2>1, <2>2, <2>3, <2>4, Zenon DEF NoMetric, NoneOf
<1> QED BY <1>1, <1>2, <1>3, Zenon DEF CustomsInv

(* An action that writes no metric keeps the invariant if it leaves each   *)
(* metric in one place.                                                    *)
LEMMA MetricsKept ==
    ASSUME CustomsInv, metrics' = metrics, queue' \in Seq(CustomMetrics),
           customs' \in [Exports -> CustomStates],
           \A n : (OneMetric(n) => OneMetric(n)') /\ (NoMetric(n) => NoMetric(n)')
    PROVE  CustomsInv'
BY Zenon DEF CustomsInv

(* Every step of the Exporter leaves each custom metric in one place. *)
LEMMA CustomsStep == CustomsInv /\ [Next]_vars => CustomsInv'
<1> SUFFICES ASSUME CustomsInv, [Next]_vars PROVE CustomsInv'
    BY Zenon
<1>0. queue \in Seq(CustomMetrics) /\ customs \in [Exports -> CustomStates] /\ metrics \in Nat
    BY Zenon DEF CustomsInv
<1>a. Idle \in CustomStates /\ [at |-> "take"] \in CustomStates /\ <<>> \in Seq(CustomMetrics)
    BY DEF CustomStates
<1>1. ASSUME NEW valid \in BOOLEAN, WriteCustomMetrics(valid)
      PROVE  CustomsInv'
    <2> DEFINE x == [id |-> metrics + 1, valid |-> valid]
    <2>1. x \in CustomMetrics /\ x.id = metrics + 1
        BY <1>0 DEF CustomMetrics
    <2> HIDE DEF x
    <2>2. /\ queue' = Append(queue, x) /\ metrics' = metrics + 1
          /\ UNCHANGED <<customs, stored, dropped>>
        BY <1>1, Zenon DEF WriteCustomMetrics, x
    <2>3. queue' \in Seq(CustomMetrics) /\ metrics' \in Nat
        BY <1>0, <2>1, <2>2
    <2>4. ASSUME NEW n \in Nat
          PROVE  (n \in 1 .. metrics' => OneMetric(n)') /\ (n > metrics' => NoMetric(n)')
        <3>1. /\ n # metrics + 1 => QueueOf(queue', n) = QueueOf(queue, n)
              /\ n = metrics + 1 /\ QueueOf(queue, n) = {} => One(QueueOf(queue', n))
            BY <1>0, <2>1, <2>2, WriteCustomMoves, Zenon
        <3>2. CASE n = metrics + 1
            <4>1. n > metrics /\ ~(n > metrics')
                BY <1>0, <2>2, <3>2
            <4>2. NoMetric(n)
                BY <4>1, Zenon DEF CustomsInv
            <4>3. UNCHANGED <<customs, stored, dropped>>
                BY <2>2, Zenon
            <4>4. OneMetric(n)'
                BY <3>1, <3>2, <4>2, <4>3, Zenon DEF OneMetric, NoMetric, OneOf, NoneOf
            <4> QED BY <4>1, <4>4, Zenon
        <3>3. CASE n # metrics + 1
            <4>1. (OneMetric(n)' <=> OneMetric(n)) /\ (NoMetric(n)' <=> NoMetric(n))
                BY <2>2, <3>1, <3>3, Zenon DEF OneMetric, NoMetric
            <4>2. (n \in 1 .. metrics' => n \in 1 .. metrics) /\ (n > metrics' => n > metrics)
                BY <1>0, <2>2, <3>3
            <4> QED BY <4>1, <4>2, Zenon DEF CustomsInv
        <3> QED BY <3>2, <3>3, Zenon
    <2> QED BY <1>0, <2>2, <2>3, <2>4, Zenon DEF CustomsInv
<1>2. ASSUME NEW f \in Exports, TakeQueue(f)
      PROVE  CustomsInv'
    <2> DEFINE r == IF queue = <<>> THEN Idle ELSE [at |-> "write", metrics |-> queue]
    <2>1. /\ customs[f].at = "take" /\ customs' = [customs EXCEPT ![f] = r]
          /\ queue' = <<>> /\ UNCHANGED <<metrics, stored, dropped>>
        BY <1>2, Zenon DEF TakeQueue
    <2>2. r \in CustomStates
        BY <1>0, Zenon DEF CustomWrites, CustomStates
    <2>3. (queue = <<>> /\ r.at # "write") \/ (r.at = "write" /\ r.metrics = queue)
        BY Zenon DEF Idle
    <2> HIDE DEF r
    <2>4. /\ customs' \in [Exports -> CustomStates] /\ customs'[f] = r
          /\ \A e \in Exports : e # f => customs'[e] = customs[e]
        BY <1>0, <2>1, <2>2, Zenon
    <2>5. customs[f].at # "write"
        BY <2>1, Zenon
    <2>6. ASSUME NEW n
          PROVE  (OneMetric(n) => OneMetric(n)') /\ (NoMetric(n) => NoMetric(n)')
        <3>1. Moves(QueueOf(queue, n), CustomsOf(customs, n), QueueOf(<<>>, n), CustomsOf(customs', n))
            BY <2>3, <2>4, <2>5, TakeMoves, Zenon
        <3>2. queue' = <<>> /\ UNCHANGED <<stored, dropped>>
            BY <2>1, Zenon
        <3> QED BY <3>1, <3>2, Zenon DEF OneMetric, NoMetric, OneOf, NoneOf, Moves
    <2> QED BY <1>a, <2>1, <2>4, <2>6, MetricsKept, Zenon
<1>3. ASSUME NEW f \in Exports, NEW ok \in BOOLEAN, exportCustomMetrics(f, ok)
      PROVE  CustomsInv'
    <2>1. /\ customs[f].at = "write" /\ customs' = [customs EXCEPT ![f] = Idle]
          /\ stored' = stored \union StoredOf(customs[f].metrics, ok)
          /\ dropped' = dropped \union DroppedOf(customs[f].metrics, ok)
          /\ UNCHANGED <<queue, metrics>>
        BY <1>3, Zenon DEF exportCustomMetrics, StoredOf, DroppedOf, Entries
    <2>2. customs' \in [Exports -> CustomStates]
        BY <1>0, <1>a, <2>1, Zenon
    <2>3. ASSUME NEW n
          PROVE  (OneMetric(n) => OneMetric(n)') /\ (NoMetric(n) => NoMetric(n)')
        <3> SUFFICES ASSUME AtMostOne(CustomsOf(customs, n))
                     PROVE  (OneMetric(n) => OneMetric(n)') /\ (NoMetric(n) => NoMetric(n)')
            BY Zenon DEF OneMetric, NoMetric, OneOf, NoneOf, AtMostOne
        <3>1. SplitMoves(CustomsOf(customs, n), LostOf(stored, n), LostOf(dropped, n),
                         CustomsOf(customs', n), LostOf(stored', n), LostOf(dropped', n))
            BY <1>0, <2>1, ExportCustomMoves, Zenon
        <3>2. UNCHANGED queue
            BY <2>1, Zenon
        <3> QED BY <3>1, <3>2, Zenon DEF OneMetric, NoMetric, OneOf, NoneOf, Moves, SplitMoves
    <2> QED BY <1>0, <2>1, <2>2, <2>3, MetricsKept, Zenon
<1>4. CASE Discard
    <2> DEFINE I == {queue[k].id : k \in DOMAIN queue}
    <2>1. /\ dropped' = dropped \union I /\ queue' = <<>>
          /\ UNCHANGED <<customs, metrics, stored>>
        BY <1>4, Zenon DEF Discard
    <2>2. ASSUME NEW n
          PROVE  (OneMetric(n) => OneMetric(n)') /\ (NoMetric(n) => NoMetric(n)')
        <3>1. n \in I <=> QueueOf(queue, n) # {}
            BY IDsAndPositions, Zenon DEF IDs
        <3>2. QueueOf(queue', n) = {}
            BY <2>1 DEF QueueOf
        <3> HIDE DEF I
        <3>3. QueueOf(queue, n) = {} => LostOf(dropped', n) = LostOf(dropped, n)
            BY <2>1, <3>1, Zenon DEF LostOf
        <3>4. One(QueueOf(queue, n)) => One(LostOf(dropped', n))
            <4>1. One(QueueOf(queue, n)) => n \in dropped'
                BY <2>1, <3>1, Zenon DEF One
            <4> QED BY <4>1, OneLost, Zenon
        <3>5. UNCHANGED <<customs, stored>>
            BY <2>1, Zenon
        <3> QED BY <3>2, <3>3, <3>4, <3>5, Zenon DEF OneMetric, NoMetric, OneOf, NoneOf
    <2> QED BY <1>0, <1>a, <2>1, <2>2, MetricsKept, Zenon
<1>5. ASSUME NEW e \in Exports, NEW f \in Exports, Tick(e, f)
      PROVE  CustomsInv'
    <2> DEFINE r == [at |-> "take"]
    <2>1. r.at # "write" /\ Idle.at # "write"
        BY Zenon DEF Idle
    <2>2. /\ customs[f] = Idle /\ customs' = [customs EXCEPT ![f] = r]
          /\ UNCHANGED <<queue, metrics, stored, dropped>>
        BY <1>5, Zenon DEF Tick
    <2>3. r \in CustomStates
        BY <1>a, Zenon
    <2> HIDE DEF r
    <2>4. /\ customs' \in [Exports -> CustomStates] /\ customs'[f] = r
          /\ \A g \in Exports : g # f => customs'[g] = customs[g]
        BY <1>0, <2>2, <2>3, Zenon
    <2>5. ASSUME NEW n
          PROVE  (OneMetric(n) => OneMetric(n)') /\ (NoMetric(n) => NoMetric(n)')
        <3>1. \A g, k : CustomHas(customs', g, k, n) <=> CustomHas(customs, g, k, n)
            <4> SUFFICES ASSUME NEW g, NEW k
                         PROVE  CustomHas(customs', g, k, n) <=> CustomHas(customs, g, k, n)
                BY Zenon
            <4>1. CASE g = f
                BY <2>1, <2>2, <2>4, <4>1, Zenon DEF CustomHas
            <4>2. CASE g # f
                BY <2>4, <4>2, Zenon DEF CustomHas
            <4> QED BY <4>1, <4>2, Zenon
        <3>2. CustomsOf(customs', n) = CustomsOf(customs, n)
            BY <3>1, SameCustomsOf, Zenon
        <3> QED BY <2>2, <3>2, Zenon DEF OneMetric, NoMetric
    <2> QED BY <1>0, <2>2, <2>4, <2>5, MetricsKept, Zenon
<1>6. CASE UNCHANGED customVars
    <2>1. UNCHANGED <<queue, customs, metrics, stored, dropped>>
        BY <1>6, Zenon DEF customVars
    <2> QED BY <2>1, Zenon DEF CustomsInv, OneMetric, NoMetric
<1>7. ASSUME NEW i \in Measurers,
             aggregate(i) \/ \E t \in Topics, y \in Latencies : RecordLatency(i, t, y)
      PROVE  CustomsInv'
    BY <1>6, <1>7, Zenon DEF aggregate, RecordLatency
<1>8. ASSUME NEW e \in Exports, collectLatencies(e) \/ \E ok \in BOOLEAN : exportLatencies(e, ok)
      PROVE  CustomsInv'
    BY <1>6, <1>8, Zenon DEF collectLatencies, exportLatencies
<1>9. CASE Cancel \/ (\E x \in running : Stop(x)) \/ UNCHANGED vars
    BY <1>6, <1>9, Zenon DEF Cancel, Stop, vars
<1> QED BY <1>1, <1>2, <1>3, <1>4, <1>5, <1>7, <1>8, <1>9, Zenon DEF Next

(* An export has a metric, or none, when it has one position of it. *)
LEMMA CustomsCounted ==
    ASSUME NEW c, NEW n
    PROVE  LET W == {e \in Exports : c[e].at = "write" /\ n \in IDs(c[e].metrics)}
           IN  (CustomsOf(c, n) = {} => W = {}) /\ (One(CustomsOf(c, n)) => One(W))
<1> DEFINE W == {e \in Exports : c[e].at = "write" /\ n \in IDs(c[e].metrics)}
<1>1. \A e : e \in W <=> \E k : CustomHas(c, e, k, n)
    BY Zenon DEF IDs, CustomHas
<1> HIDE DEF W
<1>2. ASSUME CustomsOf(c, n) = {} PROVE W = {}
    <2>1. \A e, k : ~CustomHas(c, e, k, n)
        BY <1>2, CustomsFacts, Zenon
    <2> QED BY <1>1, <2>1, Zenon
<1>3. ASSUME One(CustomsOf(c, n)) PROVE One(W)
    <2>1. PICK e, k : CustomHas(c, e, k, n) /\ \A f, j : CustomHas(c, f, j, n) => f = e /\ j = k
        BY <1>3, CustomsFacts, Zenon
    <2>2. e \in W /\ \A f \in W : f = e
        BY <1>1, <2>1, Zenon
    <2> QED BY <2>2, Zenon DEF One
<1> QED BY <1>2, <1>3, Zenon DEF W

(* Every custom metric is in the queue, in one export, stored or dropped, *)
(* and not in two of them, for every number of exports.                   *)
THEOREM MetricsCountedOnce == Spec => []MetricsOnce
<1>1. CustomsInv => MetricsOnce
    <2> SUFFICES ASSUME CustomsInv, NEW n \in 1 .. metrics
                 PROVE  Cardinality({k \in DOMAIN queue : queue[k].id = n})
                          + Cardinality({e \in Exports : customs[e].at = "write" /\ n \in IDs(customs[e].metrics)})
                          + Cardinality({n} \intersect stored) + Cardinality({n} \intersect dropped) = 1
        BY Zenon DEF MetricsOnce
    <2> DEFINE W == {e \in Exports : customs[e].at = "write" /\ n \in IDs(customs[e].metrics)}
    <2>1. n \in Nat
        BY DEF CustomsInv
    <2>2. OneMetric(n)
        BY <2>1, Zenon DEF CustomsInv
    <2>3. (CustomsOf(customs, n) = {} => W = {}) /\ (One(CustomsOf(customs, n)) => One(W))
        BY CustomsCounted, Zenon
    <2>4. {n} \intersect stored = LostOf(stored, n) /\ {n} \intersect dropped = LostOf(dropped, n)
        BY Zenon DEF LostOf
    <2>5. {k \in DOMAIN queue : queue[k].id = n} = QueueOf(queue, n)
        BY Zenon DEF QueueOf
    <2> HIDE DEF W
    <2>6. OneOf(QueueOf(queue, n), W, LostOf(stored, n), LostOf(dropped, n), {})
        BY <2>2, <2>3, Zenon DEF OneMetric, OneOf
    <2>7. /\ Cardinality(QueueOf(queue, n)) + Cardinality(W) + Cardinality(LostOf(stored, n))
               + Cardinality(LostOf(dropped, n)) + Cardinality({}) = 1
          /\ Cardinality({}) = 0
        BY <2>6, OneIsCounted, FS_EmptySet
    <2>8. Cardinality(QueueOf(queue, n)) \in Nat /\ Cardinality(W) \in Nat
            /\ Cardinality(LostOf(stored, n)) \in Nat /\ Cardinality(LostOf(dropped, n)) \in Nat
        <3>1. \A S : S = {} \/ One(S) => Cardinality(S) \in Nat
            <4>1. Cardinality({}) \in Nat
                BY FS_EmptySet
            <4>2. ASSUME NEW S, NEW a, S = {a} PROVE Cardinality(S) \in Nat
                BY <4>2, FS_Singleton
            <4> QED BY <4>1, <4>2, Zenon DEF One
        <3> QED BY <2>6, <3>1, Zenon DEF OneOf
    <2>9. Cardinality(QueueOf(queue, n)) + Cardinality(W) + Cardinality(LostOf(stored, n))
            + Cardinality(LostOf(dropped, n)) = 1
        BY <2>7, <2>8
    <2> QED BY <2>4, <2>5, <2>9, Zenon DEF W
<1> QED BY <1>1, CustomsInit, CustomsStep, PTL DEF Spec
=============================================================================
