-------------------------- MODULE StatisticsProofs --------------------------
(***************************************************************************)
(* The int arithmetic of the percentiles, for every number of samples a    *)
(* program can collect.                                                    *)
(***************************************************************************)
EXTENDS Statistics, SumTheorems

Recorders == {BookRecorder, RingRecorder, QueueRecorder, NumaRecorder}

\* Those LatencyStatistics reports; the recorders report some of them.
AllFractions == {Median, <<3, 4>>, <<9, 10>>, P99, P999, <<9999, 10000>>}

LEMMA Fractions ==
  /\ \A r \in Recorders : r.max <= 1000000 /\ r.fractions \subseteq {Median, P99, P999}
  /\ \A r \in Recorders : r.max \in Nat
  /\ LatencyStatistics.fractions = AllFractions
  BY DEF AllFractions, Recorders, BookRecorder, RingRecorder, QueueRecorder, NumaRecorder, LatencyStatistics

(* A product that fits is exact, and its rank is the quotient.              *)
LEMMA FittingProduct ==
  ASSUME NEW n \in Nat, NEW k \in Nat, NEW d \in Nat \ {0}, n * k <= INT_MAX
  PROVE  Product(n, <<k, d>>) = n * k /\ Rank(n, <<k, d>>) = (n * k) \div d
<1>1. PICK p \in Nat : p = n * k
  OBVIOUS
<1>2. <<k, d>>[1] = k /\ <<k, d>>[2] = d
  OBVIOUS
<1>3. Product(n, <<k, d>>) = p
  BY <1>1, <1>2 DEF Product
<1>4. p >= 0
  BY <1>1
<1>5. QED
  BY <1>1, <1>2, <1>3, <1>4 DEF Rank

(* The fractions that fit: all up to RANKED_SAMPLES, those of the recorders *)
(* up to 1000000.                                                           *)
LEMMA Products ==
  ASSUME NEW n \in Nat, n <= 1000000
  PROVE  /\ n * 1 <= INT_MAX /\ n * 3 <= INT_MAX /\ n * 9 <= INT_MAX
         /\ n * 99 <= INT_MAX /\ n * 999 <= INT_MAX
         /\ n <= RANKED_SAMPLES => n * 9999 <= INT_MAX
  BY SMT DEF INT_MAX, RANKED_SAMPLES

(* The ranks of all fractions the classes use, written out.                 *)
LEMMA Ranks ==
  ASSUME NEW n \in Nat, n <= 1000000
  PROVE  /\ Rank(n, Median) = n \div 2
         /\ Rank(n, <<3, 4>>) = (n * 3) \div 4
         /\ Rank(n, <<9, 10>>) = (n * 9) \div 10
         /\ Rank(n, P99) = (n * 99) \div 100
         /\ Rank(n, P999) = (n * 999) \div 1000
         /\ n <= RANKED_SAMPLES => Rank(n, <<9999, 10000>>) = (n * 9999) \div 10000
<1>1. Rank(n, <<1, 2>>) = (n * 1) \div 2
  <2>1. n * 1 <= INT_MAX /\ 1 \in Nat /\ 2 \in Nat \ {0}
    BY Products
  <2>2. QED
    BY ONLY <2>1, FittingProduct, n \in Nat
<1>2. Rank(n, <<3, 4>>) = (n * 3) \div 4
  BY Products, FittingProduct, SMT
<1>3. Rank(n, <<9, 10>>) = (n * 9) \div 10
  BY Products, FittingProduct, SMT
<1>4. Rank(n, <<99, 100>>) = (n * 99) \div 100
  BY Products, FittingProduct, SMT
<1>5. Rank(n, <<999, 1000>>) = (n * 999) \div 1000
  BY Products, FittingProduct, SMT
<1>6. n <= RANKED_SAMPLES => Rank(n, <<9999, 10000>>) = (n * 9999) \div 10000
  BY Products, FittingProduct, SMT
<1>7. n * 1 = n
  OBVIOUS
<1>8. QED
  BY <1>1, <1>2, <1>3, <1>4, <1>5, <1>6, <1>7 DEF Median, P99, P999

LEMMA RanksOrdered ==
  ASSUME NEW n \in Nat, n > 0, n <= RANKED_SAMPLES
  PROVE  /\ Rank(n, Median) <= Rank(n, <<3, 4>>)
         /\ Rank(n, <<3, 4>>) <= Rank(n, <<9, 10>>)
         /\ Rank(n, <<9, 10>>) <= Rank(n, P99)
         /\ Rank(n, P99) <= Rank(n, P999)
         /\ Rank(n, P999) <= Rank(n, <<9999, 10000>>)
<1>1. n \div 2 <= (n * 3) \div 4
  OBVIOUS
<1>2. (n * 3) \div 4 <= (n * 9) \div 10
  OBVIOUS
<1>3. (n * 9) \div 10 <= (n * 99) \div 100
  OBVIOUS
<1>4. (n * 99) \div 100 <= (n * 999) \div 1000
  OBVIOUS
<1>5. (n * 999) \div 1000 <= (n * 9999) \div 10000
  OBVIOUS
<1>6. n <= 1000000
  BY SMT DEF RANKED_SAMPLES
<1>7. /\ Rank(n, Median) = n \div 2
      /\ Rank(n, <<3, 4>>) = (n * 3) \div 4
      /\ Rank(n, <<9, 10>>) = (n * 9) \div 10
      /\ Rank(n, P99) = (n * 99) \div 100
      /\ Rank(n, P999) = (n * 999) \div 1000
      /\ Rank(n, <<9999, 10000>>) = (n * 9999) \div 10000
  BY <1>6, Ranks, SMT
<1>8. QED
  BY ONLY <1>1, <1>2, <1>3, <1>4, <1>5, <1>7

(* Every rank that is reported is the index of a sample.                    *)
LEMMA RanksInside ==
  ASSUME NEW n \in Nat, n > 0, n <= 1000000,
         NEW f \in AllFractions, f = <<9999, 10000>> => n <= RANKED_SAMPLES
  PROVE  Rank(n, f) \in 0..(n - 1)
<1>1. /\ n \div 2 \in 0..(n - 1)
      /\ (n * 3) \div 4 \in 0..(n - 1)
      /\ (n * 9) \div 10 \in 0..(n - 1)
      /\ (n * 99) \div 100 \in 0..(n - 1)
      /\ (n * 999) \div 1000 \in 0..(n - 1)
      /\ (n * 9999) \div 10000 \in 0..(n - 1)
  OBVIOUS
<1>2. CASE f = Median
  <2>1. Rank(n, Median) = n \div 2
    BY Ranks
  <2>2. QED
    BY <1>1, <1>2, <2>1
<1>3. CASE f = <<3, 4>>
  BY <1>1, <1>3, Ranks, SMT
<1>4. CASE f = <<9, 10>>
  BY <1>1, <1>4, Ranks, SMT
<1>5. CASE f = P99
  BY <1>1, <1>5, Ranks, SMT
<1>6. CASE f = P999
  BY <1>1, <1>6, Ranks, SMT
<1>7. CASE f = <<9999, 10000>>
  BY <1>1, <1>7, Ranks, SMT
<1>8. QED
  BY <1>2, <1>3, <1>4, <1>5, <1>6, <1>7 DEF AllFractions

(* In the recorders of the benchmarks no number of samples up to the limit  *)
(* makes n * k overflow an int, and every rank is inside the vector.        *)
THEOREM RecorderRanksFit ==
  \A r \in Recorders : \A n \in 1..r.max : \A f \in r.fractions :
    Product(n, f) = n * f[1] /\ Rank(n, f) \in 0..(n - 1)
<1>1. SUFFICES ASSUME NEW r \in Recorders, NEW n \in 1..r.max, NEW f \in r.fractions
               PROVE  Product(n, f) = n * f[1] /\ Rank(n, f) \in 0..(n - 1)
  OBVIOUS
<1>2. n \in Nat /\ n > 0 /\ n <= 1000000 /\ f \in {Median, P99, P999}
  BY Fractions, SMT
<1>3. Product(n, f) = n * f[1]
  <2>1. n * f[1] <= INT_MAX
    BY <1>2, SMT DEF INT_MAX, Median, P99, P999
  <2>2. QED
    BY <2>1 DEF Product
<1>4. f # <<9999, 10000>>
  <2>1. f[1] # 9999
    BY <1>2, SMT DEF Median, P99, P999
  <2>2. QED
    BY <2>1
<1>5. Rank(n, f) \in 0..(n - 1)
  BY <1>2, <1>4, RanksInside, SMT DEF AllFractions
<1>6. QED
  BY <1>3, <1>5

(* LatencyStatistics keeps up to 1000000 samples, but its arithmetic holds  *)
(* only up to 214769 of them: n * 9999 wraps around beyond, and from there  *)
(* up to 429538 the rank is negative, so that analyze() reads before the    *)
(* vector.  The programs of the repository collect at most 100000.          *)
THEOREM LatencyRanksFit ==
  \A n \in Nat :
    /\ n > 0 /\ n <= RANKED_SAMPLES =>
         \A f \in LatencyStatistics.fractions :
           Product(n, f) = n * f[1] /\ Rank(n, f) \in 0..(n - 1)
    /\ n > RANKED_SAMPLES /\ n <= 429538 => Rank(n, <<9999, 10000>>) < 0
<1>1. ASSUME NEW n \in Nat, n > 0, n <= RANKED_SAMPLES, NEW f \in LatencyStatistics.fractions
      PROVE  Product(n, f) = n * f[1] /\ Rank(n, f) \in 0..(n - 1)
  <2>1. n <= 1000000
    BY <1>1, SMT DEF RANKED_SAMPLES
  <2>2. f \in AllFractions
    BY <1>1, Fractions
  <2>3. Product(n, f) = n * f[1]
    <3>1. n * f[1] <= INT_MAX
      BY <1>1, <2>1, <2>2, Products, SMT DEF AllFractions, Median, P99, P999
    <3>2. QED
      BY <3>1 DEF Product
  <2>4. Rank(n, f) \in 0..(n - 1)
    BY <1>1, <2>1, <2>2, RanksInside, SMT
  <2>5. QED
    BY <2>3, <2>4
<1>2. ASSUME NEW n \in Nat, n > RANKED_SAMPLES, n <= 429538
      PROVE  Rank(n, <<9999, 10000>>) < 0
  <2>1. PICK p \in Nat : p = n * 9999
    OBVIOUS
  <2>2. p > INT_MAX /\ p <= 4294950462
    BY <1>2, <2>1, SMT DEF RANKED_SAMPLES, INT_MAX
  <2>3. Product(n, <<9999, 10000>>) = p - 4294967296
    BY <2>1, <2>2, SMT DEF Product, Wrapped, INT_MAX
  <2>4. PICK q \in Nat : q = -Product(n, <<9999, 10000>>) /\ q >= 10000
    BY <2>2, <2>3, SMT
  <2>5. q \div 10000 >= 1
    BY <2>4, SMT
  <2>6. Product(n, <<9999, 10000>>) < 0
    BY <2>2, <2>3, SMT
  <2>7. Rank(n, <<9999, 10000>>) = -(q \div 10000)
    <3>1. PICK x \in Int : x = Product(n, <<9999, 10000>>)
      BY <2>2, <2>3, SMT
    <3>2. ~(x >= 0) /\ q = -x /\ <<9999, 10000>>[2] = 10000
      BY <2>4, <2>6, <3>1, SMT
    <3>3. QED
      BY <3>1, <3>2, SMT DEF Rank
  <2>8. QED
    BY <2>4, <2>5, <2>7, SMT
<1>3. QED
  BY <1>1, <1>2, SMT

\* What is printed goes from the minimum over the percentiles to the maximum.
InOrder(r) ==
  /\ r.min <= r.at[Median]
  /\ r.at[Median] <= r.at[<<3, 4>>]
  /\ r.at[<<3, 4>>] <= r.at[<<9, 10>>]
  /\ r.at[<<9, 10>>] <= r.at[P99]
  /\ r.at[P99] <= r.at[P999]
  /\ r.at[P999] <= r.at[<<9999, 10000>>]
  /\ r.at[<<9999, 10000>>] <= r.max

(* In sorted samples the percentiles that analyze() prints are ordered,     *)
(* from the minimum to the maximum, as long as the ranks fit an int.        *)
THEOREM PercentilesOrdered ==
  ASSUME NEW s \in Seq(Nat), s # << >>, Len(s) <= RANKED_SAMPLES, Ordered(s)
  PROVE  InOrder(Report(LatencyStatistics, s))
<1>0. RANKED_SAMPLES <= 1000000 /\ RANKED_SAMPLES \in Nat
  BY SMT DEF RANKED_SAMPLES
<1>1. Len(s) \in Nat /\ Len(s) > 0 /\ Len(s) <= 1000000
  BY <1>0, SMT
<1>2. \A f \in AllFractions : Rank(Len(s), f) \in 0..(Len(s) - 1)
  BY <1>1, RanksInside, SMT
<1>3. ASSUME NEW f \in AllFractions, NEW g \in AllFractions,
             Rank(Len(s), f) <= Rank(Len(s), g)
      PROVE  At(s, f) <= At(s, g)
  <2>1. /\ Rank(Len(s), f) + 1 \in 1..Len(s)
        /\ Rank(Len(s), g) + 1 \in 1..Len(s)
    BY <1>1, <1>2
  <2>2. Rank(Len(s), f) \in Int /\ Rank(Len(s), g) \in Int
    BY <1>1, <1>2
  <2>3. Rank(Len(s), f) + 1 <= Rank(Len(s), g) + 1
    BY <2>2, <1>3
  <2>4. QED
    BY <2>1, <2>3 DEF At, Ordered
<1>4. ASSUME NEW f \in AllFractions
      PROVE  s[1] <= At(s, f) /\ At(s, f) <= s[Len(s)]
  <2>1. /\ Rank(Len(s), f) + 1 \in 1..Len(s)
        /\ 1 \in 1..Len(s) /\ Len(s) \in 1..Len(s)
    BY <1>1, <1>2
  <2>2. 1 <= Rank(Len(s), f) + 1 /\ Rank(Len(s), f) + 1 <= Len(s)
    BY <2>1
  <2>3. QED
    BY <2>1, <2>2 DEF At, Ordered
<1>5. /\ s[1] <= At(s, Median)
      /\ At(s, Median) <= At(s, <<3, 4>>)
      /\ At(s, <<3, 4>>) <= At(s, <<9, 10>>)
      /\ At(s, <<9, 10>>) <= At(s, P99)
      /\ At(s, P99) <= At(s, P999)
      /\ At(s, P999) <= At(s, <<9999, 10000>>)
      /\ At(s, <<9999, 10000>>) <= s[Len(s)]
  <2>1. At(s, Median) <= At(s, <<3, 4>>)
    BY <1>1, <1>3, RanksOrdered DEF AllFractions
  <2>2. At(s, <<3, 4>>) <= At(s, <<9, 10>>)
    BY <1>1, <1>3, RanksOrdered DEF AllFractions
  <2>3. At(s, <<9, 10>>) <= At(s, P99)
    BY <1>1, <1>3, RanksOrdered DEF AllFractions
  <2>4. At(s, P99) <= At(s, P999)
    BY <1>1, <1>3, RanksOrdered DEF AllFractions
  <2>5. At(s, P999) <= At(s, <<9999, 10000>>)
    BY <1>1, <1>3, RanksOrdered DEF AllFractions
  <2>6. QED
    BY <1>4, <2>1, <2>2, <2>3, <2>4, <2>5 DEF AllFractions
<1>6. /\ Report(LatencyStatistics, s).min = s[1]
      /\ Report(LatencyStatistics, s).max = s[Len(s)]
      /\ Report(LatencyStatistics, s).at = [f \in LatencyStatistics.fractions |-> At(s, f)]
  BY DEF Report
<1>7. \A f \in AllFractions : Report(LatencyStatistics, s).at[f] = At(s, f)
  BY <1>6, Fractions
<1>8. QED
  BY <1>5, <1>6, <1>7 DEF AllFractions, InOrder

-----------------------------------------------------------------------------
(* What std::sort does is always possible, so Sort does it.                 *)

LEMMA LargestExists ==
  ASSUME NEW n \in Nat, NEW s \in [1..(n + 1) -> Nat]
  PROVE  \E m \in 1..(n + 1) : \A k \in 1..(n + 1) : s[k] <= s[m]
<1> DEFINE Larger(j) == \E m \in 1..(j + 1) : \A k \in 1..(j + 1) : s[k] <= s[m]
           G == {j \in Nat : j <= n => Larger(j)}
<1>1. 0 \in G
  <2>1. 0 \in Nat /\ 1 \in 1..(0 + 1) /\ s[1] \in Nat
    OBVIOUS
  <2>2. \A k \in 1..(0 + 1) : s[k] <= s[1]
    BY <2>1
  <2>3. QED
    BY <2>1, <2>2
<1>2. ASSUME NEW j \in Nat, j \in G PROVE j + 1 \in G
  <2>1. SUFFICES ASSUME j + 1 <= n PROVE Larger(j + 1)
    OBVIOUS
  <2>2. PICK m \in 1..(j + 1) : \A k \in 1..(j + 1) : s[k] <= s[m]
    BY <1>2, <2>1
  <2>3. s[m] \in Nat /\ s[j + 2] \in Nat /\ m \in 1..(j + 2) /\ j + 2 \in 1..(j + 2)
    BY <2>1
  <2>4. CASE s[j + 2] <= s[m]
    <3>1. \A k \in 1..((j + 1) + 1) : s[k] <= s[m]
      BY <2>2, <2>4
    <3>2. QED
      BY <2>3, <3>1
  <2>5. CASE s[m] <= s[j + 2]
    <3>1. ASSUME NEW k \in 1..((j + 1) + 1) PROVE s[k] <= s[j + 2]
      <4>1. s[k] \in Nat
        BY <2>1
      <4>2. CASE k = j + 2
        BY <2>3, <4>2
      <4>3. CASE k # j + 2
        BY <2>2, <2>3, <2>5, <4>1, <4>3
      <4>4. QED
        BY <4>2, <4>3
    <3>2. QED
      BY <2>3, <3>1
  <2>6. QED
    BY <2>3, <2>4, <2>5
<1>3. n \in G
  <2> HIDE DEF G
  <2>1. QED
    BY <1>1, <1>2, NatSetInduction
<1>4. QED
  BY <1>3

Sorts(p, s, n) ==
  /\ p \in Bijection(1..n, 1..n)
  /\ \A j, k \in 1..n : j <= k => s[p[j]] <= s[p[k]]

(* The largest sample goes to the end, in exchange for the last one, and    *)
(* the samples before the end are put in order.                             *)
LEMMA LargestLast ==
  ASSUME NEW n \in Nat, NEW s \in [1..(n + 1) -> Nat],
         \A r \in [1..n -> Nat] : \E p : Sorts(p, r, n)
  PROVE  \E p : Sorts(p, s, n + 1)
<1>1. PICK m \in 1..(n + 1) : \A k \in 1..(n + 1) : s[k] <= s[m]
  BY LargestExists
<1>2. PICK r \in [1..n -> Nat] : \A k \in 1..n : r[k] = IF k = m THEN s[n + 1] ELSE s[k]
  <2>1. [k \in 1..n |-> IF k = m THEN s[n + 1] ELSE s[k]] \in [1..n -> Nat]
    OBVIOUS
  <2>2. QED
    BY <2>1
<1>3. PICK p \in [1..n -> 1..n] :
        /\ \A j, k \in 1..n : p[j] = p[k] => j = k
        /\ \A y \in 1..n : \E k \in 1..n : p[k] = y
        /\ \A j, k \in 1..n : j <= k => r[p[j]] <= r[p[k]]
  <2>1. PICK p : Sorts(p, r, n)
    OBVIOUS
  <2>2. p \in [1..n -> 1..n] /\ (\A j, k \in 1..n : p[j] = p[k] => j = k)
        /\ (\A y \in 1..n : \E k \in 1..n : p[k] = y)
    BY <2>1 DEF Sorts, Bijection, Injection, Surjection, IsInjective
  <2>3. QED
    BY <2>1, <2>2 DEF Sorts
<1>4. PICK q \in [1..(n + 1) -> 1..(n + 1)] :
        /\ q[n + 1] = m
        /\ \A k \in 1..n : q[k] = IF p[k] = m THEN n + 1 ELSE p[k]
  <2> DEFINE f == [k \in 1..(n + 1) |->
                     IF k = n + 1 THEN m ELSE IF p[k] = m THEN n + 1 ELSE p[k]]
  <2>1. f \in [1..(n + 1) -> 1..(n + 1)] /\ f[n + 1] = m
    <3>1. n + 1 \in 1..(n + 1)
      OBVIOUS
    <3>2. ASSUME NEW k \in 1..(n + 1), k # n + 1 PROVE p[k] \in 1..(n + 1)
      <4>1. k \in 1..n
        BY <3>2
      <4>2. QED
        <5>1. p[k] \in 1..n
          BY <4>1
        <5>2. QED
          BY <5>1
    <3>3. QED
      BY <3>1, <3>2
  <2>2. \A k \in 1..n : f[k] = IF p[k] = m THEN n + 1 ELSE p[k]
    OBVIOUS
  <2>3. QED
    BY <2>1, <2>2
<1>5. \A k \in 1..n : q[k] # m
  <2>1. SUFFICES ASSUME NEW k \in 1..n, q[k] = m PROVE FALSE
    OBVIOUS
  <2>2. (p[k] # m /\ p[k] = m) \/ (m = n + 1 /\ p[k] = m)
    BY <1>4, <2>1
  <2>3. p[k] \in 1..n
    BY <1>3
  <2>4. QED
    BY <2>2, <2>3
<1>6. ASSUME NEW j \in 1..(n + 1), NEW k \in 1..(n + 1), q[j] = q[k] PROVE j = k
  <2>1. CASE j \in 1..n /\ k \in 1..n
    <3>1. p[j] \in 1..n /\ p[k] \in 1..n
      BY <1>3, <2>1
    <3>2. p[j] = p[k]
      BY <1>4, <1>6, <2>1, <3>1
    <3>3. QED
      BY <1>3, <2>1, <3>2
  <2>2. CASE j = n + 1 \/ k = n + 1
    <3>1. ASSUME j \in 1..n PROVE k # n + 1
      BY <1>4, <1>5, <1>6, <3>1
    <3>2. ASSUME k \in 1..n PROVE j # n + 1
      BY <1>4, <1>5, <1>6, <3>2
    <3>3. (j \in 1..n \/ j = n + 1) /\ (k \in 1..n \/ k = n + 1)
      OBVIOUS
    <3>4. QED
      BY <2>2, <3>1, <3>2, <3>3
  <2>3. QED
    BY <2>1, <2>2
<1>7. ASSUME NEW y \in 1..(n + 1) PROVE \E k \in 1..(n + 1) : q[k] = y
  <2>1. CASE y = m
    BY <1>4, <2>1
  <2>2. CASE y # m /\ y = n + 1
    <3>1. m \in 1..n
      BY <2>2
    <3>2. PICK k \in 1..n : p[k] = m
      BY <1>3, <3>1
    <3>3. QED
      BY <1>4, <2>2, <3>2
  <2>3. CASE y # m /\ y # n + 1
    <3>1. PICK k \in 1..n : p[k] = y
      BY <1>3, <2>3
    <3>2. QED
      BY <1>4, <2>3, <3>1
  <2>4. QED
    BY <2>1, <2>2, <2>3
<1>8. \A k \in 1..n : s[q[k]] = r[p[k]]
  <2>1. SUFFICES ASSUME NEW k \in 1..n PROVE s[q[k]] = r[p[k]]
    OBVIOUS
  <2>2. p[k] \in 1..n
    BY <1>3
  <2>3. QED
    BY <1>2, <1>4, <2>2
<1>9. ASSUME NEW j \in 1..(n + 1), NEW k \in 1..(n + 1), j <= k PROVE s[q[j]] <= s[q[k]]
  <2>1. CASE k = n + 1
    <3>1. q[j] \in 1..(n + 1)
      BY <1>4
    <3>2. QED
      BY <1>1, <1>4, <2>1, <3>1
  <2>2. CASE k # n + 1
    <3>1. j \in 1..n /\ k \in 1..n
      BY <1>9, <2>2
    <3>2. QED
      BY <1>3, <1>8, <1>9, <3>1
  <2>3. QED
    BY <2>1, <2>2
<1>10. q \in Bijection(1..(n + 1), 1..(n + 1))
  BY <1>6, <1>7 DEF Bijection, Injection, Surjection, IsInjective
<1>11. Sorts(q, s, n + 1)
  BY <1>9, <1>10 DEF Sorts
<1>12. QED
  BY <1>11

LEMMA SortedExists ==
  ASSUME NEW n \in Nat, NEW s \in [1..n -> Nat]
  PROVE  \E p : Sorts(p, s, n)
<1> DEFINE G == {j \in Nat : \A r \in [1..j -> Nat] : \E p : Sorts(p, r, j)}
<1>1. 0 \in G
  <2>1. SUFFICES ASSUME NEW r PROVE \E p : Sorts(p, r, 0)
    OBVIOUS
  <2>2. PICK p : p = [k \in 1..0 |-> k]
    OBVIOUS
  <2>3. p \in [1..0 -> 1..0] /\ 1..0 = {}
    BY <2>2
  <2>4. p \in Bijection(1..0, 1..0)
    BY <2>3 DEF Bijection, Injection, Surjection, IsInjective
  <2>5. Sorts(p, r, 0)
    BY <2>3, <2>4 DEF Sorts
  <2>6. QED
    BY <2>5
<1>2. ASSUME NEW j \in Nat, j \in G PROVE j + 1 \in G
  <2>1. SUFFICES ASSUME NEW r \in [1..(j + 1) -> Nat] PROVE \E p : Sorts(p, r, j + 1)
    OBVIOUS
  <2>2. \A u \in [1..j -> Nat] : \E p : Sorts(p, u, j)
    BY <1>2
  <2>3. QED
    BY <2>2, LargestLast
<1>3. n \in G
  <2> HIDE DEF G
  <2>1. QED
    BY <1>1, <1>2, NatSetInduction
<1>4. QED
  BY <1>3

(* analyze() reports from ordered samples: of any samples Sort is an        *)
(* ordered rearrangement.                                                   *)
THEOREM SortOrders ==
  ASSUME NEW s \in Seq(Nat)
  PROVE  /\ Sort(s) \in Seq(Nat) /\ Len(Sort(s)) = Len(s)
         /\ Sort(s) \in Rearrangements(s) /\ Ordered(Sort(s))
<1>1. PICK n \in Nat : n = Len(s) /\ s \in [1..n -> Nat]
  OBVIOUS
<1>2. PICK p : Sorts(p, s, n)
  BY <1>1, SortedExists
<1>3. PICK t : t = [k \in 1..n |-> s[p[k]]]
  OBVIOUS
<1>4. t \in Rearrangements(s)
  BY <1>1, <1>2, <1>3 DEF Rearrangements, Sorts
<1>5. ASSUME NEW u \in Rearrangements(s) PROVE u \in Seq(Nat) /\ Len(u) = n
  <2>1. PICK g \in Bijection(1..n, 1..n) : u = [k \in 1..n |-> s[g[k]]]
    BY <1>1, <1>5 DEF Rearrangements
  <2>2. g \in [1..n -> 1..n]
    BY <2>1 DEF Bijection, Injection
  <2>3. u \in [1..n -> Nat]
    BY <1>1, <2>1, <2>2
  <2>4. QED
    BY <2>3
<1>6. Ordered(t)
  <2>1. Len(t) = n
    BY <1>4, <1>5
  <2>2. QED
    BY <1>2, <1>3, <2>1 DEF Ordered, Sorts
<1>7. Sort(s) \in Rearrangements(s) /\ Ordered(Sort(s))
  BY <1>4, <1>6 DEF Sort
<1>8. QED
  BY <1>1, <1>5, <1>7
=============================================================================
