----------------------------- MODULE Statistics -----------------------------
(***************************************************************************)
(* What the programs make of the latencies they collect: LatencyStatistics *)
(* of timer.hpp and the LatencyRecorder that each benchmark has of its own.*)
(*                                                                         *)
(* A collector keeps at most max samples and reports the sample at rank    *)
(* n * k / d for each of its fractions <<k, d>>.  The arithmetic is of     *)
(* type int: n * k wraps around where it does not fit.                     *)
(***************************************************************************)
EXTENDS Integers, Sequences, Functions

INT_MAX == 2147483647

\* What a number that does not fit becomes in an int of 32 bits (the language
\* leaves it undefined).
Wrapped(k) == ((k + INT_MAX + 1) % (2 * (INT_MAX + 1))) - (INT_MAX + 1)

\* As many samples as n * 9999 still fits for.
RANKED_SAMPLES == 214769

\* Of a fraction that several classes report.
Median == <<1, 2>>
P99    == <<99, 100>>
P999   == <<999, 1000>>

BookRecorder  == [max |-> 1000000, fractions |-> {Median, P99, P999}]
RingRecorder  == [max |-> 1000000, fractions |-> {Median, P99, P999}]
QueueRecorder == [max |-> 1000000, fractions |-> {Median, P99, P999}]
NumaRecorder  == [max |-> 100000,  fractions |-> {Median, P99}]

LatencyStatistics ==
  [max |-> 1000000,
   fractions |-> {Median, <<3, 4>>, <<9, 10>>, P99, P999, <<9999, 10000>>}]

\* record(ns): samples beyond the limit are dropped.
Record(collector, samples, ns) ==
  IF Len(samples) < collector.max THEN Append(samples, ns) ELSE samples

Rearrangements(samples) ==
  LET indices == 1..Len(samples)
  IN  {[k \in indices |-> samples[p[k]]] : p \in Bijection(indices, indices)}

Ordered(samples) == \A j, k \in 1..Len(samples) : j <= k => samples[j] <= samples[k]

\* std::sort of the samples, in place.
Sort(samples) == CHOOSE sorted \in Rearrangements(samples) : Ordered(sorted)

\* The product the code computes before it divides, of type int.
Product(n, f) == LET exact == n * f[1] IN IF exact <= INT_MAX THEN exact ELSE Wrapped(exact)

\* Index, from 0, of the sample reported for the fraction f of n samples; int
\* division truncates towards 0.
Rank(n, f) ==
  IF Product(n, f) >= 0 THEN Product(n, f) \div f[2] ELSE -((-Product(n, f)) \div f[2])

\* The sample there; no value is known of a rank outside the samples.
At(samples, f) == samples[Rank(Len(samples), f) + 1]

\* What is printed of sorted samples, the average left out.
Report(collector, sorted) ==
  [count |-> Len(sorted),
   min   |-> sorted[1],
   max   |-> sorted[Len(sorted)],
   at    |-> [f \in collector.fractions |-> At(sorted, f)]]
=============================================================================
