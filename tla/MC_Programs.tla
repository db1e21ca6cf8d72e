----------------------------- MODULE MC_Programs -----------------------------
(* Constants of the small instance that TLC checks.                           *)
EXTENDS Programs

CONSTANTS p1, p2, c1, c2

TwoProducers == {p1, p2}
TwoConsumers == {c1, c2}

\* Two CPUs of one node; two of two nodes; four with the nodes in turn, so
\* that both threads are bound to the same node.
MachineSet == {[c \in 0..1 |-> 0], [c \in 0..1 |-> c], [c \in 0..3 |-> c % 2]}

\* The counter of CPU 1 is ahead by one tick.
SkewByCPU == [c \in 0..1 |-> c]

\* How often bench_timer measures each operation.  Of three samples the median
\* is the second, the other percentiles the third.
ThriceThenOnce == <<3, 1>>

StrideSeq == <<1, 2, 4>>

BranchScripts ==
  {benchmark_branch_prediction, benchmark_lookup_table, benchmark_vectorization,
   benchmark_data_layout, test_branch_prediction}
=============================================================================
