-------------------------- MODULE MC_MessageQueue --------------------------
(***************************************************************************)
(* Instances of MessageQueue for TLC.  A pool of two nodes is recycled     *)
(* within the bound of four enqueues, so that a thread can hold on to a    *)
(* node while it goes through a whole cycle of use.                        *)
(***************************************************************************)
EXTENDS MessageQueue, TLC

CONSTANTS p1, p2, c1, c2, m1, m2

OneProducer  == {p1}
OneConsumer  == {c1}
TwoProducers == {p1, p2}
TwoConsumers == {c1, c2}
OneMessage   == {m1}
TwoMessages  == {m1, m2}
Everyone     == Threads

Symmetry == Permutations(Producers) \cup Permutations(Consumers) \cup Permutations(Values)
=============================================================================
