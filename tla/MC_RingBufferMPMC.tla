------------------------- MODULE MC_RingBufferMPMC -------------------------
(***************************************************************************)
(* Instances of RingBufferMPMC for TLC.  Two threads on each side give     *)
(* every kind of conflict: two claims of one index, a claim against a pop, *)
(* a thread that stops in the middle while the others lap it.  The threads *)
(* of one side are interchangeable.  Only the phased client needs several  *)
(* values: it is the one whose order is checked.                           *)
(***************************************************************************)
EXTENDS RingBufferMPMC, TLC

CONSTANTS p1, p2, c1, c2, v1, v2

OneProducer  == {p1}
OneConsumer  == {c1}
TwoProducers == {p1, p2}
TwoConsumers == {c1, c2}
OneValue     == {v1}
TwoValues    == {v1, v2}
Everyone     == Threads
LoneRunners  == {p1, c1}
FreeClients  == {[phased |-> FALSE, values |-> Values]}
BothClients  == {[phased |-> FALSE, values |-> {v1}], [phased |-> TRUE, values |-> Values]}
MCPosMod     == 2^20

Symmetry == Permutations(Producers) \cup Permutations(Consumers)
=============================================================================
