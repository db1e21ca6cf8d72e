---------------------------- MODULE BoundedFifo ----------------------------
(***************************************************************************)
(* What the ring buffer and the message queue promise their callers: a     *)
(* first-in first-out channel that holds at most Capacity values.          *)
(*                                                                         *)
(* The state is the history the callers see.  accepted is the sequence of  *)
(* values whose push or enqueue took effect, delivered the sequence of     *)
(* values handed out by a pop or dequeue.  A call that returns false       *)
(* changes nothing and is a stuttering step.                               *)
(***************************************************************************)
EXTENDS Naturals, Sequences

CONSTANTS Values,    \* what a caller may push
          Capacity   \* how many values the channel holds, a positive number

VARIABLES accepted, delivered

vars == <<accepted, delivered>>

Init ==
  /\ accepted = << >>
  /\ delivered = << >>

Put(v) ==
  /\ Len(accepted) - Len(delivered) < Capacity
  /\ accepted' = Append(accepted, v)
  /\ UNCHANGED delivered

Take ==
  /\ Len(delivered) < Len(accepted)
  /\ delivered' = Append(delivered, accepted[Len(delivered) + 1])
  /\ UNCHANGED accepted

\* The channel is emptied and reused from scratch.
Clear ==
  /\ accepted' = << >>
  /\ delivered' = << >>

Next ==
  \/ \E v \in Values : Put(v)
  \/ Take
  \/ Clear

Spec == Init /\ [][Next]_vars
=============================================================================
