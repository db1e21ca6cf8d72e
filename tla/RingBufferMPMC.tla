--------------------------- MODULE RingBufferMPMC ---------------------------
(***************************************************************************)
(* WaitFreeRingBuffer used through push_mpmc and pop_mpmc by any number of *)
(* producer and consumer threads.                                          *)
(*                                                                         *)
(* Every access to shared memory is a step of its own.  push_mpmc claims   *)
(* an index by compare-and-swap and writes the slot afterwards; pop_mpmc   *)
(* copies the slot and claims the index afterwards.                        *)
(*                                                                         *)
(* With StaleLoads, a load of a position returns any value not older than  *)
(* the one this thread saw last.  That is coherence alone, so it allows    *)
(* every execution C++ allows and some more: what is shown to hold with    *)
(* StaleLoads holds under the memory orders of the code.  Without it loads *)
(* return the newest value: every execution is a real one, and this is the *)
(* setting for showing that something can go wrong.                        *)
(***************************************************************************)
EXTENDS Integers, Sequences

CONSTANTS Producers, Consumers,
          SIZE,       \* number of slots
          Values,     \* values a producer may push
          NoValue,    \* what an unwritten slot or local variable holds
          POS_MOD,    \* 2^64: positions are uint64_t
          MaxPush,    \* bound: successful pushes since the last reset()
          StaleLoads, \* see above
          Clients,    \* ways in which a program may use the ring, see client
          AllowReset, \* may the owner call reset() while all threads are idle?
          Runners     \* the threads that are sure to keep running

Threads == Producers \cup Consumers

ASSUME ThreadAssumption == Producers \cap Consumers = {}
ASSUME SizeAssumption   == /\ SIZE \in Nat \ {0}
                           /\ \E k \in 0..SIZE : SIZE = 2^k
ASSUME ValueAssumption  == NoValue \notin Values
ASSUME BoundAssumption  == /\ MaxPush \in Nat
                           /\ POS_MOD \in Nat
                           /\ POS_MOD > MaxPush + SIZE
ASSUME SwitchAssumption == {StaleLoads, AllowReset} \subseteq BOOLEAN
ASSUME ClientAssumption == Clients \subseteq [phased : BOOLEAN, values : SUBSET Values]
ASSUME RunnerAssumption == Runners \subseteq Threads

VARIABLES
  client,                 \* the values the callers push, and whether they keep
                          \* pushes and pops apart in time; it never changes
  buffer,                 \* the slot array
  write_pos, read_pos,    \* newest stores to write_state.pos, read_state.pos
  pc,                     \* control point of each thread
  pos,                    \* local variable write of push, read of pop
  val,                    \* argument of push, out parameter of pop
  seenWrite, seenRead,    \* the positions each thread saw last
  accepted, delivered     \* history: values by index claimed by push, by pop

shared == <<client, buffer, write_pos, read_pos>>
locals == <<pc, pos, val, seenWrite, seenRead>>
vars   == <<shared, locals, accepted, delivered>>

-----------------------------------------------------------------------------
(* Subtraction of two uint64_t.                                             *)
Sub64(a, b) == IF a >= b THEN a - b ELSE a - b + POS_MOD

(* Slips somebody could make in this code, used only to show that the       *)
(* properties notice them.                                                  *)

\* "Full" is tested with > instead of >=.
Fault_IsFull(w, r) == Sub64(w, r) > SIZE

\* The positions are compared as signed numbers: "empty" is never seen.
Fault_IsEmpty(r, w) == r > w

\* The position is advanced by a load and a store instead of one CAS.
Fault_CasSucceeds(expected, newest) == expected <= newest

\* The retry loop does not load the position again.
Fault_RETRY_PUSH == "pushCas"
Fault_RETRY_POP  == "popCas"

\* The mask is used as a modulus.
Fault_Slot(p) == IF SIZE = 1 THEN 0 ELSE p % (SIZE - 1)

-----------------------------------------------------------------------------
\* pos & MASK, where SIZE is a power of two.
Slot(p) == p % SIZE

IsFull(w, r) == Sub64(w, r) >= SIZE

IsEmpty(r, w) == r >= w

\* May compare_exchange_weak succeed?  It may also fail for no reason.
CasSucceeds(expected, newest) == expected = newest

\* Where the loop continues after a failed compare-and-swap.
RETRY_PUSH == "pushLoadWrite"
RETRY_POP  == "popLoadRead"

\* The values a load may return to a thread that saw the value seen last.
Visible(seen, newest) == IF StaleLoads THEN seen..newest ELSE {newest}

\* What the thread remembers of the value v it loaded.
Remember(v) == IF StaleLoads THEN v ELSE 0

Goto(t, label) == pc' = [pc EXCEPT ![t] = label]

Idle(ts) == \A t \in ts : pc[t] = "idle"

-----------------------------------------------------------------------------
Init ==
  /\ client \in Clients
  /\ buffer = [s \in 0..(SIZE - 1) |-> NoValue]
  /\ write_pos = 0 /\ read_pos = 0
  /\ pc = [t \in Threads |-> "idle"]
  /\ pos = [t \in Threads |-> 0]
  /\ val = [t \in Threads |-> NoValue]
  /\ seenWrite = [t \in Threads |-> 0]
  /\ seenRead = [t \in Threads |-> 0]
  /\ accepted = << >> /\ delivered = << >>

LoadWrite(t, w) ==
  /\ w \in Visible(seenWrite[t], write_pos)
  /\ seenWrite' = [seenWrite EXCEPT ![t] = Remember(w)]
  /\ UNCHANGED seenRead

LoadRead(t, r) ==
  /\ r \in Visible(seenRead[t], read_pos)
  /\ seenRead' = [seenRead EXCEPT ![t] = Remember(r)]
  /\ UNCHANGED seenWrite

\* The call is over; what is left in its local variables is forgotten.
Return(t) ==
  /\ Goto(t, "idle")
  /\ pos' = [pos EXCEPT ![t] = 0]
  /\ val' = [val EXCEPT ![t] = NoValue]

(* push_mpmc(v) *)

PushCall(p, v) ==
  /\ pc[p] = "idle"
  /\ client.phased => Idle(Consumers)
  /\ Goto(p, "pushLoadWrite")
  /\ val' = [val EXCEPT ![p] = v]
  /\ UNCHANGED <<shared, pos, seenWrite, seenRead, accepted, delivered>>

PushLoadWrite(p, w) ==
  /\ pc[p] = "pushLoadWrite"
  /\ LoadWrite(p, w)
  /\ pos' = [pos EXCEPT ![p] = w]
  /\ Goto(p, "pushLoadRead")
  /\ UNCHANGED <<shared, val, accepted, delivered>>

PushRefused(p, r) ==
  /\ pc[p] = "pushLoadRead"
  /\ LoadRead(p, r)
  /\ IsFull(pos[p], r)
  /\ Return(p)
  /\ UNCHANGED <<shared, accepted, delivered>>

PushCheck(p, r) ==
  /\ pc[p] = "pushLoadRead"
  /\ LoadRead(p, r)
  /\ ~IsFull(pos[p], r)
  /\ Goto(p, "pushCas")
  /\ UNCHANGED <<shared, pos, val, accepted, delivered>>

PushCas(p) ==
  /\ pc[p] = "pushCas"
  /\ CasSucceeds(pos[p], write_pos)
  /\ write_pos < MaxPush
  /\ write_pos' = pos[p] + 1
  /\ seenWrite' = [seenWrite EXCEPT ![p] = Remember(pos[p] + 1)]
  /\ accepted' = Append(accepted, val[p])
  /\ Goto(p, "pushStore")
  /\ UNCHANGED <<client, buffer, read_pos, pos, val, seenRead, delivered>>

PushCasFails(p) ==
  /\ pc[p] = "pushCas"
  /\ Goto(p, RETRY_PUSH)
  /\ UNCHANGED <<shared, pos, val, seenWrite, seenRead, accepted, delivered>>

PushStore(p) ==
  /\ pc[p] = "pushStore"
  /\ buffer' = [buffer EXCEPT ![Slot(pos[p])] = val[p]]
  /\ Return(p)
  /\ UNCHANGED <<client, write_pos, read_pos, seenWrite, seenRead, accepted, delivered>>

(* pop_mpmc(val) *)

PopCall(c) ==
  /\ pc[c] = "idle"
  /\ client.phased => Idle(Producers)
  /\ Goto(c, "popLoadRead")
  /\ UNCHANGED <<shared, pos, val, seenWrite, seenRead, accepted, delivered>>

PopLoadRead(c, r) ==
  /\ pc[c] = "popLoadRead"
  /\ LoadRead(c, r)
  /\ pos' = [pos EXCEPT ![c] = r]
  /\ Goto(c, "popLoadWrite")
  /\ UNCHANGED <<shared, val, accepted, delivered>>

PopRefused(c, w) ==
  /\ pc[c] = "popLoadWrite"
  /\ LoadWrite(c, w)
  /\ IsEmpty(pos[c], w)
  /\ Return(c)
  /\ UNCHANGED <<shared, accepted, delivered>>

PopCheck(c, w) ==
  /\ pc[c] = "popLoadWrite"
  /\ LoadWrite(c, w)
  /\ ~IsEmpty(pos[c], w)
  /\ Goto(c, "popCopy")
  /\ UNCHANGED <<shared, pos, val, accepted, delivered>>

PopCopy(c) ==
  /\ pc[c] = "popCopy"
  /\ val' = [val EXCEPT ![c] = buffer[Slot(pos[c])]]
  /\ Goto(c, "popCas")
  /\ UNCHANGED <<shared, pos, seenWrite, seenRead, accepted, delivered>>

PopCas(c) ==
  /\ pc[c] = "popCas"
  /\ CasSucceeds(pos[c], read_pos)
  /\ read_pos' = pos[c] + 1
  /\ seenRead' = [seenRead EXCEPT ![c] = Remember(pos[c] + 1)]
  /\ delivered' = Append(delivered, val[c])
  /\ Return(c)
  /\ UNCHANGED <<client, buffer, write_pos, seenWrite, accepted>>

PopCasFails(c) ==
  /\ pc[c] = "popCas"
  /\ Goto(c, RETRY_POP)
  /\ UNCHANGED <<shared, pos, val, seenWrite, seenRead, accepted, delivered>>

(* reset(), by an owner that has synchronized with every thread.            *)
Reset ==
  /\ AllowReset
  /\ Idle(Threads)
  /\ write_pos' = 0 /\ read_pos' = 0
  /\ seenWrite' = [t \in Threads |-> 0]
  /\ seenRead' = [t \in Threads |-> 0]
  /\ accepted' = << >> /\ delivered' = << >>
  /\ UNCHANGED <<client, buffer, pc, pos, val>>

Push(p) ==
  \/ \E v \in client.values : PushCall(p, v)
  \/ \E w \in Visible(seenWrite[p], write_pos) : PushLoadWrite(p, w)
  \/ \E r \in Visible(seenRead[p], read_pos) : PushRefused(p, r) \/ PushCheck(p, r)
  \/ PushCas(p)
  \/ PushCasFails(p)
  \/ PushStore(p)

Pop(c) ==
  \/ PopCall(c)
  \/ \E r \in Visible(seenRead[c], read_pos) : PopLoadRead(c, r)
  \/ \E w \in Visible(seenWrite[c], write_pos) : PopRefused(c, w) \/ PopCheck(c, w)
  \/ PopCopy(c)
  \/ PopCas(c)
  \/ PopCasFails(c)

Next ==
  \/ \E p \in Producers : Push(p)
  \/ \E c \in Consumers : Pop(c)
  \/ Reset

Spec == Init /\ [][Next]_vars

-----------------------------------------------------------------------------
(* Scheduling.  A thread of Runners keeps running, and its                  *)
(* compare_exchange_weak fails for no reason only finitely often in a row.  *)
(* The other threads may stop anywhere, also in the middle of a call.       *)

PushFairness(p) ==
  /\ WF_vars(\E w \in Visible(seenWrite[p], write_pos) : PushLoadWrite(p, w))
  /\ WF_vars(\E r \in Visible(seenRead[p], read_pos) : PushRefused(p, r) \/ PushCheck(p, r))
  /\ WF_vars(PushCas(p) \/ PushCasFails(p))
  /\ SF_vars(PushCas(p))
  /\ WF_vars(PushStore(p))

PopFairness(c) ==
  /\ WF_vars(\E r \in Visible(seenRead[c], read_pos) : PopLoadRead(c, r))
  /\ WF_vars(\E w \in Visible(seenWrite[c], write_pos) : PopRefused(c, w) \/ PopCheck(c, w))
  /\ WF_vars(PopCopy(c))
  /\ WF_vars(PopCas(c) \/ PopCasFails(c))
  /\ SF_vars(PopCas(c))

RunnersSpec ==
  /\ Spec
  /\ \A p \in Producers \cap Runners : PushFairness(p)
  /\ \A c \in Consumers \cap Runners : PopFairness(c)

-----------------------------------------------------------------------------
(* The types of the variables.  delivered may contain NoValue: nothing      *)
(* keeps pop_mpmc from copying a slot that was claimed and not yet written. *)
TypeOK ==
  /\ client \in Clients
  /\ buffer \in [0..(SIZE - 1) -> Values \cup {NoValue}]
  /\ write_pos \in 0..MaxPush
  /\ read_pos \in 0..MaxPush
  /\ pc \in [Threads -> {"idle", "pushLoadWrite", "pushLoadRead", "pushCas", "pushStore",
                         "popLoadRead", "popLoadWrite", "popCopy", "popCas"}]
  /\ pos \in [Threads -> 0..MaxPush]
  /\ val \in [Threads -> Values \cup {NoValue}]
  /\ seenWrite \in [Threads -> 0..MaxPush]
  /\ seenRead \in [Threads -> 0..MaxPush]
  /\ accepted \in Seq(Values)
  /\ delivered \in Seq(Values \cup {NoValue})

(* Whatever a thread last read of the two positions and however late it     *)
(* acts on it, no pop overtakes the pushes and no push laps the pops by     *)
(* more than the size of the ring.                                          *)
PositionsBounded ==
  /\ read_pos <= write_pos
  /\ write_pos <= read_pos + SIZE

(* Every index is claimed once: the push calls still to store their value   *)
(* own distinct claimed indices and carry the value accepted there, and     *)
(* the positions count the successful calls.                                *)
ClaimsExclusive ==
  /\ Len(accepted) = write_pos
  /\ Len(delivered) = read_pos
  /\ \A p \in Producers :
       pc[p] = "pushStore" => pos[p] < write_pos /\ accepted[pos[p] + 1] = val[p]
  /\ \A p, q \in Producers :
       p # q /\ pc[p] = "pushStore" /\ pc[q] = "pushStore" => pos[p] # pos[q]

(* When the callers keep pushes and pops apart in time, the ring is a       *)
(* bounded FIFO for any number of threads on either side.                   *)
Fifo == INSTANCE BoundedFifo WITH Capacity <- SIZE
FifoIfPhased == [][client.phased => Fifo!Next]_(Fifo!vars)

(* Lock-freedom: a call of a thread that keeps running returns even if all  *)
(* other threads have stopped in the middle of a call, since others can     *)
(* make it retry only by succeeding themselves.  (MaxPush bounds how often  *)
(* they do; at the bound the model lets no compare-and-swap succeed.)       *)
PushReturns ==
  \A p \in Producers \cap Runners : pc[p] # "idle" ~> (pc[p] = "idle" \/ write_pos = MaxPush)

PopReturns ==
  \A c \in Consumers \cap Runners : pc[c] # "idle" ~> pc[c] = "idle"

(* What a pop hands out is what was pushed at that index: "acquire/release  *)
(* semantics for correct synchronization" (README.md of the ring buffer).   *)
(* It is violated: the slot is written after the index is published.        *)
DeliveredIsAccepted == \A i \in 1..Len(delivered) : delivered[i] = accepted[i]

(* push_mpmc returns false only for a ring that is full, as its comment     *)
(* "Full" says.  It is violated: a write position read before other threads *)
(* moved on can be below the read position, and write - read wraps.         *)
RefusedOnlyWhenFull ==
  [][\A p \in Producers :
       (\E r \in Visible(seenRead[p], read_pos) : PushRefused(p, r))
         => write_pos - read_pos >= SIZE]_vars

-----------------------------------------------------------------------------
(* What TypeOK, PositionsBounded and ClaimsExclusive rest on.               *)

\* No thread has seen a position that was not stored yet.
SeenInv ==
  \A t \in Threads : seenWrite[t] <= write_pos /\ seenRead[t] <= read_pos

\* What the tests established about a local position stays true, because
\* the two positions only grow.
LocalsInv ==
  /\ \A p \in Producers :
       /\ pc[p] \in {"idle", "pushLoadWrite", "pushLoadRead", "pushCas", "pushStore"}
       /\ pc[p] # "idle" => val[p] \in Values
       /\ pc[p] \in {"pushLoadRead", "pushCas"} => pos[p] <= write_pos
       /\ pc[p] = "pushCas" => pos[p] < read_pos + SIZE
  /\ \A c \in Consumers :
       /\ pc[c] \in {"idle", "popLoadRead", "popLoadWrite", "popCopy", "popCas"}
       /\ pc[c] \in {"popLoadWrite", "popCopy", "popCas"} => pos[c] <= read_pos
       /\ pc[c] \in {"popCopy", "popCas"} => pos[c] < write_pos

IInv == TypeOK /\ PositionsBounded /\ ClaimsExclusive /\ SeenInv /\ LocalsInv
=============================================================================
