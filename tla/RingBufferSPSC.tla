--------------------------- MODULE RingBufferSPSC ---------------------------
(***************************************************************************)
(* WaitFreeRingBuffer used through push_spsc and pop_spsc: one producer    *)
(* thread, one consumer thread, no locks.                                  *)
(*                                                                         *)
(* Every access to shared memory is a step of its own.  The model keeps    *)
(* the two effects of the C++ memory model this code depends on:           *)
(*                                                                         *)
(*   - a load of the other side's position may return any value that was   *)
(*     stored since the one this thread saw last (coherence), not only     *)
(*     the newest one;                                                     *)
(*   - the slots are plain memory: an access to a slot is free of a data   *)
(*     race only if the other side's last access to it happens before, and *)
(*     the only such edges are those from a release store to the acquire   *)
(*     load that reads it.  pHb and cHb count the other side's slot        *)
(*     accesses that are known to happen before this thread's next step.   *)
(*                                                                         *)
(* accepted and delivered are history variables: the values of the pushes  *)
(* that were published and of the pops that returned true.                 *)
(***************************************************************************)
EXTENDS Integers, Sequences

CONSTANTS SIZE,      \* number of slots
          Values,    \* values a producer may push
          NoValue,   \* what an unwritten slot or local variable holds
          POS_MOD,   \* 2^64: positions are uint64_t
          MaxPush,   \* bound: pushes since the last reset()
          AllowReset \* may the owner call reset() while both threads are idle?

ASSUME SizeAssumption  == /\ SIZE \in Nat \ {0}
                          /\ \E k \in 0..SIZE : SIZE = 2^k
ASSUME ValueAssumption == NoValue \notin Values
ASSUME BoundAssumption == /\ MaxPush \in Nat
                          /\ POS_MOD \in Nat
                          /\ POS_MOD > MaxPush + SIZE
                          /\ AllowReset \in BOOLEAN

VARIABLES
  buffer,               \* the slot array
  write_pos, read_pos,  \* newest stores to write_state.pos and read_state.pos
  pPc, pVal,            \* producer: control point, argument of the call
  pRead, pHb,           \* producer: read position it saw last; pops known
  cPc, cVal,            \* consumer: control point, the value it copied out
  cWrite, cHb,          \* consumer: write position it saw last; pushes known
  accepted, delivered

producer == <<pPc, pVal, pRead, pHb>>
consumer == <<cPc, cVal, cWrite, cHb>>
vars == <<buffer, write_pos, read_pos, producer, consumer, accepted, delivered>>

-----------------------------------------------------------------------------
Later(a, b) == IF a > b THEN a ELSE b

\* Subtraction of two uint64_t.
Sub64(a, b) == IF a >= b THEN a - b ELSE a - b + POS_MOD

-----------------------------------------------------------------------------
(* Slips somebody could make in this code.  No definition below uses them:  *)
(* each stands in for the definition it is named after to show that a       *)
(* property notices the difference.                                         *)

\* The position is published by a relaxed store.
Fault_PUSH_STORES_WRITE == "relaxed"

\* The producer reads the consumer's position with a relaxed load.
Fault_PUSH_LOADS_READ == "relaxed"

\* The mask is used as a modulus.
Fault_Slot(pos) == pos % Later(SIZE - 1, 1)

\* "Full" is tested with > instead of >=.
Fault_PushIsFull(r) == Sub64(write_pos, r) > SIZE

\* "Empty" is tested with > instead of >=.
Fault_PopIsEmpty(w) == read_pos > w

\* One value is always left behind.
Fault_PopKeepsOne(w) == read_pos + 1 >= w

-----------------------------------------------------------------------------
(* Memory orders of the four accesses that synchronize the two threads.    *)

PUSH_LOADS_READ   == "acquire"
PUSH_STORES_WRITE == "release"
POP_LOADS_WRITE   == "acquire"
POP_STORES_READ   == "release"

\* The slot accesses that a load of position pos makes known to its thread:
\* all those before the store of pos, if the pair synchronizes.
HappensBefore(store, load, pos) ==
  IF store = "release" /\ load = "acquire" THEN pos ELSE 0

\* pos & MASK, where SIZE is a power of two.
Slot(pos) == pos % SIZE

-----------------------------------------------------------------------------
Init ==
  /\ buffer = [s \in 0..(SIZE - 1) |-> NoValue]
  /\ write_pos = 0 /\ read_pos = 0
  /\ pPc = "idle" /\ pVal = NoValue /\ pRead = 0 /\ pHb = 0
  /\ cPc = "idle" /\ cVal = NoValue /\ cWrite = 0 /\ cHb = 0
  /\ accepted = << >> /\ delivered = << >>

(* push_spsc.  Only the producer stores write_pos, so its relaxed load of   *)
(* its own position is exact and shares a step with the load of read_pos.   *)

PushLoadRead(r) ==
  /\ r \in pRead..read_pos
  /\ pRead' = r
  /\ pHb' = Later(pHb, HappensBefore(POP_STORES_READ, PUSH_LOADS_READ, r))

PushIsFull(r) == Sub64(write_pos, r) >= SIZE

PushRefused(r) ==
  /\ pPc = "idle"
  /\ PushLoadRead(r)
  /\ PushIsFull(r)
  /\ UNCHANGED <<buffer, write_pos, read_pos, pPc, pVal, consumer, accepted, delivered>>

PushCheck(v, r) ==
  /\ pPc = "idle"
  /\ write_pos < MaxPush
  /\ PushLoadRead(r)
  /\ ~PushIsFull(r)
  /\ pPc' = "write"
  /\ pVal' = v
  /\ UNCHANGED <<buffer, write_pos, read_pos, consumer, accepted, delivered>>

PushWrite ==
  /\ pPc = "write"
  /\ buffer' = [buffer EXCEPT ![Slot(write_pos)] = pVal]
  /\ pPc' = "publish"
  /\ UNCHANGED <<write_pos, read_pos, pVal, pRead, pHb, consumer, accepted, delivered>>

PushPublish ==
  /\ pPc = "publish"
  /\ write_pos' = write_pos + 1
  /\ accepted' = Append(accepted, pVal)
  /\ pPc' = "idle"
  /\ pVal' = NoValue
  /\ UNCHANGED <<buffer, read_pos, pRead, pHb, consumer, delivered>>

(* pop_spsc, symmetric. *)

PopLoadWrite(w) ==
  /\ w \in cWrite..write_pos
  /\ cWrite' = w
  /\ cHb' = Later(cHb, HappensBefore(PUSH_STORES_WRITE, POP_LOADS_WRITE, w))

PopIsEmpty(w) == read_pos >= w

PopRefused(w) ==
  /\ cPc = "idle"
  /\ PopLoadWrite(w)
  /\ PopIsEmpty(w)
  /\ UNCHANGED <<buffer, write_pos, read_pos, producer, cPc, cVal, accepted, delivered>>

PopCheck(w) ==
  /\ cPc = "idle"
  /\ PopLoadWrite(w)
  /\ ~PopIsEmpty(w)
  /\ cPc' = "copy"
  /\ UNCHANGED <<buffer, write_pos, read_pos, producer, cVal, accepted, delivered>>

PopCopy ==
  /\ cPc = "copy"
  /\ cVal' = buffer[Slot(read_pos)]
  /\ cPc' = "publish"
  /\ UNCHANGED <<buffer, write_pos, read_pos, producer, cWrite, cHb, accepted, delivered>>

PopPublish ==
  /\ cPc = "publish"
  /\ read_pos' = read_pos + 1
  /\ delivered' = Append(delivered, cVal)
  /\ cPc' = "idle"
  /\ cVal' = NoValue
  /\ UNCHANGED <<buffer, write_pos, producer, cWrite, cHb, accepted>>

(* reset().  Its two stores are relaxed and nothing orders them against a   *)
(* running call, so it is only meaningful between calls, by an owner that   *)
(* has joined or otherwise synchronized with both threads.                  *)
Reset ==
  /\ AllowReset
  /\ pPc = "idle" /\ cPc = "idle"
  /\ write_pos' = 0 /\ read_pos' = 0
  /\ pRead' = 0 /\ pHb' = 0
  /\ cWrite' = 0 /\ cHb' = 0
  /\ accepted' = << >> /\ delivered' = << >>
  /\ UNCHANGED <<buffer, pPc, pVal, cPc, cVal>>

Push ==
  \/ \E r \in pRead..read_pos : PushRefused(r)
  \/ \E r \in pRead..read_pos, v \in Values : PushCheck(v, r)
  \/ PushWrite
  \/ PushPublish

Pop ==
  \/ \E w \in cWrite..write_pos : PopRefused(w)
  \/ \E w \in cWrite..write_pos : PopCheck(w)
  \/ PopCopy
  \/ PopPublish

Next == Push \/ Pop \/ Reset

Spec == Init /\ [][Next]_vars

\* approximate_size() with w and r the values its two relaxed loads return.
ApproximateSize(w, r) == Sub64(w, r)

-----------------------------------------------------------------------------
(* Scheduling.  Both threads keep running and keep calling (the benchmark   *)
(* and the tests spin on the result), a store becomes visible to the other  *)
(* thread after a finite time, and no call waits for the other thread.      *)

PushFairness ==
  /\ WF_vars(\E v \in Values : PushCheck(v, read_pos))
  /\ WF_vars(PushWrite)
  /\ WF_vars(PushPublish)

PopFairness ==
  /\ WF_vars(PopCheck(write_pos))
  /\ WF_vars(PopCopy)
  /\ WF_vars(PopPublish)

\* Only the consumer is sure to run: the producer may stop anywhere.
StalledProducerSpec == Spec /\ PopFairness

-----------------------------------------------------------------------------
(* The types of the variables.  delivered is a sequence of Values: a pop    *)
(* never hands out the content of a slot nobody has written.                *)
TypeOK ==
  /\ buffer \in [0..(SIZE - 1) -> Values \cup {NoValue}]
  /\ write_pos \in 0..MaxPush
  /\ read_pos \in 0..MaxPush
  /\ pPc \in {"idle", "write", "publish"}
  /\ pVal \in Values \cup {NoValue}
  /\ pRead \in 0..MaxPush
  /\ pHb \in 0..MaxPush
  /\ cPc \in {"idle", "copy", "publish"}
  /\ cVal \in Values \cup {NoValue}
  /\ cWrite \in 0..MaxPush
  /\ cHb \in 0..MaxPush
  /\ accepted \in Seq(Values)
  /\ delivered \in Seq(Values)

(* No data race on a slot: when the consumer is about to copy a slot, the   *)
(* producer's write of it happens before; when the producer is about to     *)
(* overwrite a slot, the consumer's last copy of it happens before.  This   *)
(* is what the acquire and release orders and the full/empty tests are for. *)
NoDataRace ==
  /\ cPc = "copy" => cHb > read_pos
  /\ pPc = "write" => pHb > write_pos - SIZE

(* approximate_size() called by an endpoint is a number of slots and errs   *)
(* to the safe side: the producer never sees too few occupied slots, the    *)
(* consumer never too many, however stale the loads are, and the uint64_t   *)
(* subtraction does not wrap.                                               *)
ApproxSizeConservative ==
  /\ \A r \in pRead..read_pos :
       ApproximateSize(write_pos, r) \in (write_pos - read_pos)..SIZE
  /\ \A w \in cWrite..write_pos :
       ApproximateSize(w, read_pos) \in 0..(write_pos - read_pos)

(* The ring buffer is a bounded FIFO: whatever the interleaving and the     *)
(* staleness of the loads, pops return the pushed values in push order,     *)
(* each once, and never more than SIZE are in flight.                       *)
Fifo == INSTANCE BoundedFifo WITH Capacity <- SIZE
FifoSpec == Fifo!Spec

(* If the producer is scheduled as well, a producer and a consumer that     *)
(* retry until they succeed transfer everything: neither stays refused for  *)
(* ever.  (reset() starts the count again.)                                 *)
AllDelivered ==
  PushFairness =>
    \A n \in 1..MaxPush : write_pos = n ~> (Len(delivered) = MaxPush \/ write_pos = 0)

(* Wait-freedom seen by the consumer: a published value is delivered (or    *)
(* discarded by reset) even if the producer stops in the middle of a call.  *)
PublishedIsDelivered ==
  \A n \in 1..MaxPush :
    Len(accepted) >= n ~> (Len(delivered) >= n \/ Len(accepted) < n)

(* What the three above rest on, an inductive invariant.                    *)

\* Each thread's picture of the other side lags behind but never leads, and
\* the ring never holds more than SIZE values.
PositionsInv ==
  /\ pRead <= read_pos
  /\ read_pos <= cWrite
  /\ cWrite <= write_pos
  /\ write_pos - pRead <= SIZE
  /\ pPc # "idle" => write_pos - pRead < SIZE /\ write_pos < MaxPush /\ pVal \in Values
  /\ cPc # "idle" => read_pos < cWrite

\* Seeing a position means knowing the slot accesses it stands for.
KnowledgeInv == pHb = pRead /\ cHb = cWrite

\* The slots between the two positions hold the values accepted and not yet
\* delivered; the calls in progress carry the right values.
ContentInv ==
  /\ Len(accepted) = write_pos
  /\ Len(delivered) = read_pos
  /\ \A i \in 0..(MaxPush - 1) :
       read_pos <= i /\ i < write_pos => buffer[Slot(i)] = accepted[i + 1]
  /\ pPc = "publish" => buffer[Slot(write_pos)] = pVal
  /\ cPc = "publish" => cVal = accepted[read_pos + 1]

IInv == TypeOK /\ PositionsInv /\ KnowledgeInv /\ ContentInv
=============================================================================
