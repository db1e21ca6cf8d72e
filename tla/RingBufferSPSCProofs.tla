------------------------ MODULE RingBufferSPSCProofs ------------------------
(***************************************************************************)
(* Proofs about push_spsc and pop_spsc, for every SIZE, every set of       *)
(* values and every bound on the number of pushes.                         *)
(***************************************************************************)
EXTENDS RingBufferSPSC, TLAPS

(* Two positions less than SIZE apart never share a slot: what makes it    *)
(* safe to write buffer[write & MASK] while older values are unread.       *)
LEMMA SlotDistinct ==
  ASSUME NEW i \in Nat, NEW j \in Nat, i < j, j - i < SIZE
  PROVE  Slot(i) # Slot(j)
<1>1. SIZE \in Nat /\ SIZE > 0
  BY SizeAssumption
<1>2. SUFFICES ASSUME i % SIZE = j % SIZE PROVE FALSE
  BY DEF Slot
<1> DEFINE q == (j \div SIZE) - (i \div SIZE)
<1>3. i = SIZE * (i \div SIZE) + (i % SIZE) /\ j = SIZE * (j \div SIZE) + (j % SIZE)
  BY <1>1
<1>4. i \div SIZE \in Int /\ j \div SIZE \in Int /\ q \in Int
  BY <1>1
<1>5. SIZE * q = j - i
  BY <1>1, <1>2, <1>3, <1>4
<1> HIDE DEF q
<1>6. CASE q <= 0
  BY <1>1, <1>4, <1>5, <1>6
<1>7. CASE q >= 1
  <2>1. SIZE * q >= SIZE
    BY <1>1, <1>4, <1>7
  <2>2. QED
    BY <1>1, <1>4, <1>5, <2>1
<1>8. QED
  BY <1>4, <1>6, <1>7

LEMMA SlotType == \A i \in Nat : Slot(i) \in 0..(SIZE - 1)
  BY SizeAssumption DEF Slot

LEMMA Constants ==
  /\ SIZE \in Nat /\ SIZE > 0
  /\ MaxPush \in Nat
  /\ POS_MOD \in Nat /\ POS_MOD > MaxPush + SIZE
  BY SizeAssumption, BoundAssumption

-----------------------------------------------------------------------------
(* The inductive invariant holds initially and every step preserves it.     *)

LEMMA InitIInv == Init => IInv
<1>1. SUFFICES ASSUME Init PROVE IInv
  OBVIOUS
<1>2. TypeOK
  BY <1>1, Constants DEF Init, TypeOK
<1>3. QED
  BY <1>1, <1>2, Constants DEF Init, IInv, PositionsInv, KnowledgeInv, ContentInv

LEMMA PushRefusedIInv ==
  ASSUME IInv, NEW r \in pRead..read_pos, PushRefused(r)
  PROVE  IInv'
<1> USE Constants
<1>1. r \in 0..MaxPush /\ pRead' = r /\ pHb' = r
  BY DEF IInv, TypeOK, PositionsInv, KnowledgeInv, PushRefused, PushLoadRead,
         Later, HappensBefore, POP_STORES_READ, PUSH_LOADS_READ
<1>2. TypeOK'
  BY <1>1 DEF IInv, TypeOK, PushRefused, consumer
<1>3. PositionsInv' /\ KnowledgeInv'
  BY <1>1 DEF IInv, TypeOK, PositionsInv, KnowledgeInv, PushRefused, consumer
<1>4. ContentInv'
  BY DEF IInv, ContentInv, PushRefused, consumer
<1>5. QED
  BY <1>2, <1>3, <1>4 DEF IInv

LEMMA PushCheckIInv ==
  ASSUME IInv, NEW r \in pRead..read_pos, NEW v \in Values, PushCheck(v, r)
  PROVE  IInv'
<1> USE Constants
<1>1. r \in 0..MaxPush /\ pRead' = r /\ pHb' = r
  BY DEF IInv, TypeOK, PositionsInv, KnowledgeInv, PushCheck, PushLoadRead,
         Later, HappensBefore, POP_STORES_READ, PUSH_LOADS_READ
<1>2. TypeOK'
  BY <1>1 DEF IInv, TypeOK, PushCheck, consumer
<1>3. write_pos - r < SIZE
  BY <1>1 DEF IInv, TypeOK, PositionsInv, PushCheck, PushIsFull, Sub64
<1>4. PositionsInv' /\ KnowledgeInv'
  BY <1>1, <1>3 DEF IInv, TypeOK, PositionsInv, KnowledgeInv, PushCheck, consumer
<1>5. ContentInv'
  BY DEF IInv, ContentInv, PushCheck, consumer
<1>6. QED
  BY <1>2, <1>4, <1>5 DEF IInv

LEMMA PushWriteIInv ==
  ASSUME IInv, PushWrite
  PROVE  IInv'
<1> USE Constants
<1>1. TypeOK'
  BY DEF IInv, TypeOK, PushWrite, consumer
<1>2. PositionsInv' /\ KnowledgeInv'
  BY DEF IInv, TypeOK, PositionsInv, KnowledgeInv, PushWrite, consumer
<1>3. write_pos \in Nat /\ Slot(write_pos) \in 0..(SIZE - 1)
  <2>1. write_pos \in Nat
    BY DEF IInv, TypeOK
  <2>2. QED
    BY <2>1, SlotType
<1>4. ContentInv'
  <2>1. buffer'[Slot(write_pos)] = pVal
    BY <1>3 DEF IInv, TypeOK, PushWrite
  <2>2. ASSUME NEW i \in 0..(MaxPush - 1), read_pos <= i, i < write_pos
        PROVE  buffer'[Slot(i)] = accepted[i + 1]
    <3>1. i \in Nat /\ write_pos - i < SIZE
      BY <2>2 DEF IInv, TypeOK, PositionsInv, PushWrite
    <3>2. Slot(i) # Slot(write_pos)
      BY <1>3, <2>2, <3>1, SlotDistinct
    <3>3. buffer'[Slot(i)] = buffer[Slot(i)]
      BY <3>1, <3>2, SlotType DEF IInv, TypeOK, PushWrite
    <3>4. QED
      BY <2>2, <3>3 DEF IInv, ContentInv
  <2>3. QED
    BY <2>1, <2>2 DEF IInv, ContentInv, PushWrite, consumer
<1>5. QED
  BY <1>1, <1>2, <1>4 DEF IInv

LEMMA PushPublishIInv ==
  ASSUME IInv, PushPublish
  PROVE  IInv'
<1> USE Constants
<1>1. write_pos \in 0..(MaxPush - 1) /\ pVal \in Values /\ write_pos' = write_pos + 1
  BY DEF IInv, TypeOK, PositionsInv, PushPublish
<1>2. TypeOK'
  BY <1>1 DEF IInv, TypeOK, PushPublish, consumer
<1>3. PositionsInv' /\ KnowledgeInv'
  BY <1>1 DEF IInv, TypeOK, PositionsInv, KnowledgeInv, PushPublish, consumer
<1>4. /\ Len(accepted') = write_pos + 1
      /\ accepted'[write_pos + 1] = pVal
      /\ \A i \in 1..write_pos : accepted'[i] = accepted[i]
  BY <1>1 DEF IInv, TypeOK, ContentInv, PushPublish
<1>5. ContentInv'
  <2>1. ASSUME NEW i \in 0..(MaxPush - 1), read_pos <= i, i < write_pos + 1
        PROVE  buffer[Slot(i)] = accepted'[i + 1]
    <3>1. CASE i = write_pos
      BY <1>4, <3>1 DEF IInv, ContentInv, PushPublish
    <3>2. CASE i < write_pos
      BY <1>1, <1>4, <2>1, <3>2 DEF IInv, ContentInv
    <3>3. QED
      BY <1>1, <2>1, <3>1, <3>2
  <2>2. cPc = "publish" => cVal = accepted'[read_pos + 1]
    BY <1>1, <1>4 DEF IInv, TypeOK, PositionsInv, ContentInv
  <2>3. QED
    BY <1>1, <1>4, <2>1, <2>2 DEF IInv, ContentInv, PushPublish, consumer
<1>6. QED
  BY <1>2, <1>3, <1>5 DEF IInv

LEMMA PopRefusedIInv ==
  ASSUME IInv, NEW w \in cWrite..write_pos, PopRefused(w)
  PROVE  IInv'
<1> USE Constants
<1>1. w \in 0..MaxPush /\ cWrite' = w /\ cHb' = w
  BY DEF IInv, TypeOK, PositionsInv, KnowledgeInv, PopRefused, PopLoadWrite,
         Later, HappensBefore, PUSH_STORES_WRITE, POP_LOADS_WRITE
<1>2. TypeOK'
  BY <1>1 DEF IInv, TypeOK, PopRefused, producer
<1>3. PositionsInv' /\ KnowledgeInv'
  BY <1>1 DEF IInv, TypeOK, PositionsInv, KnowledgeInv, PopRefused, producer
<1>4. ContentInv'
  BY DEF IInv, ContentInv, PopRefused, producer
<1>5. QED
  BY <1>2, <1>3, <1>4 DEF IInv

LEMMA PopCheckIInv ==
  ASSUME IInv, NEW w \in cWrite..write_pos, PopCheck(w)
  PROVE  IInv'
<1> USE Constants
<1>1. w \in 0..MaxPush /\ cWrite' = w /\ cHb' = w /\ read_pos < w
  BY DEF IInv, TypeOK, PositionsInv, KnowledgeInv, PopCheck, PopLoadWrite, PopIsEmpty,
         Later, HappensBefore, PUSH_STORES_WRITE, POP_LOADS_WRITE
<1>2. TypeOK'
  BY <1>1 DEF IInv, TypeOK, PopCheck, producer
<1>3. PositionsInv' /\ KnowledgeInv'
  BY <1>1 DEF IInv, TypeOK, PositionsInv, KnowledgeInv, PopCheck, producer
<1>4. ContentInv'
  BY DEF IInv, ContentInv, PopCheck, producer
<1>5. QED
  BY <1>2, <1>3, <1>4 DEF IInv

LEMMA PopCopyIInv ==
  ASSUME IInv, PopCopy
  PROVE  IInv'
<1> USE Constants
<1>1. read_pos \in 0..(MaxPush - 1) /\ read_pos < write_pos
  BY DEF IInv, TypeOK, PositionsInv, PopCopy
<1>2. buffer[Slot(read_pos)] = accepted[read_pos + 1]
  BY <1>1 DEF IInv, TypeOK, ContentInv
<1>3. Slot(read_pos) \in 0..(SIZE - 1)
  BY <1>1, SlotType
<1>4. TypeOK'
  BY <1>3 DEF IInv, TypeOK, PopCopy, producer
<1>5. PositionsInv' /\ KnowledgeInv'
  BY DEF IInv, TypeOK, PositionsInv, KnowledgeInv, PopCopy, producer
<1>6. ContentInv'
  BY <1>2 DEF IInv, ContentInv, PopCopy, producer
<1>7. QED
  BY <1>4, <1>5, <1>6 DEF IInv

\* The value being returned is the next one accepted.
LEMMA PopPublishValue ==
  ASSUME IInv, PopPublish
  PROVE  /\ read_pos \in 0..(MaxPush - 1) /\ read_pos < write_pos
         /\ cVal = accepted[read_pos + 1] /\ cVal \in Values
<1>1. read_pos \in 0..(MaxPush - 1) /\ read_pos < write_pos
  BY Constants DEF IInv, TypeOK, PositionsInv, PopPublish
<1>2. cVal = accepted[read_pos + 1]
  BY DEF IInv, ContentInv, PopPublish
<1>3. read_pos + 1 \in 1..Len(accepted)
  BY <1>1 DEF IInv, TypeOK, ContentInv
<1>4. QED
  BY <1>1, <1>2, <1>3 DEF IInv, TypeOK

LEMMA PopPublishIInv ==
  ASSUME IInv, PopPublish
  PROVE  IInv'
<1> USE Constants
<1>1. /\ read_pos \in 0..(MaxPush - 1) /\ read_pos < write_pos
      /\ cVal \in Values /\ read_pos' = read_pos + 1
  BY PopPublishValue DEF PopPublish
<1>2. TypeOK'
  BY <1>1 DEF IInv, TypeOK, PopPublish, producer
<1>3. PositionsInv' /\ KnowledgeInv'
  BY <1>1 DEF IInv, TypeOK, PositionsInv, KnowledgeInv, PopPublish, producer
<1>4. Len(delivered') = read_pos + 1
  BY DEF IInv, TypeOK, ContentInv, PopPublish
<1>5. ContentInv'
  BY <1>1, <1>4 DEF IInv, TypeOK, ContentInv, PopPublish, producer
<1>6. QED
  BY <1>2, <1>3, <1>5 DEF IInv

LEMMA ResetIInv ==
  ASSUME IInv, Reset
  PROVE  IInv'
<1> USE Constants
<1>1. TypeOK'
  BY DEF IInv, TypeOK, Reset
<1>2. PositionsInv' /\ KnowledgeInv' /\ ContentInv'
  BY DEF IInv, TypeOK, PositionsInv, KnowledgeInv, ContentInv, Reset
<1>3. QED
  BY <1>1, <1>2 DEF IInv

LEMMA StepIInv == IInv /\ [Next]_vars => IInv'
<1>1. SUFFICES ASSUME IInv, [Next]_vars PROVE IInv'
  OBVIOUS
<1>2. CASE Push
  BY <1>1, <1>2, PushRefusedIInv, PushCheckIInv, PushWriteIInv, PushPublishIInv DEF Push
<1>3. CASE Pop
  BY <1>1, <1>3, PopRefusedIInv, PopCheckIInv, PopCopyIInv, PopPublishIInv DEF Pop
<1>4. CASE Reset
  BY <1>1, <1>4, ResetIInv
<1>5. CASE UNCHANGED vars
  BY <1>1, <1>5 DEF vars, producer, consumer, IInv, TypeOK, PositionsInv, KnowledgeInv, ContentInv
<1>6. QED
  BY <1>1, <1>2, <1>3, <1>4, <1>5 DEF Next

(* IInv is an invariant of every execution of push_spsc, pop_spsc and       *)
(* reset.                                                                   *)
THEOREM Invariance == Spec => []IInv
  BY InitIInv, StepIInv, PTL DEF Spec

-----------------------------------------------------------------------------
(* What the callers rely on follows from it.                                *)

(* Every variable keeps its type; in particular a pop never hands out the   *)
(* content of a slot that was not written.                                  *)
THEOREM TypeCorrect == Spec => []TypeOK
<1>1. IInv => TypeOK
  BY DEF IInv
<1>2. QED
  BY <1>1, Invariance, PTL

(* Slot accesses of the two threads are ordered by the acquire and release  *)
(* operations of ringbuffer.hpp:36-45 and 50-58: no data race.              *)
THEOREM RaceFreedom == Spec => []NoDataRace
<1>1. IInv => NoDataRace
  BY Constants DEF IInv, TypeOK, PositionsInv, KnowledgeInv, NoDataRace
<1>2. QED
  BY <1>1, Invariance, PTL

(* approximate_size() called by the producer or the consumer does not wrap  *)
(* and errs to the caller's safe side.                                      *)
THEOREM ApproxSizeIsConservative == Spec => []ApproxSizeConservative
<1>1. IInv => ApproxSizeConservative
  BY Constants DEF IInv, TypeOK, PositionsInv, ApproxSizeConservative, ApproximateSize, Sub64
<1>2. QED
  BY <1>1, Invariance, PTL

(* push_spsc and pop_spsc implement a bounded FIFO channel of SIZE values.  *)
THEOREM ImplementsFifo == Spec => FifoSpec
<1>1. Init => Fifo!Init
  BY DEF Init, Fifo!Init
<1>2. IInv /\ [Next]_vars => [Fifo!Next]_(Fifo!vars)
  <2>1. SUFFICES ASSUME IInv, [Next]_vars PROVE [Fifo!Next]_(Fifo!vars)
    OBVIOUS
  <2>2. CASE PushPublish
    <3>1. Len(accepted) - Len(delivered) < SIZE /\ pVal \in Values
      BY <2>1, <2>2, Constants DEF IInv, TypeOK, PositionsInv, ContentInv, PushPublish
    <3>2. Fifo!Put(pVal)
      BY <2>2, <3>1 DEF PushPublish, Fifo!Put
    <3>3. QED
      BY <3>1, <3>2 DEF Fifo!Next
  <2>3. CASE PopPublish
    <3>1. Len(delivered) < Len(accepted) /\ cVal = accepted[Len(delivered) + 1]
      BY <2>1, <2>3, PopPublishValue DEF IInv, ContentInv
    <3>2. Fifo!Take
      BY <2>3, <3>1 DEF PopPublish, Fifo!Take
    <3>3. QED
      BY <3>2 DEF Fifo!Next
  <2>4. CASE Reset
    BY <2>4 DEF Reset, Fifo!Clear, Fifo!Next
  <2>5. CASE UNCHANGED <<accepted, delivered>>
    BY <2>5 DEF Fifo!vars
  <2>6. QED
    BY <2>1, <2>2, <2>3, <2>4, <2>5
       DEF Next, Push, Pop, PushRefused, PushCheck, PushWrite, PopRefused, PopCheck, PopCopy, vars
<1>3. QED
  BY <1>1, <1>2, Invariance, PTL DEF Spec, FifoSpec, Fifo!Spec
=============================================================================
