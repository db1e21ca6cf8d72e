------------------------ MODULE RingBufferMPMCProofs ------------------------
(***************************************************************************)
(* Proofs about push_mpmc and pop_mpmc, for any number of threads, every   *)
(* SIZE, every bound on the pushes, and loads that may be stale.           *)
(***************************************************************************)
EXTENDS RingBufferMPMC, TLAPS

LEMMA Constants ==
  /\ SIZE \in Nat /\ SIZE > 0
  /\ MaxPush \in Nat
  /\ POS_MOD \in Nat /\ POS_MOD > MaxPush + SIZE
  BY SizeAssumption, BoundAssumption

LEMMA SlotType == \A i \in Nat : Slot(i) \in 0..(SIZE - 1)
  BY SizeAssumption DEF Slot

LEMMA ThreadKinds ==
  /\ \A p \in Producers : p \in Threads /\ p \notin Consumers
  /\ \A c \in Consumers : c \in Threads /\ c \notin Producers
  BY ThreadAssumption DEF Threads

(* A load returns a position that was stored.                               *)
LEMMA LoadWriteBound ==
  ASSUME IInv, NEW t \in Threads, NEW w \in Visible(seenWrite[t], write_pos), LoadWrite(t, w)
  PROVE  /\ w \in 0..MaxPush /\ w <= write_pos
         /\ seenWrite' \in [Threads -> 0..MaxPush]
         /\ \A u \in Threads : seenWrite'[u] <= write_pos
         /\ seenRead' = seenRead
<1> USE Constants
<1>1. seenWrite \in [Threads -> 0..MaxPush] /\ write_pos \in 0..MaxPush
  BY DEF IInv, TypeOK
<1>2. w \in 0..MaxPush /\ w <= write_pos
  BY <1>1 DEF Visible
<1>3. Remember(w) \in 0..MaxPush /\ Remember(w) <= write_pos
  BY <1>1, <1>2 DEF Remember
<1>4. QED
  BY <1>1, <1>2, <1>3 DEF LoadWrite, IInv, SeenInv

LEMMA LoadReadBound ==
  ASSUME IInv, NEW t \in Threads, NEW r \in Visible(seenRead[t], read_pos), LoadRead(t, r)
  PROVE  /\ r \in 0..MaxPush /\ r <= read_pos
         /\ seenRead' \in [Threads -> 0..MaxPush]
         /\ \A u \in Threads : seenRead'[u] <= read_pos
         /\ seenWrite' = seenWrite
<1> USE Constants
<1>1. seenRead \in [Threads -> 0..MaxPush] /\ read_pos \in 0..MaxPush
  BY DEF IInv, TypeOK
<1>2. r \in 0..MaxPush /\ r <= read_pos
  BY <1>1 DEF Visible
<1>3. Remember(r) \in 0..MaxPush /\ Remember(r) <= read_pos
  BY <1>1, <1>2 DEF Remember
<1>4. QED
  BY <1>1, <1>2, <1>3 DEF LoadRead, IInv, SeenInv

-----------------------------------------------------------------------------
(* The inductive invariant holds initially and every step preserves it.     *)

LEMMA InitIInv == Init => IInv
<1>1. SUFFICES ASSUME Init PROVE IInv
  OBVIOUS
<1>2. TypeOK
  BY <1>1, Constants DEF Init, TypeOK
<1>3. QED
  BY <1>1, <1>2, Constants, ThreadKinds
     DEF Init, IInv, PositionsBounded, ClaimsExclusive, SeenInv, LocalsInv

LEMMA PushCallIInv ==
  ASSUME IInv, NEW p \in Producers, NEW v \in client.values, PushCall(p, v)
  PROVE  IInv'
<1> USE Constants, ThreadKinds DEF PushCall, shared, Goto
<1>0. v \in Values
  <2>1. client \in Clients
    BY DEF IInv, TypeOK
  <2>2. QED
    BY <2>1, ClientAssumption
<1>1. TypeOK'
  BY <1>0 DEF IInv, TypeOK
<1>2. PositionsBounded' /\ SeenInv'
  BY DEF IInv, PositionsBounded, SeenInv
<1>3. ClaimsExclusive'
  BY DEF IInv, TypeOK, ClaimsExclusive
<1>4. LocalsInv'
  BY <1>0 DEF IInv, TypeOK, LocalsInv
<1>5. QED
  BY <1>1, <1>2, <1>3, <1>4 DEF IInv

LEMMA PushLoadWriteIInv ==
  ASSUME IInv, NEW p \in Producers,
         NEW w \in Visible(seenWrite[p], write_pos), PushLoadWrite(p, w)
  PROVE  IInv'
<1> USE Constants, ThreadKinds DEF PushLoadWrite, shared, Goto
<1>0. /\ w \in 0..MaxPush /\ w <= write_pos
      /\ seenWrite' \in [Threads -> 0..MaxPush]
      /\ \A u \in Threads : seenWrite'[u] <= write_pos
      /\ seenRead' = seenRead
  BY LoadWriteBound
<1>1. TypeOK'
  BY <1>0 DEF IInv, TypeOK
<1>2. PositionsBounded' /\ SeenInv'
  BY <1>0 DEF IInv, PositionsBounded, SeenInv
<1>3. ClaimsExclusive'
  BY DEF IInv, TypeOK, ClaimsExclusive
<1>4. LocalsInv'
  BY <1>0 DEF IInv, TypeOK, LocalsInv
<1>5. QED
  BY <1>1, <1>2, <1>3, <1>4 DEF IInv

LEMMA PushRefusedIInv ==
  ASSUME IInv, NEW p \in Producers,
         NEW r \in Visible(seenRead[p], read_pos), PushRefused(p, r)
  PROVE  IInv'
<1> USE Constants, ThreadKinds DEF PushRefused, shared, Return, Goto
<1>0. /\ r \in 0..MaxPush /\ r <= read_pos
      /\ seenRead' \in [Threads -> 0..MaxPush]
      /\ \A u \in Threads : seenRead'[u] <= read_pos
      /\ seenWrite' = seenWrite
  BY LoadReadBound
<1>1. TypeOK'
  <2>1. /\ pc' \in [Threads -> {"idle", "pushLoadWrite", "pushLoadRead", "pushCas", "pushStore",
                               "popLoadRead", "popLoadWrite", "popCopy", "popCas"}]
        /\ pos' \in [Threads -> 0..MaxPush]
        /\ val' \in [Threads -> Values \cup {NoValue}]
    BY DEF IInv, TypeOK
  <2>2. QED
    BY <1>0, <2>1 DEF IInv, TypeOK
<1>2. PositionsBounded' /\ SeenInv'
  BY <1>0 DEF IInv, PositionsBounded, SeenInv
<1>3. ClaimsExclusive'
  BY DEF IInv, TypeOK, ClaimsExclusive
<1>4. LocalsInv'
  BY DEF IInv, TypeOK, LocalsInv
<1>5. QED
  BY <1>1, <1>2, <1>3, <1>4 DEF IInv

LEMMA PushCheckIInv ==
  ASSUME IInv, NEW p \in Producers,
         NEW r \in Visible(seenRead[p], read_pos), PushCheck(p, r)
  PROVE  IInv'
<1> USE Constants, ThreadKinds DEF PushCheck, shared, Goto
<1>0. /\ r \in 0..MaxPush /\ r <= read_pos
      /\ seenRead' \in [Threads -> 0..MaxPush]
      /\ \A u \in Threads : seenRead'[u] <= read_pos
      /\ seenWrite' = seenWrite
  BY LoadReadBound
<1>1. TypeOK'
  BY <1>0 DEF IInv, TypeOK
<1>2. PositionsBounded' /\ SeenInv'
  BY <1>0 DEF IInv, PositionsBounded, SeenInv
<1>3. ClaimsExclusive'
  BY DEF IInv, TypeOK, ClaimsExclusive
<1>4. pos[p] < read_pos + SIZE
  <2>1. pos[p] \in 0..MaxPush /\ read_pos \in 0..MaxPush
    BY DEF IInv, TypeOK
  <2>2. ~(Sub64(pos[p], r) >= SIZE)
    BY DEF IsFull
  <2>3. QED
    BY <1>0, <2>1, <2>2 DEF Sub64
<1>5. LocalsInv'
  BY <1>4 DEF IInv, TypeOK, LocalsInv
<1>6. QED
  BY <1>1, <1>2, <1>3, <1>5 DEF IInv

LEMMA PushCasIInv ==
  ASSUME IInv, NEW p \in Producers, PushCas(p)
  PROVE  IInv'
<1> USE Constants, ThreadKinds DEF PushCas, Goto
<1>0. /\ pos[p] = write_pos /\ write_pos \in 0..(MaxPush - 1)
      /\ write_pos' = write_pos + 1 /\ read_pos' = read_pos
      /\ val[p] \in Values /\ write_pos < read_pos + SIZE
  BY DEF IInv, TypeOK, LocalsInv, CasSucceeds
<1>1. TypeOK'
  BY <1>0 DEF IInv, TypeOK, Remember
<1>2. PositionsBounded'
  BY <1>0 DEF IInv, TypeOK, PositionsBounded
<1>3. SeenInv'
  BY <1>0 DEF IInv, TypeOK, SeenInv, Remember
<1>4. /\ Len(accepted') = write_pos + 1
      /\ accepted'[write_pos + 1] = val[p]
      /\ \A i \in 1..write_pos : accepted'[i] = accepted[i]
  <2>1. accepted \in Seq(Values) /\ Len(accepted) = write_pos
    BY DEF IInv, TypeOK, ClaimsExclusive
  <2>2. QED
    BY <1>0, <2>1
<1>5. ClaimsExclusive'
  <2>1. Len(accepted') = write_pos' /\ Len(delivered') = read_pos'
    BY <1>0, <1>4 DEF IInv, ClaimsExclusive
  <2>2. ASSUME NEW q \in Producers, pc'[q] = "pushStore"
        PROVE  pos'[q] < write_pos' /\ accepted'[pos'[q] + 1] = val'[q]
    <3>1. CASE q = p
      BY <1>0, <1>4, <3>1
    <3>2. CASE q # p
      <4>1. pc[q] = "pushStore" /\ pos[q] \in 0..MaxPush
        BY <2>2, <3>2 DEF IInv, TypeOK
      <4>2. pos[q] < write_pos /\ accepted[pos[q] + 1] = val[q]
        BY <4>1 DEF IInv, ClaimsExclusive
      <4>3. QED
        BY <1>0, <1>4, <4>1, <4>2
    <3>3. QED
      BY <3>1, <3>2
  <2>3. ASSUME NEW q \in Producers, NEW s \in Producers, q # s,
               pc'[q] = "pushStore", pc'[s] = "pushStore"
        PROVE  pos'[q] # pos'[s]
    BY <1>0, <2>3 DEF IInv, TypeOK, ClaimsExclusive
  <2>4. QED
    BY <2>1, <2>2, <2>3 DEF ClaimsExclusive
<1>6. LocalsInv'
  BY <1>0 DEF IInv, TypeOK, LocalsInv
<1>7. QED
  BY <1>1, <1>2, <1>3, <1>5, <1>6 DEF IInv

LEMMA PushCasFailsIInv ==
  ASSUME IInv, NEW p \in Producers, PushCasFails(p)
  PROVE  IInv'
<1> USE Constants, ThreadKinds DEF PushCasFails, shared, Goto, RETRY_PUSH
<1>1. TypeOK'
  BY DEF IInv, TypeOK
<1>2. PositionsBounded' /\ SeenInv'
  BY DEF IInv, PositionsBounded, SeenInv
<1>3. ClaimsExclusive'
  BY DEF IInv, TypeOK, ClaimsExclusive
<1>4. LocalsInv'
  BY DEF IInv, TypeOK, LocalsInv
<1>5. QED
  BY <1>1, <1>2, <1>3, <1>4 DEF IInv

LEMMA PushStoreIInv ==
  ASSUME IInv, NEW p \in Producers, PushStore(p)
  PROVE  IInv'
<1> USE Constants, ThreadKinds DEF PushStore, Return, Goto
<1>0. pos[p] \in 0..MaxPush /\ 0..MaxPush \subseteq Nat
  BY DEF IInv, TypeOK
<1>1. Slot(pos[p]) \in 0..(SIZE - 1)
  BY <1>0, SlotType
<1>2. TypeOK'
  BY <1>1 DEF IInv, TypeOK
<1>3. PositionsBounded' /\ SeenInv'
  BY DEF IInv, PositionsBounded, SeenInv
<1>4. ClaimsExclusive'
  BY DEF IInv, TypeOK, ClaimsExclusive
<1>5. LocalsInv'
  BY DEF IInv, TypeOK, LocalsInv
<1>6. QED
  BY <1>2, <1>3, <1>4, <1>5 DEF IInv

LEMMA PopCallIInv ==
  ASSUME IInv, NEW c \in Consumers, PopCall(c)
  PROVE  IInv'
<1> USE Constants, ThreadKinds DEF PopCall, shared, Goto
<1>1. TypeOK'
  BY DEF IInv, TypeOK
<1>2. PositionsBounded' /\ SeenInv'
  BY DEF IInv, PositionsBounded, SeenInv
<1>3. ClaimsExclusive'
  BY DEF IInv, TypeOK, ClaimsExclusive
<1>4. LocalsInv'
  BY DEF IInv, TypeOK, LocalsInv
<1>5. QED
  BY <1>1, <1>2, <1>3, <1>4 DEF IInv

LEMMA PopLoadReadIInv ==
  ASSUME IInv, NEW c \in Consumers,
         NEW r \in Visible(seenRead[c], read_pos), PopLoadRead(c, r)
  PROVE  IInv'
<1> USE Constants, ThreadKinds DEF PopLoadRead, shared, Goto
<1>0. /\ r \in 0..MaxPush /\ r <= read_pos
      /\ seenRead' \in [Threads -> 0..MaxPush]
      /\ \A u \in Threads : seenRead'[u] <= read_pos
      /\ seenWrite' = seenWrite
  BY LoadReadBound
<1>1. TypeOK'
  BY <1>0 DEF IInv, TypeOK
<1>2. PositionsBounded' /\ SeenInv'
  BY <1>0 DEF IInv, PositionsBounded, SeenInv
<1>3. ClaimsExclusive'
  BY DEF IInv, TypeOK, ClaimsExclusive
<1>4. LocalsInv'
  BY <1>0 DEF IInv, TypeOK, LocalsInv
<1>5. QED
  BY <1>1, <1>2, <1>3, <1>4 DEF IInv

LEMMA PopRefusedIInv ==
  ASSUME IInv, NEW c \in Consumers,
         NEW w \in Visible(seenWrite[c], write_pos), PopRefused(c, w)
  PROVE  IInv'
<1> USE Constants, ThreadKinds DEF PopRefused, shared, Return, Goto
<1>0. /\ w \in 0..MaxPush /\ w <= write_pos
      /\ seenWrite' \in [Threads -> 0..MaxPush]
      /\ \A u \in Threads : seenWrite'[u] <= write_pos
      /\ seenRead' = seenRead
  BY LoadWriteBound
<1>1. TypeOK'
  <2>1. /\ pc' \in [Threads -> {"idle", "pushLoadWrite", "pushLoadRead", "pushCas", "pushStore",
                               "popLoadRead", "popLoadWrite", "popCopy", "popCas"}]
        /\ pos' \in [Threads -> 0..MaxPush]
        /\ val' \in [Threads -> Values \cup {NoValue}]
    BY DEF IInv, TypeOK
  <2>2. QED
    BY <1>0, <2>1 DEF IInv, TypeOK
<1>2. PositionsBounded' /\ SeenInv'
  BY <1>0 DEF IInv, PositionsBounded, SeenInv
<1>3. ClaimsExclusive'
  BY DEF IInv, TypeOK, ClaimsExclusive
<1>4. LocalsInv'
  BY DEF IInv, TypeOK, LocalsInv
<1>5. QED
  BY <1>1, <1>2, <1>3, <1>4 DEF IInv

LEMMA PopCheckIInv ==
  ASSUME IInv, NEW c \in Consumers,
         NEW w \in Visible(seenWrite[c], write_pos), PopCheck(c, w)
  PROVE  IInv'
<1> USE Constants, ThreadKinds DEF PopCheck, shared, Goto
<1>0. /\ w \in 0..MaxPush /\ w <= write_pos
      /\ seenWrite' \in [Threads -> 0..MaxPush]
      /\ \A u \in Threads : seenWrite'[u] <= write_pos
      /\ seenRead' = seenRead
  BY LoadWriteBound
<1>1. TypeOK'
  BY <1>0 DEF IInv, TypeOK
<1>2. PositionsBounded' /\ SeenInv'
  BY <1>0 DEF IInv, PositionsBounded, SeenInv
<1>3. ClaimsExclusive'
  BY DEF IInv, TypeOK, ClaimsExclusive
<1>4. pos[c] < write_pos
  BY <1>0 DEF IsEmpty, IInv, TypeOK
<1>5. LocalsInv'
  BY <1>4 DEF IInv, TypeOK, LocalsInv
<1>6. QED
  BY <1>1, <1>2, <1>3, <1>5 DEF IInv

LEMMA PopCopyIInv ==
  ASSUME IInv, NEW c \in Consumers, PopCopy(c)
  PROVE  IInv'
<1> USE Constants, ThreadKinds DEF PopCopy, shared, Goto
<1>0. pos[c] \in 0..MaxPush /\ 0..MaxPush \subseteq Nat
  BY DEF IInv, TypeOK
<1>1. buffer[Slot(pos[c])] \in Values \cup {NoValue}
  BY <1>0, SlotType DEF IInv, TypeOK
<1>2. TypeOK'
  BY <1>1 DEF IInv, TypeOK
<1>3. PositionsBounded' /\ SeenInv'
  BY DEF IInv, PositionsBounded, SeenInv
<1>4. ClaimsExclusive'
  BY DEF IInv, TypeOK, ClaimsExclusive
<1>5. LocalsInv'
  BY DEF IInv, TypeOK, LocalsInv
<1>6. QED
  BY <1>2, <1>3, <1>4, <1>5 DEF IInv

LEMMA PopCasIInv ==
  ASSUME IInv, NEW c \in Consumers, PopCas(c)
  PROVE  IInv'
<1> USE Constants, ThreadKinds DEF PopCas, Return, Goto
<1>0. /\ pos[c] = read_pos /\ read_pos \in 0..(MaxPush - 1) /\ read_pos < write_pos
      /\ read_pos' = read_pos + 1 /\ write_pos' = write_pos
  BY DEF IInv, TypeOK, LocalsInv, CasSucceeds
<1>1. /\ Len(delivered') = read_pos + 1
      /\ delivered' \in Seq(Values \cup {NoValue})
  <2>1. /\ delivered \in Seq(Values \cup {NoValue})
        /\ Len(delivered) = read_pos
        /\ val[c] \in Values \cup {NoValue}
    BY DEF IInv, TypeOK, ClaimsExclusive
  <2>2. QED
    BY <1>0, <2>1
<1>2. TypeOK'
  BY <1>0, <1>1 DEF IInv, TypeOK, Remember
<1>3. PositionsBounded'
  BY <1>0 DEF IInv, TypeOK, PositionsBounded
<1>4. SeenInv'
  BY <1>0 DEF IInv, TypeOK, SeenInv, Remember
<1>5. ClaimsExclusive'
  BY <1>0, <1>1 DEF IInv, TypeOK, ClaimsExclusive
<1>6. LocalsInv'
  BY <1>0 DEF IInv, TypeOK, LocalsInv
<1>7. QED
  BY <1>2, <1>3, <1>4, <1>5, <1>6 DEF IInv

LEMMA PopCasFailsIInv ==
  ASSUME IInv, NEW c \in Consumers, PopCasFails(c)
  PROVE  IInv'
<1> USE Constants, ThreadKinds DEF PopCasFails, shared, Goto, RETRY_POP
<1>1. TypeOK'
  BY DEF IInv, TypeOK
<1>2. PositionsBounded' /\ SeenInv'
  BY DEF IInv, PositionsBounded, SeenInv
<1>3. ClaimsExclusive'
  BY DEF IInv, TypeOK, ClaimsExclusive
<1>4. LocalsInv'
  BY DEF IInv, TypeOK, LocalsInv
<1>5. QED
  BY <1>1, <1>2, <1>3, <1>4 DEF IInv

LEMMA ResetIInv ==
  ASSUME IInv, Reset
  PROVE  IInv'
<1> USE Constants, ThreadKinds
<1>1. TypeOK'
  BY DEF IInv, TypeOK, Reset
<1>2. PositionsBounded' /\ SeenInv'
  BY DEF PositionsBounded, SeenInv, Reset
<1>3. ClaimsExclusive' /\ LocalsInv'
  BY DEF ClaimsExclusive, LocalsInv, Reset, Idle
<1>4. QED
  BY <1>1, <1>2, <1>3 DEF IInv

LEMMA StepIInv == IInv /\ [Next]_vars => IInv'
<1>1. SUFFICES ASSUME IInv, [Next]_vars PROVE IInv'
  OBVIOUS
<1>2. ASSUME NEW p \in Producers, Push(p) PROVE IInv'
  BY <1>1, <1>2, PushCallIInv, PushLoadWriteIInv, PushRefusedIInv, PushCheckIInv,
     PushCasIInv, PushCasFailsIInv, PushStoreIInv DEF Push
<1>3. ASSUME NEW c \in Consumers, Pop(c) PROVE IInv'
  BY <1>1, <1>3, PopCallIInv, PopLoadReadIInv, PopRefusedIInv, PopCheckIInv,
     PopCopyIInv, PopCasIInv, PopCasFailsIInv DEF Pop
<1>4. CASE Reset
  BY <1>1, <1>4, ResetIInv
<1>5. CASE UNCHANGED vars
  BY <1>1, <1>5 DEF vars, shared, locals, IInv, TypeOK, PositionsBounded,
     ClaimsExclusive, SeenInv, LocalsInv
<1>6. QED
  BY <1>1, <1>2, <1>3, <1>4, <1>5 DEF Next

(* IInv is an invariant of every execution of push_mpmc, pop_mpmc and       *)
(* reset, even if loads return stale positions.                             *)
THEOREM Invariance == Spec => []IInv
  BY InitIInv, StepIInv, PTL DEF Spec

-----------------------------------------------------------------------------
(* What holds of the positions and the claims however many threads call     *)
(* push_mpmc and pop_mpmc at once.  (What is in the slots is another        *)
(* matter: DeliveredIsAccepted does not hold.)                              *)

(* Every variable keeps its type: positions stay within the bound, slots    *)
(* and results hold pushed values or what was there before the first push.  *)
THEOREM TypeCorrect == Spec => []TypeOK
<1>1. IInv => TypeOK
  BY DEF IInv
<1>2. QED
  BY <1>1, Invariance, PTL

(* Pops never overtake pushes and pushes never lap pops by more than SIZE:  *)
(* the checks at ringbuffer.hpp:68 and 86 are made on values that may be    *)
(* stale and acted on later, and are still safe.                            *)
THEOREM PositionsStayBounded == Spec => []PositionsBounded
<1>1. IInv => PositionsBounded
  BY DEF IInv
<1>2. QED
  BY <1>1, Invariance, PTL

(* The compare-and-swaps at ringbuffer.hpp:72 and 92 give every index to    *)
(* one successful call.                                                     *)
THEOREM ClaimsAreExclusive == Spec => []ClaimsExclusive
<1>1. IInv => ClaimsExclusive
  BY DEF IInv
<1>2. QED
  BY <1>1, Invariance, PTL
-----------------------------------------------------------------------------
(* A client that keeps pushes and pops apart.                               *)

\* Between the positions a slot holds the value accepted for it, or the call
\* that owns it has still to store it; and a pop whose compare-and-swap would
\* succeed has copied the value accepted at its index.
Stored(i)  == buffer[Slot(i)] = accepted[i + 1]
Owned(i)   == \E p \in Producers : pc[p] = "pushStore" /\ pos[p] = i

PhasedInv ==
  client.phased =>
    /\ Idle(Producers) \/ Idle(Consumers)
    /\ \A p \in Producers : pc[p] = "pushStore" => read_pos <= pos[p]
    /\ \A i \in read_pos..(write_pos - 1) : Stored(i) \/ Owned(i)
    /\ \A c \in Consumers :
         pc[c] = "popCas" /\ pos[c] = read_pos => val[c] = accepted[read_pos + 1]

\* Two positions less than SIZE apart never share a slot.
LEMMA SlotDistinct ==
  ASSUME NEW a \in Nat, NEW b \in Nat, a < b, b - a < SIZE
  PROVE  Slot(a) # Slot(b)
<1>1. SIZE \in Nat /\ SIZE > 0
  BY Constants
<1>2. SUFFICES ASSUME a % SIZE = b % SIZE PROVE FALSE
  BY DEF Slot
<1> DEFINE laps == (b \div SIZE) - (a \div SIZE)
<1>3. a = SIZE * (a \div SIZE) + (a % SIZE) /\ b = SIZE * (b \div SIZE) + (b % SIZE)
  BY <1>1
<1>4. a \div SIZE \in Int /\ b \div SIZE \in Int /\ laps \in Int
  BY <1>1
<1>5. SIZE * laps = b - a
  BY <1>1, <1>2, <1>3, <1>4
<1> HIDE DEF laps
<1>6. CASE laps <= 0
  BY <1>1, <1>4, <1>5, <1>6
<1>7. CASE laps >= 1
  <2>1. SIZE * laps >= SIZE
    BY <1>1, <1>4, <1>7
  <2>2. QED
    BY <1>1, <1>4, <1>5, <2>1
<1>8. QED
  BY <1>4, <1>6, <1>7

\* A step that changes neither ring nor claims, and begins or ends a call only
\* as the discipline allows, keeps PhasedInv.
LEMMA QuietStepPhased ==
  ASSUME IInv, PhasedInv,
         UNCHANGED <<client, buffer, write_pos, read_pos, accepted>>,
         \A p \in Producers : pc[p] = "pushStore" <=> pc'[p] = "pushStore",
         \A p \in Producers : pc[p] = "pushStore" => pos'[p] = pos[p],
         client.phased => (Idle(Producers) \/ Idle(Consumers))',
         \A c \in Consumers : pc'[c] = "popCas" =>
           pc[c] = "popCas" /\ pos'[c] = pos[c] /\ val'[c] = val[c]
  PROVE  PhasedInv'
<1> SUFFICES ASSUME client.phased PROVE (PhasedInv!2)'
  BY DEF PhasedInv
<1>1. \A k : Stored(k) => Stored(k)'
  BY DEF Stored
<1>2. \A k : Owned(k) => Owned(k)'
  BY DEF Owned
<1>3. QED
  BY <1>1, <1>2 DEF PhasedInv

LEMMA PushCasPhased ==
  ASSUME IInv, PhasedInv, NEW p \in Producers, PushCas(p)
  PROVE  PhasedInv'
<1> SUFFICES ASSUME client.phased PROVE (PhasedInv!2)'
  BY DEF PhasedInv, PushCas
<1> USE Constants, ThreadKinds
<1>1. /\ pc[p] = "pushCas" /\ pos[p] = write_pos /\ write_pos \in Nat
      /\ read_pos \in Nat /\ read_pos <= write_pos
      /\ write_pos' = write_pos + 1 /\ UNCHANGED <<buffer, read_pos, pos, val>>
      /\ \A t \in Threads : pc'[t] = IF t = p THEN "pushStore" ELSE pc[t]
  BY DEF PushCas, CasSucceeds, Goto, IInv, TypeOK, PositionsBounded
<1>2. Idle(Consumers)
  BY <1>1 DEF PhasedInv, Idle
<1>3. Idle(Consumers)'
  BY <1>1, <1>2 DEF Idle
<1>4. \A q \in Producers : pc'[q] = "pushStore" => read_pos' <= pos'[q]
  BY <1>1 DEF PhasedInv
<1>5. accepted \in Seq(Values) /\ Len(accepted) = write_pos /\ accepted' = Append(accepted, val[p])
  BY DEF PushCas, IInv, TypeOK, ClaimsExclusive
<1>6. ASSUME NEW k \in read_pos'..(write_pos' - 1)
      PROVE  Stored(k)' \/ Owned(k)'
  <2>1. CASE k = write_pos
    BY <1>1, <2>1 DEF Owned
  <2>2. CASE k # write_pos
    <3>1. k \in read_pos..(write_pos - 1) /\ k + 1 \in 1..Len(accepted)
      BY <1>1, <1>5, <1>6, <2>2
    <3>2. accepted'[k + 1] = accepted[k + 1]
      BY <1>5, <3>1
    <3>3. Stored(k) => Stored(k)'
      BY <1>1, <3>2 DEF Stored
    <3>4. Owned(k) => Owned(k)'
      BY <1>1 DEF Owned
    <3>5. QED
      BY <3>1, <3>3, <3>4 DEF PhasedInv
  <2>3. QED
    BY <2>1, <2>2
<1>7. \A c \in Consumers : pc'[c] # "popCas"
  BY <1>3 DEF Idle
<1>8. QED
  BY <1>3, <1>4, <1>6, <1>7

LEMMA PushStorePhased ==
  ASSUME IInv, PhasedInv, NEW p \in Producers, PushStore(p)
  PROVE  PhasedInv'
<1> SUFFICES ASSUME client.phased PROVE (PhasedInv!2)'
  BY DEF PhasedInv, PushStore
<1> USE Constants, ThreadKinds
<1>1. /\ pc[p] = "pushStore" /\ pos[p] \in Nat /\ write_pos \in Nat /\ read_pos \in Nat
      /\ read_pos <= pos[p] /\ pos[p] < write_pos /\ write_pos <= read_pos + SIZE
      /\ accepted[pos[p] + 1] = val[p]
      /\ UNCHANGED <<write_pos, read_pos, accepted>>
      /\ buffer' = [buffer EXCEPT ![Slot(pos[p])] = val[p]]
      /\ \A t \in Threads : pc'[t] = IF t = p THEN "idle" ELSE pc[t]
      /\ \A q \in Threads : q # p => pos'[q] = pos[q]
      /\ buffer \in [0..(SIZE - 1) -> Values \cup {NoValue}]
  BY DEF PushStore, Return, Goto, IInv, TypeOK, PositionsBounded, ClaimsExclusive, PhasedInv
<1>2. Idle(Consumers) /\ Idle(Consumers)'
  BY <1>1 DEF PhasedInv, Idle
<1>3. \A q \in Producers : pc'[q] = "pushStore" => read_pos' <= pos'[q]
  BY <1>1 DEF PhasedInv
<1>4. ASSUME NEW k \in read_pos'..(write_pos' - 1)
      PROVE  Stored(k)' \/ Owned(k)'
  <2>1. k \in read_pos..(write_pos - 1) /\ k \in Nat
    BY <1>1
  <2>2. Slot(pos[p]) \in 0..(SIZE - 1)
    BY <1>1, SlotType
  <2>3. CASE k = pos[p]
    BY <1>1, <2>2, <2>3 DEF Stored
  <2>4. CASE k # pos[p]
    <3>1. Slot(k) # Slot(pos[p])
      <4>1. CASE k < pos[p]
        <5>1. pos[p] - k < SIZE
          BY <1>1, <2>1
        <5>2. QED
          BY <1>1, <2>1, <4>1, <5>1, SlotDistinct
      <4>2. CASE pos[p] < k
        <5>1. k - pos[p] < SIZE
          BY <1>1, <2>1
        <5>2. QED
          BY <1>1, <2>1, <4>2, <5>1, SlotDistinct
      <4>3. QED
        BY <1>1, <2>1, <2>4, <4>1, <4>2
    <3>2. Slot(k) \in 0..(SIZE - 1)
      BY <2>1, SlotType
    <3>3. Stored(k) => Stored(k)'
      BY <1>1, <3>1, <3>2 DEF Stored
    <3>4. Owned(k) => Owned(k)'
      BY <1>1, <2>4 DEF Owned
    <3>5. QED
      BY <2>1, <3>3, <3>4 DEF PhasedInv
  <2>5. QED
    BY <2>3, <2>4
<1>5. \A c \in Consumers : pc'[c] # "popCas"
  BY <1>2 DEF Idle
<1>6. QED
  BY <1>2, <1>3, <1>4, <1>5

LEMMA PopCopyPhased ==
  ASSUME IInv, PhasedInv, NEW c \in Consumers, PopCopy(c)
  PROVE  PhasedInv'
<1> SUFFICES ASSUME client.phased PROVE (PhasedInv!2)'
  BY DEF PhasedInv, PopCopy, shared
<1> USE Constants, ThreadKinds
<1>1. /\ pc[c] = "popCopy" /\ pos[c] < write_pos
      /\ read_pos \in Nat /\ write_pos \in Nat
      /\ UNCHANGED <<buffer, write_pos, read_pos, accepted, pos>>
      /\ \A t \in Threads : pc'[t] = IF t = c THEN "popCas" ELSE pc[t]
      /\ val' = [val EXCEPT ![c] = buffer[Slot(pos[c])]]
      /\ val \in [Threads -> Values \cup {NoValue}]
  BY DEF PopCopy, shared, Goto, IInv, TypeOK, LocalsInv
<1>2. Idle(Producers) /\ Idle(Producers)'
  BY <1>1 DEF PhasedInv, Idle
<1>3. \A k \in read_pos..(write_pos - 1) : Stored(k)
  BY <1>2 DEF PhasedInv, Idle, Owned
<1>4. \A k \in read_pos'..(write_pos' - 1) : Stored(k)'
  BY <1>1, <1>3 DEF Stored
<1>5. ASSUME NEW d \in Consumers, pc'[d] = "popCas", pos'[d] = read_pos'
      PROVE  val'[d] = accepted'[read_pos' + 1]
  <2>1. CASE d = c
    <3>1. pos[c] \in read_pos..(write_pos - 1)
      BY <1>1, <1>5, <2>1
    <3>2. QED
      BY <1>1, <1>3, <1>5, <2>1, <3>1 DEF Stored
  <2>2. CASE d # c
    BY <1>1, <1>5, <2>2 DEF PhasedInv
  <2>3. QED
    BY <2>1, <2>2
<1>6. \A p \in Producers : pc'[p] # "pushStore"
  BY <1>2 DEF Idle
<1>7. QED
  BY <1>2, <1>4, <1>5, <1>6

LEMMA PopCasPhased ==
  ASSUME IInv, PhasedInv, NEW c \in Consumers, PopCas(c)
  PROVE  PhasedInv'
<1> SUFFICES ASSUME client.phased PROVE (PhasedInv!2)'
  BY DEF PhasedInv, PopCas
<1> USE Constants, ThreadKinds
<1>1. /\ pc[c] = "popCas" /\ pos[c] = read_pos /\ read_pos \in Nat /\ write_pos \in Nat
      /\ read_pos' = read_pos + 1
      /\ UNCHANGED <<buffer, write_pos, accepted>>
      /\ \A t \in Threads : pc'[t] = IF t = c THEN "idle" ELSE pc[t]
      /\ \A t \in Threads : t # c => pos'[t] = pos[t] /\ val'[t] = val[t]
      /\ \A d \in Consumers : pc[d] = "popCas" => pos[d] <= read_pos
      /\ pos \in [Threads -> 0..MaxPush]
  BY DEF PopCas, CasSucceeds, Return, Goto, IInv, TypeOK, LocalsInv
<1>2. Idle(Producers) /\ Idle(Producers)'
  BY <1>1 DEF PhasedInv, Idle
<1>3. \A k \in read_pos..(write_pos - 1) : Stored(k)
  BY <1>2 DEF PhasedInv, Idle, Owned
<1>4. \A k \in read_pos'..(write_pos' - 1) : Stored(k)'
  BY <1>1, <1>3 DEF Stored
<1>5. \A d \in Consumers : pc'[d] = "popCas" => pos'[d] # read_pos'
  BY <1>1
<1>6. \A p \in Producers : pc'[p] # "pushStore"
  BY <1>2 DEF Idle
<1>7. QED
  BY <1>2, <1>4, <1>5, <1>6

\* A step of one thread that is in a call, or begins one while the other side
\* is idle, leaves one side idle.
LEMMA OneSideIdle ==
  ASSUME IInv, PhasedInv, client.phased, NEW t \in Threads,
         \A u \in Threads : u # t => pc'[u] = pc[u],
         pc[t] = "idle" => IF t \in Producers THEN Idle(Consumers) ELSE Idle(Producers)
  PROVE  (Idle(Producers) \/ Idle(Consumers))'
<1> USE ThreadKinds
<1>1. CASE t \in Producers
  <2>1. Idle(Consumers)
    BY <1>1 DEF PhasedInv, Idle
  <2>2. QED
    BY <1>1, <2>1 DEF Idle
<1>2. CASE t \in Consumers
  <2>1. Idle(Producers)
    BY <1>2 DEF PhasedInv, Idle
  <2>2. QED
    BY <1>2, <2>1 DEF Idle
<1>3. QED
  BY <1>1, <1>2 DEF Threads

LEMMA PushPhased ==
  ASSUME IInv, PhasedInv, NEW p \in Producers, Push(p)
  PROVE  PhasedInv'
<1> USE ThreadKinds
<1>1. CASE PushCas(p)
  BY <1>1, PushCasPhased
<1>2. CASE PushStore(p)
  BY <1>2, PushStorePhased
<1>3. ASSUME ~PushCas(p), ~PushStore(p)
      PROVE  PhasedInv'
  <2>1. /\ UNCHANGED <<client, buffer, write_pos, read_pos, accepted>>
        /\ pc[p] # "pushStore" /\ pc'[p] # "pushStore"
        /\ \A t \in Threads : t # p => /\ pc'[t] = pc[t] /\ pos'[t] = pos[t] /\ val'[t] = val[t]
        /\ client.phased /\ pc[p] = "idle" => Idle(Consumers)
    <3>1. ASSUME NEW v \in client.values, PushCall(p, v) PROVE <2>1
      BY <3>1 DEF PushCall, Goto, shared, IInv, TypeOK
    <3>2. ASSUME NEW w \in Visible(seenWrite[p], write_pos), PushLoadWrite(p, w) PROVE <2>1
      BY <3>2 DEF PushLoadWrite, Goto, shared, IInv, TypeOK
    <3>3. ASSUME NEW r \in Visible(seenRead[p], read_pos), PushRefused(p, r) PROVE <2>1
      BY <3>3 DEF PushRefused, Return, Goto, shared, IInv, TypeOK
    <3>4. ASSUME NEW r \in Visible(seenRead[p], read_pos), PushCheck(p, r) PROVE <2>1
      BY <3>4 DEF PushCheck, Goto, shared, IInv, TypeOK
    <3>5. ASSUME PushCasFails(p) PROVE <2>1
      BY <3>5 DEF PushCasFails, RETRY_PUSH, Goto, shared, IInv, TypeOK
    <3>6. QED
      BY <1>3, <3>1, <3>2, <3>3, <3>4, <3>5 DEF Push
  <2>2. client.phased => (Idle(Producers) \/ Idle(Consumers))'
    BY <2>1, OneSideIdle
  <2>3. QED
    BY <2>1, <2>2, QuietStepPhased
<1>4. QED
  BY <1>1, <1>2, <1>3

LEMMA PopPhased ==
  ASSUME IInv, PhasedInv, NEW c \in Consumers, Pop(c)
  PROVE  PhasedInv'
<1> USE ThreadKinds
<1>1. CASE PopCas(c)
  BY <1>1, PopCasPhased
<1>2. CASE PopCopy(c)
  BY <1>2, PopCopyPhased
<1>3. ASSUME ~PopCas(c), ~PopCopy(c)
      PROVE  PhasedInv'
  <2>1. /\ UNCHANGED <<client, buffer, write_pos, read_pos, accepted>>
        /\ pc'[c] # "popCas"
        /\ \A t \in Threads : t # c => /\ pc'[t] = pc[t] /\ pos'[t] = pos[t] /\ val'[t] = val[t]
        /\ client.phased /\ pc[c] = "idle" => Idle(Producers)
    <3>1. ASSUME PopCall(c) PROVE <2>1
      BY <3>1 DEF PopCall, Goto, shared, IInv, TypeOK
    <3>2. ASSUME NEW r \in Visible(seenRead[c], read_pos), PopLoadRead(c, r) PROVE <2>1
      BY <3>2 DEF PopLoadRead, Goto, shared, IInv, TypeOK
    <3>3. ASSUME NEW w \in Visible(seenWrite[c], write_pos), PopRefused(c, w) PROVE <2>1
      BY <3>3 DEF PopRefused, Return, Goto, shared, IInv, TypeOK
    <3>4. ASSUME NEW w \in Visible(seenWrite[c], write_pos), PopCheck(c, w) PROVE <2>1
      BY <3>4 DEF PopCheck, Goto, shared, IInv, TypeOK
    <3>5. ASSUME PopCasFails(c) PROVE <2>1
      BY <3>5 DEF PopCasFails, RETRY_POP, Goto, shared, IInv, TypeOK
    <3>6. QED
      BY <1>3, <3>1, <3>2, <3>3, <3>4, <3>5 DEF Pop
  <2>2. client.phased => (Idle(Producers) \/ Idle(Consumers))'
    BY <2>1, OneSideIdle
  <2>3. QED
    BY <2>1, <2>2, QuietStepPhased
<1>4. QED
  BY <1>1, <1>2, <1>3

LEMMA ResetPhased ==
  ASSUME PhasedInv, Reset
  PROVE  PhasedInv'
<1>1. Idle(Producers)' /\ Idle(Consumers)' /\ read_pos' = 0 /\ write_pos' = 0
  BY DEF Reset, Idle, Threads
<1>2. QED
  BY <1>1 DEF PhasedInv, Idle

LEMMA StutterPhased ==
  ASSUME PhasedInv, UNCHANGED vars
  PROVE  PhasedInv'
<1>1. UNCHANGED <<client, buffer, write_pos, read_pos, pc, pos, val, accepted>>
  BY DEF vars, shared, locals
<1>2. \A k : Stored(k)' = Stored(k) /\ Owned(k)' = Owned(k)
  BY <1>1 DEF Stored, Owned
<1>3. QED
  BY <1>1, <1>2 DEF PhasedInv, Idle

\* What is between the positions while pushes and pops are kept apart.
LEMMA PhasedInvariance == Spec => []PhasedInv
<1>1. Init => PhasedInv
  BY DEF Init, PhasedInv, Idle, Threads
<1>2. IInv /\ PhasedInv /\ [Next]_vars => PhasedInv'
  BY PushPhased, PopPhased, ResetPhased, StutterPhased DEF Next
<1>3. QED
  BY <1>1, <1>2, Invariance, PTL DEF Spec

(* If the callers keep pushes and pops apart in time, push_mpmc and         *)
(* pop_mpmc implement a bounded FIFO, for any number of threads: the        *)
(* discipline under which the late store at ringbuffer.hpp:75 is harmless.  *)
THEOREM PhasedImplementsFifo == Spec => FifoIfPhased
<1>1. IInv /\ PhasedInv /\ [Next]_vars => [client.phased => Fifo!Next]_(Fifo!vars)
  <2>1. SUFFICES ASSUME IInv, PhasedInv, [Next]_vars, client.phased
                 PROVE  [Fifo!Next]_(Fifo!vars)
    OBVIOUS
  <2>2. ASSUME NEW p \in Producers, PushCas(p) PROVE Fifo!Next
    <3>1. val[p] \in Values /\ Len(accepted) - Len(delivered) < SIZE
      BY <2>1, <2>2, Constants DEF PushCas, CasSucceeds, IInv, TypeOK, ClaimsExclusive, LocalsInv
    <3>2. Fifo!Put(val[p])
      BY <2>2, <3>1 DEF PushCas, Fifo!Put
    <3>3. QED
      BY <3>1, <3>2 DEF Fifo!Next
  <2>3. ASSUME NEW c \in Consumers, PopCas(c) PROVE Fifo!Next
    <3>1. /\ pos[c] = read_pos /\ read_pos < write_pos
          /\ Len(delivered) = read_pos /\ Len(accepted) = write_pos
      BY <2>1, <2>3 DEF PopCas, CasSucceeds, IInv, TypeOK, ClaimsExclusive, LocalsInv
    <3>2. val[c] = accepted[read_pos + 1]
      BY <2>1, <2>3, <3>1 DEF PhasedInv, PopCas
    <3>3. Fifo!Take
      BY <2>3, <3>1, <3>2 DEF PopCas, Fifo!Take
    <3>4. QED
      BY <3>3 DEF Fifo!Next
  <2>4. CASE Reset
    BY <2>4 DEF Reset, Fifo!Clear, Fifo!Next
  <2>5. ASSUME NEW p \in Producers, Push(p), ~PushCas(p) PROVE UNCHANGED Fifo!vars
    BY <2>5 DEF Push, PushCall, PushLoadWrite, PushRefused, PushCheck, PushCasFails, PushStore,
       Fifo!vars
  <2>6. ASSUME NEW c \in Consumers, Pop(c), ~PopCas(c) PROVE UNCHANGED Fifo!vars
    BY <2>6 DEF Pop, PopCall, PopLoadRead, PopRefused, PopCheck, PopCopy, PopCasFails, Fifo!vars
  <2>7. CASE UNCHANGED vars
    BY <2>7 DEF vars, Fifo!vars
  <2>8. QED
    BY <2>1, <2>2, <2>3, <2>4, <2>5, <2>6, <2>7 DEF Next
<1>2. QED
  BY <1>1, Invariance, PhasedInvariance, PTL DEF Spec, FifoIfPhased
=============================================================================
