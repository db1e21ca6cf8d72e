-------------------------- MODULE BranchBenchProofs --------------------------
(***************************************************************************)
(* Proof that all variants compute the same sum, for data of every length, *)
(* every script and every threshold.                                       *)
(***************************************************************************)
EXTENDS BranchBench, TLAPS

LEMMA Constants ==
  /\ BYTES \in Nat /\ BYTES > 1 /\ LIMIT \in Nat
  /\ Lengths \subseteq Nat /\ Randoms \subseteq Byte
  BY ByteAssumption, LengthAssumption

(* Each variant adds the same number for a byte.                            *)
LEMMA AddedIsBranching ==
  ASSUME NEW b \in Byte, NEW v
  PROVE  Added(v, b) = Branching(b) /\ Branching(b) \in Nat
<1>0. b \in Nat
  BY Constants DEF Byte
<1>1. Branching(b) \in Nat
  BY <1>0, Constants DEF Branching
<1>2. Branchless(b) = Branching(b)
  BY <1>0, Constants DEF Branchless, Branching
<1>3. lut[b] = Branching(b)
  BY <1>0, Constants DEF lut, Branching
<1>4. QED
  BY <1>1, <1>2, <1>3 DEF Added

(* The loop of every variant stops at the length of the data.               *)
LEMMA BoundIsLength ==
  ASSUME BranchInv, Running
  PROVE  LoopOver <=> i >= n
  BY DEF BranchInv, LoopInv, LoopOver

LEMMA RunningFacts ==
  ASSUME BranchInv, Running
  PROVE  /\ script \in Scripts /\ at \in Nat /\ at > 0 /\ at <= Len(script)
         /\ n \in Nat /\ i \in 0..n /\ size \in 0..n
         /\ data \in [0..(n - 1) -> Byte] /\ values \in [0..(n - 1) -> Byte]
         /\ prefix \in [0..n -> Nat]
         /\ sum \in Nat /\ results \subseteq Nat
  BY DEF BranchInv, TypeOK, Running

(* The element a variant reads is that of the data.                         *)
LEMMA ElementIsData ==
  ASSUME BranchInv, Running, NEW k \in 0..(n - 1)
  PROVE  Element(k) = data[k] /\ data[k] \in Byte
  BY RunningFacts DEF BranchInv, LoopInv, Element

-----------------------------------------------------------------------------
LEMMA InitBranchInv == Init => BranchInv
  BY DEF Init, BranchInv, TypeOK, ResultsAgree, StartInv, LoopInv, Running

LEMMA LaunchInv ==
  ASSUME BranchInv, NEW s \in Scripts, NEW len \in Lengths, Launch(s, len)
  PROVE  BranchInv'
<1>0. /\ at' = 1 /\ script' = s /\ n' = len /\ len \in Nat
      /\ i' = 0 /\ sum' = 0 /\ size' = 0 /\ results' = {}
  BY Constants DEF Launch, BranchInv, StartInv
<1>1. s \in Seq(Fills \cup {"copy"} \cup Variants) /\ Len(s) > 0 /\ s[1] \in Fills
  BY ScriptAssumption
<1>2. Len(s) \in Nat
  BY <1>1
<1>3. 0 \in Byte
  BY Constants DEF Byte
<1>4. /\ data' \in [0..(len - 1) -> Byte] /\ values' \in [0..(len - 1) -> Byte]
      /\ prefix' \in [0..len -> Nat] /\ prefix'[0] = 0
  BY <1>0, <1>3 DEF Launch
<1>5. TypeOK'
  BY <1>0, <1>1, <1>2, <1>4 DEF TypeOK
<1>6. LoopInv'
  BY <1>0, <1>1, <1>4 DEF LoopInv, Doing, Filled, Fills, Variants
<1>7. QED
  BY <1>0, <1>5, <1>6 DEF BranchInv, ResultsAgree, StartInv

LEMMA FillInv ==
  ASSUME BranchInv, NEW b \in Byte, Fill(b)
  PROVE  BranchInv'
<1> USE DEF Fill
<1>0. Running /\ Doing \in Fills /\ i < n
  BY BoundIsLength, RunningFacts
<1>1. /\ n' = n /\ script' = script /\ at' = at /\ values' = values /\ size' = size
      /\ sum' = sum /\ results' = results /\ i' = i + 1
      /\ Running' /\ Doing' = Doing
  BY <1>0 DEF Running, Doing
<1>2. Branching(b) \in Nat
  BY AddedIsBranching
<1>3. /\ data' \in [0..(n - 1) -> Byte] /\ data'[i] = b
      /\ \A k \in 0..(i - 1) : data'[k] = data[k]
  BY <1>0, RunningFacts
<1>4. /\ prefix' \in [0..n -> Nat] /\ prefix'[i + 1] = prefix[i] + Branching(b)
      /\ \A k \in 0..i : prefix'[k] = prefix[k]
  BY <1>0, <1>2, RunningFacts
<1>5. TypeOK'
  BY <1>0, <1>1, <1>3, <1>4, RunningFacts DEF BranchInv, TypeOK
<1>6. results = {} /\ sum = 0 /\ prefix[0] = 0
  BY <1>0 DEF BranchInv, LoopInv, Fills, Variants
<1>7. \A k \in 0..(i - 1) : prefix[k + 1] = prefix[k] + Branching(data[k])
  BY <1>0 DEF BranchInv, LoopInv, Filled
<1>8. \A k \in 0..i : prefix'[k + 1] = prefix'[k] + Branching(data'[k])
  <2>1. ASSUME NEW k \in 0..i
        PROVE  prefix'[k + 1] = prefix'[k] + Branching(data'[k])
    <3>1. CASE k = i
      BY <1>3, <1>4, <3>1, RunningFacts, <1>0
    <3>2. CASE k # i
      <4>1. k \in 0..(i - 1) /\ k + 1 \in 0..i
        BY <3>2, <1>0, RunningFacts
      <4>2. QED
        BY <4>1, <1>3, <1>4, <1>7
    <3>3. QED
      BY <3>1, <3>2
  <2>2. QED
    BY <2>1
<1>9. LoopInv'
  BY <1>0, <1>1, <1>4, <1>6, <1>8, RunningFacts DEF LoopInv, Filled, Fills, Variants
<1>10. QED
  BY <1>0, <1>1, <1>5, <1>6, <1>9, RunningFacts DEF BranchInv, ResultsAgree, StartInv

LEMMA CopyInv ==
  ASSUME BranchInv, Copy
  PROVE  BranchInv'
<1> USE DEF Copy
<1>0. Running /\ Doing = "copy" /\ i < n /\ size = i /\ sum = 0
  BY BoundIsLength, RunningFacts DEF BranchInv, LoopInv, Variants
<1>1. /\ n' = n /\ script' = script /\ at' = at /\ data' = data /\ size' = i + 1
      /\ sum' = sum /\ results' = results /\ i' = i + 1 /\ prefix' = prefix
      /\ Running' /\ Doing' = Doing
  BY <1>0 DEF Running, Doing
<1>2. /\ values' \in [0..(n - 1) -> Byte] /\ values'[i] = data[i]
      /\ \A k \in 0..(i - 1) : values'[k] = values[k]
  BY <1>0, RunningFacts
<1>3. \A k \in 0..i : values'[k] = data[k]
  <2>1. \A k \in 0..(i - 1) : values[k] = data[k]
    BY <1>0 DEF BranchInv, LoopInv
  <2>2. QED
    BY <2>1, <1>2, <1>0, RunningFacts
<1>4. TypeOK'
  BY <1>0, <1>1, <1>2, RunningFacts DEF BranchInv, TypeOK
<1>5. LoopInv'
  BY <1>0, <1>1, <1>3, RunningFacts DEF BranchInv, LoopInv, Filled, Fills, Variants
<1>6. QED
  BY <1>0, <1>1, <1>4, <1>5, RunningFacts DEF BranchInv, ResultsAgree, StartInv

(* While a variant runs the prefix sums are complete.                       *)
LEMMA Prefixes ==
  ASSUME BranchInv, Running, Doing \in Variants
  PROVE  /\ sum = prefix[i] /\ prefix[0] = 0
         /\ \A k \in 0..(n - 1) : prefix[k + 1] = prefix[k] + Added(Doing, Element(k))
<1>1. /\ sum = prefix[i] /\ prefix[0] = 0
      /\ \A k \in 0..(n - 1) : prefix[k + 1] = prefix[k] + Branching(data[k])
  BY DEF BranchInv, LoopInv, Filled, Fills, Variants
<1>2. \A k \in 0..(n - 1) : Added(Doing, Element(k)) = Branching(data[k])
  BY AddedIsBranching, ElementIsData
<1>3. QED
  BY <1>1, <1>2

(* A loop that has come to i' with the sum of the elements before it is     *)
(* where the invariant wants it.                                            *)
LEMMA LoopMovesOn ==
  ASSUME BranchInv, Running, Doing \in Variants, NEW j \in 0..n,
         i' = j, sum' = prefix[j],
         UNCHANGED <<script, n, at, data, values, size, results, prefix>>
  PROVE  BranchInv'
<1>1. Running' /\ Doing' = Doing
  BY DEF Running, Doing
<1>2. prefix[j] \in Nat /\ j \in Nat /\ j <= n
  BY RunningFacts
<1>3. TypeOK'
  BY <1>2, RunningFacts DEF BranchInv, TypeOK
<1>4. LoopInv'
  BY <1>1 DEF BranchInv, LoopInv, Filled, Fills, Variants
<1>5. QED
  BY <1>3, <1>4, RunningFacts DEF BranchInv, ResultsAgree, StartInv

LEMMA StepInv ==
  ASSUME BranchInv, Step
  PROVE  BranchInv'
<1>1. Running /\ Doing \in Variants /\ i < n
  BY BoundIsLength, RunningFacts DEF Step
<1>2. i \in 0..(n - 1) /\ i + 1 \in 0..n
  BY <1>1, RunningFacts
<1>3. sum' = prefix[i + 1]
  BY <1>1, <1>2, Prefixes DEF Step
<1>4. QED
  BY <1>1, <1>2, <1>3, LoopMovesOn DEF Step

LEMMA BlockInv ==
  ASSUME BranchInv, Block
  PROVE  BranchInv'
<1>1. Running /\ Doing = "vectorized" /\ Doing \in Variants
  BY DEF Block, Variants
<1>2. i \in Nat /\ n \in Nat /\ i + 3 < n /\ prefix \in [0..n -> Nat]
  BY <1>1, RunningFacts DEF Block, BlockFits
<1>3. \A k \in 0..(n - 1) : Element(k) = data[k]
  BY <1>1 DEF Element
<1>4. \A k \in 0..(n - 1) : prefix[k + 1] = prefix[k] + Added(Doing, data[k])
  BY <1>1, <1>3, Prefixes
<1>5. /\ prefix[i + 1] = prefix[i] + Added(Doing, data[i])
      /\ prefix[i + 2] = prefix[i + 1] + Added(Doing, data[i + 1])
      /\ prefix[i + 3] = prefix[i + 2] + Added(Doing, data[i + 2])
      /\ prefix[i + 4] = prefix[i + 3] + Added(Doing, data[i + 3])
  <2>1. /\ i \in 0..(n - 1) /\ i + 1 \in 0..(n - 1)
        /\ i + 2 \in 0..(n - 1) /\ i + 3 \in 0..(n - 1)
    BY <1>2
  <2>2. (i + 1) + 1 = i + 2 /\ (i + 2) + 1 = i + 3 /\ (i + 3) + 1 = i + 4
    BY <1>2
  <2>3. QED
    BY <2>1, <2>2, <1>4
<1>6. sum' = prefix[i + 4] /\ i' = i + 4 /\ i + 4 \in 0..n
  BY <1>1, <1>2, <1>5, Prefixes DEF Block, BLOCK
<1>7. QED
  BY <1>1, <1>6, LoopMovesOn DEF Block

LEMMA FinishInv ==
  ASSUME BranchInv, Finish
  PROVE  BranchInv'
<1> USE DEF Finish
<1>0. Running /\ i = n
  BY BoundIsLength, RunningFacts
<1>1. /\ script' = script /\ n' = n /\ data' = data /\ values' = values /\ prefix' = prefix
      /\ at' = at + 1 /\ i' = 0 /\ sum' = 0
      /\ size' = IF Doing = "copy" THEN size ELSE 0
  OBVIOUS
<1>2. script \in Seq(Fills \cup {"copy"} \cup Variants) /\ Len(script) \in Nat
  BY <1>0, RunningFacts, ScriptAssumption
<1>3. size' \in 0..n
  BY <1>1, <1>0, RunningFacts
<1>4. \A r \in results' : r = prefix[n] /\ r \in Nat
  <2>1. \A r \in results : r = prefix[n] /\ r \in Nat
    BY <1>0, RunningFacts DEF BranchInv, ResultsAgree
  <2>2. Doing \in Variants => sum = prefix[n] /\ sum \in Nat
    BY <1>0, RunningFacts, Prefixes
  <2>3. QED
    BY <2>1, <2>2
<1>5. TypeOK'
  BY <1>0, <1>1, <1>2, <1>3, <1>4, RunningFacts DEF TypeOK
<1>6. ResultsAgree' /\ StartInv'
  BY <1>0, <1>1, <1>4, RunningFacts DEF ResultsAgree, StartInv
<1>7. /\ prefix[0] = 0
      /\ \A k \in 0..(n - 1) : prefix[k + 1] = prefix[k] + Branching(data[k])
  BY <1>0 DEF BranchInv, LoopInv, Filled
<1>8. ASSUME Running' PROVE LoopInv'
  <2>1. at < Len(script) /\ Doing' = script[at + 1] /\ at + 1 \in 1..Len(script)
    BY <1>8, <1>1, <1>2, <1>0, RunningFacts DEF Running, Doing
  <2>2. Doing' \in Fills => results' = {}
    BY <2>1
  <2>3. CASE Doing' = "soa"
    <3>1. script[(at + 1) - 1] = "copy"
      BY <2>1, <2>3, <1>0, RunningFacts, ScriptAssumption
    <3>2. Doing = "copy"
      BY <3>1, <1>0, RunningFacts DEF Doing
    <3>3. size' = n /\ \A k \in 0..(size - 1) : values[k] = data[k]
      BY <3>2, <1>0, <1>1 DEF BranchInv, LoopInv
    <3>4. size = n
      BY <3>2, <3>3, <1>1
    <3>5. QED
      BY <2>2, <2>3, <3>3, <3>4, <1>1, <1>7 DEF LoopInv, Filled, Fills, Variants
  <2>4. CASE Doing' # "soa"
    <3>1. CASE Doing' = "copy"
      <4>1. size' = 0
        <5>1. CASE Doing = "copy"
          <6>1. at \in 1..(Len(script) - 1) /\ script[at] = "copy"
            BY <5>1, <2>1, <1>0, <1>2, RunningFacts DEF Doing
          <6>2. script[at + 1] = "soa"
            BY <6>1, <1>0, RunningFacts, ScriptAssumption
          <6>3. QED
            BY <6>2, <2>1, <2>4
        <5>2. CASE Doing # "copy"
          BY <5>2, <1>1
        <5>3. QED
          BY <5>1, <5>2
      <4>2. QED
        BY <4>1, <3>1, <2>2, <1>1, <1>7 DEF LoopInv, Filled, Fills, Variants
    <3>2. CASE Doing' # "copy"
      <4>1. prefix' = prefix /\ data' = data /\ i' = 0 /\ n' = n /\ sum' = 0
        BY <1>1
      <4>2. \A k \in 0..(Filled' - 1) : prefix[k + 1] = prefix[k] + Branching(data[k])
        <5>1. CASE Doing' \in Fills
          BY <5>1, <4>1 DEF Filled
        <5>2. CASE Doing' \notin Fills
          BY <5>2, <4>1, <1>7 DEF Filled
        <5>3. QED
          BY <5>1, <5>2
      <4>3. QED
        BY <4>1, <4>2, <3>2, <2>4, <2>2, <1>7 DEF LoopInv
    <3>3. QED
      BY <3>1, <3>2
  <2>5. QED
    BY <2>3, <2>4
<1>9. LoopInv'
  BY <1>8 DEF LoopInv
<1>10. QED
  BY <1>5, <1>6, <1>9 DEF BranchInv

LEMMA NextInv == BranchInv /\ [Next]_vars => BranchInv'
<1>1. SUFFICES ASSUME BranchInv, [Next]_vars PROVE BranchInv'
  OBVIOUS
<1>2. CASE \E s \in Scripts, len \in Lengths : Launch(s, len)
  BY <1>1, <1>2, LaunchInv
<1>3. CASE \E b \in Byte : Fill(b)
  BY <1>1, <1>3, FillInv
<1>4. CASE Copy
  BY <1>1, <1>4, CopyInv
<1>5. CASE Step
  BY <1>1, <1>5, StepInv
<1>6. CASE Block
  BY <1>1, <1>6, BlockInv
<1>7. CASE Finish
  BY <1>1, <1>7, FinishInv
<1>8. CASE UNCHANGED vars
  BY <1>1, <1>8 DEF vars, BranchInv, TypeOK, ResultsAgree, StartInv, LoopInv, Running, Doing, Filled
<1>9. QED
  BY <1>1, <1>2, <1>3, <1>4, <1>5, <1>6, <1>7, <1>8 DEF Next

(* The invariant of the loops holds in every reachable state.               *)
THEOREM Invariance == Spec => []BranchInv
<1>1. QED
  BY InitBranchInv, NextInv, PTL DEF Spec

(* All variants return the same sum of the same data, for every length,     *)
(* every threshold and every order in which they are run.                   *)
THEOREM VariantsAgree == Spec => []ResultsAgree
<1>1. BranchInv => ResultsAgree
  BY DEF BranchInv
<1>2. QED
  BY <1>1, Invariance, PTL
=============================================================================
