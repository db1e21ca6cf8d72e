---------------------------- MODULE BranchBench ----------------------------
(***************************************************************************)
(* The variants of one computation in branch.hpp, and the benchmarks and   *)
(* tests that run several of them over the same data: the sum of the bytes *)
(* above 128, with a branch, without one, from a table, four at a time and *)
(* from two memory layouts.                                                *)
(*                                                                         *)
(* A program is a script: data is filled in, sorted or at random, and the  *)
(* variants run over it, one element or block of elements at a time.       *)
(***************************************************************************)
EXTENDS Integers, Sequences

CONSTANTS BYTES,     \* number of values of a uint8_t, 256
          LIMIT,     \* 128
          Lengths,   \* lengths of the data
          Randoms,   \* what rand() % 256 may return
          Scripts    \* the programs to run, see below

Byte == 0..(BYTES - 1)

Fills    == {"sorted", "random"}
Variants == {"unpredictable", "predictable", "branchless", "cmov", "lut", "vectorized",
             "aos", "soa"}

ASSUME ByteAssumption   == BYTES \in Nat /\ BYTES > 1 /\ LIMIT \in Nat
ASSUME LengthAssumption == Lengths \subseteq Nat /\ Randoms \subseteq Byte

\* Data comes first, and is copied into the second layout just before that
\* is processed, and for nothing else.
ASSUME ScriptAssumption ==
  \A s \in Scripts :
    /\ s \in Seq(Fills \cup {"copy"} \cup Variants)
    /\ Len(s) > 0 /\ s[1] \in Fills
    /\ \A k \in 1..Len(s) : s[k] = "soa" => k > 1 /\ s[k - 1] = "copy"
    /\ \A k \in 1..(Len(s) - 1) : s[k] = "copy" => s[k + 1] = "soa"

-----------------------------------------------------------------------------
(* The programs. *)

benchmark_branch_prediction ==
  <<"sorted", "unpredictable", "predictable", "branchless",
    "random", "unpredictable", "predictable", "branchless">>

benchmark_lookup_table  == <<"random", "branchless", "lut">>
benchmark_vectorization == <<"random", "branchless", "vectorized">>
benchmark_data_layout   == <<"random", "aos", "copy", "soa">>
test_branch_prediction  == <<"random", "unpredictable", "predictable", "branchless", "cmov">>

-----------------------------------------------------------------------------
VARIABLES
  script, n,    \* the program and the length of its data
  at,           \* the position in the script, beyond its end when done
  data,         \* the bytes; aos_data has them too, next to its padding
  values, size, \* soa_data.values, and its size()
  i, sum,       \* local variables of the loop that runs
  results,      \* results of the variants since the data was filled in
  prefix        \* history: what the first k bytes add up to, for k <= n

vars == <<script, n, at, data, values, size, i, sum, results, prefix>>

Running == at \in 1..Len(script)
Doing   == script[at]

(* Slips somebody could make in this code, used only to show that the       *)
(* properties notice them.                                                  *)

\* The remainder loop is forgotten: the vectorized loop ends with its blocks.
Fault_LoopOver == IF Doing = "vectorized" THEN i + 3 >= n ELSE i >= n

\* The table keeps the limit itself.
Fault_lut == [b \in Byte |-> IF b >= LIMIT THEN b ELSE 0]

LoopOver == IF Doing = "soa" THEN i >= size ELSE i >= n

\* By how much the vectorized loop moves on.
BLOCK == 4

BlockFits == i + 3 < n

\* What one byte adds to the sum, in each variant.
Branching(b)  == IF b > LIMIT THEN b ELSE 0
Branchless(b) == b * (IF b > LIMIT THEN 1 ELSE 0)
lut           == [b \in Byte |-> IF b > LIMIT THEN b ELSE 0]

Added(variant, b) ==
  CASE variant = "branchless" -> Branchless(b)
    [] variant = "lut"        -> lut[b]
    [] OTHER                  -> Branching(b)

\* The element at index k of the layout that the variant reads.
Element(k) == IF Doing = "soa" THEN values[k] ELSE data[k]

-----------------------------------------------------------------------------
Init ==
  /\ script = << >> /\ n = 0 /\ at = 0
  /\ data = << >> /\ values = << >> /\ size = 0
  /\ i = 0 /\ sum = 0
  /\ results = {} /\ prefix = << >>

\* The arrays are on the stack; what they hold before the fill is not read.
Launch(s, len) ==
  /\ at = 0
  /\ script' = s /\ n' = len /\ at' = 1
  /\ data' = [k \in 0..(len - 1) |-> 0]
  /\ values' = [k \in 0..(len - 1) |-> 0]
  /\ prefix' = [k \in 0..len |-> 0]
  /\ UNCHANGED <<size, i, sum, results>>

\* One iteration of a loop that fills data[i].
Fill(b) ==
  /\ Running /\ Doing \in Fills /\ ~LoopOver
  /\ b \in IF Doing = "sorted" THEN {i % BYTES} ELSE Randoms
  /\ data' = [data EXCEPT ![i] = b]
  /\ prefix' = [prefix EXCEPT ![i + 1] = prefix[i] + Branching(b)]
  /\ i' = i + 1
  /\ UNCHANGED <<script, n, at, values, size, sum, results>>

\* soa_data.values.push_back(aos_data[i].value)
Copy ==
  /\ Running /\ Doing = "copy" /\ ~LoopOver
  /\ values' = [values EXCEPT ![size] = data[i]]
  /\ size' = size + 1
  /\ i' = i + 1
  /\ UNCHANGED <<script, n, at, data, sum, results, prefix>>

\* One iteration of a loop over single elements, remainders included.
Step ==
  /\ Running /\ Doing \in Variants /\ ~LoopOver
  /\ Doing = "vectorized" => ~BlockFits
  /\ sum' = sum + Added(Doing, Element(i))
  /\ i' = i + 1
  /\ UNCHANGED <<script, n, at, data, values, size, results, prefix>>

Block ==
  /\ Running /\ Doing = "vectorized" /\ ~LoopOver
  /\ BlockFits
  /\ sum' = sum + Added(Doing, data[i]) + Added(Doing, data[i + 1])
                + Added(Doing, data[i + 2]) + Added(Doing, data[i + 3])
  /\ i' = i + BLOCK
  /\ UNCHANGED <<script, n, at, data, values, size, results, prefix>>

\* A loop is over: its result is kept, and the next one begins.
Finish ==
  /\ Running /\ LoopOver
  /\ at' = at + 1
  /\ i' = 0 /\ sum' = 0
  /\ size' = IF Doing = "copy" THEN size ELSE 0
  /\ results' = IF at < Len(script) /\ script[at + 1] \in Fills THEN {}
                ELSE results \cup (IF Doing \in Variants THEN {sum} ELSE {})
  /\ UNCHANGED <<script, n, data, values, prefix>>

Next ==
  \/ \E s \in Scripts, len \in Lengths : Launch(s, len)
  \/ \E b \in Byte : Fill(b)
  \/ Copy \/ Step \/ Block \/ Finish

\* A program that was started goes on.
Fairness == WF_vars(Running /\ Next)

Spec == Init /\ [][Next]_vars /\ Fairness

-----------------------------------------------------------------------------
TypeOK ==
  /\ n \in Nat /\ at \in Nat /\ i \in Nat /\ size \in Nat
  /\ script \in Scripts \cup {<< >>} /\ at <= Len(script) + 1
  /\ at > 0 => /\ script \in Scripts /\ i <= n /\ size <= n
               /\ data \in [0..(n - 1) -> Byte]
               /\ values \in [0..(n - 1) -> Byte]
               /\ prefix \in [0..n -> Nat]
  /\ sum \in Nat
  /\ results \subseteq Nat

(* Whatever the data and its length, all variants return the same sum for   *)
(* it, as the tests assert: that of the bytes above the limit, each counted *)
(* once, whether they are added one by one or in blocks and a remainder.    *)
ResultsAgree == \A r \in results : r = prefix[n]

\* A program was started, and has come to the end of its script.
Started == at > 0
Over    == at > Len(script)

-----------------------------------------------------------------------------
(* What ResultsAgree rests on: the prefix sums are those of the data filled *)
(* in so far, the copy agrees with the data, and the running sum is that of *)
(* the elements passed.                                                     *)
Filled == IF Doing \in Fills THEN i ELSE n

StartInv == at = 0 => i = 0 /\ sum = 0 /\ size = 0 /\ results = {}

LoopInv ==
  Running =>
    /\ prefix[0] = 0
    /\ \A k \in 0..(Filled - 1) : prefix[k + 1] = prefix[k] + Branching(data[k])
    /\ Doing \in Fills => results = {}
    /\ Doing \notin Variants => sum = 0
    /\ Doing \in Variants => sum = prefix[i]
    /\ Doing = "copy" => size = i
    /\ Doing = "soa" => size = n
    /\ Doing \in {"copy", "soa"} => \A k \in 0..(size - 1) : values[k] = data[k]

BranchInv == TypeOK /\ ResultsAgree /\ StartInv /\ LoopInv
=============================================================================
