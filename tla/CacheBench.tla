----------------------------- MODULE CacheBench -----------------------------
(***************************************************************************)
(* The access patterns of cache.hpp over a CacheAlignedArray, and the      *)
(* programs that time them.  The sums the loops build are thrown away: all *)
(* that matters of an access is which element it touches.                  *)
(*                                                                         *)
(* A program is a script of loops over one array: first it is filled, then *)
(* the patterns run over it.                                               *)
(***************************************************************************)
EXTENDS Integers, Sequences, Functions

CONSTANTS SIZEOF,            \* sizeof(T), 4
          CACHE_LINE_SIZE,   \* 64
          PREFETCH_DISTANCE, \* 16
          Strides,           \* the strides of the benchmark, <<1, 64, 1024>>
          Lengths,           \* lengths of the array
          Repeats            \* how often benchmark_cache_sizes reads it, 1000

\* The loops: which elements, in steps of what.
sequential == [kind |-> "sequential", stride |-> 1]
prefetched == [kind |-> "prefetched", stride |-> 1]
random     == [kind |-> "random",     stride |-> 1]
fill       == [kind |-> "fill",       stride |-> 1]
strided(s) == [kind |-> "strided",    stride |-> s]

\* Of CacheAlignedArray(n): the number of elements it allocates.
Rounded(bytes) == ((bytes + CACHE_LINE_SIZE - 1) \div CACHE_LINE_SIZE) * CACHE_LINE_SIZE

-----------------------------------------------------------------------------
(* The programs. *)

benchmark_access_patterns ==
  <<fill, sequential>> \o [k \in 1..Len(Strides) |-> strided(Strides[k])]

benchmark_prefetch_optimization == <<fill, sequential, prefetched>>

benchmark_cache_sizes == <<fill>> \o [k \in 1..Repeats |-> sequential]

\* What a caller of RandomAccessor does; the repository has none.
random_access == <<fill, random>>

ArrayPrograms == {benchmark_access_patterns, benchmark_prefetch_optimization,
            benchmark_cache_sizes, random_access}

-----------------------------------------------------------------------------
VARIABLES
  script, n,  \* the program and the length of its array
  at,         \* the position in the script, beyond its end when done
  elements,   \* data.size() of the array
  written,    \* history: the elements filled in
  indices,    \* member of RandomAccessor
  i,          \* local variable of the loop that runs
  ahead,      \* the element prefetched last, 0 at first
  touched     \* history: how often this loop touched each element: 2 is
              \* twice or more

vars == <<script, n, at, elements, written, indices, i, ahead, touched>>

Running  == at \in 1..Len(script)
Doing    == script[at]
LoopOver == i >= n

(* Slips somebody could make in this code, used only to show that the       *)
(* properties notice them.                                                  *)

\* The shuffle draws with repetition.
Fault_Shuffles == [0..(n - 1) -> 0..(n - 1)]

\* The prefetch runs past the end of the array.
Fault_PrefetchFits == i < n

\* What the constructor of RandomAccessor may leave in indices.
Shuffles == {f \in [0..(n - 1) -> 0..(n - 1)] : IsInjective(f)}

\* Where the loop goes after index i.
NextIndex == i + Doing.stride

PrefetchFits == i + PREFETCH_DISTANCE < n

\* The element that is touched at index i.
Touches == IF Doing.kind = "random" THEN indices[i] % n ELSE i

-----------------------------------------------------------------------------
Init ==
  /\ script = << >> /\ n = 0 /\ at = 0
  /\ elements = 0 /\ written = {} /\ indices = << >>
  /\ i = 0 /\ ahead = 0 /\ touched = << >>

NewLoop(len) ==
  /\ i' = 0
  /\ touched' = [k \in 0..(len - 1) |-> 0]

\* The array is constructed.
Launch(s, len) ==
  /\ at = 0
  /\ script' = s /\ n' = len /\ at' = 1
  /\ elements' = Rounded(len * SIZEOF) \div SIZEOF
  /\ NewLoop(len)
  /\ UNCHANGED <<written, indices, ahead>>

Access ==
  /\ Running /\ ~LoopOver
  /\ Doing.kind = "random" => indices # << >>
  /\ touched' = [touched EXCEPT ![Touches] = IF @ < 2 THEN @ + 1 ELSE 2]
  /\ written' = IF Doing.kind = "fill" THEN written \cup {i} ELSE written
  /\ ahead' = IF Doing.kind = "prefetched" /\ PrefetchFits
              THEN i + PREFETCH_DISTANCE ELSE ahead
  /\ i' = NextIndex
  /\ UNCHANGED <<script, n, at, elements, indices>>

\* RandomAccessor(n)
Shuffle ==
  /\ Running /\ ~LoopOver /\ Doing.kind = "random"
  /\ indices = << >>
  /\ indices' \in Shuffles
  /\ UNCHANGED <<script, n, at, elements, written, i, ahead, touched>>

Finish ==
  /\ Running /\ LoopOver
  /\ at' = at + 1
  /\ NewLoop(n)
  /\ UNCHANGED <<script, n, elements, written, indices, ahead>>

Next ==
  \/ \E s \in ArrayPrograms, len \in Lengths : Launch(s, len)
  \/ Access \/ Shuffle \/ Finish

\* A program that was started goes on.
Fairness == WF_vars(Running /\ Next)

Spec == Init /\ [][Next]_vars /\ Fairness

-----------------------------------------------------------------------------
TypeOK ==
  /\ script \in ArrayPrograms \cup {<< >>} /\ n \in Lengths \cup {0}
  /\ at \in 0..(Len(script) + 1)
  /\ i \in Nat
  /\ Running => i < n + Doing.stride
  /\ written \subseteq 0..(n - 1)
  /\ touched \in [0..(n - 1) -> 0..2] \cup {<< >>}

(* What a loop touches or prefetches is inside the array as rounded up to   *)
(* cache lines, and what it reads was written before, whatever the length.  *)
AccessesWritten ==
  Running =>
    /\ n <= elements /\ (ahead < n \/ ahead = 0)
    /\ \A k \in DOMAIN touched : touched[k] > 0 => k \in written

(* A loop that is over has touched every multiple of its stride once and    *)
(* nothing else; in the random order that is every element once.            *)
PatternCovered ==
  Running /\ LoopOver =>
    \A k \in 0..(n - 1) : touched[k] = IF k % Doing.stride = 0 THEN 1 ELSE 0

\* A program was started, and has come to the end of its script.
Started == at > 0
Over    == at > Len(script)
=============================================================================
