------------------------------ MODULE Drivers ------------------------------
(***************************************************************************)
(* The programs that drive the ring buffer and the message queue with      *)
(* several threads: two of the tests and the benchmarks.  Each producer    *)
(* thread pushes a quota of values and retries until a push is accepted;   *)
(* the consumers pop until a condition of their own loop holds.  Around    *)
(* the calls they keep shared books, some of them in plain variables.      *)
(*                                                                         *)
(* The channel is the number of values in it: a push is accepted below the *)
(* capacity, a pop above zero, and each may fail for no reason (push_mpmc  *)
(* on a stale position, enqueue and dequeue when another thread is faster).*)
(* The queue, with more than one thread on a side, is not reliable: nodes  *)
(* come back under the compare-and-swaps that guard them, and a call can   *)
(* lose values, deliver one twice or accept one for which there is no node *)
(* (the run queue_fifo of MessageQueue).  A lapse leaves some number of    *)
(* values in the channel, at most one more than there were: where values   *)
(* come back that were taken, each of them takes a lapse of its own.  What *)
(* the calls do after a lapse nobody knows; they may fail for ever.        *)
(*                                                                         *)
(* A plain variable that two threads update is read in one step and        *)
(* written in another.  For the vector of a recorder an overlap can also   *)
(* end the program: both threads may move it to new storage.               *)
(***************************************************************************)
EXTENDS Naturals, FiniteSets, Functions

CONSTANTS Producers, Consumers,  \* the threads there can be
          LoneProducer,          \* the threads of a program that has
          LoneConsumer,          \*   one of each kind
          Quota,                 \* pushes of a producer, 250000 and such
          SmallRing,             \* capacity where it is less than the pushes
          MaxSamples,            \* MAX_SAMPLES of the recorders
          MaxLapses              \* bound: calls on which a queue goes wrong

Threads == Producers \cup Consumers
Sides   == {"push", "pop"}

Side(t) == IF t \in Producers THEN "push" ELSE "pop"

-----------------------------------------------------------------------------
(* The programs.  reliable: does the channel never lose or double a value?  *)
(* records: each call is timed into the recorder of its side.  counts: the  *)
(* sides whose calls a shared variable counts, and atomic: whether it is a  *)
(* std::atomic.  until: how the loop of a consumer ends.  inTurn: the loops *)
(* are one thread's, first all pushes.                                      *)

\* A queue is reliable with one thread on each side (run queue_disciplined).
OneOnEachSide == Threads = {LoneProducer, LoneConsumer}

test_mpmc_concurrent ==
  [threads |-> Threads, capacity |-> SmallRing, reliable |-> TRUE, records |-> FALSE,
   counts |-> {"pop"}, atomic |-> FALSE, until |-> "counter", inTurn |-> FALSE]

\* The pool has twice as many nodes as there are messages.
test_concurrent_enqueue_dequeue ==
  [threads |-> Threads, capacity |-> 2 * Quota * Cardinality(Producers),
   reliable |-> OneOnEachSide, records |-> FALSE,
   counts |-> Sides, atomic |-> TRUE, until |-> "counter", inTurn |-> FALSE]

benchmark_spsc ==
  [threads |-> {LoneProducer, LoneConsumer}, capacity |-> SmallRing,
   reliable |-> TRUE, records |-> TRUE,
   counts |-> {}, atomic |-> TRUE, until |-> "quota", inTurn |-> FALSE]

benchmark_mpmc ==
  [threads |-> Threads, capacity |-> SmallRing, reliable |-> TRUE, records |-> TRUE,
   counts |-> Sides, atomic |-> TRUE, until |-> "quota", inTurn |-> FALSE]

\* The pool has exactly as many nodes as the first loop enqueues.
benchmark_single_threaded ==
  [threads |-> {LoneProducer, LoneConsumer}, capacity |-> Quota,
   reliable |-> TRUE, records |-> TRUE,
   counts |-> {}, atomic |-> TRUE, until |-> "quota", inTurn |-> TRUE]

benchmark_concurrent ==
  [threads |-> Threads, capacity |-> SmallRing,
   reliable |-> OneOnEachSide, records |-> TRUE,
   counts |-> {}, atomic |-> TRUE, until |-> "share", inTurn |-> FALSE]

DriverSet ==
  {test_mpmc_concurrent, test_concurrent_enqueue_dequeue, benchmark_spsc,
   benchmark_mpmc, benchmark_single_threaded, benchmark_concurrent}

\* Before one of them is started.
NoDriver ==
  [threads |-> {}, capacity |-> 0, reliable |-> TRUE, records |-> FALSE,
   counts |-> {}, atomic |-> TRUE, until |-> "quota", inTurn |-> FALSE]

VARIABLES
  driver,   \* the program that runs, a member of DriverSet
  pc,       \* control point of each thread
  ops,      \* successful calls of each thread: i, or the local consumed
  items,    \* values in the channel
  lapses,   \* history: calls on which the queue went wrong
  counted,  \* the shared counter of each side
  finished, \* producer_done
  samples,  \* number of samples in the recorder of each side
  reg,      \* what a thread read of the plain variable it updates
  crashed   \* did an unsynchronized push_back end the program?

vars == <<driver, pc, ops, items, lapses, counted, finished, samples, reg, crashed>>

Total(side) ==
  SumFunctionOnSet(ops, IF side = "push" THEN Producers ELSE Consumers)

\* Values the producers of the program push together.
Expected == Quota * Cardinality(Producers \cap driver.threads)

Goto(t, label) == pc' = [pc EXCEPT ![t] = label]

\* Where a thread goes after a successful call, after it recorded its time.
AfterRecord(t) == IF Side(t) \in driver.counts THEN "count" ELSE "check"
AfterCall(t)   == IF driver.records THEN "record" ELSE AfterRecord(t)

(* Slips somebody could make in these programs, used only to show that the  *)
(* properties notice them.                                                  *)

\* The pool of the single-threaded benchmark lacks a node.
Fault_HasRoom == items + 1 < driver.capacity

\* A full channel accepts one more.
Fault_HasRoomFull == items <= driver.capacity

\* A retry is timed as a call of its own.
Fault_AfterFailure(c) == AfterCall(c)

\* The counters of the tests are plain variables throughout.
Fault_CountsAtomically == FALSE

CounterReached == counted["pop"] >= Expected

ShareTaken(c) == ops[c] >= Quota /\ finished = Cardinality(Producers)

HasRoom == items < driver.capacity

AfterFailure(c) == "check"

CountsAtomically == driver.atomic

\* Does the loop of thread t end here?
LoopEnds(t) ==
  \/ t \in Producers /\ ops[t] = Quota
  \/ t \in Consumers /\ driver.until = "quota" /\ ops[t] = Quota
  \/ t \in Consumers /\ driver.until = "counter" /\ CounterReached
  \/ t \in Consumers /\ driver.until = "share" /\ ShareTaken(t)

\* Of one thread's two loops, the second begins when the first has ended.
MayRun(t) ==
  /\ ~crashed
  /\ driver.inTurn /\ t \in Consumers => pc[LoneProducer] = "ended"

-----------------------------------------------------------------------------
Init ==
  /\ driver = NoDriver
  /\ pc = [t \in Threads |-> "new"]
  /\ ops = [t \in Threads |-> 0]
  /\ items = 0 /\ lapses = 0
  /\ counted = [s \in Sides |-> 0]
  /\ finished = 0
  /\ samples = [s \in Sides |-> 0]
  /\ reg = [t \in Threads |-> 0]
  /\ crashed = FALSE

\* The program starts its threads; those it does not have count as ended.
Launch(d) ==
  /\ driver = NoDriver
  /\ driver' = d
  /\ pc' = [t \in Threads |-> IF t \in d.threads THEN "check" ELSE "ended"]
  /\ UNCHANGED <<ops, items, lapses, counted, finished, samples, reg, crashed>>

Check(t) ==
  /\ pc[t] = "check" /\ MayRun(t)
  /\ ~LoopEnds(t)
  /\ Goto(t, "call")
  /\ UNCHANGED <<driver, ops, items, lapses, counted, finished, samples, reg, crashed>>

Leave(t) ==
  /\ pc[t] = "check" /\ MayRun(t)
  /\ LoopEnds(t)
  /\ Goto(t, "ended")
  /\ finished' = IF t \in Producers THEN finished + 1 ELSE finished
  /\ UNCHANGED <<driver, ops, items, lapses, counted, samples, reg, crashed>>

\* The call is accepted.
Accepted(t, left) ==
  /\ pc[t] = "call" /\ MayRun(t)
  /\ items' = left
  /\ ops' = [ops EXCEPT ![t] = @ + 1]
  /\ Goto(t, AfterCall(t))
  /\ UNCHANGED <<driver, counted, finished, samples, reg, crashed>>

\* A producer whose push is refused calls again: that changes nothing.
PushAccepted(p) == HasRoom /\ Accepted(p, items + 1) /\ UNCHANGED lapses

PopAccepted(c) == items > 0 /\ Accepted(c, items - 1) /\ UNCHANGED lapses

\* A queue that is not reliable accepts the call and goes wrong.
Lapse(t) ==
  /\ ~driver.reliable
  /\ lapses < MaxLapses /\ lapses' = lapses + 1
  /\ \E left \in 0..driver.capacity : left <= items + 1 /\ Accepted(t, left)

\* A for loop calls again at once, a while loop tests its condition first.
PopFails(c) ==
  /\ pc[c] = "call" /\ MayRun(c)
  /\ driver.until # "quota"
  /\ Goto(c, AfterFailure(c))
  /\ UNCHANGED <<driver, ops, items, lapses, counted, finished, samples, reg, crashed>>

RecordBegin(t) ==
  /\ pc[t] = "record" /\ MayRun(t)
  /\ reg' = [reg EXCEPT ![t] = samples[Side(t)]]
  /\ Goto(t, "recordEnd")
  /\ UNCHANGED <<driver, ops, items, lapses, counted, finished, samples, crashed>>

RecordEnd(t) ==
  /\ pc[t] = "recordEnd" /\ MayRun(t)
  /\ samples' = IF reg[t] < MaxSamples
                THEN [samples EXCEPT ![Side(t)] = reg[t] + 1] ELSE samples
  /\ reg' = [reg EXCEPT ![t] = 0]
  /\ Goto(t, AfterRecord(t))
  /\ UNCHANGED <<driver, ops, items, lapses, counted, finished, crashed>>

\* Two threads are inside push_back of one vector.
RecordCrash(t, u) ==
  /\ t # u /\ Side(t) = Side(u)
  /\ pc[t] = "recordEnd" /\ pc[u] = "recordEnd" /\ MayRun(t)
  /\ crashed' = TRUE
  /\ UNCHANGED <<driver, pc, ops, items, lapses, counted, finished, samples, reg>>

CountAtomic(t) ==
  /\ pc[t] = "count" /\ MayRun(t)
  /\ CountsAtomically
  /\ counted' = [counted EXCEPT ![Side(t)] = @ + 1]
  /\ Goto(t, "check")
  /\ UNCHANGED <<driver, ops, items, lapses, finished, samples, reg, crashed>>

CountLoad(t) ==
  /\ pc[t] = "count" /\ MayRun(t)
  /\ ~CountsAtomically
  /\ reg' = [reg EXCEPT ![t] = counted[Side(t)]]
  /\ Goto(t, "countStore")
  /\ UNCHANGED <<driver, ops, items, lapses, counted, finished, samples, crashed>>

CountStore(t) ==
  /\ pc[t] = "countStore" /\ MayRun(t)
  /\ counted' = [counted EXCEPT ![Side(t)] = reg[t] + 1]
  /\ reg' = [reg EXCEPT ![t] = 0]
  /\ Goto(t, "check")
  /\ UNCHANGED <<driver, ops, items, lapses, finished, samples, crashed>>

\* What thread t does next of its own accord, whether its call succeeds or not.
Advance(t) ==
  \/ Check(t) \/ Leave(t)
  \/ RecordBegin(t) \/ RecordEnd(t)
  \/ CountAtomic(t) \/ CountLoad(t) \/ CountStore(t)

Call(t) == (t \in Producers /\ PushAccepted(t)) \/ (t \in Consumers /\ PopAccepted(t))

Next ==
  \/ \E d \in DriverSet : Launch(d)
  \/ \E t \in Threads : Advance(t) \/ Call(t) \/ Lapse(t)
  \/ \E c \in Consumers : PopFails(c)
  \/ \E t, u \in Threads : RecordCrash(t, u)

\* Every thread goes on.  A call that is repeated and can succeed time and
\* again succeeds: the calls are lock-free as long as no thread stops in one.
\* Of a queue that went wrong nothing is known.
Fairness ==
  /\ \A t \in Threads : WF_vars(Advance(t)) /\ SF_vars(lapses = 0 /\ Call(t))
  /\ \A c \in Consumers : WF_vars(lapses = 0 /\ (PopFails(c) \/ Call(c)))

Spec == Init /\ [][Next]_vars /\ Fairness

-----------------------------------------------------------------------------
Ended == \A t \in Threads : pc[t] = "ended"

TypeOK ==
  /\ driver \in DriverSet \cup {NoDriver}
  /\ pc \in [Threads -> {"new", "check", "call", "record", "recordEnd", "count", "countStore", "ended"}]
  /\ ops \in [Threads -> Nat]
  /\ items \in 0..driver.capacity
  /\ lapses \in IF driver.reliable THEN {0} ELSE 0..MaxLapses
  /\ counted \in [Sides -> Nat]
  /\ finished \in 0..Cardinality(Producers)
  /\ samples \in [Sides -> Nat]
  /\ reg \in [Threads -> Nat]
  /\ crashed \in BOOLEAN

(* A program that ends has pushed all it should, and an atomic counter has  *)
(* counted exactly the calls of its side.  What the tests assert after the  *)
(* join of their consumers holds as long as the channel did not go wrong:   *)
(* everything was taken out of it and the shared counters show that, lost   *)
(* increments of a plain counter included; they can only keep the program   *)
(* from ending.  A queue that went wrong can end with another count, and    *)
(* the assertion of test_concurrent_enqueue_dequeue can fail.               *)
CountsExact ==
  Ended =>
    /\ Total("push") = Expected
    /\ driver.atomic => \A s \in driver.counts : counted[s] = Total(s)
    /\ lapses = 0 => /\ items = 0
                     /\ Total("pop") = Expected
                     /\ \A s \in driver.counts : counted[s] = Expected

(* A report never counts more calls than were made, and one of a recorder   *)
(* that a single thread fills counts them all.  Two threads that fill one   *)
(* recorder, in the multi-threaded benchmarks, can lose samples.            *)
SamplesCounted ==
  \A s \in Sides :
    /\ samples[s] <= Total(s)
    /\ (Ended /\ driver.records /\ driver.threads = {LoneProducer, LoneConsumer})
         => samples[s] = Total(s)

(* Increments of the plain counter were lost: fewer are counted or about to *)
(* be counted than calls succeeded.                                         *)
IncrementLost ==
  /\ "pop" \in driver.counts
  /\ items = 0 /\ Total("push") = Expected
  /\ \A c \in Consumers : pc[c] \in {"check", "call", "ended"}
  /\ counted["pop"] < Expected

\* One consumer of benchmark_concurrent took values meant for the other.
ShareExceeded == driver.until = "share" /\ \E c \in Consumers : ops[c] > Quota

(* A driver that was started has ended, or is where it may never end: an    *)
(* unsynchronized push_back crashed it, a lost increment leaves             *)
(* test_mpmc_concurrent waiting for a count that does not come, a consumer  *)
(* of benchmark_concurrent took more than its share and leaves the other    *)
(* waiting for values that do not come, or the queue went wrong.            *)
Started == driver # NoDriver
Over    == Ended \/ crashed \/ IncrementLost \/ ShareExceeded \/ lapses > 0
=============================================================================
