# Verification of hft-cpp

TLA+ models of the data structures of this repository, the TLC configurations
that check them on small instances, and theorems about them checked by TLAPS.
Paths below are relative to `projects/`.

## The system

The repository is a set of small header libraries, one per directory. They do
not call each other. Each has a test and a benchmark that call it.

| component | state it keeps | operations | used by |
|---|---|---|---|
| Order book, `1-cache-optimized-orderbook` | `bids` and `asks`: per price level a compact array of orders; `order_index`: id to side and level; `trade_log`; a timestamp counter | `add_order`, `cancel_order`, `match_market_order`, `best_bid`, `best_ask`, `get_bid_size_at`, `get_ask_size_at`, `clear` | one thread |
| Ring buffer, `2-waitfree-ringbuffer` | `buffer` of SIZE slots, atomic `write_pos` and `read_pos`, both growing without bound | `push_spsc`, `pop_spsc` for one thread on each side; `push_mpmc`, `pop_mpmc` for any number; `approximate_size`, `reset` | producers and consumers share the object |
| Message queue, `3-lockfree-message-queue` | a pool of nodes, atomic `free_list`, `head` and `tail`, atomic `next` in every node | `enqueue`, `dequeue`, destructor, `approximate_size` (a constant) | producers and consumers share the object; nodes circulate between the two lists |
| NUMA, `4-numa-optimization` | one buffer per node | constructor, destructor, `get_node_buffer`, `at_local`, affinity helpers | two threads that read the buffer of their own or of the next node |
| Latency timer, `5-latency-timer` | calibration factor; a vector of samples | `start`, `stop`, `record`, `analyze`, percentiles | one thread |
| Cache optimization, `6-cache-optimization` | an array rounded up to cache lines, a shuffled index vector | sequential, random, strided and prefetched access | one thread |
| Branch prediction, `7-branch-prediction` | none | variants of a summing loop | one thread |
| Drivers (tests, benchmarks) | counters, latency recorders, loop variables | calls of the above, some from several threads | - |

The root `README.md` and `CMakeLists.txt:18` name an event loop,
`projects/7-event-loop`, which is not in the repository.

### What is hard in it, and what makes each component correct

*Ring buffer, SPSC.* The producer and the consumer never wait, so each acts on
a position of the other that is out of date. Correct means: no data race on a
slot, values come out in order and once, the ring never holds more than SIZE,
nothing published is stuck when the producer stops.

*Ring buffer, MPMC.* Each call is a load, a load, a compare-and-swap and a slot
access, and any number of them interleave. Correct means: positions never cross
or lap, each index belongs to one call, calls return whatever the others do, and
what is popped is what was pushed there (the last does not hold, see below).

*Order book.* Removal swaps the last order into the gap, so that positions in
an array, the index and references into the level go out of date. Correct
means: no order is lost, doubled or misplaced by any sequence of calls, no
share is lost, executions are at the best price, a market order ends only when
it is used up or the other side is empty.

*Message queue.* Two linked lists share their nodes, a node is recycled while
other threads may hold its address, linking a node and moving the tail are two
steps. Correct means: every node is in exactly one place, messages come out in
order and once, nothing linked is stuck, calls do not wait for other threads.

*Drivers.* The threads of a driver share more than the channel: counters and
recorders, some of them without synchronization, and conditions on them decide
when a thread stops. Correct means: a driver that ends has taken and counted
everything, its report covers what was done, and it ends.

*NUMA.* Allocation can fail half-way; threads are moved by the scheduler until
they are bound, and are bound after they were started. Correct means: a thread
only reads a buffer that exists, no buffer outlives the array, a latency is
reported under the right name.

*Timer and statistics.* A hardware counter that wraps is calibrated against a
clock; a vector is sorted in place and appended to again; percentile indices
are `int` products. Correct means: a latency is not below the time that passed,
a report is about the samples of one operation, its percentiles are ordered.

*Cache and branch.* Loops in steps, in blocks with a remainder, in random
order, ahead of themselves. Correct means: every element is touched as often as
it should be, for every length, and all variants of a computation agree.

`PROJECT.json` lists every such hazard with its line and the properties that
cover it, also those no property covers yet.

## Modules

| module | what it is |
|---|---|
| `BoundedFifo` | abstract: a FIFO channel with a capacity, as its callers see it |
| `RingBufferSPSC` | `push_spsc`, `pop_spsc`, `reset`, `approximate_size`; implements `BoundedFifo` |
| `RingBufferSPSCProofs` | its theorems |
| `RingBufferMPMC` | `push_mpmc`, `pop_mpmc`, `reset`; implements `BoundedFifo` when pushes and pops are kept apart |
| `RingBufferMPMCProofs` | its theorems |
| `PriceBook` | abstract: a set of resting orders, executed at the best price |
| `OrderBook` | all methods of the book; implements `PriceBook` |
| `OrderBookProofs` | its theorems |
| `MessageQueue` | `enqueue`, `dequeue`, destructor; implements `BoundedFifo` under a calling discipline |
| `MessageQueueProofs` | its theorems |
| `Drivers` | the tests and benchmarks that use a channel from several threads, or fill it to the brim |
| `NumaBench` | `NUMAArray` and the benchmark of local against remote accesses |
| `TimerBench` | `LatencyTimer`, `LatencyStatistics` and their benchmark |
| `Statistics` | what the five classes that collect latencies make of them |
| `StatisticsProofs` | theorems about that arithmetic |
| `BranchBench` | the variants of `branch.hpp` and the programs that run them |
| `BranchBenchProofs` | its theorems |
| `CacheBench` | the access patterns of `cache.hpp` and the programs that run them |
| `Programs` | the five modules of programs side by side: one program is chosen and runs |
| `ProgramsProofs` | theorems about drivers, NUMA, timer and cache as they run there |
| `SumTheorems` | lemmas: induction, and facts about sums over finite sets that the proofs need |
| `MC_*` | instances of these for TLC |

`PROJECT.json` maps every definition to the lines it stands for. Definitions
whose names begin with `Fault_` are not part of any model: each is a plausible
slip in one definition, and putting it in the place of that definition makes a
property fail.

### RingBufferSPSC

`write_pos` and `read_pos` are the newest values of the atomics. A load with
acquire order by the other thread returns any value between the one this
thread saw last (`pRead`, `cWrite`) and the newest; that is what coherence of
one atomic with one writer allows. `pHb` and `cHb` count the slot accesses of
the other side that happen before the thread's next step; a load raises them to
the position it reads only if the store is a release and the load an acquire.
The four memory orders are definitions of their own, so that weakening one can
be seen to matter. A call is three steps: load and test, slot access, publish.
The own position needs no step: it is only written by the thread that reads it.
`reset()` is called while both threads are idle and synchronized; no test or
benchmark calls it, and nothing in the header says that less would do.
`accepted` grows when a push publishes, `delivered` when a pop does.

### RingBufferMPMC

One action per access: `PushLoadWrite`, then `PushRefused` or `PushCheck` with
the load of `read_pos`, then `PushCas` or `PushCasFails` (the weak
compare-and-swap may fail for no reason), then `PushStore`; `pop_mpmc` likewise.
With `StaleLoads` each load is as stale as coherence allows, which includes more
than the memory orders of the code allow; this is how things are shown to hold.
Without it every load returns the newest value; this is how counterexamples are
shown to be real ones, on any memory model. `client` says, once
and for all, whether the callers keep pushes and pops apart (`phased`), and
which values they push. `FifoIfPhased` says that a phased client sees a
`BoundedFifo`; the other properties are about all clients.

### OrderBook

A method is one action; `match_market_order` is taken one iteration of its
loops at a time, so that properties can speak of each execution, while no other
method is called. `levels["BUY"]` and `levels["SELL"]` are `bids` and `asks`,
of each level only the first `count` entries, the rest of the array is never
read. `order_index` maps an id to `NoEntry` or to its side and level. In
`MatchFillsOrder` the id that is erased is that of the order the C++ reference
denotes after the swap (`orderbook.cpp:58-59`), not of the one that was filled.
If the removed order was the only one, the swap is with itself and the right
entry is erased.

### MessageQueue

`queue.hpp` does not compile: at lines 68 and 97 `compare_exchange_weak` gets
`nullptr` and an atomic as its `expected` argument, where a `Node*&` is
required. The model takes the evident meaning: a local `nullptr`, and a local
copy of `old_head->next` that a failure reloads and stores back.

One action per access, sequentially consistent. Nodes are numbers, 0 is the
sentinel allocated apart from the pool. `accepted` grows when a message is
linked, `delivered` when `head` is advanced past it. A message with its
timestamp is one value; lengths are not modelled.

`Disciplined` makes callers follow `MayEnqueue` and `MayDequeue`: no two
enqueues overlap, and no two dequeues overlap until the last enqueue has
returned. One producer and one consumer thread always do so, and it lets
several consumers drain what is left.

### Drivers

Each program is a record: its threads, the capacity of its channel, whether it
times its calls, which calls a shared variable counts and whether that is
atomic, the condition that ends a consumer's loop, and whether its channel is
`reliable`. The channel is the number of values in it: a push may succeed below
the capacity, a pop above zero, each may also fail. For the rings that is what
is proved: positions never cross or lap and every index belongs to one push and
one pop (a pop of `pop_mpmc` may return the wrong value, but no driver looks at
values). For the queue with one thread on each side it is proved too. With two
producers and two consumers, in `test_concurrent_enqueue_dequeue` and
`benchmark_concurrent`, it is refuted by `queue_fifo`: there a call may take the
action `Lapse`, after which the channel holds some other number of values, at
most one more than before, and nothing is assumed of the calls that follow.
`lapses` counts them. What a driver does when none occurred is said by the
properties under `lapses = 0`, and the rest of them hold regardless.

A plain variable that two threads update is read and written in two steps. For
`consumed` of `test_mpmc_concurrent` that is the lost increment; reading it in
the loop condition is one step. For the vector of a recorder two overlapping
`push_back` lose a sample or end the program (`RecordCrash`). That a compiler
may keep the plain counter in a register is not modelled: the atomics in the
loop keep it from doing so in practice.

### NumaBench

The main thread, the two threads and the scheduler. `Begin` picks the machine,
a map from CPUs to nodes. `Migrate` moves a thread that is not bound; `Bind` may
fail, since the code ignores its result. `AskNode` is `get_numa_node` and the
choice of the buffer, once per thread; `Access` notes whether the access was
local or remote at that moment.

### TimerBench and Statistics

Time is counted in ticks of the time-stamp counter since an origin, at which
the counter may stand at any of `Phases`; the counter has `TSC_MOD` values and
wraps. `TICKS` ticks last `NANOS` nanoseconds, any two numbers: a tick of the
1 to 10 GHz that `test_timer.cpp:52` asserts is less than a nanosecond. The
clock shows whole nanoseconds. `rdtsc`, with which the constructor reads the
counter, is not ordered with the clock around it and takes effect up to `WINDOW`
ticks before or after its place; `start()` and `stop()` use `rdtscp`. Between two
reads any of `Delays` passes. `tsc_to_ns` is kept as the pair it is the quotient
of; the product of `latency_ns` is exact or just below,
which truncates differently only at whole numbers. `Sort` is the ordered
rearrangement of the samples (there is only one). The ranks of the percentiles
are computed in `int`, as in the code: `Product` wraps where `n * 9999` does not
fit. The benchmark measures its
operations one after the other; the caller `"free"` calls `start`, `stop`,
`record` and `analyze` in any order that the class allows.

### BranchBench and CacheBench

A program is a script of loops over one array, run one iteration (or block of
four) at a time. In `BranchBench` data and sums are numbers; `prefix` is a
history variable that keeps what the first k bytes add up to. In `CacheBench`
only which element is touched is kept, not its value. `random_access` is the one
script that no program of the repository has: nothing constructs a
`RandomAccessor`.

Headers of these projects that do not compile as they stand are modelled by
their evident meaning: `numa.hpp:26` calls `numa_alloc_onnode` with three
arguments (in a function that nothing calls), `timer.hpp` uses `printf` without
`<cstdio>`, `cache.hpp:69` uses `std::random_shuffle`, which C++17 removed.
`bench_branch.cpp:19` calls `i % 256` sorted data and `bench_cache.cpp:37` calls
stride 1 a cache line; the models follow the code.

## Runs

| run | expected | what it shows |
|---|---|---|
| `spsc` | pass | no race, conservative size, FIFO, the inductive invariant; what is published is delivered though the producer may stop anywhere, everything is if it does not |
| `mpmc_safety` | pass | with two producers, two consumers and stale loads, positions stay bounded and claims exclusive; the inductive invariant; a FIFO if no push overlaps a pop |
| `mpmc_lockfree` | pass | one producer and one consumer return from every call, although the other two may stop anywhere |
| `mpmc_handover` | violation | a pop returns a slot that was claimed but not written |
| `mpmc_spurious_full` | violation | a push finds a ring full that is not |
| `book_safety` | pass | the book implements `PriceBook`; shares are conserved; while ids are used once, the index names the level of a resting order or was lost beside a fill; market orders end |
| `book_cancel` | violation | a resting order cannot be cancelled after a fill beside it, though every id is used once |
| `queue_disciplined` | pass | a FIFO, no node lost or doubled, nothing stuck |
| `queue_fifo` | violation | with two producers and two consumers, not a FIFO |
| `queue_blocking` | violation | a stopped producer makes another one spin for ever |
| `queue_destroy` | violation | the destructor deletes a node of the pool |
| `programs` | pass | each driver and benchmark by itself: counts and samples, lifetime of the buffers, latencies and reports, agreement of the variants, coverage of the access patterns; every program ends but for four known states |

### What the violations mean

*`mpmc_handover`* (`ringbuffer.hpp:72-75`). A producer claims index 0; a
consumer sees the new position, copies slot 0, claims it, returns true. Only
then the producer writes. The second consequence, a late write that destroys a
value of a later lap, is the same interleaving with a full lap in between.

*`mpmc_spurious_full`* (`ringbuffer.hpp:65-70`). A producer loads `write`;
another pushes, a consumer pops; the first loads `read`, now larger; the
unsigned difference is almost 2^64. The call returns false. A caller that
retries is not harmed.

*`book_cancel`* (`orderbook.cpp:49-59`). Two orders of one price; a market order
fills the first; the second is moved to its place and its index entry erased.

*`queue_fifo`* (`queue.hpp:54-57, 67-70, 79-92`). The compare-and-swaps compare
addresses, and addresses come back: a dequeue holds `first` and its `next`,
other threads take the node off, recycle it and make it `head` again, and the
compare-and-swap succeeds with a `next` of another life.

*`queue_blocking`* (`queue.hpp:68-73`). Nobody but the producer itself moves
the tail over the node it linked.

*`queue_destroy`* (`queue.hpp:40-43`). The sentinel of the constructor goes to
the free list with the first dequeue.

### What `EndsOrKnownHang` leaves open

The property lists the four states in which a driver may rest for ever, and
says that there is no fifth.

- *Lost increment* (`test_ringbuffer.cpp:65-71`). Two consumers read `consumed`,
  both add one, one increment is lost; everything is popped and the loops wait
  for a count that does not come. The assertion after the join can therefore not
  fail (`CountsExact`): the test passes or hangs.
- *Share exceeded* (`bench_queue.cpp:118`). A consumer goes on past its 250000
  messages while a producer is not done; what it takes, the other one waits for.
- *Crash* (`bench_ringbuffer.cpp:100, 114`, `bench_queue.cpp:105, 121`). Two
  threads are inside `push_back` of one vector.
- *Queue gone wrong* (`queue.hpp:54-101`). Messages were lost or doubled under two
  producers and two consumers. A consumer may then wait for messages that do not
  come, or leave with another count: the assertion of `test_queue.cpp:92`, that
  5000 messages were dequeued, can fail, and `CountsExact` claims it for runs
  without such a lapse only.

### Bounds and why they are enough

- Ring buffer: SIZE 2, and 3 or 4 (MPMC) or 6 (SPSC) pushes. Full, empty and
  wrap-around of the slots happen; with 6 pushes each slot is used three times.
  `MaxPush` bounds the pushes since the last `reset()`, which runs repeat.
  Values: one where they cannot matter to control, two where an order must be
  told. `POS_MOD` stands for 2^64 and is larger than any position, as in
  practice; the unsigned subtraction wraps at it.
- Order book: three ids, three levels of two orders, prices on both edges and
  outside, quantities 0 and 2 against market orders of 3, so that an order is
  filled with the remainder going on, or reduced, or removed without effect. An
  id can be reused. `MaxOrders` bounds orders since `clear()`. The ids are
  symmetric.
- Message queue: a pool of two and the sentinel, four enqueues: every node,
  the sentinel included, serves as message node, as sentinel and as free node
  again. `MaxEnqueue` counts calls in progress too, so that it stops no call
  half-way.

- Programs: two producers and two consumers with two calls each, so that each of
  a kind can overtake the other, and a ring of two that can be full; machines of
  one node, of two, and of two on which both threads are bound to the same
  node; one lapse of the queue (`MaxLapses`), which leaves any number of values that it
  can; recorders that are full after two samples, so that the limit is met too
  (`SamplesAreCounted` is about any limit); arrays of 0, 1, 4 and 5 bytes around a
  block of 4, byte values on both sides of the limit; array lengths that strides of 1,
  2 and 4 divide or not, shorter and longer than the prefetch distance and than
  a cache line of four elements.
- Timer, in `programs`: three ticks in two nanoseconds, so that the clock
  truncates; a window of one tick; a counter of 32 values that wraps within the
  calibration (12 ticks of spin) and within a measurement; CPUs one tick apart;
  delays of two ticks; a spin of 8 ns. Three samples of an operation and then one,
  or a free caller with up to two: of three the median is the second and the other
  percentiles the last, so that a wrong order shows. That they are ordered for all
  numbers up to 214769, from which on an `int` overflows, is a theorem.

Runs that state liveness use no symmetry. `CHECK_DEADLOCK FALSE` is said only
for the two runs in which the queue may be destroyed and for the programs, which
end.

### Fairness

A thread that runs takes its next step (weak fairness of each of its steps).
Threads of `Runners` are such threads; all others may stop anywhere, which is
what lock-freedom and the stalled-producer properties are about. Strong
fairness of a compare-and-swap (`PushCas`, `PopCas`, `EnqueueLink`,
`DequeuePushFree`) says that it does not fail for no reason for ever while it
could succeed; `compare_exchange_weak` is used in a loop on that expectation.
In `spsc`, producers that call again and again are a hypothesis of
`AllDelivered` rather than of the specification, so that
`PublishedIsDelivered` is checked for producers that stop; `queue_disciplined`
does the same.  A store becomes visible after a finite time: the fair step is
the one that loads the newest value.

In `programs` every thread takes its next step; a call that is repeated and can
succeed again and again succeeds (strong fairness of `Call`), as the lock-free
loops do when no thread stops inside one; both only until a queue has gone
wrong (`lapses = 0`), after which calls may fail for ever. Starting a program, failing
allocations, crashes and migrations have no fairness.

## Theorems

Every safety property of a passing run is also a theorem, for every value of
the constants that the named ASSUMEs admit: all invariants, all action
properties and the refinements of `BoundedFifo` and `PriceBook`. Each component
has one inductive invariant, conjoined from named parts; the runs `spsc`,
`mpmc_safety` and `programs` check that of the two rings and of the branch
benchmark on small instances too. TLC evaluates the ASSUMEs in every run.

`RingBufferSPSCProofs`, for every SIZE that is a power of two, every value set,
every bound on pushes and every staleness of loads:

- `Invariance`: `IInv` is inductive. `TypeOK` and `NoDataRace` alone are not:
  that a slot is not overwritten rests on the producer's stale picture being
  behind the true position and less than SIZE away (`PositionsInv`), that there
  is no race on a position seen implying the accesses known (`KnowledgeInv`),
  that the right value comes out on each slot between the positions holding the
  value accepted for it (`ContentInv`), for which two different indices less
  than SIZE apart must not share a slot (a lemma on remainders).
- `TypeCorrect`, `RaceFreedom`, `ApproxSizeIsConservative` follow from it.
- `ImplementsFifo`: each step is a `Put`, a `Take`, a `Clear` or a stutter of
  `BoundedFifo`.

`RingBufferMPMCProofs`, for any sets of producers and consumers and with or
without stale loads:

- `Invariance`, `TypeCorrect`, `PositionsStayBounded`, `ClaimsAreExclusive`.
  The strengthening says what a thread's stale local position still implies
  (`SeenInv`, `LocalsInv`): it passed a test against a position that has only
  grown, and the compare-and-swap makes it current again.
- `PhasedImplementsFifo`: clients that keep pushes and pops apart see a
  `BoundedFifo`. It needs a second invariant, `PhasedInv`, of such clients: each
  slot between the positions holds its value or is owned by the push that will
  store it, no pop runs meanwhile, and a pop whose compare-and-swap would
  succeed has copied the right value. `mpmc_handover` shows that the hypothesis
  cannot be dropped.

`OrderBookProofs`, for every price range, number of levels, number of orders of
a level, set of ids and quantities, and every sequence of calls:

- `Invariance`: `IInv` joins `TypeOK`, `IndexAgrees` and `QuantityConserved`
  with two parts that make them inductive. `RestingInv`: resting orders have
  prices of the book and timestamps of their own below the counter, so that an
  order is still the same one after swap-and-pop has moved it. `MatchInv`: the
  levels that `match_market_order` has walked over are empty.
- `TypeCorrect`, `QuantityIsConserved`, `IndexAgreement` are parts of it. The
  last says, while ids are used once, that the index names the level of a resting
  order unless the entry was lost where a market order filled another order: the
  invariant keeps the trade that shows it. The
  levels change in three ways only (an order is appended, removed by
  swap-and-pop, or reduced); each has one lemma on where orders rest and one on
  the sum of their quantities.
- `BestExecution`: each trade is at the price `best_bid()` or `best_ask()` would
  have returned, and the quantity of that level falls by the trade; by
  `MatchInv` and a lemma on the smallest and the largest occupied level.
- `MatchingEnds`: quantity left plus levels ahead plus orders facing is a natural
  number that every iteration makes smaller. That is the safety half of "the
  loops end": it needs no fairness.
- `ImplementsPriceBook`: with the set of `id`, side, price, quantity and
  timestamp of what rests for the abstract book, each step is one of
  `PriceBook` or a stutter. Timestamps make that mapping injective, for which
  `RestingInv` is needed again.

`MessageQueueProofs`, for every pool, every number of producers and consumers
and every number of messages. The theorems say `ASSUME Disciplined`: without the
discipline they are false, as `queue_fifo` shows, and a program with one
producer and one consumer keeps to it whatever it does.

- `Invariance`: there are two sequences of nodes, those from `head` on and those
  from `free_list` on, which have no node twice and none in common; `tail` is the
  last node, or the one before it while a producer is about to store it; the
  messages of the first, after its first node, are those accepted and not yet
  delivered; and what each call has read is still so, or its compare-and-swap
  fails. The latter is where ABA would enter: a consumer that holds an
  old `head` may exist only after the last enqueue, from when on no node is
  recycled into the queue.
- `TypeCorrect`; `ImplementsFifo`: linking is `Put`, advancing `head` is `Take`.
- `NodesArePartitioned`: the sets that the model computes by walking along
  `next` are those sequences, so that each node is in exactly one place.

`ProgramsProofs`, about `Programs`, in which one program runs and the variables
of the others rest:

- Drivers (any number of threads, any quota, any capacity, any number of lapses
  of a queue that is not reliable): `CountsAreExact`, `SamplesAreCounted`. What
  was pushed, and that an atomic counter is the number of calls, holds whatever
  the queue does; that everything was taken and counted holds of runs in which
  it did not go wrong, which includes all runs over a ring. The invariant bounds what was counted and recorded of
  each side by sums over its threads of the calls that got that far; lost updates
  only ever make the books smaller, so that a consumer that has left its loop
  shows that they are complete. An atomic count equals its sum.
- NUMA (any machine whose nodes are numbered without gaps, as
  `numa_num_nodes()` in the loops of `numa.hpp` presumes): `BuffersOutliveThreads`,
  `OnlyThrowingLeaks`, `LabelsHold`. The invariant says at each point of the main
  thread which buffers are there and which threads run.
- Timer (`TimerAssumption`: no two reads are a round of the counter apart, and
  the delay between two reads with the windows of `rdtsc` and the difference of
  two counters stays below the 100 ms of the calibration; no operation is
  measured more than the 1000000 times for which samples are kept; ticks and
  nanoseconds are in any ratio): `LatenciesAreLongEnough`,
  `ReportsAreOfOneOperation`, `ReportsAreOrdered`, `P99IsAsPrinted`. The
  invariant of the calibration says when, and on which CPU, each read was made;
  from it follows that the counter was read inside the interval of the clock but
  for the two windows of `rdtsc`, so that a tick is taken for shorter than it is by
  no more than those and the nanosecond the clock truncates, of the 100 ms.
  `ReportsAreOrdered` is about reports of up to 214769 samples, where the ranks
  still fit an `int`. A lemma shows that the unsigned difference of two reads is
  the time between them also across a wrap-around.
- Cache (any length, element size, line, distance and strides): `ReadsAfterWrites`,
  `PatternsCover`. The invariant says which elements the loop that runs has
  visited: multiples of the stride, or the images of the shuffle, up to here.
- `BranchVariantsAgree`: what `BranchBenchProofs` shows of the benchmark by itself
  holds beside the others.
- `ProgramsTypeCorrect`: all types, from the four invariants together.

`BranchBenchProofs`, for every set of scripts that fill the data first and copy
it before the second layout is read, every length, every number of byte values
and every limit:

- `Invariance`: `BranchInv` is inductive. That the results agree is not: it
  rests on the running sum of any loop being the prefix sum of the elements
  passed (`LoopInv`). In place of an induction over the data, `prefix` is built
  with the data; a block of four moves the sum by four prefix sums.
- `VariantsAgree`: all variants return the same sum, that of the data.

`StatisticsProofs`, about samples and the `int` arithmetic of the percentiles:

- `RecorderRanksFit`: in the recorders of the benchmarks no product overflows
  and every index is inside the vector, up to the limit of samples.
- `LatencyRanksFit`: in `LatencyStatistics` that holds up to 214769 samples.
  `n * 9999` (`timer.hpp:100`) overflows from there on, although 1000000 are kept:
  up to 429538 samples the rank is negative, and `analyze()` reads before the
  vector. The programs collect at most 100000.
- `PercentilesOrdered`: of at most 214769 sorted samples the percentiles printed
  are ordered.
- `SortOrders`: every sequence of samples has an ordered rearrangement, so that
  `Sort` chooses one; by induction on the length, moving the largest sample to
  the end.

`SumTheorems` holds lemmas, about none of the code: TLAPS cannot instantiate the induction theorems of its library,
which are about an operator. `NatSetInduction` and `SubsetInduction` state
induction for a set in place of the operator, and are proved from minimal elements
of well-founded orders; the sums of quantities, calls and samples rest on them.
What the fold `SumFunctionOnSet` chooses does not depend on the order
(`SumElement`), and the other theorems say how a sum changes when an element is
added, removed, changed, or moved as swap-and-pop moves it.

The positions of the ring are unbounded in the code; the theorems hold for
every bound `MaxPush` as long as it is below 2^64 by the size of the ring
(`BoundAssumption`).

Only model-checked, because TLAPS cannot reason about fairness and ENABLED here:
`PublishedIsDelivered` and `AllDelivered` (both of them, ring and queue),
`LinkedIsDelivered`, `PushReturns` and `PopReturns`, `EndsOrKnownHang`. And the
violations, which are executions.

## Not modelled, and limits

- The message queue is modelled under sequential consistency; its relaxed
  loads may allow more on weak memory. What is found violated is violated
  already without that.
- Data races on the content of a queue node are visible only as values from
  another life of the node, not as torn copies.
- Order quantities have no width and are not negative. The code validates
  neither; sums of `int` may overflow.
- Wrap-around of a position at 2^64 pushes; capacity of the vectors and maps;
  failing allocation.
- `reset()` and `clear()` overlapping other calls.
- Of `numa.hpp`: `allocate_local`, `deallocate_local` and `at_local`, which no
  program calls. `at_local` would read a buffer that does not exist on a machine
  with more nodes than buffers.
- An observer that calls `approximate_size()` from a third thread gets two loads
  of different times, whose difference may wrap.
- Drivers that are a straight line of calls in one thread: the tests of the
  order book and of projects 4 to 6 and the order book benchmark. Each is one of
  the behaviours of the model of its component. (Of the benchmark: 2000 orders go
  to each level of 1000, so that half of the adds it times are refused; the ids
  it cancels are just the buy orders.)
- What is measured: times, throughput, cache and branch misses; hints, prefetch
  and barriers have no effect in the models.
- Adjustments of the clock and a resolution of it coarser than a nanosecond;
  overflow of the sums from which averages are printed.
- What a queue does after it has gone wrong is any number of values in the
  channel of the drivers; a call that does not return is one that is never taken.
- The build. `CMakeLists.txt` and `Makefile` have no behaviour.

## Plan

Done, in the order of importance: SPSC ring with its theorems, MPMC ring,
order book, message queue, drivers, NUMA, timer and statistics, branch, cache;
and for each of them the theorems on its safety properties.

Next, to model: message lengths in `MessageQueue` (a message shorter than its
node); negative and 32-bit quantities in `OrderBook`; a `reset()` that overlaps
calls.

Next, to prove: the safety part of the liveness properties, as `MatchingEnds` does
for the order book (measures that decrease with each step of a driver or a retry
loop); what an overlapping `reset()` may still promise, once it is modelled.
