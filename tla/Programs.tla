------------------------------ MODULE Programs ------------------------------
(***************************************************************************)
(* The drivers and benchmarks of the repository, each of them a program of *)
(* its own: one of them is chosen and runs by itself, the others stay as   *)
(* they were.  Of BranchBench the names are used as they are, the others   *)
(* are instances.                                                          *)
(***************************************************************************)
EXTENDS BranchBench, FiniteSets

CONSTANTS
  Producers, Consumers, LoneProducer, LoneConsumer,
  Quota, SmallRing, MaxSamples, MaxLapses,             \* Drivers
  Machines, NumaIterations,                            \* NumaBench
  CPUs, Skew, TSC_MOD, Phases, TICKS, NANOS,
  WINDOW, SPIN, Delays, Iterations, MaxRecords, Uses,                \* TimerBench
  SIZEOF, CACHE_LINE_SIZE, PREFETCH_DISTANCE,
  Strides, ArrayLengths, Repeats                       \* CacheBench

\* A machine maps its CPUs, numbered from 0 on, to its nodes, which are numbered
\* below their number.
ASSUME MachineAssumption ==
  \A m \in Machines :
    /\ IsFiniteSet(DOMAIN m) /\ DOMAIN m # {}
    /\ m \in [0..(Cardinality(DOMAIN m) - 1) -> 0..(Cardinality({m[c] : c \in DOMAIN m}) - 1)]
ASSUME NumaIterationsAssumption == NumaIterations \in Nat

\* As many consumers as producers, two or one in each program of the repository;
\* 100000 and 500000 pushes of one producer, 1000000 samples.
ASSUME DriversAssumption ==
  /\ IsFiniteSet(Producers) /\ IsFiniteSet(Consumers)
  /\ Producers \cap Consumers = {}
  /\ Cardinality(Producers) = Cardinality(Consumers)
  /\ LoneProducer \in Producers /\ LoneConsumer \in Consumers
  /\ Quota \in Nat /\ SmallRing \in Nat /\ MaxSamples \in Nat /\ MaxLapses \in Nat
  /\ Quota <= MaxSamples

ASSUME CacheAssumption ==
  /\ SIZEOF \in Nat \ {0} /\ CACHE_LINE_SIZE \in Nat \ {0} /\ PREFETCH_DISTANCE \in Nat
  /\ ArrayLengths \subseteq Nat /\ Repeats \in Nat
  /\ Strides \in Seq(Nat \ {0})

\* No two reads are a round of the counter apart, and neither the delay between
\* two reads, with the windows of both, nor the difference of two counters comes
\* up to the 100 ms of the calibration.  No operation is measured more often than
\* LatencyStatistics keeps samples.
MAX_SAMPLES == 1000000
ASSUME TimerAssumption ==
  /\ TICKS \in Nat \ {0} /\ NANOS \in Nat \ {0} /\ WINDOW \in Nat
  /\ SPIN \in Nat \ {0} /\ TSC_MOD \in Nat \ {0}
  /\ Delays \subseteq Nat /\ Phases \subseteq 0..(TSC_MOD - 1)
  /\ 0 \in CPUs /\ Skew \in [CPUs -> Nat]
  /\ \A d, e \in Delays : \A a, b \in CPUs :
       /\ NANOS * (d + 2 * WINDOW + Skew[a]) <= TICKS * (SPIN - 1) + NANOS * Skew[b]
       /\ SPIN * TICKS + d + e + 2 * WINDOW + Skew[a] < TSC_MOD + Skew[b]
  /\ Uses \subseteq {"benchmark", "free"}
  /\ Iterations \in Seq(0..MAX_SAMPLES) /\ Iterations # << >>
  /\ MaxRecords \in 0..MAX_SAMPLES

VARIABLES
  program,
  driver, thread_pc, ops, items, lapses, counted, finished, samples, reg, crashed,
  node_of, main, next, buffers, worker_pc, worker_cpu, bound, target, worker_i,
  inTime, kinds,
  use, timer_pc, phase, now, timer_cpu, still, clock, tsc, tsc_to_ns, exact,
  start_tsc, end_tsc, op, iter, latencies_ns, origins, analyzed, report,
  array_script, array_n, array_at, elements, written, indices, array_i, ahead,
  touched

drvVars   == <<driver, thread_pc, ops, items, lapses, counted, finished, samples, reg, crashed>>
numaVars  == <<node_of, main, next, buffers, worker_pc, worker_cpu, bound, target,
               worker_i, inTime, kinds>>
timerVars == <<use, timer_pc, phase, now, timer_cpu, still, clock, tsc, tsc_to_ns,
               exact, start_tsc, end_tsc, op, iter, latencies_ns, origins,
               analyzed, report>>
cacheVars == <<array_script, array_n, array_at, elements, written, indices, array_i,
               ahead, touched>>

Drv == INSTANCE Drivers WITH pc <- thread_pc

Numa == INSTANCE NumaBench WITH
          Iterations <- NumaIterations, pc <- worker_pc, cpu <- worker_cpu,
          i <- worker_i

Timer == INSTANCE TimerBench WITH pc <- timer_pc, cpu <- timer_cpu

Cache == INSTANCE CacheBench WITH
           Lengths <- ArrayLengths, script <- array_script, n <- array_n,
           at <- array_at, i <- array_i

ProgramsInit ==
  /\ program \in {"drivers", "numa", "timer", "branch", "cache"}
  /\ Drv!Init /\ Numa!Init /\ Timer!Init /\ Init /\ Cache!Init

ProgramsNext ==
  /\ UNCHANGED program
  /\ \/ /\ program = "drivers" /\ Drv!Next
        /\ UNCHANGED <<numaVars, timerVars, vars, cacheVars>>
     \/ /\ program = "numa" /\ Numa!Next
        /\ UNCHANGED <<drvVars, timerVars, vars, cacheVars>>
     \/ /\ program = "timer" /\ Timer!Next
        /\ UNCHANGED <<drvVars, numaVars, vars, cacheVars>>
     \/ /\ program = "branch" /\ Next
        /\ UNCHANGED <<drvVars, numaVars, timerVars, cacheVars>>
     \/ /\ program = "cache" /\ Cache!Next
        /\ UNCHANGED <<drvVars, numaVars, timerVars, vars>>

ProgramsVars == <<program, drvVars, numaVars, timerVars, vars, cacheVars>>

ProgramsSpec ==
  /\ ProgramsInit /\ [][ProgramsNext]_ProgramsVars
  /\ Drv!Fairness /\ Numa!Fairness /\ Fairness /\ Cache!Fairness

-----------------------------------------------------------------------------
(* The properties of the components, as stated there.                       *)

(* The variables are of their types, idle programs included.                *)
ProgramsTypeOK == Drv!TypeOK /\ Numa!TypeOK /\ Timer!TypeOK /\ Cache!TypeOK

(* The tests and benchmarks that end have pushed every value, and have      *)
(* taken and counted it, unless the queue went wrong.                       *)
CountsExact       == Drv!CountsExact
(* No recorder has more samples than calls, one of a single thread has all. *)
SamplesCounted    == Drv!SamplesCounted

(* The threads read only buffers that are allocated.                        *)
AccessesAllocated       == Numa!AccessesAllocated
(* Buffers are leaked only by a constructor that throws.                    *)
FreedUnlessThrown       == Numa!FreedUnlessThrown
(* The labels of the report are right for threads bound in time.            *)
LabelsHoldIfBoundInTime == Numa!LabelsHoldIfBoundInTime

(* A latency of a thread that was not moved is too small by what the clock  *)
(* and the calibration leave open at most.                                  *)
LatencyNotUnderestimated == Timer!LatencyNotUnderestimated
(* A report of bench_timer is about all samples of one operation.           *)
ReportIsOfOneOperation   == Timer!ReportIsOfOneOperation
(* The percentiles analyze() prints are ordered, up to 214769 samples.      *)
ReportOrdered            == Timer!ReportOrdered
(* get_p99() agrees with the last report until the next record().           *)
P99Agrees                == Timer!P99Agrees

(* The access patterns stay inside the array and read what was written.     *)
AccessesWritten == Cache!AccessesWritten
(* Every access pattern touches the elements it should, each of them once.  *)
PatternCovered  == Cache!PatternCovered

(* Every program that was started ends, however its threads are scheduled   *)
(* and whatever fails, unless a driver comes into one of the four states    *)
(* in which it is known to crash or to wait for ever.                       *)
EndsOrKnownHang ==
  Drv!Started \/ Numa!Started \/ Started \/ Cache!Started
    ~> Drv!Over \/ Numa!Over \/ Over \/ Cache!Over
=============================================================================
