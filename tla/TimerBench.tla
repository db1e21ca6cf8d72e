----------------------------- MODULE TimerBench -----------------------------
(***************************************************************************)
(* LatencyTimer and LatencyStatistics, as the benchmark of single          *)
(* operations and any other caller may use them.                           *)
(*                                                                         *)
(* Time passes between any two reads, in ticks of the time-stamp counter;  *)
(* a tick need not be a whole number of nanoseconds.  The clock shows      *)
(* whole nanoseconds.  The counter has TSC_MOD values, and the counter of  *)
(* a CPU may be ahead of that of another one.  rdtsc is not ordered with   *)
(* the instructions around it and may take effect some ticks earlier or    *)
(* later.  The scheduler may move the thread at any time.                  *)
(***************************************************************************)
EXTENDS Statistics, SequencesExt

CONSTANTS CPUs,         \* 0 is one of them
          Skew,         \* by how many ticks the counter of each CPU is ahead
          TSC_MOD,      \* 2^64
          Phases,       \* where the counter may stand at an origin
          TICKS, NANOS, \* so many ticks last so many ns: 5 and 2 at 2.5 GHz
          WINDOW,       \* by how many ticks rdtsc may be early or late
          SPIN,         \* the 100 ms of the calibration, in ns
          Delays,       \* ticks that may pass between two reads
          Iterations,   \* how often the benchmark measures each operation
          MaxRecords,   \* bound: samples of the free caller
          Uses          \* the callers: "benchmark", "free"

VARIABLES
  use,                \* the caller, a member of Uses once it runs
  pc,                 \* control point
  phase, now, cpu,    \* the counter at the last origin, ticks since, the CPU
  still,              \* was the thread not moved since the last origin?
  clock, tsc,         \* the reads of the constructor: <<start, end>>
  tsc_to_ns,          \* the calibration, <<ns_diff, tsc_diff>>
  exact,              \* was the thread not moved during the calibration?
  start_tsc, end_tsc, \* members of LatencyTimer
  op, iter,           \* the operation measured, the loop variable i
  latencies_ns,       \* member of LatencyStatistics
  origins,            \* history: the operations the samples come from
  analyzed,           \* history: no sample was recorded since analyze()
  report              \* what analyze() printed last, with its operations

machine == <<phase, now, cpu, still>>
timer   == <<clock, tsc, tsc_to_ns, exact, start_tsc, end_tsc>>
stats   == <<latencies_ns, origins, analyzed, report>>
vars    == <<use, pc, machine, timer, op, iter, stats>>

NoReport == [ops |-> {}]

-----------------------------------------------------------------------------
(* Slips somebody could make in this code, used only to show that the       *)
(* properties notice them.                                                  *)

\* A counter that went down counts as no time at all.
Fault_Elapsed(a, b) == IF b >= a THEN b - a ELSE 0

\* The statistics are not replaced between two operations.
Fault_Fresh(samples) == samples

\* analyze() sorts a copy.
Fault_Kept(samples, sorted) == samples

\* analyze() does not sort.
Fault_Analyzed(samples) == samples

\* The constructor: what it reads and does, in this order.
CALIBRATION == <<"clockStart", "tscStart", "spin", "tscEnd", "clockEnd">>

\* Subtraction of two uint64_t.
Elapsed(a, b) == (b - a) % TSC_MOD

\* The clock value that ends the loop of the constructor.
SpinUntil == clock[1] + SPIN

\* The samples with which the next operation starts.
Fresh(samples) == << >>

\* The order in which analyze() reads its samples, and leaves them.
Analyzed(samples) == Sort(samples)
Kept(samples, sorted) == sorted

\* The counter of this CPU, t ticks after the origin, and what rdtsc may
\* return of it then.
rdtscp(t) == (phase + t + Skew[cpu]) % TSC_MOD
rdtsc(t)  == {rdtscp(t + shift) : shift \in -WINDOW..WINDOW}

\* What the clock shows then.
Ns(t) == (t * NANOS) \div TICKS

latency_cycles == Elapsed(start_tsc, end_tsc)

\* The double product is exact or just below; below a whole number it
\* truncates to the one before.
latency_ns ==
  {(latency_cycles * tsc_to_ns[1]) \div tsc_to_ns[2],
   IF latency_cycles = 0 THEN 0 ELSE (latency_cycles * tsc_to_ns[1] - 1) \div tsc_to_ns[2]}

get_p99 == IF latencies_ns = << >> THEN 0 ELSE At(latencies_ns, P99)

-----------------------------------------------------------------------------
Init ==
  /\ use = "none"
  /\ pc = "new"
  /\ phase = 0 /\ now = 0 /\ cpu = 0
  /\ still = TRUE
  /\ clock = <<0, 0>> /\ tsc = <<0, 0>>
  /\ tsc_to_ns = <<1, 1>> /\ exact = TRUE
  /\ start_tsc = 0 /\ end_tsc = 0
  /\ op = 1 /\ iter = 0
  /\ latencies_ns = << >> /\ origins = {} /\ analyzed = FALSE
  /\ report = NoReport

\* LatencyTimer() is called.
Construct(u, p) ==
  /\ pc = "new"
  /\ use' = u
  /\ phase' = p
  /\ cpu' \in CPUs
  /\ pc' = CALIBRATION[1]
  /\ UNCHANGED <<now, still, timer, op, iter, stats>>

\* An origin: the constructor and start() count time from here.  How long
\* ago the last measurement was does not matter: the counter may stand at p.
NewOrigin(p) ==
  /\ phase' = p
  /\ now' = 0
  /\ still' = TRUE
  /\ UNCHANGED cpu

Later(t) == now' = t /\ UNCHANGED <<phase, cpu, still>>

Continue ==
  LET k == CHOOSE k \in 1..Len(CALIBRATION) : CALIBRATION[k] = pc
  IN  pc' = IF k < Len(CALIBRATION) THEN CALIBRATION[k + 1] ELSE "calibrated"

ReadClock(d) ==
  /\ pc \in {"clockStart", "clockEnd"}
  /\ clock' = [clock EXCEPT ![IF pc = "clockStart" THEN 1 ELSE 2] = Ns(now + d)]
  /\ Later(now + d)
  /\ Continue
  /\ UNCHANGED <<use, tsc, tsc_to_ns, exact, start_tsc, end_tsc, op, iter, stats>>

ReadCounter(d) ==
  /\ pc \in {"tscStart", "tscEnd"}
  /\ \E read \in rdtsc(now + d) :
       tsc' = [tsc EXCEPT ![IF pc = "tscStart" THEN 1 ELSE 2] = read]
  /\ Later(now + d)
  /\ Continue
  /\ UNCHANGED <<use, clock, tsc_to_ns, exact, start_tsc, end_tsc, op, iter, stats>>

\* The loop ends at the first read of the clock past the 100 ms.
Spin(d) ==
  /\ pc = "spin"
  /\ \E t \in now..(now + SPIN * TICKS) :
       /\ Ns(t) >= SpinUntil
       /\ t = now \/ Ns(t - 1) < SpinUntil
       /\ Later(t + d)
  /\ Continue
  /\ UNCHANGED <<use, timer, op, iter, stats>>

Calibrated ==
  /\ pc = "calibrated"
  /\ tsc_to_ns' = <<clock[2] - clock[1], Elapsed(tsc[1], tsc[2])>>
  /\ exact' = still
  /\ clock' = <<0, 0>> /\ tsc' = <<0, 0>>
  /\ NewOrigin(0)
  /\ pc' = "loop"
  /\ UNCHANGED <<use, start_tsc, end_tsc, op, iter, stats>>

Start(p) ==
  /\ pc = "loop"
  /\ iter < (IF use = "benchmark" THEN Iterations[op] ELSE MaxRecords)
  /\ NewOrigin(p)
  /\ start_tsc' = (p + Skew[cpu]) % TSC_MOD
  /\ pc' = "operation"
  /\ UNCHANGED <<use, clock, tsc, tsc_to_ns, exact, end_tsc, op, iter, stats>>

Stop(d) ==
  /\ pc = "operation"
  /\ end_tsc' = rdtscp(d)
  /\ Later(d)
  /\ pc' = "record"
  /\ UNCHANGED <<use, clock, tsc, tsc_to_ns, exact, start_tsc, op, iter, stats>>

RecordLatency ==
  /\ pc = "record"
  /\ \E ns \in latency_ns :
       latencies_ns' = Record(LatencyStatistics, latencies_ns, ns)
  /\ origins' = origins \cup {op}
  /\ analyzed' = FALSE
  /\ iter' = iter + 1
  /\ start_tsc' = 0 /\ end_tsc' = 0
  /\ NewOrigin(0)
  /\ pc' = "loop"
  /\ UNCHANGED <<use, clock, tsc, tsc_to_ns, exact, op, report>>

\* analyze(): the benchmark calls it after each loop, others at any time.
Analyze ==
  /\ pc = "loop"
  /\ latencies_ns # << >>
  /\ use = "benchmark" => iter = Iterations[op] /\ ~analyzed
  /\ LET sorted == Analyzed(latencies_ns)
     IN  /\ latencies_ns' = Kept(latencies_ns, sorted)
         /\ report' = [ops |-> origins, prints |-> Report(LatencyStatistics, sorted)]
  /\ analyzed' = TRUE
  /\ UNCHANGED <<use, pc, machine, timer, op, iter, origins>>

\* stats = LatencyStatistics(), on to the next operation.
NextOperation ==
  /\ pc = "loop" /\ use = "benchmark"
  /\ iter = Iterations[op] /\ analyzed
  /\ op < Len(Iterations)
  /\ op' = op + 1
  /\ iter' = 0
  /\ latencies_ns' = Fresh(latencies_ns)
  /\ origins' = IF latencies_ns' = << >> THEN {} ELSE origins
  /\ analyzed' = FALSE
  /\ UNCHANGED <<use, pc, machine, timer, report>>

\* The scheduler moves the thread.
Migrate ==
  /\ pc \in {"spin", "tscEnd", "clockEnd", "operation"}
  /\ cpu' \in CPUs \ {cpu}
  /\ still' = FALSE
  /\ UNCHANGED <<use, pc, phase, now, timer, op, iter, stats>>

Next ==
  \/ \E u \in Uses, p \in Phases : Construct(u, p)
  \/ \E d \in Delays : ReadClock(d) \/ ReadCounter(d) \/ Spin(d) \/ Stop(d)
  \/ \E p \in Phases : Start(p)
  \/ Calibrated \/ RecordLatency \/ Analyze \/ NextOperation
  \/ Migrate

Spec == Init /\ [][Next]_vars

-----------------------------------------------------------------------------
TypeOK ==
  /\ use \in Uses \cup {"none"}
  /\ pc \in ToSet(CALIBRATION) \cup {"new", "calibrated", "loop", "operation", "record"}
  /\ phase \in 0..(TSC_MOD - 1) /\ now \in Nat /\ cpu \in CPUs
  /\ still \in BOOLEAN /\ exact \in BOOLEAN /\ analyzed \in BOOLEAN
  /\ start_tsc \in 0..(TSC_MOD - 1) /\ end_tsc \in 0..(TSC_MOD - 1)
  /\ tsc_to_ns[1] \in Nat /\ tsc_to_ns[2] \in Nat \ {0}
  /\ op \in 1..Len(Iterations) /\ iter \in 0..(MaxRecords + Iterations[op])
  /\ latencies_ns \in Seq(Nat)
  /\ origins \subseteq 1..Len(Iterations)

(* A latency, of which the code prints whole nanoseconds, is not below the  *)
(* time that passed between start() and stop() by more than 1 ns and the    *)
(* share of that time by which the calibration can be off: 1 ns of the      *)
(* clock and two windows of rdtsc in the 100 ms of the spin.  That is so    *)
(* also when the counter wraps in between or during the calibration and     *)
(* however the thread is delayed: as the clock is read outside the counter, *)
(* delays make a tick look longer.  The thread must only not be moved       *)
(* between two CPUs while a difference is taken.                            *)
MostTicks == (SPIN + 1) * TICKS + 2 * WINDOW * NANOS  \* of NANOS * SPIN

LatencyNotUnderestimated ==
  pc = "record" /\ still /\ exact =>
    \A ns \in latency_ns : (ns + 1) * MostTicks >= now * NANOS * SPIN

(* A report of the benchmark is about the samples of one operation, all of  *)
(* them: none is left over from the operation before.                       *)
ReportIsOfOneOperation ==
  use = "benchmark" /\ analyzed =>
    report.ops = {op} /\ report.prints.count = Iterations[op]

(* What analyze() prints is ordered, from the minimum over the percentiles  *)
(* to the maximum, as long as the products it divides fit an int: that is   *)
(* up to 214769 samples, of the 1000000 the class keeps.                    *)
ReportOrdered ==
  report # NoReport /\ report.prints.count <= RANKED_SAMPLES =>
    /\ report.prints.min <= report.prints.at[Median]
    /\ report.prints.at[Median] <= report.prints.at[<<3, 4>>]
    /\ report.prints.at[<<3, 4>>] <= report.prints.at[<<9, 10>>]
    /\ report.prints.at[<<9, 10>>] <= report.prints.at[P99]
    /\ report.prints.at[P99] <= report.prints.at[P999]
    /\ report.prints.at[P999] <= report.prints.at[<<9999, 10000>>]
    /\ report.prints.at[<<9999, 10000>>] <= report.prints.max

(* get_p99() agrees with the p99 printed last until the next record().      *)
(* (Before analyze(), as in test_timer_precision, it is just one sample.)   *)
P99Agrees == analyzed => get_p99 = report.prints.at[P99]
=============================================================================
