----------------------------- MODULE NumaBench -----------------------------
(***************************************************************************)
(* bench_numa: the array of one buffer per NUMA node and the benchmark of  *)
(* local against remote accesses that uses it from two threads.            *)
(*                                                                         *)
(* The main thread allocates the buffers, starts both threads, binds them  *)
(* to a CPU, joins them, reports and destroys the array.  Each thread asks *)
(* for the node it runs on, once, and reads the buffer it chose for it.    *)
(* The scheduler may move a thread at any time until it is bound.          *)
(***************************************************************************)
EXTENDS Integers, FiniteSets

CONSTANTS Machines,   \* machines to run on: the node of each CPU, 0..(n-1)
          Iterations  \* reads of each thread, 50000

Workers == {"local", "remote"}

VARIABLES
  node_of,   \* the machine, a member of Machines once the program runs
  main,      \* control point of benchmark_local_vs_remote
  next,      \* the loop variable i of constructor and destructor
  buffers,   \* node_buffers: what became of the buffer of each node
  pc,        \* control point of each thread
  cpu,       \* the CPU each thread runs on
  bound,     \* has the affinity of the thread been set?
  target,    \* remote_node, or node of the local thread: the buffer it reads
  i,         \* loop variable of each thread
  inTime,    \* was the thread bound before it asked for its node?
  kinds      \* history: kinds of accesses each thread has timed

vars == <<node_of, main, next, buffers, pc, cpu, bound, target, i, inTime, kinds>>
work == <<pc, cpu, bound, target, i, inTime, kinds>>
array == <<next, buffers>>

cpus      == DOMAIN node_of
num_nodes == Cardinality({node_of[c] : c \in cpus})
Nodes     == 0..(num_nodes - 1)

\* cpu0 and cpu1 of the benchmark.
Home(w) == IF w = "local" THEN 0 ELSE Cardinality(cpus) \div 2

(* Slips somebody could make in this program, used only to show that the    *)
(* properties notice them.                                                  *)

\* The remote thread takes its own node.
Fault_Chosen(w, n) == n

\* The main thread waits for the first thread only.
Fault_Joined == pc["local"] = "ended"

\* The destructor stops one buffer early.
Fault_FreeAll == next >= num_nodes - 1

\* get_node_buffer is called for this node by a thread that runs on node n.
Chosen(w, n) == IF w = "local" THEN n ELSE (n + 1) % num_nodes

Joined == \A w \in Workers : pc[w] = "ended"

FreeAll == next = num_nodes

Last(w) == i[w] = Iterations

Init ==
  /\ node_of = << >>
  /\ main = "begin"
  /\ next = 0
  /\ buffers = << >>
  /\ pc = [w \in Workers |-> "none"]
  /\ cpu = [w \in Workers |-> 0]
  /\ bound = [w \in Workers |-> FALSE]
  /\ target = [w \in Workers |-> 0]
  /\ i = [w \in Workers |-> 0]
  /\ inTime = [w \in Workers |-> FALSE]
  /\ kinds = [w \in Workers |-> {}]

-----------------------------------------------------------------------------
(* The main thread. *)

Begin ==
  /\ main = "begin"
  /\ node_of' \in Machines
  /\ main' = IF num_nodes' < 2 THEN "ended" ELSE "alloc"
  /\ buffers' = [n \in Nodes' |-> "none"]
  /\ UNCHANGED <<next, work>>

Allocate ==
  /\ main = "alloc" /\ next < num_nodes
  /\ buffers' = [buffers EXCEPT ![next] = "allocated"]
  /\ next' = next + 1
  /\ UNCHANGED <<node_of, main, work>>

\* numa_alloc_onnode returns no memory: the constructor throws, the benchmark
\* catches, no destructor runs.
AllocateFails ==
  /\ main = "alloc" /\ next < num_nodes
  /\ main' = "ended"
  /\ UNCHANGED <<node_of, array, work>>

\* A thread starts on any CPU.
Spawn ==
  /\ main = "alloc" /\ next = num_nodes
  /\ \E w \in Workers :
       /\ pc[w] = "none"
       /\ w = "remote" => pc["local"] # "none"
       /\ pc' = [pc EXCEPT ![w] = "ask"]
       /\ \E c \in cpus : cpu' = [cpu EXCEPT ![w] = c]
       /\ main' = IF w = "remote" THEN "bind" ELSE main
  /\ UNCHANGED <<node_of, array, bound, target, i, inTime, kinds>>

\* set_thread_affinity, first of the local thread, then of the remote one.  It
\* may fail, as it does for a thread that has ended: the result is ignored.
Bind(w, success) ==
  /\ main = IF w = "local" THEN "bind" ELSE "bindRemote"
  /\ bound' = [bound EXCEPT ![w] = success]
  /\ cpu' = IF success THEN [cpu EXCEPT ![w] = Home(w)] ELSE cpu
  /\ main' = IF w = "local" THEN "bindRemote" ELSE "join"
  /\ UNCHANGED <<node_of, array, pc, target, i, inTime, kinds>>

Join ==
  /\ main = "join"
  /\ Joined
  /\ main' = "free"
  /\ next' = 0
  /\ UNCHANGED <<node_of, buffers, work>>

Free ==
  /\ main = "free" /\ ~FreeAll
  /\ buffers' = [buffers EXCEPT ![next] = IF @ = "allocated" THEN "freed" ELSE @]
  /\ next' = next + 1
  /\ UNCHANGED <<node_of, main, work>>

Return ==
  /\ main = "free" /\ FreeAll
  /\ main' = "ended"
  /\ UNCHANGED <<node_of, array, work>>

Main ==
  \/ Begin \/ Allocate \/ AllocateFails \/ Spawn
  \/ \E w \in Workers, success \in BOOLEAN : Bind(w, success)
  \/ Join \/ Free \/ Return

(* The threads. *)

\* get_numa_node, and the choice of the buffer.
AskNode(w) ==
  /\ pc[w] = "ask"
  /\ target' = [target EXCEPT ![w] = Chosen(w, node_of[cpu[w]])]
  /\ inTime' = [inTime EXCEPT ![w] = bound[w]]
  /\ pc' = [pc EXCEPT ![w] = "loop"]
  /\ UNCHANGED <<node_of, main, array, cpu, bound, i, kinds>>

\* One timed access; the latency depends on where the thread is now.
Access(w) ==
  /\ pc[w] = "loop" /\ ~Last(w)
  /\ kinds' = [kinds EXCEPT ![w] =
                 @ \cup {IF node_of[cpu[w]] = target[w] THEN "local" ELSE "remote"}]
  /\ i' = [i EXCEPT ![w] = @ + 1]
  /\ UNCHANGED <<node_of, main, array, pc, cpu, bound, target, inTime>>

End(w) ==
  /\ pc[w] = "loop" /\ Last(w)
  /\ pc' = [pc EXCEPT ![w] = "ended"]
  /\ UNCHANGED <<node_of, main, array, cpu, bound, target, i, inTime, kinds>>

Worker(w) == AskNode(w) \/ Access(w) \/ End(w)

Migrate(w) ==
  /\ pc[w] \in {"ask", "loop"} /\ ~bound[w]
  /\ \E c \in cpus : cpu' = [cpu EXCEPT ![w] = c]
  /\ UNCHANGED <<node_of, main, array, pc, bound, target, i, inTime, kinds>>

Next == Main \/ \E w \in Workers : Worker(w) \/ Migrate(w)

\* Once it runs, every thread goes on.
Fairness ==
  /\ WF_vars(main # "begin" /\ Main)
  /\ \A w \in Workers : WF_vars(Worker(w))

Spec == Init /\ [][Next]_vars /\ Fairness

-----------------------------------------------------------------------------
TypeOK ==
  /\ node_of \in Machines \cup {<< >>}
  /\ main \in {"begin", "alloc", "bind", "bindRemote", "join", "free", "ended"}
  /\ next \in 0..num_nodes
  /\ buffers \in [Nodes -> {"none", "allocated", "freed"}]
  /\ pc \in [Workers -> {"none", "ask", "loop", "ended"}]
  /\ cpu \in [Workers -> cpus \cup {0}]
  /\ bound \in [Workers -> BOOLEAN] /\ inTime \in [Workers -> BOOLEAN]
  /\ target \in [Workers -> Nodes \cup {0}]
  /\ i \in [Workers -> 0..Iterations]
  /\ kinds \in [Workers -> SUBSET {"local", "remote"}]

(* While a thread has accesses to make, the buffer it reads exists: it is   *)
(* allocated before the threads start and freed after they were joined,     *)
(* wherever the scheduler put them.                                         *)
AccessesAllocated ==
  \A w \in Workers : pc[w] = "loop" =>
    target[w] \in Nodes /\ buffers[target[w]] = "allocated"

(* When the benchmark is over no buffer is left allocated, except after a   *)
(* constructor that threw: the buffers it had allocated before are leaked.  *)
FreedUnlessThrown ==
  main = "ended" =>
    \/ \A n \in Nodes : buffers[n] # "allocated"
    \/ next < num_nodes /\ \A n \in Nodes : buffers[n] = "allocated" <=> n < next

(* "Local Memory Access" times local accesses and "Remote Memory Access"    *)
(* remote ones if each thread is bound before it asks for its node.  The    *)
(* main thread binds them after they were started, so they may be late.     *)
LabelsHoldIfBoundInTime ==
  \A w \in Workers : inTime[w] => kinds[w] \subseteq {w}

\* The benchmark was begun, and has returned.
Started == main # "begin"
Over    == main = "ended"
=============================================================================
