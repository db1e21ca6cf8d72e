--------------------------- MODULE ProgramsProofs ---------------------------
(***************************************************************************)
(* Theorems about the drivers and benchmarks.  Each is about the whole of  *)
(* Programs: its invariant is about the variables of one program, and a    *)
(* step of another program leaves them as they are.                        *)
(***************************************************************************)
EXTENDS Programs, BranchBenchProofs, StatisticsProofs, SumTheorems

-----------------------------------------------------------------------------
(* bench_numa.                                                              *)

\* What is known of a machine: its nodes are those num_nodes counts, and the
\* threads are bound to CPUs it has.
MachineOK ==
  /\ Numa!num_nodes \in Nat /\ Numa!num_nodes > 0
  /\ Numa!Nodes = 0..(Numa!num_nodes - 1)
  /\ 0 \in Numa!cpus
  /\ \A w \in Numa!Workers : Numa!Home(w) \in Numa!cpus
  /\ \A c \in Numa!cpus : node_of[c] \in Numa!Nodes

LEMMA MachineFacts ==
  ASSUME node_of \in Machines
  PROVE  MachineOK
<1>1. PICK total \in Nat \ {0} :
        /\ node_of \in [0..(total - 1) -> Nat]
        /\ \A c \in 0..(total - 1) : node_of[c] < Cardinality({node_of[d] : d \in 0..(total - 1)})
  <2>1. PICK m : m = node_of
    OBVIOUS
  <2>2. PICK D : D = DOMAIN m
    OBVIOUS
  <2>3. PICK I : I = {m[c] : c \in D}
    OBVIOUS
  <2>4. IsFiniteSet(D) /\ D # {} /\ m \in [0..(Cardinality(D) - 1) -> 0..(Cardinality(I) - 1)]
    BY <2>1, <2>2, <2>3, MachineAssumption
  <2>5. Cardinality(D) \in Nat /\ Cardinality(D) # 0
    BY <2>4, FS_CardinalityType, FS_EmptySet
  <2>6. D = 0..(Cardinality(D) - 1)
    BY <2>2, <2>4
  <2>7. m \in Surjection(D, I)
    BY <2>3, <2>4, <2>6 DEF Surjection
  <2>8. Cardinality(I) \in Nat
    BY <2>4, <2>7, FS_Surjection, FS_CardinalityType
  <2>9. \A c \in D : m[c] \in Nat /\ m[c] < Cardinality(I)
    <3>1. PICK k \in Nat : k = Cardinality(I)
      BY <2>8
    <3>2. \A c \in D : m[c] \in 0..(k - 1)
      BY <2>4, <2>6, <3>1
    <3>3. QED
      BY <3>1, <3>2
  <2>10. QED
    BY <2>1, <2>3, <2>4, <2>5, <2>6, <2>9
<1>2. Numa!cpus = 0..(total - 1)
  BY <1>1 DEF Numa!cpus
<1>3. IsFiniteSet(0..(total - 1)) /\ Cardinality(0..(total - 1)) = total
  <2>1. 0 \in Int /\ total - 1 \in Int /\ ~(0 > total - 1) /\ (total - 1) - 0 + 1 = total
    OBVIOUS
  <2>2. QED
    BY <2>1, FS_Interval
<1>4. \A S : Numa!Cardinality(S) = Cardinality(S)
  BY DEF Numa!Cardinality, Cardinality
<1>5. PICK I : I = {node_of[d] : d \in 0..(total - 1)}
  OBVIOUS
<1>6. Numa!num_nodes = Cardinality(I)
  BY <1>2, <1>4, <1>5 DEF Numa!num_nodes
<1>7. IsFiniteSet(I)
  <2>1. PICK m : m = node_of
    OBVIOUS
  <2>2. m \in Surjection(0..(total - 1), I)
    BY <1>1, <1>5, <2>1 DEF Surjection
  <2>3. QED
    BY <1>3, <2>2, FS_Surjection
<1>8. Cardinality(I) \in Nat
  BY <1>7, FS_CardinalityType
<1>9. 0 \in 0..(total - 1) /\ \A c \in 0..(total - 1) : node_of[c] \in Nat /\ node_of[c] < Cardinality(I)
  BY <1>1, <1>5
<1>10. Numa!num_nodes \in Nat /\ Numa!num_nodes > 0
  BY <1>6, <1>8, <1>9
<1>11. \A c \in Numa!cpus : node_of[c] \in Numa!Nodes
  BY <1>2, <1>6, <1>8, <1>9 DEF Numa!Nodes
<1>12. \A w \in Numa!Workers : Numa!Home(w) \in Numa!cpus
  <2>1. Numa!Cardinality(Numa!cpus) = total
    BY <1>2, <1>3, <1>4
  <2>2. total \div 2 \in 0..(total - 1)
    OBVIOUS
  <2>3. QED
    BY <1>2, <1>9, <2>1, <2>2 DEF Numa!Home, Numa!Workers
<1>13. QED
  BY <1>2, <1>9, <1>10, <1>11, <1>12 DEF MachineOK, Numa!Nodes

LEMMA NextMachineFacts == (node_of \in Machines => MachineOK)'
<1>1. node_of \in Machines => MachineOK
  BY MachineFacts
<1>2. QED
  BY <1>1, PTL

MainInv ==
  /\ IF main = "begin" THEN node_of = << >> ELSE node_of \in Machines
  /\ main \notin {"begin", "ended"} => Numa!num_nodes >= 2
  /\ main = "begin" => next = 0

BuffersInv ==
  /\ main = "alloc" =>
       \A node \in Numa!Nodes : buffers[node] = IF node < next THEN "allocated" ELSE "none"
  /\ main \in {"bind", "bindRemote", "join"} => \A node \in Numa!Nodes : buffers[node] = "allocated"
  /\ main = "free" =>
       \A node \in Numa!Nodes : buffers[node] = IF node < next THEN "freed" ELSE "allocated"
  /\ Numa!FreedUnlessThrown

WorkerInv(w) ==
  /\ main = "begin" \/ (main = "alloc" /\ (next < Numa!num_nodes \/ w = "remote")) =>
       worker_pc[w] = "none"
  /\ main \in {"bind", "bindRemote", "join"} => worker_pc[w] # "none"
  /\ main \in {"free", "ended"} => worker_pc[w] \in {"none", "ended"}
  /\ IF worker_pc[w] = "none" THEN worker_cpu[w] = 0 /\ target[w] = 0
     ELSE worker_cpu[w] \in Numa!cpus
  /\ worker_pc[w] \in {"loop", "ended"} => target[w] \in Numa!Nodes
  /\ bound[w] => main \notin {"begin", "alloc", "bind"} /\ (w = "remote" => main # "bindRemote")
  /\ worker_pc[w] \in {"none", "ask"} => kinds[w] = {} /\ ~inTime[w]
  /\ inTime[w] => /\ bound[w] /\ kinds[w] \subseteq {w}
                  /\ target[w] = Numa!Chosen(w, node_of[worker_cpu[w]])

NumaInv ==
  /\ Numa!TypeOK
  /\ MainInv
  /\ BuffersInv
  /\ \A w \in Numa!Workers : WorkerInv(w)

\* While the machine is the same, so are the numbers derived from it.
LEMMA SameMachine ==
  ASSUME node_of' = node_of
  PROVE  /\ Numa!num_nodes' = Numa!num_nodes /\ Numa!Nodes' = Numa!Nodes
         /\ Numa!cpus' = Numa!cpus
         /\ \A w, node : Numa!Chosen(w, node)' = Numa!Chosen(w, node)
         /\ \A w : Numa!Home(w)' = Numa!Home(w)
<1>1. Numa!cpus' = Numa!cpus
  BY DEF Numa!cpus
<1>2. Numa!num_nodes' = Numa!num_nodes
  BY <1>1 DEF Numa!num_nodes
<1>3. QED
  BY <1>1, <1>2 DEF Numa!Nodes, Numa!Chosen, Numa!Home

\* The thread that wants a remote buffer gets one of another node.
LEMMA NextNode ==
  ASSUME NEW N \in Nat, N > 0, NEW node \in 0..(N - 1)
  PROVE  (node + 1) % N \in 0..(N - 1) /\ (N >= 2 => (node + 1) % N # node)
<1>1. CASE node + 1 < N
  <2>1. (node + 1) % N = node + 1
    BY <1>1
  <2>2. QED
    BY <1>1, <2>1
<1>2. CASE node + 1 = N
  <2>1. (node + 1) % N = 0
    BY <1>2
  <2>2. QED
    BY <1>2, <2>1
<1>3. QED
  BY <1>1, <1>2

LEMMA NumaInitInv == Numa!Init => NumaInv
<1> SUFFICES ASSUME Numa!Init PROVE NumaInv
  OBVIOUS
<1>1. /\ node_of = << >> /\ main = "begin" /\ next = 0 /\ buffers = << >>
      /\ worker_pc = [w \in Numa!Workers |-> "none"] /\ worker_cpu = [w \in Numa!Workers |-> 0]
      /\ bound = [w \in Numa!Workers |-> FALSE] /\ target = [w \in Numa!Workers |-> 0]
      /\ worker_i = [w \in Numa!Workers |-> 0] /\ inTime = [w \in Numa!Workers |-> FALSE]
      /\ kinds = [w \in Numa!Workers |-> {}]
  BY DEF Numa!Init, Numa!Workers
<1>2. Numa!num_nodes = 0
  <2>1. \A S : Numa!Cardinality(S) = Cardinality(S)
    BY DEF Numa!Cardinality, Cardinality
  <2>2. {node_of[c] : c \in DOMAIN node_of} = {}
    BY <1>1
  <2>3. QED
    BY <2>1, <2>2, FS_EmptySet DEF Numa!num_nodes, Numa!cpus
<1>3. Numa!Nodes = {}
  BY <1>2 DEF Numa!Nodes
<1>4. buffers \in [Numa!Nodes -> {"none", "allocated", "freed"}]
  BY <1>1, <1>3
<1>5. Numa!TypeOK
  BY <1>1, <1>2, <1>4, NumaIterationsAssumption DEF Numa!TypeOK, Numa!Workers
<1>6. MainInv /\ BuffersInv
  BY <1>1 DEF MainInv, BuffersInv, Numa!FreedUnlessThrown
<1>7. \A w \in Numa!Workers : WorkerInv(w)
  BY <1>1 DEF WorkerInv
<1>8. QED
  BY <1>5, <1>6, <1>7 DEF NumaInv

\* The steps of the main thread.
LEMMA NumaBeginInv ==
  ASSUME NumaInv, Numa!Begin
  PROVE  NumaInv'
<1>1. /\ main = "begin" /\ next = 0 /\ next' = 0 /\ main' \in {"ended", "alloc"}
      /\ node_of' \in Machines
      /\ main' = "alloc" => ~(Numa!num_nodes' < 2)
      /\ buffers' = [m \in Numa!Nodes' |-> "none"]
      /\ UNCHANGED <<worker_pc, worker_cpu, bound, target, worker_i, inTime, kinds>>
  BY DEF NumaInv, MainInv, Numa!Begin, Numa!work
<1>2. MachineOK'
  BY <1>1, NextMachineFacts
<1>3. \A w \in Numa!Workers : /\ worker_pc[w] = "none" /\ worker_cpu[w] = 0 /\ target[w] = 0
                              /\ ~bound[w] /\ ~inTime[w] /\ kinds[w] = {}
  BY <1>1 DEF NumaInv, WorkerInv
<1>4. Numa!TypeOK'
  <2>1. /\ worker_cpu = [w \in Numa!Workers |-> 0] /\ target = [w \in Numa!Workers |-> 0]
    BY <1>3 DEF NumaInv, Numa!TypeOK
  <2>2. /\ worker_cpu' \in [Numa!Workers -> (Numa!cpus \cup {0})']
        /\ target' \in [Numa!Workers -> (Numa!Nodes \cup {0})']
    BY <1>1, <2>1
  <2>3. buffers' \in [Numa!Nodes' -> {"none", "allocated", "freed"}]
    BY <1>1
  <2>4. next' \in 0..Numa!num_nodes'
    BY <1>1, <1>2 DEF MachineOK
  <2>5. main' \in {"begin", "alloc", "bind", "bindRemote", "join", "free", "ended"}
    BY <1>1
  <2>6. QED
    BY <1>1, <2>2, <2>3, <2>4, <2>5 DEF NumaInv, Numa!TypeOK
<1>5. MainInv'
  BY <1>1, <1>2 DEF MainInv, MachineOK
<1>6. BuffersInv'
  <2>1. \A m \in Numa!Nodes' : buffers'[m] = "none" /\ ~(m < next')
    BY <1>1, <1>2 DEF MachineOK
  <2>2. QED
    BY <1>1, <2>1 DEF BuffersInv, Numa!FreedUnlessThrown
<1>7. \A w \in Numa!Workers : WorkerInv(w)'
  BY <1>1, <1>3 DEF WorkerInv
<1>8. QED
  BY <1>4, <1>5, <1>6, <1>7 DEF NumaInv

\* It goes on with the array, and the threads do nothing.
LEMMA NumaArrayInv ==
  ASSUME NumaInv,
         Numa!Allocate \/ Numa!AllocateFails \/ Numa!Join \/ Numa!Free \/ Numa!Return
  PROVE  NumaInv'
<1>1. /\ node_of' = node_of /\ main # "begin" /\ main' \notin {"begin", "bind", "bindRemote", "join"}
      /\ UNCHANGED <<worker_pc, worker_cpu, bound, target, worker_i, inTime, kinds>>
  BY DEF Numa!Allocate, Numa!AllocateFails, Numa!Join, Numa!Free, Numa!Return, Numa!work, Numa!array
<1>2. MachineOK /\ node_of \in Machines
  BY <1>1, MachineFacts DEF NumaInv, MainInv
<1>3. /\ Numa!num_nodes' = Numa!num_nodes /\ Numa!Nodes' = Numa!Nodes /\ Numa!cpus' = Numa!cpus
      /\ \A w, node : Numa!Chosen(w, node)' = Numa!Chosen(w, node)
  BY <1>1, SameMachine
<1>4. /\ next \in 0..Numa!num_nodes
      /\ buffers \in [Numa!Nodes -> {"none", "allocated", "freed"}]
      /\ Numa!num_nodes \in Nat /\ Numa!Nodes = 0..(Numa!num_nodes - 1)
  BY <1>2 DEF NumaInv, Numa!TypeOK, MachineOK
<1>5. /\ next' \in 0..Numa!num_nodes
      /\ buffers' \in [Numa!Nodes -> {"none", "allocated", "freed"}]
      /\ main' \in {"alloc", "free", "ended"}
      /\ BuffersInv'
  <2>1. CASE Numa!Allocate
    BY <1>3, <1>4, <2>1 DEF NumaInv, BuffersInv, Numa!Allocate, Numa!FreedUnlessThrown
  <2>2. CASE Numa!AllocateFails
    BY <1>3, <1>4, <2>2 DEF NumaInv, BuffersInv, Numa!AllocateFails, Numa!FreedUnlessThrown, Numa!array
  <2>3. CASE Numa!Join
    BY <1>3, <1>4, <2>3 DEF NumaInv, BuffersInv, Numa!Join, Numa!FreedUnlessThrown
  <2>4. CASE Numa!Free
    BY <1>3, <1>4, <2>4 DEF NumaInv, BuffersInv, Numa!Free, Numa!FreeAll, Numa!FreedUnlessThrown
  <2>5. CASE Numa!Return
    BY <1>3, <1>4, <2>5 DEF NumaInv, BuffersInv, Numa!Return, Numa!FreeAll, Numa!FreedUnlessThrown, Numa!array
  <2>6. QED
    BY <2>1, <2>2, <2>3, <2>4, <2>5
<1>6. Numa!TypeOK'
  BY <1>1, <1>3, <1>5 DEF NumaInv, Numa!TypeOK
<1>7. MainInv'
  BY <1>1, <1>2, <1>3, <1>5
     DEF NumaInv, MainInv, Numa!Allocate, Numa!AllocateFails, Numa!Join, Numa!Free, Numa!Return
<1>8. ASSUME NEW w \in Numa!Workers PROVE WorkerInv(w)'
  <2>1. /\ main' = "alloc" => main = "alloc" /\ next < Numa!num_nodes
        /\ main' \in {"free", "ended"} =>
             worker_pc[w] = "ended" \/ main = "free" \/ (main = "alloc" /\ next < Numa!num_nodes)
    BY DEF Numa!Allocate, Numa!AllocateFails, Numa!Join, Numa!Free, Numa!Return, Numa!Joined
  <2>2. main = "alloc" => ~bound[w]
    BY DEF NumaInv, WorkerInv
  <2>3. WorkerInv(w)
    BY DEF NumaInv
  <2>4. QED
    BY <1>1, <1>3, <1>5, <2>1, <2>2, <2>3 DEF WorkerInv
<1>9. QED
  BY <1>5, <1>6, <1>7, <1>8 DEF NumaInv

\* A step that leaves the array alone: what remains to be shown of it.
LEMMA NumaThreadStep ==
  ASSUME NumaInv, main # "begin", UNCHANGED <<node_of, next, buffers>>,
         \/ main' = main
         \/ main = "alloc" /\ next = Numa!num_nodes /\ main' = "bind"
         \/ main = "bind" /\ main' = "bindRemote"
         \/ main = "bindRemote" /\ main' = "join",
         worker_pc' \in [Numa!Workers -> {"none", "ask", "loop", "ended"}],
         worker_cpu' \in [Numa!Workers -> Numa!cpus \cup {0}],
         bound' \in [Numa!Workers -> BOOLEAN], inTime' \in [Numa!Workers -> BOOLEAN],
         target' \in [Numa!Workers -> Numa!Nodes \cup {0}],
         worker_i' \in [Numa!Workers -> 0..NumaIterations],
         kinds' \in [Numa!Workers -> SUBSET {"local", "remote"}],
         \A w \in Numa!Workers : WorkerInv(w)'
  PROVE  NumaInv'
<1>1. MachineOK /\ node_of \in Machines /\ Numa!TypeOK /\ MainInv /\ BuffersInv
  BY MachineFacts DEF NumaInv, MainInv
<1>2. Numa!num_nodes' = Numa!num_nodes /\ Numa!Nodes' = Numa!Nodes /\ Numa!cpus' = Numa!cpus
  BY SameMachine
<1>3. Numa!TypeOK'
  BY <1>1, <1>2 DEF Numa!TypeOK
<1>4. MainInv'
  BY <1>1, <1>2 DEF MainInv
<1>5. BuffersInv'
  BY <1>1, <1>2 DEF BuffersInv, Numa!FreedUnlessThrown, MachineOK
<1>6. QED
  BY <1>3, <1>4, <1>5 DEF NumaInv

LEMMA NumaSpawnInv ==
  ASSUME NumaInv, Numa!Spawn
  PROVE  NumaInv'
<1>1. PICK v \in Numa!Workers, c \in Numa!cpus :
        /\ worker_pc[v] = "none" /\ (v = "remote" => worker_pc["local"] # "none")
        /\ worker_pc' = [worker_pc EXCEPT ![v] = "ask"]
        /\ worker_cpu' = [worker_cpu EXCEPT ![v] = c]
        /\ main' = IF v = "remote" THEN "bind" ELSE main
  BY DEF Numa!Spawn
<1>2. /\ main = "alloc" /\ next = Numa!num_nodes
      /\ UNCHANGED <<node_of, next, buffers>>
      /\ UNCHANGED <<bound, target, worker_i, inTime, kinds>>
  BY DEF Numa!Spawn, Numa!array
<1>3. MachineOK /\ Numa!TypeOK
  BY <1>2, MachineFacts DEF NumaInv, MainInv
<1>4. /\ Numa!num_nodes' = Numa!num_nodes /\ Numa!Nodes' = Numa!Nodes /\ Numa!cpus' = Numa!cpus
      /\ \A w, node : Numa!Chosen(w, node)' = Numa!Chosen(w, node)
      /\ Numa!num_nodes \in Nat
  BY <1>2, <1>3, SameMachine DEF MachineOK
<1>5. ASSUME NEW w \in Numa!Workers PROVE WorkerInv(w)'
  <2>1. WorkerInv(w) /\ WorkerInv("local")
    BY DEF NumaInv, Numa!Workers
  <2>2. ~bound[w] /\ ~inTime[w] /\ (w # v => worker_pc'[w] = worker_pc[w] /\ worker_cpu'[w] = worker_cpu[w])
    BY <1>1, <1>2, <1>3, <2>1 DEF WorkerInv, Numa!TypeOK
  <2>3. worker_pc'[v] = "ask" /\ worker_cpu'[v] \in Numa!cpus
    BY <1>1, <1>3 DEF Numa!TypeOK
  <2>4. (v = "local" \/ v = "remote") /\ (w = "local" \/ w = "remote")
    BY DEF Numa!Workers
  <2>5. CASE w = v
    BY <1>1, <1>2, <1>4, <2>1, <2>2, <2>3, <2>4, <2>5 DEF WorkerInv
  <2>6. CASE w # v
    BY <1>1, <1>2, <1>4, <2>1, <2>2, <2>4, <2>6 DEF WorkerInv
  <2>7. QED
    BY <2>5, <2>6
<1>6. /\ worker_pc' \in [Numa!Workers -> {"none", "ask", "loop", "ended"}]
      /\ worker_cpu' \in [Numa!Workers -> Numa!cpus \cup {0}]
  BY <1>1, <1>3 DEF Numa!TypeOK
<1>7. QED
  BY <1>1, <1>2, <1>3, <1>5, <1>6, NumaThreadStep DEF Numa!TypeOK

LEMMA NumaBindInv ==
  ASSUME NumaInv, NEW v \in Numa!Workers, NEW success \in BOOLEAN, Numa!Bind(v, success)
  PROVE  NumaInv'
<1>1. /\ main = IF v = "local" THEN "bind" ELSE "bindRemote"
      /\ main' = IF v = "local" THEN "bindRemote" ELSE "join"
      /\ bound' = [bound EXCEPT ![v] = success]
      /\ worker_cpu' = IF success THEN [worker_cpu EXCEPT ![v] = Numa!Home(v)] ELSE worker_cpu
      /\ UNCHANGED <<node_of, next, buffers>>
      /\ UNCHANGED <<worker_pc, target, worker_i, inTime, kinds>>
  BY DEF Numa!Bind, Numa!array
<1>2. MachineOK /\ Numa!TypeOK
  BY <1>1, MachineFacts DEF NumaInv, MainInv
<1>3. /\ Numa!num_nodes' = Numa!num_nodes /\ Numa!Nodes' = Numa!Nodes /\ Numa!cpus' = Numa!cpus
      /\ \A w, node : Numa!Chosen(w, node)' = Numa!Chosen(w, node)
      /\ Numa!Home(v) \in Numa!cpus
  BY <1>1, <1>2, SameMachine DEF MachineOK
<1>4. v = "local" \/ v = "remote"
  BY DEF Numa!Workers
<1>5. ASSUME NEW w \in Numa!Workers PROVE WorkerInv(w)'
  <2>1. WorkerInv(w) /\ (w = "local" \/ w = "remote")
    BY DEF NumaInv, Numa!Workers
  <2>2. CASE w = v
    <3>1. ~bound[w] /\ ~inTime[w]
      BY <1>1, <1>4, <2>1, <2>2 DEF WorkerInv
    <3>2. worker_pc[w] # "none"
      BY <1>1, <2>1, <2>2 DEF WorkerInv
    <3>3. QED
      BY <1>1, <1>2, <1>3, <1>4, <2>1, <2>2, <3>1, <3>2 DEF WorkerInv, Numa!TypeOK
  <2>3. CASE w # v
    BY <1>1, <1>2, <1>3, <1>4, <2>1, <2>3 DEF WorkerInv, Numa!TypeOK
  <2>4. QED
    BY <2>2, <2>3
<1>6. /\ worker_cpu' \in [Numa!Workers -> Numa!cpus \cup {0}]
      /\ bound' \in [Numa!Workers -> BOOLEAN]
  BY <1>1, <1>2, <1>3 DEF Numa!TypeOK
<1>7. QED
  BY <1>1, <1>2, <1>4, <1>5, <1>6, NumaThreadStep DEF Numa!TypeOK

\* The steps of a thread, and of the scheduler.
LEMMA NumaWorkerInv ==
  ASSUME NumaInv, NEW v \in Numa!Workers, Numa!Worker(v) \/ Numa!Migrate(v)
  PROVE  NumaInv'
<1>1. /\ worker_pc[v] \in {"ask", "loop"}
      /\ UNCHANGED <<node_of, main, next, buffers>> /\ bound' = bound
  BY DEF Numa!Worker, Numa!AskNode, Numa!Access, Numa!End, Numa!Migrate, Numa!array
<1>2. main \notin {"begin", "free", "ended"} /\ main \in {"alloc", "bind", "bindRemote", "join"}
  BY <1>1 DEF NumaInv, WorkerInv, Numa!TypeOK
<1>3. MachineOK /\ Numa!TypeOK /\ MainInv
  BY <1>2, MachineFacts DEF NumaInv, MainInv
<1>4. /\ Numa!num_nodes' = Numa!num_nodes /\ Numa!Nodes' = Numa!Nodes /\ Numa!cpus' = Numa!cpus
      /\ \A w, node : Numa!Chosen(w, node)' = Numa!Chosen(w, node)
  BY <1>1, SameMachine
<1>5. WorkerInv(v) /\ (v = "local" \/ v = "remote")
  BY DEF NumaInv, Numa!Workers
<1>6. /\ worker_cpu[v] \in Numa!cpus /\ node_of[worker_cpu[v]] \in Numa!Nodes
      /\ Numa!num_nodes \in Nat /\ Numa!num_nodes >= 2
      /\ Numa!Nodes = 0..(Numa!num_nodes - 1)
  BY <1>1, <1>2, <1>3, <1>5 DEF WorkerInv, MachineOK, MainInv
<1>7. /\ worker_pc' \in [Numa!Workers -> {"none", "ask", "loop", "ended"}]
      /\ worker_cpu' \in [Numa!Workers -> Numa!cpus \cup {0}]
      /\ inTime' \in [Numa!Workers -> BOOLEAN]
      /\ target' \in [Numa!Workers -> Numa!Nodes \cup {0}]
      /\ worker_i' \in [Numa!Workers -> 0..NumaIterations]
      /\ kinds' \in [Numa!Workers -> SUBSET {"local", "remote"}]
      /\ \A w \in Numa!Workers : w # v =>
           /\ worker_pc'[w] = worker_pc[w] /\ worker_cpu'[w] = worker_cpu[w]
           /\ inTime'[w] = inTime[w] /\ target'[w] = target[w] /\ kinds'[w] = kinds[w]
      /\ WorkerInv(v)'
  <2>1. CASE Numa!AskNode(v)
    <3>1. PICK t : t = Numa!Chosen(v, node_of[worker_cpu[v]])
      OBVIOUS
    <3>2. t \in Numa!Nodes
      BY <1>5, <1>6, <3>1, NextNode DEF Numa!Chosen
    <3>3. /\ worker_pc[v] = "ask" /\ worker_pc' = [worker_pc EXCEPT ![v] = "loop"]
          /\ target' = [target EXCEPT ![v] = t] /\ inTime' = [inTime EXCEPT ![v] = bound[v]]
          /\ UNCHANGED <<worker_cpu, worker_i, kinds>>
      BY <2>1, <3>1 DEF Numa!AskNode
    <3>4. kinds[v] = {}
      BY <1>5, <3>3 DEF WorkerInv
    <3>5. worker_pc'[v] = "loop" /\ target'[v] = t /\ inTime'[v] = bound[v]
      BY <1>3, <3>3 DEF Numa!TypeOK
    <3>6. WorkerInv(v)'
      BY <1>1, <1>2, <1>4, <1>5, <1>6, <3>1, <3>2, <3>3, <3>4, <3>5 DEF WorkerInv
    <3>7. QED
      BY <1>3, <3>2, <3>3, <3>6 DEF Numa!TypeOK
  <2>2. CASE Numa!Access(v)
    <3>1. PICK k : k = IF node_of[worker_cpu[v]] = target[v] THEN "local" ELSE "remote"
      OBVIOUS
    <3>2. /\ worker_pc[v] = "loop" /\ worker_i[v] # NumaIterations
          /\ kinds' = [kinds EXCEPT ![v] = @ \cup {k}]
          /\ worker_i' = [worker_i EXCEPT ![v] = @ + 1]
          /\ UNCHANGED <<worker_pc, worker_cpu, target, inTime>>
      BY <2>2, <3>1 DEF Numa!Access, Numa!Last
    <3>3. inTime[v] => k = v
      <4>1. ASSUME inTime[v]
            PROVE  target[v] = Numa!Chosen(v, node_of[worker_cpu[v]])
        BY <1>5, <4>1 DEF WorkerInv
      <4>2. v = "remote" => Numa!Chosen(v, node_of[worker_cpu[v]]) # node_of[worker_cpu[v]]
        BY <1>6, NextNode DEF Numa!Chosen
      <4>3. QED
        BY <1>5, <3>1, <4>1, <4>2 DEF Numa!Chosen
    <3>4. kinds'[v] = kinds[v] \cup {k}
      BY <1>3, <3>2 DEF Numa!TypeOK
    <3>5. WorkerInv(v)'
      BY <1>1, <1>2, <1>4, <1>5, <3>2, <3>3, <3>4 DEF WorkerInv
    <3>6. QED
      BY <1>3, <3>1, <3>2, <3>5, NumaIterationsAssumption DEF Numa!TypeOK
  <2>3. CASE Numa!End(v)
    <3>1. /\ worker_pc[v] = "loop" /\ worker_pc' = [worker_pc EXCEPT ![v] = "ended"]
          /\ UNCHANGED <<worker_cpu, target, worker_i, inTime, kinds>>
      BY <2>3 DEF Numa!End
    <3>2. worker_pc'[v] = "ended"
      BY <1>3, <3>1 DEF Numa!TypeOK
    <3>3. WorkerInv(v)'
      BY <1>1, <1>2, <1>4, <1>5, <3>1, <3>2 DEF WorkerInv
    <3>4. QED
      BY <1>3, <3>1, <3>3 DEF Numa!TypeOK
  <2>4. CASE Numa!Migrate(v)
    <3>1. PICK c \in Numa!cpus : worker_cpu' = [worker_cpu EXCEPT ![v] = c]
      BY <2>4 DEF Numa!Migrate
    <3>2. ~bound[v] /\ UNCHANGED <<worker_pc, target, worker_i, inTime, kinds>>
      BY <2>4 DEF Numa!Migrate
    <3>3. worker_cpu'[v] = c /\ ~inTime[v]
      BY <1>3, <1>5, <3>1, <3>2 DEF Numa!TypeOK, WorkerInv
    <3>4. WorkerInv(v)'
      BY <1>1, <1>2, <1>4, <1>5, <3>1, <3>2, <3>3 DEF WorkerInv
    <3>5. QED
      BY <1>3, <3>1, <3>2, <3>4 DEF Numa!TypeOK
  <2>5. QED
    BY <2>1, <2>2, <2>3, <2>4 DEF Numa!Worker
<1>8. ASSUME NEW w \in Numa!Workers PROVE WorkerInv(w)'
  <2>1. CASE w = v
    BY <1>7, <2>1
  <2>2. CASE w # v
    <3>1. WorkerInv(w)
      BY DEF NumaInv
    <3>2. QED
      BY <1>1, <1>4, <1>7, <2>2, <3>1 DEF WorkerInv
  <2>3. QED
    BY <2>1, <2>2
<1>9. bound' \in [Numa!Workers -> BOOLEAN]
  BY <1>1, <1>3 DEF Numa!TypeOK
<1>10. QED
  BY <1>1, <1>2, <1>7, <1>8, <1>9, NumaThreadStep

LEMMA NumaNextInv ==
  ASSUME NumaInv, [Numa!Next]_numaVars
  PROVE  NumaInv'
<1>1. CASE Numa!Main
  BY <1>1, NumaBeginInv, NumaArrayInv, NumaSpawnInv, NumaBindInv DEF Numa!Main
<1>2. CASE \E w \in Numa!Workers : Numa!Worker(w) \/ Numa!Migrate(w)
  BY <1>2, NumaWorkerInv
<1>3. CASE UNCHANGED numaVars
  <2>1. UNCHANGED <<node_of, main, next, buffers, worker_pc, worker_cpu, bound, target,
                    worker_i, inTime, kinds>>
    BY <1>3 DEF numaVars
  <2>2. /\ Numa!num_nodes' = Numa!num_nodes /\ Numa!Nodes' = Numa!Nodes /\ Numa!cpus' = Numa!cpus
        /\ \A w, node : Numa!Chosen(w, node)' = Numa!Chosen(w, node)
    BY <2>1, SameMachine
  <2>3. QED
    BY <2>1, <2>2 DEF NumaInv, Numa!TypeOK, MainInv, BuffersInv, Numa!FreedUnlessThrown, WorkerInv
<1>4. QED
  BY <1>1, <1>2, <1>3 DEF Numa!Next

LEMMA NumaInvariance == ProgramsSpec => []NumaInv
<1>1. ProgramsInit => NumaInv
  BY NumaInitInv DEF ProgramsInit
<1>2. [ProgramsNext]_ProgramsVars => [Numa!Next]_numaVars
  BY DEF ProgramsNext, ProgramsVars
<1>3. NumaInv /\ [ProgramsNext]_ProgramsVars => NumaInv'
  BY <1>2, NumaNextInv
<1>4. QED
  BY <1>1, <1>3, PTL DEF ProgramsSpec

(* On every machine whose nodes are numbered as the code expects, and       *)
(* however the scheduler moves the two threads, a thread of bench_numa      *)
(* reads a buffer that exists: the main thread frees them after the join.   *)
THEOREM BuffersOutliveThreads == ProgramsSpec => []AccessesAllocated
<1>1. NumaInv => AccessesAllocated
  <2> SUFFICES ASSUME NumaInv, NEW w \in Numa!Workers, worker_pc[w] = "loop"
               PROVE  target[w] \in Numa!Nodes /\ buffers[target[w]] = "allocated"
    BY DEF AccessesAllocated, Numa!AccessesAllocated
  <2>1. WorkerInv(w)
    BY DEF NumaInv
  <2>2. target[w] \in Numa!Nodes
    BY <2>1 DEF WorkerInv
  <2>3. /\ main \in {"alloc", "bind", "bindRemote", "join"}
        /\ main = "alloc" => ~(next < Numa!num_nodes)
    BY <2>1 DEF NumaInv, Numa!TypeOK, WorkerInv
  <2>4. main # "begin" /\ node_of \in Machines
    BY <2>3 DEF NumaInv, MainInv
  <2>5. MachineOK /\ next \in 0..Numa!num_nodes
    BY <2>4, MachineFacts DEF NumaInv, Numa!TypeOK
  <2>6. main = "alloc" => target[w] < next
    BY <2>2, <2>3, <2>5 DEF MachineOK
  <2>7. QED
    BY <2>2, <2>3, <2>6 DEF NumaInv, BuffersInv
<1>2. QED
  BY <1>1, NumaInvariance, PTL

(* When bench_numa is over, only a constructor that threw has left buffers  *)
(* allocated.                                                               *)
THEOREM OnlyThrowingLeaks == ProgramsSpec => []FreedUnlessThrown
<1>1. NumaInv => FreedUnlessThrown
  BY DEF NumaInv, BuffersInv, FreedUnlessThrown
<1>2. QED
  BY <1>1, NumaInvariance, PTL

(* A thread that was bound before it asked for its node has timed accesses  *)
(* of the kind its report names, and no others.                             *)
THEOREM LabelsHold == ProgramsSpec => []LabelsHoldIfBoundInTime
<1>1. NumaInv => LabelsHoldIfBoundInTime
  BY DEF NumaInv, WorkerInv, LabelsHoldIfBoundInTime, Numa!LabelsHoldIfBoundInTime
<1>2. QED
  BY <1>1, NumaInvariance, PTL
-----------------------------------------------------------------------------
(* The drivers.                                                             *)

Members(s) == IF s = "push" THEN Producers ELSE Consumers

\* The calls of each thread that were recorded, and those that were counted:
\* all, but for the one it is busy with.
Recorded == [t \in Drv!Threads |->
               IF thread_pc[t] \in {"record", "recordEnd"} THEN ops[t] - 1 ELSE ops[t]]
Done     == [t \in Drv!Threads |->
               IF thread_pc[t] \in {"record", "recordEnd", "count", "countStore"}
               THEN ops[t] - 1 ELSE ops[t]]

TotalOf(f, s) == SumFunctionOnSet(f, Members(s))

\* Only one thread of each kind.
Lone == driver.threads = {LoneProducer, LoneConsumer}

\* What a thread has done at each point of its loop.
ProgressInv(t) ==
  /\ thread_pc[t] = "new" <=> driver = Drv!NoDriver
  /\ t \notin driver.threads => ops[t] = 0 /\ thread_pc[t] \in {"new", "ended"}
  /\ thread_pc[t] \in {"record", "recordEnd", "count", "countStore"} => ops[t] > 0
  /\ t \in Producers \/ driver.until = "quota" =>
       ops[t] <= Quota /\ (thread_pc[t] = "call" => ops[t] < Quota)
  /\ thread_pc[t] = "ended" /\ t \in driver.threads
       /\ (t \in Producers \/ driver.until # "counter") => ops[t] >= Quota

\* What it has read of the book it is about to write.
BookInv(t) ==
  /\ thread_pc[t] \notin {"recordEnd", "countStore"} => reg[t] = 0
  /\ thread_pc[t] \in {"record", "recordEnd"} => driver.records
  /\ thread_pc[t] = "recordEnd" =>
       /\ reg[t] <= TotalOf(Recorded, Drv!Side(t))
       /\ Lone => reg[t] = samples[Drv!Side(t)]
  /\ thread_pc[t] \in {"count", "countStore"} => Drv!Side(t) \in driver.counts
  /\ thread_pc[t] = "countStore" =>
       ~driver.atomic /\ reg[t] <= TotalOf(Done, Drv!Side(t))

\* Nothing is lost in a channel that did not go wrong; the books never run
\* ahead of the calls.
TotalsInv ==
  /\ lapses = 0 => items + TotalOf(ops, "pop") = TotalOf(ops, "push")
  /\ \A s \in Drv!Sides :
       /\ counted[s] <= TotalOf(Done, s)
       /\ s \in driver.counts /\ driver.atomic => counted[s] = TotalOf(Done, s)
       /\ samples[s] <= TotalOf(Recorded, s)
       /\ Lone /\ driver.records => samples[s] = TotalOf(Recorded, s)
  /\ finished = Cardinality({p \in Producers \cap driver.threads : thread_pc[p] = "ended"})

\* When a consumer has left a loop that counts, all is popped and counted.
CounterInv ==
  lapses = 0 /\ driver.until = "counter" /\ (\E c \in Consumers : thread_pc[c] = "ended") =>
    counted["pop"] = Drv!Expected

DriversTypes ==
  /\ driver \in Drv!DriverSet \cup {Drv!NoDriver}
  /\ thread_pc \in [Drv!Threads -> {"new", "check", "call", "record", "recordEnd",
                                    "count", "countStore", "ended"}]
  /\ ops \in [Drv!Threads -> Nat] /\ items \in 0..driver.capacity
  /\ lapses \in IF driver.reliable THEN {0} ELSE 0..MaxLapses
  /\ counted \in [Drv!Sides -> Nat] /\ samples \in [Drv!Sides -> Nat]
  /\ reg \in [Drv!Threads -> Nat] /\ crashed \in BOOLEAN

DriversInv ==
  /\ DriversTypes
  /\ \A t \in Drv!Threads : ProgressInv(t) /\ BookInv(t)
  /\ TotalsInv
  /\ CounterInv

LEMMA DriversLibrary ==
  /\ \A f, S : Drv!SumFunctionOnSet(f, S) = SumFunctionOnSet(f, S)
  /\ \A S : Drv!Cardinality(S) = Cardinality(S)
<1>1. \A f, S : Drv!SumFunctionOnSet(f, S) = SumFunctionOnSet(f, S)
  BY Zenon DEF Drv!SumFunctionOnSet, SumFunctionOnSet, Drv!FoldFunctionOnSet,
     FoldFunctionOnSet, Drv!MapThenFoldSet, MapThenFoldSet
<1>2. \A S : Drv!Cardinality(S) = Cardinality(S)
  BY DEF Drv!Cardinality, Cardinality
<1>3. QED
  BY <1>1, <1>2

LEMMA TotalsAreSums == \A s \in Drv!Sides : Drv!Total(s) = TotalOf(ops, s)
  BY DriversLibrary DEF Drv!Total, TotalOf, Members

LEMMA SideFacts ==
  /\ \A s \in Drv!Sides : IsFiniteSet(Members(s)) /\ Members(s) \subseteq Drv!Threads
  /\ \A t \in Drv!Threads :
       /\ Drv!Side(t) \in Drv!Sides
       /\ \A s \in Drv!Sides : t \in Members(s) <=> s = Drv!Side(t)
  BY DriversAssumption DEF Drv!Sides, Drv!Threads, Members, Drv!Side

\* A function changes at one thread.
LEMMA OneChanges ==
  ASSUME NEW t \in Drv!Threads, NEW f, NEW g, g[t] \in Int,
         \A u \in Drv!Threads : f[u] \in Int,
         \A u \in Drv!Threads : u # t => g[u] = f[u]
  PROVE  \A s \in Drv!Sides :
           /\ TotalOf(f, s) \in Int /\ TotalOf(g, s) \in Int
           /\ TotalOf(g, s) = TotalOf(f, s) + IF s = Drv!Side(t) THEN g[t] - f[t] ELSE 0
<1> TAKE s \in Drv!Sides
<1>1. /\ IsFiniteSet(Members(s)) /\ Members(s) \subseteq Drv!Threads
      /\ t \in Members(s) <=> s = Drv!Side(t)
  BY SideFacts
<1>2. \A u \in Members(s) : f[u] \in Int /\ g[u] \in Int
  BY <1>1
<1>3. TotalOf(f, s) \in Int /\ TotalOf(g, s) \in Int
  BY <1>1, <1>2, SumElement DEF TotalOf
<1>4. CASE t \in Members(s)
  <2>1. SumFunctionOnSet(g, Members(s)) = SumFunctionOnSet(f, Members(s)) - f[t] + g[t]
    BY <1>1, <1>2, <1>4, SumUpdate
  <2>2. f[t] \in Int /\ g[t] \in Int
    BY <1>2, <1>4
  <2>3. QED
    BY <1>1, <1>3, <1>4, <2>1, <2>2 DEF TotalOf
<1>5. CASE t \notin Members(s)
  <2>1. \A u \in Members(s) : f[u] = g[u]
    BY <1>1, <1>5
  <2>2. SumFunctionOnSet(f, Members(s)) = SumFunctionOnSet(g, Members(s))
    BY <1>1, <2>1, SumSame
  <2>3. QED
    BY <1>1, <1>3, <1>5, <2>2 DEF TotalOf
<1>6. QED
  BY <1>4, <1>5

\* What the proofs need to know of a program.
DriverOK(d) ==
  /\ d.threads \subseteq Drv!Threads
  /\ d.capacity \in Nat /\ d.counts \subseteq Drv!Sides
  /\ d.records \in BOOLEAN /\ d.atomic \in BOOLEAN /\ d.inTurn \in BOOLEAN
  /\ d.reliable \in BOOLEAN /\ (d.threads = {LoneProducer, LoneConsumer} => d.reliable)
  /\ d.until \in {"quota", "counter", "share"}
  /\ d.until = "counter" => "pop" \in d.counts
  /\ d # Drv!NoDriver => LoneProducer \in d.threads /\ LoneConsumer \in d.threads
  /\ d.until = "counter" => Consumers \subseteq d.threads

LEMMA EveryDriverOK ==
  ASSUME NEW d \in Drv!DriverSet \cup {Drv!NoDriver}
  PROVE  DriverOK(d)
<1>1. 2 * Quota * Drv!Cardinality(Producers) \in Nat
  BY DriversAssumption, DriversLibrary, FS_CardinalityType
<1>2. LoneProducer \in Drv!Threads /\ LoneConsumer \in Drv!Threads /\ Consumers \subseteq Drv!Threads
  BY DriversAssumption DEF Drv!Threads
<1>3. CASE d = Drv!NoDriver
  BY <1>3 DEF DriverOK, Drv!NoDriver
<1>4. CASE d = Drv!test_mpmc_concurrent
  BY <1>2, <1>4, DriversAssumption DEF DriverOK, Drv!test_mpmc_concurrent, Drv!Sides
<1>5. CASE d = Drv!test_concurrent_enqueue_dequeue
  BY <1>1, <1>2, <1>5 DEF DriverOK, Drv!test_concurrent_enqueue_dequeue, Drv!Sides,
     Drv!OneOnEachSide
<1>6. CASE d = Drv!benchmark_spsc
  BY <1>2, <1>6, DriversAssumption DEF DriverOK, Drv!benchmark_spsc
<1>7. CASE d = Drv!benchmark_mpmc
  BY <1>2, <1>7, DriversAssumption DEF DriverOK, Drv!benchmark_mpmc, Drv!Sides
<1>8. CASE d = Drv!benchmark_single_threaded
  BY <1>2, <1>8, DriversAssumption DEF DriverOK, Drv!benchmark_single_threaded
<1>9. CASE d = Drv!benchmark_concurrent
  BY <1>2, <1>9, DriversAssumption DEF DriverOK, Drv!benchmark_concurrent, Drv!OneOnEachSide
<1>10. QED
  BY <1>3, <1>4, <1>5, <1>6, <1>7, <1>8, <1>9 DEF Drv!DriverSet

\* As many of its threads are producers as are consumers.
LEMMA SidesEven ==
  ASSUME NEW d \in Drv!DriverSet \cup {Drv!NoDriver}
  PROVE  /\ Cardinality(Producers \cap d.threads) \in Nat
         /\ Cardinality(Producers \cap d.threads) = Cardinality(Consumers \cap d.threads)
         /\ Cardinality(Producers \cap d.threads) <= Cardinality(Producers)
         /\ d.threads = {LoneProducer, LoneConsumer} => Cardinality(Producers \cap d.threads) = 1
<1>1. d.threads \in {{}, Drv!Threads, {LoneProducer, LoneConsumer}}
  BY DEF Drv!DriverSet, Drv!NoDriver, Drv!test_mpmc_concurrent,
     Drv!test_concurrent_enqueue_dequeue, Drv!benchmark_spsc, Drv!benchmark_mpmc,
     Drv!benchmark_single_threaded, Drv!benchmark_concurrent
<1>2. IsFiniteSet(Producers \cap d.threads)
      /\ Cardinality(Producers \cap d.threads) <= Cardinality(Producers)
  BY DriversAssumption, FS_Subset
<1>3. Cardinality(Producers \cap d.threads) \in Nat
  BY <1>2, FS_CardinalityType
<1>4. CASE d.threads = {LoneProducer, LoneConsumer}
  <2>1. Producers \cap d.threads = {LoneProducer} /\ Consumers \cap d.threads = {LoneConsumer}
    BY <1>4, DriversAssumption
  <2>2. Cardinality({LoneProducer}) = 1 /\ Cardinality({LoneConsumer}) = 1
    BY FS_Singleton
  <2>3. QED
    BY <1>2, <1>3, <2>1, <2>2
<1>5. CASE d.threads # {LoneProducer, LoneConsumer}
  <2>1. CASE d.threads = {}
    <3>1. Producers \cap d.threads = {} /\ Consumers \cap d.threads = {}
      BY <2>1
    <3>2. QED
      BY <1>2, <1>3, <1>5, <3>1
  <2>2. CASE d.threads = Drv!Threads
    <3>1. Producers \cap d.threads = Producers /\ Consumers \cap d.threads = Consumers
      BY <2>2 DEF Drv!Threads
    <3>2. QED
      BY <1>2, <1>3, <1>5, <3>1, DriversAssumption
  <2>3. QED
    BY <1>1, <1>5, <2>1, <2>2
<1>6. QED
  BY <1>4, <1>5

LEMMA ExpectedFacts ==
  ASSUME driver \in Drv!DriverSet \cup {Drv!NoDriver}
  PROVE  /\ Drv!Expected \in Nat
         /\ Drv!Expected <= Quota * Drv!Cardinality(Producers)
         /\ Drv!Expected = Quota * Cardinality(Producers \cap driver.threads)
         /\ Drv!Expected = Quota * Cardinality(Consumers \cap driver.threads)
         /\ Lone => Drv!Expected = Quota
<1>1. PICK d \in Drv!DriverSet \cup {Drv!NoDriver} : d = driver
  OBVIOUS
<1>2. PICK k : k = Cardinality(Producers \cap d.threads)
  OBVIOUS
<1>3. PICK m : m = Cardinality(Producers)
  OBVIOUS
<1>4. k \in Nat /\ k = Cardinality(Consumers \cap d.threads) /\ k <= m
  BY <1>2, <1>3, SidesEven
<1>5. m \in Nat /\ Quota \in Nat
  BY <1>3, DriversAssumption, FS_CardinalityType
<1>6. Quota * k \in Nat /\ Quota * k <= Quota * m
  <2>1. PICK j \in Nat : m = k + j
    <3>1. m - k \in Nat /\ m = k + (m - k)
      BY <1>4, <1>5
    <3>2. QED
      BY <3>1
  <2>2. Quota * m = Quota * k + Quota * j /\ Quota * k \in Nat /\ Quota * j \in Nat
    BY <1>4, <1>5, <2>1
  <2>3. QED
    BY <2>2
<1>7. Drv!Expected = Quota * k
  BY <1>1, <1>2, DriversLibrary DEF Drv!Expected
<1>8. Lone => k = 1
  BY <1>1, <1>2, SidesEven DEF Lone
<1>9. QED
  BY <1>1, <1>2, <1>3, <1>4, <1>5, <1>6, <1>7, <1>8, DriversLibrary

\* How many of the calls of t were recorded, and how many counted.
LEMMA BooksOf ==
  ASSUME DriversInv, NEW t \in Drv!Threads
  PROVE  /\ ops[t] \in Nat /\ Recorded[t] \in Nat /\ Done[t] \in Nat
         /\ Done[t] <= Recorded[t] /\ Recorded[t] <= ops[t]
         /\ thread_pc[t] \in {"record", "recordEnd"} => Recorded[t] = ops[t] - 1 /\ Done[t] = ops[t] - 1
         /\ thread_pc[t] \in {"count", "countStore"} => Recorded[t] = ops[t] /\ Done[t] = ops[t] - 1
         /\ thread_pc[t] \notin {"record", "recordEnd", "count", "countStore"} =>
              Recorded[t] = ops[t] /\ Done[t] = ops[t]
<1>1. ops[t] \in Nat
  BY DEF DriversInv, DriversTypes
<1>2. thread_pc[t] \in {"record", "recordEnd", "count", "countStore"} => ops[t] > 0
  BY DEF DriversInv, ProgressInv
<1>3. /\ Recorded[t] = IF thread_pc[t] \in {"record", "recordEnd"} THEN ops[t] - 1 ELSE ops[t]
      /\ Done[t] = IF thread_pc[t] \in {"record", "recordEnd", "count", "countStore"}
                   THEN ops[t] - 1 ELSE ops[t]
  BY DEF Recorded, Done
<1>4. QED
  BY <1>1, <1>2, <1>3

LEMMA TotalsOrdered ==
  ASSUME NEW f, NEW g,
         \A t \in Drv!Threads : f[t] \in Nat /\ g[t] \in Nat /\ f[t] <= g[t]
  PROVE  /\ \A s \in Drv!Sides :
              TotalOf(f, s) \in Nat /\ TotalOf(g, s) \in Nat /\ TotalOf(f, s) <= TotalOf(g, s)
         /\ \A t \in Drv!Threads :
              /\ f[t] <= TotalOf(f, Drv!Side(t))
              /\ f[t] < g[t] => TotalOf(f, Drv!Side(t)) < TotalOf(g, Drv!Side(t))
<1>1. ASSUME NEW s \in Drv!Sides
      PROVE  /\ TotalOf(f, s) \in Nat /\ TotalOf(g, s) \in Nat /\ TotalOf(f, s) <= TotalOf(g, s)
             /\ \A t \in Members(s) : f[t] <= TotalOf(f, s)
             /\ \A t \in Members(s) : f[t] < g[t] => TotalOf(f, s) < TotalOf(g, s)
  <2>1. IsFiniteSet(Members(s)) /\ Members(s) \subseteq Drv!Threads
    BY SideFacts
  <2>2. \A t \in Members(s) : f[t] \in Nat /\ g[t] \in Nat /\ f[t] <= g[t]
    BY <2>1
  <2>3. TotalOf(f, s) \in Nat /\ \A t \in Members(s) : f[t] <= TotalOf(f, s)
    BY <2>1, <2>2, SumNat DEF TotalOf
  <2>4. TotalOf(g, s) \in Nat
    BY <2>1, <2>2, SumNat DEF TotalOf
  <2>5. TotalOf(f, s) <= TotalOf(g, s)
    BY <2>1, <2>2, SumMonotone DEF TotalOf
  <2>6. ASSUME NEW t \in Members(s), f[t] < g[t] PROVE TotalOf(f, s) < TotalOf(g, s)
    BY <2>1, <2>2, <2>6, SumStrict DEF TotalOf
  <2>7. QED
    BY <2>3, <2>4, <2>5, <2>6
<1>2. QED
  BY <1>1, SideFacts

\* What the threads of the program push together is what is expected; with
\* the threads of one side at their quota, their total is that.
LEMMA QuotaTotals ==
  ASSUME DriversTypes, NEW s \in Drv!Sides
  PROVE  /\ (\A t \in Members(s) : t \in driver.threads => ops[t] <= Quota) =>
              ((\A t \in Members(s) : t \notin driver.threads => ops[t] = 0) =>
                TotalOf(ops, s) <= Drv!Expected)
         /\ (\A t \in Members(s) : t \in driver.threads => ops[t] >= Quota) =>
                TotalOf(ops, s) >= Drv!Expected
<1>1. PICK f : f = [t \in Drv!Threads |-> IF t \in driver.threads THEN Quota ELSE 0]
  OBVIOUS
<1>2. PICK S : S = Members(s)
  OBVIOUS
<1>3. PICK T : T = S \cap driver.threads
  OBVIOUS
<1>4. IsFiniteSet(S) /\ S \subseteq Drv!Threads /\ S \in {Producers, Consumers}
  BY <1>2, SideFacts DEF Members
<1>5. \A t \in S : f[t] = IF t \in T THEN Quota ELSE 0
  BY <1>1, <1>3, <1>4
<1>6. Quota \in Nat
  BY DriversAssumption
<1>7. SumFunctionOnSet(f, S) = Quota * Cardinality(T)
  BY <1>3, <1>4, <1>5, <1>6, SumOfConstant
<1>8. Drv!Expected = Quota * Cardinality(T)
  BY <1>3, <1>4, ExpectedFacts DEF DriversTypes
<1>9. \A t \in S : ops[t] \in Nat /\ f[t] \in Nat
  BY <1>4, <1>5, <1>6 DEF DriversTypes
<1>10. PICK made : made = ops
  OBVIOUS
<1>11. ASSUME \A t \in Members(s) : t \in driver.threads => ops[t] <= Quota,
              \A t \in Members(s) : t \notin driver.threads => ops[t] = 0
       PROVE  TotalOf(ops, s) <= Drv!Expected
  <2>1. \A t \in S : made[t] \in Int /\ f[t] \in Int /\ made[t] <= f[t]
    BY <1>2, <1>3, <1>5, <1>6, <1>9, <1>10, <1>11
  <2>2. SumFunctionOnSet(made, S) <= SumFunctionOnSet(f, S)
    BY <1>4, <2>1, SumMonotone
  <2>3. QED
    BY <1>2, <1>7, <1>8, <1>10, <2>2 DEF TotalOf
<1>12. ASSUME \A t \in Members(s) : t \in driver.threads => ops[t] >= Quota
       PROVE  TotalOf(ops, s) >= Drv!Expected
  <2>1. \A t \in S : made[t] \in Int /\ f[t] \in Int /\ f[t] <= made[t]
    BY <1>2, <1>3, <1>5, <1>6, <1>9, <1>10, <1>12
  <2>2. SumFunctionOnSet(f, S) <= SumFunctionOnSet(made, S)
    BY <1>4, <2>1, SumMonotone
  <2>3. SumFunctionOnSet(f, S) \in Int /\ SumFunctionOnSet(made, S) \in Int
    BY <1>4, <2>1, SumElement
  <2>4. QED
    BY <1>2, <1>7, <1>8, <1>10, <2>2, <2>3 DEF TotalOf
<1>13. QED
  BY <1>11, <1>12

TotalsBounded ==
  /\ Drv!Expected \in Nat
  /\ \A s \in Drv!Sides :
       /\ TotalOf(Done, s) \in Nat /\ TotalOf(Recorded, s) \in Nat /\ TotalOf(ops, s) \in Nat
       /\ TotalOf(Done, s) <= TotalOf(Recorded, s)
       /\ TotalOf(Recorded, s) <= TotalOf(ops, s)
       /\ (s = "push" \/ lapses = 0) => TotalOf(ops, s) <= Drv!Expected
  /\ \A t \in Drv!Threads :
       /\ ops[t] <= TotalOf(ops, Drv!Side(t))
       /\ thread_pc[t] \in {"record", "recordEnd"} =>
            TotalOf(Recorded, Drv!Side(t)) < TotalOf(ops, Drv!Side(t))
       /\ thread_pc[t] \in {"record", "recordEnd", "count", "countStore"} =>
            TotalOf(Done, Drv!Side(t)) < TotalOf(ops, Drv!Side(t))

LEMMA InvBounds == DriversInv => TotalsBounded
<1> SUFFICES ASSUME DriversInv PROVE TotalsBounded
  OBVIOUS
<1>1. PICK made : made = ops
  OBVIOUS
<1>2. PICK re : re = Recorded
  OBVIOUS
<1>3. PICK do : do = Done
  OBVIOUS
<1>4. \A t \in Drv!Threads :
        /\ made[t] \in Nat /\ re[t] \in Nat /\ do[t] \in Nat
        /\ do[t] <= re[t] /\ re[t] <= made[t] /\ do[t] <= made[t]
        /\ thread_pc[t] \in {"record", "recordEnd"} => re[t] < made[t]
        /\ thread_pc[t] \in {"record", "recordEnd", "count", "countStore"} => do[t] < made[t]
  <2> TAKE t \in Drv!Threads
  <2>1. /\ ops[t] \in Nat /\ Recorded[t] \in Nat /\ Done[t] \in Nat
        /\ Done[t] <= Recorded[t] /\ Recorded[t] <= ops[t]
        /\ thread_pc[t] \in {"record", "recordEnd"} => Recorded[t] = ops[t] - 1 /\ Done[t] = ops[t] - 1
        /\ thread_pc[t] \in {"count", "countStore"} => Recorded[t] = ops[t] /\ Done[t] = ops[t] - 1
    BY BooksOf
  <2>2. QED
    BY <1>1, <1>2, <1>3, <2>1
<1>5. /\ \A s \in Drv!Sides : TotalOf(do, s) \in Nat /\ TotalOf(re, s) \in Nat
                              /\ TotalOf(do, s) <= TotalOf(re, s)
  BY <1>4, TotalsOrdered
<1>6. /\ \A s \in Drv!Sides : TotalOf(made, s) \in Nat /\ TotalOf(re, s) <= TotalOf(made, s)
      /\ \A t \in Drv!Threads : re[t] < made[t] => TotalOf(re, Drv!Side(t)) < TotalOf(made, Drv!Side(t))
  BY <1>4, TotalsOrdered
<1>7. \A t \in Drv!Threads : do[t] < made[t] => TotalOf(do, Drv!Side(t)) < TotalOf(made, Drv!Side(t))
  BY <1>4, TotalsOrdered
<1>8. \A t \in Drv!Threads : made[t] <= TotalOf(made, Drv!Side(t))
  <2>1. \A t \in Drv!Threads : made[t] \in Nat /\ made[t] <= made[t]
    BY <1>4
  <2>2. QED
    BY <2>1, TotalsOrdered
<1>9. DriversTypes /\ Drv!Expected \in Nat
  BY ExpectedFacts DEF DriversInv, DriversTypes
<1>10. TotalOf(ops, "push") <= Drv!Expected
  <2>1. "push" \in Drv!Sides
    BY DEF Drv!Sides
  <2>2. \A t \in Members("push") : t \in Producers /\ t \in Drv!Threads
    BY DEF Members, Drv!Threads
  <2>3. \A t \in Members("push") : ProgressInv(t)
    BY <2>2 DEF DriversInv
  <2>4. \A t \in Members("push") : t \in driver.threads => ops[t] <= Quota
    BY <2>2, <2>3 DEF ProgressInv
  <2>5. \A t \in Members("push") : t \notin driver.threads => ops[t] = 0
    BY <2>3 DEF ProgressInv
  <2>6. QED
    BY <1>9, <2>1, <2>4, <2>5, QuotaTotals
<1>11. lapses = 0 => TotalOf(ops, "pop") <= TotalOf(ops, "push")
  <2> SUFFICES ASSUME lapses = 0 PROVE TotalOf(ops, "pop") <= TotalOf(ops, "push")
    OBVIOUS
  <2>1. items + TotalOf(ops, "pop") = TotalOf(ops, "push") /\ items \in Nat
    <3>1. DriverOK(driver)
      <4>1. PICK d : d = driver
        OBVIOUS
      <4>2. QED
        BY <1>9, <4>1, EveryDriverOK DEF DriversTypes
    <3>2. QED
      BY <1>9, <3>1 DEF DriversInv, TotalsInv, DriversTypes, DriverOK
  <2>2. TotalOf(made, "pop") \in Nat /\ TotalOf(made, "push") \in Nat
    BY <1>6 DEF Drv!Sides
  <2>3. QED
    BY <1>1, <2>1, <2>2
<1>12. \A s \in Drv!Sides : (s = "push" \/ lapses = 0) => TotalOf(made, s) <= Drv!Expected
  BY <1>1, <1>6, <1>9, <1>10, <1>11 DEF Drv!Sides
<1>13. QED
  BY <1>1, <1>2, <1>3, <1>4, <1>5, <1>6, <1>7, <1>8, <1>9, <1>12 DEF TotalsBounded

\* The types as Drivers states them follow.
LEMMA InvTypes == DriversInv => Drv!TypeOK
<1> SUFFICES ASSUME DriversInv PROVE Drv!TypeOK
  OBVIOUS
<1>1. finished \in 0..Drv!Cardinality(Producers)
  <2>1. PICK E : E = {p \in Producers \cap driver.threads : thread_pc[p] = "ended"}
    OBVIOUS
  <2>2. E \subseteq Producers /\ IsFiniteSet(Producers)
    BY <2>1, DriversAssumption
  <2>3. IsFiniteSet(E) /\ Cardinality(E) <= Cardinality(Producers)
    BY <2>2, FS_Subset
  <2>4. Cardinality(E) \in Nat /\ Cardinality(Producers) \in Nat
    BY <2>2, <2>3, FS_CardinalityType
  <2>5. finished = Cardinality(E)
    BY <2>1 DEF DriversInv, TotalsInv
  <2>6. QED
    BY <2>3, <2>4, <2>5, DriversLibrary
<1>2. DriversTypes
  BY DEF DriversInv
<1>3. QED
  BY <1>1, <1>2 DEF Drv!TypeOK, DriversTypes

\* The channel of one producer and one consumer does not go wrong.
LEMMA LoneIsReliable ==
  ASSUME DriversInv, Lone
  PROVE  lapses = 0
<1>1. PICK d : d = driver
  OBVIOUS
<1>2. DriverOK(d)
  BY <1>1, EveryDriverOK DEF DriversInv, DriversTypes
<1>3. driver.reliable
  BY <1>1, <1>2 DEF DriverOK, Lone
<1>4. QED
  BY <1>3 DEF DriversInv, DriversTypes

\* A step of thread t, by which it makes a calls, records r and counts d: at
\* most one each.  It does not touch what other threads have of their own.
StepOf(t, a, r, d) ==
  /\ t \in Drv!Threads /\ a \in {0, 1} /\ r \in {0, 1} /\ d \in {0, 1}
  /\ driver # Drv!NoDriver /\ driver' = driver /\ DriversTypes'
  /\ lapses' = 0 => lapses = 0
  /\ \A u \in Drv!Threads : u # t =>
       thread_pc'[u] = thread_pc[u] /\ ops'[u] = ops[u] /\ reg'[u] = reg[u]
  /\ ops'[t] = ops[t] + a
  /\ Recorded'[t] = Recorded[t] + r
  /\ Done'[t] = Done[t] + d

LEMMA StepTotals ==
  ASSUME DriversInv, NEW t, NEW a, NEW r, NEW d, StepOf(t, a, r, d)
  PROVE  \A s \in Drv!Sides :
           /\ TotalOf(ops, s)' = TotalOf(ops, s) + IF s = Drv!Side(t) THEN a ELSE 0
           /\ TotalOf(Recorded, s)' = TotalOf(Recorded, s) + IF s = Drv!Side(t) THEN r ELSE 0
           /\ TotalOf(Done, s)' = TotalOf(Done, s) + IF s = Drv!Side(t) THEN d ELSE 0
<1>0. t \in Drv!Threads /\ a \in Int /\ r \in Int /\ d \in Int
  BY DEF StepOf
<1>1. PICK made, re, do : made = ops /\ re = Recorded /\ do = Done
  OBVIOUS
<1>2. PICK made1, re1, do1 : made1 = ops' /\ re1 = Recorded' /\ do1 = Done'
  OBVIOUS
<1>3. \A u \in Drv!Threads : made[u] \in Nat /\ re[u] \in Nat /\ do[u] \in Nat
  BY <1>1, BooksOf
<1>4. \A u \in Drv!Threads : u # t => made1[u] = made[u] /\ re1[u] = re[u] /\ do1[u] = do[u]
  BY <1>1, <1>2 DEF StepOf, Recorded, Done
<1>5. made1[t] = made[t] + a /\ re1[t] = re[t] + r /\ do1[t] = do[t] + d
  BY <1>1, <1>2 DEF StepOf
<1>6. made1[t] \in Int /\ re1[t] \in Int /\ do1[t] \in Int
      /\ made1[t] - made[t] = a /\ re1[t] - re[t] = r /\ do1[t] - do[t] = d
  BY <1>0, <1>3, <1>5
<1>7. \A s \in Drv!Sides : TotalOf(made1, s) = TotalOf(made, s) + IF s = Drv!Side(t) THEN a ELSE 0
  <2>1. \A u \in Drv!Threads : made[u] \in Int
    BY <1>3
  <2>2. QED
    BY <1>0, <1>4, <1>6, <2>1, OneChanges
<1>8. \A s \in Drv!Sides : TotalOf(re1, s) = TotalOf(re, s) + IF s = Drv!Side(t) THEN r ELSE 0
  <2>1. \A u \in Drv!Threads : re[u] \in Int
    BY <1>3
  <2>2. QED
    BY <1>0, <1>4, <1>6, <2>1, OneChanges
<1>9. \A s \in Drv!Sides : TotalOf(do1, s) = TotalOf(do, s) + IF s = Drv!Side(t) THEN d ELSE 0
  <2>1. \A u \in Drv!Threads : do[u] \in Int
    BY <1>3
  <2>2. QED
    BY <1>0, <1>4, <1>6, <2>1, OneChanges
<1>10. QED
  BY <1>1, <1>2, <1>7, <1>8, <1>9

\* What is known of the other threads stays known: the totals only grow, and
\* the samples of a lone recorder change only by its own thread.
LEMMA OthersKeep ==
  ASSUME DriversInv, NEW t, NEW a, NEW r, NEW d, StepOf(t, a, r, d),
         \A s \in Drv!Sides :
           samples'[s] = samples[s] \/ (s = Drv!Side(t) /\ thread_pc[t] = "recordEnd")
  PROVE  \A u \in Drv!Threads : u # t => ProgressInv(u)' /\ BookInv(u)'
<1> SUFFICES ASSUME NEW u \in Drv!Threads, u # t PROVE ProgressInv(u)' /\ BookInv(u)'
  OBVIOUS
<1>1. /\ t \in Drv!Threads /\ driver' = driver
      /\ thread_pc'[u] = thread_pc[u] /\ ops'[u] = ops[u] /\ reg'[u] = reg[u]
  BY DEF StepOf
<1>2. ProgressInv(u) /\ BookInv(u) /\ ProgressInv(t)
  BY <1>1 DEF DriversInv
<1>3. ProgressInv(u)'
  BY <1>1, <1>2 DEF ProgressInv
<1>4. PICK s \in Drv!Sides : s = Drv!Side(u)
  BY SideFacts
<1>5. PICK m, k : m = TotalOf(Recorded, s) /\ k = TotalOf(Done, s)
  OBVIOUS
<1>6. PICK m1, k1 : m1 = TotalOf(Recorded, s)' /\ k1 = TotalOf(Done, s)'
  OBVIOUS
<1>7. m \in Nat /\ k \in Nat
  BY <1>5, InvBounds DEF TotalsBounded
<1>8. m <= m1 /\ k <= k1 /\ m1 \in Nat /\ k1 \in Nat
  <2>1. /\ m1 = m + IF s = Drv!Side(t) THEN r ELSE 0
        /\ k1 = k + IF s = Drv!Side(t) THEN d ELSE 0
    BY <1>5, <1>6, StepTotals
  <2>2. r \in {0, 1} /\ d \in {0, 1}
    BY DEF StepOf
  <2>3. QED
    BY <1>7, <2>1, <2>2
<1>9. reg[u] \in Nat
  BY DEF DriversInv, DriversTypes
<1>10. thread_pc[u] = "recordEnd" /\ Lone => samples'[s] = samples[s]
  <2>1. SUFFICES ASSUME thread_pc[u] = "recordEnd", Lone, s = Drv!Side(t), thread_pc[t] = "recordEnd"
                 PROVE  FALSE
    OBVIOUS
  <2>2. u \in {LoneProducer, LoneConsumer} /\ t \in {LoneProducer, LoneConsumer}
    BY <1>2, <2>1 DEF ProgressInv, Lone
  <2>3. QED
    BY <1>4, <2>1, <2>2, DriversAssumption DEF Drv!Side
<1>11. BookInv(u)'
  <2>1. thread_pc'[u] = "recordEnd" =>
          reg'[u] <= TotalOf(Recorded, s)' /\ (Lone' => reg'[u] = samples'[s])
    BY <1>1, <1>2, <1>4, <1>5, <1>6, <1>7, <1>8, <1>9, <1>10 DEF BookInv, Lone
  <2>2. thread_pc'[u] = "countStore" => ~driver'.atomic /\ reg'[u] <= TotalOf(Done, s)'
    BY <1>1, <1>2, <1>4, <1>5, <1>6, <1>7, <1>8, <1>9 DEF BookInv
  <2>3. QED
    BY <1>1, <1>2, <1>4, <2>1, <2>2 DEF BookInv
<1>12. QED
  BY <1>3, <1>11

\* The books are right after such a step, if it keeps them as it should.
LEMMA TotalsKeep ==
  ASSUME DriversInv, NEW t, NEW a, NEW r, NEW d, StepOf(t, a, r, d),
         lapses' = 0 => items' = (IF Drv!Side(t) = "push" THEN items + a ELSE items - a),
         \A s \in Drv!Sides :
           /\ counted'[s] <= TotalOf(Done, s)'
           /\ s \in driver.counts /\ driver.atomic => counted'[s] = TotalOf(Done, s)'
           /\ samples'[s] <= TotalOf(Recorded, s)'
           /\ Lone /\ driver.records => samples'[s] = TotalOf(Recorded, s)',
         finished' = Cardinality({p \in Producers \cap driver.threads : thread_pc'[p] = "ended"})
  PROVE  TotalsInv'
<1>0. driver' = driver /\ t \in Drv!Threads /\ a \in {0, 1}
  BY DEF StepOf
<1>1. "push" \in Drv!Sides /\ "pop" \in Drv!Sides /\ Drv!Side(t) \in {"push", "pop"}
  BY DEF Drv!Sides, Drv!Side
<1>2. PICK m, k : m = TotalOf(ops, "push") /\ k = TotalOf(ops, "pop")
  OBVIOUS
<1>3. PICK m1, k1 : m1 = TotalOf(ops, "push")' /\ k1 = TotalOf(ops, "pop")'
  OBVIOUS
<1>4. m \in Nat /\ k \in Nat
  BY <1>1, <1>2, InvBounds DEF TotalsBounded
<1>5. /\ m1 = m + IF "push" = Drv!Side(t) THEN a ELSE 0
      /\ k1 = k + IF "pop" = Drv!Side(t) THEN a ELSE 0
  BY <1>1, <1>2, <1>3, StepTotals
<1>6. items \in Int /\ (lapses = 0 => items + k = m)
  <2>1. lapses = 0 => items + k = m
    BY <1>2 DEF DriversInv, TotalsInv
  <2>2. items \in 0..driver.capacity
    BY DEF DriversInv, DriversTypes
  <2>3. QED
    BY <2>1, <2>2
<1>7. lapses' = 0 => items' + k1 = m1
  BY <1>0, <1>1, <1>4, <1>5, <1>6 DEF StepOf
<1>8. QED
  BY <1>0, <1>3, <1>7 DEF TotalsInv, Lone

\* The same producers are at their end, unless one has just come there.
LEMMA EndedCount ==
  ASSUME DriversInv, NEW t, NEW a, NEW r, NEW d, StepOf(t, a, r, d), thread_pc[t] # "ended"
  PROVE  /\ thread_pc'[t] # "ended" \/ t \notin Producers =>
              Cardinality({p \in Producers \cap driver.threads : thread_pc'[p] = "ended"}) = finished
         /\ thread_pc'[t] = "ended" /\ t \in Producers /\ t \in driver.threads =>
              Cardinality({p \in Producers \cap driver.threads : thread_pc'[p] = "ended"}) = finished + 1
<1>1. PICK E : E = {p \in Producers \cap driver.threads : thread_pc[p] = "ended"}
  OBVIOUS
<1>2. PICK F : F = {p \in Producers \cap driver.threads : thread_pc'[p] = "ended"}
  OBVIOUS
<1>3. finished = Cardinality(E)
  BY <1>1 DEF DriversInv, TotalsInv
<1>4. \A p \in Producers : p # t => thread_pc'[p] = thread_pc[p]
  BY DEF StepOf, Drv!Threads
<1>5. E \subseteq Producers
  BY <1>1
<1>6. IsFiniteSet(E)
  BY <1>5, DriversAssumption, FS_Subset
<1>7. thread_pc'[t] # "ended" \/ t \notin Producers => F = E
  BY <1>1, <1>2, <1>4
<1>8. thread_pc'[t] = "ended" /\ t \in Producers /\ t \in driver.threads => F = E \cup {t} /\ t \notin E
  BY <1>1, <1>2, <1>4
<1>9. t \notin E => Cardinality(E \cup {t}) = Cardinality(E) + 1
  BY <1>6, FS_AddElement
<1>10. QED
  BY <1>2, <1>3, <1>7, <1>8, <1>9

LEMMA AccountsInv ==
  ASSUME DriversInv, NEW t, NEW a, NEW r, NEW d, StepOf(t, a, r, d),
         \A s \in Drv!Sides :
           samples'[s] = samples[s] \/ (s = Drv!Side(t) /\ thread_pc[t] = "recordEnd"),
         ProgressInv(t)', BookInv(t)', TotalsInv', CounterInv'
  PROVE  DriversInv'
<1>1. \A u \in Drv!Threads : u # t => ProgressInv(u)' /\ BookInv(u)'
  BY OthersKeep
<1>2. QED
  BY <1>1 DEF DriversInv, StepOf

\* A thread in its loop is one of the program.
LEMMA InLoop ==
  ASSUME DriversInv, NEW t \in Drv!Threads, thread_pc[t] \notin {"new", "ended"}
  PROVE  t \in driver.threads /\ driver # Drv!NoDriver /\ driver \in Drv!DriverSet
  BY DEF DriversInv, ProgressInv, DriversTypes

LEMMA DriverIsOK == DriversInv => DriverOK(driver)
<1> SUFFICES ASSUME DriversInv PROVE DriverOK(driver)
  OBVIOUS
<1>1. PICK d : d = driver
  OBVIOUS
<1>2. QED
  BY <1>1, EveryDriverOK DEF DriversInv, DriversTypes

\* A step by which nothing is called, recorded or counted.
QuietStep(t) ==
  /\ t \in Drv!Threads /\ thread_pc[t] \notin {"new", "ended"}
  /\ thread_pc' \in [Drv!Threads -> {"new", "check", "call", "record", "recordEnd",
                                     "count", "countStore", "ended"}]
  /\ reg' \in [Drv!Threads -> Nat]
  /\ \A u \in Drv!Threads : u # t => thread_pc'[u] = thread_pc[u] /\ reg'[u] = reg[u]
  /\ thread_pc[t] \in {"record", "recordEnd"} <=> thread_pc'[t] \in {"record", "recordEnd"}
  /\ thread_pc[t] \in {"count", "countStore"} <=> thread_pc'[t] \in {"count", "countStore"}
  /\ finished' = IF thread_pc'[t] = "ended" /\ t \in Producers THEN finished + 1 ELSE finished
  /\ UNCHANGED <<driver, ops, items, lapses, counted, samples, crashed>>

LEMMA QuietStepKeeps ==
  ASSUME DriversInv, NEW t, QuietStep(t),
         ProgressInv(t)', CounterInv',
         (\A s \in Drv!Sides :
            TotalOf(Recorded, s)' = TotalOf(Recorded, s) /\ TotalOf(Done, s)' = TotalOf(Done, s))
         => BookInv(t)'
  PROVE  DriversInv'
<1>1. t \in Drv!Threads /\ t \in driver.threads /\ driver # Drv!NoDriver
  BY InLoop DEF QuietStep
<1>2. Recorded'[t] = Recorded[t] /\ Done'[t] = Done[t]
  BY <1>1 DEF QuietStep, Recorded, Done
<1>3. ops[t] \in Nat /\ Recorded[t] \in Nat /\ Done[t] \in Nat
  BY <1>1, BooksOf
<1>4. StepOf(t, 0, 0, 0)
  BY <1>1, <1>2, <1>3 DEF StepOf, QuietStep, DriversTypes, DriversInv
<1>5. \A s \in Drv!Sides :
        /\ TotalOf(Recorded, s) \in Nat /\ TotalOf(Done, s) \in Nat
        /\ TotalOf(Recorded, s)' = TotalOf(Recorded, s) + IF s = Drv!Side(t) THEN 0 ELSE 0
        /\ TotalOf(Done, s)' = TotalOf(Done, s) + IF s = Drv!Side(t) THEN 0 ELSE 0
  BY <1>4, StepTotals, InvBounds DEF TotalsBounded
<1>6. \A s \in Drv!Sides :
        TotalOf(Recorded, s)' = TotalOf(Recorded, s) /\ TotalOf(Done, s)' = TotalOf(Done, s)
  <2> TAKE s \in Drv!Sides
  <2>1. PICK m, k : m = TotalOf(Recorded, s) /\ k = TotalOf(Done, s)
    OBVIOUS
  <2>2. m \in Nat /\ k \in Nat /\ TotalOf(Recorded, s)' = m + 0 /\ TotalOf(Done, s)' = k + 0
    BY <1>5, <2>1
  <2>3. QED
    BY <2>1, <2>2
<1>7. \A s \in Drv!Sides :
        /\ counted[s] <= TotalOf(Done, s)
        /\ s \in driver.counts /\ driver.atomic => counted[s] = TotalOf(Done, s)
        /\ samples[s] <= TotalOf(Recorded, s)
        /\ Lone /\ driver.records => samples[s] = TotalOf(Recorded, s)
  BY DEF DriversInv, TotalsInv
<1>8. \A s \in Drv!Sides :
        /\ counted'[s] <= TotalOf(Done, s)'
        /\ s \in driver.counts /\ driver.atomic => counted'[s] = TotalOf(Done, s)'
        /\ samples'[s] <= TotalOf(Recorded, s)'
        /\ Lone /\ driver.records => samples'[s] = TotalOf(Recorded, s)'
  BY <1>6, <1>7 DEF QuietStep
<1>9. items' = IF Drv!Side(t) = "push" THEN items + 0 ELSE items - 0
  <2>1. items \in Int
    BY DEF DriversInv, DriversTypes
  <2>2. QED
    BY <2>1 DEF QuietStep
<1>10. finished' = Cardinality({p \in Producers \cap driver.threads : thread_pc'[p] = "ended"})
  BY <1>1, <1>4, EndedCount DEF QuietStep
<1>11. TotalsInv'
  BY <1>4, <1>8, <1>9, <1>10, TotalsKeep
<1>12. BookInv(t)'
  BY <1>6
<1>13. \A s \in Drv!Sides : samples'[s] = samples[s]
  BY DEF QuietStep
<1>14. QED
  BY <1>4, <1>11, <1>12, <1>13, AccountsInv

LEMMA DriversCheckInv ==
  ASSUME DriversInv, NEW t \in Drv!Threads, Drv!Check(t)
  PROVE  DriversInv'
<1>1. thread_pc[t] = "check" /\ thread_pc' = [thread_pc EXCEPT ![t] = "call"]
      /\ ~Drv!LoopEnds(t)
      /\ UNCHANGED <<driver, ops, items, lapses, counted, finished, samples, reg, crashed>>
  BY DEF Drv!Check, Drv!Goto
<1>2. thread_pc \in [Drv!Threads -> {"new", "check", "call", "record", "recordEnd",
                                    "count", "countStore", "ended"}]
      /\ reg \in [Drv!Threads -> Nat]
  BY DEF DriversInv, DriversTypes
<1>3. QuietStep(t) /\ thread_pc'[t] = "call"
  BY <1>1, <1>2 DEF QuietStep
<1>4. ProgressInv(t) /\ BookInv(t) /\ t \in driver.threads /\ driver # Drv!NoDriver
  BY <1>1, InLoop DEF DriversInv
<1>5. ops[t] \in Nat /\ Quota \in Nat
  BY DriversAssumption DEF DriversInv, DriversTypes
<1>6. t \in Producers \/ driver.until = "quota" => ops[t] < Quota
  BY <1>1, <1>4, <1>5 DEF ProgressInv, Drv!LoopEnds, Drv!Threads
<1>7. ProgressInv(t)'
  BY <1>1, <1>3, <1>4, <1>6 DEF ProgressInv
<1>8. BookInv(t)'
  BY <1>1, <1>3, <1>4 DEF BookInv
<1>9. CounterInv'
  <2>1. \A c \in Consumers : thread_pc'[c] = "ended" => thread_pc[c] = "ended"
    BY <1>1, <1>2 DEF Drv!Threads
  <2>2. Drv!Expected' = Drv!Expected
    BY <1>1 DEF Drv!Expected
  <2>3. QED
    BY <1>1, <2>1, <2>2 DEF DriversInv, CounterInv
<1>10. QED
  BY <1>3, <1>7, <1>8, <1>9, QuietStepKeeps

\* Where a consumer has left a loop that counts, the counter was right.
LEMMA CounterKeeps ==
  ASSUME DriversInv, NEW t \in Drv!Threads, driver' = driver, counted'["pop"] = counted["pop"],
         \A u \in Drv!Threads : u # t => thread_pc'[u] = thread_pc[u],
         thread_pc'[t] # "ended", lapses' = 0 => lapses = 0
  PROVE  CounterInv'
<1>1. \A c \in Consumers : thread_pc'[c] = "ended" => thread_pc[c] = "ended"
  BY DEF Drv!Threads
<1>2. Drv!Expected' = Drv!Expected
  BY DEF Drv!Expected
<1>3. QED
  BY <1>1, <1>2 DEF DriversInv, CounterInv

LEMMA DriversTypesOf ==
  DriversInv =>
    /\ thread_pc \in [Drv!Threads -> {"new", "check", "call", "record", "recordEnd",
                                      "count", "countStore", "ended"}]
    /\ reg \in [Drv!Threads -> Nat] /\ ops \in [Drv!Threads -> Nat]
    /\ counted \in [Drv!Sides -> Nat] /\ samples \in [Drv!Sides -> Nat]
    /\ items \in Nat /\ driver.capacity \in Nat /\ items <= driver.capacity
    /\ Quota \in Nat
<1>1. DriversInv => driver.capacity \in Nat
  BY DriverIsOK DEF DriverOK
<1>2. QED
  BY <1>1, DriversAssumption DEF DriversInv, DriversTypes

LEMMA DriversLeaveInv ==
  ASSUME DriversInv, NEW t \in Drv!Threads, Drv!Leave(t)
  PROVE  DriversInv'
<1>1. thread_pc[t] = "check" /\ thread_pc' = [thread_pc EXCEPT ![t] = "ended"]
      /\ Drv!LoopEnds(t)
      /\ finished' = (IF t \in Producers THEN finished + 1 ELSE finished)
      /\ UNCHANGED <<driver, ops, items, lapses, counted, samples, reg, crashed>>
  BY DEF Drv!Leave, Drv!Goto
<1>3. QuietStep(t) /\ thread_pc'[t] = "ended"
  BY <1>1, DriversTypesOf DEF QuietStep
<1>4. ProgressInv(t) /\ BookInv(t) /\ t \in driver.threads /\ driver # Drv!NoDriver
  BY <1>1, InLoop DEF DriversInv
<1>5. ops[t] \in Nat /\ Quota \in Nat
  BY DriversTypesOf
<1>6. t \in Producers \/ driver.until # "counter" => ops[t] >= Quota
  <2>1. CASE t \in Producers
    <3>1. t \notin Consumers
      BY <2>1, DriversAssumption
    <3>2. ops[t] = Quota
      BY <1>1, <2>1, <3>1 DEF Drv!LoopEnds
    <3>3. QED
      BY <1>5, <3>2
  <2>2. CASE t \notin Producers /\ driver.until # "counter"
    BY <1>1, <1>5, <2>2 DEF Drv!LoopEnds, Drv!ShareTaken
  <2>3. QED
    BY <2>1, <2>2
<1>7. ProgressInv(t)'
  BY <1>1, <1>3, <1>4, <1>6 DEF ProgressInv
<1>8. BookInv(t)'
  BY <1>1, <1>3, <1>4 DEF BookInv
<1>9. CounterInv'
  <2>1. Drv!Expected' = Drv!Expected
    BY <1>1 DEF Drv!Expected
  <2>2. CASE \E c \in Consumers : thread_pc[c] = "ended"
    BY <1>1, <2>1, <2>2 DEF DriversInv, CounterInv
  <2>3. CASE \A c \in Consumers : thread_pc[c] # "ended"
    <3>1. SUFFICES ASSUME lapses = 0, driver.until = "counter",
                          NEW c \in Consumers, thread_pc'[c] = "ended"
                   PROVE  counted["pop"] = Drv!Expected
      BY <1>1, <2>1 DEF CounterInv
    <3>2. c = t
      BY <1>3, <2>3, <3>1 DEF QuietStep, Drv!Threads
    <3>3. counted["pop"] >= Drv!Expected
      BY <1>1, <3>1, <3>2, DriversAssumption DEF Drv!LoopEnds, Drv!CounterReached
    <3>4. "pop" \in Drv!Sides
      BY DEF Drv!Sides
    <3>5. counted["pop"] <= TotalOf(Done, "pop") /\ counted["pop"] \in Nat
      BY <3>4, DriversTypesOf DEF DriversInv, TotalsInv
    <3>6. PICK k, m, n1 : k = TotalOf(Done, "pop") /\ m = TotalOf(Recorded, "pop") /\ n1 = TotalOf(ops, "pop")
      OBVIOUS
    <3>7. /\ k \in Nat /\ m \in Nat /\ n1 \in Nat /\ Drv!Expected \in Nat
          /\ k <= m /\ m <= n1 /\ n1 <= Drv!Expected
      BY <3>1, <3>4, <3>6, InvBounds DEF TotalsBounded
    <3>8. QED
      BY <3>3, <3>5, <3>6, <3>7
  <2>4. QED
    BY <2>2, <2>3
<1>10. QED
  BY <1>3, <1>7, <1>8, <1>9, QuietStepKeeps

LEMMA DriversFailsInv ==
  ASSUME DriversInv, NEW t \in Drv!Threads, Drv!PopFails(t)
  PROVE  DriversInv'
<1>1. thread_pc[t] = "call" /\ thread_pc' = [thread_pc EXCEPT ![t] = "check"]
      /\ UNCHANGED <<driver, ops, items, lapses, counted, finished, samples, reg, crashed>>
  BY DEF Drv!PopFails, Drv!Goto, Drv!AfterFailure
<1>3. QuietStep(t) /\ thread_pc'[t] = "check"
  BY <1>1, DriversTypesOf DEF QuietStep
<1>4. ProgressInv(t) /\ BookInv(t) /\ t \in driver.threads /\ driver # Drv!NoDriver
  BY <1>1, InLoop DEF DriversInv
<1>7. ProgressInv(t)'
  BY <1>1, <1>3, <1>4 DEF ProgressInv
<1>8. BookInv(t)'
  BY <1>1, <1>3, <1>4 DEF BookInv
<1>9. CounterInv'
  BY <1>1, <1>3, CounterKeeps DEF QuietStep
<1>10. QED
  BY <1>3, <1>7, <1>8, <1>9, QuietStepKeeps

LEMMA DriversRecordBeginInv ==
  ASSUME DriversInv, NEW t \in Drv!Threads, Drv!RecordBegin(t)
  PROVE  DriversInv'
<1>1. thread_pc[t] = "record" /\ thread_pc' = [thread_pc EXCEPT ![t] = "recordEnd"]
      /\ reg' = [reg EXCEPT ![t] = samples[Drv!Side(t)]]
      /\ UNCHANGED <<driver, ops, items, lapses, counted, finished, samples, crashed>>
  BY DEF Drv!RecordBegin, Drv!Goto
<1>2. Drv!Side(t) \in Drv!Sides /\ samples[Drv!Side(t)] \in Nat
  BY SideFacts, DriversTypesOf
<1>3. QuietStep(t) /\ thread_pc'[t] = "recordEnd" /\ reg'[t] = samples[Drv!Side(t)]
  BY <1>1, <1>2, DriversTypesOf DEF QuietStep
<1>4. ProgressInv(t) /\ BookInv(t) /\ t \in driver.threads /\ driver # Drv!NoDriver
  BY <1>1, InLoop DEF DriversInv
<1>5. samples[Drv!Side(t)] <= TotalOf(Recorded, Drv!Side(t))
  BY <1>2 DEF DriversInv, TotalsInv
<1>7. ProgressInv(t)'
  BY <1>1, <1>3, <1>4 DEF ProgressInv
<1>8. ASSUME \A s \in Drv!Sides :
               TotalOf(Recorded, s)' = TotalOf(Recorded, s) /\ TotalOf(Done, s)' = TotalOf(Done, s)
      PROVE  BookInv(t)'
  <2>1. PICK s \in Drv!Sides : s = Drv!Side(t)
    BY <1>2
  <2>2. reg'[t] <= TotalOf(Recorded, s)'
    BY <1>3, <1>5, <1>8, <2>1
  <2>3. QED
    BY <1>1, <1>3, <1>4, <2>1, <2>2 DEF BookInv
<1>9. CounterInv'
  BY <1>1, <1>3, CounterKeeps DEF QuietStep
<1>10. QED
  BY <1>3, <1>7, <1>8, <1>9, QuietStepKeeps

LEMMA DriversCountLoadInv ==
  ASSUME DriversInv, NEW t \in Drv!Threads, Drv!CountLoad(t)
  PROVE  DriversInv'
<1>1. thread_pc[t] = "count" /\ thread_pc' = [thread_pc EXCEPT ![t] = "countStore"]
      /\ reg' = [reg EXCEPT ![t] = counted[Drv!Side(t)]] /\ ~driver.atomic
      /\ UNCHANGED <<driver, ops, items, lapses, counted, finished, samples, crashed>>
  BY DEF Drv!CountLoad, Drv!Goto, Drv!CountsAtomically
<1>2. Drv!Side(t) \in Drv!Sides /\ counted[Drv!Side(t)] \in Nat
  BY SideFacts, DriversTypesOf
<1>3. QuietStep(t) /\ thread_pc'[t] = "countStore" /\ reg'[t] = counted[Drv!Side(t)]
  BY <1>1, <1>2, DriversTypesOf DEF QuietStep
<1>4. ProgressInv(t) /\ BookInv(t) /\ t \in driver.threads /\ driver # Drv!NoDriver
  BY <1>1, InLoop DEF DriversInv
<1>5. counted[Drv!Side(t)] <= TotalOf(Done, Drv!Side(t))
  BY <1>2 DEF DriversInv, TotalsInv
<1>7. ProgressInv(t)'
  BY <1>1, <1>3, <1>4 DEF ProgressInv
<1>8. ASSUME \A s \in Drv!Sides :
               TotalOf(Recorded, s)' = TotalOf(Recorded, s) /\ TotalOf(Done, s)' = TotalOf(Done, s)
      PROVE  BookInv(t)'
  <2>1. PICK s \in Drv!Sides : s = Drv!Side(t)
    BY <1>2
  <2>2. reg'[t] <= TotalOf(Done, s)'
    BY <1>3, <1>5, <1>8, <2>1
  <2>3. QED
    BY <1>1, <1>3, <1>4, <2>1, <2>2 DEF BookInv
<1>9. CounterInv'
  BY <1>1, <1>3, CounterKeeps DEF QuietStep
<1>10. QED
  BY <1>3, <1>7, <1>8, <1>9, QuietStepKeeps

LEMMA DriversAcceptedInv ==
  ASSUME DriversInv, NEW t \in Drv!Threads, thread_pc[t] = "call",
         Drv!Goto(t, Drv!AfterCall(t)), ops' = [ops EXCEPT ![t] = @ + 1],
         UNCHANGED <<driver, counted, finished, samples, reg, crashed>>,
         items' \in 0..driver.capacity,
         lapses' \in IF driver.reliable THEN {0} ELSE 0..MaxLapses,
         lapses' = 0 => /\ lapses = 0
                        /\ items' = IF Drv!Side(t) = "push" THEN items + 1 ELSE items - 1
  PROVE  DriversInv'
<1>1. thread_pc' = [thread_pc EXCEPT ![t] = Drv!AfterCall(t)]
  BY DEF Drv!Goto
<1>2. DriverOK(driver) /\ Drv!Side(t) \in Drv!Sides
  BY DriverIsOK, SideFacts
<1>3. /\ driver.records => Drv!AfterCall(t) = "record"
      /\ ~driver.records /\ Drv!Side(t) \in driver.counts => Drv!AfterCall(t) = "count"
      /\ ~driver.records /\ Drv!Side(t) \notin driver.counts => Drv!AfterCall(t) = "check"
  BY <1>2 DEF DriverOK, Drv!AfterCall, Drv!AfterRecord
<1>4. thread_pc'[t] = Drv!AfterCall(t) /\ ops'[t] = ops[t] + 1 /\ ops[t] \in Nat
      /\ Drv!AfterCall(t) \in {"record", "count", "check"}
  BY <1>1, <1>3, DriversTypesOf
<1>5. Recorded[t] = ops[t] /\ Done[t] = ops[t]
  BY BooksOf
<1>6. /\ Recorded'[t] = IF thread_pc'[t] \in {"record", "recordEnd"} THEN ops'[t] - 1 ELSE ops'[t]
      /\ Done'[t] = IF thread_pc'[t] \in {"record", "recordEnd", "count", "countStore"}
                    THEN ops'[t] - 1 ELSE ops'[t]
  BY DEF Recorded, Done
<1>7. PICK r \in {0, 1}, d \in {0, 1} :
        /\ Recorded'[t] = Recorded[t] + r /\ Done'[t] = Done[t] + d
        /\ driver.records => r = 0
        /\ Drv!Side(t) \in driver.counts => d = 0
  <2>1. CASE driver.records
    <3>1. Recorded'[t] = Recorded[t] + 0 /\ Done'[t] = Done[t] + 0
      BY <1>3, <1>4, <1>5, <1>6, <2>1
    <3>2. QED
      BY <3>1
  <2>2. CASE ~driver.records /\ Drv!Side(t) \in driver.counts
    <3>1. Recorded'[t] = Recorded[t] + 1 /\ Done'[t] = Done[t] + 0
      BY <1>3, <1>4, <1>5, <1>6, <2>2
    <3>2. QED
      BY <2>2, <3>1
  <2>3. CASE ~driver.records /\ Drv!Side(t) \notin driver.counts
    <3>1. Recorded'[t] = Recorded[t] + 1 /\ Done'[t] = Done[t] + 1
      BY <1>3, <1>4, <1>5, <1>6, <2>3
    <3>2. QED
      BY <2>3, <3>1
  <2>4. QED
    BY <2>1, <2>2, <2>3
<1>8. ProgressInv(t) /\ BookInv(t) /\ t \in driver.threads /\ driver # Drv!NoDriver
  BY InLoop DEF DriversInv
<1>9. DriversTypes'
  BY <1>1, <1>4, DriversTypesOf DEF DriversTypes, DriversInv
<1>10. StepOf(t, 1, r, d)
  BY <1>1, <1>4, <1>7, <1>8, <1>9 DEF StepOf
<1>11. \A s \in Drv!Sides :
         /\ counted'[s] <= TotalOf(Done, s)'
         /\ s \in driver.counts /\ driver.atomic => counted'[s] = TotalOf(Done, s)'
         /\ samples'[s] <= TotalOf(Recorded, s)'
         /\ Lone /\ driver.records => samples'[s] = TotalOf(Recorded, s)'
  <2> TAKE s \in Drv!Sides
  <2>1. PICK m, k : m = TotalOf(Recorded, s) /\ k = TotalOf(Done, s)
    OBVIOUS
  <2>2. m \in Nat /\ k \in Nat
    BY <2>1, InvBounds DEF TotalsBounded
  <2>3. /\ TotalOf(Recorded, s)' = m + IF s = Drv!Side(t) THEN r ELSE 0
        /\ TotalOf(Done, s)' = k + IF s = Drv!Side(t) THEN d ELSE 0
    BY <1>10, <2>1, StepTotals
  <2>4. /\ counted[s] <= k /\ (s \in driver.counts /\ driver.atomic => counted[s] = k)
        /\ samples[s] <= m /\ (Lone /\ driver.records => samples[s] = m)
    BY <2>1 DEF DriversInv, TotalsInv
  <2>5. counted[s] \in Nat /\ samples[s] \in Nat
    BY DriversTypesOf
  <2>6. QED
    BY <1>7, <2>2, <2>3, <2>4, <2>5
<1>12. finished' = Cardinality({p \in Producers \cap driver.threads : thread_pc'[p] = "ended"})
  BY <1>4, <1>10, EndedCount
<1>13. TotalsInv'
  BY <1>10, <1>11, <1>12, TotalsKeep
<1>14. ProgressInv(t)'
  <2>1. t \in Producers \/ driver.until = "quota" => ops[t] < Quota
    BY <1>8 DEF ProgressInv
  <2>2. ops'[t] > 0 /\ (ops[t] < Quota => ops'[t] <= Quota)
    BY <1>4, DriversTypesOf
  <2>3. QED
    BY <1>4, <1>8, <2>1, <2>2 DEF ProgressInv
<1>15. BookInv(t)'
  <2>1. thread_pc'[t] = "record" => driver.records
    BY <1>2, <1>3, <1>4 DEF DriverOK
  <2>2. thread_pc'[t] = "count" => Drv!Side(t) \in driver.counts
    BY <1>2, <1>3, <1>4 DEF DriverOK
  <2>3. QED
    BY <1>4, <1>8, <2>1, <2>2 DEF BookInv
<1>16. CounterInv'
  BY <1>1, <1>4, DriversTypesOf, CounterKeeps
<1>17. \A s \in Drv!Sides : samples'[s] = samples[s]
  OBVIOUS
<1>18. QED
  BY <1>10, <1>13, <1>14, <1>15, <1>16, <1>17, AccountsInv

LEMMA DriversCallInv ==
  ASSUME DriversInv, NEW t \in Drv!Threads, Drv!Call(t)
  PROVE  DriversInv'
<1>1. /\ items \in Nat /\ driver.capacity \in Nat /\ items <= driver.capacity
      /\ lapses \in IF driver.reliable THEN {0} ELSE 0..MaxLapses
  BY DriversTypesOf DEF DriversInv, DriversTypes
<1>2. CASE t \in Producers /\ Drv!PushAccepted(t)
  <2>1. Drv!Side(t) = "push"
    BY <1>2 DEF Drv!Side
  <2>2. items' \in 0..driver.capacity /\ items' = items + 1 /\ lapses' = lapses
    BY <1>1, <1>2 DEF Drv!PushAccepted, Drv!Accepted, Drv!HasRoom
  <2>3. QED
    BY <1>1, <1>2, <2>1, <2>2, DriversAcceptedInv DEF Drv!PushAccepted, Drv!Accepted
<1>3. CASE t \in Consumers /\ Drv!PopAccepted(t)
  <2>1. Drv!Side(t) = "pop"
    BY <1>3, DriversAssumption DEF Drv!Side
  <2>2. items' \in 0..driver.capacity /\ items' = items - 1 /\ lapses' = lapses
    BY <1>1, <1>3 DEF Drv!PopAccepted, Drv!Accepted
  <2>3. QED
    BY <1>1, <1>3, <2>1, <2>2, DriversAcceptedInv DEF Drv!PopAccepted, Drv!Accepted
<1>4. QED
  BY <1>2, <1>3 DEF Drv!Call

\* A call on which the queue goes wrong counts as a call; of the channel only
\* the room it has is known from then on.
LEMMA DriversLapseInv ==
  ASSUME DriversInv, NEW t \in Drv!Threads, Drv!Lapse(t)
  PROVE  DriversInv'
<1>1. PICK left \in 0..driver.capacity : Drv!Accepted(t, left)
  BY DEF Drv!Lapse
<1>2. lapses' \in 0..MaxLapses /\ lapses' # 0 /\ ~driver.reliable
  BY DriversAssumption DEF Drv!Lapse, DriversInv, DriversTypes
<1>3. items' \in 0..driver.capacity
  BY <1>1 DEF Drv!Accepted
<1>4. QED
  BY <1>1, <1>2, <1>3, DriversAcceptedInv DEF Drv!Accepted

LEMMA DriversRecordEndInv ==
  ASSUME DriversInv, NEW t \in Drv!Threads, Drv!RecordEnd(t)
  PROVE  DriversInv'
<1>1. thread_pc[t] = "recordEnd" /\ thread_pc' = [thread_pc EXCEPT ![t] = Drv!AfterRecord(t)]
      /\ samples' = (IF reg[t] < MaxSamples
                     THEN [samples EXCEPT ![Drv!Side(t)] = reg[t] + 1] ELSE samples)
      /\ reg' = [reg EXCEPT ![t] = 0]
      /\ UNCHANGED <<driver, ops, items, lapses, counted, finished, crashed>>
  BY DEF Drv!RecordEnd, Drv!Goto
<1>2. DriverOK(driver) /\ Drv!Side(t) \in Drv!Sides
  BY DriverIsOK, SideFacts
<1>3. /\ Drv!Side(t) \in driver.counts => Drv!AfterRecord(t) = "count"
      /\ Drv!Side(t) \notin driver.counts => Drv!AfterRecord(t) = "check"
  BY DEF Drv!AfterRecord
<1>4. thread_pc'[t] = Drv!AfterRecord(t) /\ reg'[t] = 0 /\ ops[t] \in Nat /\ reg[t] \in Nat
      /\ Drv!AfterRecord(t) \in {"count", "check"}
  BY <1>1, <1>3, DriversTypesOf
<1>5. Recorded[t] = ops[t] - 1 /\ Done[t] = ops[t] - 1
  BY <1>1, BooksOf
<1>6. /\ Recorded'[t] = IF thread_pc'[t] \in {"record", "recordEnd"} THEN ops'[t] - 1 ELSE ops'[t]
      /\ Done'[t] = IF thread_pc'[t] \in {"record", "recordEnd", "count", "countStore"}
                    THEN ops'[t] - 1 ELSE ops'[t]
  BY DEF Recorded, Done
<1>7. PICK d \in {0, 1} :
        /\ Recorded'[t] = Recorded[t] + 1 /\ Done'[t] = Done[t] + d
        /\ Drv!Side(t) \in driver.counts => d = 0
  <2>1. CASE Drv!Side(t) \in driver.counts
    <3>1. Recorded'[t] = Recorded[t] + 1 /\ Done'[t] = Done[t] + 0
      BY <1>1, <1>3, <1>4, <1>5, <1>6, <2>1
    <3>2. QED
      BY <3>1
  <2>2. CASE Drv!Side(t) \notin driver.counts
    <3>1. Recorded'[t] = Recorded[t] + 1 /\ Done'[t] = Done[t] + 1
      BY <1>1, <1>3, <1>4, <1>5, <1>6, <2>2
    <3>2. QED
      BY <2>2, <3>1
  <2>3. QED
    BY <2>1, <2>2
<1>8. ProgressInv(t) /\ BookInv(t) /\ t \in driver.threads /\ driver # Drv!NoDriver
  BY <1>1, InLoop DEF DriversInv
<1>9. DriversTypes'
  <2>1. samples' \in [Drv!Sides -> Nat]
    BY <1>1, <1>2, <1>4, DriversTypesOf
  <2>2. QED
    BY <1>1, <1>4, <2>1, DriversTypesOf DEF DriversTypes, DriversInv
<1>10. StepOf(t, 0, 1, d)
  BY <1>1, <1>4, <1>7, <1>8, <1>9 DEF StepOf
<1>11. PICK s0 \in Drv!Sides : s0 = Drv!Side(t)
  BY <1>2
<1>12. /\ \A s \in Drv!Sides : s # s0 => samples'[s] = samples[s]
       /\ samples'[s0] = IF reg[t] < MaxSamples THEN reg[t] + 1 ELSE samples[s0]
  BY <1>1, <1>11, DriversTypesOf
<1>13. /\ reg[t] <= TotalOf(Recorded, s0)
       /\ Lone => reg[t] = samples[s0]
  BY <1>1, <1>8, <1>11 DEF BookInv
<1>14. Lone => reg[t] < MaxSamples
  <2>1. SUFFICES ASSUME Lone PROVE reg[t] < MaxSamples
    OBVIOUS
  <2>2. PICK m, k : m = TotalOf(Recorded, s0) /\ k = TotalOf(ops, s0)
    OBVIOUS
  <2>3. m \in Nat /\ k \in Nat /\ m < k /\ k <= Drv!Expected
    BY <1>1, <1>11, <2>1, <2>2, InvBounds, LoneIsReliable DEF TotalsBounded
  <2>4. Drv!Expected = Quota
    BY <2>1, ExpectedFacts DEF DriversInv, DriversTypes
  <2>5. QED
    BY <1>4, <1>13, <2>2, <2>3, <2>4, DriversAssumption
<1>15. \A s \in Drv!Sides :
         /\ counted'[s] <= TotalOf(Done, s)'
         /\ s \in driver.counts /\ driver.atomic => counted'[s] = TotalOf(Done, s)'
         /\ samples'[s] <= TotalOf(Recorded, s)'
         /\ Lone /\ driver.records => samples'[s] = TotalOf(Recorded, s)'
  <2> TAKE s \in Drv!Sides
  <2>1. PICK m, k : m = TotalOf(Recorded, s) /\ k = TotalOf(Done, s)
    OBVIOUS
  <2>2. m \in Nat /\ k \in Nat
    BY <2>1, InvBounds DEF TotalsBounded
  <2>3. /\ TotalOf(Recorded, s)' = m + IF s = s0 THEN 1 ELSE 0
        /\ TotalOf(Done, s)' = k + IF s = s0 THEN d ELSE 0
    BY <1>10, <1>11, <2>1, StepTotals
  <2>4. /\ counted[s] <= k /\ (s \in driver.counts /\ driver.atomic => counted[s] = k)
        /\ samples[s] <= m /\ (Lone /\ driver.records => samples[s] = m)
    BY <2>1 DEF DriversInv, TotalsInv
  <2>5. counted[s] \in Nat /\ samples[s] \in Nat
    BY DriversTypesOf
  <2>6. counted'[s] = counted[s]
    BY <1>1
  <2>7. CASE s = s0
    BY <1>4, <1>7, <1>11, <1>12, <1>13, <1>14, <2>1, <2>2, <2>3, <2>4, <2>5, <2>6, <2>7
  <2>8. CASE s # s0
    BY <1>12, <2>2, <2>3, <2>4, <2>5, <2>6, <2>8
  <2>9. QED
    BY <2>7, <2>8
<1>16. finished' = Cardinality({p \in Producers \cap driver.threads : thread_pc'[p] = "ended"})
  BY <1>1, <1>4, <1>10, EndedCount
<1>17. items' = IF Drv!Side(t) = "push" THEN items + 0 ELSE items - 0
  BY <1>1, DriversTypesOf
<1>18. TotalsInv'
  BY <1>10, <1>15, <1>16, <1>17, TotalsKeep
<1>19. ProgressInv(t)'
  BY <1>1, <1>4, <1>8 DEF ProgressInv
<1>20. BookInv(t)'
  BY <1>1, <1>3, <1>4, <1>8 DEF BookInv
<1>21. CounterInv'
  BY <1>1, <1>4, DriversTypesOf, CounterKeeps
<1>22. \A s \in Drv!Sides :
         samples'[s] = samples[s] \/ (s = Drv!Side(t) /\ thread_pc[t] = "recordEnd")
  BY <1>1, <1>11, <1>12
<1>23. QED
  BY <1>10, <1>18, <1>19, <1>20, <1>21, <1>22, AccountsInv

\* A call is counted: the counter becomes v.
LEMMA DriversCountInv ==
  ASSUME DriversInv, NEW t \in Drv!Threads, NEW v \in Nat,
         thread_pc[t] \in {"count", "countStore"}, Drv!Goto(t, "check"),
         counted' = [counted EXCEPT ![Drv!Side(t)] = v],
         v <= TotalOf(Done, Drv!Side(t)) + 1,
         driver.atomic => v = TotalOf(Done, Drv!Side(t)) + 1,
         reg' \in [Drv!Threads -> Nat], reg'[t] = 0,
         \A u \in Drv!Threads : u # t => reg'[u] = reg[u],
         UNCHANGED <<driver, ops, items, lapses, finished, samples, crashed>>
  PROVE  DriversInv'
<1>1. thread_pc' = [thread_pc EXCEPT ![t] = "check"]
  BY DEF Drv!Goto
<1>2. Drv!Side(t) \in Drv!Sides
  BY SideFacts
<1>3. thread_pc'[t] = "check" /\ ops[t] \in Nat
  BY <1>1, DriversTypesOf
<1>4. Recorded[t] = ops[t] /\ Done[t] = ops[t] - 1
  BY BooksOf
<1>5. Recorded'[t] = Recorded[t] + 0 /\ Done'[t] = Done[t] + 1
  BY <1>3, <1>4 DEF Recorded, Done
<1>6. ProgressInv(t) /\ BookInv(t) /\ t \in driver.threads /\ driver # Drv!NoDriver
  BY InLoop DEF DriversInv
<1>7. DriversTypes'
  <2>1. counted' \in [Drv!Sides -> Nat]
    BY <1>2, DriversTypesOf
  <2>2. QED
    BY <1>1, <2>1, DriversTypesOf DEF DriversTypes, DriversInv
<1>8. StepOf(t, 0, 0, 1)
  BY <1>1, <1>3, <1>5, <1>6, <1>7 DEF StepOf
<1>9. PICK s0 \in Drv!Sides : s0 = Drv!Side(t)
  BY <1>2
<1>10. counted'[s0] = v /\ \A s \in Drv!Sides : s # s0 => counted'[s] = counted[s]
  BY <1>9, DriversTypesOf
<1>11. \A s \in Drv!Sides :
         /\ counted'[s] <= TotalOf(Done, s)'
         /\ s \in driver.counts /\ driver.atomic => counted'[s] = TotalOf(Done, s)'
         /\ samples'[s] <= TotalOf(Recorded, s)'
         /\ Lone /\ driver.records => samples'[s] = TotalOf(Recorded, s)'
  <2> TAKE s \in Drv!Sides
  <2>1. PICK m, k : m = TotalOf(Recorded, s) /\ k = TotalOf(Done, s)
    OBVIOUS
  <2>2. m \in Nat /\ k \in Nat
    BY <2>1, InvBounds DEF TotalsBounded
  <2>3. /\ TotalOf(Recorded, s)' = m + IF s = s0 THEN 0 ELSE 0
        /\ TotalOf(Done, s)' = k + IF s = s0 THEN 1 ELSE 0
    BY <1>8, <1>9, <2>1, StepTotals
  <2>4. /\ counted[s] <= k /\ (s \in driver.counts /\ driver.atomic => counted[s] = k)
        /\ samples[s] <= m /\ (Lone /\ driver.records => samples[s] = m)
    BY <2>1 DEF DriversInv, TotalsInv
  <2>5. CASE s = s0
    BY <1>9, <1>10, <2>1, <2>2, <2>3, <2>4, <2>5
  <2>6. CASE s # s0
    BY <1>10, <2>2, <2>3, <2>4, <2>6
  <2>7. QED
    BY <2>5, <2>6
<1>12. finished' = Cardinality({p \in Producers \cap driver.threads : thread_pc'[p] = "ended"})
  BY <1>3, <1>8, EndedCount
<1>13. items' = IF Drv!Side(t) = "push" THEN items + 0 ELSE items - 0
  BY DriversTypesOf
<1>14. TotalsInv'
  BY <1>8, <1>11, <1>12, <1>13, TotalsKeep
<1>15. ProgressInv(t)'
  BY <1>3, <1>6 DEF ProgressInv
<1>16. BookInv(t)'
  BY <1>3, <1>6 DEF BookInv
<1>17. CounterInv'
  <2>1. CASE s0 # "pop"
    <3>1. counted'["pop"] = counted["pop"]
      BY <1>10, <2>1 DEF Drv!Sides
    <3>2. QED
      BY <1>1, <1>3, <3>1, DriversTypesOf, CounterKeeps
  <2>2. CASE s0 = "pop"
    <3>1. SUFFICES ASSUME lapses = 0, driver.until = "counter",
                          NEW c \in Consumers, thread_pc'[c] = "ended"
                   PROVE  FALSE
      BY DEF CounterInv
    <3>2. thread_pc[c] = "ended"
      BY <1>1, <1>3, <3>1, DriversTypesOf DEF Drv!Threads
    <3>3. counted["pop"] = Drv!Expected
      BY <3>1, <3>2 DEF DriversInv, CounterInv
    <3>4. PICK k, m : k = TotalOf(Done, s0) /\ m = TotalOf(ops, s0)
      OBVIOUS
    <3>5. k \in Nat /\ m \in Nat /\ Drv!Expected \in Nat /\ k < m /\ m <= Drv!Expected
      BY <1>9, <2>2, <3>1, <3>4, InvBounds DEF TotalsBounded
    <3>6. counted[s0] <= k
      BY <3>4 DEF DriversInv, TotalsInv
    <3>7. QED
      BY <2>2, <3>3, <3>5, <3>6
  <2>3. QED
    BY <2>1, <2>2
<1>18. \A s \in Drv!Sides : samples'[s] = samples[s]
  OBVIOUS
<1>19. QED
  BY <1>8, <1>14, <1>15, <1>16, <1>17, <1>18, AccountsInv

LEMMA DriversCountAtomicInv ==
  ASSUME DriversInv, NEW t \in Drv!Threads, Drv!CountAtomic(t)
  PROVE  DriversInv'
<1>1. thread_pc[t] = "count" /\ driver.atomic /\ Drv!Goto(t, "check")
      /\ counted' = [counted EXCEPT ![Drv!Side(t)] = @ + 1]
      /\ UNCHANGED <<driver, ops, items, lapses, finished, samples, reg, crashed>>
  BY DEF Drv!CountAtomic, Drv!CountsAtomically
<1>2. PICK s \in Drv!Sides : s = Drv!Side(t)
  BY SideFacts
<1>3. PICK v : v = counted[s] + 1
  OBVIOUS
<1>4. BookInv(t)
  BY DEF DriversInv
<1>5. counted[s] = TotalOf(Done, s)
  BY <1>1, <1>2, <1>4 DEF BookInv, DriversInv, TotalsInv
<1>6. v \in Nat /\ counted[s] \in Nat /\ counted' = [counted EXCEPT ![s] = v]
  BY <1>1, <1>2, <1>3, DriversTypesOf
<1>7. v = TotalOf(Done, s) + 1
  BY <1>3, <1>5
<1>8. v <= TotalOf(Done, s) + 1
  BY <1>6, <1>7
<1>9. reg[t] = 0 /\ reg' \in [Drv!Threads -> Nat]
  BY <1>1, <1>4, DriversTypesOf DEF BookInv
<1>10. QED
  BY <1>1, <1>2, <1>6, <1>7, <1>8, <1>9, DriversCountInv

LEMMA DriversCountStoreInv ==
  ASSUME DriversInv, NEW t \in Drv!Threads, Drv!CountStore(t)
  PROVE  DriversInv'
<1>1. thread_pc[t] = "countStore" /\ Drv!Goto(t, "check")
      /\ counted' = [counted EXCEPT ![Drv!Side(t)] = reg[t] + 1]
      /\ reg' = [reg EXCEPT ![t] = 0]
      /\ UNCHANGED <<driver, ops, items, lapses, finished, samples, crashed>>
  BY DEF Drv!CountStore
<1>2. PICK s \in Drv!Sides : s = Drv!Side(t)
  BY SideFacts
<1>3. PICK v : v = reg[t] + 1
  OBVIOUS
<1>4. BookInv(t)
  BY DEF DriversInv
<1>5. reg[t] <= TotalOf(Done, s) /\ ~driver.atomic
  BY <1>1, <1>2, <1>4 DEF BookInv
<1>6. v \in Nat /\ reg[t] \in Nat /\ counted' = [counted EXCEPT ![s] = v]
  BY <1>1, <1>2, <1>3, DriversTypesOf
<1>7. PICK k \in Nat : k = TotalOf(Done, s)
  BY InvBounds DEF TotalsBounded
<1>8. v <= TotalOf(Done, s) + 1
  BY <1>3, <1>5, <1>6, <1>7
<1>9. reg'[t] = 0 /\ reg' \in [Drv!Threads -> Nat]
      /\ \A u \in Drv!Threads : u # t => reg'[u] = reg[u]
  BY <1>1, DriversTypesOf
<1>10. QED
  BY <1>1, <1>2, <1>5, <1>6, <1>8, <1>9, DriversCountInv

\* While all threads have made no call the totals are nothing.
LEMMA ZeroTotals ==
  ASSUME NEW f, \A t \in Drv!Threads : f[t] = 0
  PROVE  \A s \in Drv!Sides : TotalOf(f, s) = 0
<1> TAKE s \in Drv!Sides
<1>1. IsFiniteSet(Members(s)) /\ \A t \in Members(s) : f[t] = IF t \in {} THEN 0 ELSE 0
  BY SideFacts
<1>2. SumFunctionOnSet(f, Members(s)) = 0 * Cardinality({})
  BY <1>1, SumOfConstant
<1>3. QED
  BY <1>2, FS_EmptySet DEF TotalOf

LEMMA DriversInitInv == Drv!Init => DriversInv
<1> SUFFICES ASSUME Drv!Init PROVE DriversInv
  OBVIOUS
<1>1. /\ driver = Drv!NoDriver /\ items = 0 /\ lapses = 0 /\ finished = 0 /\ crashed = FALSE
      /\ thread_pc = [t \in Drv!Threads |-> "new"]
      /\ ops = [t \in Drv!Threads |-> 0] /\ reg = [t \in Drv!Threads |-> 0]
      /\ counted = [s \in Drv!Sides |-> 0] /\ samples = [s \in Drv!Sides |-> 0]
  BY DEF Drv!Init
<1>2. /\ driver.capacity = 0 /\ driver.threads = {} /\ driver.until = "quota"
      /\ driver.counts = {} /\ driver.reliable
  BY <1>1 DEF Drv!NoDriver
<1>3. DriversTypes
  <2>1. items \in 0..driver.capacity
    BY <1>1, <1>2
  <2>2. driver \in Drv!DriverSet \cup {Drv!NoDriver}
    BY <1>1
  <2>3. thread_pc \in [Drv!Threads -> {"new", "check", "call", "record", "recordEnd",
                                       "count", "countStore", "ended"}]
    BY <1>1
  <2>4. QED
    BY <1>1, <1>2, <2>1, <2>2, <2>3 DEF DriversTypes
<1>4. \A t \in Drv!Threads : ops[t] = 0 /\ Recorded[t] = 0 /\ Done[t] = 0
  BY <1>1 DEF Recorded, Done
<1>5. \A s \in Drv!Sides : TotalOf(ops, s) = 0 /\ TotalOf(Recorded, s) = 0 /\ TotalOf(Done, s) = 0
  <2>1. PICK made, re, do : made = ops /\ re = Recorded /\ do = Done
    OBVIOUS
  <2>2. \A t \in Drv!Threads : made[t] = 0 /\ re[t] = 0 /\ do[t] = 0
    BY <1>4, <2>1
  <2>3. \A s \in Drv!Sides : TotalOf(made, s) = 0 /\ TotalOf(re, s) = 0 /\ TotalOf(do, s) = 0
    BY <2>2, ZeroTotals
  <2>4. QED
    BY <2>1, <2>3
<1>6. \A t \in Drv!Threads : ProgressInv(t) /\ BookInv(t)
  BY <1>1, <1>2, DriversAssumption DEF ProgressInv, BookInv
<1>7. TotalsInv
  <2>1. {p \in Producers \cap driver.threads : thread_pc[p] = "ended"} = {}
    BY <1>2
  <2>2. finished = Cardinality({p \in Producers \cap driver.threads : thread_pc[p] = "ended"})
    BY <1>1, <2>1, FS_EmptySet
  <2>3. items + TotalOf(ops, "pop") = TotalOf(ops, "push")
    BY <1>1, <1>5 DEF Drv!Sides
  <2>4. QED
    BY <1>1, <1>5, <2>2, <2>3 DEF TotalsInv
<1>8. CounterInv
  BY <1>2 DEF CounterInv
<1>9. QED
  BY <1>3, <1>6, <1>7, <1>8 DEF DriversInv

LEMMA DriversLaunchInv ==
  ASSUME DriversInv, NEW d \in Drv!DriverSet, Drv!Launch(d)
  PROVE  DriversInv'
<1>1. /\ driver = Drv!NoDriver /\ driver' = d
      /\ thread_pc' = [t \in Drv!Threads |-> IF t \in d.threads THEN "check" ELSE "ended"]
      /\ UNCHANGED <<ops, items, lapses, counted, finished, samples, reg, crashed>>
  BY DEF Drv!Launch
<1>2. DriverOK(d)
  BY EveryDriverOK
<1>3. driver.capacity = 0 /\ driver.threads = {} /\ driver.reliable
  BY <1>1 DEF Drv!NoDriver
<1>4. d # Drv!NoDriver
  <2>1. d.threads \in {Drv!Threads, {LoneProducer, LoneConsumer}}
    BY DEF Drv!DriverSet, Drv!test_mpmc_concurrent,
       Drv!test_concurrent_enqueue_dequeue, Drv!benchmark_spsc, Drv!benchmark_mpmc,
       Drv!benchmark_single_threaded, Drv!benchmark_concurrent
  <2>2. LoneProducer \in d.threads
    BY <2>1, DriversAssumption DEF Drv!Threads
  <2>3. QED
    BY <2>2 DEF Drv!NoDriver
<1>5. \A t \in Drv!Threads : thread_pc[t] = "new" /\ ops[t] = 0 /\ reg[t] = 0
  <2> TAKE t \in Drv!Threads
  <2>1. ProgressInv(t) /\ BookInv(t)
    BY DEF DriversInv
  <2>2. QED
    BY <1>1, <1>3, <2>1 DEF ProgressInv, BookInv
<1>6. DriversTypes'
  <2>1. items = 0 /\ lapses = 0
    BY <1>3, DriversTypesOf DEF DriversInv, DriversTypes
  <2>2. lapses' \in IF d.reliable THEN {0} ELSE 0..MaxLapses
    BY <1>1, <2>1, DriversAssumption
  <2>3. QED
    BY <1>1, <1>2, <2>1, <2>2, DriversTypesOf DEF DriversTypes, DriversInv, DriverOK
<1>7. \A t \in Drv!Threads : thread_pc'[t] = IF t \in d.threads THEN "check" ELSE "ended"
  BY <1>1
<1>8. \A t \in Drv!Threads : ProgressInv(t)' /\ BookInv(t)'
  BY <1>1, <1>2, <1>4, <1>5, <1>7, DriversTypesOf DEF ProgressInv, BookInv
<1>9. \A t \in Drv!Threads :
        /\ ops[t] = 0 /\ Recorded[t] = 0 /\ Done[t] = 0
        /\ ops'[t] = 0 /\ Recorded'[t] = 0 /\ Done'[t] = 0
  BY <1>1, <1>5, <1>7 DEF Recorded, Done
<1>10. \A s \in Drv!Sides :
         /\ TotalOf(ops, s) = 0 /\ TotalOf(Recorded, s) = 0 /\ TotalOf(Done, s) = 0
         /\ TotalOf(ops, s)' = 0 /\ TotalOf(Recorded, s)' = 0 /\ TotalOf(Done, s)' = 0
  <2>1. PICK made, re, do : made = ops /\ re = Recorded /\ do = Done
    OBVIOUS
  <2>2. PICK made1, re1, do1 : made1 = ops' /\ re1 = Recorded' /\ do1 = Done'
    OBVIOUS
  <2>3. \A t \in Drv!Threads : made[t] = 0 /\ re[t] = 0 /\ do[t] = 0 /\ made1[t] = 0 /\ re1[t] = 0 /\ do1[t] = 0
    BY <1>9, <2>1, <2>2
  <2>4. \A s \in Drv!Sides : TotalOf(made, s) = 0 /\ TotalOf(re, s) = 0 /\ TotalOf(do, s) = 0
    BY <2>3, ZeroTotals
  <2>5. \A s \in Drv!Sides : TotalOf(made1, s) = 0 /\ TotalOf(re1, s) = 0 /\ TotalOf(do1, s) = 0
    BY <2>3, ZeroTotals
  <2>6. QED
    BY <2>1, <2>2, <2>4, <2>5
<1>11. \A s \in Drv!Sides : counted[s] = 0 /\ samples[s] = 0
  <2> TAKE s \in Drv!Sides
  <2>1. counted[s] <= 0 /\ samples[s] <= 0
    BY <1>10 DEF DriversInv, TotalsInv
  <2>2. QED
    BY <2>1, DriversTypesOf
<1>12. TotalsInv'
  <2>1. PICK E : E = {p \in Producers \cap driver.threads : thread_pc[p] = "ended"}
    OBVIOUS
  <2>2. E = {} /\ finished = Cardinality(E)
    BY <1>3, <2>1 DEF DriversInv, TotalsInv
  <2>3. {p \in Producers \cap driver'.threads : thread_pc'[p] = "ended"} = {}
    BY <1>1, <1>7 DEF Drv!Threads
  <2>4. finished' = Cardinality({p \in Producers \cap driver'.threads : thread_pc'[p] = "ended"})
    BY <1>1, <2>2, <2>3
  <2>5. lapses = 0 => items + TotalOf(ops, "pop") = TotalOf(ops, "push")
    BY DEF DriversInv, TotalsInv
  <2>6. lapses' = 0 => items' + TotalOf(ops, "pop")' = TotalOf(ops, "push")'
    BY <1>1, <1>10, <2>5 DEF Drv!Sides
  <2>7. \A s \in Drv!Sides : counted'[s] = 0 /\ samples'[s] = 0
    BY <1>1, <1>11
  <2>8. QED
    BY <1>10, <2>4, <2>6, <2>7 DEF TotalsInv
<1>13. CounterInv'
  <2>1. SUFFICES ASSUME d.until = "counter", NEW c \in Consumers, thread_pc'[c] = "ended"
                 PROVE  FALSE
    BY <1>1 DEF CounterInv
  <2>2. c \in d.threads /\ c \in Drv!Threads
    BY <1>2, <2>1 DEF DriverOK, Drv!Threads
  <2>3. QED
    BY <1>7, <2>1, <2>2
<1>14. QED
  BY <1>6, <1>8, <1>12, <1>13 DEF DriversInv

LEMMA DriversCrashInv ==
  ASSUME DriversInv, crashed' \in BOOLEAN,
         UNCHANGED <<driver, thread_pc, ops, items, lapses, counted, finished, samples, reg>>
  PROVE  DriversInv'
<1>1. Recorded' = Recorded /\ Done' = Done
  BY DEF Recorded, Done
<1>2. \A s : /\ TotalOf(ops, s)' = TotalOf(ops, s) /\ TotalOf(Recorded, s)' = TotalOf(Recorded, s)
             /\ TotalOf(Done, s)' = TotalOf(Done, s)
  BY <1>1
<1>3. Drv!Expected' = Drv!Expected
  BY DEF Drv!Expected
<1>4. \A t \in Drv!Threads : ProgressInv(t)' /\ BookInv(t)'
  <2> TAKE t \in Drv!Threads
  <2>1. ProgressInv(t) /\ BookInv(t)
    BY DEF DriversInv
  <2>2. PICK s : s = Drv!Side(t)
    OBVIOUS
  <2>3. ProgressInv(t)'
    BY <2>1 DEF ProgressInv
  <2>4. BookInv(t)'
    BY <1>2, <2>1, <2>2 DEF BookInv, Lone
  <2>5. QED
    BY <2>3, <2>4
<1>5. TotalsInv'
  BY <1>2 DEF DriversInv, TotalsInv, Lone
<1>6. CounterInv'
  BY <1>3 DEF DriversInv, CounterInv
<1>7. DriversTypes'
  BY DEF DriversInv, DriversTypes
<1>8. QED
  BY <1>4, <1>5, <1>6, <1>7 DEF DriversInv

LEMMA DriversNextInv == DriversInv /\ [Drv!Next]_drvVars => DriversInv'
<1> SUFFICES ASSUME DriversInv, [Drv!Next]_drvVars PROVE DriversInv'
  OBVIOUS
<1>1. CASE UNCHANGED drvVars
  BY <1>1, DriversCrashInv DEF drvVars, DriversInv, DriversTypes
<1>2. CASE \E d \in Drv!DriverSet : Drv!Launch(d)
  BY <1>2, DriversLaunchInv
<1>3. CASE \E t \in Drv!Threads : Drv!Advance(t) \/ Drv!Call(t) \/ Drv!Lapse(t)
  BY <1>3, DriversLapseInv, DriversCheckInv, DriversLeaveInv, DriversRecordBeginInv, DriversRecordEndInv,
     DriversCountAtomicInv, DriversCountLoadInv, DriversCountStoreInv, DriversCallInv
     DEF Drv!Advance
<1>4. CASE \E c \in Consumers : Drv!PopFails(c)
  BY <1>4, DriversFailsInv DEF Drv!Threads
<1>5. CASE \E t, u \in Drv!Threads : Drv!RecordCrash(t, u)
  BY <1>5, DriversCrashInv DEF Drv!RecordCrash
<1>6. QED
  BY <1>1, <1>2, <1>3, <1>4, <1>5 DEF Drv!Next

LEMMA DriversInvariance == ProgramsSpec => []DriversInv
<1>1. ProgramsInit => DriversInv
  BY DriversInitInv DEF ProgramsInit
<1>2. [ProgramsNext]_ProgramsVars => [Drv!Next]_drvVars
  BY DEF ProgramsNext, ProgramsVars
<1>3. DriversInv /\ [ProgramsNext]_ProgramsVars => DriversInv'
  BY <1>2, DriversNextInv
<1>4. QED
  BY <1>1, <1>3, PTL DEF ProgramsSpec

(* For any number of threads and any quota: a test or benchmark that ends   *)
(* has pushed every value and its atomic counters have counted the calls.   *)
(* If the queue did not go wrong on a call, every value was also taken out, *)
(* and all counters are exact, also a plain one that can lose increments.   *)
THEOREM CountsAreExact == ProgramsSpec => []CountsExact
<1>1. DriversInv => CountsExact
  <2> SUFFICES ASSUME DriversInv, Drv!Ended
               PROVE  /\ Drv!Total("push") = Drv!Expected
                      /\ driver.atomic => \A s \in driver.counts : counted[s] = Drv!Total(s)
                      /\ lapses = 0 => /\ items = 0 /\ Drv!Total("pop") = Drv!Expected
                                       /\ \A s \in driver.counts : counted[s] = Drv!Expected
    BY DEF CountsExact, Drv!CountsExact
  <2>1. \A t \in Drv!Threads : thread_pc[t] = "ended"
    BY DEF Drv!Ended
  <2>2. LoneConsumer \in Drv!Threads /\ LoneConsumer \in Consumers
    BY DriversAssumption DEF Drv!Threads
  <2>3. "push" \in Drv!Sides /\ "pop" \in Drv!Sides /\ DriversTypes
    BY DEF Drv!Sides, DriversInv
  <2>4. \A s \in Drv!Sides : \A t \in Members(s) : t \in Drv!Threads /\ ProgressInv(t)
    BY SideFacts DEF DriversInv
  <2>5. PICK n1, n2, x : n1 = TotalOf(ops, "push") /\ n2 = TotalOf(ops, "pop") /\ x = Drv!Expected
    OBVIOUS
  <2>6. n1 = x /\ x \in Nat /\ n2 \in Nat
    <3>1. \A t \in Members("push") : t \in driver.threads => ops[t] >= Quota
      BY <2>1, <2>3, <2>4 DEF ProgressInv, Members
    <3>2. n1 >= x
      BY <2>3, <2>5, <3>1, QuotaTotals
    <3>3. n1 \in Nat /\ n2 \in Nat /\ x \in Nat /\ n1 <= x
      BY <2>3, <2>5, InvBounds DEF TotalsBounded
    <3>4. QED
      BY <3>2, <3>3
  <2>7. ASSUME NEW s \in Drv!Sides PROVE TotalOf(Done, s) = TotalOf(ops, s)
    <3>1. \A t \in Drv!Threads : Done[t] = ops[t]
      BY <2>1, BooksOf
    <3>2. PICK made, do : made = ops /\ do = Done
      OBVIOUS
    <3>3. \A t \in Members(s) : do[t] = made[t]
      BY <2>4, <3>1, <3>2
    <3>4. IsFiniteSet(Members(s))
      BY SideFacts
    <3>5. TotalOf(do, s) = TotalOf(made, s)
      BY <3>3, <3>4, SumSame DEF TotalOf
    <3>6. QED
      BY <3>2, <3>5
  <2>8. ASSUME driver.atomic, NEW s \in driver.counts PROVE counted[s] = TotalOf(ops, s)
    <3>1. s \in Drv!Sides
      BY <2>8, DriverIsOK DEF DriverOK
    <3>2. QED
      BY <2>7, <2>8, <3>1 DEF DriversInv, TotalsInv
  <2>9. ASSUME lapses = 0
        PROVE  /\ items = 0 /\ n2 = x
               /\ \A s \in driver.counts : counted[s] = x
    <3>1. n2 <= x /\ items + n2 = n1 /\ items \in Nat
      BY <2>3, <2>5, <2>9, InvBounds, DriversTypesOf DEF TotalsBounded, DriversInv, TotalsInv
    <3>2. n2 >= x
      <4>1. CASE driver.until = "counter"
        <5>1. counted["pop"] = x
          BY <2>1, <2>2, <2>5, <2>9, <4>1 DEF DriversInv, CounterInv
        <5>2. counted["pop"] <= n2
          BY <2>3, <2>5, <2>7 DEF DriversInv, TotalsInv
        <5>3. QED
          BY <2>6, <5>1, <5>2
      <4>2. CASE driver.until # "counter"
        <5>1. \A t \in Members("pop") : t \in driver.threads => ops[t] >= Quota
          BY <2>1, <2>3, <2>4, <4>2 DEF ProgressInv
        <5>2. QED
          BY <2>3, <2>5, <5>1, QuotaTotals
      <4>3. QED
        BY <4>1, <4>2
    <3>3. items = 0 /\ n2 = x
      BY <2>6, <3>1, <3>2
    <3>4. ASSUME NEW s \in driver.counts PROVE counted[s] = x
      <4>1. s \in Drv!Sides
        BY <3>4, DriverIsOK DEF DriverOK
      <4>2. CASE driver.atomic
        BY <2>5, <2>6, <2>8, <3>3, <4>1, <4>2 DEF Drv!Sides
      <4>3. CASE ~driver.atomic
        <5>1. driver = Drv!test_mpmc_concurrent
          BY <2>3, <3>4, <4>3 DEF DriversTypes, Drv!DriverSet, Drv!NoDriver,
             Drv!test_concurrent_enqueue_dequeue, Drv!benchmark_spsc, Drv!benchmark_mpmc,
             Drv!benchmark_single_threaded, Drv!benchmark_concurrent
        <5>2. driver.until = "counter" /\ s = "pop"
          BY <3>4, <5>1 DEF Drv!test_mpmc_concurrent
        <5>3. QED
          BY <2>1, <2>2, <2>5, <2>9, <5>2 DEF DriversInv, CounterInv
      <4>4. QED
        BY <4>2, <4>3
    <3>5. QED
      BY <3>3, <3>4
  <2>10. ASSUME driver.atomic, NEW s \in driver.counts PROVE counted[s] = Drv!Total(s)
    <3>1. s \in Drv!Sides
      BY <2>10, DriverIsOK DEF DriverOK
    <3>2. QED
      BY <2>8, <2>10, <3>1, TotalsAreSums
  <2>11. Drv!Total("push") = n1 /\ Drv!Total("pop") = n2
    BY <2>3, <2>5, TotalsAreSums
  <2>12. QED
    BY <2>5, <2>6, <2>9, <2>10, <2>11
<1>2. QED
  BY <1>1, DriversInvariance, PTL

(* However the threads overlap in the unsynchronized recorders, a report    *)
(* never counts more calls than succeeded, and one that a single thread     *)
(* fills counts them all.                                                   *)
THEOREM SamplesAreCounted == ProgramsSpec => []SamplesCounted
<1>1. DriversInv => SamplesCounted
  <2> SUFFICES ASSUME DriversInv, NEW s \in Drv!Sides
               PROVE  /\ samples[s] <= Drv!Total(s)
                      /\ (Drv!Ended /\ driver.records /\ Lone) => samples[s] = Drv!Total(s)
    BY DEF SamplesCounted, Drv!SamplesCounted, Lone
  <2>1. Drv!Total(s) = TotalOf(ops, s)
    BY TotalsAreSums
  <2>2. PICK m, k : m = TotalOf(Recorded, s) /\ k = TotalOf(ops, s)
    OBVIOUS
  <2>3. m \in Nat /\ k \in Nat /\ m <= k
    BY <2>2, InvBounds DEF TotalsBounded
  <2>4. samples[s] \in Nat /\ samples[s] <= m /\ (Lone /\ driver.records => samples[s] = m)
    BY <2>2, DriversTypesOf DEF DriversInv, TotalsInv
  <2>5. ASSUME Drv!Ended PROVE m = k
    <3>1. \A t \in Drv!Threads : Recorded[t] = ops[t]
      BY <2>5, BooksOf DEF Drv!Ended
    <3>2. PICK made, re : made = ops /\ re = Recorded
      OBVIOUS
    <3>3. IsFiniteSet(Members(s)) /\ \A t \in Members(s) : re[t] = made[t]
      BY <3>1, <3>2, SideFacts
    <3>4. TotalOf(re, s) = TotalOf(made, s)
      BY <3>3, SumSame DEF TotalOf
    <3>5. QED
      BY <2>2, <3>2, <3>4
  <2>6. QED
    BY <2>1, <2>2, <2>3, <2>4, <2>5
<1>2. QED
  BY <1>1, DriversInvariance, PTL

-----------------------------------------------------------------------------
(* Arithmetic of multiples.                                                 *)

LEMMA DivMod ==
  ASSUME NEW a \in Nat, NEW b \in Nat \ {0}
  PROVE  /\ a \div b \in Nat /\ a % b \in 0..(b - 1)
         /\ a = b * (a \div b) + (a % b)
<1>1. a % b \in 0..(b - 1) /\ a \div b \in Int
  OBVIOUS
<1>2. a = b * (a \div b) + (a % b)
  OBVIOUS
<1>3. a \div b \in Nat
  OBVIOUS
<1>4. QED
  BY <1>1, <1>2, <1>3
LEMMA Multiple ==
  ASSUME NEW s \in Nat \ {0}, NEW a \in Nat
  PROVE  \E p \in Nat : \E r \in 0..(s - 1) : a = s * p + r /\ r = a % s
<1>1. a \div s \in Nat /\ a % s \in 0..(s - 1) /\ a = s * (a \div s) + (a % s)
  BY DivMod
<1>2. QED
  BY <1>1

LEMMA NextMultiple ==
  ASSUME NEW s \in Nat \ {0}, NEW a \in Nat, a % s = 0, NEW b \in Nat, b % s = 0, a <= b, b < a + s
  PROVE  b = a
<1>1. PICK p \in Nat : a = s * p /\ s * p \in Nat
  <2>1. PICK p \in Nat : \E r \in 0..(s - 1) : a = s * p + r /\ r = a % s
    BY Multiple
  <2>2. a = s * p + 0 /\ s * p \in Nat
    BY <2>1
  <2>3. QED
    BY <2>2
<1>2. PICK q \in Nat : b = s * q /\ s * q \in Nat
  <2>1. PICK q \in Nat : \E r \in 0..(s - 1) : b = s * q + r /\ r = b % s
    BY Multiple
  <2>2. b = s * q + 0 /\ s * q \in Nat
    BY <2>1
  <2>3. QED
    BY <2>2
<1>3. CASE q > p
  <2>1. PICK j \in Nat : q = p + 1 + j
    <3>1. q - p - 1 \in Nat /\ q = p + 1 + (q - p - 1)
      BY <1>3
    <3>2. QED
      BY <3>1
  <2>2. s * q = s * p + s + s * j /\ s * j \in Nat
    BY <2>1
  <2>3. QED
    BY <1>1, <1>2, <2>2
<1>4. CASE q = p
  BY <1>1, <1>2, <1>4
<1>5. CASE q < p
  <2>1. PICK j \in Nat : p = q + 1 + j
    <3>1. p - q - 1 \in Nat /\ p = q + 1 + (p - q - 1)
      BY <1>5
    <3>2. QED
      BY <3>1
  <2>2. s * p = s * q + s + s * j /\ s * j \in Nat /\ s * q \in Nat
    BY <2>1
  <2>3. QED
    BY <1>1, <1>2, <2>2
<1>6. QED
  BY <1>3, <1>4, <1>5
LEMMA MultipleAdd ==
  ASSUME NEW s \in Nat \ {0}, NEW a \in Nat, a % s = 0
  PROVE  (a + s) % s = 0
<1>1. PICK p \in Nat : a = s * p /\ s * p \in Nat
  <2>1. PICK p \in Nat : \E r \in 0..(s - 1) : a = s * p + r /\ r = a % s
    BY Multiple
  <2>2. a = s * p + 0 /\ s * p \in Nat
    BY <2>1
  <2>3. QED
    BY <2>2
<1>2. PICK q \in Nat, r \in 0..(s - 1) : a + s = s * q + r /\ r = (a + s) % s
  BY Multiple
<1>3. CASE q <= p
  <2>1. PICK j \in Nat : p = q + j
    <3>1. p - q \in Nat /\ p = q + (p - q)
      BY <1>3
    <3>2. QED
      BY <3>1
  <2>2. s * p = s * q + s * j /\ s * j \in Nat /\ s * q \in Nat
    BY <2>1
  <2>3. QED
    BY <1>1, <1>2, <2>2
<1>4. CASE q = p + 1
  <2>1. s * q = s * p + s
    BY <1>4
  <2>2. QED
    BY <1>1, <1>2, <2>1
<1>5. CASE q > p + 1
  <2>1. PICK j \in Nat : q = p + 2 + j
    <3>1. q - p - 2 \in Nat /\ q = p + 2 + (q - p - 2)
      BY <1>5
    <3>2. QED
      BY <3>1
  <2>2. s * q = s * p + s + s + s * j /\ s * j \in Nat /\ s * p \in Nat
    BY <2>1
  <2>3. QED
    BY <1>1, <1>2, <2>2
<1>6. QED
  BY <1>3, <1>4, <1>5

LEMMA SmallRemainder ==
  ASSUME NEW n1 \in Nat, NEW b \in 0..(n1 - 1)
  PROVE  b % n1 = b
<1>1. n1 \in Nat \ {0} /\ b \in Nat
  OBVIOUS
<1>2. PICK p \in Nat : \E r \in 0..(n1 - 1) : b = n1 * p + r /\ r = b % n1
  BY <1>1, Multiple
<1>3. PICK r \in 0..(n1 - 1) : b = n1 * p + r /\ r = b % n1
  BY <1>2
<1>4. CASE p = 0
  <2>1. n1 * p = 0
    BY <1>4
  <2>2. QED
    BY <1>1, <1>3, <2>1
<1>5. CASE p > 0
  <2>1. PICK j \in Nat : p = 1 + j
    <3>1. p - 1 \in Nat /\ p = 1 + (p - 1)
      BY <1>5
    <3>2. QED
      BY <3>1
  <2>2. n1 * p = n1 + n1 * j /\ n1 * j \in Nat
    BY <2>1
  <2>3. QED
    BY <1>1, <1>3, <2>2
<1>6. QED
  BY <1>4, <1>5

LEMMA RoundedFits ==
  ASSUME NEW len \in Nat
  PROVE  len <= Cache!Rounded(len * SIZEOF) \div SIZEOF
<1>1. SIZEOF \in Nat \ {0} /\ CACHE_LINE_SIZE \in Nat \ {0}
  BY CacheAssumption
<1>2. PICK b \in Nat : b = len * SIZEOF
  BY <1>1
<1>3. PICK a \in Nat : a = b + CACHE_LINE_SIZE - 1
  BY <1>1
<1>4. PICK q \in Nat : q = a \div CACHE_LINE_SIZE
  BY <1>1, DivMod
<1>5. a % CACHE_LINE_SIZE \in 0..(CACHE_LINE_SIZE - 1)
      /\ a = CACHE_LINE_SIZE * q + (a % CACHE_LINE_SIZE)
  BY <1>1, <1>4, DivMod
<1>6. PICK R \in Nat : R = q * CACHE_LINE_SIZE
  BY <1>1
<1>7. R = CACHE_LINE_SIZE * q
  BY <1>1, <1>6
<1>8. R >= b
  BY <1>1, <1>3, <1>5, <1>7
<1>9. Cache!Rounded(len * SIZEOF) = R
  BY <1>2, <1>3, <1>4, <1>6 DEF Cache!Rounded
<1>10. PICK p \in Nat : p = R \div SIZEOF
  BY <1>1, DivMod
<1>11. R % SIZEOF \in 0..(SIZEOF - 1) /\ R = SIZEOF * p + (R % SIZEOF)
  BY <1>1, <1>10, DivMod
<1>12. ~(p < len)
  <2>1. SUFFICES ASSUME p < len PROVE FALSE
    OBVIOUS
  <2>2. PICK j \in Nat : len = p + 1 + j
    <3>1. len - p - 1 \in Nat /\ len = p + 1 + (len - p - 1)
      BY <2>1
    <3>2. QED
      BY <3>1
  <2>3. b = SIZEOF * p + SIZEOF + SIZEOF * j /\ SIZEOF * p \in Nat /\ SIZEOF * j \in Nat
    BY <1>1, <1>2, <2>2
  <2>4. QED
    BY <1>1, <1>8, <1>11, <2>3
<1>13. QED
  BY <1>9, <1>10, <1>12

Loops == {Cache!sequential, Cache!prefetched, Cache!random, Cache!fill}
           \cup {Cache!strided(s) : s \in Nat \ {0}}

LEMMA LoopFacts ==
  ASSUME NEW l \in Loops
  PROVE  /\ l.stride \in Nat \ {0}
         /\ l.kind \in {"random", "fill"} => l.stride = 1
         /\ l.kind = "fill" => l = Cache!fill
  BY DEF Loops, Cache!sequential, Cache!prefetched, Cache!random, Cache!fill, Cache!strided

LEMMA ArrayProgramFacts ==
  ASSUME NEW s \in Cache!ArrayPrograms
  PROVE  /\ Len(s) \in Nat /\ Len(s) > 0 /\ s[1] = Cache!fill
         /\ \A k \in 1..Len(s) : s[k] \in Loops /\ (k > 1 => s[k] # Cache!fill)
<1>1. CASE s = Cache!benchmark_access_patterns
  <2>1. PICK n1 \in Nat : n1 = Len(Strides)
    BY CacheAssumption
  <2>2. PICK u : u = [k \in 1..n1 |-> Cache!strided(Strides[k])]
    OBVIOUS
  <2>3. u \in [1..n1 -> Loops]
    BY <2>1, <2>2, CacheAssumption DEF Loops
  <2>4. u \in Seq(Loops) /\ Len(u) = n1
    BY <2>3
  <2>5. <<Cache!fill, Cache!sequential>> \in Seq(Loops)
    BY DEF Loops
  <2>6. s = <<Cache!fill, Cache!sequential>> \o u
    BY <1>1, <2>1, <2>2 DEF Cache!benchmark_access_patterns
  <2>7. Len(s) = 2 + n1 /\ s[1] = Cache!fill /\ s[2] = Cache!sequential
        /\ \A k \in 3..(2 + n1) : s[k] = u[k - 2]
    BY <2>4, <2>5, <2>6
  <2>8. \A k \in 1..n1 : u[k] # Cache!fill
    BY <2>2 DEF Cache!strided, Cache!fill
  <2>9. ASSUME NEW k \in 1..Len(s) PROVE s[k] \in Loops /\ (k > 1 => s[k] # Cache!fill)
    <3>1. CASE k = 1
      BY <2>7, <3>1 DEF Loops
    <3>2. CASE k = 2
      BY <2>7, <3>2 DEF Loops, Cache!sequential, Cache!fill
    <3>3. CASE k \in 3..(2 + n1)
      <4>1. k - 2 \in 1..n1
        BY <3>3
      <4>2. QED
        BY <2>3, <2>7, <2>8, <3>3, <4>1
    <3>4. QED
      BY <2>1, <2>7, <3>1, <3>2, <3>3
  <2>10. QED
    BY <2>1, <2>7, <2>9
<1>2. CASE s = Cache!benchmark_prefetch_optimization
  <2>1. s = <<Cache!fill, Cache!sequential, Cache!prefetched>>
    BY <1>2 DEF Cache!benchmark_prefetch_optimization
  <2>2. Len(s) = 3 /\ s[1] = Cache!fill /\ s[2] = Cache!sequential /\ s[3] = Cache!prefetched
    BY <2>1
  <2>3. QED
    BY <2>2 DEF Loops, Cache!sequential, Cache!prefetched, Cache!fill
<1>3. CASE s = Cache!benchmark_cache_sizes
  <2>1. Repeats \in Nat
    BY CacheAssumption
  <2>2. PICK u : u = [k \in 1..Repeats |-> Cache!sequential]
    OBVIOUS
  <2>3. u \in [1..Repeats -> Loops]
    BY <2>2 DEF Loops
  <2>4. u \in Seq(Loops) /\ Len(u) = Repeats
    BY <2>1, <2>3
  <2>5. <<Cache!fill>> \in Seq(Loops)
    BY DEF Loops
  <2>6. s = <<Cache!fill>> \o u
    BY <1>3, <2>2 DEF Cache!benchmark_cache_sizes
  <2>7. Len(s) = 1 + Repeats /\ s[1] = Cache!fill
        /\ \A k \in 2..(1 + Repeats) : s[k] = u[k - 1]
    BY <2>1, <2>4, <2>5, <2>6
  <2>8. ASSUME NEW k \in 1..Len(s) PROVE s[k] \in Loops /\ (k > 1 => s[k] # Cache!fill)
    <3>1. CASE k = 1
      BY <2>7, <3>1 DEF Loops
    <3>2. CASE k \in 2..(1 + Repeats)
      <4>1. k - 1 \in 1..Repeats
        BY <2>1, <3>2
      <4>2. s[k] = Cache!sequential
        BY <2>2, <2>7, <3>2, <4>1
      <4>3. QED
        BY <4>2 DEF Loops, Cache!sequential, Cache!fill
    <3>3. QED
      BY <2>1, <2>7, <3>1, <3>2
  <2>9. QED
    BY <2>1, <2>7, <2>8
<1>4. CASE s = Cache!random_access
  <2>1. s = <<Cache!fill, Cache!random>>
    BY <1>4 DEF Cache!random_access
  <2>2. Len(s) = 2 /\ s[1] = Cache!fill /\ s[2] = Cache!random
    BY <2>1
  <2>3. QED
    BY <2>2 DEF Loops, Cache!random, Cache!fill
<1>5. QED
  BY <1>1, <1>2, <1>3, <1>4 DEF Cache!ArrayPrograms
-----------------------------------------------------------------------------
(* The access patterns.                                                     *)

\* Has the loop that runs come past element k?
Visited(k) ==
  IF Cache!Doing.kind = "random"
  THEN \E j \in 0..(array_n - 1) : j < array_i /\ indices[j] = k
  ELSE k < array_i /\ k % Cache!Doing.stride = 0

PatternInv ==
  /\ array_i % Cache!Doing.stride = 0
  /\ Cache!Doing.kind = "random" /\ indices = << >> => array_i = 0
  /\ \A k \in 0..(array_n - 1) : touched[k] = IF Visited(k) THEN 1 ELSE 0

CacheInv ==
  /\ Cache!TypeOK
  /\ array_at = 0 => indices = << >> /\ written = {} /\ ahead = 0
  /\ array_at > 0 =>
       /\ array_script \in Cache!ArrayPrograms
       /\ touched \in [0..(array_n - 1) -> 0..2]
       /\ array_n <= elements
       /\ ahead < array_n \/ ahead = 0
  /\ array_at = 1 => written = {k \in 0..(array_n - 1) : k < array_i}
  /\ array_at > 1 => written = 0..(array_n - 1)
  /\ indices = << >> \/ indices \in Cache!Shuffles
  /\ Cache!Running => PatternInv

\* Of the loop that runs.
LEMMA DoingFacts ==
  ASSUME CacheInv, Cache!Running
  PROVE  /\ array_n \in Nat /\ array_i \in Nat /\ array_at \in Nat /\ array_at > 0
         /\ Cache!Doing.stride \in Nat \ {0}
         /\ Cache!Doing.kind \in {"random", "fill"} => Cache!Doing.stride = 1
         /\ Cache!Doing.kind = "fill" <=> array_at = 1
         /\ array_script \in Cache!ArrayPrograms
         /\ touched \in [0..(array_n - 1) -> 0..2]
         /\ PatternInv
<1>1. PICK s : s = array_script
  OBVIOUS
<1>2. array_at \in 1..Len(s) /\ Cache!Doing = s[array_at]
  BY <1>1 DEF Cache!Running, Cache!Doing
<1>3. array_at \in Nat /\ array_at > 0
  <2>1. s # << >>
    BY <1>2
  <2>2. s \in Cache!ArrayPrograms
    BY <1>1, <2>1 DEF CacheInv, Cache!TypeOK
  <2>3. Len(s) \in Nat
    BY <2>2, ArrayProgramFacts
  <2>4. QED
    BY <1>2, <2>3
<1>4. s \in Cache!ArrayPrograms /\ touched \in [0..(array_n - 1) -> 0..2]
  BY <1>1, <1>3 DEF CacheInv
<1>5. /\ Len(s) \in Nat /\ s[1] = Cache!fill
      /\ \A k \in 1..Len(s) : s[k] \in Loops /\ (k > 1 => s[k] # Cache!fill)
  BY <1>4, ArrayProgramFacts
<1>6. PICK l \in Loops : l = Cache!Doing
  BY <1>2, <1>5
<1>7. /\ l.stride \in Nat \ {0} /\ (l.kind \in {"random", "fill"} => l.stride = 1)
      /\ (l.kind = "fill" => l = Cache!fill)
  BY <1>6, LoopFacts
<1>8. Cache!Doing.kind = "fill" <=> array_at = 1
  <2>1. array_at = 1 => Cache!Doing.kind = "fill"
    BY <1>2, <1>5 DEF Cache!fill
  <2>2. Cache!Doing.kind = "fill" => ~(array_at > 1)
    BY <1>2, <1>5, <1>6, <1>7
  <2>3. QED
    BY <1>3, <2>1, <2>2
<1>9. array_n \in Nat /\ array_i \in Nat /\ PatternInv
  BY CacheAssumption DEF CacheInv, Cache!TypeOK
<1>10. QED
  BY <1>1, <1>3, <1>4, <1>6, <1>7, <1>8, <1>9

LEMMA CacheInitInv == Cache!Init => CacheInv
<1> SUFFICES ASSUME Cache!Init PROVE CacheInv
  OBVIOUS
<1>1. /\ array_script = << >> /\ array_n = 0 /\ array_at = 0
      /\ elements = 0 /\ written = {} /\ indices = << >>
      /\ array_i = 0 /\ ahead = 0 /\ touched = << >>
  BY DEF Cache!Init
<1>2. Len(array_script) = 0
  BY <1>1
<1>3. ~Cache!Running
  BY <1>1, <1>2 DEF Cache!Running
<1>4. Cache!TypeOK
  BY <1>1, <1>2, <1>3 DEF Cache!TypeOK
<1>5. QED
  BY <1>1, <1>3, <1>4 DEF CacheInv

LEMMA CacheLaunchInv ==
  ASSUME CacheInv, NEW s \in Cache!ArrayPrograms, NEW len \in ArrayLengths, Cache!Launch(s, len)
  PROVE  CacheInv'
<1>1. /\ array_at = 0 /\ array_script' = s /\ array_n' = len /\ array_at' = 1
      /\ elements' = Cache!Rounded(len * SIZEOF) \div SIZEOF
      /\ array_i' = 0 /\ touched' = [k \in 0..(len - 1) |-> 0]
      /\ UNCHANGED <<written, indices, ahead>>
  BY DEF Cache!Launch, Cache!NewLoop
<1>2. indices = << >> /\ written = {} /\ ahead = 0
  BY <1>1 DEF CacheInv
<1>3. len \in Nat
  BY CacheAssumption
<1>4. PICK e : e = Cache!Rounded(len * SIZEOF) \div SIZEOF
  OBVIOUS
<1>5. len <= e
  BY <1>3, <1>4, RoundedFits
<1>6. Len(s) \in Nat /\ Len(s) > 0 /\ s[1] = Cache!fill
  BY ArrayProgramFacts
<1>7. Cache!Doing' = Cache!fill
  BY <1>1, <1>6 DEF Cache!Doing
<1>8. Cache!Doing.stride' = 1 /\ Cache!Doing.kind' = "fill"
  BY <1>7 DEF Cache!fill
<1>9. Cache!TypeOK'
  BY <1>1, <1>2, <1>3, <1>6, <1>8 DEF Cache!TypeOK
<1>10. PatternInv'
  <2>1. 0 % 1 = 0
    OBVIOUS
  <2>2. \A k \in 0..(len - 1) : ~Visited(k)'
    BY <1>1, <1>3, <1>8 DEF Visited
  <2>3. QED
    BY <1>1, <1>3, <1>8, <2>1, <2>2 DEF PatternInv
<1>11. written' = {k \in 0..(array_n' - 1) : k < array_i'}
  BY <1>1, <1>2, <1>3
<1>12. QED
  BY <1>1, <1>2, <1>3, <1>4, <1>5, <1>9, <1>10, <1>11 DEF CacheInv

LEMMA CacheFinishInv ==
  ASSUME CacheInv, Cache!Finish
  PROVE  CacheInv'
<1>1. /\ Cache!Running /\ array_i >= array_n /\ array_at' = array_at + 1
      /\ array_i' = 0 /\ touched' = [k \in 0..(array_n - 1) |-> 0]
      /\ UNCHANGED <<array_script, array_n, elements, written, indices, ahead>>
  BY DEF Cache!Finish, Cache!NewLoop, Cache!LoopOver
<1>2. /\ array_n \in Nat /\ array_at \in Nat /\ array_at > 0
      /\ array_script \in Cache!ArrayPrograms /\ array_i \in Nat
  BY <1>1, DoingFacts
<1>3. PICK s \in Cache!ArrayPrograms : s = array_script
  BY <1>2
<1>4. Len(s) \in Nat /\ \A k \in 1..Len(s) : s[k] \in Loops
  BY ArrayProgramFacts
<1>5. array_at \in 1..Len(s)
  BY <1>1, <1>3 DEF Cache!Running
<1>6. Cache!Running' => /\ Cache!Doing.stride' \in Nat \ {0}
  <2>1. SUFFICES ASSUME Cache!Running' PROVE Cache!Doing.stride' \in Nat \ {0}
    OBVIOUS
  <2>2. PICK l \in Loops : l = Cache!Doing'
    BY <1>1, <1>3, <1>4, <2>1 DEF Cache!Running, Cache!Doing
  <2>3. QED
    BY <2>2, LoopFacts
<1>7. Cache!TypeOK'
  <2>1. array_at' \in 0..(Len(array_script') + 1)
    BY <1>1, <1>3, <1>4, <1>5
  <2>2. Cache!Running' => array_i' < array_n' + Cache!Doing.stride'
    BY <1>1, <1>2, <1>6
  <2>3. QED
    BY <1>1, <2>1, <2>2 DEF CacheInv, Cache!TypeOK
<1>8. Cache!Running' => PatternInv'
  <2>1. SUFFICES ASSUME Cache!Running' PROVE PatternInv'
    OBVIOUS
  <2>2. PICK d : d = Cache!Doing.stride'
    OBVIOUS
  <2>3. 0 % d = 0
    BY <1>6, <2>1, <2>2
  <2>4. \A k \in 0..(array_n - 1) : ~Visited(k)'
    BY <1>1, <1>2 DEF Visited
  <2>5. QED
    BY <1>1, <1>2, <2>2, <2>3, <2>4 DEF PatternInv
<1>9. written' = 0..(array_n' - 1)
  <2>1. array_at = 1 => written = {k \in 0..(array_n - 1) : k < array_i}
    BY DEF CacheInv
  <2>2. array_at > 1 => written = 0..(array_n - 1)
    BY DEF CacheInv
  <2>3. {k \in 0..(array_n - 1) : k < array_i} = 0..(array_n - 1)
    BY <1>1, <1>2
  <2>4. written' = written /\ array_n' = array_n
    BY <1>1
  <2>5. array_at = 1 \/ array_at > 1
    BY <1>2
  <2>6. written = 0..(array_n - 1)
    BY <2>1, <2>2, <2>3, <2>5
  <2>7. QED
    BY <2>4, <2>6
<1>10. array_n <= elements /\ (ahead < array_n \/ ahead = 0)
       /\ (indices = << >> \/ indices \in Cache!Shuffles)
  BY <1>2 DEF CacheInv
<1>11. (indices = << >> \/ indices \in Cache!Shuffles)'
  BY <1>1, <1>10 DEF Cache!Shuffles
<1>12. touched' \in [0..(array_n' - 1) -> 0..2]
  BY <1>1
<1>13. array_at' > 1 /\ array_script' \in Cache!ArrayPrograms
       /\ array_n' <= elements' /\ (ahead' < array_n' \/ ahead' = 0)
  <2>1. array_at' > 1
    BY <1>1, <1>2
  <2>2. array_script' \in Cache!ArrayPrograms
    BY <1>1, <1>2
  <2>3. QED
    BY <1>1, <1>10, <2>1, <2>2
<1>14. array_at' \in Nat /\ array_at' # 0 /\ array_at' # 1
  BY <1>1, <1>2
<1>15. QED
  BY <1>7, <1>8, <1>9, <1>11, <1>12, <1>13, <1>14 DEF CacheInv

LEMMA IndexTypes == CacheInv => array_n \in Nat /\ array_i \in Nat
  BY CacheAssumption DEF CacheInv, Cache!TypeOK

LEMMA CacheShuffleInv ==
  ASSUME CacheInv, Cache!Shuffle
  PROVE  CacheInv'
<1>1. /\ Cache!Running /\ array_i < array_n /\ Cache!Doing.kind = "random" /\ indices = << >>
      /\ indices' \in Cache!Shuffles
      /\ UNCHANGED <<array_script, array_n, array_at, elements, written, array_i,
                     ahead, touched>>
  BY IndexTypes DEF Cache!Shuffle, Cache!LoopOver
<1>2. /\ array_n \in Nat /\ array_i \in Nat /\ array_at \in Nat /\ array_at > 0
      /\ PatternInv /\ (Cache!Doing.kind = "fill" <=> array_at = 1)
  BY <1>1, DoingFacts
<1>3. array_i = 0 /\ array_at # 1
  BY <1>1, <1>2 DEF PatternInv
<1>4. Cache!Doing' = Cache!Doing /\ Cache!Running' = Cache!Running
  BY <1>1 DEF Cache!Doing, Cache!Running
<1>5. Cache!TypeOK'
  BY <1>1, <1>4 DEF CacheInv, Cache!TypeOK
<1>6. PatternInv'
  <2>1. \A k \in 0..(array_n - 1) : ~Visited(k)
    BY <1>1, <1>2, <1>3 DEF Visited
  <2>2. \A k \in 0..(array_n - 1) : ~Visited(k)'
    BY <1>1, <1>2, <1>3, <1>4 DEF Visited
  <2>3. \A k \in 0..(array_n - 1) : touched[k] = 0
    BY <1>2, <2>1 DEF PatternInv
  <2>4. (array_i % Cache!Doing.stride = 0)'
    BY <1>1, <1>2, <1>4 DEF PatternInv
  <2>5. array_i' = 0
    BY <1>1, <1>3
  <2>6. \A k \in 0..(array_n' - 1) : touched'[k] = IF Visited(k)' THEN 1 ELSE 0
    BY <1>1, <2>2, <2>3
  <2>7. QED
    BY <2>4, <2>5, <2>6 DEF PatternInv
<1>7. indices' \in Cache!Shuffles'
  BY <1>1 DEF Cache!Shuffles
<1>8. QED
  BY <1>1, <1>2, <1>3, <1>5, <1>6, <1>7 DEF CacheInv

\* What Access touches was not touched before, and is what the loop comes past.
LEMMA AccessTouches ==
  ASSUME CacheInv, Cache!Access
  PROVE  /\ Cache!Touches \in 0..(array_n - 1)
         /\ touched[Cache!Touches] = 0
         /\ \A k \in 0..(array_n - 1) : Visited(k)' <=> Visited(k) \/ k = Cache!Touches
<1>1. /\ Cache!Running /\ array_i < array_n
      /\ Cache!Doing.kind = "random" => indices # << >>
      /\ array_i' = array_i + Cache!Doing.stride
      /\ UNCHANGED <<array_script, array_n, array_at, elements, indices>>
  BY IndexTypes DEF Cache!Access, Cache!NextIndex, Cache!LoopOver
<1>2. /\ array_n \in Nat /\ array_i \in Nat /\ PatternInv
      /\ Cache!Doing.stride \in Nat \ {0}
      /\ Cache!Doing.kind \in {"random", "fill"} => Cache!Doing.stride = 1
  BY <1>1, DoingFacts
<1>3. Cache!Doing' = Cache!Doing
  BY <1>1 DEF Cache!Doing
<1>4. PICK t : t = Cache!Touches
  OBVIOUS
<1>5. PICK N \in Nat : N = array_n
  BY <1>2
<1>6. PICK s \in Nat \ {0} : s = Cache!Doing.stride
  BY <1>2
<1>7. PICK a \in Nat : a = array_i /\ a % s = 0
  BY <1>2, <1>6 DEF PatternInv
<1>8. CASE Cache!Doing.kind = "random"
  <2>1. PICK f \in [0..(N - 1) -> 0..(N - 1)] : f = indices /\ IsInjective(f)
    BY <1>1, <1>5, <1>8 DEF CacheInv, Cache!Shuffles, Cache!IsInjective, IsInjective
  <2>2. a \in 0..(N - 1) /\ f[a] \in 0..(N - 1)
    BY <1>1, <1>5, <1>7
  <2>3. t = f[a] % N
    BY <1>4, <1>5, <1>7, <1>8, <2>1 DEF Cache!Touches
  <2>4. t = f[a]
    <3>1. PICK b \in 0..(N - 1) : b = f[a]
      BY <2>2
    <3>2. N > 0 /\ b % N = b
      BY <1>5, <3>1, SmallRemainder
    <3>3. QED
      BY <2>3, <3>1, <3>2
  <2>5. \A k : Visited(k) <=> \E j \in 0..(N - 1) : j < a /\ f[j] = k
    BY <1>5, <1>7, <1>8, <2>1 DEF Visited
  <2>6. \A k : Visited(k)' <=> \E j \in 0..(N - 1) : j < a + 1 /\ f[j] = k
    BY <1>1, <1>2, <1>3, <1>5, <1>7, <1>8, <2>1 DEF Visited
  <2>7. ~Visited(t)
    BY <2>1, <2>2, <2>4, <2>5 DEF IsInjective
  <2>8. ASSUME NEW k \in 0..(N - 1) PROVE Visited(k)' <=> Visited(k) \/ k = t
    BY <2>2, <2>4, <2>5, <2>6
  <2>9. QED
    BY <1>2, <1>4, <1>5, <2>2, <2>4, <2>7, <2>8 DEF PatternInv
<1>9. CASE Cache!Doing.kind # "random"
  <2>1. t = a /\ a \in 0..(N - 1)
    BY <1>1, <1>4, <1>5, <1>7, <1>9 DEF Cache!Touches
  <2>2. \A k : Visited(k) <=> k < a /\ k % s = 0
    BY <1>6, <1>7, <1>9 DEF Visited
  <2>3. \A k : Visited(k)' <=> k < a + s /\ k % s = 0
    BY <1>1, <1>3, <1>6, <1>7, <1>9 DEF Visited
  <2>4. ~Visited(t)
    BY <2>1, <2>2
  <2>5. ASSUME NEW k \in 0..(N - 1) PROVE Visited(k)' <=> Visited(k) \/ k = t
    <3>1. k \in Nat
      BY <2>1
    <3>2. ASSUME k < a + s, k % s = 0, ~(k < a) PROVE k = a
      <4>1. a <= k
        BY <1>7, <3>1, <3>2
      <4>2. QED
        BY <1>7, <3>1, <3>2, <4>1, NextMultiple
    <3>3. QED
      BY <1>7, <2>1, <2>2, <2>3, <3>1, <3>2
  <2>6. QED
    BY <1>2, <1>4, <1>5, <2>1, <2>4, <2>5 DEF PatternInv
<1>10. QED
  BY <1>8, <1>9

LEMMA CacheAccessInv ==
  ASSUME CacheInv, Cache!Access
  PROVE  CacheInv'
<1>1. /\ Cache!Running /\ array_i < array_n
      /\ Cache!Doing.kind = "random" => indices # << >>
      /\ touched' = [touched EXCEPT ![Cache!Touches] = IF @ < 2 THEN @ + 1 ELSE 2]
      /\ written' = IF Cache!Doing.kind = "fill" THEN written \cup {array_i} ELSE written
      /\ ahead' = IF Cache!Doing.kind = "prefetched" /\ Cache!PrefetchFits
                  THEN array_i + PREFETCH_DISTANCE ELSE ahead
      /\ array_i' = array_i + Cache!Doing.stride
      /\ UNCHANGED <<array_script, array_n, array_at, elements, indices>>
  BY IndexTypes DEF Cache!Access, Cache!NextIndex, Cache!LoopOver
<1>2. /\ array_n \in Nat /\ array_i \in Nat /\ array_at \in Nat /\ array_at > 0
      /\ PatternInv /\ (Cache!Doing.kind = "fill" <=> array_at = 1)
      /\ Cache!Doing.stride \in Nat \ {0}
      /\ Cache!Doing.kind \in {"random", "fill"} => Cache!Doing.stride = 1
      /\ touched \in [0..(array_n - 1) -> 0..2]
      /\ array_script \in Cache!ArrayPrograms
  BY <1>1, DoingFacts
<1>3. Cache!Doing' = Cache!Doing /\ Cache!Running' = Cache!Running
  BY <1>1 DEF Cache!Doing, Cache!Running
<1>4. PICK t \in 0..(array_n - 1) :
        /\ t = Cache!Touches /\ touched[t] = 0
        /\ \A k \in 0..(array_n - 1) : Visited(k)' <=> Visited(k) \/ k = t
  BY AccessTouches
<1>5. /\ touched' \in [0..(array_n - 1) -> 0..2] /\ touched'[t] = 1
      /\ \A k \in 0..(array_n - 1) : k # t => touched'[k] = touched[k]
  <2>1. touched' = [touched EXCEPT ![t] = 1]
    BY <1>1, <1>2, <1>4
  <2>2. QED
    BY <1>2, <1>4, <2>1
<1>6. PatternInv'
  <2>1. PICK s \in Nat \ {0} : s = Cache!Doing.stride
    BY <1>2
  <2>2. PICK a \in Nat : a = array_i /\ a % s = 0
    BY <1>2, <2>1 DEF PatternInv
  <2>3. (a + s) % s = 0
    BY <2>2, MultipleAdd
  <2>4. array_i' = a + s /\ Cache!Doing.stride' = s
    BY <1>1, <1>3, <2>1, <2>2
  <2>5. (array_i % Cache!Doing.stride = 0)'
    BY <2>3, <2>4
  <2>6. Cache!Doing.kind' = "random" => indices' # << >>
    BY <1>1, <1>3
  <2>7. \A k \in 0..(array_n - 1) : touched'[k] = IF Visited(k)' THEN 1 ELSE 0
    BY <1>2, <1>4, <1>5 DEF PatternInv
  <2>8. array_n' = array_n
    BY <1>1
  <2>9. QED
    BY <2>5, <2>6, <2>7, <2>8 DEF PatternInv
<1>7. written' \subseteq 0..(array_n - 1)
  BY <1>1, <1>2 DEF CacheInv, Cache!TypeOK
<1>8. Cache!TypeOK'
  <2>1. array_i' \in Nat /\ array_i' < array_n' + Cache!Doing.stride'
    BY <1>1, <1>2, <1>3
  <2>2. array_script' \in Cache!ArrayPrograms \cup {<< >>}
        /\ array_n' \in ArrayLengths \cup {0}
        /\ array_at' \in 0..(Len(array_script') + 1)
    BY <1>1 DEF CacheInv, Cache!TypeOK
  <2>3. array_n' = array_n
    BY <1>1
  <2>4. QED
    BY <1>5, <1>7, <2>1, <2>2, <2>3 DEF Cache!TypeOK
<1>9. array_at = 1 => written' = {k \in 0..(array_n' - 1) : k < array_i'}
  <2>1. SUFFICES ASSUME array_at = 1 PROVE written' = {k \in 0..(array_n' - 1) : k < array_i'}
    OBVIOUS
  <2>2. written = {k \in 0..(array_n - 1) : k < array_i}
    BY <2>1 DEF CacheInv
  <2>3. written' = written \cup {array_i} /\ array_i' = array_i + 1 /\ array_n' = array_n
    BY <1>1, <1>2, <2>1
  <2>4. QED
    BY <1>1, <1>2, <2>2, <2>3
<1>10. array_at > 1 => written' = 0..(array_n' - 1)
  <2>1. SUFFICES ASSUME array_at > 1 PROVE written' = 0..(array_n' - 1)
    OBVIOUS
  <2>2. written = 0..(array_n - 1)
    BY <2>1 DEF CacheInv
  <2>3. written' = written /\ array_n' = array_n
    BY <1>1, <1>2, <2>1
  <2>4. QED
    BY <2>2, <2>3
<1>11. ahead' < array_n' \/ ahead' = 0
  BY <1>1, <1>2 DEF CacheInv, Cache!PrefetchFits
<1>12. array_n' <= elements'
  BY <1>1, <1>2 DEF CacheInv
<1>13. (indices = << >> \/ indices \in Cache!Shuffles)'
  BY <1>1 DEF CacheInv, Cache!Shuffles
<1>14. array_at' = array_at /\ array_at' # 0 /\ array_script' \in Cache!ArrayPrograms
       /\ touched' \in [0..(array_n' - 1) -> 0..2]
  BY <1>1, <1>2, <1>5
<1>15. QED
  BY <1>6, <1>8, <1>9, <1>10, <1>11, <1>12, <1>13, <1>14 DEF CacheInv

LEMMA CacheNextInv ==
  ASSUME CacheInv, Cache!Next \/ UNCHANGED cacheVars
  PROVE  CacheInv'
<1>1. CASE UNCHANGED cacheVars
  <2>1. UNCHANGED <<array_script, array_n, array_at, elements, written, indices, array_i,
                    ahead, touched>>
    BY <1>1 DEF cacheVars
  <2>2. Cache!Doing' = Cache!Doing /\ Cache!Running' = Cache!Running
    BY <2>1 DEF Cache!Doing, Cache!Running
  <2>3. Cache!TypeOK'
    BY <2>1, <2>2 DEF CacheInv, Cache!TypeOK
  <2>4. PatternInv' <=> PatternInv
    BY <2>1, <2>2 DEF PatternInv, Visited
  <2>5. QED
    BY <2>1, <2>2, <2>3, <2>4 DEF CacheInv, Cache!Shuffles
<1>2. CASE \E s \in Cache!ArrayPrograms, len \in ArrayLengths : Cache!Launch(s, len)
  BY <1>2, CacheLaunchInv
<1>3. CASE Cache!Access
  BY <1>3, CacheAccessInv
<1>4. CASE Cache!Shuffle
  BY <1>4, CacheShuffleInv
<1>5. CASE Cache!Finish
  BY <1>5, CacheFinishInv
<1>6. QED
  BY <1>1, <1>2, <1>3, <1>4, <1>5 DEF Cache!Next

LEMMA CacheInvariance == ProgramsSpec => []CacheInv
<1>1. ProgramsInit => CacheInv
  BY CacheInitInv DEF ProgramsInit
<1>2. [ProgramsNext]_ProgramsVars => Cache!Next \/ UNCHANGED cacheVars
  BY DEF ProgramsNext, ProgramsVars
<1>3. CacheInv /\ [ProgramsNext]_ProgramsVars => CacheInv'
  BY <1>2, CacheNextInv
<1>4. QED
  BY <1>1, <1>3, PTL DEF ProgramsSpec

(* For any length, element size, cache line, prefetch distance and strides: *)
(* the rounded-up array holds all its elements, no loop reads an element    *)
(* before the fill loop wrote it, and no prefetch goes past the array.      *)
THEOREM ReadsAfterWrites == ProgramsSpec => []AccessesWritten
<1>1. CacheInv => AccessesWritten
  <2> SUFFICES ASSUME CacheInv, Cache!Running
               PROVE  /\ array_n <= elements /\ (ahead < array_n \/ ahead = 0)
                      /\ \A k \in DOMAIN touched : touched[k] > 0 => k \in written
    BY DEF AccessesWritten, Cache!AccessesWritten
  <2>1. /\ array_n \in Nat /\ array_i \in Nat /\ array_at \in Nat /\ array_at > 0
        /\ (Cache!Doing.kind = "fill" <=> array_at = 1)
        /\ touched \in [0..(array_n - 1) -> 0..2]
        /\ PatternInv
    BY DoingFacts
  <2>2. array_n <= elements /\ (ahead < array_n \/ ahead = 0)
    BY <2>1 DEF CacheInv
  <2>3. ASSUME NEW k \in 0..(array_n - 1), touched[k] > 0 PROVE k \in written
    <3>1. CASE array_at = 1
      <4>1. Visited(k)
        BY <2>3 DEF PatternInv, CacheInv
      <4>2. k < array_i
        BY <2>1, <3>1, <4>1 DEF Visited
      <4>3. QED
        BY <3>1, <4>2 DEF CacheInv
    <3>2. CASE array_at > 1
      BY <3>2 DEF CacheInv
    <3>3. QED
      BY <2>1, <3>1, <3>2
  <2>4. QED
    BY <2>1, <2>2, <2>3
<1>2. QED
  BY <1>1, CacheInvariance, PTL

(* For any length and any strides: a loop over the array that has ended     *)
(* touched every multiple of its stride exactly once and nothing else, and  *)
(* the shuffled order of RandomAccessor reaches every element.              *)
THEOREM PatternsCover == ProgramsSpec => []PatternCovered
<1>1. CacheInv => PatternCovered
  <2> SUFFICES ASSUME CacheInv, Cache!Running, Cache!LoopOver, NEW k \in 0..(array_n - 1)
               PROVE  touched[k] = IF k % Cache!Doing.stride = 0 THEN 1 ELSE 0
    BY DEF PatternCovered, Cache!PatternCovered
  <2>1. /\ array_n \in Nat /\ array_i \in Nat /\ PatternInv
        /\ (Cache!Doing.kind \in {"random", "fill"} => Cache!Doing.stride = 1)
    BY DoingFacts
  <2>2. PICK N \in Nat : N = array_n
    BY <2>1
  <2>3. array_i >= N /\ k \in 0..(N - 1) /\ k \in Nat
    BY <2>1, <2>2 DEF Cache!LoopOver
  <2>4. touched[k] = IF Visited(k) THEN 1 ELSE 0
    BY <2>1 DEF PatternInv
  <2>5. CASE Cache!Doing.kind # "random"
    BY <2>1, <2>3, <2>4, <2>5 DEF Visited
  <2>6. CASE Cache!Doing.kind = "random"
    <3>1. PICK f \in [0..(N - 1) -> 0..(N - 1)] : f = indices /\ IsInjective(f)
      BY <2>1, <2>2, <2>3, <2>6 DEF PatternInv, CacheInv, Cache!Shuffles,
         Cache!IsInjective, IsInjective
    <3>2. PICK D : D = 0..(N - 1)
      OBVIOUS
    <3>3. IsFiniteSet(D)
      BY <3>2, FS_Interval
    <3>4. f \in Injection(D, D)
      BY <3>1, <3>2 DEF Injection, IsInjective
    <3>5. f \in Surjection(D, D)
      BY <3>3, <3>4, FS_Injection
    <3>6. PICK j \in 0..(N - 1) : f[j] = k
      BY <2>3, <3>2, <3>5 DEF Surjection
    <3>7. Visited(k)
      BY <2>1, <2>2, <2>3, <2>6, <3>1, <3>6 DEF Visited
    <3>8. k % 1 = 0
      <4>1. PICK p \in Nat : \E r \in 0..(1 - 1) : k = 1 * p + r /\ r = k % 1
        BY <2>3, Multiple
      <4>2. QED
        BY <4>1
    <3>9. QED
      BY <2>1, <2>4, <2>6, <3>7, <3>8
  <2>7. QED
    BY <2>5, <2>6
<1>2. QED
  BY <1>1, CacheInvariance, PTL

-----------------------------------------------------------------------------
(* The latency timer: the arithmetic of its counter and its clock.          *)

LEMMA DivModInt ==
  ASSUME NEW a \in Int, NEW b \in Nat \ {0}
  PROVE  /\ a \div b \in Int /\ a % b \in 0..(b - 1)
         /\ a = b * (a \div b) + (a % b)
<1>1. a % b \in 0..(b - 1) /\ a \div b \in Int
  OBVIOUS
<1>2. a = b * (a \div b) + (a % b)
  OBVIOUS
<1>3. QED
  BY <1>1, <1>2

\* A product of a nonzero number is zero or at least that number.
LEMMA SmallMultiple ==
  ASSUME NEW m \in Nat \ {0}, NEW d \in Int
  PROVE  /\ m * d \in Int
         /\ d = 0 => m * d = 0
         /\ d >= 1 => m * d >= m
         /\ d <= -1 => m * d <= -m
<1>1. m * d \in Int /\ (d = 0 => m * d = 0)
  OBVIOUS
<1>2. ASSUME d >= 1 PROVE m * d >= m
  <2>1. PICK j \in Nat : d = 1 + j
    <3>1. d - 1 \in Nat /\ d = 1 + (d - 1)
      BY <1>2
    <3>2. QED
      BY <3>1
  <2>2. m * d = m + m * j /\ m * j \in Nat
    BY <2>1
  <2>3. QED
    BY <2>2
<1>3. ASSUME d <= -1 PROVE m * d <= -m
  <2>1. PICK j \in Nat : d = -1 - j
    <3>1. -1 - d \in Nat /\ d = -1 - (-1 - d)
      BY <1>3
    <3>2. QED
      BY <3>1
  <2>2. m * d = -m - m * j /\ m * j \in Nat
    BY <2>1
  <2>3. QED
    BY <2>2
<1>4. QED
  BY <1>1, <1>2, <1>3

LEMMA Divided ==
  ASSUME NEW m \in Nat \ {0}, NEW a \in Int
  PROVE  \E q \in Int : \E u \in 0..(m - 1) : \E z \in Int : z = m * q /\ a = z + u /\ u = a % m
<1>1. a \div m \in Int /\ a % m \in 0..(m - 1) /\ a = m * (a \div m) + (a % m)
  BY DivModInt
<1>2. PICK q \in Int : q = a \div m
  BY <1>1
<1>3. PICK u \in 0..(m - 1) : u = a % m
  BY <1>1
<1>4. PICK z \in Int : z = m * q
  OBVIOUS
<1>5. a = z + u
  BY <1>1, <1>2, <1>3, <1>4
<1>6. QED
  BY <1>3, <1>4, <1>5

LEMMA RemainderIs ==
  ASSUME NEW m \in Nat \ {0}, NEW a \in Int, NEW d \in Int, NEW r \in 0..(m - 1), a = m * d + r
  PROVE  a % m = r
<1>1. PICK q \in Int, u \in 0..(m - 1), z \in Int : z = m * q /\ a = z + u /\ u = a % m
  BY Divided
<1>2. z = m * q /\ a = z + u
  BY <1>1
<1>3. PICK e \in Int : e = q - d
  OBVIOUS
<1>4. PICK y \in Int : y = m * d
  OBVIOUS
<1>5. m * e = z - y
  BY <1>2, <1>3, <1>4
<1>6. PICK f \in Int : f = m * e
  OBVIOUS
<1>7. f = r - u
  BY <1>2, <1>4, <1>5, <1>6
<1>8. f > -m /\ f < m
  BY <1>7
<1>9. e = 0
  BY <1>6, <1>8, SmallMultiple
<1>10. f = 0
  BY <1>6, <1>9
<1>11. r = u
  BY <1>7, <1>10
<1>12. QED
  BY <1>1, <1>11

(* The difference of two reads of a counter that went on by less than a     *)
(* round is how far it went on, also when it wrapped in between.            *)
LEMMA CounterDifference ==
  ASSUME NEW m \in Nat \ {0}, NEW x \in Int, NEW y \in Int, x <= y, y - x < m
  PROVE  ((y % m) - (x % m)) % m = y - x
<1>1. PICK p \in Int, u \in 0..(m - 1), z \in Int : z = m * p /\ x = z + u /\ u = x % m
  BY Divided
<1>2. PICK q \in Int, v \in 0..(m - 1), w \in Int : w = m * q /\ y = w + v /\ v = y % m
  BY Divided
<1>3. /\ z = m * p /\ x = z + u
      /\ w = m * q /\ y = w + v
  BY <1>1, <1>2
<1>4. PICK d \in Int : d = p - q
  OBVIOUS
<1>5. m * d = z - w
  BY <1>3, <1>4
<1>6. v - u = m * d + (y - x)
  BY <1>3, <1>5
<1>7. y - x \in 0..(m - 1)
  OBVIOUS
<1>8. (v - u) % m = y - x
  BY <1>6, <1>7, RemainderIs
<1>9. QED
  BY <1>1, <1>2, <1>8

LEMMA TimesMonotone ==
  ASSUME NEW k \in Nat, NEW a \in Nat, NEW b \in Nat, a <= b
  PROVE  k * a \in Nat /\ k * b \in Nat /\ k * a <= k * b
<1>1. PICK j \in Nat : b = a + j
  <2>1. b - a \in Nat /\ b = a + (b - a)
    OBVIOUS
  <2>2. QED
    BY <2>1
<1>2. k * b = k * a + k * j /\ k * a \in Nat /\ k * j \in Nat
  BY <1>1
<1>3. QED
  BY <1>2

LEMMA TimesCancel ==
  ASSUME NEW k \in Nat \ {0}, NEW a \in Int, NEW b \in Int, k * a < k * b
  PROVE  a < b
<1>1. SUFFICES ASSUME a >= b PROVE FALSE
  OBVIOUS
<1>2. PICK j \in Nat : a = b + j
  <2>1. a - b \in Nat /\ a = b + (a - b)
    BY <1>1
  <2>2. QED
    BY <2>1
<1>3. k * a = k * b + k * j /\ k * b \in Int /\ k * j \in Nat
  BY <1>2
<1>4. QED
  BY <1>3

\* A whole quotient is below the next one.
LEMMA QuotientBelow ==
  ASSUME NEW b \in Nat \ {0}, NEW x \in Nat
  PROVE  x \div b \in Nat /\ x < b * ((x \div b) + 1) /\ b * (x \div b) <= x
<1>1. x \div b \in Nat /\ x % b \in 0..(b - 1) /\ x = b * (x \div b) + (x % b)
  BY DivMod
<1>2. PICK q \in Nat : q = x \div b
  BY <1>1
<1>3. b * (q + 1) = b * q + b /\ b * q \in Nat
  BY <1>2
<1>4. QED
  BY <1>1, <1>2, <1>3

(* Of ticks counted with a calibration that takes c ticks for n ns, where   *)
(* at most most ticks are taken for spin ns: what they are converted to is  *)
(* short of their time by no more than one ns and that share.               *)
LEMMA TicksInTime ==
  ASSUME NEW t \in Nat, NEW n1 \in Nat, NEW c \in Nat, NEW ns \in Nat,
         NEW p \in Nat, NEW q \in Nat, NEW w \in Nat, NEW spin \in Nat \ {0}, NEW most \in Nat,
         spin <= n1, t * n1 <= (ns + 1) * c,
         p * c <= q * (n1 + 1) + w, most = (spin + 1) * q + w
  PROVE  t * p * spin <= (ns + 1) * most
<1>1. PICK k \in Nat : k = q * (n1 + 1) + w
  OBVIOUS
<1>2. PICK m \in Nat : m = ns + 1
  OBVIOUS
<1>3. k * spin <= most * n1
  <2>1. PICK qn \in Nat : qn = q * n1
    OBVIOUS
  <2>2. PICK g \in Nat : g = q + w
    OBVIOUS
  <2>3. k = qn + g /\ most = q * spin + g
    BY <1>1, <2>1, <2>2
  <2>4. k * spin = qn * spin + g * spin /\ qn * spin \in Nat /\ g * spin \in Nat
    BY <2>3
  <2>5. most * n1 = q * spin * n1 + g * n1 /\ q * spin * n1 \in Nat /\ g * n1 \in Nat
    BY <2>3
  <2>6. qn * spin = q * spin * n1
    BY <2>1
  <2>7. g * spin <= g * n1
    BY TimesMonotone
  <2>8. QED
    BY <2>4, <2>5, <2>6, <2>7
<1>4. PICK s1 \in Nat, s2 \in Nat, s3 \in Nat, s4 \in Nat :
        s1 = k * spin /\ s2 = most * n1 /\ s3 = p * c /\ s4 = t * n1
  OBVIOUS
<1>5. PICK f \in Nat : f = p * spin
  OBVIOUS
<1>6. f * s4 <= f * (m * c)
  <2>1. s4 <= m * c /\ m * c \in Nat
    BY <1>2, <1>4
  <2>2. QED
    BY <2>1, TimesMonotone
<1>7. f * (m * c) = (m * spin) * s3
  <2>1. (p * spin) * (m * c) = (m * spin) * (p * c)
    OBVIOUS
  <2>2. QED
    BY <1>4, <1>5, <2>1
<1>8. (m * spin) * s3 <= (m * spin) * k
  <2>1. s3 <= k /\ m * spin \in Nat
    BY <1>1, <1>4
  <2>2. QED
    BY <2>1, TimesMonotone
<1>9. (m * spin) * k = m * s1
  BY <1>4
<1>10. m * s1 <= m * s2
  BY <1>3, <1>4, TimesMonotone
<1>11. f * s4 <= m * s2
  <2>1. f * s4 \in Nat /\ f * (m * c) \in Nat /\ (m * spin) * s3 \in Nat
        /\ (m * spin) * k \in Nat /\ m * s1 \in Nat /\ m * s2 \in Nat
    OBVIOUS
  <2>2. QED
    BY <1>6, <1>7, <1>8, <1>9, <1>10, <2>1
<1>12. f * s4 = n1 * (t * p * spin) /\ m * s2 = n1 * (m * most)
  <2>1. (p * spin) * (t * n1) = n1 * (t * p * spin)
    OBVIOUS
  <2>2. m * (most * n1) = n1 * (m * most)
    OBVIOUS
  <2>3. QED
    BY <1>4, <1>5, <2>1, <2>2
<1>13. SUFFICES ASSUME m * most < t * p * spin PROVE FALSE
  <2>1. m * most \in Nat /\ t * p * spin \in Nat
    OBVIOUS
  <2>2. QED
    BY <1>2, <2>1
<1>14. PICK a \in Nat, b \in Nat : a = m * most /\ b = t * p * spin
  OBVIOUS
<1>15. PICK j \in Nat \ {0} : b = a + j
  <2>1. b - a \in Nat \ {0} /\ b = a + (b - a)
    BY <1>13, <1>14
  <2>2. QED
    BY <2>1
<1>16. n1 * b = n1 * a + n1 * j /\ n1 * a \in Nat /\ n1 * j \in Nat
  BY <1>15
<1>17. n1 * j >= n1 /\ n1 > 0
  <2>1. n1 \in Nat \ {0}
    OBVIOUS
  <2>2. QED
    BY <1>15, <2>1, SmallMultiple
<1>18. n1 * b <= n1 * a
  BY <1>11, <1>12, <1>14
<1>19. QED
  BY <1>16, <1>17, <1>18

-----------------------------------------------------------------------------
(* The latency timer.                                                       *)

\* Read number k of the counter was on this CPU, t ticks after the origin.
ReadAt(k, t, c) == tsc[k] = (phase + t + Skew[c]) % TSC_MOD

\* At time t the clock had shown clock[1], at most d ticks before.
Shown(t, d) ==
  /\ TICKS * clock[1] <= NANOS * t
  /\ NANOS * t < TICKS * clock[1] + TICKS + NANOS * d

\* No more than these ns can have passed in the ticks of the calibration: to the
\* time by the clock come 1 ns that it does not show and two windows of rdtsc.
NotTooMany(ns) ==
  NANOS * Timer!Elapsed(tsc[1], tsc[2]) <= TICKS * (ns + 1) + 2 * WINDOW * NANOS

\* The calibration so far: what the clock and the counter were read at.
CalibrationInv ==
  /\ timer_pc = "tscStart" => Shown(now, 0)
  /\ timer_pc = "spin" =>
       \E c \in CPUs, d \in Delays, s \in -WINDOW..WINDOW :
         /\ ReadAt(1, now + s, c) /\ (still => c = timer_cpu)
         /\ Shown(now, d)
  /\ timer_pc = "tscEnd" =>
       \E c \in CPUs, t \in 0..now, d, e \in Delays, s \in -WINDOW..WINDOW :
         /\ ReadAt(1, t + s, c) /\ (still => c = timer_cpu)
         /\ Shown(t, d)
         /\ TICKS * (clock[1] + SPIN) + NANOS * e <= NANOS * now
         /\ now <= t + SPIN * TICKS + e
  /\ timer_pc = "clockEnd" =>
       /\ Timer!Elapsed(tsc[1], tsc[2]) > 0
       /\ TICKS * (clock[1] + SPIN) <= NANOS * now
       /\ still => NANOS * Timer!Elapsed(tsc[1], tsc[2])
                     <= NANOS * now - TICKS * clock[1] + 2 * WINDOW * NANOS
  /\ timer_pc = "calibrated" =>
       /\ Timer!Elapsed(tsc[1], tsc[2]) > 0
       /\ clock[1] + SPIN <= clock[2]
       /\ still => NotTooMany(clock[2] - clock[1])
  /\ timer_pc \in {"loop", "operation", "record"} =>
       /\ tsc_to_ns[1] >= SPIN
       /\ exact => NANOS * tsc_to_ns[2] <= TICKS * (tsc_to_ns[1] + 1) + 2 * WINDOW * NANOS

\* The measurement: a thread that was not moved reads the ticks that passed.
MeasurementInv ==
  /\ timer_pc = "operation" =>
       \E c \in CPUs : /\ start_tsc = (phase + Skew[c]) % TSC_MOD
                       /\ still => c = timer_cpu
  /\ timer_pc = "record" => (still => Timer!latency_cycles = now)

\* The samples: of this operation only, and those of the last report.
SamplesInv ==
  /\ use = "none" <=> timer_pc = "new"
  /\ timer_pc = "new" => iter = 0 /\ op = 1 /\ ~analyzed /\ report = Timer!NoReport
  /\ use # "benchmark" => op = 1 /\ iter <= MaxRecords
  /\ use = "benchmark" => iter <= Iterations[op]
  /\ timer_pc \in {"operation", "record"} =>
       iter < (IF use = "benchmark" THEN Iterations[op] ELSE MaxRecords)
  /\ latencies_ns \in Seq(Nat) /\ Len(latencies_ns) = iter
  /\ origins = IF iter > 0 THEN {op} ELSE {}
  /\ analyzed =>
       /\ iter > 0 /\ (use = "benchmark" => iter = Iterations[op])
       /\ report = [ops |-> origins,
                    prints |-> Timer!Report(Timer!LatencyStatistics, latencies_ns)]
  /\ \/ report = Timer!NoReport
     \/ \E s \in Seq(Nat) :
          /\ s # << >> /\ Timer!Ordered(s)
          /\ report.prints = Timer!Report(Timer!LatencyStatistics, s)

TimerInv ==
  /\ Timer!TypeOK
  /\ clock \in [1..2 -> Nat] /\ tsc \in [1..2 -> Nat]
  /\ CalibrationInv /\ MeasurementInv /\ SamplesInv

LEMMA ControlPoints ==
  /\ Timer!ToSet(Timer!CALIBRATION) = {"clockStart", "tscStart", "spin", "tscEnd", "clockEnd"}
  /\ Timer!CALIBRATION[1] = "clockStart"
<1>1. PICK c : c = Timer!CALIBRATION
  OBVIOUS
<1>2. /\ DOMAIN c = 1..5
      /\ c[1] = "clockStart" /\ c[2] = "tscStart" /\ c[3] = "spin"
      /\ c[4] = "tscEnd" /\ c[5] = "clockEnd"
  BY <1>1 DEF Timer!CALIBRATION
<1>3. {c[k] : k \in DOMAIN c} = {"clockStart", "tscStart", "spin", "tscEnd", "clockEnd"}
  BY <1>2
<1>4. QED
  BY <1>1, <1>2, <1>3 DEF Timer!ToSet

LEMMA ContinueFacts ==
  ASSUME Timer!Continue
  PROVE  /\ timer_pc = "clockStart" => timer_pc' = "tscStart"
         /\ timer_pc = "tscStart" => timer_pc' = "spin"
         /\ timer_pc = "spin" => timer_pc' = "tscEnd"
         /\ timer_pc = "tscEnd" => timer_pc' = "clockEnd"
         /\ timer_pc = "clockEnd" => timer_pc' = "calibrated"
<1>1. PICK c : c = Timer!CALIBRATION
  OBVIOUS
<1>2. /\ Len(c) = 5
      /\ c[1] = "clockStart" /\ c[2] = "tscStart" /\ c[3] = "spin"
      /\ c[4] = "tscEnd" /\ c[5] = "clockEnd"
  BY <1>1 DEF Timer!CALIBRATION
<1>3. PICK k : k = CHOOSE j \in 1..Len(c) : c[j] = timer_pc
  OBVIOUS
<1>4. timer_pc' = IF k < 5 THEN c[k + 1] ELSE "calibrated"
  BY <1>1, <1>2, <1>3 DEF Timer!Continue
<1>5. (\E i1 \in 1..5 : c[i1] = timer_pc) => k \in 1..5 /\ c[k] = timer_pc
  BY <1>2, <1>3
<1>6. timer_pc \in {"clockStart", "tscStart", "spin", "tscEnd", "clockEnd"}
        => k \in 1..5 /\ c[k] = timer_pc
  <2>1. 1 \in 1..5 /\ 2 \in 1..5 /\ 3 \in 1..5 /\ 4 \in 1..5 /\ 5 \in 1..5
    OBVIOUS
  <2>2. QED
    BY <1>2, <1>5, <2>1
<1>7. k \in 1..5 => k = 1 \/ k = 2 \/ k = 3 \/ k = 4 \/ k = 5
  OBVIOUS
<1>8. QED
  BY <1>2, <1>4, <1>6, <1>7

LEMMA SamplesFit == MAX_SAMPLES \in Nat /\ MAX_SAMPLES <= Timer!LatencyStatistics.max
  BY SMT DEF MAX_SAMPLES, Timer!LatencyStatistics

LEMMA TimerConstants ==
  /\ TICKS \in Nat \ {0} /\ NANOS \in Nat \ {0} /\ WINDOW \in Nat
  /\ SPIN \in Nat \ {0} /\ TSC_MOD \in Nat \ {0}
  /\ \A d \in Delays : d \in Nat /\ d < TSC_MOD
  /\ Phases \subseteq 0..(TSC_MOD - 1)
  /\ Skew \in [CPUs -> Nat]
  /\ 0 \in CPUs
  /\ Len(Iterations) \in Nat /\ Len(Iterations) > 0
  /\ \A k \in 1..Len(Iterations) : Iterations[k] \in 0..MAX_SAMPLES
  /\ MaxRecords \in 0..MAX_SAMPLES
  /\ Uses \subseteq {"benchmark", "free"}
<1>1. ASSUME NEW d \in Delays PROVE d \in Nat /\ d < TSC_MOD
  <2>1. d \in Nat /\ 0 \in CPUs /\ Skew[0] \in Nat /\ WINDOW \in Nat /\ TSC_MOD \in Nat
        /\ SPIN * TICKS + d + d + 2 * WINDOW + Skew[0] < TSC_MOD + Skew[0]
        /\ SPIN \in Nat /\ TICKS \in Nat
    BY TimerAssumption
  <2>2. PICK k \in Nat : k = SPIN * TICKS
    BY <2>1
  <2>3. QED
    BY <2>1, <2>2
<1>2. /\ Len(Iterations) \in Nat /\ Len(Iterations) > 0
      /\ \A k \in 1..Len(Iterations) : Iterations[k] \in 0..MAX_SAMPLES
  <2>0. PICK S : S = 0..MAX_SAMPLES
    OBVIOUS
  <2>1. PICK its \in Seq(S) : its = Iterations /\ its # << >>
    BY <2>0, TimerAssumption
  <2>2. Len(its) \in Nat /\ Len(its) > 0
    BY <2>1
  <2>3. \A k \in 1..Len(its) : its[k] \in S
    BY <2>1
  <2>4. QED
    BY <2>0, <2>1, <2>2, <2>3
<1>3. /\ TICKS \in Nat \ {0} /\ NANOS \in Nat \ {0} /\ WINDOW \in Nat
      /\ SPIN \in Nat \ {0} /\ TSC_MOD \in Nat \ {0}
      /\ Phases \subseteq 0..(TSC_MOD - 1) /\ Skew \in [CPUs -> Nat] /\ 0 \in CPUs
      /\ MaxRecords \in 0..MAX_SAMPLES /\ Uses \subseteq {"benchmark", "free"}
  BY TimerAssumption
<1>4. QED
  BY <1>1, <1>2, <1>3

LEMMA TimerTypes ==
  ASSUME TimerInv
  PROVE  /\ now \in Nat /\ phase \in Nat /\ timer_cpu \in CPUs
         /\ clock \in [1..2 -> Nat] /\ tsc \in [1..2 -> Nat]
         /\ clock[1] \in Nat /\ clock[2] \in Nat /\ tsc[1] \in Nat /\ tsc[2] \in Nat
         /\ start_tsc \in Nat /\ end_tsc \in Nat
         /\ tsc_to_ns[1] \in Nat /\ tsc_to_ns[2] \in Nat \ {0}
         /\ op \in 1..Len(Iterations) /\ Iterations[op] \in Nat
         /\ iter \in Nat
         /\ Timer!TypeOK /\ CalibrationInv /\ MeasurementInv /\ SamplesInv
<1>1. Timer!TypeOK /\ CalibrationInv /\ MeasurementInv /\ SamplesInv
      /\ clock \in [1..2 -> Nat] /\ tsc \in [1..2 -> Nat]
  BY DEF TimerInv
<1>2. clock[1] \in Nat /\ clock[2] \in Nat /\ tsc[1] \in Nat /\ tsc[2] \in Nat
  BY <1>1
<1>3. /\ now \in Nat /\ phase \in 0..(TSC_MOD - 1) /\ timer_cpu \in CPUs
      /\ start_tsc \in 0..(TSC_MOD - 1) /\ end_tsc \in 0..(TSC_MOD - 1)
      /\ tsc_to_ns[1] \in Nat /\ tsc_to_ns[2] \in Nat \ {0}
      /\ op \in 1..Len(Iterations) /\ iter \in 0..(MaxRecords + Iterations[op])
  BY <1>1 DEF Timer!TypeOK
<1>4. Iterations[op] \in Nat /\ iter \in Nat
  BY <1>3, TimerConstants, SamplesFit
<1>5. QED
  BY <1>1, <1>2, <1>3, <1>4, TimerConstants

LEMMA CounterReads ==
  ASSUME NEW p \in Nat, NEW t \in Int, NEW c \in CPUs
  PROVE  (p + t + Skew[c]) % TSC_MOD \in 0..(TSC_MOD - 1)
<1>1. Skew[c] \in Nat /\ TSC_MOD \in Nat \ {0}
  BY TimerConstants
<1>2. PICK x \in Int : x = p + t + Skew[c]
  BY <1>1
<1>3. x % TSC_MOD \in 0..(TSC_MOD - 1)
  BY <1>1, DivModInt
<1>4. QED
  BY <1>2, <1>3

\* The clock shows whole ns, so up to one less than passed.
LEMMA ClockShows ==
  ASSUME NEW t \in Nat
  PROVE  /\ Timer!Ns(t) \in Nat
         /\ TICKS * Timer!Ns(t) <= NANOS * t
         /\ NANOS * t < TICKS * (Timer!Ns(t) + 1)
<1>1. TICKS \in Nat \ {0} /\ NANOS \in Nat
  BY TimerConstants
<1>2. PICK x \in Nat : x = t * NANOS /\ x = NANOS * t
  <2>1. t * NANOS \in Nat /\ t * NANOS = NANOS * t
    BY <1>1
  <2>2. QED
    BY <2>1
<1>3. Timer!Ns(t) = x \div TICKS
  BY <1>2 DEF Timer!Ns
<1>4. QED
  BY <1>1, <1>2, <1>3, QuotientBelow

\* Of a step that does not touch the samples.
LEMMA SamplesKept ==
  ASSUME SamplesInv, UNCHANGED <<use, op, iter, latencies_ns, origins, analyzed, report>>,
         timer_pc # "new", timer_pc' # "new",
         timer_pc' \in {"operation", "record"} => timer_pc \in {"operation", "record"}
  PROVE  SamplesInv'
  BY DEF SamplesInv, Timer!NoReport

LEMMA TimerInitInv == Timer!Init => TimerInv
<1> SUFFICES ASSUME Timer!Init PROVE TimerInv
  OBVIOUS
<1>1. /\ use = "none" /\ timer_pc = "new" /\ phase = 0 /\ now = 0 /\ timer_cpu = 0
      /\ still = TRUE /\ clock = <<0, 0>> /\ tsc = <<0, 0>> /\ tsc_to_ns = <<1, 1>>
      /\ exact = TRUE /\ start_tsc = 0 /\ end_tsc = 0 /\ op = 1 /\ iter = 0
      /\ latencies_ns = << >> /\ origins = {} /\ analyzed = FALSE
      /\ report = Timer!NoReport
  BY DEF Timer!Init
<1>2. clock \in [1..2 -> Nat] /\ tsc \in [1..2 -> Nat]
  BY <1>1
<1>3. tsc_to_ns[1] = 1 /\ tsc_to_ns[2] = 1
  BY <1>1
<1>4. latencies_ns \in Seq(Nat) /\ Len(latencies_ns) = 0
  BY <1>1
<1>5. 0 \in 0..(TSC_MOD - 1) /\ 1 \in 1..Len(Iterations) /\ 0 \in 0..(MaxRecords + Iterations[1])
  <2>1. 1 \in 1..Len(Iterations)
    BY TimerConstants
  <2>2. MaxRecords \in Nat /\ Iterations[1] \in Nat /\ TSC_MOD \in Nat \ {0}
    BY <2>1, TimerConstants, SamplesFit
  <2>3. QED
    BY <2>1, <2>2
<1>6. Timer!TypeOK
  <2>1. timer_cpu \in CPUs
    BY <1>1, TimerConstants
  <2>2. op \in 1..Len(Iterations) /\ iter \in 0..(MaxRecords + Iterations[op])
    BY <1>1, <1>5
  <2>3. phase \in 0..(TSC_MOD - 1) /\ start_tsc \in 0..(TSC_MOD - 1) /\ end_tsc \in 0..(TSC_MOD - 1)
        /\ now \in Nat /\ tsc_to_ns[1] \in Nat /\ tsc_to_ns[2] \in Nat \ {0}
    BY <1>1, <1>3, <1>5
  <2>4. still \in BOOLEAN /\ exact \in BOOLEAN /\ analyzed \in BOOLEAN
        /\ use \in Uses \cup {"none"} /\ latencies_ns \in Seq(Nat)
        /\ origins \subseteq 1..Len(Iterations)
    BY <1>1, <1>4
  <2>5. timer_pc \in Timer!ToSet(Timer!CALIBRATION) \cup {"new", "calibrated", "loop", "operation", "record"}
    BY <1>1
  <2>6. QED
    BY <2>1, <2>2, <2>3, <2>4, <2>5 DEF Timer!TypeOK
<1>7. CalibrationInv /\ MeasurementInv
  BY <1>1 DEF CalibrationInv, MeasurementInv
<1>8. SamplesInv
  <2>1. MaxRecords \in Nat
    BY TimerConstants, SamplesFit
  <2>2. QED
    BY <1>1, <1>4, <2>1 DEF SamplesInv
<1>9. QED
  BY <1>2, <1>6, <1>7, <1>8 DEF TimerInv

LEMMA TimerConstructInv ==
  ASSUME TimerInv, NEW u \in Uses, NEW p \in Phases, Timer!Construct(u, p)
  PROVE  TimerInv'
<1>1. /\ timer_pc = "new" /\ use' = u /\ phase' = p /\ timer_cpu' \in CPUs
      /\ timer_pc' = "clockStart"
      /\ UNCHANGED <<now, still, clock, tsc, tsc_to_ns, exact, start_tsc, end_tsc, op, iter,
                     latencies_ns, origins, analyzed, report>>
  BY ControlPoints DEF Timer!Construct, Timer!timer, Timer!stats
<1>2. Timer!TypeOK'
  BY <1>1, TimerConstants, ControlPoints DEF TimerInv, Timer!TypeOK
<1>3. CalibrationInv' /\ MeasurementInv'
  BY <1>1, TimerTypes DEF CalibrationInv, MeasurementInv
<1>4. SamplesInv'
  <2>1. use = "none" /\ u \in {"benchmark", "free"}
    BY <1>1, TimerConstants DEF TimerInv, SamplesInv
  <2>2. /\ iter = 0 /\ op = 1 /\ analyzed = FALSE /\ latencies_ns \in Seq(Nat) /\ Len(latencies_ns) = iter
        /\ origins = IF iter > 0 THEN {op} ELSE {}
        /\ report = Timer!NoReport
    BY <1>1 DEF TimerInv, SamplesInv
  <2>3. Iterations[op] \in Nat /\ MaxRecords \in Nat
    BY TimerTypes, TimerConstants, SamplesFit
  <2>4. QED
    BY <1>1, <2>1, <2>2, <2>3 DEF SamplesInv, Timer!NoReport
<1>5. QED
  BY <1>1, <1>2, <1>3, <1>4 DEF TimerInv

\* What TypeOK says of the variables that a read of clock or counter leaves alone.
LEMMA ReadTypes ==
  ASSUME TimerInv, now' \in Nat, timer_pc' \in Timer!ToSet(Timer!CALIBRATION) \cup {"calibrated", "record"},
         timer_cpu' \in CPUs, still' \in BOOLEAN, end_tsc' \in 0..(TSC_MOD - 1),
         UNCHANGED <<use, phase, tsc_to_ns, exact, start_tsc, op, iter, latencies_ns, origins,
                     analyzed, report>>
  PROVE  Timer!TypeOK'
  BY DEF TimerInv, Timer!TypeOK

LEMMA TimerReadClockInv ==
  ASSUME TimerInv, NEW d \in Delays, Timer!ReadClock(d)
  PROVE  TimerInv'
<1>1. /\ timer_pc \in {"clockStart", "clockEnd"}
      /\ clock' = [clock EXCEPT ![IF timer_pc = "clockStart" THEN 1 ELSE 2] = Timer!Ns(now + d)]
      /\ now' = now + d /\ Timer!Continue
      /\ UNCHANGED <<phase, timer_cpu, still, use, tsc, tsc_to_ns, exact, start_tsc, end_tsc,
                     op, iter, latencies_ns, origins, analyzed, report>>
  BY DEF Timer!ReadClock, Timer!Later, Timer!stats
<1>2. /\ now \in Nat /\ d \in Nat /\ NANOS \in Nat \ {0} /\ TICKS \in Nat \ {0} /\ WINDOW \in Nat
      /\ SPIN \in Nat \ {0}
      /\ clock \in [1..2 -> Nat] /\ tsc \in [1..2 -> Nat] /\ clock[1] \in Nat
      /\ Timer!TypeOK /\ CalibrationInv /\ MeasurementInv /\ SamplesInv
  BY TimerTypes, TimerConstants
<1>4. now' \in Nat
  BY <1>1, <1>2
<1>3. PICK n1 \in Nat : /\ n1 = Timer!Ns(now + d)
                        /\ TICKS * n1 <= NANOS * now' /\ NANOS * now' < TICKS * (n1 + 1)
  BY <1>1, <1>4, ClockShows
<1>5. clock' \in [1..2 -> Nat] /\ tsc' \in [1..2 -> Nat]
  <2>1. (IF timer_pc = "clockStart" THEN 1 ELSE 2) \in 1..2
    OBVIOUS
  <2>2. QED
    BY <1>1, <1>2, <1>3, <2>1
<1>6. CalibrationInv' /\ timer_pc' \in {"tscStart", "calibrated"}
  <2>1. CASE timer_pc = "clockStart"
    <3>1. timer_pc' = "tscStart" /\ clock'[1] = n1
      BY <1>1, <1>2, <1>3, <2>1, ContinueFacts
    <3>2. TICKS * (n1 + 1) = TICKS * n1 + TICKS /\ TICKS * n1 \in Nat /\ NANOS * 0 = 0
          /\ TICKS * n1 + TICKS + 0 = TICKS * n1 + TICKS
      BY <1>2
    <3>3. Shown(now, 0)'
      BY <1>3, <3>1, <3>2 DEF Shown
    <3>4. QED
      BY <3>1, <3>3 DEF CalibrationInv
  <2>2. CASE timer_pc = "clockEnd"
    <3>1. timer_pc' = "calibrated" /\ clock'[1] = clock[1] /\ clock'[2] = n1
      BY <1>1, <1>2, <1>3, <2>2, ContinueFacts
    <3>2. PICK e \in Nat : e = Timer!Elapsed(tsc[1], tsc[2])
      <4>1. PICK z \in Int : z = tsc[2] - tsc[1]
        BY <1>2
      <4>2. TSC_MOD \in Nat \ {0} /\ z % TSC_MOD \in 0..(TSC_MOD - 1)
        BY <4>1, DivModInt, TimerConstants
      <4>3. QED
        BY <4>1, <4>2 DEF Timer!Elapsed
    <3>3. PICK c1 \in Nat, w \in Nat : c1 = clock[1] /\ w = 2 * WINDOW * NANOS
      BY <1>2
    <3>4. /\ e > 0 /\ TICKS * (c1 + SPIN) <= NANOS * now
          /\ still => NANOS * e <= NANOS * now - TICKS * c1 + w
      BY <1>2, <2>2, <3>2, <3>3 DEF CalibrationInv
    <3>5. Timer!Elapsed(tsc[1], tsc[2])' = e
      BY <1>1, <3>2 DEF Timer!Elapsed
    <3>6. NANOS * now <= NANOS * now' /\ NANOS * now \in Nat /\ NANOS * now' \in Nat
      BY <1>1, <1>2, <1>4, TimesMonotone
    <3>7. c1 + SPIN <= n1
      <4>1. TICKS * (c1 + SPIN) \in Nat /\ TICKS * (n1 + 1) \in Nat
        BY <1>2
      <4>2. TICKS * (c1 + SPIN) < TICKS * (n1 + 1)
        BY <1>3, <3>4, <3>6, <4>1
      <4>3. c1 + SPIN < n1 + 1
        BY <1>2, <4>2, TimesCancel
      <4>4. QED
        BY <1>2, <4>3
    <3>8. ASSUME still PROVE NANOS * e <= TICKS * (n1 - c1 + 1) + w
      <4>1. TICKS * (n1 - c1 + 1) = TICKS * (n1 + 1) - TICKS * c1
            /\ TICKS * (n1 + 1) \in Nat /\ TICKS * c1 \in Nat /\ NANOS * e \in Nat
        BY <1>2
      <4>2. QED
        BY <1>3, <3>4, <3>6, <3>8, <4>1
    <3>9. still' => NotTooMany(clock[2] - clock[1])'
      BY <1>1, <3>1, <3>3, <3>5, <3>8 DEF NotTooMany
    <3>10. QED
      BY <3>1, <3>3, <3>4, <3>5, <3>7, <3>9 DEF CalibrationInv
  <2>3. QED
    BY <1>1, <2>1, <2>2
<1>7. MeasurementInv'
  BY <1>6 DEF MeasurementInv
<1>8. SamplesInv'
  BY <1>1, <1>2, <1>6, SamplesKept
<1>9. Timer!TypeOK'
  <2>1. timer_cpu \in CPUs /\ still \in BOOLEAN /\ end_tsc \in 0..(TSC_MOD - 1)
    BY <1>2 DEF Timer!TypeOK
  <2>2. QED
    BY <1>1, <1>4, <1>6, <2>1, ReadTypes, ControlPoints
<1>10. QED
  BY <1>5, <1>6, <1>7, <1>8, <1>9 DEF TimerInv

LEMMA CalibrationTicks ==
  ASSUME TimerInv, timer_pc = "tscEnd", NEW f \in Delays, NEW late \in -WINDOW..WINDOW, NEW read,
         read = (phase + (now + f + late) + Skew[timer_cpu]) % TSC_MOD
  PROVE  /\ Timer!Elapsed(tsc[1], read) > 0
         /\ TICKS * (clock[1] + SPIN) <= NANOS * (now + f)
         /\ still => NANOS * Timer!Elapsed(tsc[1], read)
                       <= NANOS * (now + f) - TICKS * clock[1] + 2 * WINDOW * NANOS
<1>1. /\ now \in Nat /\ phase \in Nat /\ timer_cpu \in CPUs /\ clock[1] \in Nat /\ CalibrationInv
      /\ NANOS \in Nat \ {0} /\ TICKS \in Nat \ {0} /\ WINDOW \in Nat
      /\ SPIN \in Nat \ {0} /\ TSC_MOD \in Nat \ {0} /\ f \in Nat
  BY TimerTypes, TimerConstants
<1>2. PICK c \in CPUs, t \in 0..now, d \in Delays, e \in Delays, s \in -WINDOW..WINDOW :
        /\ ReadAt(1, t + s, c) /\ (still => c = timer_cpu)
        /\ Shown(t, d)
        /\ TICKS * (clock[1] + SPIN) + NANOS * e <= NANOS * now
        /\ now <= t + SPIN * TICKS + e
  BY <1>1 DEF CalibrationInv
<1>3. PICK s1 \in Nat, s2 \in Nat, c1 \in Nat : s1 = Skew[c] /\ s2 = Skew[timer_cpu] /\ c1 = clock[1]
  BY <1>1, TimerConstants
<1>4. PICK round \in Nat : round = SPIN * TICKS
  BY <1>1
<1>5. /\ d \in Nat /\ e \in Nat /\ t \in Nat /\ t <= now /\ s \in Int /\ late \in Int
      /\ s <= WINDOW /\ -WINDOW <= s /\ late <= WINDOW /\ -WINDOW <= late
      /\ NANOS * (d + 2 * WINDOW + s1) <= TICKS * (SPIN - 1) + NANOS * s2
      /\ round + f + e + 2 * WINDOW + s2 < TSC_MOD + s1
  <2>1. d \in Nat /\ e \in Nat /\ t \in Nat /\ t <= now
    BY <1>1, <1>2, TimerConstants
  <2>2. NANOS * (d + 2 * WINDOW + Skew[c]) <= TICKS * (SPIN - 1) + NANOS * Skew[timer_cpu]
    BY <1>1, <1>2, TimerAssumption
  <2>3. SPIN * TICKS + f + e + 2 * WINDOW + Skew[timer_cpu] < TSC_MOD + Skew[c]
    BY <1>1, <1>2, TimerAssumption
  <2>4. s \in Int /\ late \in Int /\ s <= WINDOW /\ -WINDOW <= s /\ late <= WINDOW /\ -WINDOW <= late
    BY <1>1
  <2>5. QED
    BY <1>3, <1>4, <2>1, <2>2, <2>3, <2>4
<1>6. PICK x \in Int, y \in Int : x = phase + t + s + s1 /\ y = phase + now + f + late + s2
  BY <1>1, <1>3, <1>5
<1>7. tsc[1] = x % TSC_MOD /\ read = y % TSC_MOD
  <2>1. phase + (t + s) + Skew[c] = x /\ phase + (now + f + late) + Skew[timer_cpu] = y
    BY <1>1, <1>3, <1>5, <1>6
  <2>2. QED
    BY <1>2, <2>1 DEF ReadAt
<1>8. PICK k \in Int : k = y - x
  OBVIOUS
<1>9. PICK nn \in Nat, nt \in Nat, nf \in Nat, n2 \in Nat, n1 \in Nat, nd \in Nat, ne \in Nat, nw \in Nat :
        /\ nn = NANOS * now /\ nt = NANOS * t /\ nf = NANOS * f /\ n2 = NANOS * s2
        /\ n1 = NANOS * s1 /\ nd = NANOS * d /\ ne = NANOS * e /\ nw = NANOS * WINDOW
  <2>1. NANOS * now \in Nat /\ NANOS * t \in Nat /\ NANOS * f \in Nat /\ NANOS * s2 \in Nat
    BY <1>1, <1>3, <1>5
  <2>2. NANOS * s1 \in Nat /\ NANOS * d \in Nat /\ NANOS * e \in Nat /\ NANOS * WINDOW \in Nat
    BY <1>1, <1>3, <1>5
  <2>3. QED
    BY <2>1, <2>2
<1>10. PICK nk \in Int, nl \in Int : nk = NANOS * k /\ nl = NANOS * (late - s)
  BY <1>1, <1>5
<1>11. nk = nn - nt + nf + nl + n2 - n1
  <2>0. /\ now \in Int /\ phase \in Int /\ f \in Int /\ t \in Int /\ s \in Int /\ late \in Int
    BY <1>1, <1>5
  <2>1. k = now - t + f + (late - s) + s2 - s1
    BY <2>0, <1>6, <1>8
  <2>2. PICK g \in Int : g = late - s
    BY <1>5
  <2>3. NANOS * k = NANOS * now - NANOS * t + NANOS * f + NANOS * g + NANOS * s2 - NANOS * s1
    BY <1>1, <1>3, <1>5, <2>1, <2>2
  <2>4. QED
    BY <1>9, <1>10, <2>2, <2>3
<1>12. nl >= -2 * nw /\ nl <= 2 * nw
  <2>1. PICK g \in Nat, h \in Nat : g = late - s + 2 * WINDOW /\ h = 2 * WINDOW - (late - s)
    BY <1>1, <1>5
  <2>2. NANOS * g = nl + 2 * nw /\ NANOS * h = 2 * nw - nl
    BY <1>1, <1>5, <1>9, <1>10, <2>1
  <2>3. NANOS * g \in Nat /\ NANOS * h \in Nat
    BY <1>1, <2>1
  <2>4. QED
    BY <1>9, <1>10, <2>2, <2>3
<1>13. PICK qc \in Nat, qs \in Nat : qc = TICKS * c1 /\ qs = TICKS * SPIN
  BY <1>1
<1>14. nd + 2 * nw + n1 <= qs - TICKS + n2
  <2>1. NANOS * (d + 2 * WINDOW + s1) = nd + 2 * nw + n1
    BY <1>1, <1>3, <1>5, <1>9
  <2>2. TICKS * (SPIN - 1) = qs - TICKS
    BY <1>1, <1>13
  <2>3. QED
    BY <1>5, <1>9, <2>1, <2>2
<1>15. qc <= nt /\ nt < qc + TICKS + nd /\ qc + qs + ne <= nn
  <2>1. TICKS * (c1 + SPIN) = qc + qs
    BY <1>1, <1>13
  <2>2. QED
    BY <1>2, <1>3, <1>9, <1>13, <2>1 DEF Shown
<1>16. nk > 0
  BY <1>1, <1>11, <1>12, <1>14, <1>15
<1>17. k > 0
  <2>1. SUFFICES ASSUME k <= 0 PROVE FALSE
    BY <1>8
  <2>2. k <= -1 => nk <= -NANOS
    BY <1>1, <1>8, <1>10, SmallMultiple
  <2>3. k = 0 => nk = 0
    BY <1>1, <1>8, <1>10, SmallMultiple
  <2>4. QED
    BY <1>1, <1>8, <1>16, <2>1, <2>2, <2>3
<1>18. k < TSC_MOD
  BY <1>1, <1>2, <1>3, <1>4, <1>5, <1>6, <1>8
<1>19. Timer!Elapsed(tsc[1], read) = k
  <2>1. x <= y /\ y - x < TSC_MOD
    BY <1>6, <1>8, <1>17, <1>18
  <2>2. ((y % TSC_MOD) - (x % TSC_MOD)) % TSC_MOD = y - x
    BY <1>1, <2>1, CounterDifference
  <2>3. QED
    BY <1>7, <1>8, <2>2 DEF Timer!Elapsed
<1>20. NANOS * (now + f) = nn + nf
  BY <1>1, <1>9
<1>21. still => nk <= nn + nf - qc + 2 * nw
  <2>1. still => n1 = n2
    BY <1>2, <1>3, <1>9
  <2>2. QED
    BY <1>11, <1>12, <1>15, <2>1
<1>22. TICKS * (c1 + SPIN) <= nn + nf /\ 2 * WINDOW * NANOS = 2 * nw
  <2>1. TICKS * (c1 + SPIN) = qc + qs /\ 2 * WINDOW * NANOS = 2 * nw
    BY <1>1, <1>9, <1>13
  <2>2. QED
    BY <1>15, <2>1
<1>23. QED
  BY <1>3, <1>8, <1>10, <1>13, <1>17, <1>19, <1>20, <1>21, <1>22

LEMMA TimerReadCounterInv ==
  ASSUME TimerInv, NEW d \in Delays, Timer!ReadCounter(d)
  PROVE  TimerInv'
<1>1. /\ timer_pc \in {"tscStart", "tscEnd"}
      /\ now' = now + d /\ Timer!Continue
      /\ UNCHANGED <<phase, timer_cpu, still, use, clock, tsc_to_ns, exact, start_tsc, end_tsc,
                     op, iter, latencies_ns, origins, analyzed, report>>
  BY DEF Timer!ReadCounter, Timer!Later, Timer!stats
<1>2. /\ now \in Nat /\ phase \in Nat /\ timer_cpu \in CPUs /\ d \in Nat /\ NANOS \in Nat \ {0}
      /\ TSC_MOD \in Nat \ {0} /\ WINDOW \in Nat /\ TICKS \in Nat \ {0}
      /\ clock \in [1..2 -> Nat] /\ tsc \in [1..2 -> Nat] /\ clock[1] \in Nat
      /\ Timer!TypeOK /\ CalibrationInv /\ MeasurementInv /\ SamplesInv
  BY TimerTypes, TimerConstants
<1>3. PICK late \in -WINDOW..WINDOW :
        tsc' = [tsc EXCEPT ![IF timer_pc = "tscStart" THEN 1 ELSE 2] =
                  (phase + (now + d + late) + Skew[timer_cpu]) % TSC_MOD]
  BY DEF Timer!ReadCounter, Timer!rdtsc, Timer!rdtscp
<1>4. now' \in Nat
  BY <1>1, <1>2
<1>5. PICK read \in Nat : read = (phase + (now + d + late) + Skew[timer_cpu]) % TSC_MOD
  <2>1. now + d + late \in Int
    BY <1>2
  <2>2. (phase + (now + d + late) + Skew[timer_cpu]) % TSC_MOD \in 0..(TSC_MOD - 1)
    BY <1>2, <2>1, CounterReads
  <2>3. QED
    BY <1>2, <2>2
<1>0. clock' \in [1..2 -> Nat] /\ tsc' \in [1..2 -> Nat]
  <2>1. (IF timer_pc = "tscStart" THEN 1 ELSE 2) \in 1..2
    OBVIOUS
  <2>2. QED
    BY <1>1, <1>2, <1>3, <1>5, <2>1
<1>6. CalibrationInv' /\ timer_pc' \in {"spin", "clockEnd"}
  <2>1. CASE timer_pc = "tscStart"
    <3>1. timer_pc' = "spin" /\ tsc'[1] = read
      BY <1>1, <1>2, <1>3, <1>5, <2>1, ContinueFacts
    <3>2. /\ TICKS * clock[1] <= NANOS * now
          /\ NANOS * now < TICKS * clock[1] + TICKS + NANOS * 0
      BY <1>2, <2>1 DEF CalibrationInv, Shown
    <3>3. /\ NANOS * now' = NANOS * now + NANOS * d /\ NANOS * 0 = 0
          /\ NANOS * d \in Nat /\ NANOS * now \in Nat /\ TICKS * clock[1] \in Nat
      BY <1>1, <1>2
    <3>4. /\ TICKS * clock[1] <= NANOS * now'
          /\ NANOS * now' < TICKS * clock[1] + TICKS + NANOS * d
      <4>1. PICK q0, n0, nd, n1 : q0 = TICKS * clock[1] /\ n0 = NANOS * now /\ nd = NANOS * d /\ n1 = NANOS * now'
        OBVIOUS
      <4>2. QED
        BY <1>2, <3>2, <3>3, <4>1
    <3>5. Shown(now, d)'
      BY <1>1, <3>4 DEF Shown
    <3>6. ReadAt(1, now + late, timer_cpu)'
      BY <1>1, <1>5, <3>1 DEF ReadAt
    <3>7. /\ timer_cpu \in CPUs /\ timer_cpu' = timer_cpu
      BY <1>1, <1>2
    <3>8. \E c \in CPUs, e \in Delays, s \in -WINDOW..WINDOW :
            /\ ReadAt(1, now + s, c)' /\ (still' => c = timer_cpu')
            /\ Shown(now, e)'
      BY <3>5, <3>6, <3>7 DEF ReadAt, Shown
    <3>9. QED
      BY <3>1, <3>8 DEF CalibrationInv
  <2>2. CASE timer_pc = "tscEnd"
    <3>1. timer_pc' = "clockEnd" /\ tsc'[1] = tsc[1] /\ tsc'[2] = read
      BY <1>1, <1>2, <1>3, <1>5, <2>2, ContinueFacts
    <3>2. /\ Timer!Elapsed(tsc[1], read) > 0
          /\ TICKS * (clock[1] + SPIN) <= NANOS * (now + d)
          /\ still => NANOS * Timer!Elapsed(tsc[1], read)
                        <= NANOS * (now + d) - TICKS * clock[1] + 2 * WINDOW * NANOS
      BY <1>5, <2>2, CalibrationTicks
    <3>3. Timer!Elapsed(tsc[1], tsc[2])' = Timer!Elapsed(tsc[1], read)
      BY <3>1 DEF Timer!Elapsed
    <3>4. QED
      BY <1>1, <3>1, <3>2, <3>3 DEF CalibrationInv
  <2>3. QED
    BY <1>1, <2>1, <2>2
<1>7. MeasurementInv'
  BY <1>6 DEF MeasurementInv
<1>8. SamplesInv'
  BY <1>1, <1>2, <1>6, SamplesKept
<1>9. Timer!TypeOK'
  <2>1. timer_cpu \in CPUs /\ still \in BOOLEAN /\ end_tsc \in 0..(TSC_MOD - 1)
    BY <1>2 DEF Timer!TypeOK
  <2>2. QED
    BY <1>1, <1>4, <1>6, <2>1, ReadTypes, ControlPoints
<1>10. QED
  BY <1>0, <1>6, <1>7, <1>8, <1>9 DEF TimerInv

LEMMA TimerSpinInv ==
  ASSUME TimerInv, NEW e \in Delays, Timer!Spin(e)
  PROVE  TimerInv'
<1>1. PICK u \in now..(now + SPIN * TICKS) :
        /\ Timer!Ns(u) >= clock[1] + SPIN
        /\ now' = u + e
  BY DEF Timer!Spin, Timer!SpinUntil, Timer!Later
<1>2. /\ timer_pc = "spin" /\ Timer!Continue
      /\ UNCHANGED <<phase, timer_cpu, still, use, clock, tsc, tsc_to_ns, exact, start_tsc, end_tsc,
                     op, iter, latencies_ns, origins, analyzed, report>>
  BY DEF Timer!Spin, Timer!Later, Timer!timer, Timer!stats
<1>3. /\ now \in Nat /\ e \in Nat /\ NANOS \in Nat \ {0} /\ TICKS \in Nat \ {0} /\ SPIN \in Nat
      /\ clock \in [1..2 -> Nat] /\ tsc \in [1..2 -> Nat] /\ clock[1] \in Nat
      /\ Timer!TypeOK /\ CalibrationInv /\ MeasurementInv /\ SamplesInv
  BY TimerTypes, TimerConstants
<1>0. PICK round \in Nat : round = SPIN * TICKS
  BY <1>3
<1>4. /\ u \in Nat /\ now <= u /\ u <= now + round
      /\ timer_pc' = "tscEnd" /\ now' \in Nat /\ now <= now'
  BY <1>0, <1>1, <1>2, <1>3, ContinueFacts
<1>5. PICK c \in CPUs, d \in Delays, s \in -WINDOW..WINDOW :
        /\ ReadAt(1, now + s, c) /\ (still => c = timer_cpu)
        /\ Shown(now, d)
  BY <1>2, <1>3 DEF CalibrationInv
<1>6. CalibrationInv'
  <2>1. PICK t \in 0..now' : t = now
    BY <1>3, <1>4
  <2>2. ReadAt(1, t + s, c)'
    BY <1>2, <1>5, <2>1 DEF ReadAt
  <2>3. TICKS * (clock[1] + SPIN) + NANOS * e <= NANOS * now'
    <3>1. PICK shows \in Nat : shows = Timer!Ns(u) /\ TICKS * shows <= NANOS * u
      BY <1>4, ClockShows
    <3>2. TICKS * (clock[1] + SPIN) <= TICKS * shows
          /\ TICKS * (clock[1] + SPIN) \in Nat /\ TICKS * shows \in Nat
      <4>1. PICK g \in Nat : g = clock[1] + SPIN
        BY <1>3
      <4>2. g <= shows
        BY <1>1, <3>1, <4>1
      <4>3. QED
        BY <1>3, <4>1, <4>2, TimesMonotone
    <3>3. NANOS * now' = NANOS * u + NANOS * e /\ NANOS * e \in Nat /\ NANOS * u \in Nat
      BY <1>1, <1>3, <1>4
    <3>4. QED
      BY <3>1, <3>2, <3>3
  <2>4. now' <= t + SPIN * TICKS + e
    BY <1>0, <1>1, <1>3, <1>4, <2>1
  <2>5. Shown(t, d)'
    BY <1>2, <1>5, <2>1 DEF Shown
  <2>6. \E c1 \in CPUs, t1 \in 0..now', d1, e1 \in Delays, s1 \in -WINDOW..WINDOW :
          /\ ReadAt(1, t1 + s1, c1)' /\ (still' => c1 = timer_cpu')
          /\ Shown(t1, d1)'
          /\ TICKS * (clock'[1] + SPIN) + NANOS * e1 <= NANOS * now'
          /\ now' <= t1 + SPIN * TICKS + e1
    <3>1. (still' => c = timer_cpu') /\ clock' = clock
      BY <1>2, <1>5
    <3>2. QED
      BY <2>2, <2>3, <2>4, <2>5, <3>1 DEF ReadAt, Shown
  <2>7. QED
    BY <1>4, <2>6 DEF CalibrationInv
<1>7. MeasurementInv'
  BY <1>4 DEF MeasurementInv
<1>8. SamplesInv'
  BY <1>2, <1>3, <1>4, SamplesKept
<1>9. Timer!TypeOK'
  <2>1. timer_cpu \in CPUs /\ still \in BOOLEAN /\ end_tsc \in 0..(TSC_MOD - 1)
    BY <1>3 DEF Timer!TypeOK
  <2>2. QED
    BY <1>2, <1>4, <2>1, ReadTypes, ControlPoints
<1>10. QED
  BY <1>2, <1>3, <1>6, <1>7, <1>8, <1>9 DEF TimerInv

LEMMA TimerCalibratedInv ==
  ASSUME TimerInv, Timer!Calibrated
  PROVE  TimerInv'
<1>1. /\ timer_pc = "calibrated"
      /\ tsc_to_ns' = <<clock[2] - clock[1], Timer!Elapsed(tsc[1], tsc[2])>>
      /\ exact' = still /\ clock' = <<0, 0>> /\ tsc' = <<0, 0>>
      /\ phase' = 0 /\ now' = 0 /\ still' = TRUE /\ timer_pc' = "loop"
      /\ UNCHANGED <<timer_cpu, use, start_tsc, end_tsc, op, iter,
                     latencies_ns, origins, analyzed, report>>
  BY DEF Timer!Calibrated, Timer!NewOrigin, Timer!stats
<1>2. /\ SPIN \in Nat \ {0} /\ TSC_MOD \in Nat \ {0}
      /\ clock[1] \in Nat /\ clock[2] \in Nat /\ tsc[1] \in Nat /\ tsc[2] \in Nat
      /\ Timer!TypeOK /\ CalibrationInv /\ MeasurementInv /\ SamplesInv
  BY TimerTypes, TimerConstants
<1>3. PICK e \in Nat : e = Timer!Elapsed(tsc[1], tsc[2])
  <2>1. PICK z \in Int : z = tsc[2] - tsc[1]
    BY <1>2
  <2>2. z % TSC_MOD \in 0..(TSC_MOD - 1)
    BY <1>2, DivModInt
  <2>3. QED
    BY <1>2, <2>1, <2>2 DEF Timer!Elapsed
<1>4. /\ e > 0 /\ clock[1] + SPIN <= clock[2]
      /\ still => NANOS * e <= TICKS * (clock[2] - clock[1] + 1) + 2 * WINDOW * NANOS
  BY <1>1, <1>2, <1>3 DEF CalibrationInv, NotTooMany
<1>5. PICK a \in Nat : a = clock[2] - clock[1] /\ a >= SPIN
  BY <1>2, <1>4
<1>6. tsc_to_ns'[1] = a /\ tsc_to_ns'[2] = e /\ a >= SPIN
  BY <1>1, <1>3, <1>5
<1>7. still => NANOS * e <= TICKS * (a + 1) + 2 * WINDOW * NANOS
  BY <1>4, <1>5
<1>8. clock' \in [1..2 -> Nat] /\ tsc' \in [1..2 -> Nat]
  BY <1>1
<1>9. CalibrationInv' /\ MeasurementInv'
  BY <1>1, <1>6, <1>7 DEF CalibrationInv, MeasurementInv
<1>10. SamplesInv'
  BY <1>1, <1>2, SamplesKept
<1>11. Timer!TypeOK'
  <2>1. 0 \in 0..(TSC_MOD - 1) /\ e \in Nat \ {0} /\ 0 \in Nat
    BY <1>2, <1>4
  <2>2. still \in BOOLEAN
    BY <1>2 DEF Timer!TypeOK
  <2>3. QED
    BY <1>1, <1>2, <1>6, <2>1, <2>2 DEF Timer!TypeOK
<1>12. QED
  BY <1>8, <1>9, <1>10, <1>11 DEF TimerInv

LEMMA TimerStartInv ==
  ASSUME TimerInv, NEW p \in Phases, Timer!Start(p)
  PROVE  TimerInv'
<1>1. /\ timer_pc = "loop" /\ timer_pc' = "operation"
      /\ iter < (IF use = "benchmark" THEN Iterations[op] ELSE MaxRecords)
      /\ phase' = p /\ now' = 0 /\ still' = TRUE
      /\ start_tsc' = (p + Skew[timer_cpu]) % TSC_MOD
      /\ UNCHANGED <<timer_cpu, use, clock, tsc, tsc_to_ns, exact, end_tsc, op, iter,
                     latencies_ns, origins, analyzed, report>>
  BY DEF Timer!Start, Timer!NewOrigin, Timer!stats
<1>2. /\ timer_cpu \in CPUs /\ TSC_MOD \in Nat \ {0} /\ p \in 0..(TSC_MOD - 1) /\ p \in Nat
      /\ Skew[timer_cpu] \in Nat
      /\ clock \in [1..2 -> Nat] /\ tsc \in [1..2 -> Nat]
      /\ Timer!TypeOK /\ CalibrationInv /\ MeasurementInv /\ SamplesInv
  BY TimerTypes, TimerConstants
<1>3. start_tsc' \in 0..(TSC_MOD - 1)
  <2>1. PICK x \in Nat : x = p + Skew[timer_cpu]
    BY <1>2
  <2>2. x % TSC_MOD \in 0..(TSC_MOD - 1)
    BY <1>2, DivMod
  <2>3. QED
    BY <1>1, <2>1, <2>2
<1>4. Timer!TypeOK'
  <2>1. 0 \in Nat
    OBVIOUS
  <2>2. QED
    BY <1>1, <1>2, <1>3, <2>1 DEF Timer!TypeOK
<1>5. CalibrationInv'
  BY <1>1, <1>2 DEF CalibrationInv
<1>6. MeasurementInv'
  BY <1>1, <1>2 DEF MeasurementInv
<1>7. SamplesInv'
  <2>1. /\ use # "none"
        /\ (use # "benchmark" => op = 1 /\ iter <= MaxRecords)
        /\ (use = "benchmark" => iter <= Iterations[op])
        /\ latencies_ns \in Seq(Nat) /\ Len(latencies_ns) = iter
        /\ origins = IF iter > 0 THEN {op} ELSE {}
    BY <1>1, <1>2 DEF SamplesInv
  <2>2. analyzed =>
          /\ iter > 0 /\ (use = "benchmark" => iter = Iterations[op])
          /\ report = [ops |-> origins,
                       prints |-> Timer!Report(Timer!LatencyStatistics, latencies_ns)]
    BY <1>2 DEF SamplesInv
  <2>3. \/ report = Timer!NoReport
        \/ \E s \in Seq(Nat) :
             /\ s # << >> /\ Timer!Ordered(s)
             /\ report.prints = Timer!Report(Timer!LatencyStatistics, s)
    BY <1>2 DEF SamplesInv
  <2>4. QED
    BY <1>1, <2>1, <2>2, <2>3 DEF SamplesInv, Timer!NoReport
<1>8. QED
  BY <1>1, <1>2, <1>4, <1>5, <1>6, <1>7 DEF TimerInv

LEMMA TimerStopInv ==
  ASSUME TimerInv, NEW d \in Delays, Timer!Stop(d)
  PROVE  TimerInv'
<1>1. /\ timer_pc = "operation" /\ timer_pc' = "record"
      /\ end_tsc' = (phase + d + Skew[timer_cpu]) % TSC_MOD
      /\ now' = d
      /\ UNCHANGED <<phase, timer_cpu, still, use, clock, tsc, tsc_to_ns, exact, start_tsc, op, iter,
                     latencies_ns, origins, analyzed, report>>
  BY DEF Timer!Stop, Timer!Later, Timer!stats, Timer!rdtscp
<1>2. /\ timer_cpu \in CPUs /\ TSC_MOD \in Nat \ {0} /\ phase \in Nat /\ d \in Nat /\ d < TSC_MOD
      /\ Skew[timer_cpu] \in Nat
      /\ clock \in [1..2 -> Nat] /\ tsc \in [1..2 -> Nat]
      /\ Timer!TypeOK /\ CalibrationInv /\ MeasurementInv /\ SamplesInv
  BY TimerTypes, TimerConstants
<1>3. end_tsc' \in 0..(TSC_MOD - 1)
  BY <1>1, <1>2, CounterReads
<1>4. Timer!TypeOK'
  <2>1. timer_cpu \in CPUs /\ still \in BOOLEAN
    BY <1>2 DEF Timer!TypeOK
  <2>2. QED
    BY <1>1, <1>2, <1>3, <2>1, ReadTypes
<1>5. CalibrationInv'
  BY <1>1, <1>2 DEF CalibrationInv
<1>6. MeasurementInv'
  <2>1. ASSUME still PROVE (end_tsc' - start_tsc) % TSC_MOD = d
    <3>1. start_tsc = (phase + Skew[timer_cpu]) % TSC_MOD
      BY <1>1, <1>2, <2>1 DEF MeasurementInv
    <3>2. PICK x \in Nat, y \in Nat : x = phase + Skew[timer_cpu] /\ y = phase + d + Skew[timer_cpu]
      BY <1>2
    <3>3. x \in Int /\ y \in Int /\ x <= y /\ y - x < TSC_MOD /\ y - x = d
      BY <1>2, <3>2
    <3>4. ((y % TSC_MOD) - (x % TSC_MOD)) % TSC_MOD = y - x
      BY <1>2, <3>3, CounterDifference
    <3>5. QED
      BY <1>1, <3>1, <3>2, <3>3, <3>4
  <2>2. still => Timer!latency_cycles' = d
    BY <1>1, <2>1 DEF Timer!latency_cycles, Timer!Elapsed
  <2>3. QED
    BY <1>1, <2>2 DEF MeasurementInv
<1>7. SamplesInv'
  BY <1>1, <1>2, SamplesKept
<1>8. QED
  BY <1>1, <1>2, <1>4, <1>5, <1>6, <1>7 DEF TimerInv

LEMMA TimerMigrateInv ==
  ASSUME TimerInv, Timer!Migrate
  PROVE  TimerInv'
<1>1. /\ timer_pc \in {"spin", "tscEnd", "clockEnd", "operation"}
      /\ timer_cpu' \in CPUs /\ still' = FALSE
      /\ UNCHANGED <<timer_pc, phase, now, use, clock, tsc, tsc_to_ns, exact, start_tsc, end_tsc,
                     op, iter, latencies_ns, origins, analyzed, report>>
  BY DEF Timer!Migrate, Timer!timer, Timer!stats
<1>2. Timer!TypeOK /\ CalibrationInv /\ MeasurementInv /\ SamplesInv
      /\ clock \in [1..2 -> Nat] /\ tsc \in [1..2 -> Nat]
  BY DEF TimerInv
<1>3. Timer!TypeOK'
  BY <1>1, <1>2 DEF Timer!TypeOK
<1>4. CalibrationInv'
  <2>1. timer_pc = "spin" =>
          \E c \in CPUs, d \in Delays, s \in -WINDOW..WINDOW :
            ReadAt(1, now + s, c)' /\ Shown(now, d)'
    BY <1>1, <1>2 DEF CalibrationInv, ReadAt, Shown
  <2>2. timer_pc = "tscEnd" =>
          \E c \in CPUs, t \in 0..now, d, e \in Delays, s \in -WINDOW..WINDOW :
            /\ ReadAt(1, t + s, c)' /\ Shown(t, d)'
            /\ TICKS * (clock[1] + SPIN) + NANOS * e <= NANOS * now
            /\ now <= t + SPIN * TICKS + e
    BY <1>1, <1>2 DEF CalibrationInv, ReadAt, Shown
  <2>3. timer_pc = "clockEnd" =>
          Timer!Elapsed(tsc[1], tsc[2])' > 0 /\ TICKS * (clock[1] + SPIN) <= NANOS * now
    BY <1>1, <1>2 DEF CalibrationInv, Timer!Elapsed
  <2>4. timer_pc = "operation" =>
          /\ tsc_to_ns[1] >= SPIN
          /\ exact => NANOS * tsc_to_ns[2] <= TICKS * (tsc_to_ns[1] + 1) + 2 * WINDOW * NANOS
    BY <1>2 DEF CalibrationInv
  <2>5. QED
    BY <1>1, <2>1, <2>2, <2>3, <2>4 DEF CalibrationInv
<1>5. MeasurementInv'
  BY <1>1, <1>2 DEF MeasurementInv
<1>6. SamplesInv'
  BY <1>1, <1>2, SamplesKept
<1>7. QED
  BY <1>1, <1>2, <1>3, <1>4, <1>5, <1>6 DEF TimerInv

\* A latency is a number, and hardly too small for a thread that was not moved.
LEMMA LatencyFacts ==
  ASSUME TimerInv, timer_pc = "record", NEW ns \in Timer!latency_ns
  PROVE  /\ ns \in Nat
         /\ still /\ exact => (ns + 1) * Timer!MostTicks >= now * NANOS * SPIN
<1>1. /\ now \in Nat /\ start_tsc \in Nat /\ end_tsc \in Nat
      /\ NANOS \in Nat /\ TICKS \in Nat /\ WINDOW \in Nat /\ SPIN \in Nat \ {0}
      /\ TSC_MOD \in Nat \ {0}
      /\ tsc_to_ns[1] \in Nat /\ tsc_to_ns[2] \in Nat \ {0}
      /\ CalibrationInv /\ MeasurementInv
  BY TimerTypes, TimerConstants
<1>2. PICK a \in Nat \ {0}, b \in Nat \ {0} : a = tsc_to_ns[1] /\ b = tsc_to_ns[2] /\ SPIN <= a
  <2>1. tsc_to_ns[1] >= SPIN
    BY <1>1 DEF CalibrationInv
  <2>2. QED
    BY <1>1, <2>1
<1>3. PICK ticks \in Nat : ticks = Timer!latency_cycles
  <2>1. PICK z \in Int : z = end_tsc - start_tsc
    BY <1>1
  <2>2. z % TSC_MOD \in 0..(TSC_MOD - 1)
    BY <1>1, DivModInt
  <2>3. QED
    BY <1>1, <2>1, <2>2 DEF Timer!latency_cycles, Timer!Elapsed
<1>4. ns = (ticks * a) \div b
      \/ ns = (IF ticks = 0 THEN 0 ELSE (ticks * a - 1) \div b)
  BY <1>2, <1>3 DEF Timer!latency_ns
<1>5. PICK x \in Nat : x = ticks * a
  OBVIOUS
<1>6. ticks > 0 => x - 1 \in Nat
  <2>1. ticks > 0 => a * ticks >= a
    BY SmallMultiple
  <2>2. QED
    BY <1>5, <2>1
<1>7. ns \in Nat /\ x <= (ns + 1) * b
  <2>1. x \div b \in Nat /\ x < b * ((x \div b) + 1)
    BY QuotientBelow
  <2>2. ticks > 0 => (x - 1) \div b \in Nat /\ x - 1 < b * (((x - 1) \div b) + 1)
    BY <1>6, QuotientBelow
  <2>3. ticks = 0 => x = 0
    BY <1>5
  <2>4. ns \in Nat
    BY <1>4, <1>5, <2>1, <2>2
  <2>5. (ns + 1) * b = b * (ns + 1) /\ b * (ns + 1) \in Nat
    BY <2>4
  <2>6. CASE ns = x \div b
    BY <2>1, <2>4, <2>5, <2>6
  <2>7. CASE ticks > 0 /\ ns = (x - 1) \div b
    BY <2>2, <2>4, <2>5, <2>7
  <2>8. CASE ticks = 0
    BY <2>3, <2>4, <2>5, <2>8
  <2>9. QED
    BY <1>4, <1>5, <2>4, <2>6, <2>7, <2>8
<1>8. ASSUME still, exact PROVE (ns + 1) * Timer!MostTicks >= now * NANOS * SPIN
  <2>1. ticks = now
    BY <1>1, <1>3, <1>8 DEF MeasurementInv
  <2>2. PICK w \in Nat : w = 2 * WINDOW * NANOS
    BY <1>1
  <2>3. NANOS * b <= TICKS * (a + 1) + w
    BY <1>1, <1>2, <1>8, <2>2 DEF CalibrationInv
  <2>4. PICK most \in Nat : most = Timer!MostTicks /\ most = (SPIN + 1) * TICKS + w
    <3>1. (SPIN + 1) * TICKS + w \in Nat
      BY <1>1
    <3>2. QED
      BY <2>2, <3>1 DEF Timer!MostTicks
  <2>5. now * a <= (ns + 1) * b
    BY <1>5, <1>7, <2>1
  <2>6. now * NANOS * SPIN <= (ns + 1) * most
    BY <1>1, <1>2, <1>7, <2>3, <2>4, <2>5, TicksInTime
  <2>7. now * NANOS * SPIN \in Nat /\ (ns + 1) * most \in Nat
    BY <1>1, <1>7
  <2>8. QED
    BY <2>4, <2>6, <2>7
<1>9. QED
  BY <1>7, <1>8

\* Of a step that only touches the samples and is at the origin again.
LEMMA SamplesTypes ==
  ASSUME TimerInv, timer_pc' = "loop",
         phase' \in 0..(TSC_MOD - 1), now' \in Nat, still' \in BOOLEAN,
         start_tsc' \in 0..(TSC_MOD - 1), end_tsc' \in 0..(TSC_MOD - 1),
         op' \in 1..Len(Iterations), iter' \in 0..(MaxRecords + Iterations[op']),
         latencies_ns' \in Seq(Nat), origins' \subseteq 1..Len(Iterations), analyzed' \in BOOLEAN,
         UNCHANGED <<timer_cpu, use, clock, tsc, tsc_to_ns, exact>>,
         timer_pc # "new", timer_pc \in {"loop", "record"}
  PROVE  Timer!TypeOK' /\ CalibrationInv' /\ MeasurementInv'
<1>1. Timer!TypeOK /\ CalibrationInv
  BY DEF TimerInv
<1>2. Timer!TypeOK'
  BY <1>1 DEF Timer!TypeOK
<1>3. CalibrationInv' /\ MeasurementInv'
  BY <1>1 DEF CalibrationInv, MeasurementInv
<1>4. QED
  BY <1>2, <1>3

LEMMA TimerRecordInv ==
  ASSUME TimerInv, Timer!RecordLatency
  PROVE  TimerInv'
<1>1. PICK ns \in Timer!latency_ns :
        latencies_ns' = Timer!Record(Timer!LatencyStatistics, latencies_ns, ns)
  BY DEF Timer!RecordLatency
<1>2. /\ timer_pc = "record" /\ timer_pc' = "loop"
      /\ origins' = origins \cup {op} /\ analyzed' = FALSE /\ iter' = iter + 1
      /\ start_tsc' = 0 /\ end_tsc' = 0 /\ phase' = 0 /\ now' = 0 /\ still' = TRUE
      /\ UNCHANGED <<timer_cpu, use, clock, tsc, tsc_to_ns, exact, op, report>>
  BY DEF Timer!RecordLatency, Timer!NewOrigin
<1>3. ns \in Nat
  BY <1>2, LatencyFacts
<1>4. /\ TSC_MOD \in Nat \ {0} /\ op \in 1..Len(Iterations)
      /\ Iterations[op] \in Nat /\ iter \in Nat /\ MaxRecords \in Nat
      /\ Iterations[op] <= Timer!LatencyStatistics.max /\ MaxRecords <= Timer!LatencyStatistics.max
      /\ Timer!TypeOK /\ SamplesInv /\ clock \in [1..2 -> Nat] /\ tsc \in [1..2 -> Nat]
  <2>1. Timer!LatencyStatistics.max \in Nat
    BY SMT DEF Timer!LatencyStatistics
  <2>2. PICK m \in Nat : m = Timer!LatencyStatistics.max
    BY <2>1
  <2>3. op \in 1..Len(Iterations) /\ TSC_MOD \in Nat \ {0} /\ iter \in Nat
        /\ Timer!TypeOK /\ SamplesInv /\ clock \in [1..2 -> Nat] /\ tsc \in [1..2 -> Nat]
    BY TimerTypes, TimerConstants
  <2>4. MAX_SAMPLES \in Nat /\ MAX_SAMPLES <= m
    BY <2>2, SamplesFit
  <2>5. Iterations[op] \in 0..MAX_SAMPLES /\ MaxRecords \in 0..MAX_SAMPLES
    BY <2>3, TimerConstants
  <2>6. Iterations[op] \in Nat /\ Iterations[op] <= m /\ MaxRecords \in Nat /\ MaxRecords <= m
    BY <2>4, <2>5
  <2>7. QED
    BY <2>2, <2>3, <2>6
<1>5. /\ use # "none" /\ (use # "benchmark" => op = 1)
      /\ iter < (IF use = "benchmark" THEN Iterations[op] ELSE MaxRecords)
      /\ latencies_ns \in Seq(Nat) /\ Len(latencies_ns) = iter
      /\ origins = IF iter > 0 THEN {op} ELSE {}
      /\ \/ report = Timer!NoReport
         \/ \E s \in Seq(Nat) :
              /\ s # << >> /\ Timer!Ordered(s)
              /\ report.prints = Timer!Report(Timer!LatencyStatistics, s)
  BY <1>2, <1>4 DEF SamplesInv
<1>6. latencies_ns' = Append(latencies_ns, ns)
  <2>1. PICK m : m = Timer!LatencyStatistics.max
    OBVIOUS
  <2>2. Len(latencies_ns) < m
    <3>1. Timer!LatencyStatistics.max \in Nat
      BY SMT DEF Timer!LatencyStatistics
    <3>2. QED
      BY <1>4, <1>5, <2>1, <3>1
  <2>3. QED
    BY <1>1, <2>1, <2>2 DEF Timer!Record
<1>7. latencies_ns' \in Seq(Nat) /\ Len(latencies_ns') = iter'
  BY <1>2, <1>3, <1>5, <1>6
<1>8. origins' = {op'} /\ iter' > 0
  BY <1>2, <1>4, <1>5
<1>9. iter' \in 0..(MaxRecords + Iterations[op'])
      /\ iter' <= (IF use' = "benchmark" THEN Iterations[op'] ELSE MaxRecords)
  BY <1>2, <1>4, <1>5
<1>10. Timer!TypeOK' /\ CalibrationInv' /\ MeasurementInv'
  <2>1. 0 \in 0..(TSC_MOD - 1) /\ 0 \in Nat
    BY <1>4
  <2>2. origins' \subseteq 1..Len(Iterations) /\ op' \in 1..Len(Iterations)
    BY <1>2, <1>4, <1>8
  <2>3. QED
    BY <1>2, <1>7, <1>9, <2>1, <2>2, SamplesTypes
<1>11. SamplesInv'
  <2>1. report' = Timer!NoReport
        \/ \E s \in Seq(Nat) :
             /\ s # << >> /\ Timer!Ordered(s)
             /\ report'.prints = Timer!Report(Timer!LatencyStatistics, s)
    BY <1>2, <1>5
  <2>2. QED
    BY <1>2, <1>5, <1>7, <1>8, <1>9, <2>1 DEF SamplesInv, Timer!NoReport
<1>12. QED
  BY <1>2, <1>4, <1>10, <1>11 DEF TimerInv

LEMMA TimerAnalyzeInv ==
  ASSUME TimerInv, Timer!Analyze
  PROVE  TimerInv'
<1>1. PICK sorted : sorted = Sort(latencies_ns)
  OBVIOUS
<1>2. /\ timer_pc = "loop" /\ timer_pc' = "loop" /\ latencies_ns # << >>
      /\ use = "benchmark" => iter = Iterations[op]
      /\ latencies_ns' = sorted
      /\ report' = [ops |-> origins, prints |-> Timer!Report(Timer!LatencyStatistics, sorted)]
      /\ analyzed' = TRUE
      /\ UNCHANGED <<use, phase, now, timer_cpu, still, clock, tsc, tsc_to_ns, exact,
                     start_tsc, end_tsc, op, iter, origins>>
  BY <1>1 DEF Timer!Analyze, Timer!Analyzed, Timer!Kept, Timer!Sort, Timer!Rearrangements,
     Timer!Ordered, Timer!Bijection, Timer!Injection, Timer!Surjection, Timer!IsInjective,
     Sort, Rearrangements, Ordered, Bijection, Injection, Surjection, IsInjective,
     Timer!machine, Timer!timer
<1>3. /\ op \in 1..Len(Iterations) /\ Iterations[op] \in Nat /\ iter \in Nat
      /\ Timer!TypeOK /\ SamplesInv /\ clock \in [1..2 -> Nat] /\ tsc \in [1..2 -> Nat]
  BY TimerTypes
<1>4. /\ use # "none" /\ (use # "benchmark" => op = 1 /\ iter <= MaxRecords)
      /\ (use = "benchmark" => iter <= Iterations[op])
      /\ latencies_ns \in Seq(Nat) /\ Len(latencies_ns) = iter
      /\ origins = IF iter > 0 THEN {op} ELSE {}
  BY <1>2, <1>3 DEF SamplesInv
<1>5. sorted \in Seq(Nat) /\ Len(sorted) = iter /\ Ordered(sorted)
  BY <1>1, <1>4, SortOrders
<1>6. iter > 0 /\ sorted # << >>
  BY <1>2, <1>4, <1>5
<1>7. Timer!Ordered(sorted)
  BY <1>5 DEF Ordered, Timer!Ordered
<1>8. Timer!TypeOK' /\ CalibrationInv' /\ MeasurementInv'
  <2>1. /\ phase \in 0..(TSC_MOD - 1) /\ now \in Nat /\ still \in BOOLEAN
        /\ start_tsc \in 0..(TSC_MOD - 1) /\ end_tsc \in 0..(TSC_MOD - 1)
        /\ iter \in 0..(MaxRecords + Iterations[op]) /\ origins \subseteq 1..Len(Iterations)
    BY <1>3 DEF Timer!TypeOK
  <2>2. QED
    BY <1>2, <1>3, <1>5, <2>1, SamplesTypes
<1>9. SamplesInv'
  <2>1. report'.prints = Timer!Report(Timer!LatencyStatistics, sorted)
    BY <1>2
  <2>2. \E s \in Seq(Nat) :
          /\ s # << >> /\ Timer!Ordered(s)
          /\ report'.prints = Timer!Report(Timer!LatencyStatistics, s)
    BY <1>5, <1>6, <1>7, <2>1
  <2>3. QED
    BY <1>2, <1>4, <1>5, <1>6, <2>2 DEF SamplesInv
<1>10. QED
  BY <1>2, <1>3, <1>8, <1>9 DEF TimerInv

LEMMA TimerNextOperationInv ==
  ASSUME TimerInv, Timer!NextOperation
  PROVE  TimerInv'
<1>1. /\ timer_pc = "loop" /\ timer_pc' = "loop" /\ use = "benchmark"
      /\ op < Len(Iterations) /\ op' = op + 1 /\ iter' = 0
      /\ latencies_ns' = << >> /\ origins' = {} /\ analyzed' = FALSE
      /\ UNCHANGED <<use, phase, now, timer_cpu, still, clock, tsc, tsc_to_ns, exact,
                     start_tsc, end_tsc, report>>
  BY DEF Timer!NextOperation, Timer!Fresh, Timer!machine, Timer!timer
<1>2. /\ op \in 1..Len(Iterations) /\ Len(Iterations) \in Nat
      /\ Timer!TypeOK /\ SamplesInv /\ clock \in [1..2 -> Nat] /\ tsc \in [1..2 -> Nat]
  BY TimerTypes, TimerConstants
<1>3. op' \in 1..Len(Iterations)
  BY <1>1, <1>2
<1>4. Iterations[op'] \in Nat /\ MaxRecords \in Nat
  BY <1>3, TimerConstants, SamplesFit
<1>5. latencies_ns' \in Seq(Nat) /\ Len(latencies_ns') = 0
  BY <1>1
<1>6. Timer!TypeOK' /\ CalibrationInv' /\ MeasurementInv'
  <2>1. /\ phase \in 0..(TSC_MOD - 1) /\ now \in Nat /\ still \in BOOLEAN
        /\ start_tsc \in 0..(TSC_MOD - 1) /\ end_tsc \in 0..(TSC_MOD - 1)
    BY <1>2 DEF Timer!TypeOK
  <2>2. iter' \in 0..(MaxRecords + Iterations[op'])
    BY <1>1, <1>4
  <2>3. QED
    BY <1>1, <1>3, <1>5, <2>1, <2>2, SamplesTypes
<1>7. SamplesInv'
  <2>1. \/ report = Timer!NoReport
        \/ \E s \in Seq(Nat) :
             /\ s # << >> /\ Timer!Ordered(s)
             /\ report.prints = Timer!Report(Timer!LatencyStatistics, s)
    BY <1>2 DEF SamplesInv
  <2>2. QED
    BY <1>1, <1>4, <1>5, <2>1 DEF SamplesInv, Timer!NoReport
<1>8. QED
  BY <1>1, <1>2, <1>6, <1>7 DEF TimerInv

LEMMA TimerStutterInv ==
  ASSUME TimerInv, UNCHANGED timerVars
  PROVE  TimerInv'
<1>1. UNCHANGED <<use, timer_pc, phase, now, timer_cpu, still, clock, tsc, tsc_to_ns,
                  exact, start_tsc, end_tsc, op, iter, latencies_ns, origins, analyzed, report>>
  BY DEF timerVars
<1>2. Timer!TypeOK /\ CalibrationInv /\ MeasurementInv /\ SamplesInv
      /\ clock \in [1..2 -> Nat] /\ tsc \in [1..2 -> Nat]
  BY DEF TimerInv
<1>3. Timer!TypeOK'
  BY <1>1, <1>2 DEF Timer!TypeOK
<1>4. CalibrationInv'
  BY <1>1, <1>2 DEF CalibrationInv, ReadAt, Shown, NotTooMany, Timer!Elapsed
<1>5. MeasurementInv'
  BY <1>1, <1>2 DEF MeasurementInv, Timer!latency_cycles, Timer!Elapsed
<1>6. SamplesInv'
  BY <1>1, <1>2 DEF SamplesInv, Timer!NoReport
<1>7. QED
  BY <1>1, <1>2, <1>3, <1>4, <1>5, <1>6 DEF TimerInv

LEMMA TimerNextInv ==
  ASSUME TimerInv, Timer!Next \/ UNCHANGED timerVars
  PROVE  TimerInv'
<1>1. CASE \E u \in Uses, p \in Phases : Timer!Construct(u, p)
  BY <1>1, TimerConstructInv
<1>2. CASE \E d \in Delays : Timer!ReadClock(d)
  BY <1>2, TimerReadClockInv
<1>3. CASE \E d \in Delays : Timer!ReadCounter(d)
  BY <1>3, TimerReadCounterInv
<1>4. CASE \E d \in Delays : Timer!Spin(d)
  BY <1>4, TimerSpinInv
<1>5. CASE \E d \in Delays : Timer!Stop(d)
  BY <1>5, TimerStopInv
<1>6. CASE \E p \in Phases : Timer!Start(p)
  BY <1>6, TimerStartInv
<1>7. CASE Timer!Calibrated
  BY <1>7, TimerCalibratedInv
<1>8. CASE Timer!RecordLatency
  BY <1>8, TimerRecordInv
<1>9. CASE Timer!Analyze
  BY <1>9, TimerAnalyzeInv
<1>10. CASE Timer!NextOperation
  BY <1>10, TimerNextOperationInv
<1>11. CASE Timer!Migrate
  BY <1>11, TimerMigrateInv
<1>12. CASE UNCHANGED timerVars
  BY <1>12, TimerStutterInv
<1>13. QED
  BY <1>1, <1>2, <1>3, <1>4, <1>5, <1>6, <1>7, <1>8, <1>9, <1>10, <1>11, <1>12 DEF Timer!Next

LEMMA TimerInvariance == ProgramsSpec => []TimerInv
<1>1. ProgramsInit => TimerInv
  BY TimerInitInv DEF ProgramsInit
<1>2. [ProgramsNext]_ProgramsVars => Timer!Next \/ UNCHANGED timerVars
  BY DEF ProgramsNext, ProgramsVars
<1>3. TimerInv /\ [ProgramsNext]_ProgramsVars => TimerInv'
  BY <1>2, TimerNextInv
<1>4. QED
  BY <1>1, <1>3, PTL DEF ProgramsSpec

(* For any ratio of ticks and ns, window of rdtsc and delays: a thread that *)
(* was not moved between two CPUs, neither in the calibration nor in the    *)
(* measurement, records no latency that is short of the time that passed by *)
(* more than 1 ns and the share by which the calibration can be off, also   *)
(* if the counter wraps around in between.                                  *)
THEOREM LatenciesAreLongEnough == ProgramsSpec => []LatencyNotUnderestimated
<1>1. TimerInv => LatencyNotUnderestimated
  BY LatencyFacts DEF LatencyNotUnderestimated, Timer!LatencyNotUnderestimated
<1>2. QED
  BY <1>1, TimerInvariance, PTL

(* For any number of operations and of measurements of each: a report of    *)
(* the benchmark is about all the samples of one operation.                 *)
THEOREM ReportsAreOfOneOperation == ProgramsSpec => []ReportIsOfOneOperation
<1>1. TimerInv => ReportIsOfOneOperation
  <2> SUFFICES ASSUME TimerInv, use = "benchmark", analyzed
               PROVE  report.ops = {op} /\ report.prints.count = Iterations[op]
    BY DEF ReportIsOfOneOperation, Timer!ReportIsOfOneOperation
  <2>1. /\ iter > 0 /\ iter = Iterations[op] /\ Len(latencies_ns) = iter
        /\ origins = IF iter > 0 THEN {op} ELSE {}
        /\ report = [ops |-> origins,
                     prints |-> Timer!Report(Timer!LatencyStatistics, latencies_ns)]
    BY DEF TimerInv, SamplesInv
  <2>2. report.prints.count = Len(latencies_ns)
    BY <2>1 DEF Timer!Report
  <2>3. QED
    BY <2>1, <2>2
<1>2. QED
  BY <1>1, TimerInvariance, PTL

LEMMA SameReport ==
  ASSUME NEW s
  PROVE  Timer!Report(Timer!LatencyStatistics, s) = Report(LatencyStatistics, s)
  BY DEF Timer!Report, Timer!LatencyStatistics, Timer!At, Timer!Rank, Timer!Product, Timer!Median,
     Timer!Wrapped, Timer!INT_MAX, Timer!P99, Timer!P999,
     Report, LatencyStatistics, At, Rank, Product, Wrapped, INT_MAX, Median, P99, P999

(* What a report prints is ordered, from the minimum over the percentiles   *)
(* to the maximum, of as many samples as analyze() can rank in an int.      *)
THEOREM ReportsAreOrdered == ProgramsSpec => []ReportOrdered
<1>1. TimerInv => ReportOrdered
  <2>1. SUFFICES ASSUME TimerInv, report # Timer!NoReport,
                        report.prints.count <= Timer!RANKED_SAMPLES
                 PROVE  ReportOrdered
    BY DEF ReportOrdered, Timer!ReportOrdered
  <2>2. PICK s \in Seq(Nat) :
          /\ s # << >> /\ Timer!Ordered(s)
          /\ report.prints = Timer!Report(Timer!LatencyStatistics, s)
    BY <2>1 DEF TimerInv, SamplesInv
  <2>3. Ordered(s)
    BY <2>2 DEF Timer!Ordered, Ordered
  <2>4. s \in Seq(Nat) /\ s # << >>
    BY <2>2
  <2>0. Len(s) <= RANKED_SAMPLES
    <3>1. report.prints.count = Len(s)
      BY <2>2 DEF Timer!Report
    <3>2. Timer!RANKED_SAMPLES = RANKED_SAMPLES
      BY DEF Timer!RANKED_SAMPLES, RANKED_SAMPLES
    <3>3. QED
      BY <2>1, <2>2, <3>1, <3>2
  <2>5. InOrder(Report(LatencyStatistics, s))
    BY <2>0, <2>3, <2>4, PercentilesOrdered
  <2>6. report.prints = Report(LatencyStatistics, s)
    BY <2>2, SameReport
  <2>7. Timer!Median = Median /\ Timer!P99 = P99 /\ Timer!P999 = P999
    BY DEF Timer!Median, Timer!P99, Timer!P999, Median, P99, P999
  <2>8. InOrder(report.prints)
    BY <2>5, <2>6
  <2>9. QED
    BY <2>7, <2>8 DEF ReportOrdered, Timer!ReportOrdered, InOrder
<1>2. QED
  BY <1>1, TimerInvariance, PTL

(* For every number of samples: get_p99() is the 99th percentile that was   *)
(* printed last, as long as nothing was recorded since.                     *)
THEOREM P99IsAsPrinted == ProgramsSpec => []P99Agrees
<1>1. TimerInv => P99Agrees
  <2> SUFFICES ASSUME TimerInv, analyzed
               PROVE  Timer!get_p99 = report.prints.at[Timer!P99]
    BY DEF P99Agrees, Timer!P99Agrees
  <2>1. /\ iter > 0 /\ Len(latencies_ns) = iter /\ latencies_ns \in Seq(Nat)
        /\ report = [ops |-> origins,
                     prints |-> Timer!Report(Timer!LatencyStatistics, latencies_ns)]
    BY DEF TimerInv, SamplesInv
  <2>2. Timer!get_p99 = Timer!At(latencies_ns, Timer!P99)
    <3>1. Len(<< >>) = 0
      OBVIOUS
    <3>2. latencies_ns # << >>
      BY <2>1, <3>1
    <3>3. QED
      BY <3>2 DEF Timer!get_p99
  <2>3. PICK fs : fs = Timer!LatencyStatistics.fractions
    OBVIOUS
  <2>4. Timer!P99 \in fs
    BY <2>3 DEF Timer!LatencyStatistics
  <2>5. report.prints.at = [f \in fs |-> Timer!At(latencies_ns, f)]
    BY <2>1, <2>3 DEF Timer!Report
  <2>6. QED
    BY <2>2, <2>4, <2>5
<1>2. QED
  BY <1>1, TimerInvariance, PTL

-----------------------------------------------------------------------------
(* The branch benchmark beside the others.                                  *)

LEMMA BranchInvariance == ProgramsSpec => []BranchInv
<1>1. ProgramsInit => BranchInv
  BY InitBranchInv DEF ProgramsInit
<1>2. [ProgramsNext]_ProgramsVars => [Next]_vars
  BY DEF ProgramsNext, ProgramsVars
<1>3. BranchInv /\ [ProgramsNext]_ProgramsVars => BranchInv'
  BY <1>2, NextInv
<1>4. QED
  BY <1>1, <1>3, PTL DEF ProgramsSpec

(* Of BranchBench among the other programs, too: all variants return the    *)
(* same sum of the same data, for every length and every threshold.         *)
THEOREM BranchVariantsAgree == ProgramsSpec => []ResultsAgree
<1>1. BranchInv => ResultsAgree
  BY DEF BranchInv
<1>2. QED
  BY <1>1, BranchInvariance, PTL

-----------------------------------------------------------------------------
(* All the programs.                                                        *)

(* Whatever the constants, the variables of every program stay in their     *)
(* types.  It follows from the four invariants, each of which needs more    *)
(* than the types: that a thread's next buffer exists, that an int index    *)
(* is below the array's size, that a difference of the counter is a number  *)
(* the division of the calibration is defined for.                          *)
THEOREM ProgramsTypeCorrect == ProgramsSpec => []ProgramsTypeOK
<1>1. NumaInv /\ DriversInv /\ TimerInv /\ CacheInv => ProgramsTypeOK
  <2>1. NumaInv => Numa!TypeOK
    BY DEF NumaInv
  <2>2. TimerInv => Timer!TypeOK
    BY DEF TimerInv
  <2>3. CacheInv => Cache!TypeOK
    BY DEF CacheInv
  <2>4. QED
    BY <2>1, <2>2, <2>3, InvTypes DEF ProgramsTypeOK
<1>2. QED
  BY <1>1, NumaInvariance, DriversInvariance, TimerInvariance, CacheInvariance, PTL
=============================================================================
