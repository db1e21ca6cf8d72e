---------------------------- MODULE MessageQueue ----------------------------
(***************************************************************************)
(* LockFreeMessageQueue: a linked list of messages between head and tail,  *)
(* and a stack of free nodes, both changed by compare-and-swap.            *)
(*                                                                         *)
(* Every access to shared memory is a step of its own, and steps of the    *)
(* threads interleave.  Loads return the newest value (the queue is not    *)
(* modelled under the C++ memory orders).                                  *)
(*                                                                         *)
(* queue.hpp does not compile as it stands: lines 68 and 97 pass nullptr   *)
(* and an atomic as the "expected" argument, which must be a Node*&.  The  *)
(* model takes the evident meaning, a local variable that holds nullptr or *)
(* the value of old_head->next; when the second fails, the value observed  *)
(* becomes the new old_head->next.                                         *)
(*                                                                         *)
(* A value stands for a message and its timestamp.                         *)
(***************************************************************************)
EXTENDS Naturals, Sequences, FiniteSets

CONSTANTS Producers, Consumers,
          POOL_SIZE,    \* nodes in the pool
          Values,       \* messages with their timestamps
          NoValue,      \* what an unused node or local variable holds
          Null,         \* nullptr
          MaxEnqueue,   \* bound: successful enqueues
          Disciplined,  \* do callers follow MayEnqueue and MayDequeue?
          AllowDestroy, \* may the owner destroy the queue when all threads are idle?
          Runners       \* the threads that are sure to keep running

Threads == Producers \cup Consumers

ASSUME ThreadAssumption == Producers \cap Consumers = {}
ASSUME PoolAssumption   == POOL_SIZE \in Nat \ {0}
ASSUME ValueAssumption  == NoValue \notin Values
ASSUME NullAssumption   == Null \notin Nat
ASSUME BoundAssumption  == MaxEnqueue \in Nat
ASSUME SwitchAssumption == {Disciplined, AllowDestroy} \subseteq BOOLEAN
ASSUME RunnerAssumption == Runners \subseteq Threads

\* The nodes of the pool, and the sentinel the constructor allocates apart.
Sentinel == 0
Nodes == 0..POOL_SIZE

VARIABLES
  next, message,              \* the fields of the nodes
  free_list, head, tail,
  pc, val,                    \* control point of each thread; its message
  new_node, next_free, last,  \* local variables of enqueue
  first, succ, top,           \* of dequeue: first, next, free_list value seen
  deleted,                    \* what the destructor passed to delete
  accepted, delivered         \* history: messages linked, messages handed out

lists    == <<free_list, head, tail>>
enqVars  == <<new_node, next_free, last>>
deqVars  == <<first, succ, top>>
history  == <<accepted, delivered>>
vars     == <<next, message, lists, pc, val, enqVars, deqVars, deleted, history>>

-----------------------------------------------------------------------------
(* Slips somebody could make in this code, used only to show that the       *)
(* properties notice them.                                                  *)

\* The message is taken from the node that is unlinked.
Fault_MessageNode(old, n) == old

\* A node is put on the free list without linking it to the rest.
Fault_FreeLink(t) == Null

\* A reused node keeps its link into the free list.
Fault_ClearedNext(n) == next[n]

\* The tail is not advanced.
Fault_NewTail(n) == tail

\* Emptiness is judged by comparing head and tail.
Fault_QueueEmpty(old, n) == n = Null \/ old = tail

-----------------------------------------------------------------------------
MessageNode(old, n) == n

FreeLink(t) == t

ClearedNext(n) == Null

NewTail(n) == n

QueueEmpty(old, n) == n = Null

Goto(t, label) == pc' = [pc EXCEPT ![t] = label]

Idle(ts) == \A t \in ts : pc[t] = "idle"

Alive == deleted = Null

Busy(ts) == Cardinality({t \in ts : pc[t] # "idle"})

\* A calling discipline: enqueues do not overlap each other, and dequeues
\* overlap each other only when the last enqueue has returned.
MayEnqueue == Disciplined => Idle(Producers)

MayDequeue ==
  Disciplined =>
    \/ Idle(Consumers)
    \/ Idle(Producers) /\ Len(accepted) = MaxEnqueue

-----------------------------------------------------------------------------
\* The constructor links the pool into the free list in order of index.
Init ==
  /\ next = [n \in Nodes |-> IF n \in 1..(POOL_SIZE - 1) THEN n + 1 ELSE Null]
  /\ message = [n \in Nodes |-> NoValue]
  /\ free_list = 1
  /\ head = Sentinel /\ tail = Sentinel
  /\ pc = [t \in Threads |-> "idle"]
  /\ val = [t \in Threads |-> NoValue]
  /\ new_node = [p \in Producers |-> Null]
  /\ next_free = [p \in Producers |-> Null]
  /\ last = [p \in Producers |-> Null]
  /\ first = [c \in Consumers |-> Null]
  /\ succ = [c \in Consumers |-> Null]
  /\ top = [c \in Consumers |-> Null]
  /\ deleted = Null
  /\ accepted = << >> /\ delivered = << >>

(* enqueue *)

EnqueueReturn(p) ==
  /\ Goto(p, "idle")
  /\ val' = [val EXCEPT ![p] = NoValue]
  /\ new_node' = [new_node EXCEPT ![p] = Null]
  /\ next_free' = [next_free EXCEPT ![p] = Null]
  /\ last' = [last EXCEPT ![p] = Null]

\* len > MESSAGE_SIZE
EnqueueTooLong(p) ==
  /\ pc[p] = "idle" /\ Alive
  /\ UNCHANGED vars

\* The bound counts the calls in progress as well, so that it never stops a
\* call half-way.
EnqueueCall(p, v) ==
  /\ pc[p] = "idle" /\ Alive
  /\ MayEnqueue
  /\ Len(accepted) + Busy(Producers) < MaxEnqueue
  /\ Goto(p, "loadFree")
  /\ val' = [val EXCEPT ![p] = v]
  /\ UNCHANGED <<next, message, lists, enqVars, deqVars, deleted, history>>

EnqueueNoNode(p) ==
  /\ pc[p] = "loadFree"
  /\ free_list = Null
  /\ EnqueueReturn(p)
  /\ UNCHANGED <<next, message, lists, deqVars, deleted, history>>

EnqueueLoadFree(p) ==
  /\ pc[p] = "loadFree"
  /\ free_list # Null
  /\ new_node' = [new_node EXCEPT ![p] = free_list]
  /\ Goto(p, "loadNextFree")
  /\ UNCHANGED <<next, message, lists, val, next_free, last, deqVars, deleted, history>>

EnqueueLoadNextFree(p) ==
  /\ pc[p] = "loadNextFree"
  /\ next_free' = [next_free EXCEPT ![p] = next[new_node[p]]]
  /\ Goto(p, "popFree")
  /\ UNCHANGED <<next, message, lists, val, new_node, last, deqVars, deleted, history>>

EnqueuePopFree(p) ==
  /\ pc[p] = "popFree"
  /\ free_list = new_node[p]
  /\ free_list' = next_free[p]
  /\ next_free' = [next_free EXCEPT ![p] = Null]
  /\ Goto(p, "fill")
  /\ UNCHANGED <<next, message, head, tail, val, new_node, last, deqVars, deleted, history>>

EnqueuePopFreeFails(p) ==
  /\ pc[p] = "popFree"
  /\ free_list # new_node[p]
  /\ EnqueueReturn(p)
  /\ UNCHANGED <<next, message, lists, deqVars, deleted, history>>

EnqueueFill(p) ==
  /\ pc[p] = "fill"
  /\ message' = [message EXCEPT ![new_node[p]] = val[p]]
  /\ Goto(p, "clearNext")
  /\ UNCHANGED <<next, lists, val, enqVars, deqVars, deleted, history>>

EnqueueClearNext(p) ==
  /\ pc[p] = "clearNext"
  /\ next' = [next EXCEPT ![new_node[p]] = ClearedNext(new_node[p])]
  /\ Goto(p, "loadTail")
  /\ UNCHANGED <<message, lists, val, enqVars, deqVars, deleted, history>>

EnqueueLoadTail(p) ==
  /\ pc[p] = "loadTail"
  /\ last' = [last EXCEPT ![p] = tail]
  /\ Goto(p, "link")
  /\ UNCHANGED <<next, message, lists, val, new_node, next_free, deqVars, deleted, history>>

EnqueueLink(p) ==
  /\ pc[p] = "link"
  /\ next[last[p]] = Null
  /\ next' = [next EXCEPT ![last[p]] = new_node[p]]
  /\ accepted' = Append(accepted, val[p])
  /\ Goto(p, "storeTail")
  /\ UNCHANGED <<message, lists, val, enqVars, deqVars, deleted, delivered>>

\* compare_exchange_weak may fail for no reason, too.
EnqueueLinkFails(p) ==
  /\ pc[p] = "link"
  /\ Goto(p, "loadTail")
  /\ UNCHANGED <<next, message, lists, val, enqVars, deqVars, deleted, history>>

EnqueueStoreTail(p) ==
  /\ pc[p] = "storeTail"
  /\ tail' = NewTail(new_node[p])
  /\ EnqueueReturn(p)
  /\ UNCHANGED <<next, message, free_list, head, deqVars, deleted, history>>

(* dequeue *)

DequeueReturn(c) ==
  /\ Goto(c, "idle")
  /\ val' = [val EXCEPT ![c] = NoValue]
  /\ first' = [first EXCEPT ![c] = Null]
  /\ succ' = [succ EXCEPT ![c] = Null]
  /\ top' = [top EXCEPT ![c] = Null]

DequeueLoadHead(c) ==
  /\ pc[c] = "idle" /\ Alive
  /\ MayDequeue
  /\ first' = [first EXCEPT ![c] = head]
  /\ Goto(c, "loadNext")
  /\ UNCHANGED <<next, message, lists, val, succ, top, enqVars, deleted, history>>

DequeueEmpty(c) ==
  /\ pc[c] = "loadNext"
  /\ QueueEmpty(first[c], next[first[c]])
  /\ DequeueReturn(c)
  /\ UNCHANGED <<next, message, lists, enqVars, deleted, history>>

DequeueLoadNext(c) ==
  /\ pc[c] = "loadNext"
  /\ ~QueueEmpty(first[c], next[first[c]])
  /\ succ' = [succ EXCEPT ![c] = next[first[c]]]
  /\ Goto(c, "copy")
  /\ UNCHANGED <<next, message, lists, val, first, top, enqVars, deleted, history>>

DequeueCopy(c) ==
  /\ pc[c] = "copy"
  /\ val' = [val EXCEPT ![c] = message[MessageNode(first[c], succ[c])]]
  /\ Goto(c, "advanceHead")
  /\ UNCHANGED <<next, message, lists, deqVars, enqVars, deleted, history>>

DequeueAdvanceHead(c) ==
  /\ pc[c] = "advanceHead"
  /\ head = first[c]
  /\ head' = succ[c]
  /\ delivered' = Append(delivered, val[c])
  /\ val' = [val EXCEPT ![c] = NoValue]
  /\ succ' = [succ EXCEPT ![c] = Null]
  /\ Goto(c, "loadTop")
  /\ UNCHANGED <<next, message, free_list, tail, first, top, enqVars, deleted, accepted>>

DequeueAdvanceHeadFails(c) ==
  /\ pc[c] = "advanceHead"
  /\ head # first[c]
  /\ DequeueReturn(c)
  /\ UNCHANGED <<next, message, lists, enqVars, deleted, history>>

DequeueLoadTop(c) ==
  /\ pc[c] = "loadTop"
  /\ top' = [top EXCEPT ![c] = free_list]
  /\ Goto(c, "linkFree")
  /\ UNCHANGED <<next, message, lists, val, first, succ, enqVars, deleted, history>>

DequeueLinkFree(c) ==
  /\ pc[c] = "linkFree"
  /\ next' = [next EXCEPT ![first[c]] = FreeLink(top[c])]
  /\ Goto(c, "pushFree")
  /\ UNCHANGED <<message, lists, val, deqVars, enqVars, deleted, history>>

DequeuePushFree(c) ==
  /\ pc[c] = "pushFree"
  /\ free_list = top[c]
  /\ free_list' = first[c]
  /\ DequeueReturn(c)
  /\ UNCHANGED <<next, message, head, tail, enqVars, deleted, history>>

\* A failed compare_exchange_weak, for a reason or not, loads free_list.
DequeuePushFreeFails(c) ==
  /\ pc[c] = "pushFree"
  /\ top' = [top EXCEPT ![c] = free_list]
  /\ Goto(c, "linkFree")
  /\ UNCHANGED <<next, message, lists, val, first, succ, enqVars, deleted, history>>

(* ~LockFreeMessageQueue, by an owner that has joined the threads.          *)
Destroy ==
  /\ AllowDestroy
  /\ Alive
  /\ Idle(Threads)
  /\ deleted' = head
  /\ UNCHANGED <<next, message, lists, pc, val, enqVars, deqVars, history>>

EnqueueTry(p) ==
  \/ EnqueueNoNode(p) \/ EnqueueLoadFree(p)
  \/ EnqueueLoadNextFree(p)
  \/ EnqueuePopFree(p) \/ EnqueuePopFreeFails(p)
  \/ EnqueueFill(p)
  \/ EnqueueClearNext(p)
  \/ EnqueueLoadTail(p)
  \/ EnqueueLink(p) \/ EnqueueLinkFails(p)
  \/ EnqueueStoreTail(p)

Enqueue(p) ==
  \/ EnqueueTooLong(p)
  \/ \E v \in Values : EnqueueCall(p, v)
  \/ EnqueueTry(p)

Dequeue(c) ==
  \/ DequeueLoadHead(c)
  \/ DequeueEmpty(c) \/ DequeueLoadNext(c)
  \/ DequeueCopy(c)
  \/ DequeueAdvanceHead(c) \/ DequeueAdvanceHeadFails(c)
  \/ DequeueLoadTop(c)
  \/ DequeueLinkFree(c)
  \/ DequeuePushFree(c) \/ DequeuePushFreeFails(c)

Next ==
  \/ \E p \in Producers : Enqueue(p)
  \/ \E c \in Consumers : Dequeue(c)
  \/ Destroy

Spec == Init /\ [][Next]_vars

-----------------------------------------------------------------------------
(* Scheduling.  A thread of Runners keeps running and keeps calling, and    *)
(* its compare_exchange_weak fails for no reason only finitely often in a   *)
(* row.  The other threads may stop anywhere.                               *)

EnqueueFairness(p) ==
  /\ WF_vars(\E v \in Values : EnqueueCall(p, v))
  /\ WF_vars(EnqueueTry(p))
  /\ SF_vars(EnqueueLink(p))

DequeueFairness(c) ==
  /\ WF_vars(Dequeue(c))
  /\ SF_vars(DequeuePushFree(c))

RunnersSpec ==
  /\ Spec
  /\ \A p \in Producers \cap Runners : EnqueueFairness(p)
  /\ \A c \in Consumers \cap Runners : DequeueFairness(c)

-----------------------------------------------------------------------------
(* The types of the variables; a dequeue never hands out the content of a   *)
(* node that was not filled.                                                *)
NodeOrNull == Nodes \cup {Null}

TypeOK ==
  /\ next \in [Nodes -> NodeOrNull]
  /\ message \in [Nodes -> Values \cup {NoValue}]
  /\ free_list \in NodeOrNull /\ head \in Nodes /\ tail \in Nodes
  /\ pc \in [Threads -> {"idle", "loadFree", "loadNextFree", "popFree", "fill", "clearNext",
                         "loadTail", "link", "storeTail", "loadNext", "copy", "advanceHead",
                         "loadTop", "linkFree", "pushFree"}]
  /\ val \in [Threads -> Values \cup {NoValue}]
  /\ {new_node, next_free, last} \subseteq [Producers -> NodeOrNull]
  /\ {first, succ, top} \subseteq [Consumers -> NodeOrNull]
  /\ deleted \in NodeOrNull
  /\ accepted \in Seq(Values) /\ delivered \in Seq(Values)

(* No node is lost, shared or linked twice: the nodes reached from head,    *)
(* those reached from free_list, and those a thread has taken off one list  *)
(* and not yet put on the other are all the nodes there are, each once, and *)
(* neither list has a cycle.                                                *)
Walk(start) ==
  LET walk[k \in 0..(POOL_SIZE + 1)] ==
        IF k = 0 THEN start
        ELSE IF walk[k - 1] = Null THEN Null ELSE next[walk[k - 1]]
  IN walk

Reached(start) == {Walk(start)[k] : k \in 0..POOL_SIZE} \ {Null}

Acyclic(start) == Walk(start)[POOL_SIZE + 1] = Null

Filling == {p \in Producers : pc[p] \in {"fill", "clearNext", "loadTail", "link"}}
Freeing == {c \in Consumers : pc[c] \in {"loadTop", "linkFree", "pushFree"}}

Held == {new_node[p] : p \in Filling} \cup {first[c] : c \in Freeing}

NodesPartitioned ==
  /\ Acyclic(head) /\ Acyclic(free_list)
  /\ Reached(head) \cup Reached(free_list) \cup Held = Nodes
  /\ Cardinality(Reached(head)) + Cardinality(Reached(free_list))
       + Cardinality(Filling) + Cardinality(Freeing) = Cardinality(Nodes)

(* Under the calling discipline, so in particular for one producer and one  *)
(* consumer thread, the queue is a FIFO of POOL_SIZE messages.              *)
Fifo == INSTANCE BoundedFifo WITH Capacity <- POOL_SIZE
FifoSpec == Fifo!Spec

(* If the producers keep running and retrying as well, everything is        *)
(* transferred, although enqueue also fails when a dequeue returns a node   *)
(* at the wrong moment: no message and no node gets stuck.                  *)
AllDelivered ==
  (\A p \in Producers : EnqueueFairness(p))
    => <>(Len(delivered) = MaxEnqueue \/ ~Alive)

(* A message whose link is in place is delivered even if its producer stops *)
(* before it advances the tail.                                             *)
LinkedIsDelivered ==
  \A n \in 1..MaxEnqueue : Len(accepted) >= n ~> (Len(delivered) >= n \/ ~Alive)

(* "FIFO ordering: Strict ordering guarantees.  Messages processed in       *)
(* ingestion order" (README.md of the queue).  It is violated with two      *)
(* producers, and with two consumers: a compare-and-swap succeeds on a node *)
(* that was recycled since it was read.                                     *)
DeliveredInOrder ==
  /\ Len(delivered) <= Len(accepted)
  /\ \A n \in 1..Len(delivered) : delivered[n] = accepted[n]

(* "Lock-free CAS: no mutexes, no blocking" (README.md of the queue).  It   *)
(* is violated: a producer that stops between linking its node and storing  *)
(* the tail makes all others spin.                                          *)
EnqueueReturns ==
  \A p \in Producers \cap Runners : pc[p] # "idle" ~> pc[p] = "idle"

(* The destructor deletes what the constructor allocated, "Clean up         *)
(* sentinel".  It is violated: after a dequeue, head is a node of the pool. *)
DeletedIsSentinel == deleted \in {Null, Sentinel}
=============================================================================
