------------------------- MODULE MessageQueueProofs -------------------------
(***************************************************************************)
(* Proofs about the message queue under the calling discipline: enqueues   *)
(* one at a time, dequeues one at a time until the last enqueue has        *)
(* returned and all at once from then on; for every pool, every set of     *)
(* threads and messages, and every number of enqueues.                     *)
(*                                                                         *)
(* The two lists are described by two sequences of nodes that exist in     *)
(* every state: live, the nodes from head on, and free, those from         *)
(* free_list on.  Each step says what it does to these two.                *)
(***************************************************************************)
EXTENDS MessageQueue, SumTheorems

\* The nodes reached from start are those of s, in this order.
Chain(s, start) ==
  /\ s \in Seq(Nodes)
  /\ \A j, k \in 1..Len(s) : s[j] = s[k] => j = k
  /\ IF Len(s) = 0 THEN start = Null ELSE start = s[1] /\ next[s[Len(s)]] = Null
  /\ \A k \in 1..(Len(s) - 1) : next[s[k]] = s[k + 1]

On(n, s) == \E k \in 1..Len(s) : s[k] = n

Lists(live, free) ==
  /\ Chain(live, head) /\ Len(live) > 0
  /\ Chain(free, free_list)
  /\ \A n \in Nodes : ~(On(n, live) /\ On(n, free))

\* The messages from the second live node on are the ones not yet delivered.
Contents(live) ==
  /\ Len(accepted) = Len(delivered) + Len(live) - 1
  /\ \A k \in 2..Len(live) : message[live[k]] = accepted[Len(delivered) + k - 1]

\* Every node is on a list or held by a thread.
Complete(live, free) ==
  \A n \in Nodes : \/ On(n, live) \/ On(n, free)
                   \/ \E p \in Filling : n = new_node[p]
                   \/ \E c \in Freeing : n = first[c]

ProducerInv(p, live, free) ==
  /\ pc[p] \in {"idle", "loadFree", "loadNextFree", "popFree", "fill", "clearNext",
                "loadTail", "link", "storeTail"}
  /\ pc[p] # "idle" => val[p] \in Values
  /\ pc[p] \in {"loadNextFree", "popFree"} => new_node[p] \in Nodes /\ On(new_node[p], free)
  /\ pc[p] = "popFree" => next_free[p] = next[new_node[p]]
  /\ p \in Filling => /\ new_node[p] \in Nodes
                      /\ ~On(new_node[p], live) /\ ~On(new_node[p], free)
                      /\ \A c \in Freeing : first[c] # new_node[p]
  /\ pc[p] \in {"clearNext", "loadTail", "link"} => message[new_node[p]] = val[p]
  /\ pc[p] \in {"loadTail", "link"} => next[new_node[p]] = Null
  /\ pc[p] = "link" => last[p] = tail
  /\ pc[p] = "storeTail" => new_node[p] = live[Len(live)]

TailInv(live) == (\A p \in Producers : pc[p] # "storeTail") => tail = live[Len(live)]

\* All messages are in the queue or delivered.
Final == Idle(Producers) /\ Len(accepted) = MaxEnqueue

\* A consumer that holds on to an old head cannot mistake it for the new one.
ConsumerInv(c, live, free) ==
  /\ pc[c] \in {"idle", "loadNext", "copy", "advanceHead", "loadTop", "linkFree", "pushFree"}
  /\ pc[c] \in {"loadNext", "copy", "advanceHead"} =>
       first[c] \in Nodes /\ (first[c] = head \/ (~On(first[c], live) /\ Final))
  /\ pc[c] \in {"copy", "advanceHead"} =>
       succ[c] \in Nodes /\ (first[c] = head => succ[c] = next[head])
  /\ pc[c] = "advanceHead" /\ first[c] = head => val[c] = message[succ[c]]
  /\ c \in Freeing => /\ first[c] \in Nodes
                      /\ ~On(first[c], live) /\ ~On(first[c], free)
                      /\ \A d \in Freeing : first[d] = first[c] => d = c
  /\ pc[c] = "pushFree" => next[first[c]] = top[c]

Discipline ==
  /\ \A p, q \in Producers : pc[p] # "idle" /\ pc[q] # "idle" => p = q
  /\ \A c, d \in Consumers : pc[c] # "idle" /\ pc[d] # "idle" => c = d \/ Final

QInv(live, free) ==
  /\ Lists(live, free)
  /\ Contents(live)
  /\ Complete(live, free)
  /\ \A p \in Producers : ProducerInv(p, live, free)
  /\ TailInv(live)
  /\ \A c \in Consumers : ConsumerInv(c, live, free)

IInv == TypeOK /\ Discipline /\ \E live, free : QInv(live, free)

-----------------------------------------------------------------------------
(* What the invariant says of the two lists.                                *)

LEMMA ChainNodes ==
  ASSUME NEW s, NEW start, Chain(s, start)
  PROVE  /\ s \in Seq(Nodes) /\ Len(s) \in Nat
         /\ \A k \in 1..Len(s) : s[k] \in Nodes /\ On(s[k], s)
         /\ \A n : On(n, s) => n \in Nodes
<1>1. s \in Seq(Nodes) /\ Len(s) \in Nat
  BY DEF Chain
<1>2. \A k \in 1..Len(s) : s[k] \in Nodes /\ On(s[k], s)
  BY <1>1 DEF On
<1>3. QED
  BY <1>1, <1>2 DEF On

LEMMA HeadAndTail ==
  ASSUME NEW live, NEW free, QInv(live, free)
  PROVE  /\ head \in Nodes /\ head = live[1] /\ On(head, live) /\ Len(live) \in Nat
         /\ Len(live) > 0
         /\ live[Len(live)] \in Nodes /\ On(live[Len(live)], live)
         /\ next[live[Len(live)]] = Null
         /\ next[head] # Null => Len(live) > 1 /\ next[head] = live[2] /\ On(next[head], live)
<1>1. Chain(live, head) /\ Len(live) > 0
  BY DEF QInv, Lists
<1>2. live \in Seq(Nodes) /\ Len(live) \in Nat /\ 1 \in 1..Len(live) /\ Len(live) \in 1..Len(live)
  BY <1>1, ChainNodes
<1>3. head = live[1] /\ next[live[Len(live)]] = Null
  BY <1>1, <1>2 DEF Chain
<1>4. ASSUME next[head] # Null
      PROVE  Len(live) > 1 /\ next[head] = live[2] /\ On(next[head], live)
  <2>1. Len(live) > 1
    BY <1>2, <1>3, <1>4
  <2>2. next[live[1]] = live[2]
    BY <1>1, <1>2, <2>1 DEF Chain
  <2>3. QED
    BY <1>1, <1>3, <2>1, <2>2, <1>2, ChainNodes
<1>5. QED
  BY <1>1, <1>2, <1>3, <1>4, ChainNodes

LEMMA FreeTop ==
  ASSUME NEW live, NEW free, QInv(live, free)
  PROVE  /\ Len(free) \in Nat
         /\ free_list # Null => /\ Len(free) > 0 /\ free_list = free[1] /\ free_list \in Nodes
                                /\ On(free_list, free)
         /\ free_list = Null => Len(free) = 0
<1>1. Chain(free, free_list)
  BY DEF QInv, Lists
<1>2. free \in Seq(Nodes) /\ Len(free) \in Nat
  BY <1>1, ChainNodes
<1>3. Null \notin Nodes
  BY NullAssumption DEF Nodes
<1>4. \A k \in 1..Len(free) : free[k] \in Nodes /\ On(free[k], free)
  BY <1>1, ChainNodes
<1>5. IF Len(free) = 0 THEN free_list = Null ELSE free_list = free[1]
  BY <1>1 DEF Chain
<1>6. QED
  BY <1>2, <1>3, <1>4, <1>5

\* A thread is either idle or in a call; producers and consumers are apart.
LEMMA PoolNodes == POOL_SIZE \in Nat /\ POOL_SIZE > 0 /\ Nodes = 0..POOL_SIZE /\ Null \notin Nodes
  BY PoolAssumption, NullAssumption DEF Nodes

-----------------------------------------------------------------------------
(* Types.                                                                   *)

LEMMA TypeOKNext ==
  ASSUME TypeOK, NEW live, NEW free, QInv(live, free), Next
  PROVE  TypeOK'
<1>1. ASSUME NEW p \in Producers, Enqueue(p) PROVE TypeOK'
  <2>0. p \in Threads /\ ProducerInv(p, live, free)
    BY DEF Threads, QInv
  <2>1. CASE EnqueueTooLong(p)
    BY <2>1 DEF EnqueueTooLong, vars, TypeOK, lists, enqVars, deqVars, history
  <2>2. CASE \E v \in Values : EnqueueCall(p, v)
    BY <2>0, <2>2 DEF EnqueueCall, TypeOK, Goto, lists, enqVars, deqVars, history
  <2>3. CASE EnqueueNoNode(p)
    BY <2>0, <2>3 DEF EnqueueNoNode, EnqueueReturn, TypeOK, Goto, lists, enqVars, deqVars, history, NodeOrNull
  <2>4. CASE EnqueueLoadFree(p)
    BY <2>0, <2>4 DEF EnqueueLoadFree, TypeOK, Goto, lists, enqVars, deqVars, history
  <2>5. CASE EnqueueLoadNextFree(p)
    BY <2>0, <2>5 DEF EnqueueLoadNextFree, TypeOK, Goto, lists, enqVars, deqVars, history, ProducerInv
  <2>6. CASE EnqueuePopFree(p)
    BY <2>0, <2>6 DEF EnqueuePopFree, TypeOK, Goto, lists, enqVars, deqVars, history, NodeOrNull
  <2>7. CASE EnqueuePopFreeFails(p)
    BY <2>0, <2>7 DEF EnqueuePopFreeFails, EnqueueReturn, TypeOK, Goto, lists, enqVars, deqVars, history, NodeOrNull
  <2>8. CASE EnqueueFill(p)
    BY <2>0, <2>8 DEF EnqueueFill, TypeOK, Goto, lists, enqVars, deqVars, history
  <2>9. CASE EnqueueClearNext(p)
    BY <2>0, <2>9 DEF EnqueueClearNext, ClearedNext, TypeOK, Goto, lists, enqVars, deqVars, history, NodeOrNull
  <2>10. CASE EnqueueLoadTail(p)
    BY <2>0, <2>10 DEF EnqueueLoadTail, TypeOK, Goto, lists, enqVars, deqVars, history, NodeOrNull
  <2>11. CASE EnqueueLink(p)
    BY <2>0, <2>11 DEF EnqueueLink, TypeOK, Goto, lists, enqVars, deqVars, history, NodeOrNull, ProducerInv, Filling
  <2>12. CASE EnqueueLinkFails(p)
    BY <2>0, <2>12 DEF EnqueueLinkFails, TypeOK, Goto, lists, enqVars, deqVars, history
  <2>13. CASE EnqueueStoreTail(p)
    BY <2>0, <2>13, HeadAndTail DEF EnqueueStoreTail, NewTail, EnqueueReturn, TypeOK, Goto, lists, enqVars, deqVars, history, NodeOrNull, ProducerInv
  <2>14. QED
    BY <1>1, <2>1, <2>2, <2>3, <2>4, <2>5, <2>6, <2>7, <2>8, <2>9, <2>10, <2>11, <2>12, <2>13
       DEF Enqueue, EnqueueTry
<1>2. ASSUME NEW c \in Consumers, Dequeue(c) PROVE TypeOK'
  <2>0. c \in Threads /\ ConsumerInv(c, live, free)
    BY DEF Threads, QInv
  <2>1. CASE DequeueLoadHead(c)
    BY <2>0, <2>1 DEF DequeueLoadHead, TypeOK, Goto, lists, enqVars, deqVars, history, NodeOrNull
  <2>2. CASE DequeueEmpty(c)
    BY <2>0, <2>2 DEF DequeueEmpty, DequeueReturn, TypeOK, Goto, lists, enqVars, deqVars, history, NodeOrNull
  <2>3. CASE DequeueLoadNext(c)
    BY <2>0, <2>3 DEF DequeueLoadNext, TypeOK, Goto, lists, enqVars, deqVars, history, ConsumerInv
  <2>4. CASE DequeueCopy(c)
    BY <2>0, <2>4 DEF DequeueCopy, MessageNode, TypeOK, Goto, lists, enqVars, deqVars, history, ConsumerInv
  <2>5. CASE DequeueAdvanceHead(c)
    <3>1. succ[c] \in Nodes /\ first[c] = head /\ succ[c] = next[head] /\ val[c] = message[succ[c]]
      BY <2>0, <2>5 DEF DequeueAdvanceHead, ConsumerInv
    <3>2. succ[c] = live[2] /\ Len(live) > 1 /\ Len(live) \in Nat
      BY <3>1, HeadAndTail, PoolNodes
    <3>3. val[c] = accepted[Len(delivered) + 1] /\ Len(delivered) + 1 \in 1..Len(accepted)
      BY <3>1, <3>2 DEF QInv, Contents, TypeOK
    <3>4. val[c] \in Values
      BY <3>3 DEF TypeOK
    <3>5. QED
      BY <2>0, <2>5, <3>1, <3>4 DEF DequeueAdvanceHead, TypeOK, Goto, lists, enqVars, deqVars, history, NodeOrNull
  <2>6. CASE DequeueAdvanceHeadFails(c)
    BY <2>0, <2>6 DEF DequeueAdvanceHeadFails, DequeueReturn, TypeOK, Goto, lists, enqVars, deqVars, history, NodeOrNull
  <2>7. CASE DequeueLoadTop(c)
    BY <2>0, <2>7 DEF DequeueLoadTop, TypeOK, Goto, lists, enqVars, deqVars, history
  <2>8. CASE DequeueLinkFree(c)
    BY <2>0, <2>8 DEF DequeueLinkFree, FreeLink, TypeOK, Goto, lists, enqVars, deqVars, history
  <2>9. CASE DequeuePushFree(c)
    BY <2>0, <2>9 DEF DequeuePushFree, DequeueReturn, TypeOK, Goto, lists, enqVars, deqVars, history, NodeOrNull
  <2>10. CASE DequeuePushFreeFails(c)
    BY <2>0, <2>10 DEF DequeuePushFreeFails, TypeOK, Goto, lists, enqVars, deqVars, history
  <2>11. QED
    BY <1>2, <2>1, <2>2, <2>3, <2>4, <2>5, <2>6, <2>7, <2>8, <2>9, <2>10 DEF Dequeue
<1>3. CASE Destroy
  BY <1>3 DEF Destroy, TypeOK, lists, enqVars, deqVars, history, NodeOrNull
<1>4. QED
  BY <1>1, <1>2, <1>3 DEF Next

-----------------------------------------------------------------------------
(* Parts of the invariant that a step does not touch.                       *)

LEMMA ChainKept ==
  ASSUME NEW s, NEW start, Chain(s, start), \A n \in Nodes : On(n, s) => next'[n] = next[n]
  PROVE  Chain(s, start)'
<1>1. s \in Seq(Nodes) /\ Len(s) \in Nat /\ \A k \in 1..Len(s) : next'[s[k]] = next[s[k]]
  BY ChainNodes
<1>2. QED
  BY <1>1 DEF Chain

LEMMA ListsKept ==
  ASSUME NEW live, NEW free, Lists(live, free), UNCHANGED <<head, free_list>>,
         \A n \in Nodes : On(n, live) \/ On(n, free) => next'[n] = next[n]
  PROVE  Lists(live, free)'
<1>1. PICK h, f : h = head /\ f = free_list
  OBVIOUS
<1>2. Chain(live, h)' /\ Chain(free, f)'
  BY <1>1, ChainKept DEF Lists
<1>3. Chain(live, head)' /\ Chain(free, free_list)'
  BY <1>1, <1>2
<1>4. QED
  BY <1>3 DEF Lists, On

LEMMA ContentsKept ==
  ASSUME NEW live, Contents(live), UNCHANGED <<message, accepted, delivered>>
  PROVE  Contents(live)'
  BY DEF Contents

\* What the invariant says while a call of the producer p is in progress.
LEMMA OneProducer ==
  ASSUME Discipline, NEW p \in Producers, pc[p] # "idle"
  PROVE  /\ ~Final
         /\ \A q \in Producers : q # p => pc[q] = "idle"
         /\ \A q \in Producers : q \in Filling => q = p
  BY DEF Discipline, Final, Idle, Filling

\* A step in a call of p that writes to no node on a list or being freed.
LEMMA ConsumersKept ==
  ASSUME NEW live, NEW free, NEW live2, NEW free2, QInv(live, free), ~Final,
         UNCHANGED <<head, first, succ, top>>,
         \A c \in Consumers : pc'[c] = pc[c] /\ val'[c] = val[c],
         \A n \in Nodes : On(n, free2) => On(n, free),
         \A n \in Nodes : On(n, live) \/ (\E c \in Freeing : n = first[c]) =>
           message'[n] = message[n],
         \A c \in Freeing : next'[first[c]] = next[first[c]] /\ (On(first[c], live2) => On(first[c], live)),
         next[head] # Null => next'[head] = next[head]
  PROVE  /\ \A c \in Consumers : ConsumerInv(c, live2, free2)'
         /\ Freeing' = Freeing
<1>1. Freeing' = Freeing
  BY DEF Freeing
<1>2. head \in Nodes /\ (next[head] # Null => On(next[head], live) /\ next[head] \in Nodes)
  <2>1. Chain(live, head)
    BY DEF QInv, Lists
  <2>2. QED
    BY <2>1, HeadAndTail, ChainNodes
<1>3. ASSUME NEW c \in Consumers PROVE ConsumerInv(c, live2, free2)'
  <2>1. ConsumerInv(c, live, free) /\ (c \in Freeing <=> c \in Freeing')
    BY <1>1 DEF QInv
  <2>2. pc'[c] \in {"idle", "loadNext", "copy", "advanceHead", "loadTop", "linkFree", "pushFree"}
    BY <2>1 DEF ConsumerInv
  <2>3. pc'[c] \in {"loadNext", "copy", "advanceHead"} => first'[c] \in Nodes /\ first'[c] = head'
    BY <2>1 DEF ConsumerInv
  <2>4. pc'[c] \in {"copy", "advanceHead"} =>
          succ'[c] \in Nodes /\ first[c] = head /\ succ[c] = next[head] /\ succ'[c] = next'[head']
    BY <2>1, PoolNodes DEF ConsumerInv
  <2>5. pc'[c] = "advanceHead" => val'[c] = message'[succ'[c]]
    BY <1>2, <2>1, <2>4, PoolNodes DEF ConsumerInv
  <2>6. c \in Freeing' => /\ first'[c] \in Nodes
                          /\ ~On(first[c], live2)' /\ ~On(first[c], free2)'
                          /\ \A d \in Freeing' : first'[d] = first'[c] => d = c
    <3> SUFFICES ASSUME c \in Freeing
                 PROVE  /\ first[c] \in Nodes
                        /\ ~On(first[c], live2)' /\ ~On(first[c], free2)'
                        /\ \A d \in Freeing : first[d] = first[c] => d = c
      BY <1>1
    <3>1. /\ first[c] \in Nodes /\ ~On(first[c], live) /\ ~On(first[c], free)
          /\ \A d \in Freeing : first[d] = first[c] => d = c
      BY <2>1 DEF ConsumerInv
    <3>2. ~On(first[c], live2) /\ ~On(first[c], free2)
      BY <3>1
    <3>3. QED
      BY <3>1, <3>2 DEF On
  <2>7. pc'[c] = "pushFree" => next'[first'[c]] = top'[c]
    BY <2>1 DEF ConsumerInv, Freeing
  <2>8. QED
    BY <2>2, <2>3, <2>4, <2>5, <2>6, <2>7 DEF ConsumerInv
<1>4. QED
  BY <1>1, <1>3

LEMMA IdleProducer ==
  ASSUME NEW q \in Producers, pc'[q] = "idle", NEW live, NEW free
  PROVE  ProducerInv(q, live, free)'
  BY DEF ProducerInv, Filling

\* A step of p, the only producer in a call, that makes live2 and free2 of the lists.
LEMMA ProducerStep ==
  ASSUME TypeOK, Discipline, NEW live, NEW free, QInv(live, free), NEW live2, NEW free2,
         NEW p \in Producers, ~Final, \A q \in Producers : q # p => pc[q] = "idle",
         UNCHANGED <<head, first, succ, top>>,
         \A t \in Threads : t # p => pc'[t] = pc[t] /\ val'[t] = val[t],
         \A n \in Nodes : On(n, free2) => On(n, free),
         \A n \in Nodes : On(n, live2) => On(n, live) \/ (p \in Filling /\ n = new_node[p]),
         \A n \in Nodes : On(n, live) \/ (\E c \in Freeing : n = first[c]) =>
           message'[n] = message[n],
         \A c \in Freeing : next'[first[c]] = next[first[c]],
         next[head] # Null => next'[head] = next[head],
         Lists(live2, free2)', Contents(live2)', TailInv(live2)',
         ProducerInv(p, live2, free2)',
         \A n \in Nodes : On(n, live) \/ On(n, free) \/ (p \in Filling /\ n = new_node[p])
           => On(n, live2) \/ On(n, free2) \/ (p \in Filling' /\ n = new_node'[p])
  PROVE  Discipline' /\ QInv(live2, free2)'
<1>1. \A c \in Consumers : c \in Threads /\ c # p
  BY ThreadAssumption DEF Threads
<1>2. \A c \in Freeing : c \in Consumers /\ first[c] \in Nodes /\ (p \in Filling => first[c] # new_node[p])
  BY DEF QInv, ConsumerInv, ProducerInv, Freeing
<1>3. (\A c \in Consumers : ConsumerInv(c, live2, free2)') /\ Freeing' = Freeing
  <2>1. \A c \in Consumers : pc'[c] = pc[c] /\ val'[c] = val[c]
    BY <1>1
  <2>2. \A c \in Freeing : next'[first[c]] = next[first[c]] /\ (On(first[c], live2) => On(first[c], live))
    BY <1>2
  <2>3. QED
    BY <2>1, <2>2, ConsumersKept
<1>4. \A q \in Producers : ProducerInv(q, live2, free2)'
  <2>1. ASSUME NEW q \in Producers, q # p PROVE ProducerInv(q, live2, free2)'
    <3>1. pc'[q] = "idle"
      BY <2>1 DEF Threads
    <3>2. QED
      BY <3>1, IdleProducer
  <2>2. QED
    BY <2>1
<1>5. Complete(live2, free2)'
  <2> SUFFICES ASSUME NEW n \in Nodes
               PROVE  \/ On(n, live2) \/ On(n, free2)
                      \/ \E q \in Filling' : n = new_node'[q]
                      \/ \E c \in Freeing' : n = first'[c]
    BY DEF Complete, On
  <2>1. \/ On(n, live) \/ On(n, free)
        \/ \E q \in Filling : n = new_node[q]
        \/ \E c \in Freeing : n = first[c]
    BY DEF QInv, Complete
  <2>2. \A q \in Filling : q = p
    BY DEF Filling
  <2>3. QED
    BY <1>3, <2>1, <2>2
<1>6. Discipline'
  <2>1. \A q \in Producers : pc'[q] # "idle" => q = p
    BY DEF Threads
  <2>2. \A c, d \in Consumers : pc'[c] # "idle" /\ pc'[d] # "idle" => c = d
    BY <1>1 DEF Discipline
  <2>3. QED
    BY <2>1, <2>2 DEF Discipline
<1>7. QED
  BY <1>3, <1>4, <1>5, <1>6 DEF QInv

\* A step of p that changes its own variables only.
LEMMA ProducerLocalStep ==
  ASSUME TypeOK, Discipline, NEW live, NEW free, QInv(live, free),
         NEW p \in Producers, ~Final, \A q \in Producers : q # p => pc[q] = "idle",
         UNCHANGED <<next, message, lists, first, succ, top, history>>,
         \A t \in Threads : t # p => pc'[t] = pc[t] /\ val'[t] = val[t],
         pc[p] # "storeTail",
         p \in Filling => p \in Filling' /\ new_node'[p] = new_node[p],
         ProducerInv(p, live, free)'
  PROVE  Discipline' /\ QInv(live, free)'
<1>1. Lists(live, free)' /\ Contents(live)'
  <2>1. /\ UNCHANGED <<head, free_list>> /\ \A n \in Nodes : next'[n] = next[n]
        /\ UNCHANGED <<message, accepted, delivered>>
    BY DEF lists, history
  <2>2. QED
    BY <2>1, ListsKept, ContentsKept DEF QInv
<1>2. TailInv(live)'
  <2>1. tail = live[Len(live)]
    BY DEF QInv, TailInv
  <2>2. QED
    BY <2>1 DEF TailInv, lists
<1>3. \A n \in Nodes : On(n, live) \/ On(n, free) \/ (p \in Filling /\ n = new_node[p])
           => On(n, live) \/ On(n, free) \/ (p \in Filling' /\ n = new_node'[p])
  OBVIOUS
<1>4. UNCHANGED <<head, first, succ, top>> /\ next' = next /\ message' = message
  BY DEF lists
<1>5. QED
  BY <1>1, <1>2, <1>3, <1>4, ProducerStep

LEMMA EnqueueCallOK ==
  ASSUME Disciplined, TypeOK, Discipline, NEW live, NEW free, QInv(live, free),
         NEW p \in Producers, NEW v \in Values, EnqueueCall(p, v)
  PROVE  Discipline' /\ QInv(live, free)'
<1>1. Idle(Producers) /\ pc[p] = "idle"
  BY DEF EnqueueCall, MayEnqueue
<1>2. ~Final
  <2>1. Busy(Producers) = 0
    <3>1. {t \in Producers : pc[t] # "idle"} = {}
      BY <1>1 DEF Idle
    <3>2. QED
      BY <3>1, FS_EmptySet DEF Busy
  <2>2. Len(accepted) < MaxEnqueue
    BY <2>1 DEF EnqueueCall, TypeOK
  <2>3. QED
    BY <2>2, BoundAssumption DEF Final, TypeOK
<1>3. /\ pc'[p] = "loadFree" /\ val'[p] = v
      /\ \A t \in Threads : t # p => pc'[t] = pc[t] /\ val'[t] = val[t]
  BY DEF EnqueueCall, Goto, TypeOK, Threads
<1>4. ProducerInv(p, live, free)' /\ p \notin Filling
  BY <1>1, <1>3 DEF ProducerInv, Filling
<1>5. UNCHANGED <<next, message, lists, first, succ, top, history>>
  BY DEF EnqueueCall, deqVars
<1>6. QED
  BY <1>1, <1>2, <1>3, <1>4, <1>5, ProducerLocalStep DEF Idle

\* The return of a call that has nothing in its hands, and the other local steps.
LEMMA EnqueueLocalOK ==
  ASSUME TypeOK, Discipline, NEW live, NEW free, QInv(live, free), NEW p \in Producers,
         \/ EnqueueNoNode(p) \/ EnqueueLoadFree(p) \/ EnqueueLoadNextFree(p)
         \/ EnqueuePopFreeFails(p) \/ EnqueueLoadTail(p) \/ EnqueueLinkFails(p)
  PROVE  Discipline' /\ QInv(live, free)'
<1>1. pc[p] \in {"loadFree", "loadNextFree", "popFree", "loadTail", "link"}
  BY DEF EnqueueNoNode, EnqueueLoadFree, EnqueueLoadNextFree, EnqueuePopFreeFails,
         EnqueueLoadTail, EnqueueLinkFails
<1>2. ~Final /\ \A q \in Producers : q # p => pc[q] = "idle"
  BY <1>1, OneProducer
<1>3. UNCHANGED <<next, message, lists, first, succ, top, history>>
  BY DEF EnqueueNoNode, EnqueueLoadFree, EnqueueLoadNextFree, EnqueuePopFreeFails,
         EnqueueLoadTail, EnqueueLinkFails, deqVars
<1>4. ProducerInv(p, live, free) /\ p \in Threads
  BY DEF QInv, Threads
<1>5. /\ \A t \in Threads : t # p => pc'[t] = pc[t] /\ val'[t] = val[t]
      /\ p \in Filling => p \in Filling' /\ new_node'[p] = new_node[p]
      /\ ProducerInv(p, live, free)'
  <2>1. CASE EnqueueNoNode(p) \/ EnqueuePopFreeFails(p)
    <3>1. /\ pc'[p] = "idle" /\ p \notin Filling
          /\ \A t \in Threads : t # p => pc'[t] = pc[t] /\ val'[t] = val[t]
      BY <1>4, <2>1 DEF EnqueueNoNode, EnqueuePopFreeFails, EnqueueReturn, Goto, TypeOK, Filling
    <3>2. QED
      BY <3>1, IdleProducer
  <2>2. CASE EnqueueLoadFree(p)
    <3>1. /\ pc'[p] = "loadNextFree" /\ p \notin Filling /\ p \notin Filling'
          /\ val' = val /\ new_node'[p] = free_list
          /\ \A t \in Threads : t # p => pc'[t] = pc[t] /\ val'[t] = val[t]
      BY <1>4, <2>2 DEF EnqueueLoadFree, Goto, TypeOK, Filling
    <3>2. free_list \in Nodes /\ On(free_list, free)
      BY <2>2, FreeTop DEF EnqueueLoadFree
    <3>3. ProducerInv(p, live, free)'
      BY <1>1, <1>4, <3>1, <3>2 DEF ProducerInv, On
    <3>4. QED
      BY <3>1, <3>3
  <2>3. CASE EnqueueLoadNextFree(p)
    <3>1. /\ pc'[p] = "popFree" /\ p \notin Filling /\ p \notin Filling'
          /\ val' = val /\ new_node' = new_node /\ next_free'[p] = next[new_node[p]]
          /\ pc[p] = "loadNextFree"
          /\ \A t \in Threads : t # p => pc'[t] = pc[t] /\ val'[t] = val[t]
      BY <1>4, <2>3 DEF EnqueueLoadNextFree, Goto, TypeOK, Filling
    <3>2. ProducerInv(p, live, free)'
      BY <1>3, <1>4, <3>1 DEF ProducerInv, On
    <3>3. QED
      BY <3>1, <3>2
  <2>4. CASE EnqueueLoadTail(p)
    <3>1. /\ pc'[p] = "link" /\ p \in Filling /\ p \in Filling' /\ pc[p] = "loadTail"
          /\ val' = val /\ new_node' = new_node /\ last'[p] = tail
          /\ \A t \in Threads : t # p => pc'[t] = pc[t] /\ val'[t] = val[t]
      BY <1>4, <2>4 DEF EnqueueLoadTail, Goto, TypeOK, Filling
    <3>2. Freeing' = Freeing
      BY <3>1, ThreadAssumption DEF Freeing, Threads
    <3>3. ProducerInv(p, live, free)'
      BY <1>3, <1>4, <3>1, <3>2 DEF ProducerInv, On, lists
    <3>4. QED
      BY <3>1, <3>3
  <2>5. CASE EnqueueLinkFails(p)
    <3>1. /\ pc'[p] = "loadTail" /\ p \in Filling /\ p \in Filling' /\ pc[p] = "link"
          /\ val' = val /\ new_node' = new_node
          /\ \A t \in Threads : t # p => pc'[t] = pc[t] /\ val'[t] = val[t]
      BY <1>4, <2>5 DEF EnqueueLinkFails, Goto, TypeOK, Filling, enqVars
    <3>2. Freeing' = Freeing
      BY <3>1, ThreadAssumption DEF Freeing, Threads
    <3>3. ProducerInv(p, live, free)'
      BY <1>3, <1>4, <3>1, <3>2 DEF ProducerInv, On, lists
    <3>4. QED
      BY <3>1, <3>3
  <2>6. QED
    BY <2>1, <2>2, <2>3, <2>4, <2>5
<1>6. pc[p] # "storeTail"
  BY <1>1
<1>7. QED
  BY <1>2, <1>3, <1>5, <1>6, ProducerLocalStep

LEMMA ChainTail ==
  ASSUME NEW s, NEW start, Chain(s, start), Len(s) > 0
  PROVE  \E rest : /\ Chain(rest, next[start]) /\ Len(rest) = Len(s) - 1
                   /\ \A k \in 1..Len(rest) : rest[k] = s[k + 1]
                   /\ \A n : On(n, s) <=> n = start \/ On(n, rest)
                   /\ ~On(start, rest)
<1>1. s \in Seq(Nodes) /\ Len(s) \in Nat /\ start = s[1]
  BY ChainNodes DEF Chain
<1>2. PICK rest : rest = Tail(s)
  OBVIOUS
<1>3. /\ rest \in Seq(Nodes) /\ Len(rest) = Len(s) - 1
      /\ \A k \in 1..Len(rest) : rest[k] = s[k + 1]
  BY <1>1, <1>2
<1>4. Chain(rest, next[start])
  <2>1. CASE Len(rest) = 0
    <3>1. Len(s) = 1
      BY <1>1, <1>3, <2>1
    <3>2. next[s[Len(s)]] = Null
      BY <1>1 DEF Chain
    <3>3. next[start] = Null
      BY <1>1, <3>1, <3>2
    <3>4. (\A j, k \in 1..Len(rest) : rest[j] = rest[k] => j = k)
          /\ \A k \in 1..(Len(rest) - 1) : next[rest[k]] = rest[k + 1]
      BY <2>1
    <3>5. QED
      BY <1>3, <2>1, <3>3, <3>4 DEF Chain
  <2>2. CASE Len(rest) # 0
    <3>1. next[start] = rest[1] /\ next[rest[Len(rest)]] = Null
      <4>1. next[s[1]] = s[2] /\ next[s[Len(s)]] = Null
        BY <1>1, <1>3, <2>2 DEF Chain
      <4>2. QED
        BY <1>1, <1>3, <2>2, <4>1
    <3>2. \A k \in 1..(Len(rest) - 1) : next[rest[k]] = rest[k + 1]
      BY <1>1, <1>3, <2>2 DEF Chain
    <3>3. \A j, k \in 1..Len(rest) : rest[j] = rest[k] => j = k
      <4>1. ASSUME NEW j \in 1..Len(rest), NEW k \in 1..Len(rest), rest[j] = rest[k] PROVE j = k
        <5>1. j + 1 \in 1..Len(s) /\ k + 1 \in 1..Len(s) /\ s[j + 1] = s[k + 1]
          BY <1>1, <1>3, <4>1
        <5>2. j + 1 = k + 1
          BY <5>1 DEF Chain
        <5>3. QED
          BY <5>2
      <4>2. QED
        BY <4>1
    <3>4. QED
      BY <1>3, <2>2, <3>1, <3>2, <3>3 DEF Chain
  <2>3. QED
    BY <2>1, <2>2
<1>5. \A n : On(n, s) <=> n = start \/ On(n, rest)
  <2>1. ASSUME NEW k \in 1..Len(s) PROVE s[k] = start \/ On(s[k], rest)
    <3>1. CASE k = 1
      BY <1>1, <3>1
    <3>2. CASE k # 1
      <4>1. k - 1 \in 1..Len(rest) /\ rest[k - 1] = s[k]
        BY <1>1, <1>3, <3>2
      <4>2. QED
        BY <4>1 DEF On
    <3>3. QED
      BY <3>1, <3>2
  <2>2. \A k \in 1..Len(rest) : k + 1 \in 1..Len(s) /\ s[k + 1] = rest[k]
    BY <1>1, <1>3
  <2>3. 1 \in 1..Len(s)
    BY <1>1
  <2>4. QED
    BY <1>1, <2>1, <2>2, <2>3 DEF On
<1>6. ~On(start, rest)
  <2>1. ASSUME NEW k \in 1..Len(rest), rest[k] = start PROVE FALSE
    <3>1. k + 1 \in 1..Len(s) /\ 1 \in 1..Len(s) /\ s[k + 1] = s[1] /\ k + 1 # 1
      BY <1>1, <1>3, <2>1
    <3>2. QED
      BY <3>1 DEF Chain
  <2>2. QED
    BY <2>1 DEF On
<1>7. QED
  BY <1>3, <1>4, <1>5, <1>6

LEMMA ChainAppend ==
  ASSUME NEW s, NEW start, Chain(s, start), Len(s) > 0, NEW n \in Nodes, ~On(n, s),
         next[n] = Null, next'[s[Len(s)]] = n,
         \A m \in Nodes : m # s[Len(s)] => next'[m] = next[m]
  PROVE  \E more : /\ Chain(more, start)' /\ Len(more) = Len(s) + 1
                   /\ \A k \in 1..Len(s) : more[k] = s[k]
                   /\ more[Len(more)] = n
                   /\ \A m : On(m, more) <=> m = n \/ On(m, s)
<1>1. s \in Seq(Nodes) /\ Len(s) \in Nat /\ start = s[1]
  BY ChainNodes DEF Chain
<1>2. PICK more : more = Append(s, n)
  OBVIOUS
<1>3. /\ more \in Seq(Nodes) /\ Len(more) = Len(s) + 1
      /\ \A k \in 1..Len(s) : more[k] = s[k]
      /\ more[Len(s) + 1] = n
  BY <1>1, <1>2
<1>4. \A m : On(m, more) <=> m = n \/ On(m, s)
  <2>1. \A k \in 1..Len(more) : k = Len(s) + 1 \/ k \in 1..Len(s)
    BY <1>1, <1>3
  <2>2. \A k \in 1..Len(s) : k \in 1..Len(more)
    BY <1>1, <1>3
  <2>3. Len(s) + 1 \in 1..Len(more)
    BY <1>1, <1>3
  <2>4. QED
    BY <1>3, <2>1, <2>2, <2>3 DEF On
<1>5. Chain(more, start)'
  <2>1. \A j, k \in 1..Len(more) : more[j] = more[k] => j = k
    <3>1. \A k \in 1..Len(s) : s[k] # n
      BY DEF On
    <3>2. \A k \in 1..Len(more) : k = Len(s) + 1 \/ k \in 1..Len(s)
      BY <1>1, <1>3
    <3>3. \A j, k \in 1..Len(s) : s[j] = s[k] => j = k
      BY DEF Chain
    <3>4. QED
      BY <1>3, <3>1, <3>2, <3>3
  <2>2. start = more[1] /\ next'[more[Len(more)]] = Null
    <3>1. s[Len(s)] # n /\ 1 \in 1..Len(s)
      BY <1>1 DEF On
    <3>2. QED
      BY <1>1, <1>3, <3>1
  <2>3. \A k \in 1..(Len(more) - 1) : next'[more[k]] = more[k + 1]
    <3>1. ASSUME NEW k \in 1..Len(s) PROVE next'[s[k]] = more[k + 1]
      <4>1. CASE k = Len(s)
        <5>1. s[Len(s)] \in Nodes
          BY <1>1
        <5>2. QED
          BY <1>3, <4>1, <5>1
      <4>2. CASE k # Len(s)
        <5>1. s[k] # s[Len(s)] /\ k \in 1..(Len(s) - 1)
          BY <1>1, <4>2 DEF Chain
        <5>2. next'[s[k]] = next[s[k]] /\ next[s[k]] = s[k + 1] /\ k + 1 \in 1..Len(s)
          BY <1>1, <5>1 DEF Chain
        <5>3. QED
          BY <1>3, <5>2
      <4>3. QED
        BY <4>1, <4>2
    <3>2. QED
      BY <1>1, <1>3, <3>1
  <2>4. Len(more) # 0
    BY <1>1, <1>3
  <2>5. QED
    BY <1>3, <2>1, <2>2, <2>3, <2>4 DEF Chain
<1>6. QED
  BY <1>1, <1>3, <1>4, <1>5

\* The producer p takes the top node off the free list.
LEMMA EnqueuePopFreeOK ==
  ASSUME TypeOK, Discipline, NEW live, NEW free, QInv(live, free), NEW p \in Producers,
         EnqueuePopFree(p)
  PROVE  Discipline' /\ \E free2 : QInv(live, free2)'
<1>1. pc[p] = "popFree" /\ free_list = new_node[p] /\ p \in Threads
  BY DEF EnqueuePopFree, Threads
<1>2. ~Final /\ \A q \in Producers : q # p => pc[q] = "idle"
  BY <1>1, OneProducer
<1>3. ProducerInv(p, live, free) /\ Lists(live, free) /\ Contents(live)
  BY DEF QInv
<1>4. /\ next_free[p] = next[free_list] /\ free_list \in Nodes /\ On(free_list, free)
      /\ val[p] \in Values
  BY <1>1, <1>3 DEF ProducerInv
<1>5. Len(free) > 0
  BY <1>4, FreeTop, PoolNodes
<1>6. PICK free2 : /\ Chain(free2, next[free_list])
                   /\ \A n : On(n, free) <=> n = free_list \/ On(n, free2)
                   /\ ~On(free_list, free2)
  BY <1>3, <1>5, ChainTail DEF Lists
<1>7. /\ UNCHANGED <<next, message, head, tail, val, first, succ, top, accepted, delivered>>
      /\ free_list' = next[free_list] /\ new_node' = new_node
      /\ pc'[p] = "fill" /\ \A t \in Threads : t # p => pc'[t] = pc[t]
  BY <1>1, <1>4 DEF EnqueuePopFree, Goto, TypeOK, deqVars, history
<1>8. Lists(live, free2)'
  <2>1. PICK h, f : h = head /\ f = next[free_list]
    OBVIOUS
  <2>2. Chain(live, h)' /\ Chain(free2, f)'
    BY <1>3, <1>6, <1>7, <2>1, ChainKept DEF Lists
  <2>3. Chain(live, head)' /\ Chain(free2, free_list)'
    BY <1>7, <2>1, <2>2
  <2>4. \A n \in Nodes : ~(On(n, live) /\ On(n, free2))
    BY <1>3, <1>6 DEF Lists
  <2>5. QED
    BY <1>3, <2>3, <2>4 DEF Lists, On
<1>9. Contents(live)'
  BY <1>3, <1>7, ContentsKept
<1>10. TailInv(live)'
  BY <1>1, <1>2, <1>7 DEF QInv, TailInv
<1>11. p \in Filling' /\ p \notin Filling /\ Freeing' = Freeing
  BY <1>1, <1>7, ThreadAssumption DEF Filling, Freeing, Threads
<1>12. ProducerInv(p, live, free2)'
  <2>1. ~On(free_list, live)
    BY <1>3, <1>4 DEF Lists
  <2>2. \A c \in Freeing : first[c] # free_list
    BY <1>4 DEF QInv, ConsumerInv, Freeing
  <2>3. /\ new_node[p] \in Nodes /\ ~On(new_node[p], live) /\ ~On(new_node[p], free2)
        /\ \A c \in Freeing : first[c] # new_node[p]
    BY <1>1, <1>4, <1>6, <2>1, <2>2
  <2>4. QED
    BY <1>4, <1>7, <1>11, <2>3 DEF ProducerInv, On
<1>13. QED
  <2>1. /\ \A n \in Nodes : On(n, free2) => On(n, free)
        /\ \A t \in Threads : t # p => pc'[t] = pc[t] /\ val'[t] = val[t]
        /\ \A n \in Nodes : On(n, live) \/ On(n, free) \/ (p \in Filling /\ n = new_node[p])
           => On(n, live) \/ On(n, free2) \/ (p \in Filling' /\ n = new_node'[p])
    BY <1>1, <1>6, <1>7, <1>11
  <2>2. Discipline' /\ QInv(live, free2)'
    BY <1>2, <1>7, <1>8, <1>9, <1>10, <1>12, <2>1, ProducerStep
  <2>3. QED
    BY <2>2

\* It writes to the node, which is on neither list.
LEMMA EnqueueWriteOK ==
  ASSUME TypeOK, Discipline, NEW live, NEW free, QInv(live, free), NEW p \in Producers,
         EnqueueFill(p) \/ EnqueueClearNext(p)
  PROVE  Discipline' /\ QInv(live, free)'
<1>1. pc[p] \in {"fill", "clearNext"} /\ p \in Threads /\ p \in Filling
  BY DEF EnqueueFill, EnqueueClearNext, Threads, Filling
<1>2. ~Final /\ \A q \in Producers : q # p => pc[q] = "idle"
  BY <1>1, OneProducer
<1>3. ProducerInv(p, live, free) /\ Lists(live, free) /\ Contents(live)
  BY DEF QInv
<1>4. /\ new_node[p] \in Nodes /\ ~On(new_node[p], live) /\ ~On(new_node[p], free)
      /\ \A c \in Freeing : first[c] # new_node[p]
      /\ val[p] \in Values
  BY <1>1, <1>3 DEF ProducerInv
<1>5. /\ UNCHANGED <<head, tail, free_list, val, first, succ, top, accepted, delivered>>
      /\ new_node' = new_node
      /\ pc'[p] \in {"clearNext", "loadTail"} /\ \A t \in Threads : t # p => pc'[t] = pc[t]
      /\ \A n \in Nodes : n # new_node[p] => next'[n] = next[n] /\ message'[n] = message[n]
      /\ message'[new_node[p]] = val[p]
      /\ pc'[p] = "loadTail" => next'[new_node[p]] = Null
  <2>1. CASE EnqueueFill(p)
    BY <1>1, <1>4, <2>1 DEF EnqueueFill, Goto, TypeOK, deqVars, enqVars, lists, history
  <2>2. CASE EnqueueClearNext(p)
    BY <1>1, <1>3, <1>4, <2>2
       DEF EnqueueClearNext, ClearedNext, ProducerInv, Goto, TypeOK, deqVars, enqVars, lists, history
  <2>3. QED
    BY <2>1, <2>2
<1>6. Lists(live, free)'
  BY <1>3, <1>4, <1>5, ListsKept
<1>7. Contents(live)'
  <2>1. \A k \in 1..Len(live) : live[k] \in Nodes /\ live[k] # new_node[p]
    BY <1>3, <1>4, ChainNodes DEF Lists
  <2>2. Len(live) \in Nat
    BY HeadAndTail
  <2>3. \A k \in 2..Len(live) : message'[live[k]] = message[live[k]]
    BY <1>5, <2>1, <2>2
  <2>4. QED
    BY <1>3, <1>5, <2>3 DEF Contents
<1>8. TailInv(live)'
  BY <1>1, <1>2, <1>5 DEF QInv, TailInv
<1>9. p \in Filling' /\ Freeing' = Freeing
  BY <1>1, <1>5, ThreadAssumption DEF Filling, Freeing, Threads
<1>10. ProducerInv(p, live, free)'
  BY <1>4, <1>5, <1>9 DEF ProducerInv, On
<1>11. QED
  <2>1. \A n \in Nodes : On(n, live) \/ (\E c \in Freeing : n = first[c]) => message'[n] = message[n]
    BY <1>4, <1>5
  <2>2. \A c \in Freeing : next'[first[c]] = next[first[c]]
    BY <1>4, <1>5 DEF QInv, ConsumerInv, Freeing
  <2>3. next[head] # Null => next'[head] = next[head]
    BY <1>4, <1>5, HeadAndTail
  <2>4. \A t \in Threads : t # p => pc'[t] = pc[t] /\ val'[t] = val[t]
    BY <1>5
  <2>5. QED
    BY <1>2, <1>5, <1>6, <1>7, <1>8, <1>9, <1>10, <2>1, <2>2, <2>3, <2>4, ProducerStep

\* It links the node behind the last one, and accepts its message.
LEMMA EnqueueLinkOK ==
  ASSUME TypeOK, Discipline, NEW live, NEW free, QInv(live, free), NEW p \in Producers,
         EnqueueLink(p)
  PROVE  Discipline' /\ \E live2 : QInv(live2, free)' /\ Len(live2) = Len(live) + 1
<1>1. pc[p] = "link" /\ p \in Threads /\ p \in Filling
  BY DEF EnqueueLink, Threads, Filling
<1>2. ~Final /\ \A q \in Producers : q # p => pc[q] = "idle"
  BY <1>1, OneProducer
<1>3. ProducerInv(p, live, free) /\ Lists(live, free) /\ Contents(live)
  BY DEF QInv
<1>4. PICK n : n = new_node[p]
  OBVIOUS
<1>5. /\ n \in Nodes /\ ~On(n, live) /\ ~On(n, free)
      /\ \A c \in Freeing : first[c] # n
      /\ message[n] = val[p] /\ val[p] \in Values /\ next[n] = Null /\ last[p] = tail
  BY <1>1, <1>3, <1>4 DEF ProducerInv
<1>6. tail = live[Len(live)] /\ tail \in Nodes /\ On(tail, live) /\ next[tail] = Null
      /\ Len(live) \in Nat /\ Len(live) > 0
  BY <1>1, <1>2, HeadAndTail DEF QInv, TailInv
<1>7. /\ UNCHANGED <<message, head, tail, free_list, val, first, succ, top, delivered, new_node>>
      /\ next' = [next EXCEPT ![live[Len(live)]] = n]
      /\ accepted' = Append(accepted, val[p])
      /\ pc'[p] = "storeTail" /\ \A t \in Threads : t # p => pc'[t] = pc[t]
  BY <1>1, <1>4, <1>5, <1>6 DEF EnqueueLink, Goto, TypeOK, deqVars, enqVars, lists
<1>8. next \in [Nodes -> NodeOrNull] /\ Chain(live, head) /\ Chain(free, free_list)
  BY <1>3 DEF TypeOK, Lists
<1>9. PICK h, f : h = head /\ f = free_list
  OBVIOUS
<1>10. PICK live2 : /\ Chain(live2, h)' /\ Len(live2) = Len(live) + 1
                    /\ \A k \in 1..Len(live) : live2[k] = live[k]
                    /\ live2[Len(live2)] = n
                    /\ \A m : On(m, live2) <=> m = n \/ On(m, live)
  <2>1. Chain(live, h) /\ Len(live) > 0 /\ ~On(n, live) /\ next[n] = Null
    BY <1>5, <1>6, <1>8, <1>9
  <2>2. /\ next'[live[Len(live)]] = n /\ n \in Nodes
        /\ \A m \in Nodes : m # live[Len(live)] => next'[m] = next[m]
    BY <1>5, <1>6, <1>7, <1>8
  <2>3. QED
    BY <2>1, <2>2, ChainAppend
<1>11. \A m \in Nodes : m # tail => next'[m] = next[m]
  BY <1>6, <1>7, <1>8
<1>12. Lists(live2, free)'
  <2>1. \A m \in Nodes : On(m, free) => m # tail
    BY <1>3, <1>6 DEF Lists
  <2>2. Chain(free, f)'
    BY <1>8, <1>9, <1>11, <2>1, ChainKept
  <2>3. Chain(live2, head)' /\ Chain(free, free_list)'
    BY <1>7, <1>9, <1>10, <2>2
  <2>4. \A m \in Nodes : ~(On(m, live2) /\ On(m, free))
    BY <1>3, <1>5, <1>10 DEF Lists
  <2>5. QED
    BY <1>6, <1>10, <2>3, <2>4 DEF Lists, On
<1>13. Contents(live2)'
  <2>1. accepted \in Seq(Values) /\ Len(accepted) \in Nat /\ Len(delivered) \in Nat
    BY DEF TypeOK
  <2>2. /\ Len(accepted') = Len(accepted) + 1 /\ accepted'[Len(accepted) + 1] = val[p]
        /\ \A k \in 1..Len(accepted) : accepted'[k] = accepted[k]
    BY <1>5, <1>7, <2>1
  <2>3. Len(accepted) = Len(delivered) + Len(live) - 1
    BY <1>3 DEF Contents
  <2>4. ASSUME NEW k \in 2..Len(live2)
        PROVE  message'[live2[k]] = accepted'[Len(delivered') + k - 1]
    <3>1. CASE k = Len(live2)
      BY <1>5, <1>6, <1>7, <1>10, <2>1, <2>2, <2>3, <3>1
    <3>2. CASE k # Len(live2)
      <4>1. k \in 2..Len(live) /\ k \in 1..Len(live) /\ live2[k] = live[k]
        BY <1>6, <1>10, <3>2
      <4>2. message[live[k]] = accepted[Len(delivered) + k - 1]
        BY <1>3, <4>1 DEF Contents
      <4>3. Len(delivered) + k - 1 \in 1..Len(accepted)
        BY <1>6, <2>1, <2>3, <4>1
      <4>4. QED
        BY <1>7, <2>2, <4>1, <4>2, <4>3
    <3>3. QED
      BY <3>1, <3>2
  <2>5. Len(accepted') = Len(delivered') + Len(live2) - 1
    BY <1>6, <1>7, <1>10, <2>1, <2>2, <2>3
  <2>6. QED
    BY <2>4, <2>5 DEF Contents
<1>14. TailInv(live2)'
  BY <1>7 DEF TailInv
<1>15. p \notin Filling' /\ Freeing' = Freeing
  BY <1>1, <1>7, ThreadAssumption DEF Filling, Freeing, Threads
<1>16. ProducerInv(p, live2, free)'
  BY <1>4, <1>5, <1>7, <1>10, <1>15 DEF ProducerInv
<1>17. QED
  <2>1. \A m \in Nodes : On(m, live2) => On(m, live) \/ (p \in Filling /\ m = new_node[p])
    BY <1>1, <1>4, <1>10
  <2>2. \A c \in Freeing : next'[first[c]] = next[first[c]]
    BY <1>6, <1>11 DEF QInv, ConsumerInv, Freeing
  <2>3. next[head] # Null => next'[head] = next[head]
    BY <1>6, <1>11, HeadAndTail
  <2>4. \A t \in Threads : t # p => pc'[t] = pc[t] /\ val'[t] = val[t]
    BY <1>7
  <2>5. \A m \in Nodes : On(m, live) \/ On(m, free) \/ (p \in Filling /\ m = new_node[p])
           => On(m, live2) \/ On(m, free) \/ (p \in Filling' /\ m = new_node'[p])
    BY <1>4, <1>10
  <2>6. Discipline' /\ QInv(live2, free)'
    BY <1>2, <1>7, <1>12, <1>13, <1>14, <1>16, <2>1, <2>2, <2>3, <2>4, <2>5, ProducerStep
  <2>7. QED
    BY <1>10, <2>6

\* It advances the tail to the node it linked, which is still the last one.
LEMMA EnqueueStoreTailOK ==
  ASSUME TypeOK, Discipline, NEW live, NEW free, QInv(live, free), NEW p \in Producers,
         EnqueueStoreTail(p)
  PROVE  Discipline' /\ QInv(live, free)'
<1>1. pc[p] = "storeTail" /\ p \in Threads /\ p \notin Filling
  BY DEF EnqueueStoreTail, Threads, Filling
<1>2. ~Final /\ \A q \in Producers : q # p => pc[q] = "idle"
  BY <1>1, OneProducer
<1>3. ProducerInv(p, live, free) /\ Lists(live, free) /\ Contents(live)
  BY DEF QInv
<1>4. /\ UNCHANGED <<next, message, head, free_list, first, succ, top, accepted, delivered>>
      /\ tail' = live[Len(live)] /\ pc'[p] = "idle"
      /\ \A t \in Threads : t # p => pc'[t] = pc[t] /\ val'[t] = val[t]
  BY <1>1, <1>3
     DEF EnqueueStoreTail, EnqueueReturn, NewTail, ProducerInv, Goto, TypeOK, deqVars, history
<1>5. Lists(live, free)' /\ Contents(live)'
  BY <1>3, <1>4, ListsKept, ContentsKept
<1>6. TailInv(live)'
  BY <1>4 DEF TailInv
<1>7. ProducerInv(p, live, free)'
  BY <1>4, IdleProducer
<1>8. QED
  BY <1>1, <1>2, <1>4, <1>5, <1>6, <1>7, ProducerStep

-----------------------------------------------------------------------------
(* The steps of consumers.                                                  *)

LEMMA IdleConsumer ==
  ASSUME NEW d \in Consumers, pc'[d] = "idle", NEW live, NEW free
  PROVE  ConsumerInv(d, live, free)'
  BY DEF ConsumerInv, Freeing

\* Another consumer in a call: all messages are enqueued, and stay so.
LEMMA OtherConsumer ==
  ASSUME NEW live, NEW free, NEW live2, NEW free2, NEW c \in Consumers, NEW d \in Consumers, d # c,
         ConsumerInv(d, live, free), Final', Lists(live, free), Lists(live2, free2)',
         UNCHANGED message, pc'[d] = pc[d], val'[d] = val[d],
         first'[d] = first[d], succ'[d] = succ[d], top'[d] = top[d],
         c \in Freeing => first[c] \in Nodes /\ ~On(first[c], live),
         \A n \in Nodes : (c \in Freeing => n # first[c]) => next'[n] = next[n],
         \A n \in Nodes : On(n, live2) => On(n, live),
         \A n \in Nodes : On(n, free2) => On(n, free) \/ (c \in Freeing /\ n = first[c]),
         \A e \in Freeing' : e # c => e \in Freeing /\ first'[e] = first[e],
         c \in Freeing' => (c \in Freeing \/ On(first[c], live)) /\ first'[c] = first[c],
         head' = head \/ (On(head', live) /\ head' # head /\ ~On(head, live2)),
         head \in Nodes /\ On(head, live)
  PROVE  ConsumerInv(d, live2, free2)'
<1>1. pc'[d] \in {"idle", "loadNext", "copy", "advanceHead", "loadTop", "linkFree", "pushFree"}
  BY DEF ConsumerInv
<1>2. ASSUME pc[d] \in {"loadNext", "copy", "advanceHead"}
      PROVE  /\ first[d] \in Nodes /\ (first[d] = head' \/ ~On(first[d], live2))
             /\ first[d] = head' => head' = head
  BY <1>2 DEF ConsumerInv
<1>3. pc'[d] \in {"loadNext", "copy", "advanceHead"} =>
         first'[d] \in Nodes /\ (first'[d] = head' \/ (~On(first[d], live2)' /\ Final'))
  BY <1>2 DEF On
<1>4. pc'[d] \in {"copy", "advanceHead"} =>
        /\ succ'[d] \in Nodes
        /\ first'[d] = head' => succ'[d] = next'[head'] /\ first[d] = head
  BY <1>2 DEF ConsumerInv
<1>5. pc'[d] = "advanceHead" /\ first'[d] = head' => val'[d] = message'[succ'[d]]
  BY <1>4 DEF ConsumerInv
<1>6. d \in Freeing' => /\ first'[d] \in Nodes
                        /\ ~On(first[d], live2)' /\ ~On(first[d], free2)'
                        /\ \A e \in Freeing' : first'[e] = first'[d] => e = d
  <2> SUFFICES ASSUME d \in Freeing'
               PROVE  /\ first[d] \in Nodes
                      /\ ~On(first[d], live2)' /\ ~On(first[d], free2)'
                      /\ \A e \in Freeing' : first'[e] = first[d] => e = d
    OBVIOUS
  <2>1. d \in Freeing /\ first[d] \in Nodes /\ ~On(first[d], live) /\ ~On(first[d], free)
        /\ \A e \in Freeing : first[e] = first[d] => e = d
    BY DEF ConsumerInv
  <2>2. c \in Freeing => first[c] # first[d]
    BY <2>1
  <2>3. ~On(first[d], live2) /\ ~On(first[d], free2)
    BY <2>1, <2>2
  <2>4. ASSUME NEW e \in Freeing', first'[e] = first[d] PROVE e = d
    <3>1. CASE e = c
      <4>1. (c \in Freeing \/ On(first[c], live)) /\ first[c] = first[d]
        BY <2>4, <3>1
      <4>2. QED
        BY <2>1, <2>2, <4>1
    <3>2. CASE e # c
      BY <2>1, <2>4, <3>2
    <3>3. QED
      BY <3>1, <3>2
  <2>5. QED
    BY <2>1, <2>3, <2>4 DEF On
<1>7. pc'[d] = "pushFree" => next'[first'[d]] = top'[d]
  <2>1. ASSUME pc[d] = "pushFree" PROVE next'[first[d]] = top[d]
    <3>1. d \in Freeing
      BY <2>1 DEF Freeing
    <3>2. first[d] \in Nodes /\ (c \in Freeing => first[d] # first[c]) /\ next[first[d]] = top[d]
      BY <2>1, <3>1 DEF ConsumerInv
    <3>3. QED
      BY <3>2
  <2>2. QED
    BY <2>1
<1>8. QED
  BY <1>1, <1>3, <1>4, <1>5, <1>6, <1>7 DEF ConsumerInv

\* A step in a call of c that makes live2 and free2 of the lists.
LEMMA ConsumerStep ==
  ASSUME TypeOK, Discipline, NEW live, NEW free, QInv(live, free), NEW live2, NEW free2,
         NEW c \in Consumers, \A d \in Consumers : d # c /\ pc[d] # "idle" => Final,
         UNCHANGED <<message, tail, accepted, new_node, next_free, last>>,
         \A t \in Threads : t # c => pc'[t] = pc[t] /\ val'[t] = val[t],
         \A d \in Consumers : d # c => first'[d] = first[d] /\ succ'[d] = succ[d] /\ top'[d] = top[d],
         \A n \in Nodes : (c \in Freeing => n # first[c]) => next'[n] = next[n],
         \A n \in Nodes : On(n, live2) => On(n, live),
         \A n \in Nodes : On(n, free) => On(n, free2),
         \A n \in Nodes : On(n, free2) => On(n, free) \/ (c \in Freeing /\ n = first[c]),
         live2[Len(live2)] = live[Len(live)],
         c \in Freeing' => (c \in Freeing \/ On(first[c], live)) /\ first'[c] = first[c],
         head' = head \/ (On(head', live) /\ head' # head /\ ~On(head, live2)),
         Lists(live2, free2)', Contents(live2)', ConsumerInv(c, live2, free2)',
         \A n \in Nodes : On(n, live) \/ On(n, free) \/ (c \in Freeing /\ n = first[c])
           => On(n, live2) \/ On(n, free2) \/ (c \in Freeing' /\ n = first'[c])
  PROVE  Discipline' /\ QInv(live2, free2)'
<1>1. \A p \in Producers : pc'[p] = pc[p] /\ val'[p] = val[p]
  BY ThreadAssumption DEF Threads
<1>2. \A d \in Consumers : d # c => pc'[d] = pc[d] /\ val'[d] = val[d]
  BY DEF Threads
<1>3. Filling' = Filling /\ (Final => Final')
  BY <1>1 DEF Filling, Final, Idle
<1>4. c \in Freeing => first[c] \in Nodes /\ ~On(first[c], live) /\ ~On(first[c], free)
  BY DEF QInv, ConsumerInv
<1>5. \A e \in Freeing' : e # c => e \in Freeing /\ first'[e] = first[e]
  BY <1>2 DEF Freeing
<1>6. Lists(live, free) /\ head \in Nodes /\ On(head, live) /\ Len(live) \in Nat
  BY HeadAndTail DEF QInv
<1>7. \A d \in Consumers : ConsumerInv(d, live2, free2)'
  <2>1. ASSUME NEW d \in Consumers, d # c PROVE ConsumerInv(d, live2, free2)'
    <3>1. CASE pc[d] = "idle"
      <4>1. pc'[d] = "idle"
        BY <1>2, <2>1, <3>1
      <4>2. QED
        BY <4>1, IdleConsumer
    <3>2. CASE pc[d] # "idle"
      <4>1. Final'
        BY <1>3, <2>1, <3>2
      <4>2. ConsumerInv(d, live, free)
        BY DEF QInv
      <4>3. /\ pc'[d] = pc[d] /\ val'[d] = val[d] /\ message' = message
            /\ first'[d] = first[d] /\ succ'[d] = succ[d] /\ top'[d] = top[d]
        BY <1>2, <2>1
      <4>4. c \in Freeing => first[c] \in Nodes /\ ~On(first[c], live)
        BY <1>4
      <4>5. QED
        BY <1>5, <1>6, <2>1, <4>1, <4>2, <4>3, <4>4, OtherConsumer
    <3>3. QED
      BY <3>1, <3>2
  <2>2. QED
    BY <2>1
<1>8. \A p \in Producers : ProducerInv(p, live2, free2)'
  <2> SUFFICES ASSUME NEW p \in Producers PROVE ProducerInv(p, live2, free2)'
    OBVIOUS
  <2>0. /\ ProducerInv(p, live, free) /\ pc'[p] = pc[p] /\ val'[p] = val[p]
        /\ message' = message /\ new_node' = new_node /\ next_free' = next_free
        /\ last' = last /\ tail' = tail /\ (p \in Filling' <=> p \in Filling)
    BY <1>1, <1>3 DEF QInv
  <2>1. pc[p] \in {"loadNextFree", "popFree"} =>
          /\ new_node[p] \in Nodes /\ On(new_node[p], free)
          /\ next'[new_node[p]] = next[new_node[p]]
    BY <1>4, <2>0 DEF ProducerInv
  <2>2. pc'[p] \in {"loadNextFree", "popFree"} => new_node'[p] \in Nodes /\ On(new_node[p], free2)'
    BY <2>0, <2>1 DEF On
  <2>3. p \in Filling => /\ new_node[p] \in Nodes
                         /\ ~On(new_node[p], live) /\ ~On(new_node[p], free)
                         /\ \A e \in Freeing : first[e] # new_node[p]
    BY <2>0 DEF ProducerInv
  <2>4. p \in Filling' => /\ new_node'[p] \in Nodes
                          /\ ~On(new_node[p], live2)' /\ ~On(new_node[p], free2)'
                          /\ \A e \in Freeing' : first'[e] # new_node'[p]
    <3> SUFFICES ASSUME p \in Filling
                 PROVE  /\ new_node[p] \in Nodes
                        /\ ~On(new_node[p], live2)' /\ ~On(new_node[p], free2)'
                        /\ \A e \in Freeing' : first'[e] # new_node[p]
      BY <2>0
    <3>1. ~On(new_node[p], live2) /\ ~On(new_node[p], free2)
      BY <2>3
    <3>2. ASSUME NEW e \in Freeing' PROVE first'[e] # new_node[p]
      <4>1. CASE e = c
        BY <2>3, <4>1
      <4>2. CASE e # c
        BY <1>5, <2>3, <4>2
      <4>3. QED
        BY <4>1, <4>2
    <3>3. QED
      BY <2>3, <3>1, <3>2 DEF On
  <2>5. p \in Filling => next'[new_node[p]] = next[new_node[p]]
    BY <2>3
  <2>6. pc[p] \in {"clearNext", "loadTail", "link"} => p \in Filling
    BY DEF Filling
  <2>7. pc'[p] = "storeTail" => new_node'[p] = live2[Len(live2)]
    BY <2>0 DEF ProducerInv
  <2>8. QED
    BY <2>0, <2>1, <2>2, <2>4, <2>5, <2>6, <2>7 DEF ProducerInv
<1>9. Complete(live2, free2)'
  <2> SUFFICES ASSUME NEW n \in Nodes
               PROVE  \/ On(n, live2) \/ On(n, free2)
                      \/ \E q \in Filling' : n = new_node'[q]
                      \/ \E e \in Freeing' : n = first'[e]
    BY DEF Complete, On
  <2>1. \/ On(n, live) \/ On(n, free)
        \/ \E q \in Filling : n = new_node[q]
        \/ \E e \in Freeing : n = first[e]
    BY DEF QInv, Complete
  <2>2. \A e \in Freeing : e # c => e \in Freeing' /\ first'[e] = first[e]
    BY <1>2 DEF Freeing
  <2>3. QED
    BY <1>3, <2>1, <2>2
<1>10. Discipline'
  <2>1. ASSUME NEW d \in Consumers, NEW e \in Consumers, pc'[d] # "idle", pc'[e] # "idle", d # e
        PROVE  Final'
    <3>1. Final
      BY <1>2, <2>1
    <3>2. QED
      BY <1>3, <3>1
  <2>2. \A p, q \in Producers : pc'[p] # "idle" /\ pc'[q] # "idle" => p = q
    BY <1>1 DEF Discipline
  <2>3. QED
    BY <2>1, <2>2 DEF Discipline
<1>11. TailInv(live2)'
  BY <1>1 DEF QInv, TailInv
<1>12. QED
  BY <1>7, <1>8, <1>9, <1>10, <1>11 DEF QInv

\* A step of c that changes its own variables only.
LEMMA ConsumerLocalStep ==
  ASSUME TypeOK, Discipline, NEW live, NEW free, QInv(live, free), NEW c \in Consumers,
         \A d \in Consumers : d # c /\ pc[d] # "idle" => Final,
         UNCHANGED <<next, message, lists, new_node, next_free, last, history>>,
         \A t \in Threads : t # c => pc'[t] = pc[t] /\ val'[t] = val[t],
         \A d \in Consumers : d # c => first'[d] = first[d] /\ succ'[d] = succ[d] /\ top'[d] = top[d],
         c \in Freeing <=> c \in Freeing', c \in Freeing => first'[c] = first[c],
         ConsumerInv(c, live, free)'
  PROVE  Discipline' /\ QInv(live, free)'
<1>1. /\ UNCHANGED <<message, tail, accepted, new_node, next_free, last>>
      /\ UNCHANGED <<head, free_list>> /\ UNCHANGED <<message, accepted, delivered>>
      /\ \A n \in Nodes : next'[n] = next[n]
  BY DEF lists, history
<1>2. Lists(live, free)' /\ Contents(live)'
  BY <1>1, ListsKept, ContentsKept DEF QInv
<1>3. QED
  BY <1>1, <1>2, ConsumerStep

\* What the discipline says of the other consumers.
LEMMA OneConsumer ==
  ASSUME Discipline, NEW c \in Consumers, pc[c] # "idle"
  PROVE  \A d \in Consumers : d # c /\ pc[d] # "idle" => Final
  BY DEF Discipline

LEMMA DequeueLoadHeadOK ==
  ASSUME Disciplined, TypeOK, Discipline, NEW live, NEW free, QInv(live, free),
         NEW c \in Consumers, DequeueLoadHead(c)
  PROVE  Discipline' /\ QInv(live, free)'
<1>1. \A d \in Consumers : d # c /\ pc[d] # "idle" => Final
  BY DEF DequeueLoadHead, MayDequeue, Final, Idle
<1>2. /\ UNCHANGED <<next, message, lists, new_node, next_free, last, history>>
      /\ pc'[c] = "loadNext" /\ first'[c] = head
      /\ \A t \in Threads : t # c => pc'[t] = pc[t] /\ val'[t] = val[t]
      /\ \A d \in Consumers : d # c => first'[d] = first[d] /\ succ'[d] = succ[d] /\ top'[d] = top[d]
      /\ c \notin Freeing /\ c \notin Freeing'
  BY DEF DequeueLoadHead, Goto, TypeOK, Threads, enqVars, Freeing
<1>3. ConsumerInv(c, live, free)'
  <2>1. head \in Nodes /\ head' = head
    BY <1>2 DEF TypeOK, lists
  <2>2. QED
    BY <1>2, <2>1 DEF ConsumerInv
<1>4. QED
  BY <1>1, <1>2, <1>3, ConsumerLocalStep

\* The return of a call that has nothing in its hands, and the other local steps.
LEMMA DequeueLocalOK ==
  ASSUME TypeOK, Discipline, NEW live, NEW free, QInv(live, free), NEW c \in Consumers,
         \/ DequeueEmpty(c) \/ DequeueLoadNext(c) \/ DequeueCopy(c)
         \/ DequeueAdvanceHeadFails(c) \/ DequeueLoadTop(c) \/ DequeuePushFreeFails(c)
  PROVE  Discipline' /\ QInv(live, free)'
<1>1. pc[c] # "idle"
  BY DEF DequeueEmpty, DequeueLoadNext, DequeueCopy, DequeueAdvanceHeadFails, DequeueLoadTop,
         DequeuePushFreeFails
<1>2. /\ UNCHANGED <<next, message, lists, new_node, next_free, last, history>>
      /\ UNCHANGED <<next, message, head, free_list, accepted>>
  BY DEF DequeueEmpty, DequeueLoadNext, DequeueCopy, DequeueAdvanceHeadFails, DequeueLoadTop,
         DequeuePushFreeFails, enqVars, lists, history
<1>3. ConsumerInv(c, live, free) /\ c \in Threads /\ \A p \in Producers : p \in Threads /\ p # c
  BY ThreadAssumption DEF QInv, Threads
<1>4. /\ \A t \in Threads : t # c => pc'[t] = pc[t] /\ val'[t] = val[t]
      /\ \A d \in Consumers : d # c => first'[d] = first[d] /\ succ'[d] = succ[d] /\ top'[d] = top[d]
      /\ c \in Freeing <=> c \in Freeing'
      /\ c \in Freeing => first'[c] = first[c]
      /\ ConsumerInv(c, live, free)'
  <2>1. CASE DequeueEmpty(c) \/ DequeueAdvanceHeadFails(c)
    <3>1. /\ pc'[c] = "idle" /\ c \notin Freeing /\ c \notin Freeing'
          /\ \A t \in Threads : t # c => pc'[t] = pc[t] /\ val'[t] = val[t]
          /\ \A d \in Consumers : d # c => first'[d] = first[d] /\ succ'[d] = succ[d] /\ top'[d] = top[d]
      BY <1>3, <2>1
         DEF DequeueEmpty, DequeueAdvanceHeadFails, DequeueReturn, Goto, TypeOK, Freeing
    <3>2. QED
      BY <3>1, IdleConsumer
  <2>2. CASE DequeueLoadNext(c)
    <3>1. /\ pc[c] = "loadNext" /\ pc'[c] = "copy" /\ c \notin Freeing /\ c \notin Freeing'
          /\ first' = first /\ succ'[c] = next[first[c]] /\ next[first[c]] # Null
          /\ \A t \in Threads : t # c => pc'[t] = pc[t] /\ val'[t] = val[t]
          /\ \A d \in Consumers : d # c => first'[d] = first[d] /\ succ'[d] = succ[d] /\ top'[d] = top[d]
      BY <1>3, <2>2 DEF DequeueLoadNext, QueueEmpty, Goto, TypeOK, Freeing
    <3>2. first[c] \in Nodes /\ (first[c] = head \/ (~On(first[c], live) /\ Final))
      BY <1>3, <3>1 DEF ConsumerInv
    <3>3. next[first[c]] \in Nodes
      BY <3>1, <3>2 DEF TypeOK, NodeOrNull
    <3>4. Final => Final'
      BY <1>2, <1>3, <3>1 DEF Final, Idle
    <3>5. /\ first'[c] \in Nodes /\ (first'[c] = head' \/ (~On(first[c], live)' /\ Final'))
          /\ succ'[c] \in Nodes /\ (first'[c] = head' => succ'[c] = next'[head'])
      BY <1>2, <3>1, <3>2, <3>3, <3>4 DEF On
    <3>6. QED
      BY <3>1, <3>5 DEF ConsumerInv
  <2>3. CASE DequeueCopy(c)
    <3>1. /\ pc[c] = "copy" /\ pc'[c] = "advanceHead" /\ c \notin Freeing /\ c \notin Freeing'
          /\ first' = first /\ succ' = succ /\ val'[c] = message[succ[c]]
          /\ \A t \in Threads : t # c => pc'[t] = pc[t] /\ val'[t] = val[t]
          /\ \A d \in Consumers : d # c => first'[d] = first[d] /\ succ'[d] = succ[d] /\ top'[d] = top[d]
      BY <1>3, <2>3 DEF DequeueCopy, MessageNode, deqVars, Goto, TypeOK, Freeing
    <3>2. /\ first[c] \in Nodes /\ (first[c] = head \/ (~On(first[c], live) /\ Final))
          /\ succ[c] \in Nodes /\ (first[c] = head => succ[c] = next[head])
      BY <1>3, <3>1 DEF ConsumerInv
    <3>4. Final => Final'
      BY <1>2, <1>3, <3>1 DEF Final, Idle
    <3>5. /\ first'[c] \in Nodes /\ (first'[c] = head' \/ (~On(first[c], live)' /\ Final'))
          /\ succ'[c] \in Nodes /\ (first'[c] = head' => succ'[c] = next'[head'])
      BY <1>2, <3>1, <3>2, <3>4 DEF On
    <3>6. val'[c] = message'[succ'[c]]
      BY <1>2, <3>1
    <3>7. QED
      BY <3>1, <3>5, <3>6 DEF ConsumerInv
  <2>4. CASE DequeueLoadTop(c) \/ DequeuePushFreeFails(c)
    <3>1. /\ pc'[c] = "linkFree" /\ c \in Freeing /\ c \in Freeing'
          /\ first' = first /\ Freeing' = Freeing
          /\ \A t \in Threads : t # c => pc'[t] = pc[t] /\ val'[t] = val[t]
          /\ \A d \in Consumers : d # c => first'[d] = first[d] /\ succ'[d] = succ[d] /\ top'[d] = top[d]
      BY <1>3, <2>4 DEF DequeueLoadTop, DequeuePushFreeFails, Goto, TypeOK, Freeing, Threads
    <3>2. /\ first[c] \in Nodes /\ ~On(first[c], live) /\ ~On(first[c], free)
          /\ \A d \in Freeing : first[d] = first[c] => d = c
      BY <1>3, <3>1 DEF ConsumerInv
    <3>3. /\ first'[c] \in Nodes /\ ~On(first[c], live)' /\ ~On(first[c], free)'
          /\ \A d \in Freeing' : first'[d] = first'[c] => d = c
      BY <3>1, <3>2 DEF On
    <3>4. QED
      BY <3>1, <3>3 DEF ConsumerInv
  <2>5. QED
    BY <2>1, <2>2, <2>3, <2>4
<1>5. QED
  BY <1>1, <1>2, <1>4, OneConsumer, ConsumerLocalStep

\* A node that points to the first one is put in front of it.
LEMMA ChainCons ==
  ASSUME NEW s, NEW start, Chain(s, start), NEW n \in Nodes, ~On(n, s), next[n] = start
  PROVE  \E more : /\ Chain(more, n) /\ Len(more) = Len(s) + 1
                   /\ \A m : On(m, more) <=> m = n \/ On(m, s)
<1>1. s \in Seq(Nodes) /\ Len(s) \in Nat
  BY ChainNodes
<1>2. PICK more : more = <<n>> \o s
  OBVIOUS
<1>3. /\ more \in Seq(Nodes) /\ Len(more) = Len(s) + 1 /\ more[1] = n
      /\ \A k \in 1..Len(s) : more[k + 1] = s[k]
  BY <1>1, <1>2
<1>4. \A k \in 1..Len(more) : k = 1 \/ (k - 1 \in 1..Len(s) /\ more[k] = s[k - 1])
  <2>1. \A k \in 2..Len(more) : k - 1 \in 1..Len(s) /\ more[(k - 1) + 1] = s[k - 1] /\ (k - 1) + 1 = k
    BY <1>1, <1>3
  <2>2. QED
    BY <1>1, <1>3, <2>1
<1>5. \A m : On(m, more) <=> m = n \/ On(m, s)
  <2>1. \A k \in 1..Len(s) : k + 1 \in 1..Len(more)
    BY <1>1, <1>3
  <2>2. 1 \in 1..Len(more)
    BY <1>1, <1>3
  <2>3. \A m : On(m, s) => On(m, more)
    BY <1>3, <2>1 DEF On
  <2>4. On(n, more)
    BY <1>3, <2>2 DEF On
  <2>5. \A m : On(m, more) => m = n \/ On(m, s)
    BY <1>3, <1>4 DEF On
  <2>6. QED
    BY <2>3, <2>4, <2>5
<1>6. Chain(more, n)
  <2>1. ASSUME NEW j \in 1..Len(more), NEW k \in 1..Len(more), more[j] = more[k] PROVE j = k
    <3>1. \A i \in 1..Len(s) : s[i] # n
      BY DEF On
    <3>2. CASE j = 1 \/ k = 1
      BY <1>3, <1>4, <2>1, <3>1, <3>2
    <3>3. CASE j # 1 /\ k # 1
      <4>1. j - 1 \in 1..Len(s) /\ k - 1 \in 1..Len(s) /\ s[j - 1] = s[k - 1]
        BY <1>4, <2>1, <3>3
      <4>2. j - 1 = k - 1
        BY <4>1 DEF Chain
      <4>3. QED
        BY <4>2
    <3>4. QED
      BY <3>2, <3>3
  <2>2. next[more[Len(more)]] = Null
    <3>1. CASE Len(s) = 0
      BY <1>1, <1>3, <3>1 DEF Chain
    <3>2. CASE Len(s) # 0
      <4>1. more[Len(more)] = s[Len(s)]
        BY <1>1, <1>3, <3>2
      <4>2. QED
        BY <3>2, <4>1 DEF Chain
    <3>3. QED
      BY <3>1, <3>2
  <2>3. ASSUME NEW k \in 1..(Len(more) - 1) PROVE next[more[k]] = more[k + 1]
    <3>1. k \in 1..Len(s) /\ more[k + 1] = s[k]
      BY <1>1, <1>3
    <3>2. CASE k = 1
      <4>1. start = s[1]
        BY <1>1, <3>1 DEF Chain
      <4>2. QED
        BY <1>3, <3>1, <3>2, <4>1
    <3>3. CASE k # 1
      <4>1. k - 1 \in 1..(Len(s) - 1) /\ more[k] = s[k - 1] /\ (k - 1) + 1 = k
        BY <1>1, <1>3, <1>4, <3>1, <3>3
      <4>2. next[s[k - 1]] = s[(k - 1) + 1]
        BY <4>1 DEF Chain
      <4>3. QED
        BY <3>1, <4>1, <4>2
    <3>4. QED
      BY <3>2, <3>3
  <2>4. Len(more) # 0
    BY <1>1, <1>3
  <2>5. QED
    BY <1>3, <2>1, <2>2, <2>3, <2>4 DEF Chain
<1>7. QED
  BY <1>3, <1>5, <1>6

\* The consumer takes over the old head, and delivers the message of the new one.
LEMMA DequeueAdvanceHeadOK ==
  ASSUME TypeOK, Discipline, NEW live, NEW free, QInv(live, free), NEW c \in Consumers,
         DequeueAdvanceHead(c)
  PROVE  /\ Discipline' /\ \E live2 : QInv(live2, free)'
         /\ Len(delivered) < Len(accepted)
         /\ delivered' = Append(delivered, accepted[Len(delivered) + 1])
<1>1. pc[c] = "advanceHead" /\ head = first[c] /\ c \in Threads
  BY DEF DequeueAdvanceHead, Threads
<1>2. ConsumerInv(c, live, free) /\ Lists(live, free) /\ Contents(live)
  BY DEF QInv
<1>3. succ[c] \in Nodes /\ succ[c] = next[head] /\ val[c] = message[succ[c]]
  BY <1>1, <1>2 DEF ConsumerInv
<1>4. /\ head \in Nodes /\ On(head, live) /\ Len(live) \in Nat /\ Len(live) > 1
      /\ succ[c] = live[2] /\ On(succ[c], live)
  BY <1>3, HeadAndTail, PoolNodes
<1>5. PICK live2 : /\ Chain(live2, next[head]) /\ Len(live2) = Len(live) - 1
                   /\ \A k \in 1..Len(live2) : live2[k] = live[k + 1]
                   /\ \A n : On(n, live) <=> n = head \/ On(n, live2)
                   /\ ~On(head, live2)
  BY <1>2, <1>4, ChainTail DEF Lists
<1>6. /\ UNCHANGED <<next, message, free_list, tail, accepted, new_node, next_free, last>>
      /\ head' = next[head] /\ delivered' = Append(delivered, val[c]) /\ first' = first
      /\ pc'[c] = "loadTop"
      /\ \A t \in Threads : t # c => pc'[t] = pc[t] /\ val'[t] = val[t]
      /\ \A d \in Consumers : d # c => first'[d] = first[d] /\ succ'[d] = succ[d] /\ top'[d] = top[d]
  BY <1>1, <1>3 DEF DequeueAdvanceHead, Goto, TypeOK, Threads, enqVars
<1>7. accepted \in Seq(Values) /\ delivered \in Seq(Values) /\ Len(accepted) \in Nat /\ Len(delivered) \in Nat
  BY DEF TypeOK
<1>8. /\ Len(accepted) = Len(delivered) + Len(live) - 1
      /\ \A k \in 2..Len(live) : message[live[k]] = accepted[Len(delivered) + k - 1]
  BY <1>2 DEF Contents
<1>9. Len(delivered) < Len(accepted) /\ val[c] = accepted[Len(delivered) + 1]
  <2>1. message[live[2]] = accepted[Len(delivered) + 2 - 1]
    BY <1>4, <1>8
  <2>2. QED
    BY <1>3, <1>4, <1>7, <1>8, <2>1
<1>10. Lists(live2, free)'
  <2>1. PICK h, f : h = next[head] /\ f = free_list
    OBVIOUS
  <2>2. Chain(live2, h)' /\ Chain(free, f)'
    BY <1>2, <1>5, <1>6, <2>1, ChainKept DEF Lists
  <2>3. Chain(live2, head)' /\ Chain(free, free_list)'
    BY <1>6, <2>1, <2>2
  <2>4. \A n \in Nodes : ~(On(n, live2) /\ On(n, free))
    BY <1>2, <1>5 DEF Lists
  <2>5. QED
    BY <1>4, <1>5, <2>3, <2>4 DEF Lists, On
<1>11. Contents(live2)'
  <2>1. Len(delivered') = Len(delivered) + 1
    BY <1>6, <1>7
  <2>2. ASSUME NEW k \in 2..Len(live2)
        PROVE  message'[live2[k]] = accepted'[Len(delivered') + k - 1]
    <3>1. k + 1 \in 2..Len(live) /\ live2[k] = live[k + 1]
      BY <1>4, <1>5
    <3>2. message[live[k + 1]] = accepted[Len(delivered) + (k + 1) - 1]
      BY <1>8, <3>1
    <3>3. Len(delivered) + (k + 1) - 1 = Len(delivered') + k - 1
      BY <1>7, <2>1
    <3>4. QED
      BY <1>6, <3>1, <3>2, <3>3
  <2>3. Len(accepted') = Len(delivered') + Len(live2) - 1
    BY <1>4, <1>5, <1>6, <1>7, <1>8, <2>1
  <2>4. QED
    BY <2>2, <2>3 DEF Contents
<1>12. live2[Len(live2)] = live[Len(live)]
  BY <1>4, <1>5
<1>13. head' \in Nodes /\ On(head', live) /\ head' # head /\ ~On(head, live2)
  <2>1. On(succ[c], live2)
    <3>1. succ[c] = live2[1] /\ 1 \in 1..Len(live2)
      BY <1>4, <1>5
    <3>2. QED
      BY <3>1 DEF On
  <2>2. QED
    BY <1>3, <1>4, <1>5, <1>6, <2>1
<1>14. c \in Freeing' /\ c \notin Freeing /\ \A e \in Freeing' : e # c => e \in Freeing
  BY <1>1, <1>6 DEF Freeing, Threads
<1>15. ConsumerInv(c, live2, free)'
  <2>1. ~On(head, live2) /\ ~On(head, free)
    BY <1>2, <1>4, <1>5 DEF Lists
  <2>2. \A e \in Freeing' : first[e] = head => e = c
    BY <1>4, <1>14 DEF QInv, ConsumerInv, Freeing
  <2>3. /\ first'[c] \in Nodes /\ ~On(first[c], live2)' /\ ~On(first[c], free)'
        /\ \A e \in Freeing' : first'[e] = first'[c] => e = c
    BY <1>1, <1>4, <1>6, <2>1, <2>2 DEF On
  <2>4. QED
    BY <1>6, <2>3 DEF ConsumerInv
<1>16. Discipline' /\ QInv(live2, free)'
  <2>1. \A d \in Consumers : d # c /\ pc[d] # "idle" => Final
    BY <1>1, OneConsumer
  <2>2. \A n \in Nodes : (c \in Freeing => n # first[c]) => next'[n] = next[n]
    BY <1>6
  <2>3. \A n \in Nodes : On(n, live) \/ On(n, free) \/ (c \in Freeing /\ n = first[c])
           => On(n, live2) \/ On(n, free) \/ (c \in Freeing' /\ n = first'[c])
    BY <1>1, <1>5, <1>6, <1>14
  <2>4. c \in Freeing' => (c \in Freeing \/ On(first[c], live)) /\ first'[c] = first[c]
    BY <1>1, <1>4, <1>6
  <2>5. \A n \in Nodes : On(n, live2) => On(n, live)
    BY <1>5
  <2>6. QED
    BY <1>6, <1>10, <1>11, <1>12, <1>13, <1>15, <2>1, <2>2, <2>3, <2>4, <2>5, ConsumerStep
<1>17. QED
  BY <1>6, <1>9, <1>16

\* It links the old head to the top of the free list that it read.
LEMMA DequeueLinkFreeOK ==
  ASSUME TypeOK, Discipline, NEW live, NEW free, QInv(live, free), NEW c \in Consumers,
         DequeueLinkFree(c)
  PROVE  Discipline' /\ QInv(live, free)'
<1>1. pc[c] = "linkFree" /\ c \in Threads /\ c \in Freeing
  BY DEF DequeueLinkFree, Threads, Freeing
<1>2. ConsumerInv(c, live, free) /\ Lists(live, free) /\ Contents(live)
  BY DEF QInv
<1>3. /\ first[c] \in Nodes /\ ~On(first[c], live) /\ ~On(first[c], free)
      /\ \A d \in Freeing : first[d] = first[c] => d = c
  BY <1>1, <1>2 DEF ConsumerInv
<1>4. /\ UNCHANGED <<message, tail, head, free_list, accepted, delivered, new_node, next_free, last>>
      /\ first' = first /\ top' = top /\ succ' = succ /\ pc'[c] = "pushFree"
      /\ next'[first[c]] = top[c]
      /\ \A n \in Nodes : n # first[c] => next'[n] = next[n]
      /\ \A t \in Threads : t # c => pc'[t] = pc[t] /\ val'[t] = val[t]
  BY <1>1, <1>3 DEF DequeueLinkFree, FreeLink, Goto, TypeOK, Threads, enqVars, deqVars, lists, history
<1>5. c \in Freeing' /\ Freeing' = Freeing
  BY <1>1, <1>4 DEF Freeing, Threads
<1>6. Lists(live, free)' /\ Contents(live)'
  BY <1>2, <1>3, <1>4, ListsKept, ContentsKept
<1>7. ConsumerInv(c, live, free)'
  BY <1>3, <1>4, <1>5 DEF ConsumerInv, On
<1>8. \A d \in Consumers : d # c /\ pc[d] # "idle" => Final
  BY <1>1, OneConsumer
<1>9. QED
  BY <1>1, <1>4, <1>5, <1>6, <1>7, <1>8, ConsumerStep

\* It puts the old head on top of the free list.
LEMMA DequeuePushFreeOK ==
  ASSUME TypeOK, Discipline, NEW live, NEW free, QInv(live, free), NEW c \in Consumers,
         DequeuePushFree(c)
  PROVE  Discipline' /\ \E free2 : QInv(live, free2)'
<1>1. pc[c] = "pushFree" /\ c \in Threads /\ c \in Freeing /\ free_list = top[c]
  BY DEF DequeuePushFree, Threads, Freeing
<1>2. ConsumerInv(c, live, free) /\ Lists(live, free) /\ Contents(live)
  BY DEF QInv
<1>3. PICK n : n = first[c]
  OBVIOUS
<1>4. /\ n \in Nodes /\ ~On(n, live) /\ ~On(n, free) /\ next[n] = free_list
      /\ \A d \in Freeing : first[d] = n => d = c
  BY <1>1, <1>2, <1>3 DEF ConsumerInv
<1>5. PICK free2 : /\ Chain(free2, n)
                   /\ \A m : On(m, free2) <=> m = n \/ On(m, free)
  <2>1. Chain(free, free_list)
    BY <1>2 DEF Lists
  <2>2. QED
    BY <1>4, <2>1, ChainCons
<1>6. /\ UNCHANGED <<next, message, tail, head, accepted, delivered, new_node, next_free, last>>
      /\ free_list' = n /\ pc'[c] = "idle"
      /\ \A t \in Threads : t # c => pc'[t] = pc[t] /\ val'[t] = val[t]
      /\ \A d \in Consumers : d # c => first'[d] = first[d] /\ succ'[d] = succ[d] /\ top'[d] = top[d]
  BY <1>1, <1>3 DEF DequeuePushFree, DequeueReturn, Goto, TypeOK, Threads, enqVars, history
<1>7. c \notin Freeing'
  BY <1>6 DEF Freeing
<1>8. Lists(live, free2)'
  <2>1. PICK h : h = head
    OBVIOUS
  <2>2. Chain(live, h)' /\ Chain(free2, n)'
    BY <1>2, <1>5, <1>6, <2>1, ChainKept DEF Lists
  <2>3. Chain(live, head)' /\ Chain(free2, free_list)'
    BY <1>6, <2>1, <2>2
  <2>4. \A m \in Nodes : ~(On(m, live) /\ On(m, free2))
    BY <1>2, <1>4, <1>5 DEF Lists
  <2>5. QED
    BY <1>2, <2>3, <2>4 DEF Lists, On
<1>9. Contents(live)'
  BY <1>2, <1>6, ContentsKept
<1>10. ConsumerInv(c, live, free2)'
  BY <1>6, IdleConsumer
<1>11. Discipline' /\ QInv(live, free2)'
  <2>1. \A d \in Consumers : d # c /\ pc[d] # "idle" => Final
    BY <1>1, OneConsumer
  <2>2. \A m \in Nodes : On(m, free2) => On(m, free) \/ (c \in Freeing /\ m = first[c])
    BY <1>1, <1>3, <1>5
  <2>3. \A m \in Nodes : On(m, live) \/ On(m, free) \/ (c \in Freeing /\ m = first[c])
           => On(m, live) \/ On(m, free2) \/ (c \in Freeing' /\ m = first'[c])
    BY <1>3, <1>5
  <2>4. \A m \in Nodes : On(m, free) => On(m, free2)
    BY <1>5
  <2>5. QED
    BY <1>6, <1>7, <1>8, <1>9, <1>10, <2>1, <2>2, <2>3, <2>4, ConsumerStep
<1>12. QED
  BY <1>11

\* Steps that leave the queue alone: an oversized message, the destructor, no step.
LEMMA OtherStepOK ==
  ASSUME NEW live, NEW free, Discipline, QInv(live, free),
         UNCHANGED <<next, message, lists, pc, val, enqVars, deqVars, history>>
  PROVE  Discipline' /\ QInv(live, free)'
  BY DEF Discipline, Final, Idle, QInv, Lists, Chain, On, Contents, Complete, Filling, Freeing,
         ProducerInv, TailInv, ConsumerInv, lists, enqVars, deqVars, history

-----------------------------------------------------------------------------
(* The inductive invariant holds initially and every step preserves it.     *)

LEMMA InitIInv == Init => IInv
<1>1. SUFFICES ASSUME Init PROVE IInv
  OBVIOUS
<1>2. /\ next = [n \in Nodes |-> IF n \in 1..(POOL_SIZE - 1) THEN n + 1 ELSE Null]
      /\ free_list = 1 /\ head = Sentinel /\ tail = Sentinel
      /\ accepted = << >> /\ delivered = << >>
      /\ pc = [t \in Threads |-> "idle"]
  BY <1>1 DEF Init
<1>3. Sentinel \in Nodes /\ Sentinel = 0
  BY PoolNodes DEF Sentinel
<1>4. TypeOK
  <2>1. next \in [Nodes -> NodeOrNull] /\ free_list \in NodeOrNull /\ head \in Nodes /\ tail \in Nodes
    BY <1>2, <1>3, PoolNodes DEF NodeOrNull
  <2>2. /\ message \in [Nodes -> Values \cup {NoValue}] /\ val \in [Threads -> Values \cup {NoValue}]
        /\ {new_node, next_free, last} \subseteq [Producers -> NodeOrNull]
        /\ {first, succ, top} \subseteq [Consumers -> NodeOrNull]
        /\ deleted \in NodeOrNull
    BY <1>1 DEF Init, NodeOrNull
  <2>3. accepted \in Seq(Values) /\ delivered \in Seq(Values)
    BY <1>2
  <2>4. QED
    BY <1>2, <2>1, <2>2, <2>3 DEF TypeOK
<1>5. \A t \in Threads : pc[t] = "idle"
  BY <1>2
<1>6. Filling = {} /\ Freeing = {}
  BY <1>5 DEF Filling, Freeing, Threads
<1>7. Discipline
  BY <1>5 DEF Discipline, Threads
<1>8. PICK live : live = <<Sentinel>>
  OBVIOUS
<1>9. live \in Seq(Nodes) /\ Len(live) = 1 /\ live[1] = Sentinel
  BY <1>3, <1>8
<1>10. PICK free : free = [k \in 1..POOL_SIZE |-> k]
  OBVIOUS
<1>11. free \in Seq(Nodes) /\ Len(free) = POOL_SIZE /\ \A k \in 1..POOL_SIZE : free[k] = k
  BY <1>10, PoolNodes
<1>12. Chain(live, head)
  BY <1>2, <1>3, <1>9 DEF Chain
<1>13. Chain(free, free_list)
  <2>1. free_list = free[1] /\ next[free[Len(free)]] = Null
    BY <1>2, <1>11, PoolNodes
  <2>2. \A k \in 1..(Len(free) - 1) : next[free[k]] = free[k + 1]
    BY <1>2, <1>11, PoolNodes
  <2>3. Len(free) # 0 /\ \A j, k \in 1..Len(free) : free[j] = free[k] => j = k
    BY <1>11, PoolNodes
  <2>4. QED
    BY <1>11, <2>1, <2>2, <2>3 DEF Chain
<1>14. \A n \in Nodes : (On(n, live) <=> n = 0) /\ (On(n, free) <=> n # 0)
  BY <1>3, <1>9, <1>11, PoolNodes DEF On
<1>15. QInv(live, free)
  <2>1. Lists(live, free)
    BY <1>9, <1>12, <1>13, <1>14 DEF Lists
  <2>2. Contents(live)
    BY <1>2, <1>9 DEF Contents
  <2>3. Complete(live, free)
    BY <1>14 DEF Complete
  <2>4. TailInv(live)
    BY <1>2, <1>9 DEF TailInv
  <2>5. \A p \in Producers : ProducerInv(p, live, free)
    BY <1>5, <1>6 DEF ProducerInv, Threads
  <2>6. \A c \in Consumers : ConsumerInv(c, live, free)
    BY <1>5, <1>6 DEF ConsumerInv, Threads
  <2>7. QED
    BY <2>1, <2>2, <2>3, <2>4, <2>5, <2>6 DEF QInv
<1>16. QED
  BY <1>4, <1>7, <1>15 DEF IInv

LEMMA EnqueueIInv ==
  ASSUME Disciplined, TypeOK, Discipline, NEW live, NEW free, QInv(live, free),
         NEW p \in Producers, Enqueue(p)
  PROVE  Discipline' /\ \E live2, free2 : QInv(live2, free2)'
<1>1. CASE EnqueueTooLong(p)
  BY <1>1, OtherStepOK DEF EnqueueTooLong, vars
<1>2. CASE \E v \in Values : EnqueueCall(p, v)
  BY <1>2, EnqueueCallOK
<1>3. CASE \/ EnqueueNoNode(p) \/ EnqueueLoadFree(p) \/ EnqueueLoadNextFree(p)
           \/ EnqueuePopFreeFails(p) \/ EnqueueLoadTail(p) \/ EnqueueLinkFails(p)
  BY <1>3, EnqueueLocalOK
<1>4. CASE EnqueuePopFree(p)
  BY <1>4, EnqueuePopFreeOK
<1>5. CASE EnqueueFill(p) \/ EnqueueClearNext(p)
  BY <1>5, EnqueueWriteOK
<1>6. CASE EnqueueLink(p)
  BY <1>6, EnqueueLinkOK
<1>7. CASE EnqueueStoreTail(p)
  BY <1>7, EnqueueStoreTailOK
<1>8. QED
  BY <1>1, <1>2, <1>3, <1>4, <1>5, <1>6, <1>7 DEF Enqueue, EnqueueTry

LEMMA DequeueIInv ==
  ASSUME Disciplined, TypeOK, Discipline, NEW live, NEW free, QInv(live, free),
         NEW c \in Consumers, Dequeue(c)
  PROVE  Discipline' /\ \E live2, free2 : QInv(live2, free2)'
<1>1. CASE DequeueLoadHead(c)
  BY <1>1, DequeueLoadHeadOK
<1>2. CASE \/ DequeueEmpty(c) \/ DequeueLoadNext(c) \/ DequeueCopy(c)
           \/ DequeueAdvanceHeadFails(c) \/ DequeueLoadTop(c) \/ DequeuePushFreeFails(c)
  BY <1>2, DequeueLocalOK
<1>3. CASE DequeueAdvanceHead(c)
  BY <1>3, DequeueAdvanceHeadOK
<1>4. CASE DequeueLinkFree(c)
  BY <1>4, DequeueLinkFreeOK
<1>5. CASE DequeuePushFree(c)
  BY <1>5, DequeuePushFreeOK
<1>6. QED
  BY <1>1, <1>2, <1>3, <1>4, <1>5 DEF Dequeue

LEMMA NextIInv ==
  ASSUME Disciplined, IInv, [Next]_vars
  PROVE  IInv'
<1>1. TypeOK /\ Discipline
  BY DEF IInv
<1>2. PICK live, free : QInv(live, free)
  BY DEF IInv
<1>3. CASE Next
  <2>1. TypeOK'
    BY <1>1, <1>2, <1>3, TypeOKNext
  <2>2. Discipline' /\ \E live2, free2 : QInv(live2, free2)'
    <3>1. CASE \E p \in Producers : Enqueue(p)
      BY <1>1, <1>2, <3>1, EnqueueIInv
    <3>2. CASE \E c \in Consumers : Dequeue(c)
      BY <1>1, <1>2, <3>2, DequeueIInv
    <3>3. CASE Destroy
      BY <1>1, <1>2, <3>3, OtherStepOK DEF Destroy
    <3>4. QED
      BY <1>3, <3>1, <3>2, <3>3 DEF Next
  <2>3. QED
    BY <2>1, <2>2 DEF IInv
<1>4. CASE UNCHANGED vars
  <2>1. TypeOK'
    BY <1>1, <1>4 DEF TypeOK, vars, lists, enqVars, deqVars, history
  <2>2. Discipline' /\ QInv(live, free)'
    BY <1>1, <1>2, <1>4, OtherStepOK DEF vars
  <2>3. QED
    BY <2>1, <2>2 DEF IInv
<1>5. QED
  BY <1>3, <1>4

(* If callers keep to the discipline, the inductive invariant holds: the    *)
(* two lists are as described above, and what each thread read before it    *)
(* was delayed is still good enough for what it does next.                  *)
THEOREM Invariance == ASSUME Disciplined PROVE Spec => []IInv
<1>1. Init => IInv
  BY InitIInv
<1>2. IInv /\ [Next]_vars => IInv'
  BY NextIInv
<1>3. QED
  BY <1>1, <1>2, PTL DEF Spec

(* The variables keep their types under the discipline; a dequeue never     *)
(* hands out the content of a node that no enqueue filled.                  *)
THEOREM TypeCorrect == ASSUME Disciplined PROVE Spec => []TypeOK
<1>1. IInv => TypeOK
  BY DEF IInv
<1>2. QED
  BY <1>1, Invariance, PTL

-----------------------------------------------------------------------------
(* The queue is a FIFO.                                                     *)

\* A list has at most as many nodes as there are.
LEMMA ChainFits ==
  ASSUME NEW s, NEW start, Chain(s, start)
  PROVE  Len(s) <= POOL_SIZE + 1
<1>1. s \in Seq(Nodes) /\ Len(s) \in Nat /\ \A j, k \in 1..Len(s) : s[j] = s[k] => j = k
  BY ChainNodes DEF Chain
<1>2. s \in Injection(1..Len(s), Nodes)
  <2>1. s \in [1..Len(s) -> Nodes]
    BY <1>1
  <2>2. QED
    BY <1>1, <2>1 DEF Injection, IsInjective
<1>3. IsFiniteSet(Nodes) /\ Cardinality(Nodes) = POOL_SIZE + 1
  BY PoolNodes, FS_Interval
<1>4. Cardinality(1..Len(s)) = Len(s)
  <2>1. 1 \in Int /\ Len(s) \in Int
    BY <1>1
  <2>2. Cardinality(1..Len(s)) = IF 1 > Len(s) THEN 0 ELSE Len(s) - 1 + 1
    BY <2>1, FS_Interval
  <2>3. QED
    BY <1>1, <2>2
<1>5. QED
  BY <1>2, <1>3, <1>4, FS_Injection

(* Under the discipline the queue is a FIFO of POOL_SIZE messages: a        *)
(* compare-and-swap never succeeds on a node that was recycled in between.  *)
THEOREM ImplementsFifo == ASSUME Disciplined PROVE Spec => FifoSpec
<1>1. Init => Fifo!Init
  BY DEF Init, Fifo!Init
<1>2. \A s, start : Chain(s, start) => Len(s) <= POOL_SIZE + 1 /\ Len(s) \in Nat
  BY ChainFits, ChainNodes
<1>3. (\A s, start : Chain(s, start) => Len(s) <= POOL_SIZE + 1 /\ Len(s) \in Nat)'
  BY <1>2, PTL
<1>4. IInv /\ IInv' /\ [Next]_vars => [Fifo!Next]_(Fifo!vars)
  <2>1. SUFFICES ASSUME IInv, IInv', [Next]_vars PROVE [Fifo!Next]_(Fifo!vars)
    OBVIOUS
  <2>2. TypeOK /\ Discipline
    BY <2>1 DEF IInv
  <2>3. PICK live, free : QInv(live, free)
    BY <2>1 DEF IInv
  <2>4. ASSUME NEW p \in Producers, EnqueueLink(p) PROVE Fifo!Next
    <3>1. PICK live2, free2 : QInv(live2, free2)'
      BY <2>1 DEF IInv
    <3>2. Len(live2) - 1 <= POOL_SIZE /\ Len(live2) \in Nat
      <4>1. PICK h : h = head'
        OBVIOUS
      <4>2. Chain(live2, h)'
        BY <3>1, <4>1 DEF QInv, Lists
      <4>3. QED
        BY <1>3, <4>2, PoolNodes
    <3>3. Len(accepted') = Len(delivered') + Len(live2) - 1
      BY <3>1 DEF QInv, Contents
    <3>4. val[p] \in Values
      BY <2>3, <2>4 DEF QInv, ProducerInv, EnqueueLink
    <3>5. Len(accepted) \in Nat /\ Len(delivered) \in Nat
          /\ accepted' = Append(accepted, val[p]) /\ delivered' = delivered
          /\ Len(accepted') = Len(accepted) + 1
      BY <2>2, <2>4, <3>4 DEF TypeOK, EnqueueLink
    <3>6. Fifo!Put(val[p])
      BY <3>2, <3>3, <3>5, PoolNodes DEF Fifo!Put
    <3>7. QED
      BY <3>4, <3>6 DEF Fifo!Next
  <2>5. ASSUME NEW c \in Consumers, DequeueAdvanceHead(c) PROVE Fifo!Next
    <3>1. Len(delivered) < Len(accepted) /\ delivered' = Append(delivered, accepted[Len(delivered) + 1])
      BY <2>2, <2>3, <2>5, DequeueAdvanceHeadOK
    <3>2. accepted' = accepted
      BY <2>5 DEF DequeueAdvanceHead
    <3>3. QED
      BY <3>1, <3>2 DEF Fifo!Next, Fifo!Take
  <2>6. ASSUME NEW p \in Producers, Enqueue(p), ~EnqueueLink(p) PROVE UNCHANGED history
    BY <2>6 DEF Enqueue, EnqueueTry, EnqueueTooLong, EnqueueCall, EnqueueNoNode, EnqueueLoadFree,
         EnqueueLoadNextFree, EnqueuePopFree, EnqueuePopFreeFails, EnqueueFill, EnqueueClearNext,
         EnqueueLoadTail, EnqueueLinkFails, EnqueueStoreTail, vars
  <2>7. ASSUME NEW c \in Consumers, Dequeue(c), ~DequeueAdvanceHead(c) PROVE UNCHANGED history
    BY <2>7 DEF Dequeue, DequeueLoadHead, DequeueEmpty, DequeueLoadNext, DequeueCopy, history,
         DequeueAdvanceHeadFails, DequeueLoadTop, DequeueLinkFree, DequeuePushFree,
         DequeuePushFreeFails
  <2>8. CASE Destroy \/ UNCHANGED vars
    BY <2>8 DEF Destroy, vars, history, Fifo!vars
  <2>9. UNCHANGED history => UNCHANGED Fifo!vars
    BY DEF history, Fifo!vars
  <2>10. QED
    BY <2>1, <2>4, <2>5, <2>6, <2>7, <2>8, <2>9 DEF Next
<1>5. QED
  BY <1>1, <1>4, Invariance, PTL DEF Spec, FifoSpec, Fifo!Spec

-----------------------------------------------------------------------------
(* Every node is on one of the lists or in the hands of one thread.         *)

WalkIs(start, w) ==
  w = [k \in 0..(POOL_SIZE + 1) |->
         IF k = 0 THEN start ELSE IF w[k - 1] = Null THEN Null ELSE next[w[k - 1]]]

\* Walk goes through the nodes of a list, and then stays at Null.
LEMMA WalkFollows ==
  ASSUME NEW s, NEW start, Chain(s, start)
  PROVE  \A k \in 0..(POOL_SIZE + 1) : Walk(start)[k] = IF k < Len(s) THEN s[k + 1] ELSE Null
<1>1. Walk(start) = CHOOSE w : WalkIs(start, w)
  BY DEF Walk, WalkIs
<1>2. s \in Seq(Nodes) /\ Len(s) \in Nat
  BY ChainNodes
<1>3. PICK w0 : w0 = [k \in 0..(POOL_SIZE + 1) |-> IF k < Len(s) THEN s[k + 1] ELSE Null]
  OBVIOUS
<1>4. WalkIs(start, w0)
  <2>1. ASSUME NEW k \in 0..(POOL_SIZE + 1)
        PROVE  w0[k] = IF k = 0 THEN start
                       ELSE IF w0[k - 1] = Null THEN Null ELSE next[w0[k - 1]]
    <3>1. CASE k = 0
      BY <1>2, <1>3, <3>1, PoolNodes DEF Chain
    <3>2. CASE k # 0 /\ k < Len(s)
      <4>1. w0[k] = s[k + 1] /\ w0[k - 1] = s[k]
        BY <1>2, <1>3, <3>2, PoolNodes
      <4>2. s[k] \in Nodes /\ next[s[k]] = s[k + 1]
        BY <1>2, <3>2 DEF Chain
      <4>3. QED
        BY <3>2, <4>1, <4>2, PoolNodes
    <3>3. CASE k # 0 /\ k = Len(s)
      <4>1. w0[k] = Null /\ w0[k - 1] = s[Len(s)]
        BY <1>2, <1>3, <3>3, PoolNodes
      <4>2. s[Len(s)] \in Nodes /\ next[s[Len(s)]] = Null
        BY <1>2, <3>3 DEF Chain
      <4>3. QED
        BY <3>3, <4>1, <4>2, PoolNodes
    <3>4. CASE k # 0 /\ k > Len(s)
      BY <1>2, <1>3, <3>4, PoolNodes
    <3>5. QED
      BY <1>2, <3>1, <3>2, <3>3, <3>4
  <2>2. w0 = [k \in 0..(POOL_SIZE + 1) |-> w0[k]]
    BY <1>3
  <2>3. QED
    BY <2>1, <2>2 DEF WalkIs
<1>5. WalkIs(start, Walk(start))
  BY <1>1, <1>4
<1>6. PICK w : w = Walk(start)
  OBVIOUS
<1>7. \A k \in 0..(POOL_SIZE + 1) :
        w[k] = IF k = 0 THEN start ELSE IF w[k - 1] = Null THEN Null ELSE next[w[k - 1]]
  BY <1>5, <1>6 DEF WalkIs
<1>8. \A k \in 0..(POOL_SIZE + 1) :
        w0[k] = IF k = 0 THEN start ELSE IF w0[k - 1] = Null THEN Null ELSE next[w0[k - 1]]
  BY <1>4 DEF WalkIs
<1>9. PICK G : G = {k \in Nat : k <= POOL_SIZE + 1 => w[k] = w0[k]}
  OBVIOUS
<1>10. 0 \in G
  <2>1. 0 \in 0..(POOL_SIZE + 1)
    BY PoolNodes
  <2>2. w[0] = w0[0]
    BY <1>7, <1>8, <2>1
  <2>3. QED
    BY <1>9, <2>2
<1>11. ASSUME NEW k \in Nat, k \in G PROVE k + 1 \in G
  <2>1. ASSUME k + 1 <= POOL_SIZE + 1 PROVE w[k + 1] = w0[k + 1]
    <3>1. w[k] = w0[k] /\ k + 1 \in 0..(POOL_SIZE + 1) /\ k + 1 # 0 /\ (k + 1) - 1 = k
      BY <1>9, <1>11, <2>1, PoolNodes
    <3>2. w[k + 1] = IF w[(k + 1) - 1] = Null THEN Null ELSE next[w[(k + 1) - 1]]
      BY <1>7, <3>1
    <3>3. w0[k + 1] = IF w0[(k + 1) - 1] = Null THEN Null ELSE next[w0[(k + 1) - 1]]
      BY <1>8, <3>1
    <3>4. QED
      BY <3>1, <3>2, <3>3
  <2>2. QED
    BY <1>9, <2>1
<1>12. \A k \in Nat : k \in G
  BY <1>10, <1>11, NatSetInduction
<1>13. \A k \in 0..(POOL_SIZE + 1) : w[k] = w0[k]
  BY <1>9, <1>12, PoolNodes
<1>14. \A k \in 0..(POOL_SIZE + 1) : w0[k] = IF k < Len(s) THEN s[k + 1] ELSE Null
  BY <1>3
<1>15. QED
  BY <1>6, <1>13, <1>14

LEMMA ReachedNodes ==
  ASSUME NEW s, NEW start, Chain(s, start)
  PROVE  Acyclic(start) /\ Reached(start) = {s[k] : k \in 1..Len(s)}
<1>1. s \in Seq(Nodes) /\ Len(s) \in Nat /\ Len(s) <= POOL_SIZE + 1
  BY ChainNodes, ChainFits
<1>2. PICK w : w = Walk(start)
  OBVIOUS
<1>3. \A k \in 0..(POOL_SIZE + 1) : w[k] = IF k < Len(s) THEN s[k + 1] ELSE Null
  BY <1>2, WalkFollows
<1>4. Acyclic(start)
  BY <1>1, <1>2, <1>3, PoolNodes DEF Acyclic
<1>5. ASSUME NEW k \in 0..POOL_SIZE, w[k] # Null PROVE \E j \in 1..Len(s) : w[k] = s[j]
  <2>1. k < Len(s) /\ w[k] = s[k + 1] /\ k + 1 \in 1..Len(s)
    BY <1>1, <1>3, <1>5, PoolNodes
  <2>2. QED
    BY <2>1
<1>6. ASSUME NEW j \in 1..Len(s) PROVE \E k \in 0..POOL_SIZE : w[k] = s[j] /\ w[k] # Null
  <2>1. j - 1 \in 0..POOL_SIZE /\ j - 1 < Len(s) /\ (j - 1) + 1 = j
    BY <1>1, PoolNodes
  <2>2. w[j - 1] = s[j] /\ s[j] \in Nodes
    BY <1>1, <1>3, <2>1, PoolNodes
  <2>3. QED
    BY <2>1, <2>2, PoolNodes
<1>7. Reached(start) = {w[k] : k \in 0..POOL_SIZE} \ {Null}
  BY <1>2 DEF Reached
<1>8. QED
  BY <1>4, <1>5, <1>6, <1>7

\* As many values as arguments, if no two arguments have the same value.
LEMMA ImageCardinality ==
  ASSUME NEW S, NEW T, IsFiniteSet(T), NEW f, \A x \in S : f[x] \in T,
         \A x, y \in S : f[x] = f[y] => x = y
  PROVE  LET I == {f[x] : x \in S}
         IN  IsFiniteSet(I) /\ IsFiniteSet(S) /\ Cardinality(I) = Cardinality(S)
<1> DEFINE I == {f[x] : x \in S}
           g == [x \in S |-> f[x]]
<1>1. IsFiniteSet(I)
  <2>1. I \in SUBSET T
    OBVIOUS
  <2>2. QED
    BY <2>1, FS_Subset
<1>2. g \in Injection(S, I)
  BY DEF Injection, IsInjective
<1>3. g \in Surjection(S, I)
  BY DEF Surjection
<1>4. IsFiniteSet(S) /\ Cardinality(S) = Cardinality(I)
  <2> HIDE DEF g, I
  <2>1. QED
    BY <1>1, <1>2, <1>3, FS_Injection
<1>5. QED
  BY <1>1, <1>4

\* The size of a set that is divided in two.
LEMMA DisjointCardinality ==
  ASSUME NEW S, IsFiniteSet(S), NEW T, IsFiniteSet(T), S \cap T = {}
  PROVE  /\ IsFiniteSet(S \cup T)
         /\ Cardinality(S \cup T) = Cardinality(S) + Cardinality(T)
         /\ Cardinality(S) \in Nat /\ Cardinality(T) \in Nat
<1>1. Cardinality(S \cap T) = 0
  BY FS_EmptySet
<1>2. Cardinality(S) \in Nat /\ Cardinality(T) \in Nat
  BY FS_CardinalityType
<1>3. /\ IsFiniteSet(S \cup T)
      /\ Cardinality(S \cup T) = Cardinality(S) + Cardinality(T) - Cardinality(S \cap T)
  BY FS_Union
<1>4. QED
  BY <1>1, <1>2, <1>3

LEMMA ListsPartition ==
  ASSUME NEW live, NEW free, QInv(live, free), Discipline
  PROVE  NodesPartitioned
<1> DEFINE L == {live[k] : k \in 1..Len(live)}
           F == {free[k] : k \in 1..Len(free)}
           P == {new_node[p] : p \in Filling}
           C == {first[c] : c \in Freeing}
<1>1. Chain(live, head) /\ Chain(free, free_list) /\ \A n \in Nodes : ~(On(n, live) /\ On(n, free))
  BY DEF QInv, Lists
<1>2. /\ live \in Seq(Nodes) /\ Len(live) \in Nat /\ \A j, k \in 1..Len(live) : live[j] = live[k] => j = k
      /\ free \in Seq(Nodes) /\ Len(free) \in Nat /\ \A j, k \in 1..Len(free) : free[j] = free[k] => j = k
  BY <1>1, ChainNodes DEF Chain
<1>3. /\ Acyclic(head) /\ Reached(head) = L
      /\ Acyclic(free_list) /\ Reached(free_list) = F
  BY <1>1, ReachedNodes
<1>4. \A n : (n \in L <=> On(n, live)) /\ (n \in F <=> On(n, free))
  BY DEF On
<1>5. IsFiniteSet(Nodes)
  BY PoolNodes, FS_Interval
<1>6. IsFiniteSet(L) /\ IsFiniteSet(F)
  <2>1. L \in SUBSET Nodes /\ F \in SUBSET Nodes
    BY <1>2
  <2>2. QED
    BY <1>5, <2>1, FS_Subset
<1>7. \A p \in Filling : /\ new_node[p] \in Nodes /\ new_node[p] \notin L /\ new_node[p] \notin F
                         /\ new_node[p] \notin C
  BY <1>4 DEF QInv, ProducerInv, Filling
<1>8. \A c \in Freeing : first[c] \in Nodes /\ first[c] \notin L /\ first[c] \notin F
  BY <1>4 DEF QInv, ConsumerInv, Freeing
<1>9. IsFiniteSet(P) /\ Cardinality(P) = Cardinality(Filling)
  <2>1. \A p, q \in Filling : new_node[p] = new_node[q] => p = q
    BY DEF Discipline, Filling
  <2>2. \A p \in Filling : new_node[p] \in Nodes
    BY <1>7
  <2>3. QED
    BY <1>5, <2>1, <2>2, ImageCardinality
<1>10. IsFiniteSet(C) /\ Cardinality(C) = Cardinality(Freeing)
  <2>1. \A c, d \in Freeing : first[c] = first[d] => c = d
    BY DEF QInv, ConsumerInv, Freeing
  <2>2. QED
    BY <1>5, <1>8, <2>1, ImageCardinality
<1>11. L \cup F \cup (P \cup C) = Nodes
  <2>1. L \subseteq Nodes /\ F \subseteq Nodes
    BY <1>2
  <2>2. P \subseteq Nodes /\ C \subseteq Nodes
    BY <1>7, <1>8
  <2>3. ASSUME NEW n \in Nodes PROVE n \in L \cup F \cup (P \cup C)
    <3>1. \/ On(n, live) \/ On(n, free)
          \/ \E p \in Filling : n = new_node[p]
          \/ \E c \in Freeing : n = first[c]
      BY DEF QInv, Complete
    <3>2. QED
      BY <1>4, <3>1
  <2>4. QED
    BY <2>1, <2>2, <2>3
<1>12. L \cap F = {} /\ (L \cup F) \cap (P \cup C) = {} /\ P \cap C = {}
  <2>1. L \cap F = {}
    BY <1>1, <1>4, <1>11
  <2>2. QED
    BY <1>7, <1>8, <2>1
<1>13. Held = P \cup C
  BY DEF Held
<1> HIDE DEF L, F, P, C
<1>14. /\ Cardinality(L \cup F) = Cardinality(L) + Cardinality(F) /\ IsFiniteSet(L \cup F)
       /\ Cardinality(L) \in Nat /\ Cardinality(F) \in Nat
  BY <1>6, <1>12, DisjointCardinality
<1>15. /\ Cardinality(P \cup C) = Cardinality(P) + Cardinality(C) /\ IsFiniteSet(P \cup C)
       /\ Cardinality(P) \in Nat /\ Cardinality(C) \in Nat
  BY <1>9, <1>10, <1>12, DisjointCardinality
<1>16. Cardinality(L \cup F \cup (P \cup C)) = Cardinality(L \cup F) + Cardinality(P \cup C)
  BY <1>12, <1>14, <1>15, DisjointCardinality
<1>17. Cardinality(L) + Cardinality(F) + Cardinality(Filling) + Cardinality(Freeing)
         = Cardinality(Nodes)
  <2>1. Cardinality(L \cup F \cup (P \cup C)) = Cardinality(Nodes)
    BY <1>11
  <2>2. Cardinality(Nodes) = Cardinality(L) + Cardinality(F) + (Cardinality(P) + Cardinality(C))
    BY <1>14, <1>15, <1>16, <2>1
  <2>3. QED
    BY <1>9, <1>10, <1>14, <1>15, <2>2
<1>18. QED
  BY <1>3, <1>11, <1>13, <1>17 DEF NodesPartitioned

(* Under the discipline no node is lost, shared or linked twice: each is    *)
(* reached from head, or from free_list, or is in the hands of one thread   *)
(* between the lists; and neither list has a cycle.                         *)
THEOREM NodesArePartitioned == ASSUME Disciplined PROVE Spec => []NodesPartitioned
<1>1. IInv => NodesPartitioned
  BY ListsPartition DEF IInv
<1>2. QED
  BY <1>1, Invariance, PTL
=============================================================================
