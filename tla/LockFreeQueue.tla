----------------------------- MODULE LockFreeQueue -----------------------------
(***************************************************************************)
(* LockFreeQueue of algo/queue.go: a linked list with a sentinel in front, *)
(* changed by compare-and-swap only.  Push links a node behind the last    *)
(* one and swings the tail to it afterwards, so that the tail may lag, and *)
(* whoever sees that swings it.                                            *)
(*                                                                         *)
(* Every atomic load, compare-and-swap and addition is a step.  Nodes are  *)
(* numbered in the order of the calls of Push that allocate them, and are  *)
(* the values they hold.                                                   *)
(***************************************************************************)
EXTENDS Integers, Sequences

CONSTANTS
  Threads,
  MaxPushes,   (* bound: calls of Push                                      *)
  MaxPops      (* bound: calls of Pop                                       *)

ASSUME LockFreeQueueAssumption == MaxPushes \in Nat /\ MaxPops \in Nat

Nil == 0
Sentinel == MaxPushes + 1
Nodes == 1 .. MaxPushes + 1

VARIABLES
  head, tail, count,
  next,               (* of each node                                       *)
  thread,             (* of each thread: at, and its local head, tail, next *)
                      (* and the node it pushes                             *)
  pushes, pops,       (* history: calls of Push and Pop                     *)
  linked, popped,     (* history: values in the order of their CAS          *)
  emptySeen,          (* history: of each thread, the queue was empty at    *)
                      (* some moment of its call of Pop                     *)
  lied                (* history: a Pop answered ErrQueueEmpty in vain      *)

queueVars == <<head, tail, count, next, thread, pushes, pops, linked, popped,
               emptySeen, lied>>
historyVars == <<pushes, pops, linked, popped, emptySeen, lied>>

Idle == [at |-> "idle", node |-> Nil, head |-> Nil, tail |-> Nil, next |-> Nil]

QueueInit ==
  /\ head = Sentinel /\ tail = Sentinel /\ count = 0
  /\ next = [n \in Nodes |-> Nil]
  /\ thread = [t \in Threads |-> Idle]
  /\ pushes = 0 /\ pops = 0 /\ linked = <<>> /\ popped = <<>>
  /\ emptySeen = [t \in Threads |-> FALSE] /\ lied = FALSE

Goto(t, from, to) == thread[t].at = from /\ thread' = [thread EXCEPT ![t].at = to]
Load(t, from, loaded) ==
  /\ thread[t].at = from
  /\ thread' = [thread EXCEPT ![t] = loaded]
  /\ UNCHANGED <<head, tail, count, next, historyVars>>

(* q.tail.CompareAndSwap(old, new).                                        *)
SwingTail(old, new) == tail' = IF tail = old THEN new ELSE tail

--------------------------------------------------------------------------------
StartPush(t) ==
  /\ thread[t].at = "idle" /\ pushes < MaxPushes
  /\ pushes' = pushes + 1
  /\ thread' = [thread EXCEPT ![t] = [Idle EXCEPT !.at = "push", !.node = pushes']]
  /\ UNCHANGED <<head, tail, count, next, pops, linked, popped, emptySeen, lied>>

PushLoadsTail(t) == Load(t, "push", [thread[t] EXCEPT !.at = "pushNext", !.tail = tail])
PushLoadsNext(t) ==
  Load(t, "pushNext", [thread[t] EXCEPT !.at = "pushCheck", !.next = next[thread[t].tail]])

PushChecks(t) ==
  /\ Goto(t, "pushCheck", IF thread[t].tail # tail THEN "push"
                           ELSE IF thread[t].next = Nil THEN "link" ELSE "pushHelps")
  /\ UNCHANGED <<head, tail, count, next, historyVars>>

(* Mutant of PushLinks: a store where there is a compare-and-swap. *)
PushLinksStore(t) ==
  /\ Goto(t, "link", "swing")
  /\ next' = [next EXCEPT ![thread[t].tail] = thread[t].node]
  /\ linked' = Append(linked, thread[t].node)
  /\ UNCHANGED <<head, tail, count, pushes, pops, popped, emptySeen, lied>>

PushLinks(t) ==
  \/ /\ Goto(t, "link", "swing")
     /\ next[thread[t].tail] = Nil
     /\ next' = [next EXCEPT ![thread[t].tail] = thread[t].node]
     /\ linked' = Append(linked, thread[t].node)
     /\ UNCHANGED <<head, tail, count, pushes, pops, popped, emptySeen, lied>>
  \/ /\ Goto(t, "link", "push")
     /\ next[thread[t].tail] # Nil
     /\ UNCHANGED <<head, tail, count, next, historyVars>>

PushSwings(t) ==
  /\ Goto(t, "swing", "pushCount")
  /\ SwingTail(thread[t].tail, thread[t].node)
  /\ UNCHANGED <<head, count, next, historyVars>>

PushCounts(t) ==
  /\ thread[t].at = "pushCount"
  /\ count' = count + 1
  /\ thread' = [thread EXCEPT ![t] = Idle]
  /\ UNCHANGED <<head, tail, next, historyVars>>

Helps(t) ==
  /\ \/ Goto(t, "pushHelps", "push")
     \/ Goto(t, "popHelps", "pop")
  /\ SwingTail(thread[t].tail, thread[t].next)
  /\ UNCHANGED <<head, count, next, historyVars>>

--------------------------------------------------------------------------------
StartPop(t) ==
  /\ thread[t].at = "idle" /\ pops < MaxPops
  /\ pops' = pops + 1
  /\ thread' = [thread EXCEPT ![t] = [Idle EXCEPT !.at = "pop"]]
  /\ emptySeen' = [emptySeen EXCEPT ![t] = Len(linked) = Len(popped)]
  /\ UNCHANGED <<head, tail, count, next, pushes, linked, popped, lied>>

PopLoadsHead(t) == Load(t, "pop", [thread[t] EXCEPT !.at = "popTail", !.head = head])
PopLoadsTail(t) == Load(t, "popTail", [thread[t] EXCEPT !.at = "popNext", !.tail = tail])
PopLoadsNext(t) ==
  Load(t, "popNext", [thread[t] EXCEPT !.at = "popCheck", !.next = next[thread[t].head]])

(* Mutant of PopAnswersEmpty: a lagging tail is taken for an empty queue. *)
PopAnswersEmptyEarly(t) ==
  /\ thread[t].at = "popCheck"
  /\ thread[t].head = head /\ thread[t].head = thread[t].tail
  /\ thread' = [thread EXCEPT ![t] = Idle]
  /\ lied' = (lied \/ ~emptySeen[t])
  /\ UNCHANGED <<head, tail, count, next, pushes, pops, linked, popped, emptySeen>>

PopAnswersEmpty(t) ==
  /\ thread[t].at = "popCheck"
  /\ thread[t].head = head /\ thread[t].head = thread[t].tail /\ thread[t].next = Nil
  /\ thread' = [thread EXCEPT ![t] = Idle]
  /\ lied' = (lied \/ ~emptySeen[t])
  /\ UNCHANGED <<head, tail, count, next, pushes, pops, linked, popped, emptySeen>>

PopChecks(t) ==
  /\ thread[t].head # head \/ thread[t].head # thread[t].tail \/ thread[t].next # Nil
  /\ Goto(t, "popCheck", IF thread[t].head # head THEN "pop"
                          ELSE IF thread[t].head = thread[t].tail THEN "popHelps"
                          ELSE "take")
  /\ UNCHANGED <<head, tail, count, next, historyVars>>

PopTakes(t) ==
  \/ /\ Goto(t, "take", "popCount")
     /\ head = thread[t].head
     /\ head' = thread[t].next
     /\ popped' = Append(popped, thread[t].next)
     /\ emptySeen' = [u \in Threads |-> emptySeen[u] \/ Len(linked) = Len(popped')]
     /\ UNCHANGED <<tail, count, next, pushes, pops, linked, lied>>
  \/ /\ Goto(t, "take", "pop")
     /\ head # thread[t].head
     /\ UNCHANGED <<head, tail, count, next, historyVars>>

PopCounts(t) ==
  /\ thread[t].at = "popCount"
  /\ count' = count - 1
  /\ thread' = [thread EXCEPT ![t] = Idle]
  /\ UNCHANGED <<head, tail, next, historyVars>>

QueueNext ==
  \E t \in Threads :
    \/ StartPush(t) \/ PushLoadsTail(t) \/ PushLoadsNext(t) \/ PushChecks(t)
    \/ PushLinks(t) \/ PushSwings(t) \/ PushCounts(t) \/ Helps(t)
    \/ StartPop(t) \/ PopLoadsHead(t) \/ PopLoadsTail(t) \/ PopLoadsNext(t)
    \/ PopAnswersEmpty(t) \/ PopChecks(t) \/ PopTakes(t) \/ PopCounts(t)

QueueSpec == QueueInit /\ [][QueueNext]_queueVars

--------------------------------------------------------------------------------
(* The compare-and-swaps that link and take nodes act like the operations  *)
(* of a queue: every value that is linked is taken once, in that order.    *)
FIFO == INSTANCE BoundedFIFO WITH Messages <- Nodes, Capacity <- MaxPushes,
                                  sent <- linked, taken <- popped
QueueIsFIFO == FIFO!Init /\ [][FIFO!Next]_<<linked, popped>>

(* Pop says the queue is empty only if it was, at some moment of the call, *)
(* however the tail lags; and when no call is under way, Size is exact.    *)
AnswersTruthful ==
  /\ ~lied
  /\ (\A t \in Threads : thread[t].at = "idle") => count = Len(linked) - Len(popped)
================================================================================
