--------------------------------- MODULE Queues --------------------------------
(***************************************************************************)
(* SliceQueue and ChannelQueue of algo/queue.go, and DequeList of          *)
(* algo/deque_list.go.  The slice queue holds a mutex in every method.     *)
(* The channel queue has the channel only: its Peek takes the front        *)
(* element out and puts it back at the end, or leaves this to a goroutine  *)
(* if the channel has become full.  The deque is a list of nodes that are  *)
(* linked both ways.                                                       *)
(*                                                                         *)
(* Elements are numbered in the order in which they are pushed.            *)
(***************************************************************************)
EXTENDS Integers, Sequences, FiniteSets, SequencesExt

CONSTANTS
  QueueUsers,
  ChannelCapacity,
  MaxElements    (* bound: elements pushed                                  *)

ASSUME QueuesAssumption == ChannelCapacity \in Nat \ {0} /\ MaxElements \in Nat

NoElement == 0
ElementNumbers == 1 .. MaxElements

VARIABLES
  queueKind,     (* "slice", "channel" or "deque"                           *)
  queued,        (* the slice, or what is in the channel                    *)
  holds,         (* of each user, the element its Peek has taken out        *)
  putBack,       (* the elements that goroutines of Peek hold               *)
  dequeHead, dequeTail,   (* the deque: its ends, ...                       *)
  nextNode, prevNode,     (* ... the links of each node (its element), ...  *)
  dequeSize,     (* ... and d.size                                          *)
  pushed,        (* history: elements pushed                                *)
  taken,         (* history: elements popped, in order                      *)
  peeked,        (* history: Peek has taken an element out of the channel   *)
  deque          (* history: what the deque should hold                     *)

channelVars == <<queued, holds, putBack, taken, peeked>>
dequeVars == <<dequeHead, dequeTail, nextNode, prevNode, dequeSize, deque>>
queuesVars == <<queueKind, channelVars, dequeVars, pushed>>

QueuesInit ==
  /\ queueKind \in {"slice", "channel", "deque"}
  /\ queued = <<>> /\ holds = [u \in QueueUsers |-> NoElement] /\ putBack = {}
  /\ dequeHead = NoElement /\ dequeTail = NoElement /\ dequeSize = 0
  /\ nextNode = [n \in ElementNumbers |-> NoElement]
  /\ prevNode = [n \in ElementNumbers |-> NoElement]
  /\ pushed = 0 /\ taken = <<>> /\ peeked = FALSE /\ deque = <<>>

--------------------------------------------------------------------------------
(* SliceQueue and ChannelQueue.  Push waits for room in the channel;       *)
(* TryPush gives up without it.                                            *)
HasRoom == queueKind = "slice" \/ Len(queued) < ChannelCapacity

PushElement(u) ==
  /\ queueKind # "deque" /\ holds[u] = NoElement
  /\ pushed < MaxElements /\ HasRoom
  /\ pushed' = pushed + 1
  /\ queued' = Append(queued, pushed')
  /\ UNCHANGED <<queueKind, holds, putBack, taken, peeked, dequeVars>>

(* Pop, BlockingPop and each step of Range.                                *)
PopElement(u) ==
  /\ holds[u] = NoElement /\ queued # <<>>
  /\ taken' = Append(taken, Head(queued))
  /\ queued' = Tail(queued)
  /\ UNCHANGED <<queueKind, holds, putBack, peeked, dequeVars, pushed>>

(* Peek of the channel queue.  (That of the slice queue changes nothing.)  *)
PeekTakes(u) ==
  /\ queueKind = "channel" /\ holds[u] = NoElement /\ queued # <<>>
  /\ holds' = [holds EXCEPT ![u] = Head(queued)]
  /\ queued' = Tail(queued) /\ peeked' = TRUE
  /\ UNCHANGED <<queueKind, putBack, taken, dequeVars, pushed>>

(* Mutant of PeekPutsBack: an element for which there is no room is lost. *)
PeekPutsBackIfRoom(u) ==
  /\ holds[u] # NoElement
  /\ holds' = [holds EXCEPT ![u] = NoElement]
  /\ queued' = IF HasRoom THEN Append(queued, holds[u]) ELSE queued
  /\ UNCHANGED <<queueKind, putBack, taken, peeked, dequeVars, pushed>>

PeekPutsBack(u) ==
  /\ holds[u] # NoElement
  /\ holds' = [holds EXCEPT ![u] = NoElement]
  /\ IF HasRoom THEN queued' = Append(queued, holds[u]) /\ UNCHANGED putBack
                ELSE putBack' = putBack \cup {holds[u]} /\ UNCHANGED queued
  /\ UNCHANGED <<queueKind, taken, peeked, dequeVars, pushed>>

GoroutinePutsBack(e) ==
  /\ e \in putBack /\ HasRoom
  /\ queued' = Append(queued, e) /\ putBack' = putBack \ {e}
  /\ UNCHANGED <<queueKind, holds, taken, peeked, dequeVars, pushed>>

--------------------------------------------------------------------------------
(* DequeList.                                                              *)
PushBack ==
  LET n == pushed + 1
  IN  /\ queueKind = "deque" /\ pushed < MaxElements
      /\ pushed' = n
      /\ prevNode' = [prevNode EXCEPT ![n] = dequeTail]
      /\ nextNode' = IF dequeSize = 0 THEN nextNode ELSE [nextNode EXCEPT ![dequeTail] = n]
      /\ dequeHead' = IF dequeSize = 0 THEN n ELSE dequeHead
      /\ dequeTail' = n /\ dequeSize' = dequeSize + 1 /\ deque' = Append(deque, n)
      /\ UNCHANGED <<queueKind, channelVars>>

PushFront ==
  LET n == pushed + 1
  IN  /\ queueKind = "deque" /\ pushed < MaxElements
      /\ pushed' = n
      /\ nextNode' = [nextNode EXCEPT ![n] = dequeHead]
      /\ prevNode' = IF dequeSize = 0 THEN prevNode ELSE [prevNode EXCEPT ![dequeHead] = n]
      /\ dequeTail' = IF dequeSize = 0 THEN n ELSE dequeTail
      /\ dequeHead' = n /\ dequeSize' = dequeSize + 1 /\ deque' = <<n>> \o deque
      /\ UNCHANGED <<queueKind, channelVars>>

PopBack ==
  LET last == prevNode[dequeTail]
  IN  /\ dequeSize > 0
      /\ dequeHead' = IF dequeHead = dequeTail THEN NoElement ELSE dequeHead
      /\ dequeTail' = IF dequeHead = dequeTail THEN NoElement ELSE last
      /\ nextNode' = IF dequeHead = dequeTail THEN nextNode ELSE [nextNode EXCEPT ![last] = NoElement]
      /\ dequeSize' = dequeSize - 1 /\ deque' = Front(deque)
      /\ UNCHANGED <<queueKind, channelVars, prevNode, pushed>>

PopFront ==
  LET first == nextNode[dequeHead]
  IN  /\ dequeSize > 0
      /\ dequeTail' = IF dequeHead = dequeTail THEN NoElement ELSE dequeTail
      /\ dequeHead' = IF dequeHead = dequeTail THEN NoElement ELSE first
      /\ prevNode' = IF dequeHead = dequeTail THEN prevNode ELSE [prevNode EXCEPT ![first] = NoElement]
      /\ dequeSize' = dequeSize - 1 /\ deque' = Tail(deque)
      /\ UNCHANGED <<queueKind, channelVars, nextNode, pushed>>

ClearDeque ==
  /\ queueKind = "deque"
  /\ dequeHead' = NoElement /\ dequeTail' = NoElement /\ dequeSize' = 0 /\ deque' = <<>>
  /\ UNCHANGED <<queueKind, channelVars, nextNode, prevNode, pushed>>

QueuesNext ==
  \/ \E u \in QueueUsers :
       PushElement(u) \/ PopElement(u) \/ PeekTakes(u) \/ PeekPutsBack(u)
  \/ \E e \in putBack : GoroutinePutsBack(e)
  \/ PushBack \/ PushFront \/ PopBack \/ PopFront \/ ClearDeque

--------------------------------------------------------------------------------
(* The nodes from n on along the links.                                    *)
Along(links, n) ==
  LET walk[steps \in 0 .. MaxElements + 1] ==
        [m \in 0 .. MaxElements |-> IF m = NoElement \/ steps = 0 THEN <<>>
                                    ELSE <<m>> \o walk[steps - 1][links[m]]]
  IN  walk[MaxElements + 1][n]

(* Whoever pushes, pops and peeks at the same time, each element pushed is *)
(* in one place: queued, popped, or in the hands of a Peek; and as long as *)
(* no Peek has taken one out, elements leave in the order in which they    *)
(* came.  Both ways along its links the deque holds what was pushed to     *)
(* either end and not popped.                                              *)
QueuesHold ==
  LET held == ({holds[u] : u \in QueueUsers} \ {NoElement}) \cup putBack
      through == taken \o queued
  IN  /\ queueKind # "deque" =>
           /\ ToSet(through) \cup held = 1 .. pushed
           /\ Len(through) + Cardinality(held) = pushed
           /\ queueKind = "channel" => Len(queued) <= ChannelCapacity
           /\ ~peeked => \A i \in DOMAIN through : through[i] = i
      /\ Along(nextNode, dequeHead) = deque /\ Along(prevNode, dequeTail) = Reverse(deque)
      /\ dequeSize = Len(deque)
================================================================================
