------------------------------ MODULE Queues_proofs -----------------------------
(***************************************************************************)
(* Proofs about Queues and LockFreeQueue, for any number of users, threads,*)
(* elements and calls.                                                     *)
(*                                                                         *)
(* Queues: each element is in one place (ChannelInv), and the nodes of the *)
(* deque are linked both ways in its order (DequeInv), so that the walks   *)
(* along the links, which are recursive functions, find all of them.       *)
(*                                                                         *)
(* LockFreeQueue:                                                          *)
(* The nodes linked so far, behind the sentinel, are a chain.  Everything  *)
(* a thread has loaded is at some position of it, and the chain only grows *)
(* at its end; so it is enough to say for each point of Push and Pop how   *)
(* the positions of what was loaded compare with those of head and tail,   *)
(* which only move forward.  The tail is one node behind at most, as only  *)
(* the last node has no next one to compare with.                          *)
(***************************************************************************)
EXTENDS LockFreeQueue, Queues, SequenceTheorems, FiniteSetTheorems, WellFoundedInduction,
        TLAPS

--------------------------------------------------------------------------------
(* Lists and induction.                                                    *)

Holds(s, k) == \E i \in DOMAIN s : s[i] = k
Distinct(s) == \A i, j \in DOMAIN s : s[i] = s[j] => i = j

(* The natural numbers are well founded, which makes induction over them a *)
(* fact about sets.                                                        *)
LEMMA Least ==
  ASSUME NEW S, S \subseteq Nat, S # {}
  PROVE  \E m \in S : \A k \in S : m <= k
<1>1. IsWellFoundedOn(OpToRel(<, Nat), Nat)
  BY NatLessThanWellFounded
<1>2. PICK m \in S : \A k \in S : ~(<<k, m>> \in OpToRel(<, Nat))
  BY <1>1, WFMin
<1>3. \A k \in S : <<k, m>> \in OpToRel(<, Nat) <=> k < m
  BY DEF OpToRel
<1>4. \A k \in S : ~(k < m)
  BY <1>2, <1>3
<1>5. \A k \in Nat : ~(k < m) => m <= k
  OBVIOUS
<1> QED BY <1>4, <1>5

(* A set of numbers that holds 0 and with each number the next holds all.  *)
LEMMA Induction ==
  ASSUME NEW S, 0 \in S, \A n \in Nat : n \in S => n + 1 \in S
  PROVE  Nat \subseteq S
<1>1. SUFFICES ASSUME Nat \ S # {} PROVE FALSE
  OBVIOUS
<1>2. PICK m \in Nat \ S : \A k \in Nat \ S : m <= k
  BY <1>1, Least
<1>3. m # 0 /\ m - 1 \in Nat /\ m - 1 < m
  BY <1>2
<1>4. m - 1 \in S
  BY <1>2, <1>3
<1>5. (m - 1) + 1 = m
  BY <1>2
<1> QED BY <1>2, <1>3, <1>4, <1>5

--------------------------------------------------------------------------------
(* Queues.                                                                 *)

(* Who holds e, if it is not in the queue: a Peek or its goroutine.        *)
InHand(e) == e \in putBack \/ \E u \in QueueUsers : holds[u] = e

(* Every element is popped, queued or in one hand, and in one place only.  *)
ChannelInv ==
  /\ pushed \in 0 .. MaxElements
  /\ taken \in Seq(1 .. pushed) /\ queued \in Seq(1 .. pushed)
  /\ holds \in [QueueUsers -> 0 .. pushed] /\ putBack \subseteq 1 .. pushed
  /\ Distinct(taken) /\ Distinct(queued)
  /\ \A e \in 1 .. pushed : ~(Holds(taken, e) /\ Holds(queued, e))
  /\ \A e \in 1 .. pushed : InHand(e) => ~Holds(taken, e) /\ ~Holds(queued, e)
  /\ \A u \in QueueUsers : holds[u] \notin putBack
  /\ \A u, v \in QueueUsers : holds[u] = holds[v] /\ holds[u] # NoElement => u = v
  /\ queueKind # "deque" =>
       \A e \in 1 .. pushed : Holds(taken, e) \/ Holds(queued, e) \/ InHand(e)
  /\ queueKind = "channel" => Len(queued) <= ChannelCapacity
  /\ ~peeked /\ queueKind # "deque" => Len(taken) + Len(queued) = pushed
  /\ ~peeked => /\ \A i \in DOMAIN taken : taken[i] = i
                /\ \A i \in DOMAIN queued : queued[i] = Len(taken) + i
                /\ \A e \in 1 .. pushed : ~InHand(e)

(* The nodes of the deque are linked both ways, in its order, and those    *)
(* that are not yet pushed are linked nowhere.                             *)
DequeInv ==
  /\ pushed \in 0 .. MaxElements
  /\ deque \in Seq(1 .. pushed) /\ Distinct(deque) /\ dequeSize = Len(deque)
  /\ dequeHead = IF deque = <<>> THEN NoElement ELSE deque[1]
  /\ dequeTail = IF deque = <<>> THEN NoElement ELSE deque[Len(deque)]
  /\ nextNode \in [ElementNumbers -> 0 .. MaxElements]
  /\ prevNode \in [ElementNumbers -> 0 .. MaxElements]
  /\ \A i \in 1 .. Len(deque) :
       nextNode[deque[i]] = IF i = Len(deque) THEN NoElement ELSE deque[i + 1]
  /\ \A i \in 1 .. Len(deque) :
       prevNode[deque[i]] = IF i = 1 THEN NoElement ELSE deque[i - 1]
  /\ \A n \in ElementNumbers : n > pushed => nextNode[n] = NoElement /\ prevNode[n] = NoElement

(* What a list holds after an element is appended.                         *)
LEMMA AppendedIs ==
  ASSUME NEW S, NEW T, S \subseteq T, NEW s \in Seq(S), NEW e \in T, Distinct(s), ~Holds(s, e)
  PROVE  /\ Append(s, e) \in Seq(T) /\ Distinct(Append(s, e))
         /\ Len(Append(s, e)) = Len(s) + 1
         /\ \A k : Holds(Append(s, e), k) <=> Holds(s, k) \/ k = e
         /\ \A i \in DOMAIN s : Append(s, e)[i] = s[i]
         /\ Append(s, e)[Len(s) + 1] = e
         /\ DOMAIN Append(s, e) = 1 .. Len(s) + 1 /\ DOMAIN s = 1 .. Len(s)
<1> DEFINE a == Append(s, e)
<1>1. s \in Seq(T) /\ Len(s) \in Nat /\ DOMAIN s = 1 .. Len(s)
  BY SeqMonotonic, LenProperties
<1>2. /\ a \in Seq(T) /\ Len(a) = Len(s) + 1 /\ (\A i \in 1 .. Len(s) : a[i] = s[i])
      /\ a[Len(s) + 1] = e /\ DOMAIN a = 1 .. Len(s) + 1
  BY <1>1, AppendProperties, LenProperties
<1> HIDE DEF a
<1>3. \A i \in 1 .. Len(s) + 1 : i \in 1 .. Len(s) \/ i = Len(s) + 1
  BY <1>1
<1>4. 1 .. Len(s) \subseteq 1 .. Len(s) + 1 /\ Len(s) + 1 \in 1 .. Len(s) + 1
  BY <1>1
<1>5. Distinct(a)
  BY <1>1, <1>2, <1>3 DEF Distinct, Holds
<1>6. \A k : Holds(a, k) <=> Holds(s, k) \/ k = e
  BY <1>1, <1>2, <1>3, <1>4 DEF Holds
<1> QED BY <1>1, <1>2, <1>5, <1>6 DEF a

(* What it holds after the first is removed.                               *)
LEMMA TailIs ==
  ASSUME NEW S, NEW s \in Seq(S), s # <<>>, Distinct(s)
  PROVE  /\ Tail(s) \in Seq(S) /\ Distinct(Tail(s)) /\ Len(Tail(s)) = Len(s) - 1
         /\ Head(s) = s[1] /\ Head(s) \in S /\ Holds(s, Head(s))
         /\ \A k : Holds(Tail(s), k) <=> Holds(s, k) /\ k # Head(s)
         /\ \A i \in DOMAIN Tail(s) : Tail(s)[i] = s[i + 1] /\ i + 1 \in DOMAIN s
         /\ DOMAIN Tail(s) = 1 .. Len(s) - 1 /\ DOMAIN s = 1 .. Len(s) /\ Len(s) \in Nat \ {0}
<1> DEFINE a == Tail(s)
<1>1. Len(s) \in Nat \ {0} /\ DOMAIN s = 1 .. Len(s) /\ Head(s) = s[1] /\ Head(s) \in S
  BY LenProperties, EmptySeq, HeadTailProperties
<1>2. /\ a \in Seq(S) /\ Len(a) = Len(s) - 1 /\ (\A i \in 1 .. Len(s) - 1 : a[i] = s[i + 1])
      /\ DOMAIN a = 1 .. Len(s) - 1
  BY <1>1, HeadTailProperties, LenProperties
<1> HIDE DEF a
<1>3. \A i \in 1 .. Len(s) : i = 1 \/ (i - 1 \in 1 .. Len(s) - 1 /\ (i - 1) + 1 = i)
  BY <1>1
<1>4. \A i \in 1 .. Len(s) - 1 : i + 1 \in 1 .. Len(s) /\ i + 1 # 1
  BY <1>1
<1>5. Distinct(a)
  <2> SUFFICES ASSUME NEW i \in 1 .. Len(s) - 1, NEW j \in 1 .. Len(s) - 1, a[i] = a[j]
               PROVE  i = j
    BY <1>2 DEF Distinct
  <2>1. i + 1 \in DOMAIN s /\ j + 1 \in DOMAIN s /\ s[i + 1] = s[j + 1]
    BY <1>1, <1>2, <1>4
  <2>2. i + 1 = j + 1
    BY <2>1 DEF Distinct
  <2> QED BY <2>2
<1>6. 1 \in 1 .. Len(s)
  BY <1>1
<1>7. ASSUME NEW k PROVE Holds(a, k) <=> Holds(s, k) /\ k # Head(s)
  <2>1. ASSUME NEW i \in 1 .. Len(s) - 1 PROVE a[i] = s[i + 1] /\ i + 1 \in DOMAIN s /\ s[i + 1] # s[1]
    BY <1>1, <1>2, <1>4, <1>6 DEF Distinct
  <2>2. Holds(a, k) => Holds(s, k) /\ k # Head(s)
    BY <1>1, <1>2, <2>1 DEF Holds
  <2>3. ASSUME NEW i \in 1 .. Len(s), s[i] = k, k # Head(s) PROVE Holds(a, k)
    <3>1. i - 1 \in 1 .. Len(s) - 1 /\ (i - 1) + 1 = i
      BY <1>1, <1>3, <2>3
    <3>2. a[i - 1] = k
      BY <1>2, <2>3, <3>1
    <3> QED BY <1>2, <3>1, <3>2 DEF Holds
  <2> QED BY <1>1, <2>2, <2>3 DEF Holds
<1> QED BY <1>1, <1>2, <1>4, <1>5, <1>6, <1>7 DEF a, Holds

(* Pushing appends an element that is nowhere yet.                         *)
LEMMA PushElementStep ==
  ASSUME ChannelInv, NEW u \in QueueUsers, PushElement(u)
  PROVE  ChannelInv'
<1> DEFINE n == pushed + 1
<1>1. /\ pushed < MaxElements /\ pushed' = n /\ queued' = Append(queued, n)
      /\ UNCHANGED <<queueKind, holds, putBack, taken, peeked>>
      /\ queueKind = "channel" => Len(queued) < ChannelCapacity
  BY DEF PushElement, HasRoom
<1>2. /\ pushed \in 0 .. MaxElements /\ MaxElements \in Nat /\ n \in 0 .. MaxElements
      /\ 1 .. pushed \subseteq 1 .. n /\ 0 .. pushed \subseteq 0 .. n /\ n \in 1 .. n
      /\ n \notin 0 .. pushed /\ ChannelCapacity \in Nat
  BY <1>1, QueuesAssumption DEF ChannelInv
<1> HIDE DEF n
<1>3. taken \in Seq(1 .. n) /\ holds \in [QueueUsers -> 0 .. n] /\ putBack \subseteq 1 .. n
  BY <1>2, SeqMonotonic DEF ChannelInv
<1>4. ~Holds(queued, n) /\ ~Holds(taken, n) /\ ~InHand(n)
  <2>1. (\A i \in DOMAIN queued : queued[i] \in 1 .. pushed)
        /\ (\A i \in DOMAIN taken : taken[i] \in 1 .. pushed)
    BY LenProperties, ElementOfSeq DEF ChannelInv
  <2>2. n \notin 1 .. pushed
    BY <1>2
  <2>3. ~InHand(n)
    BY <1>2, <2>2 DEF ChannelInv, InHand
  <2> QED BY <2>1, <2>2, <2>3 DEF Holds
<1>5. /\ queued' \in Seq(1 .. n) /\ Distinct(queued') /\ Len(queued') = Len(queued) + 1
      /\ \A k : Holds(queued', k) <=> Holds(queued, k) \/ k = n
      /\ \A i \in DOMAIN queued : queued'[i] = queued[i]
      /\ queued'[Len(queued) + 1] = n
      /\ DOMAIN queued' = 1 .. Len(queued) + 1 /\ DOMAIN queued = 1 .. Len(queued)
  <2>1. queued \in Seq(1 .. pushed) /\ Distinct(queued) /\ 1 .. pushed \subseteq 1 .. n
        /\ n \in 1 .. n
    BY <1>2 DEF ChannelInv
  <2> DEFINE T == 1 .. n
             S == 1 .. pushed
  <2>2. queued \in Seq(S) /\ S \subseteq T /\ n \in T /\ Distinct(queued) /\ ~Holds(queued, n)
    BY <1>4, <2>1
  <2> HIDE DEF T, S
  <2>3. /\ Append(queued, n) \in Seq(T) /\ Distinct(Append(queued, n))
        /\ Len(Append(queued, n)) = Len(queued) + 1
        /\ \A k : Holds(Append(queued, n), k) <=> Holds(queued, k) \/ k = n
        /\ \A i \in DOMAIN queued : Append(queued, n)[i] = queued[i]
        /\ Append(queued, n)[Len(queued) + 1] = n
        /\ DOMAIN Append(queued, n) = 1 .. Len(queued) + 1 /\ DOMAIN queued = 1 .. Len(queued)
    BY <2>2, AppendedIs
  <2> QED BY <1>1, <2>3 DEF T
<1>6. \A e \in 1 .. n : e \in 1 .. pushed \/ e = n
  BY <1>2 DEF n
<1>7. Len(queued) \in Nat /\ Len(taken) \in Nat
  BY LenProperties DEF ChannelInv
<1>8. \A e : InHand(e)' <=> InHand(e)
  BY <1>1 DEF InHand
<1>9. /\ \A e \in 1 .. n : ~(Holds(taken, e) /\ Holds(queued', e))
      /\ \A e \in 1 .. n : InHand(e) => ~Holds(taken, e) /\ ~Holds(queued', e)
  BY <1>4, <1>5, <1>6 DEF ChannelInv
<1>10. queueKind # "deque" =>
         \A e \in 1 .. n : Holds(taken, e) \/ Holds(queued', e) \/ InHand(e)
  BY <1>5, <1>6 DEF ChannelInv
<1>11. queueKind = "channel" => Len(queued') <= ChannelCapacity
  BY <1>1, <1>2, <1>5, <1>7
<1>12. queueKind # "deque"
  BY DEF PushElement
<1>13. ASSUME ~peeked
       PROVE  /\ Len(taken) + Len(queued') = n
              /\ \A i \in DOMAIN taken : taken[i] = i
              /\ \A i \in DOMAIN queued' : queued'[i] = Len(taken) + i
              /\ \A e \in 1 .. n : ~InHand(e)
  <2>1. /\ Len(taken) + Len(queued) = pushed
        /\ \A i \in DOMAIN taken : taken[i] = i
        /\ \A i \in DOMAIN queued : queued[i] = Len(taken) + i
        /\ \A e \in 1 .. pushed : ~InHand(e)
    BY <1>12, <1>13 DEF ChannelInv
  <2>2. Len(taken) + Len(queued') = n /\ Len(taken) + (Len(queued) + 1) = n
    BY <1>5, <1>7, <2>1 DEF n
  <2>3. ASSUME NEW i \in 1 .. Len(queued) + 1 PROVE queued'[i] = Len(taken) + i
    <3>1. i \in 1 .. Len(queued) \/ i = Len(queued) + 1
      BY <1>7
    <3> QED BY <1>5, <2>1, <2>2, <3>1
  <2>4. \A e \in 1 .. n : ~InHand(e)
    BY <1>4, <1>6, <2>1
  <2> QED BY <1>5, <2>1, <2>2, <2>3, <2>4
<1>14. pushed' \in 0 .. MaxElements /\ pushed' = n /\ taken' = taken /\ holds' = holds
       /\ putBack' = putBack /\ peeked' = peeked /\ queueKind' = queueKind
  BY <1>1, <1>2
<1>15. /\ \A e \in 1 .. n : ~(Holds(taken', e) /\ Holds(queued', e))
       /\ \A e \in 1 .. n : InHand(e)' => ~Holds(taken', e) /\ ~Holds(queued', e)
       /\ queueKind # "deque" =>
            \A e \in 1 .. n : Holds(taken', e) \/ Holds(queued', e) \/ InHand(e)'
       /\ ~peeked => \A e \in 1 .. n : ~InHand(e)'
  BY <1>8, <1>9, <1>10, <1>13, <1>14
<1>16. /\ \A v \in QueueUsers : holds[v] \notin putBack
       /\ \A v, w \in QueueUsers : holds[v] = holds[w] /\ holds[v] # NoElement => v = w
       /\ Distinct(taken)
  BY DEF ChannelInv
<1> QED BY <1>3, <1>5, <1>11, <1>13, <1>14, <1>15, <1>16 DEF ChannelInv

(* Popping moves the first element from the queue to what was popped.      *)
LEMMA PopElementStep ==
  ASSUME ChannelInv, NEW u \in QueueUsers, PopElement(u)
  PROVE  ChannelInv'
<1> DEFINE e == Head(queued)
<1>1. /\ queued # <<>> /\ taken' = Append(taken, e) /\ queued' = Tail(queued)
      /\ UNCHANGED <<queueKind, holds, putBack, peeked, pushed>>
  BY DEF PopElement
<1>2. /\ queued' \in Seq(1 .. pushed) /\ Distinct(queued') /\ Len(queued') = Len(queued) - 1
      /\ e = queued[1] /\ e \in 1 .. pushed /\ Holds(queued, e)
      /\ \A k : Holds(queued', k) <=> Holds(queued, k) /\ k # e
      /\ \A i \in DOMAIN queued' : queued'[i] = queued[i + 1] /\ i + 1 \in DOMAIN queued
      /\ DOMAIN queued' = 1 .. Len(queued) - 1 /\ DOMAIN queued = 1 .. Len(queued)
      /\ Len(queued) \in Nat \ {0}
  BY <1>1, TailIs DEF ChannelInv
<1> HIDE DEF e
<1>3. ~Holds(taken, e)
  BY <1>2 DEF ChannelInv
<1>4. /\ taken' \in Seq(1 .. pushed) /\ Distinct(taken') /\ Len(taken') = Len(taken) + 1
      /\ \A k : Holds(taken', k) <=> Holds(taken, k) \/ k = e
      /\ \A i \in DOMAIN taken : taken'[i] = taken[i]
      /\ taken'[Len(taken) + 1] = e
      /\ DOMAIN taken' = 1 .. Len(taken) + 1 /\ DOMAIN taken = 1 .. Len(taken)
  BY <1>1, <1>2, <1>3, AppendedIs DEF ChannelInv
<1>5. Len(taken) \in Nat
  BY LenProperties DEF ChannelInv
<1>6. \A k : InHand(k)' <=> InHand(k)
  BY <1>1 DEF InHand
<1>7. /\ \A k \in 1 .. pushed : ~(Holds(taken', k) /\ Holds(queued', k))
      /\ \A k \in 1 .. pushed : InHand(k)' => ~Holds(taken', k) /\ ~Holds(queued', k)
      /\ queueKind # "deque" =>
           \A k \in 1 .. pushed : Holds(taken', k) \/ Holds(queued', k) \/ InHand(k)'
  BY <1>2, <1>3, <1>4, <1>6 DEF ChannelInv
<1>8. queueKind = "channel" => Len(queued') <= ChannelCapacity
  BY <1>2, QueuesAssumption DEF ChannelInv
<1>9. ~peeked /\ queueKind # "deque" => Len(taken') + Len(queued') = pushed
  <2>1. ~peeked /\ queueKind # "deque" => Len(taken) + Len(queued) = pushed
    BY DEF ChannelInv
  <2>2. Len(taken') + Len(queued') = Len(taken) + Len(queued)
    BY <1>2, <1>4, <1>5
  <2> QED BY <2>1, <2>2
<1>10. ASSUME ~peeked
       PROVE  /\ \A i \in DOMAIN taken' : taken'[i] = i
              /\ \A i \in DOMAIN queued' : queued'[i] = Len(taken') + i
              /\ \A k \in 1 .. pushed : ~InHand(k)'
  <2>1. /\ \A i \in DOMAIN taken : taken[i] = i
        /\ \A i \in DOMAIN queued : queued[i] = Len(taken) + i
        /\ \A k \in 1 .. pushed : ~InHand(k)
    BY <1>10 DEF ChannelInv
  <2>2. e = Len(taken) + 1
    BY <1>2, <2>1
  <2>3. ASSUME NEW i \in 1 .. Len(taken) + 1 PROVE taken'[i] = i
    <3>1. i \in 1 .. Len(taken) \/ i = Len(taken) + 1
      BY <1>5
    <3> QED BY <1>4, <2>1, <2>2, <3>1
  <2>4. ASSUME NEW i \in 1 .. Len(queued) - 1 PROVE queued'[i] = Len(taken') + i
    <3>1. queued'[i] = Len(taken) + (i + 1)
      BY <1>2, <2>1
    <3> QED BY <1>4, <1>5, <3>1
  <2> QED BY <1>2, <1>4, <1>6, <2>1, <2>3, <2>4
<1>11. /\ \A v \in QueueUsers : holds[v] \notin putBack
       /\ \A v, w \in QueueUsers : holds[v] = holds[w] /\ holds[v] # NoElement => v = w
       /\ pushed \in 0 .. MaxElements /\ holds \in [QueueUsers -> 0 .. pushed]
       /\ putBack \subseteq 1 .. pushed
  BY DEF ChannelInv
<1>12. pushed' = pushed /\ holds' = holds /\ putBack' = putBack /\ peeked' = peeked
       /\ queueKind' = queueKind
  BY <1>1
<1> QED BY <1>2, <1>4, <1>7, <1>8, <1>9, <1>10, <1>11, <1>12 DEF ChannelInv

(* Peek takes the first element of the channel in its hand.                *)
LEMMA PeekTakesStep ==
  ASSUME ChannelInv, NEW u \in QueueUsers, PeekTakes(u)
  PROVE  ChannelInv'
<1> DEFINE e == Head(queued)
<1>1. /\ queued # <<>> /\ holds' = [holds EXCEPT ![u] = e] /\ queued' = Tail(queued)
      /\ peeked' = TRUE /\ holds[u] = NoElement
      /\ UNCHANGED <<queueKind, taken, putBack, pushed>>
  BY DEF PeekTakes
<1>2. /\ queued' \in Seq(1 .. pushed) /\ Distinct(queued') /\ Len(queued') = Len(queued) - 1
      /\ e \in 1 .. pushed /\ Holds(queued, e)
      /\ \A k : Holds(queued', k) <=> Holds(queued, k) /\ k # e
      /\ Len(queued) \in Nat \ {0}
  BY <1>1, TailIs DEF ChannelInv
<1> HIDE DEF e
<1>3. ~Holds(taken, e) /\ ~InHand(e)
  BY <1>2 DEF ChannelInv
<1>4. /\ holds \in [QueueUsers -> 0 .. pushed] /\ pushed \in Nat /\ pushed \in 0 .. MaxElements
      /\ putBack \subseteq 1 .. pushed
  BY QueuesAssumption DEF ChannelInv
<1>5. \A v \in QueueUsers : holds'[v] = IF v = u THEN e ELSE holds[v]
  BY <1>1, <1>4
<1>6. \A k \in 1 .. pushed : InHand(k)' <=> InHand(k) \/ k = e
  <2>1. \A k \in 1 .. pushed : k # NoElement
    BY <1>4 DEF NoElement
  <2> QED BY <1>1, <1>5, <2>1 DEF InHand
<1>7. holds' \in [QueueUsers -> 0 .. pushed]
  <2>1. e \in 0 .. pushed
    BY <1>2
  <2> QED BY <1>1, <1>4, <2>1
<1>8. /\ \A v \in QueueUsers : holds'[v] \notin putBack
      /\ \A v, w \in QueueUsers : holds'[v] = holds'[w] /\ holds'[v] # NoElement => v = w
  BY <1>3, <1>5 DEF InHand, ChannelInv
<1>9. /\ \A k \in 1 .. pushed : ~(Holds(taken, k) /\ Holds(queued', k))
      /\ \A k \in 1 .. pushed : InHand(k)' => ~Holds(taken, k) /\ ~Holds(queued', k)
      /\ queueKind # "deque" =>
           \A k \in 1 .. pushed : Holds(taken, k) \/ Holds(queued', k) \/ InHand(k)'
  BY <1>2, <1>3, <1>6 DEF ChannelInv
<1>10. queueKind = "channel" => Len(queued') <= ChannelCapacity
  BY <1>2, QueuesAssumption DEF ChannelInv
<1>11. taken \in Seq(1 .. pushed) /\ Distinct(taken)
  BY DEF ChannelInv
<1>12. pushed' = pushed /\ taken' = taken /\ putBack' = putBack /\ queueKind' = queueKind
       /\ ~(~peeked')
  BY <1>1
<1> QED BY <1>2, <1>4, <1>7, <1>8, <1>9, <1>10, <1>11, <1>12 DEF ChannelInv

(* An element goes back from a hand to the end of the queue.               *)
LEMMA BackInQueue ==
  ASSUME ChannelInv, NEW e \in 1 .. pushed, InHand(e), HasRoom, queued' = Append(queued, e),
         UNCHANGED <<queueKind, taken, peeked, pushed>>,
         holds' \in [QueueUsers -> 0 .. pushed], putBack' \subseteq 1 .. pushed,
         \A v \in QueueUsers : holds'[v] \notin putBack',
         \A v, w \in QueueUsers : holds'[v] = holds'[w] /\ holds'[v] # NoElement => v = w,
         \A k \in 1 .. pushed : InHand(k)' <=> InHand(k) /\ k # e
  PROVE  ChannelInv'
<1>1. ~Holds(taken, e) /\ ~Holds(queued, e) /\ ~(~peeked)
  BY DEF ChannelInv
<1>2. queued \in Seq(1 .. pushed) /\ Distinct(queued)
  BY DEF ChannelInv
<1>3. /\ queued' \in Seq(1 .. pushed) /\ Distinct(queued') /\ Len(queued') = Len(queued) + 1
      /\ \A k : Holds(queued', k) <=> Holds(queued, k) \/ k = e
  <2> DEFINE S == 1 .. pushed
  <2>1. queued \in Seq(S) /\ e \in S /\ S \subseteq S
    BY <1>2
  <2> HIDE DEF S
  <2>2. /\ Append(queued, e) \in Seq(S) /\ Distinct(Append(queued, e))
        /\ Len(Append(queued, e)) = Len(queued) + 1
        /\ \A k : Holds(Append(queued, e), k) <=> Holds(queued, k) \/ k = e
    BY <1>1, <1>2, <2>1, AppendedIs
  <2> QED BY <2>2 DEF S
<1>4. /\ \A k \in 1 .. pushed : ~(Holds(taken, k) /\ Holds(queued', k))
      /\ \A k \in 1 .. pushed : InHand(k)' => ~Holds(taken, k) /\ ~Holds(queued', k)
      /\ queueKind # "deque" =>
           \A k \in 1 .. pushed : Holds(taken, k) \/ Holds(queued', k) \/ InHand(k)'
  BY <1>1, <1>3 DEF ChannelInv
<1>5. queueKind = "channel" => Len(queued') <= ChannelCapacity
  <2> SUFFICES ASSUME queueKind = "channel" PROVE Len(queued') <= ChannelCapacity
    OBVIOUS
  <2>1. Len(queued) < ChannelCapacity
    BY DEF HasRoom
  <2>2. Len(queued) \in Nat
    BY <1>2, LenProperties
  <2> QED BY <1>3, <2>1, <2>2, QueuesAssumption
<1>6. taken \in Seq(1 .. pushed) /\ Distinct(taken) /\ pushed \in 0 .. MaxElements
  BY DEF ChannelInv
<1>7. ~(~peeked')
  BY <1>1
<1> QED BY <1>3, <1>4, <1>5, <1>6, <1>7 DEF ChannelInv

(* Peek puts its element back, or leaves it to a goroutine.                *)
LEMMA PeekPutsBackStep ==
  ASSUME ChannelInv, NEW u \in QueueUsers, PeekPutsBack(u)
  PROVE  ChannelInv'
<1> DEFINE e == holds[u]
<1>1. /\ e # NoElement /\ holds' = [holds EXCEPT ![u] = NoElement]
      /\ UNCHANGED <<queueKind, taken, peeked, pushed>>
  BY DEF PeekPutsBack
<1>2. /\ holds \in [QueueUsers -> 0 .. pushed] /\ pushed \in Nat /\ pushed \in 0 .. MaxElements
      /\ putBack \subseteq 1 .. pushed
      /\ \A v \in QueueUsers : holds[v] \notin putBack
      /\ \A v, w \in QueueUsers : holds[v] = holds[w] /\ holds[v] # NoElement => v = w
  BY QueuesAssumption DEF ChannelInv
<1>3. e \in 1 .. pushed /\ InHand(e) /\ NoElement \notin 1 .. pushed
  BY <1>1, <1>2 DEF NoElement, InHand
<1>4. /\ holds' \in [QueueUsers -> 0 .. pushed]
      /\ \A v \in QueueUsers : holds'[v] = IF v = u THEN NoElement ELSE holds[v]
  <2>1. NoElement \in 0 .. pushed
    BY <1>2 DEF NoElement
  <2> QED BY <1>1, <1>2, <2>1
<1>5. \A v, w \in QueueUsers : holds'[v] = holds'[w] /\ holds'[v] # NoElement => v = w
  BY <1>2, <1>4
<1>6. \A v \in QueueUsers : holds'[v] # e /\ (holds'[v] \in putBack => FALSE)
  BY <1>1, <1>2, <1>3, <1>4
<1>7. CASE HasRoom
  <2>1. queued' = Append(queued, e) /\ putBack' = putBack
    BY <1>7 DEF PeekPutsBack
  <2>2. \A k \in 1 .. pushed : InHand(k)' <=> InHand(k) /\ k # e
    BY <1>1, <1>2, <1>3, <1>4, <2>1 DEF InHand
  <2> HIDE DEF e
  <2> QED BY <1>1, <1>2, <1>3, <1>4, <1>5, <1>6, <1>7, <2>1, <2>2, BackInQueue
<1>8. CASE ~HasRoom
  <2>1. queued' = queued /\ putBack' = putBack \cup {e}
    BY <1>8 DEF PeekPutsBack
  <2>2. \A k \in 1 .. pushed : InHand(k)' <=> InHand(k)
    BY <1>1, <1>2, <1>3, <1>4, <2>1 DEF InHand
  <2>3. putBack' \subseteq 1 .. pushed /\ \A v \in QueueUsers : holds'[v] \notin putBack'
    BY <1>2, <1>3, <1>6, <2>1
  <2> QED BY <1>1, <1>4, <1>5, <2>1, <2>2, <2>3 DEF ChannelInv
<1> QED BY <1>7, <1>8

(* So does the goroutine, as soon as there is room.                        *)
LEMMA GoroutinePutsBackStep ==
  ASSUME ChannelInv, NEW e \in putBack, GoroutinePutsBack(e)
  PROVE  ChannelInv'
<1>1. /\ HasRoom /\ queued' = Append(queued, e) /\ putBack' = putBack \ {e}
      /\ UNCHANGED <<queueKind, holds, taken, peeked, pushed>>
  BY DEF GoroutinePutsBack
<1>2. /\ holds \in [QueueUsers -> 0 .. pushed] /\ putBack \subseteq 1 .. pushed
      /\ \A v \in QueueUsers : holds[v] \notin putBack
      /\ \A v, w \in QueueUsers : holds[v] = holds[w] /\ holds[v] # NoElement => v = w
  BY DEF ChannelInv
<1>3. e \in 1 .. pushed /\ InHand(e) /\ \A k \in 1 .. pushed : InHand(k)' <=> InHand(k) /\ k # e
  BY <1>1, <1>2 DEF InHand
<1> QED BY <1>1, <1>2, <1>3, BackInQueue

(* The deque has elements of its own.                                      *)
LEMMA OthersStep ==
  ASSUME ChannelInv, UNCHANGED <<queueKind, channelVars>>,
         \/ pushed' = pushed
         \/ queueKind = "deque" /\ pushed < MaxElements /\ pushed' = pushed + 1
  PROVE  ChannelInv'
<1>1. UNCHANGED <<queueKind, queued, holds, putBack, taken, peeked>>
  BY DEF channelVars
<1>2. CASE pushed' = pushed
  BY <1>1, <1>2 DEF ChannelInv, InHand
<1>3. CASE queueKind = "deque" /\ pushed < MaxElements /\ pushed' = pushed + 1
  <2>1. /\ pushed \in 0 .. MaxElements /\ MaxElements \in Nat /\ pushed' \in 0 .. MaxElements
        /\ 1 .. pushed \subseteq 1 .. pushed' /\ 0 .. pushed \subseteq 0 .. pushed'
        /\ \A k \in 1 .. pushed' : k \in 1 .. pushed \/ k = pushed'
        /\ pushed' \notin 0 .. pushed /\ pushed' \notin 1 .. pushed
    BY <1>3, QueuesAssumption DEF ChannelInv
  <2>2. taken \in Seq(1 .. pushed') /\ queued \in Seq(1 .. pushed')
        /\ holds \in [QueueUsers -> 0 .. pushed'] /\ putBack \subseteq 1 .. pushed'
    BY <2>1, SeqMonotonic DEF ChannelInv
  <2>3. ~Holds(queued, pushed') /\ ~Holds(taken, pushed') /\ ~InHand(pushed')
    <3>1. (\A i \in DOMAIN queued : queued[i] \in 1 .. pushed)
          /\ (\A i \in DOMAIN taken : taken[i] \in 1 .. pushed)
      BY LenProperties, ElementOfSeq DEF ChannelInv
    <3>2. ~InHand(pushed')
      BY <2>1 DEF ChannelInv, InHand
    <3> QED BY <2>1, <3>1, <3>2 DEF Holds
  <2>4. \A k : InHand(k)' <=> InHand(k)
    BY <1>1 DEF InHand
  <2>5. /\ \A k \in 1 .. pushed' : ~(Holds(taken, k) /\ Holds(queued, k))
        /\ \A k \in 1 .. pushed' : InHand(k) => ~Holds(taken, k) /\ ~Holds(queued, k)
    BY <2>1, <2>3 DEF ChannelInv
  <2>6. ~peeked => \A k \in 1 .. pushed' : ~InHand(k)
    BY <2>1, <2>3 DEF ChannelInv
  <2>7. /\ \A v \in QueueUsers : holds[v] \notin putBack
        /\ \A v, w \in QueueUsers : holds[v] = holds[w] /\ holds[v] # NoElement => v = w
        /\ Distinct(taken) /\ Distinct(queued)
        /\ ~peeked => /\ \A i \in DOMAIN taken : taken[i] = i
                      /\ \A i \in DOMAIN queued : queued[i] = Len(taken) + i
    BY DEF ChannelInv
  <2>8. \A k \in 1 .. pushed' : InHand(k)' => ~Holds(taken, k) /\ ~Holds(queued, k)
    BY <2>4, <2>5
  <2>9. ~peeked => \A k \in 1 .. pushed' : ~InHand(k)'
    BY <2>4, <2>6
  <2> QED BY <1>1, <1>3, <2>1, <2>2, <2>5, <2>7, <2>8, <2>9 DEF ChannelInv
<1> QED BY <1>2, <1>3

(* Every operation of the queues keeps each element in one place.          *)
LEMMA ChannelStep == ChannelInv /\ [QueuesNext]_queuesVars => ChannelInv'
<1> SUFFICES ASSUME ChannelInv, [QueuesNext]_queuesVars PROVE ChannelInv'
  OBVIOUS
<1>1. ASSUME NEW u \in QueueUsers,
             PushElement(u) \/ PopElement(u) \/ PeekTakes(u) \/ PeekPutsBack(u)
      PROVE  ChannelInv'
  BY <1>1, PushElementStep, PopElementStep, PeekTakesStep, PeekPutsBackStep
<1>2. ASSUME NEW e \in putBack, GoroutinePutsBack(e) PROVE ChannelInv'
  BY <1>2, GoroutinePutsBackStep
<1>3. CASE PushBack \/ PushFront
  <2>1. /\ UNCHANGED <<queueKind, channelVars>> /\ queueKind = "deque" /\ pushed < MaxElements
        /\ pushed' = pushed + 1
    BY <1>3 DEF PushBack, PushFront
  <2> QED BY <2>1, OthersStep
<1>4. CASE PopBack \/ PopFront \/ ClearDeque
  <2>1. UNCHANGED <<queueKind, channelVars>> /\ pushed' = pushed
    BY <1>4 DEF PopBack, PopFront, ClearDeque
  <2> QED BY <2>1, OthersStep
<1>5. CASE UNCHANGED queuesVars
  <2>1. UNCHANGED <<queueKind, channelVars>> /\ pushed' = pushed
    BY <1>5 DEF queuesVars
  <2> QED BY <2>1, OthersStep
<1> QED BY <1>1, <1>2, <1>3, <1>4, <1>5 DEF QueuesNext

(* What is in one place only adds up.                                      *)
LEMMA ChannelInvImplies ==
  ASSUME ChannelInv, queueKind # "deque"
  PROVE  LET held == ({holds[u] : u \in QueueUsers} \ {NoElement}) \cup putBack
             through == taken \o queued
         IN  /\ ToSet(through) \cup held = 1 .. pushed
             /\ Len(through) + Cardinality(held) = pushed
             /\ queueKind = "channel" => Len(queued) <= ChannelCapacity
             /\ ~peeked => \A i \in DOMAIN through : through[i] = i
<1> DEFINE held == ({holds[u] : u \in QueueUsers} \ {NoElement}) \cup putBack
           through == taken \o queued
           T == ToSet(through)
<1>1. /\ pushed \in Nat /\ taken \in Seq(1 .. pushed) /\ queued \in Seq(1 .. pushed)
      /\ holds \in [QueueUsers -> 0 .. pushed] /\ putBack \subseteq 1 .. pushed
      /\ Distinct(taken) /\ Distinct(queued)
      /\ Len(taken) \in Nat /\ Len(queued) \in Nat
      /\ DOMAIN taken = 1 .. Len(taken) /\ DOMAIN queued = 1 .. Len(queued)
  <2>1. /\ pushed \in Nat /\ taken \in Seq(1 .. pushed) /\ queued \in Seq(1 .. pushed)
        /\ holds \in [QueueUsers -> 0 .. pushed] /\ putBack \subseteq 1 .. pushed
        /\ Distinct(taken) /\ Distinct(queued)
    BY QueuesAssumption DEF ChannelInv
  <2> QED BY <2>1, LenProperties
<1>2. /\ through \in Seq(1 .. pushed) /\ Len(through) = Len(taken) + Len(queued)
      /\ DOMAIN through = 1 .. Len(taken) + Len(queued)
      /\ \A i \in 1 .. Len(taken) + Len(queued) :
           through[i] = IF i <= Len(taken) THEN taken[i] ELSE queued[i - Len(taken)]
  BY <1>1, ConcatProperties, LenProperties
<1>3. \A e \in 1 .. pushed : InHand(e) <=> e \in held
  BY <1>1 DEF InHand, NoElement
<1>4. held \subseteq 1 .. pushed
  <2>1. \A u \in QueueUsers : holds[u] # NoElement => holds[u] \in 1 .. pushed
    BY <1>1 DEF NoElement
  <2> QED BY <1>1, <2>1
<1> HIDE DEF held, through
<1>5. ASSUME NEW i \in 1 .. Len(taken) + Len(queued)
      PROVE  \/ i \in 1 .. Len(taken) /\ through[i] = taken[i]
             \/ /\ i - Len(taken) \in 1 .. Len(queued)
                /\ through[i] = queued[i - Len(taken)]
  BY <1>1, <1>2
<1>6. \A e \in 1 .. pushed : Holds(through, e) <=> Holds(taken, e) \/ Holds(queued, e)
  <2>1. ASSUME NEW e, Holds(through, e) PROVE Holds(taken, e) \/ Holds(queued, e)
    BY <1>1, <1>2, <1>5, <2>1 DEF Holds
  <2>2. ASSUME NEW e, Holds(taken, e) PROVE Holds(through, e)
    <3>1. PICK i \in 1 .. Len(taken) : taken[i] = e
      BY <1>1, <2>2 DEF Holds
    <3>2. i \in 1 .. Len(taken) + Len(queued) /\ i <= Len(taken)
      BY <1>1
    <3> QED BY <1>2, <3>1, <3>2 DEF Holds
  <2>3. ASSUME NEW e, Holds(queued, e) PROVE Holds(through, e)
    <3>1. PICK i \in 1 .. Len(queued) : queued[i] = e
      BY <1>1, <2>3 DEF Holds
    <3>2. Len(taken) + i \in 1 .. Len(taken) + Len(queued) /\ ~(Len(taken) + i <= Len(taken))
          /\ (Len(taken) + i) - Len(taken) = i
      BY <1>1
    <3> QED BY <1>2, <3>1, <3>2 DEF Holds
  <2> QED BY <2>1, <2>2, <2>3
<1>7. Distinct(through)
  <2> SUFFICES ASSUME NEW i \in 1 .. Len(taken) + Len(queued),
                      NEW j \in 1 .. Len(taken) + Len(queued), through[i] = through[j]
               PROVE  i = j
    BY <1>2 DEF Distinct
  <2>1. through[i] \in 1 .. pushed
    BY <1>2, ElementOfSeq
  <2>2. ~(Holds(taken, through[i]) /\ Holds(queued, through[i]))
    BY <2>1 DEF ChannelInv
  <2>3. CASE i \in 1 .. Len(taken) /\ through[i] = taken[i]
    <3>1. j \in 1 .. Len(taken) /\ through[j] = taken[j]
      BY <1>1, <1>5, <2>2, <2>3 DEF Holds
    <3> QED BY <1>1, <2>3, <3>1 DEF Distinct
  <2>4. CASE i - Len(taken) \in 1 .. Len(queued) /\ through[i] = queued[i - Len(taken)]
    <3>1. j - Len(taken) \in 1 .. Len(queued) /\ through[j] = queued[j - Len(taken)]
      BY <1>1, <1>5, <2>2, <2>4 DEF Holds
    <3>2. i - Len(taken) = j - Len(taken)
      BY <1>1, <2>4, <3>1 DEF Distinct
    <3> QED BY <1>1, <3>2
  <2> QED BY <1>5, <2>3, <2>4
<1>8. /\ T \subseteq 1 .. pushed
      /\ \A e \in 1 .. pushed : e \in T <=> Holds(through, e)
  BY <1>2, ElementOfSeq DEF ToSet, Holds
<1>9. IsFiniteSet(T) /\ Cardinality(T) = Len(through)
  <2> DEFINE n == Len(through)
  <2>1. through \in Bijection(1 .. n, T) /\ n \in Nat
    <3>1. through \in [1 .. n -> T]
      BY <1>1, <1>2 DEF ToSet
    <3>2. \A i, j \in 1 .. n : through[i] = through[j] => i = j
      BY <1>2, <1>7 DEF Distinct
    <3>3. \A t \in T : \E i \in 1 .. n : through[i] = t
      BY <1>2 DEF ToSet
    <3> HIDE DEF T, n
    <3>4. through \in Bijection(1 .. n, T)
      BY <3>1, <3>2, <3>3 DEF Bijection, Injection, Surjection, IsInjective
    <3> QED BY <1>1, <1>2, <3>4 DEF n
  <2> HIDE DEF T, n
  <2>2. IsFiniteSet(1 .. n) /\ Cardinality(1 .. n) = n
    BY <2>1, FS_Interval
  <2> QED BY <2>1, <2>2, FS_Bijection DEF ExistsBijection, n
<1> HIDE DEF T
<1>10. T \cup held = 1 .. pushed /\ T \cap held = {}
  <2>1. ASSUME NEW e \in 1 .. pushed PROVE (e \in T \/ e \in held) /\ ~(e \in T /\ e \in held)
    BY <1>3, <1>6, <1>8 DEF ChannelInv
  <2> QED BY <1>4, <1>8, <2>1
<1>11. Len(through) + Cardinality(held) = pushed
  <2>1. IsFiniteSet(1 .. pushed) /\ Cardinality(1 .. pushed) = pushed
    BY <1>1, FS_Interval
  <2>2. IsFiniteSet(held) /\ Cardinality(held) \in Nat
    BY <1>4, <2>1, FS_Subset, FS_CardinalityType
  <2>3. Cardinality(T \cup held)
          = Cardinality(T) + Cardinality(held) - Cardinality(T \cap held)
    BY <1>9, <2>2, FS_Union
  <2>4. Cardinality(T \cap held) = 0
    BY <1>10, FS_EmptySet
  <2>5. pushed = Len(through) + Cardinality(held) - 0
    BY <1>9, <1>10, <2>1, <2>3, <2>4
  <2> QED BY <1>1, <1>2, <2>2, <2>5
<1>12. ASSUME ~peeked PROVE \A i \in DOMAIN through : through[i] = i
  <2>1. /\ \A i \in DOMAIN taken : taken[i] = i
        /\ \A i \in DOMAIN queued : queued[i] = Len(taken) + i
    BY <1>12 DEF ChannelInv
  <2>2. ASSUME NEW i \in 1 .. Len(taken) + Len(queued) PROVE through[i] = i
    <3>1. ASSUME i - Len(taken) \in 1 .. Len(queued) PROVE queued[i - Len(taken)] = i
      <4>1. queued[i - Len(taken)] = Len(taken) + (i - Len(taken))
        BY <1>1, <2>1, <3>1
      <4> QED BY <1>1, <4>1
    <3> QED BY <1>1, <1>5, <2>1, <3>1
  <2> QED BY <1>2, <2>2
<1>13. queueKind = "channel" => Len(queued) <= ChannelCapacity
  BY DEF ChannelInv
<1>14. /\ T \cup held = 1 .. pushed /\ Len(through) + Cardinality(held) = pushed
       /\ queueKind = "channel" => Len(queued) <= ChannelCapacity
       /\ ~peeked => \A i \in DOMAIN through : through[i] = i
  BY <1>10, <1>11, <1>12, <1>13
<1> QED BY <1>14, Zenon DEF T, held, through

(* The walks along links, as a recursive function, are there.              *)
WalkOf(links, n, g) ==
  g = [i \in 0 .. n |-> [m \in 0 .. MaxElements |->
         IF m = NoElement \/ i = 0 THEN <<>> ELSE <<m>> \o g[i - 1][links[m]]]]

(* There is such a function for every length of the walks.                 *)
LEMMA WalksExist ==
  ASSUME NEW links, NEW n \in Nat
  PROVE  \E g : WalkOf(links, n, g)
<1> DEFINE S == {k \in Nat : \E g : WalkOf(links, k, g)}
<1>1. 0 \in S
  <2>1. WalkOf(links, 0, [i \in 0 .. 0 |-> [m \in 0 .. MaxElements |-> <<>>]])
    BY DEF WalkOf
  <2> QED BY <2>1
<1>2. ASSUME NEW k \in Nat, k \in S PROVE k + 1 \in S
  <2>1. PICK g : WalkOf(links, k, g)
    BY <1>2
  <2> DEFINE h == [i \in 0 .. k + 1 |->
                     IF i <= k THEN g[i]
                     ELSE [m \in 0 .. MaxElements |->
                             IF m = NoElement THEN <<>> ELSE <<m>> \o g[k][links[m]]]]
             w == [i \in 0 .. k + 1 |-> [m \in 0 .. MaxElements |->
                     IF m = NoElement \/ i = 0 THEN <<>> ELSE <<m>> \o h[i - 1][links[m]]]]
  <2>2. ASSUME NEW i \in 0 .. k + 1 PROVE h[i] = w[i]
    <3>1. CASE i <= k
      <4>1. i \in 0 .. k /\ h[i] = g[i]
        BY <3>1
      <4>2. g[i] = [m \in 0 .. MaxElements |->
                      IF m = NoElement \/ i = 0 THEN <<>> ELSE <<m>> \o g[i - 1][links[m]]]
        BY <2>1, <4>1 DEF WalkOf
      <4>3. i # 0 => i - 1 \in 0 .. k + 1 /\ i - 1 <= k
        BY <3>1
      <4>4. i # 0 => h[i - 1] = g[i - 1]
        BY <4>3
      <4> QED BY <4>1, <4>2, <4>4
    <3>2. CASE ~(i <= k)
      <4>1. i = k + 1 /\ i # 0 /\ i - 1 = k /\ k \in 0 .. k + 1 /\ k <= k
        BY <3>2
      <4>2. h[k] = g[k]
        BY <4>1
      <4>3. h[i] = [m \in 0 .. MaxElements |->
                      IF m = NoElement THEN <<>> ELSE <<m>> \o g[k][links[m]]]
        BY <3>2
      <4> QED BY <4>1, <4>2, <4>3
    <3> QED BY <3>1, <3>2
  <2>3. h = w
    <3>1. h = [i \in 0 .. k + 1 |-> h[i]] /\ w = [i \in 0 .. k + 1 |-> w[i]]
      OBVIOUS
    <3> HIDE DEF h, w
    <3> QED BY <2>2, <3>1
  <2>4. WalkOf(links, k + 1, h)
    BY <2>3 DEF WalkOf
  <2> QED BY <2>4
<1>3. Nat \subseteq S
  <2> HIDE DEF S
  <2> QED BY <1>1, <1>2, Induction
<1> QED BY <1>3

(* A list has no more elements than there are to be in it.                 *)
LEMMA FewerPlaces ==
  ASSUME NEW n \in Nat, NEW m \in Nat, NEW s \in [1 .. n -> 1 .. m],
         \A i, j \in 1 .. n : s[i] = s[j] => i = j
  PROVE  n <= m
<1>1. IsFiniteSet(1 .. n) /\ Cardinality(1 .. n) = n
  BY FS_Interval
<1>2. IsFiniteSet(1 .. m) /\ Cardinality(1 .. m) = m
  BY FS_Interval
<1>3. s \in Injection(1 .. n, 1 .. m)
  BY DEF Injection, IsInjective
<1>4. Cardinality(1 .. n) <= Cardinality(1 .. m)
  BY <1>2, <1>3, FS_Injection
<1> QED BY <1>1, <1>2, <1>4

(* If each element of a list is linked to the next one and the last to     *)
(* none, the walk from the first is the list.                              *)
LEMMA ChainIs ==
  ASSUME NEW links, NEW s \in Seq(ElementNumbers), Distinct(s),
         \A i \in 1 .. Len(s) : links[s[i]] = IF i = Len(s) THEN NoElement ELSE s[i + 1]
  PROVE  Along(links, IF s = <<>> THEN NoElement ELSE s[1]) = s
<1>1. /\ MaxElements \in Nat /\ Len(s) \in Nat
      /\ s \in [1 .. Len(s) -> ElementNumbers] /\ DOMAIN s = 1 .. Len(s)
  BY QueuesAssumption, LenProperties
<1>a. MaxElements \in Nat /\ Len(s) \in Nat
  BY <1>1
<1>2. Len(s) <= MaxElements
  <2> DEFINE n == Len(s)
  <2>1. s \in [1 .. n -> 1 .. MaxElements] /\ \A i, j \in 1 .. n : s[i] = s[j] => i = j
    BY <1>1 DEF Distinct, ElementNumbers
  <2>2. n \in Nat /\ MaxElements \in Nat
    BY <1>1
  <2> HIDE DEF n
  <2>3. n <= MaxElements
    BY <2>1, <2>2, FewerPlaces
  <2> QED BY <2>3 DEF n
<1> DEFINE N == MaxElements + 1
           walk == CHOOSE g : WalkOf(links, N, g)
           At(j) == IF j = 0 THEN NoElement ELSE s[Len(s) - j + 1]
           rest(j) == SubSeq(s, Len(s) - j + 1, Len(s))
           Good(k) == \A j \in 0 .. Len(s) : j <= k => walk[k][At(j)] = rest(j)
           S == {k \in Nat : k <= N => Good(k)}
<1>b. N \in Nat
  BY <1>a
<1>3. WalkOf(links, N, walk)
  BY <1>b, WalksExist
<1> HIDE DEF walk, N
<1>4. ASSUME NEW k \in 0 .. N, NEW m \in 0 .. MaxElements
      PROVE  walk[k][m] = IF m = NoElement \/ k = 0 THEN <<>> ELSE <<m>> \o walk[k - 1][links[m]]
  <2> DEFINE before == walk[k - 1]
  <2>1. walk[k] = [q \in 0 .. MaxElements |->
                     IF q = NoElement \/ k = 0 THEN <<>> ELSE <<q>> \o before[links[q]]]
    BY <1>3 DEF WalkOf
  <2> HIDE DEF before
  <2>2. walk[k][m] = IF m = NoElement \/ k = 0 THEN <<>> ELSE <<m>> \o before[links[m]]
    BY <2>1
  <2> QED BY <2>2 DEF before
<1>5. ASSUME NEW j \in 0 .. Len(s) PROVE At(j) \in 0 .. MaxElements /\ (j # 0 => At(j) # NoElement)
  <2>1. j # 0 => Len(s) - j + 1 \in 1 .. Len(s)
    BY <1>a
  <2>2. j # 0 => At(j) \in ElementNumbers
    BY <1>a, <2>1
  <2> QED BY <1>a, <2>2 DEF ElementNumbers, NoElement
<1>6. rest(0) = <<>>
  BY <1>a, SubSeqEmpty
<1>7. 0 \in S
  <2>1. walk[0][At(0)] = <<>>
    <3>1. 0 \in 0 .. N /\ 0 \in 0 .. Len(s)
      BY <1>a, <1>b
    <3>2. At(0) \in 0 .. MaxElements
      BY <1>5, <3>1
    <3> HIDE DEF At
    <3> QED BY <1>4, <3>1, <3>2
  <2>2. Good(0)
    <3>1. \A j \in 0 .. Len(s) : j <= 0 => j = 0
      BY <1>a
    <3> HIDE DEF At, rest
    <3> QED BY <1>6, <2>1, <3>1
  <2> HIDE DEF Good
  <2> QED BY <2>2
<1>8. ASSUME NEW k \in Nat, k \in S PROVE k + 1 \in S
  <2> SUFFICES ASSUME k + 1 <= N PROVE Good(k + 1)
    <3> HIDE DEF Good
    <3> QED OBVIOUS
  <2> SUFFICES ASSUME NEW j \in 0 .. Len(s), j <= k + 1 PROVE walk[k + 1][At(j)] = rest(j)
    OBVIOUS
  <2>1. Good(k) /\ k + 1 \in 0 .. N /\ (k + 1) - 1 = k /\ k + 1 # 0
    <3> HIDE DEF Good
    <3> QED BY <1>b, <1>8
  <2>2. CASE j = 0
    <3>1. At(0) = NoElement /\ At(0) \in 0 .. MaxElements
      BY <1>5, <2>2
    <3>2. walk[k + 1][At(0)] = <<>>
      BY <1>4, <2>1, <3>1
    <3> QED BY <1>6, <2>2, <3>2
  <2>3. CASE j # 0
    <3> DEFINE i == Len(s) - j + 1
    <3>1. i \in 1 .. Len(s) /\ At(j) = s[i] /\ j - 1 \in 0 .. Len(s) /\ j - 1 <= k
          /\ (i = Len(s) <=> j - 1 = 0) /\ Len(s) - (j - 1) + 1 = i + 1
      BY <1>a, <2>3
    <3>2. links[s[i]] = At(j - 1)
      BY <3>1
    <3>3. walk[k][At(j - 1)] = rest(j - 1)
      BY <2>1, <3>1
    <3>4. rest(j - 1) = SubSeq(s, i + 1, Len(s)) /\ rest(j) = SubSeq(s, i, Len(s))
      BY <3>1
    <3>5. SubSeq(s, i, Len(s)) = <<s[i]>> \o SubSeq(s, i + 1, Len(s))
      <4>1. Len(s) \in i .. Len(s)
        BY <1>a, <3>1
      <4> QED BY <3>1, <4>1, SubSeqRecursiveFirst
    <3>6. At(j) \in 0 .. MaxElements /\ At(j) # NoElement
      BY <1>5, <2>3
    <3> HIDE DEF i, At, rest
    <3>7. walk[k + 1][At(j)] = <<At(j)>> \o walk[k][links[At(j)]]
      BY <1>4, <2>1, <3>6
    <3> QED BY <3>1, <3>2, <3>3, <3>4, <3>5, <3>7
  <2> QED BY <2>2, <2>3
<1>9. Good(N)
  <2> HIDE DEF Good
  <2>1. Nat \subseteq S
    <3> HIDE DEF S
    <3> QED BY <1>7, <1>8, Induction
  <2> QED BY <1>a, <2>1 DEF N
<1>10. walk[N][At(Len(s))] = rest(Len(s))
  <2>1. Len(s) \in 0 .. Len(s) /\ Len(s) <= N
    BY <1>a, <1>2 DEF N
  <2> HIDE DEF At, rest
  <2> QED BY <1>9, <2>1
<1>11. rest(Len(s)) = s
  <2>1. Len(s) - Len(s) + 1 = 1
    BY <1>a
  <2> QED BY <2>1, SubSeqFull
<1>12. At(Len(s)) = IF s = <<>> THEN NoElement ELSE s[1]
  BY <1>a, EmptySeq
<1>13. \A n : Along(links, n) = walk[N][n]
  BY DEF Along, walk, WalkOf, N
<1> QED BY <1>10, <1>11, <1>12, <1>13

(* What a list holds with an element put before it.                        *)
LEMMA InFrontIs ==
  ASSUME NEW S, NEW T, S \subseteq T, NEW s \in Seq(S), NEW e \in T, Distinct(s), ~Holds(s, e)
  PROVE  /\ <<e>> \o s \in Seq(T) /\ Distinct(<<e>> \o s)
         /\ Len(<<e>> \o s) = Len(s) + 1 /\ (<<e>> \o s)[1] = e
         /\ \A i \in 1 .. Len(s) : (<<e>> \o s)[i + 1] = s[i]
<1> DEFINE a == <<e>> \o s
<1>1. s \in Seq(T) /\ Len(s) \in Nat /\ DOMAIN s = 1 .. Len(s)
  BY SeqMonotonic, LenProperties
<1>2. <<e>> \in Seq(T) /\ Len(<<e>>) = 1 /\ <<e>>[1] = e
  OBVIOUS
<1>3. /\ a \in Seq(T) /\ Len(a) = 1 + Len(s)
      /\ \A i \in 1 .. 1 + Len(s) : a[i] = IF i <= 1 THEN <<e>>[i] ELSE s[i - 1]
  BY <1>1, <1>2, ConcatProperties
<1>4. DOMAIN a = 1 .. 1 + Len(s)
  BY <1>3, LenProperties
<1> HIDE DEF a
<1>5. 1 \in 1 .. 1 + Len(s) /\ a[1] = e
  BY <1>1, <1>2, <1>3
<1>6. ASSUME NEW i \in 1 .. 1 + Len(s)
      PROVE  i = 1 \/ (i - 1 \in 1 .. Len(s) /\ a[i] = s[i - 1])
  BY <1>1, <1>3
<1>7. \A i \in 1 .. Len(s) : a[i + 1] = s[i]
  <2> SUFFICES ASSUME NEW i \in 1 .. Len(s) PROVE a[i + 1] = s[i]
    OBVIOUS
  <2>1. i + 1 \in 1 .. 1 + Len(s) /\ i + 1 # 1 /\ (i + 1) - 1 = i
    BY <1>1
  <2> QED BY <1>6, <2>1
<1>8. Distinct(a)
  <2> SUFFICES ASSUME NEW i \in 1 .. 1 + Len(s), NEW j \in 1 .. 1 + Len(s), a[i] = a[j]
               PROVE  i = j
    BY <1>4 DEF Distinct
  <2>1. CASE i = 1 \/ j = 1
    BY <1>1, <1>5, <1>6, <2>1 DEF Holds
  <2>2. CASE i # 1 /\ j # 1
    <3>1. i - 1 = j - 1
      BY <1>1, <1>6, <2>2 DEF Distinct
    <3> QED BY <3>1
  <2> QED BY <2>1, <2>2
<1>9. Len(a) = Len(s) + 1
  BY <1>1, <1>3
<1> QED BY <1>3, <1>5, <1>7, <1>8, <1>9 DEF a

(* What it holds without the last.                                         *)
LEMMA FrontOf ==
  ASSUME NEW S, NEW s \in Seq(S), s # <<>>, Distinct(s)
  PROVE  /\ Front(s) \in Seq(S) /\ Distinct(Front(s)) /\ Len(Front(s)) = Len(s) - 1
         /\ \A i \in 1 .. Len(s) - 1 : Front(s)[i] = s[i]
<1>1. Len(s) \in Nat \ {0} /\ DOMAIN s = 1 .. Len(s) /\ s \in [1 .. Len(s) -> S]
  BY LenProperties, EmptySeq
<1> DEFINE a == Front(s)
<1>2. \A i \in 1 .. Len(s) - 1 : s[i] \in S /\ i \in 1 .. Len(s)
  BY <1>1
<1>3. /\ a \in Seq(S) /\ Len(a) = Len(s) - 1
      /\ \A i \in 1 .. Len(s) - 1 : a[i] = s[i]
  <2> DEFINE n == Len(s) - 1
  <2>1. n \in Int /\ 1 \in Int /\ (\A i \in 1 .. n : s[i] \in S) /\ n - 1 + 1 = n
    BY <1>1, <1>2
  <2>2. (1 <= n \/ n = 0) /\ (\A i \in 1 .. n : 1 + i - 1 = i)
    BY <1>1
  <2> HIDE DEF n
  <2>3. /\ SubSeq(s, 1, n) \in Seq(S)
        /\ Len(SubSeq(s, 1, n)) = IF 1 <= n THEN n - 1 + 1 ELSE 0
        /\ \A i \in 1 .. n - 1 + 1 : SubSeq(s, 1, n)[i] = s[1 + i - 1]
    BY <2>1, SubSeqProperties
  <2>4. Len(SubSeq(s, 1, n)) = n
    BY <2>1, <2>2, <2>3
  <2> QED BY <2>1, <2>2, <2>3, <2>4 DEF Front, n
<1>4. DOMAIN a = 1 .. Len(s) - 1
  BY <1>3, LenProperties
<1> HIDE DEF a
<1>5. Distinct(a)
  BY <1>1, <1>2, <1>3, <1>4 DEF Distinct
<1> QED BY <1>3, <1>5 DEF a

(* A node is linked behind the last one.                                   *)
LEMMA PushBackStep ==
  ASSUME DequeInv, PushBack
  PROVE  DequeInv'
<1> DEFINE n == pushed + 1
           L == Len(deque)
<1>1. /\ pushed < MaxElements /\ pushed' = n
      /\ prevNode' = [prevNode EXCEPT ![n] = dequeTail]
      /\ nextNode' = IF dequeSize = 0 THEN nextNode ELSE [nextNode EXCEPT ![dequeTail] = n]
      /\ dequeHead' = IF dequeSize = 0 THEN n ELSE dequeHead
      /\ dequeTail' = n /\ dequeSize' = dequeSize + 1 /\ deque' = Append(deque, n)
  BY DEF PushBack
<1>2. /\ deque \in Seq(1 .. pushed) /\ Distinct(deque) /\ L \in Nat /\ dequeSize = L
      /\ DOMAIN deque = 1 .. L /\ (L = 0 <=> deque = <<>>)
      /\ \A i \in 1 .. L : deque[i] \in 1 .. pushed
  <2>1. deque \in Seq(1 .. pushed) /\ Distinct(deque) /\ dequeSize = L
    BY DEF DequeInv
  <2> QED BY <2>1, LenProperties, EmptySeq, ElementOfSeq
<1>3. /\ pushed \in 0 .. MaxElements /\ MaxElements \in Nat /\ n \in 0 .. MaxElements
      /\ n \in ElementNumbers /\ n \in 1 .. n /\ n \notin 1 .. pushed /\ n > pushed /\ n # NoElement
      /\ 1 .. pushed \subseteq 1 .. n /\ 1 .. pushed \subseteq ElementNumbers
      /\ \A k \in ElementNumbers : k > n => k > pushed /\ k # n /\ k \notin 1 .. pushed
  <2>1. pushed \in 0 .. MaxElements /\ MaxElements \in Nat /\ pushed < MaxElements
    BY <1>1, QueuesAssumption DEF DequeInv
  <2> QED BY <2>1 DEF ElementNumbers, NoElement
<1>4. ~Holds(deque, n)
  BY <1>2, <1>3 DEF Holds
<1> DEFINE S == 1 .. pushed
           T == 1 .. n
<1>5. S \subseteq T /\ n \in T /\ deque \in Seq(S)
  BY <1>2, <1>3
<1> HIDE DEF n, S, T
<1>6. /\ deque' \in Seq(T) /\ Distinct(deque') /\ Len(deque') = L + 1
      /\ deque'[L + 1] = n /\ \A i \in 1 .. L : deque'[i] = deque[i]
  <2> HIDE DEF L
  <2>1. Distinct(deque) /\ ~Holds(deque, n) /\ S \subseteq T /\ n \in T /\ deque \in Seq(S)
    BY <1>2, <1>4, <1>5
  <2>2. /\ Append(deque, n) \in Seq(T) /\ Distinct(Append(deque, n))
        /\ Len(Append(deque, n)) = Len(deque) + 1
        /\ \A i \in DOMAIN deque : Append(deque, n)[i] = deque[i]
        /\ Append(deque, n)[Len(deque) + 1] = n
    BY <2>1, AppendedIs
  <2> QED BY <1>1, <1>2, <2>2 DEF L
<1>7. /\ nextNode \in [ElementNumbers -> 0 .. MaxElements]
      /\ prevNode \in [ElementNumbers -> 0 .. MaxElements]
      /\ nextNode[n] = NoElement /\ prevNode[n] = NoElement
      /\ dequeTail = (IF L = 0 THEN NoElement ELSE deque[L])
      /\ dequeHead = (IF L = 0 THEN NoElement ELSE deque[1])
  BY <1>2, <1>3 DEF DequeInv
<1>8. /\ \A i \in 1 .. L : nextNode[deque[i]] = IF i = L THEN NoElement ELSE deque[i + 1]
      /\ \A i \in 1 .. L : prevNode[deque[i]] = IF i = 1 THEN NoElement ELSE deque[i - 1]
  BY DEF DequeInv
<1> HIDE DEF L
<1>9. L # 0 => L \in 1 .. L /\ 1 \in 1 .. L /\ L + 1 # 1 /\ deque[L] \in 1 .. pushed
               /\ deque[L] \in ElementNumbers /\ deque[L] # n
  BY <1>2, <1>3
<1>10. dequeTail \in 0 .. MaxElements
  <2>1. NoElement \in 0 .. MaxElements /\ ElementNumbers \subseteq 0 .. MaxElements
    BY <1>3 DEF NoElement, ElementNumbers
  <2> QED BY <1>7, <1>9, <2>1
<1>11. /\ nextNode' \in [ElementNumbers -> 0 .. MaxElements]
       /\ prevNode' \in [ElementNumbers -> 0 .. MaxElements]
       /\ \A k \in ElementNumbers : prevNode'[k] = IF k = n THEN dequeTail ELSE prevNode[k]
       /\ \A k \in ElementNumbers :
            nextNode'[k] = IF L # 0 /\ k = deque[L] THEN n ELSE nextNode[k]
  BY <1>1, <1>2, <1>3, <1>7, <1>9, <1>10
<1>12. ASSUME NEW i \in 1 .. L
       PROVE  /\ deque'[i] = deque[i] /\ deque[i] \in ElementNumbers /\ deque[i] # n
              /\ i # L + 1 /\ (i = L <=> deque[i] = deque[L])
  <2>1. L # 0
    BY <1>2
  <2>2. i = L <=> deque[i] = deque[L]
    BY <1>2, <1>9, <2>1 DEF Distinct
  <2> QED BY <1>2, <1>3, <1>6, <2>2
<1>13. \A i \in 1 .. L + 1 : i \in 1 .. L \/ i = L + 1
  BY <1>2
<1>14. ASSUME NEW i \in 1 .. L + 1
       PROVE  nextNode'[deque'[i]] = IF i = L + 1 THEN NoElement ELSE deque'[i + 1]
  <2>1. CASE i = L + 1
    <3>1. deque'[i] = n /\ nextNode'[n] = nextNode[n]
      BY <1>3, <1>6, <1>9, <1>11, <2>1
    <3> QED BY <1>7, <2>1, <3>1
  <2>2. CASE i \in 1 .. L /\ i = L
    <3>1. nextNode'[deque'[i]] = n /\ deque'[i + 1] = n
      BY <1>2, <1>6, <1>11, <1>12, <2>2
    <3> QED BY <1>12, <2>2, <3>1
  <2>3. CASE i \in 1 .. L /\ i # L
    <3>1. nextNode'[deque'[i]] = deque[i + 1]
      BY <1>8, <1>11, <1>12, <2>3
    <3>2. i + 1 \in 1 .. L
      BY <1>2, <2>3
    <3> QED BY <1>6, <1>12, <2>3, <3>1, <3>2
  <2> QED BY <1>13, <2>1, <2>2, <2>3
<1>15. ASSUME NEW i \in 1 .. L + 1
       PROVE  prevNode'[deque'[i]] = IF i = 1 THEN NoElement ELSE deque'[i - 1]
  <2>1. CASE i = L + 1
    <3>1. prevNode'[deque'[i]] = dequeTail
      BY <1>3, <1>6, <1>11, <2>1
    <3>2. i - 1 = L /\ (i = 1 <=> L = 0)
      BY <1>2, <2>1
    <3> QED BY <1>7, <1>9, <1>12, <3>1, <3>2
  <2>2. CASE i \in 1 .. L
    <3>1. prevNode'[deque'[i]] = prevNode[deque[i]]
      BY <1>11, <1>12, <2>2
    <3>2. i # 1 => i - 1 \in 1 .. L
      BY <1>2, <2>2
    <3> QED BY <1>6, <1>8, <2>2, <3>1, <3>2
  <2> QED BY <1>13, <2>1, <2>2
<1>16. \A k \in ElementNumbers : k > n => nextNode'[k] = NoElement /\ prevNode'[k] = NoElement
  <2> SUFFICES ASSUME NEW k \in ElementNumbers, k > n
               PROVE  nextNode'[k] = NoElement /\ prevNode'[k] = NoElement
    OBVIOUS
  <2>1. k > pushed /\ k # n /\ (L # 0 => k # deque[L])
    BY <1>3, <1>9
  <2>2. nextNode[k] = NoElement /\ prevNode[k] = NoElement
    BY <2>1 DEF DequeInv
  <2> QED BY <1>11, <2>1, <2>2
<1>17. /\ dequeHead' = (IF deque' = <<>> THEN NoElement ELSE deque'[1])
       /\ dequeTail' = (IF deque' = <<>> THEN NoElement ELSE deque'[Len(deque')])
  <2>1. deque' # <<>>
    BY <1>2, <1>6
  <2>2. CASE L = 0
    <3>1. dequeHead' = n /\ deque'[1] = n
      BY <1>1, <1>2, <1>6, <2>2
    <3> QED BY <1>1, <1>6, <2>1, <3>1
  <2>3. CASE L # 0
    <3>1. dequeHead' = deque[1] /\ deque'[1] = deque[1]
      BY <1>1, <1>2, <1>7, <1>9, <1>12, <2>3
    <3> QED BY <1>1, <1>6, <2>1, <3>1
  <2> QED BY <2>2, <2>3
<1>18. dequeSize' = Len(deque') /\ pushed' = n /\ deque' \in Seq(1 .. n)
  BY <1>1, <1>2, <1>6 DEF T
<1> QED BY <1>3, <1>6, <1>11, <1>14, <1>15, <1>16, <1>17, <1>18 DEF DequeInv

(* A node is linked before the first one.                                  *)
LEMMA PushFrontStep ==
  ASSUME DequeInv, PushFront
  PROVE  DequeInv'
<1> DEFINE n == pushed + 1
           L == Len(deque)
<1>1. /\ pushed < MaxElements /\ pushed' = n
      /\ nextNode' = [nextNode EXCEPT ![n] = dequeHead]
      /\ prevNode' = IF dequeSize = 0 THEN prevNode ELSE [prevNode EXCEPT ![dequeHead] = n]
      /\ dequeTail' = IF dequeSize = 0 THEN n ELSE dequeTail
      /\ dequeHead' = n /\ dequeSize' = dequeSize + 1 /\ deque' = <<n>> \o deque
  BY DEF PushFront
<1>2. /\ deque \in Seq(1 .. pushed) /\ Distinct(deque) /\ L \in Nat /\ dequeSize = L
      /\ DOMAIN deque = 1 .. L /\ (L = 0 <=> deque = <<>>)
      /\ \A i \in 1 .. L : deque[i] \in 1 .. pushed
  <2>1. deque \in Seq(1 .. pushed) /\ Distinct(deque) /\ dequeSize = L
    BY DEF DequeInv
  <2> QED BY <2>1, LenProperties, EmptySeq, ElementOfSeq
<1>3. /\ pushed \in 0 .. MaxElements /\ MaxElements \in Nat /\ n \in 0 .. MaxElements
      /\ n \in ElementNumbers /\ n \in 1 .. n /\ n \notin 1 .. pushed /\ n > pushed /\ n # NoElement
      /\ 1 .. pushed \subseteq 1 .. n /\ 1 .. pushed \subseteq ElementNumbers
      /\ \A k \in ElementNumbers : k > n => k > pushed /\ k # n /\ k \notin 1 .. pushed
  <2>1. pushed \in 0 .. MaxElements /\ MaxElements \in Nat /\ pushed < MaxElements
    BY <1>1, QueuesAssumption DEF DequeInv
  <2> QED BY <2>1 DEF ElementNumbers, NoElement
<1>4. ~Holds(deque, n)
  BY <1>2, <1>3 DEF Holds
<1> DEFINE S == 1 .. pushed
           T == 1 .. n
<1>5. S \subseteq T /\ n \in T /\ deque \in Seq(S)
  BY <1>2, <1>3
<1> HIDE DEF n, S, T
<1>6. /\ deque' \in Seq(T) /\ Distinct(deque') /\ Len(deque') = L + 1
      /\ deque'[1] = n /\ \A i \in 1 .. L : deque'[i + 1] = deque[i]
  <2> HIDE DEF L
  <2>1. Distinct(deque) /\ ~Holds(deque, n) /\ S \subseteq T /\ n \in T /\ deque \in Seq(S)
    BY <1>2, <1>4, <1>5
  <2>2. /\ <<n>> \o deque \in Seq(T) /\ Distinct(<<n>> \o deque)
        /\ Len(<<n>> \o deque) = Len(deque) + 1 /\ (<<n>> \o deque)[1] = n
        /\ \A i \in 1 .. Len(deque) : (<<n>> \o deque)[i + 1] = deque[i]
    BY <2>1, InFrontIs, SMTT(60)
  <2>3. deque' = <<n>> \o deque
    BY <1>1
  <2> QED BY <1>2, <2>2, <2>3 DEF L
<1>7. /\ nextNode \in [ElementNumbers -> 0 .. MaxElements]
      /\ prevNode \in [ElementNumbers -> 0 .. MaxElements]
      /\ nextNode[n] = NoElement /\ prevNode[n] = NoElement
      /\ dequeTail = (IF L = 0 THEN NoElement ELSE deque[L])
      /\ dequeHead = (IF L = 0 THEN NoElement ELSE deque[1])
  BY <1>2, <1>3 DEF DequeInv
<1>8. /\ \A i \in 1 .. L : nextNode[deque[i]] = IF i = L THEN NoElement ELSE deque[i + 1]
      /\ \A i \in 1 .. L : prevNode[deque[i]] = IF i = 1 THEN NoElement ELSE deque[i - 1]
  BY DEF DequeInv
<1> HIDE DEF L
<1>9. L # 0 => L \in 1 .. L /\ 1 \in 1 .. L /\ L + 1 # 1 /\ deque[1] \in 1 .. pushed
               /\ deque[1] \in ElementNumbers /\ deque[1] # n
  BY <1>2, <1>3
<1>10. dequeHead \in 0 .. MaxElements
  <2>1. NoElement \in 0 .. MaxElements /\ ElementNumbers \subseteq 0 .. MaxElements
    BY <1>3 DEF NoElement, ElementNumbers
  <2> QED BY <1>7, <1>9, <2>1
<1>11. /\ nextNode' \in [ElementNumbers -> 0 .. MaxElements]
       /\ prevNode' \in [ElementNumbers -> 0 .. MaxElements]
       /\ \A k \in ElementNumbers : nextNode'[k] = IF k = n THEN dequeHead ELSE nextNode[k]
       /\ \A k \in ElementNumbers :
            prevNode'[k] = IF L # 0 /\ k = deque[1] THEN n ELSE prevNode[k]
  BY <1>1, <1>2, <1>3, <1>7, <1>9, <1>10
<1>12. ASSUME NEW i \in 1 .. L
       PROVE  /\ deque'[i + 1] = deque[i] /\ deque[i] \in ElementNumbers /\ deque[i] # n
              /\ (i = 1 <=> deque[i] = deque[1])
  <2>1. L # 0
    BY <1>2
  <2>2. i = 1 <=> deque[i] = deque[1]
    BY <1>2, <1>9, <2>1 DEF Distinct
  <2> QED BY <1>2, <1>3, <1>6, <2>2
<1>13. \A i \in 1 .. L + 1 : i = 1 \/ (i - 1 \in 1 .. L /\ (i - 1) + 1 = i)
  BY <1>2
<1>14. ASSUME NEW i \in 1 .. L + 1
       PROVE  nextNode'[deque'[i]] = IF i = L + 1 THEN NoElement ELSE deque'[i + 1]
  <2>1. CASE i = 1
    <3>1. nextNode'[deque'[i]] = dequeHead
      BY <1>3, <1>6, <1>11, <2>1
    <3>2. i = L + 1 <=> L = 0
      BY <1>2, <2>1
    <3>3. L # 0 => deque'[i + 1] = deque[1]
      BY <1>9, <1>12, <2>1
    <3> QED BY <1>7, <3>1, <3>2, <3>3
  <2>2. CASE i - 1 \in 1 .. L /\ (i - 1) + 1 = i
    <3>1. deque'[i] = deque[i - 1] /\ nextNode'[deque'[i]] = nextNode[deque[i - 1]]
      BY <1>11, <1>12, <2>2
    <3>2. i - 1 = L <=> i = L + 1
      BY <1>2
    <3>3. i - 1 # L => i \in 1 .. L
      BY <1>2, <2>2
    <3> QED BY <1>6, <1>8, <2>2, <3>1, <3>2, <3>3
  <2> QED BY <1>13, <2>1, <2>2
<1>15. ASSUME NEW i \in 1 .. L + 1
       PROVE  prevNode'[deque'[i]] = IF i = 1 THEN NoElement ELSE deque'[i - 1]
  <2>1. CASE i = 1
    <3>1. deque'[i] = n /\ prevNode'[n] = prevNode[n]
      BY <1>3, <1>6, <1>9, <1>11, <2>1
    <3> QED BY <1>7, <2>1, <3>1
  <2>2. CASE i - 1 \in 1 .. L /\ (i - 1) + 1 = i
    <3> DEFINE j == i - 1
    <3>1. j \in 1 .. L /\ i = j + 1 /\ L # 0 /\ i # 1
      BY <1>2, <2>2
    <3> HIDE DEF j
    <3>2. deque'[i] = deque[j] /\ deque[j] \in ElementNumbers
      BY <1>12, <3>1
    <3>3. CASE j = 1
      <4>1. prevNode'[deque'[i]] = n
        BY <1>11, <3>1, <3>2, <3>3
      <4> QED BY <1>6, <3>1, <3>3, <4>1 DEF j
    <3>4. CASE j # 1
      <4>1. prevNode'[deque'[i]] = deque[j - 1]
        BY <1>8, <1>11, <1>12, <3>1, <3>2, <3>4
      <4>2. j - 1 \in 1 .. L /\ (j - 1) + 1 = j
        BY <1>2, <3>1, <3>4
      <4>3. deque'[j] = deque[j - 1]
        BY <1>6, <4>2
      <4> QED BY <3>1, <4>1, <4>3 DEF j
    <3> QED BY <3>3, <3>4
  <2> QED BY <1>13, <2>1, <2>2
<1>16. \A k \in ElementNumbers : k > n => nextNode'[k] = NoElement /\ prevNode'[k] = NoElement
  <2> SUFFICES ASSUME NEW k \in ElementNumbers, k > n
               PROVE  nextNode'[k] = NoElement /\ prevNode'[k] = NoElement
    OBVIOUS
  <2>1. k > pushed /\ k # n /\ (L # 0 => k # deque[1])
    BY <1>3, <1>9
  <2>2. nextNode[k] = NoElement /\ prevNode[k] = NoElement
    BY <2>1 DEF DequeInv
  <2> QED BY <1>11, <2>1, <2>2
<1>17. /\ dequeHead' = (IF deque' = <<>> THEN NoElement ELSE deque'[1])
       /\ dequeTail' = (IF deque' = <<>> THEN NoElement ELSE deque'[Len(deque')])
  <2>1. deque' # <<>>
    BY <1>2, <1>6
  <2>2. CASE L = 0
    <3>1. dequeTail' = n /\ Len(deque') = 1
      BY <1>1, <1>2, <1>6, <2>2
    <3> QED BY <1>1, <1>6, <2>1, <3>1
  <2>3. CASE L # 0
    <3>1. dequeTail' = deque[L] /\ deque'[L + 1] = deque[L]
      BY <1>1, <1>2, <1>7, <1>9, <1>12, <2>3
    <3> QED BY <1>1, <1>6, <2>1, <3>1
  <2> QED BY <2>2, <2>3
<1>18. dequeSize' = Len(deque') /\ pushed' = n /\ deque' \in Seq(1 .. n)
  BY <1>1, <1>2, <1>6 DEF T
<1> QED BY <1>3, <1>6, <1>11, <1>14, <1>15, <1>16, <1>17, <1>18 DEF DequeInv

(* The last node is cut off.                                               *)
LEMMA PopBackStep ==
  ASSUME DequeInv, PopBack
  PROVE  DequeInv'
<1> DEFINE L == Len(deque)
           last == prevNode[dequeTail]
<1>1. /\ dequeSize > 0
      /\ dequeHead' = IF dequeHead = dequeTail THEN NoElement ELSE dequeHead
      /\ dequeTail' = IF dequeHead = dequeTail THEN NoElement ELSE last
      /\ nextNode' = IF dequeHead = dequeTail THEN nextNode ELSE [nextNode EXCEPT ![last] = NoElement]
      /\ dequeSize' = dequeSize - 1 /\ deque' = Front(deque)
      /\ prevNode' = prevNode /\ pushed' = pushed
  BY DEF PopBack
<1>2. /\ deque \in Seq(1 .. pushed) /\ Distinct(deque) /\ L \in Nat \ {0} /\ dequeSize = L
      /\ DOMAIN deque = 1 .. L /\ deque # <<>>
      /\ \A i \in 1 .. L : deque[i] \in 1 .. pushed
  <2>1. deque \in Seq(1 .. pushed) /\ Distinct(deque) /\ dequeSize = L
    BY DEF DequeInv
  <2>2. L \in Nat /\ DOMAIN deque = 1 .. L /\ \A i \in 1 .. L : deque[i] \in 1 .. pushed
    BY <2>1, LenProperties, ElementOfSeq
  <2>3. deque # <<>>
    BY <1>1, <2>1
  <2> QED BY <1>1, <2>1, <2>2, <2>3
<1>3. /\ deque' \in Seq(1 .. pushed) /\ Distinct(deque') /\ Len(deque') = L - 1
      /\ \A i \in 1 .. L - 1 : deque'[i] = deque[i]
  BY <1>1, <1>2, FrontOf
<1>4. /\ nextNode \in [ElementNumbers -> 0 .. MaxElements]
      /\ prevNode \in [ElementNumbers -> 0 .. MaxElements]
      /\ dequeTail = deque[L] /\ dequeHead = deque[1]
      /\ pushed \in 0 .. MaxElements /\ MaxElements \in Nat
  BY <1>2, QueuesAssumption DEF DequeInv
<1>5. /\ \A i \in 1 .. L : nextNode[deque[i]] = IF i = L THEN NoElement ELSE deque[i + 1]
      /\ \A i \in 1 .. L : prevNode[deque[i]] = IF i = 1 THEN NoElement ELSE deque[i - 1]
      /\ \A k \in ElementNumbers : k > pushed => nextNode[k] = NoElement /\ prevNode[k] = NoElement
  BY DEF DequeInv
<1>6. /\ NoElement \in 0 .. MaxElements /\ 1 .. pushed \subseteq ElementNumbers
      /\ \A k \in ElementNumbers : k > pushed => k \notin 1 .. pushed
  BY <1>4 DEF NoElement, ElementNumbers
<1> HIDE DEF L, last
<1>7. L \in 1 .. L /\ 1 \in 1 .. L /\ (dequeHead = dequeTail <=> L = 1)
  <2>1. L \in 1 .. L /\ 1 \in 1 .. L
    BY <1>2
  <2> QED BY <1>2, <1>4, <2>1 DEF Distinct
<1>8. CASE L = 1
  <2>1. deque' = <<>>
    <3>1. Len(deque') = 0
      BY <1>3, <1>8
    <3> QED BY <1>3, <3>1, EmptySeq
  <2>2. dequeHead' = NoElement /\ dequeTail' = NoElement /\ nextNode' = nextNode
        /\ dequeSize' = Len(deque')
    BY <1>1, <1>2, <1>3, <1>7, <1>8
  <2>3. 1 .. Len(deque') = {}
    BY <2>1
  <2> QED BY <1>1, <1>3, <1>4, <1>5, <2>1, <2>2, <2>3 DEF DequeInv
<1>9. CASE L # 1
  <2>1. /\ last = deque[L - 1] /\ L - 1 \in 1 .. L /\ L - 1 \in 1 .. L - 1 /\ 1 \in 1 .. L - 1
        /\ \A i \in 1 .. L - 1 : i \in 1 .. L /\ i # L
        /\ \A i \in 1 .. L - 1 : i # L - 1 => i + 1 \in 1 .. L - 1
        /\ \A i \in 1 .. L - 1 : i # 1 => i - 1 \in 1 .. L - 1
    <3>1. L - 1 \in 1 .. L /\ L - 1 \in 1 .. L - 1 /\ 1 \in 1 .. L - 1
          /\ (\A i \in 1 .. L - 1 : i \in 1 .. L /\ i # L)
          /\ (\A i \in 1 .. L - 1 : i # L - 1 => i + 1 \in 1 .. L - 1)
          /\ (\A i \in 1 .. L - 1 : i # 1 => i - 1 \in 1 .. L - 1)
      BY <1>2, <1>9
    <3>2. last = deque[L - 1]
      BY <1>4, <1>5, <1>7, <1>9 DEF last
    <3> QED BY <3>1, <3>2
  <2>2. last \in 1 .. pushed /\ last \in ElementNumbers
    BY <1>2, <1>6, <2>1
  <2>3. /\ dequeHead' = deque'[1] /\ dequeTail' = deque'[L - 1]
        /\ nextNode' = [nextNode EXCEPT ![last] = NoElement] /\ dequeSize' = L - 1
    BY <1>1, <1>2, <1>3, <1>4, <1>7, <1>9, <2>1
  <2>4. /\ nextNode' \in [ElementNumbers -> 0 .. MaxElements]
        /\ \A k \in ElementNumbers : nextNode'[k] = IF k = last THEN NoElement ELSE nextNode[k]
    BY <1>4, <1>6, <2>3
  <2>5. ASSUME NEW i \in 1 .. L - 1
        PROVE  nextNode'[deque'[i]] = IF i = L - 1 THEN NoElement ELSE deque'[i + 1]
    <3>1. deque'[i] = deque[i] /\ deque[i] \in ElementNumbers /\ i \in 1 .. L /\ i # L
      BY <1>2, <1>3, <1>6, <2>1
    <3>2. i = L - 1 <=> deque[i] = last
      BY <1>2, <2>1, <3>1 DEF Distinct
    <3>3. nextNode[deque[i]] = deque[i + 1]
      BY <1>5, <3>1
    <3>4. i # L - 1 => deque'[i + 1] = deque[i + 1]
      BY <1>3, <2>1
    <3> QED BY <2>4, <3>1, <3>2, <3>3, <3>4
  <2>6. ASSUME NEW i \in 1 .. L - 1
        PROVE  prevNode'[deque'[i]] = IF i = 1 THEN NoElement ELSE deque'[i - 1]
    <3>1. deque'[i] = deque[i] /\ i \in 1 .. L
      BY <1>3, <2>1
    <3>2. i # 1 => deque'[i - 1] = deque[i - 1]
      BY <1>3, <2>1
    <3> QED BY <1>1, <1>5, <3>1, <3>2
  <2>7. \A k \in ElementNumbers : k > pushed => nextNode'[k] = NoElement /\ prevNode'[k] = NoElement
    BY <1>1, <1>5, <2>4
  <2>8. deque' # <<>>
    BY <1>2, <1>3, <1>9
  <2> QED BY <1>1, <1>3, <1>4, <2>3, <2>4, <2>5, <2>6, <2>7, <2>8 DEF DequeInv
<1> QED BY <1>8, <1>9

(* The first node is cut off.                                              *)
LEMMA PopFrontStep ==
  ASSUME DequeInv, PopFront
  PROVE  DequeInv'
<1> DEFINE L == Len(deque)
           first == nextNode[dequeHead]
<1>1. /\ dequeSize > 0
      /\ dequeTail' = IF dequeHead = dequeTail THEN NoElement ELSE dequeTail
      /\ dequeHead' = IF dequeHead = dequeTail THEN NoElement ELSE first
      /\ prevNode' = IF dequeHead = dequeTail THEN prevNode ELSE [prevNode EXCEPT ![first] = NoElement]
      /\ dequeSize' = dequeSize - 1 /\ deque' = Tail(deque)
      /\ nextNode' = nextNode /\ pushed' = pushed
  BY DEF PopFront
<1>2. /\ deque \in Seq(1 .. pushed) /\ Distinct(deque) /\ L \in Nat \ {0} /\ dequeSize = L
      /\ DOMAIN deque = 1 .. L /\ deque # <<>>
      /\ \A i \in 1 .. L : deque[i] \in 1 .. pushed
  <2>1. deque \in Seq(1 .. pushed) /\ Distinct(deque) /\ dequeSize = L
    BY DEF DequeInv
  <2>2. L \in Nat /\ DOMAIN deque = 1 .. L /\ \A i \in 1 .. L : deque[i] \in 1 .. pushed
    BY <2>1, LenProperties, ElementOfSeq
  <2>3. deque # <<>>
    BY <1>1, <2>1
  <2> QED BY <1>1, <2>1, <2>2, <2>3
<1>3. /\ deque' \in Seq(1 .. pushed) /\ Distinct(deque') /\ Len(deque') = L - 1
      /\ \A i \in 1 .. L - 1 : deque'[i] = deque[i + 1]
  BY <1>1, <1>2, TailIs
<1>4. /\ nextNode \in [ElementNumbers -> 0 .. MaxElements]
      /\ prevNode \in [ElementNumbers -> 0 .. MaxElements]
      /\ dequeTail = deque[L] /\ dequeHead = deque[1]
      /\ pushed \in 0 .. MaxElements /\ MaxElements \in Nat
  BY <1>2, QueuesAssumption DEF DequeInv
<1>5. /\ \A i \in 1 .. L : nextNode[deque[i]] = IF i = L THEN NoElement ELSE deque[i + 1]
      /\ \A i \in 1 .. L : prevNode[deque[i]] = IF i = 1 THEN NoElement ELSE deque[i - 1]
      /\ \A k \in ElementNumbers : k > pushed => nextNode[k] = NoElement /\ prevNode[k] = NoElement
  BY DEF DequeInv
<1>6. /\ NoElement \in 0 .. MaxElements /\ 1 .. pushed \subseteq ElementNumbers
      /\ \A k \in ElementNumbers : k > pushed => k \notin 1 .. pushed
  BY <1>4 DEF NoElement, ElementNumbers
<1> HIDE DEF L, first
<1>7. L \in 1 .. L /\ 1 \in 1 .. L /\ (dequeHead = dequeTail <=> L = 1)
  <2>1. L \in 1 .. L /\ 1 \in 1 .. L
    BY <1>2
  <2> QED BY <1>2, <1>4, <2>1 DEF Distinct
<1>8. CASE L = 1
  <2>1. deque' = <<>>
    <3>1. Len(deque') = 0
      BY <1>3, <1>8
    <3> QED BY <1>3, <3>1, EmptySeq
  <2>2. dequeHead' = NoElement /\ dequeTail' = NoElement /\ prevNode' = prevNode
        /\ dequeSize' = Len(deque')
    BY <1>1, <1>2, <1>3, <1>7, <1>8
  <2>3. 1 .. Len(deque') = {}
    BY <2>1
  <2> QED BY <1>1, <1>3, <1>4, <1>5, <2>1, <2>2, <2>3 DEF DequeInv
<1>9. CASE L # 1
  <2>1. /\ first = deque[2] /\ 2 \in 1 .. L /\ 1 \in 1 .. L - 1 /\ L - 1 \in 1 .. L - 1
        /\ L - 1 + 1 = L
        /\ \A i \in 1 .. L - 1 : i + 1 \in 1 .. L /\ i + 1 # 1 /\ (i + 1) - 1 = i
        /\ \A i \in 1 .. L - 1 : i + 1 = L <=> i = L - 1
        /\ \A i \in 1 .. L - 1 : i + 1 = 2 <=> i = 1
        /\ \A i \in 1 .. L - 1 : i # L - 1 => i + 1 \in 1 .. L - 1
        /\ \A i \in 1 .. L - 1 : i # 1 => i - 1 \in 1 .. L - 1 /\ (i - 1) + 1 = i
    <3>1. /\ 2 \in 1 .. L /\ 1 \in 1 .. L - 1 /\ L - 1 \in 1 .. L - 1 /\ L - 1 + 1 = L
          /\ \A i \in 1 .. L - 1 : i + 1 \in 1 .. L /\ i + 1 # 1 /\ (i + 1) - 1 = i
          /\ \A i \in 1 .. L - 1 : i + 1 = L <=> i = L - 1
          /\ \A i \in 1 .. L - 1 : i + 1 = 2 <=> i = 1
          /\ \A i \in 1 .. L - 1 : i # L - 1 => i + 1 \in 1 .. L - 1
          /\ \A i \in 1 .. L - 1 : i # 1 => i - 1 \in 1 .. L - 1 /\ (i - 1) + 1 = i
      BY <1>2, <1>9
    <3>2. first = deque[2]
      BY <1>4, <1>5, <1>7, <1>9 DEF first
    <3> QED BY <3>1, <3>2
  <2>2. first \in 1 .. pushed /\ first \in ElementNumbers
    BY <1>2, <1>6, <2>1
  <2>3. /\ dequeHead' = deque'[1] /\ dequeTail' = deque'[L - 1]
        /\ prevNode' = [prevNode EXCEPT ![first] = NoElement] /\ dequeSize' = L - 1
    <3>1. deque'[1] = deque[2] /\ deque'[L - 1] = deque[L]
      BY <1>3, <2>1
    <3> QED BY <1>1, <1>2, <1>4, <1>7, <1>9, <2>1, <3>1
  <2>4. /\ prevNode' \in [ElementNumbers -> 0 .. MaxElements]
        /\ \A k \in ElementNumbers : prevNode'[k] = IF k = first THEN NoElement ELSE prevNode[k]
    BY <1>4, <1>6, <2>3
  <2>5. ASSUME NEW i \in 1 .. L - 1
        PROVE  prevNode'[deque'[i]] = IF i = 1 THEN NoElement ELSE deque'[i - 1]
    <3>1. deque'[i] = deque[i + 1] /\ deque[i + 1] \in ElementNumbers /\ i + 1 \in 1 .. L
          /\ i + 1 # 1
      BY <1>2, <1>3, <1>6, <2>1
    <3>2. i = 1 <=> deque[i + 1] = first
      BY <1>2, <2>1, <3>1 DEF Distinct
    <3>3. prevNode[deque[i + 1]] = deque[i]
      BY <1>5, <2>1, <3>1
    <3>4. i # 1 => deque'[i - 1] = deque[i]
      BY <1>3, <2>1
    <3> QED BY <2>4, <3>1, <3>2, <3>3, <3>4
  <2>6. ASSUME NEW i \in 1 .. L - 1
        PROVE  nextNode'[deque'[i]] = IF i = L - 1 THEN NoElement ELSE deque'[i + 1]
    <3>1. deque'[i] = deque[i + 1] /\ i + 1 \in 1 .. L
      BY <1>3, <2>1
    <3>2. i # L - 1 => deque'[i + 1] = deque[(i + 1) + 1]
      BY <1>3, <2>1
    <3>3. nextNode[deque[i + 1]] = IF i + 1 = L THEN NoElement ELSE deque[(i + 1) + 1]
      BY <1>5, <3>1
    <3> QED BY <1>1, <2>1, <3>1, <3>2, <3>3
  <2>7. \A k \in ElementNumbers : k > pushed => nextNode'[k] = NoElement /\ prevNode'[k] = NoElement
    BY <1>1, <1>5, <2>4
  <2>8. deque' # <<>>
    BY <1>2, <1>3, <1>9
  <2>9. /\ \A i \in 1 .. Len(deque') :
             nextNode'[deque'[i]] = IF i = Len(deque') THEN NoElement ELSE deque'[i + 1]
        /\ \A i \in 1 .. Len(deque') :
             prevNode'[deque'[i]] = IF i = 1 THEN NoElement ELSE deque'[i - 1]
    BY <1>3, <2>5, <2>6
  <2>10. /\ dequeHead' = (IF deque' = <<>> THEN NoElement ELSE deque'[1])
         /\ dequeTail' = (IF deque' = <<>> THEN NoElement ELSE deque'[Len(deque')])
         /\ dequeSize' = Len(deque')
    BY <1>3, <2>3, <2>8
  <2>11. nextNode' \in [ElementNumbers -> 0 .. MaxElements] /\ pushed' = pushed
    BY <1>1, <1>4
  <2> QED BY <1>3, <1>4, <2>4, <2>7, <2>9, <2>10, <2>11 DEF DequeInv
<1> QED BY <1>8, <1>9

(* Every operation of the deque keeps it linked; so do those of the queues,*)
(* which do not touch it.                                                  *)
LEMMA DequeStep == DequeInv /\ [QueuesNext]_queuesVars => DequeInv'
<1> SUFFICES ASSUME DequeInv, [QueuesNext]_queuesVars PROVE DequeInv'
  OBVIOUS
<1>1. pushed \in 0 .. MaxElements /\ MaxElements \in Nat
  BY QueuesAssumption DEF DequeInv
<1>2. ASSUME UNCHANGED dequeVars, pushed' = pushed \/ (pushed < MaxElements /\ pushed' = pushed + 1)
      PROVE  DequeInv'
  <2>1. /\ pushed' \in 0 .. MaxElements /\ 1 .. pushed \subseteq 1 .. pushed'
        /\ \A k \in ElementNumbers : k > pushed' => k > pushed
    BY <1>1, <1>2 DEF ElementNumbers
  <2>2. deque \in Seq(1 .. pushed')
    BY <2>1, SeqMonotonic DEF DequeInv
  <2>3. UNCHANGED <<dequeHead, dequeTail, nextNode, prevNode, dequeSize, deque>>
    BY <1>2 DEF dequeVars
  <2> QED BY <2>1, <2>2, <2>3 DEF DequeInv
<1>3. CASE ClearDeque
  <2>1. /\ dequeHead' = NoElement /\ dequeTail' = NoElement /\ dequeSize' = 0 /\ deque' = <<>>
        /\ UNCHANGED <<nextNode, prevNode, pushed>>
    BY <1>3 DEF ClearDeque
  <2>2. deque' \in Seq(1 .. pushed) /\ Distinct(deque') /\ Len(deque') = 0
        /\ 1 .. Len(deque') = {}
    BY <2>1 DEF Distinct
  <2> QED BY <2>1, <2>2 DEF DequeInv
<1>4. ASSUME NEW u \in QueueUsers,
             PushElement(u) \/ PopElement(u) \/ PeekTakes(u) \/ PeekPutsBack(u)
      PROVE  DequeInv'
  <2>1. UNCHANGED dequeVars /\ (pushed' = pushed \/ (pushed < MaxElements /\ pushed' = pushed + 1))
    BY <1>4 DEF PushElement, PopElement, PeekTakes, PeekPutsBack
  <2> QED BY <1>2, <2>1
<1>5. ASSUME NEW e \in putBack, GoroutinePutsBack(e) PROVE DequeInv'
  <2>1. UNCHANGED dequeVars /\ pushed' = pushed
    BY <1>5 DEF GoroutinePutsBack
  <2> QED BY <1>2, <2>1
<1>6. CASE UNCHANGED queuesVars
  <2>1. UNCHANGED dequeVars /\ pushed' = pushed
    BY <1>6 DEF queuesVars
  <2> QED BY <1>2, <2>1
<1> QED BY <1>3, <1>4, <1>5, <1>6, PushBackStep, PushFrontStep, PopBackStep, PopFrontStep
        DEF QueuesNext

(* The queues start empty.                                                 *)
LEMMA QueuesInitInv == QueuesInit => ChannelInv /\ DequeInv
<1> SUFFICES ASSUME QueuesInit PROVE ChannelInv /\ DequeInv
  OBVIOUS
<1>1. /\ queued = <<>> /\ taken = <<>> /\ deque = <<>> /\ pushed = 0 /\ dequeSize = 0
      /\ holds = [u \in QueueUsers |-> NoElement] /\ putBack = {} /\ peeked = FALSE
      /\ dequeHead = NoElement /\ dequeTail = NoElement
      /\ nextNode = [n \in ElementNumbers |-> NoElement]
      /\ prevNode = [n \in ElementNumbers |-> NoElement]
      /\ MaxElements \in Nat /\ ChannelCapacity \in Nat
  BY QueuesAssumption DEF QueuesInit
<1>2. /\ 1 .. pushed = {} /\ pushed \in 0 .. MaxElements /\ NoElement \in 0 .. pushed
      /\ NoElement \in 0 .. MaxElements
  BY <1>1 DEF NoElement
<1>3. \A s : s = <<>> => s \in Seq(1 .. pushed) /\ Distinct(s) /\ Len(s) = 0 /\ DOMAIN s = {}
                         /\ 1 .. Len(s) = {}
  BY DEF Distinct
<1>4. ChannelInv
  <2>1. holds \in [QueueUsers -> 0 .. pushed] /\ \A u \in QueueUsers : holds[u] = NoElement
    BY <1>1, <1>2
  <2>2. Len(queued) = 0 /\ Len(taken) = 0
    BY <1>1, <1>3
  <2>3. Len(queued) <= ChannelCapacity /\ Len(taken) + Len(queued) = pushed
    BY <1>1, <2>2
  <2> QED BY <1>1, <1>2, <1>3, <2>1, <2>3 DEF ChannelInv
<1>5. DequeInv
  BY <1>1, <1>2, <1>3 DEF DequeInv
<1> QED BY <1>4, <1>5

(* Along the links forward one finds the deque, along those backward its   *)
(* reverse.                                                                *)
LEMMA DequeInvImplies ==
  ASSUME DequeInv
  PROVE  /\ Along(nextNode, dequeHead) = deque /\ Along(prevNode, dequeTail) = Reverse(deque)
         /\ dequeSize = Len(deque)
<1> DEFINE L == Len(deque)
           back == Reverse(deque)
<1>1. /\ deque \in Seq(1 .. pushed) /\ Distinct(deque) /\ dequeSize = L
      /\ pushed \in 0 .. MaxElements /\ MaxElements \in Nat
      /\ dequeHead = (IF deque = <<>> THEN NoElement ELSE deque[1])
      /\ dequeTail = (IF deque = <<>> THEN NoElement ELSE deque[L])
      /\ \A i \in 1 .. L : nextNode[deque[i]] = IF i = L THEN NoElement ELSE deque[i + 1]
      /\ \A i \in 1 .. L : prevNode[deque[i]] = IF i = 1 THEN NoElement ELSE deque[i - 1]
  BY QueuesAssumption DEF DequeInv
<1>2. 1 .. pushed \subseteq ElementNumbers
  BY <1>1 DEF ElementNumbers
<1>3. /\ deque \in Seq(ElementNumbers) /\ L \in Nat /\ DOMAIN deque = 1 .. L
      /\ deque \in [1 .. L -> ElementNumbers] /\ (L = 0 <=> deque = <<>>)
  <2>1. deque \in Seq(ElementNumbers)
    BY <1>1, <1>2, SeqMonotonic
  <2> QED BY <2>1, LenProperties, EmptySeq
<1>4. Along(nextNode, dequeHead) = deque
  BY <1>1, <1>3, ChainIs
<1>5. \A i \in 1 .. L : L - i + 1 \in 1 .. L
  BY <1>3
<1>6. /\ back = [i \in 1 .. L |-> deque[L - i + 1]]
      /\ \A i \in 1 .. L : back[i] = deque[L - i + 1] /\ back[i] \in ElementNumbers
  BY <1>3, <1>5 DEF Reverse
<1> HIDE DEF back, L
<1>7. back \in [1 .. L -> ElementNumbers]
  BY <1>6
<1>8. back \in Seq(ElementNumbers) /\ Len(back) = L /\ DOMAIN back = 1 .. L
  <2>1. back \in Seq(ElementNumbers)
    BY <1>3, <1>7, SeqDef
  <2>2. DOMAIN back = 1 .. L /\ DOMAIN back = 1 .. Len(back) /\ Len(back) \in Nat
    BY <1>7, <2>1, LenProperties
  <2> QED BY <1>3, <2>1, <2>2
<1>9. Distinct(back)
  <2> SUFFICES ASSUME NEW i \in 1 .. L, NEW j \in 1 .. L, back[i] = back[j] PROVE i = j
    BY <1>8 DEF Distinct
  <2>1. L - i + 1 = L - j + 1
    BY <1>1, <1>3, <1>5, <1>6 DEF Distinct
  <2> QED BY <1>3, <2>1
<1>10. ASSUME NEW i \in 1 .. L
       PROVE  prevNode[back[i]] = IF i = L THEN NoElement ELSE back[i + 1]
  <2>1. prevNode[back[i]] = IF L - i + 1 = 1 THEN NoElement ELSE deque[(L - i + 1) - 1]
    BY <1>1, <1>5, <1>6 DEF L
  <2>2. L - i + 1 = 1 <=> i = L
    BY <1>3
  <2>3. i # L => i + 1 \in 1 .. L /\ L - (i + 1) + 1 = (L - i + 1) - 1
    BY <1>3
  <2> QED BY <1>6, <2>1, <2>2, <2>3
<1>11. dequeTail = IF back = <<>> THEN NoElement ELSE back[1]
  <2>1. back = <<>> <=> L = 0
    BY <1>3, <1>8, EmptySeq
  <2>2. L # 0 => 1 \in 1 .. L /\ L - 1 + 1 = L
    BY <1>3
  <2> QED BY <1>1, <1>3, <1>6, <2>1, <2>2
<1>12. Along(prevNode, dequeTail) = back
  BY <1>8, <1>9, <1>10, <1>11, ChainIs
<1> QED BY <1>1, <1>4, <1>12 DEF back, L

(* Together they say that the queues hold what they should.                *)
LEMMA QueuesInvImplies == ChannelInv /\ DequeInv => QueuesHold
BY ChannelInvImplies, DequeInvImplies, Zenon DEF QueuesHold

--------------------------------------------------------------------------------
(* LockFreeQueue.                                                          *)
USE LockFreeQueueAssumption DEF Nil, Sentinel, Nodes

Pushing == {"push", "pushNext", "pushCheck", "link", "pushHelps"}
Popping == {"pop", "popTail", "popNext", "popCheck", "popHelps", "take"}
Places  == {"idle", "swing", "pushCount", "popCount"} \cup Pushing \cup Popping

Locals == [at : Places, node : 0 .. MaxPushes, head : 0 .. MaxPushes + 1,
           tail : 0 .. MaxPushes + 1, next : 0 .. MaxPushes + 1]

(* The node at a position of the chain.                                    *)
Node(list, i) == IF i = 0 THEN Sentinel ELSE list[i]
Points(list, a, b) == \E i \in 0 .. Len(list) - 1 : a = Node(list, i) /\ b = Node(list, i + 1)

(* The position of the tail.                                               *)
TailAt == IF tail = Node(linked, Len(linked)) THEN Len(linked) ELSE Len(linked) - 1

TypeInv ==
  /\ thread \in [Threads -> Locals]
  /\ next \in [Nodes -> 0 .. MaxPushes]
  /\ pushes \in 0 .. MaxPushes
  /\ linked \in Seq(1 .. MaxPushes) /\ popped \in Seq(1 .. MaxPushes)

(* The chain: no node twice, each one pointing at the following one, what  *)
(* was taken a prefix of it, head and tail in it.                          *)
ChainInv ==
  /\ Distinct(linked)
  /\ \A i \in 1 .. Len(linked) : linked[i] <= pushes
  /\ \A i \in 0 .. Len(linked) - 1 : next[Node(linked, i)] = Node(linked, i + 1)
  /\ \A n \in Nodes : (\A i \in 0 .. Len(linked) - 1 : n # Node(linked, i)) => next[n] = Nil
  /\ Len(popped) <= Len(linked) /\ \A i \in 1 .. Len(popped) : popped[i] = linked[i]
  /\ head = Node(linked, Len(popped))
  /\ tail = Node(linked, TailAt) /\ Len(popped) <= TailAt

(* Whoever pushes has a node of its own that is not linked yet.            *)
OwnsNode(t, list) ==
  thread[t].at \in Pushing =>
    /\ thread[t].node \in 1 .. pushes
    /\ \A i \in 1 .. Len(list) : list[i] # thread[t].node
    /\ \A u \in Threads \ {t} : thread[u].at \in Pushing => thread[u].node # thread[t].node
NodeInv == \A t \in Threads : OwnsNode(t, linked)

(* What a thread has loaded: h is the position of the head, k of the tail. *)
PushLoaded(l, list, k) ==
  /\ l.at \in {"pushNext", "pushCheck", "link", "pushHelps"} =>
       \E i \in 0 .. k : l.tail = Node(list, i)
  /\ l.at = "pushCheck" => l.next = Nil \/ Points(list, l.tail, l.next)
  /\ l.at \in {"pushHelps", "popHelps"} => Points(list, l.tail, l.next)
  /\ l.at = "swing" => Points(list, l.tail, l.node)
PopLoaded(l, list, h, k) ==
  /\ l.at = "popTail" => \E i \in 0 .. h : l.head = Node(list, i)
  /\ l.at \in {"popNext", "popCheck"} =>
       \E i \in 0 .. h : \E j \in i .. k : l.head = Node(list, i) /\ l.tail = Node(list, j)
  /\ l.at = "popCheck" =>
       IF l.next = Nil THEN l.head = l.tail ELSE Points(list, l.head, l.next)
  /\ l.at = "take" =>
       \E i \in 0 .. k - 1 : l.head = Node(list, i) /\ l.next = Node(list, i + 1)
LoadedInv ==
  \A t \in Threads : /\ PushLoaded(thread[t], linked, TailAt)
                     /\ PopLoaded(thread[t], linked, Len(popped), TailAt)

(* Whoever is in Pop while the queue is empty has seen it empty, and       *)
(* finding no node behind the head takes an empty queue.                   *)
EmptyInv ==
  /\ emptySeen \in [Threads -> BOOLEAN] /\ ~lied
  /\ \A t \in Threads :
       /\ thread[t].at \in Popping /\ Len(linked) = Len(popped) => emptySeen[t]
       /\ thread[t].at = "popCheck" /\ thread[t].next = Nil => emptySeen[t]

(* Size lags behind the list by the calls between their compare-and-swap   *)
(* and their addition.                                                     *)
Pushed == {t \in Threads : thread[t].at \in {"swing", "pushCount"}}
Popped == {t \in Threads : thread[t].at = "popCount"}
CountInv ==
  /\ IsFiniteSet(Pushed) /\ IsFiniteSet(Popped)
  /\ count = Len(linked) - Len(popped) - Cardinality(Pushed) + Cardinality(Popped)

ListInv == TypeInv /\ ChainInv /\ NodeInv /\ LoadedInv
LockFreeInv == ListInv /\ EmptyInv /\ CountInv

--------------------------------------------------------------------------------
(* Every position of a chain has a node of its own.                        *)
LEMMA NodesApart ==
  ASSUME NEW list \in Seq(1 .. MaxPushes), Distinct(list)
  PROVE  /\ \A i \in 0 .. Len(list) : Node(list, i) \in Nodes
         /\ \A i, j \in 0 .. Len(list) : Node(list, i) = Node(list, j) => i = j
<1>1. \A i \in 1 .. Len(list) : list[i] \in 1 .. MaxPushes
  OBVIOUS
<1> QED BY <1>1 DEF Distinct, Node

(* A chain that grows at its end keeps its nodes where they are.           *)
LEMMA NodesStay ==
  ASSUME NEW list \in Seq(1 .. MaxPushes), NEW x \in 1 .. MaxPushes
  PROVE  /\ Append(list, x) \in Seq(1 .. MaxPushes) /\ Len(Append(list, x)) = Len(list) + 1
         /\ \A i \in 0 .. Len(list) : Node(Append(list, x), i) = Node(list, i)
         /\ Node(Append(list, x), Len(list) + 1) = x
BY DEF Node

(* Only the last node of the chain has no next one.                        *)
LEMMA LastIsOpen ==
  ASSUME TypeInv, ChainInv
  PROVE  /\ Len(linked) \in Nat /\ Len(popped) \in Nat /\ TailAt \in 0 .. Len(linked)
         /\ TailAt \in {Len(linked), Len(linked) - 1}
         /\ \A i \in 0 .. Len(linked) : (next[Node(linked, i)] = Nil) <=> (i = Len(linked))
<1>1. Len(linked) \in Nat /\ Len(popped) \in Nat
  BY DEF TypeInv
<1>2. /\ \A i \in 0 .. Len(linked) : Node(linked, i) \in Nodes
      /\ \A i, j \in 0 .. Len(linked) : Node(linked, i) = Node(linked, j) => i = j
  BY NodesApart DEF TypeInv, ChainInv
<1>3. TailAt \in 0 .. Len(linked) /\ TailAt \in {Len(linked), Len(linked) - 1}
  BY <1>1 DEF TailAt, ChainInv
<1>4. ASSUME NEW i \in 0 .. Len(linked), i # Len(linked) PROVE next[Node(linked, i)] # Nil
  <2>1. i \in 0 .. Len(linked) - 1 /\ i + 1 \in 1 .. Len(linked)
    BY <1>1, <1>4
  <2>2. next[Node(linked, i)] = linked[i + 1]
    BY <2>1 DEF ChainInv, Node
  <2>3. linked[i + 1] \in 1 .. MaxPushes
    BY <2>1 DEF TypeInv
  <2> QED BY <2>2, <2>3
<1>5. next[Node(linked, Len(linked))] = Nil
  <2>1. \A i \in 0 .. Len(linked) - 1 : Node(linked, Len(linked)) # Node(linked, i)
    BY <1>1, <1>2
  <2>2. Node(linked, Len(linked)) \in Nodes
    BY <1>1, <1>2
  <2>3. \A m \in Nodes : (\A i \in 0 .. Len(linked) - 1 : m # Node(linked, i)) => next[m] = Nil
    BY DEF ChainInv
  <2> QED BY <2>1, <2>2, <2>3
<1> QED BY <1>1, <1>3, <1>4, <1>5

(* What was loaded stays right while the chain grows and head and tail     *)
(* move forward.                                                           *)
LEMMA StillLoaded ==
  ASSUME NEW list \in Seq(1 .. MaxPushes), NEW list2 \in Seq(1 .. MaxPushes),
         list2 = list \/ \E x \in 1 .. MaxPushes : list2 = Append(list, x),
         NEW h \in 0 .. Len(list), NEW h2 \in 0 .. Len(list2), h <= h2,
         NEW k \in 0 .. Len(list), NEW k2 \in 0 .. Len(list2), k <= k2,
         NEW l
  PROVE  /\ PushLoaded(l, list, k) => PushLoaded(l, list2, k2)
         /\ PopLoaded(l, list, h, k) => PopLoaded(l, list2, h2, k2)
<1>1. /\ Len(list) \in Nat /\ Len(list2) \in Nat /\ Len(list) <= Len(list2)
      /\ \A i \in 0 .. Len(list) : Node(list2, i) = Node(list, i)
  <2>1. ASSUME NEW x \in 1 .. MaxPushes, list2 = Append(list, x)
        PROVE  /\ Len(list2) = Len(list) + 1
               /\ \A i \in 0 .. Len(list) : Node(list2, i) = Node(list, i)
    BY <2>1, NodesStay
  <2> QED BY <2>1
<1>2. ASSUME NEW a, NEW b, Points(list, a, b) PROVE Points(list2, a, b)
  <2>1. PICK i \in 0 .. Len(list) - 1 : a = Node(list, i) /\ b = Node(list, i + 1)
    BY <1>2 DEF Points
  <2>2. i \in 0 .. Len(list2) - 1 /\ i \in 0 .. Len(list) /\ i + 1 \in 0 .. Len(list)
    BY <1>1
  <2> QED BY <1>1, <2>1, <2>2 DEF Points
<1>3. \A i \in 0 .. k : i \in 0 .. k2 /\ i \in 0 .. Len(list)
  BY <1>1
<1>4. \A i \in 0 .. h : i \in 0 .. h2 /\ i \in 0 .. Len(list)
  BY <1>1
<1>5. ASSUME PushLoaded(l, list, k) PROVE PushLoaded(l, list2, k2)
  BY <1>1, <1>2, <1>3, <1>5 DEF PushLoaded
<1>6. ASSUME PopLoaded(l, list, h, k) PROVE PopLoaded(l, list2, h2, k2)
  <2>1. l.at = "popTail" => \E i \in 0 .. h2 : l.head = Node(list2, i)
    BY <1>1, <1>4, <1>6 DEF PopLoaded
  <2>2. ASSUME l.at \in {"popNext", "popCheck"}
        PROVE  \E i \in 0 .. h2 : \E j \in i .. k2 : l.head = Node(list2, i) /\ l.tail = Node(list2, j)
    <3>1. PICK i \in 0 .. h : \E j \in i .. k : l.head = Node(list, i) /\ l.tail = Node(list, j)
      BY <1>6, <2>2 DEF PopLoaded
    <3>2. PICK j \in i .. k : l.head = Node(list, i) /\ l.tail = Node(list, j)
      BY <3>1
    <3>3. i \in 0 .. h2 /\ i \in 0 .. Len(list) /\ j \in i .. k2 /\ j \in 0 .. Len(list)
      BY <1>1
    <3> QED BY <1>1, <3>2, <3>3
  <2>3. l.at = "popCheck" => IF l.next = Nil THEN l.head = l.tail ELSE Points(list2, l.head, l.next)
    BY <1>2, <1>6 DEF PopLoaded
  <2>4. ASSUME l.at = "take"
        PROVE  \E i \in 0 .. k2 - 1 : l.head = Node(list2, i) /\ l.next = Node(list2, i + 1)
    <3>1. PICK i \in 0 .. k - 1 : l.head = Node(list, i) /\ l.next = Node(list, i + 1)
      BY <1>6, <2>4 DEF PopLoaded
    <3>2. i \in 0 .. k2 - 1 /\ i \in 0 .. Len(list) /\ i + 1 \in 0 .. Len(list)
      BY <1>1
    <3> QED BY <1>1, <3>1, <3>2
  <2> QED BY <2>1, <2>2, <2>3, <2>4 DEF PopLoaded
<1> QED BY <1>5, <1>6

(* A thread whose compare-and-swap of a node's next succeeds has loaded    *)
(* the last node, which is the tail.                                       *)
LEMMA LinksBehindLast ==
  ASSUME TypeInv, ChainInv, LoadedInv, NEW t \in Threads,
         thread[t].at = "link", next[thread[t].tail] = Nil
  PROVE  thread[t].tail = Node(linked, Len(linked)) /\ TailAt = Len(linked)
<1>1. PICK i \in 0 .. TailAt : thread[t].tail = Node(linked, i)
  BY DEF LoadedInv, PushLoaded
<1>2. i = Len(linked)
  BY <1>1, LastIsOpen
<1> QED BY <1>1, <1>2, LastIsOpen

(* A thread whose compare-and-swap of the head succeeds takes the node     *)
(* behind it, which is not beyond the tail.                                *)
LEMMA TakesOldest ==
  ASSUME TypeInv, ChainInv, LoadedInv, NEW t \in Threads,
         thread[t].at = "take", thread[t].head = head
  PROVE  /\ Len(popped) < TailAt /\ Len(popped) + 1 \in 1 .. Len(linked)
         /\ thread[t].next = linked[Len(popped) + 1]
<1>1. PICK i \in 0 .. TailAt - 1 :
        thread[t].head = Node(linked, i) /\ thread[t].next = Node(linked, i + 1)
  BY DEF LoadedInv, PopLoaded
<1>2. \A p, q \in 0 .. Len(linked) : Node(linked, p) = Node(linked, q) => p = q
  BY NodesApart DEF TypeInv, ChainInv
<1>3. Len(popped) \in 0 .. Len(linked) /\ i \in 0 .. Len(linked)
  BY LastIsOpen DEF ChainInv
<1>4. i = Len(popped)
  BY <1>1, <1>2, <1>3 DEF ChainInv
<1> QED BY <1>1, <1>4, LastIsOpen DEF Node

(* A thread that swings the tail moves it to the following node, the last. *)
LEMMA SwingsForward ==
  ASSUME TypeInv, ChainInv, NEW a, NEW b, Points(linked, a, b), SwingTail(a, b)
  PROVE  \/ UNCHANGED tail
         \/ tail' = Node(linked, Len(linked)) /\ TailAt = Len(linked) - 1
<1>1. PICK i \in 0 .. Len(linked) - 1 : a = Node(linked, i) /\ b = Node(linked, i + 1)
  BY DEF Points
<1>2. CASE tail = a
  <2>1. \A p, q \in 0 .. Len(linked) : Node(linked, p) = Node(linked, q) => p = q
    BY NodesApart DEF TypeInv, ChainInv
  <2>2. i \in 0 .. Len(linked) /\ TailAt \in 0 .. Len(linked)
    BY LastIsOpen
  <2>3. i = TailAt
    BY <1>1, <1>2, <2>1, <2>2 DEF ChainInv
  <2> QED BY <1>1, <1>2, <2>3, LastIsOpen DEF SwingTail
<1> QED BY <1>2 DEF SwingTail

--------------------------------------------------------------------------------
(* Most steps leave the list and the nodes to push alone: they change what *)
(* one thread knows.                                                       *)
Keeps(t) ==
  /\ UNCHANGED <<head, tail, next, linked, popped, pushes>>
  /\ thread' \in [Threads -> Locals]
  /\ \A u \in Threads \ {t} : thread'[u] = thread[u]
  /\ thread'[t].at \in Pushing => thread[t].at \in Pushing /\ thread'[t].node = thread[t].node
  /\ PushLoaded(thread'[t], linked, TailAt) /\ PopLoaded(thread'[t], linked, Len(popped), TailAt)

(* Between two calls and at the begin of Pop nothing is loaded.            *)
LEMMA IdleOrPop ==
  /\ Idle \in Locals /\ Idle.at = "idle"
  /\ \A a \in {"idle", "pop"} :
       [Idle EXCEPT !.at = a] \in Locals /\ [Idle EXCEPT !.at = a].at = a
<1>1. 0 \in 0 .. MaxPushes /\ 0 \in 0 .. MaxPushes + 1 /\ "idle" \in Places /\ "pop" \in Places
  BY DEF Places, Popping
<1> QED BY <1>1 DEF Idle, Locals

(* The loads and the checks of Push keep the invariant.                    *)
LEMMA PushKeeps ==
  ASSUME ListInv, NEW t \in Threads,
         \/ PushLoadsTail(t) \/ PushLoadsNext(t) \/ PushChecks(t)
         \/ (PushLinks(t) /\ linked' = linked) \/ PushCounts(t)
  PROVE  Keeps(t)
<1> USE DEF ListInv, historyVars
<1>t. thread[t] \in Locals /\ thread \in [Threads -> Locals]
  BY DEF TypeInv
<1>l. PushLoaded(thread[t], linked, TailAt)
  BY DEF LoadedInv
<1>c. /\ tail = Node(linked, TailAt) /\ head = Node(linked, Len(popped))
      /\ Len(popped) <= TailAt /\ Len(popped) \in Nat /\ Len(linked) \in Nat
      /\ TailAt \in Nat /\ TailAt <= Len(linked)
  BY LastIsOpen DEF ChainInv, TypeInv
<1>n. /\ \A i \in 0 .. Len(linked) : (next[Node(linked, i)] = Nil) <=> (i = Len(linked))
      /\ \A i \in 0 .. Len(linked) - 1 : next[Node(linked, i)] = Node(linked, i + 1)
      /\ \A i \in 0 .. Len(linked) : Node(linked, i) \in Nodes
      /\ \A n \in Nodes : next[n] \in 0 .. MaxPushes
  BY LastIsOpen, NodesApart DEF ChainInv, TypeInv
<1>1. CASE PushLoadsTail(t)
  <2>1. /\ thread' = [thread EXCEPT ![t] = [thread[t] EXCEPT !.at = "pushNext", !.tail = tail]]
        /\ thread[t].at = "push" /\ UNCHANGED <<head, tail, next, linked, popped, pushes>>
    BY <1>1 DEF PushLoadsTail, Load
  <2>2. /\ thread'[t] = [thread[t] EXCEPT !.at = "pushNext", !.tail = tail]
        /\ tail \in 0 .. MaxPushes + 1
    BY <1>t, <1>c, <1>n, <2>1
  <2>3. /\ thread'[t] \in Locals /\ thread'[t].at = "pushNext" /\ thread'[t].tail = tail
        /\ thread'[t].node = thread[t].node
    BY <1>t, <2>2 DEF Locals, Places, Pushing
  <2>4. PushLoaded(thread'[t], linked, TailAt) /\ PopLoaded(thread'[t], linked, Len(popped), TailAt)
    <3>1. TailAt \in 0 .. TailAt
      BY <1>c
    <3>2. \E i \in 0 .. TailAt : thread'[t].tail = Node(linked, i)
      BY <1>c, <2>3, <3>1
    <3> QED BY <2>3, <3>2 DEF PushLoaded, PopLoaded
  <2> QED BY <1>t, <2>1, <2>3, <2>4 DEF Keeps, Pushing
<1>2. CASE PushLoadsNext(t)
  <2> DEFINE n == next[thread[t].tail]
  <2>1. /\ thread' = [thread EXCEPT ![t] = [thread[t] EXCEPT !.at = "pushCheck", !.next = n]]
        /\ thread[t].at = "pushNext" /\ UNCHANGED <<head, tail, next, linked, popped, pushes>>
    BY <1>2 DEF PushLoadsNext, Load
  <2>2. PICK i \in 0 .. TailAt : thread[t].tail = Node(linked, i)
    BY <1>l, <2>1 DEF PushLoaded
  <2>3. n \in 0 .. MaxPushes + 1 /\ (n = Nil \/ Points(linked, thread[t].tail, n))
    <3>1. i \in 0 .. Len(linked) /\ (i = Len(linked) \/ i \in 0 .. Len(linked) - 1)
      BY <1>c
    <3>2. n = next[Node(linked, i)] /\ Node(linked, i) \in Nodes
      BY <1>n, <2>2, <3>1
    <3>3. n \in 0 .. MaxPushes /\ 0 .. MaxPushes \subseteq 0 .. MaxPushes + 1
      BY <1>n, <3>2
    <3>4. n = Nil \/ Points(linked, thread[t].tail, n)
      BY <1>n, <2>2, <3>1, <3>2 DEF Points
    <3> QED BY <3>3, <3>4
  <2> HIDE DEF n
  <2>4. thread'[t] = [thread[t] EXCEPT !.at = "pushCheck", !.next = n]
    BY <1>t, <2>1
  <2>5. /\ thread'[t] \in Locals /\ thread'[t].at = "pushCheck" /\ thread'[t].tail = thread[t].tail
        /\ thread'[t].node = thread[t].node /\ thread'[t].next = n
    BY <1>t, <2>3, <2>4 DEF Locals, Places, Pushing
  <2>6. PushLoaded(thread'[t], linked, TailAt) /\ PopLoaded(thread'[t], linked, Len(popped), TailAt)
    BY <2>2, <2>3, <2>5 DEF PushLoaded, PopLoaded
  <2> QED BY <1>t, <2>1, <2>5, <2>6 DEF Keeps, Pushing
<1>3. CASE PushChecks(t)
  <2>1. PICK to \in {"push", "link", "pushHelps"} :
           /\ thread' = [thread EXCEPT ![t].at = to]
           /\ to = "pushHelps" => thread[t].next # Nil
           /\ thread[t].at = "pushCheck" /\ UNCHANGED <<head, tail, next, linked, popped, pushes>>
    BY <1>3 DEF PushChecks, Goto
  <2>2. thread'[t] = [thread[t] EXCEPT !.at = to]
    <3>1. thread' = [thread EXCEPT ![t] = [thread[t] EXCEPT !.at = to]]
      BY <2>1
    <3> QED BY <1>t, <3>1
  <2>3. /\ thread'[t] \in Locals /\ thread'[t].at = to /\ thread'[t].tail = thread[t].tail
        /\ thread'[t].node = thread[t].node /\ thread'[t].next = thread[t].next
    BY <1>t, <2>2 DEF Locals, Places, Pushing
  <2>4. PushLoaded(thread'[t], linked, TailAt) /\ PopLoaded(thread'[t], linked, Len(popped), TailAt)
    BY <1>l, <2>1, <2>3 DEF PushLoaded, PopLoaded
  <2> QED BY <1>t, <2>1, <2>3, <2>4 DEF Keeps, Pushing
<1>4. CASE PushLinks(t) /\ linked' = linked
  <2>1. linked # Append(linked, thread[t].node)
    <3>1. thread[t].node \in 0 .. MaxPushes /\ linked \in Seq(0 .. MaxPushes)
      BY <1>t DEF Locals, TypeInv
    <3>2. Len(Append(linked, thread[t].node)) = Len(linked) + 1
      BY <3>1, AppendProperties
    <3> QED BY <1>c, <3>2
  <2>2. /\ thread' = [thread EXCEPT ![t].at = "push"] /\ thread[t].at = "link"
        /\ UNCHANGED <<head, tail, next, linked, popped, pushes>>
    BY <1>4, <2>1 DEF PushLinks, Goto
  <2>3. thread'[t] = [thread[t] EXCEPT !.at = "push"]
    BY <1>t, <2>2 DEF Locals
  <2>4. /\ thread'[t] \in Locals /\ thread'[t].at = "push" /\ thread'[t].node = thread[t].node
    BY <1>t, <2>3 DEF Locals, Places, Pushing
  <2>5. PushLoaded(thread'[t], linked, TailAt) /\ PopLoaded(thread'[t], linked, Len(popped), TailAt)
    BY <2>4 DEF PushLoaded, PopLoaded
  <2> QED BY <1>t, <2>2, <2>4, <2>5 DEF Keeps, Pushing
<1>5. CASE PushCounts(t)
  <2>1. /\ thread' = [thread EXCEPT ![t] = Idle]
        /\ UNCHANGED <<head, tail, next, linked, popped, pushes>>
    BY <1>5 DEF PushCounts
  <2>2. thread'[t] = Idle /\ Idle \in Locals /\ Idle.at = "idle"
    BY <1>t, <2>1, IdleOrPop
  <2>3. PushLoaded(thread'[t], linked, TailAt) /\ PopLoaded(thread'[t], linked, Len(popped), TailAt)
    BY <2>2 DEF PushLoaded, PopLoaded
  <2> QED BY <1>t, <2>1, <2>2, <2>3 DEF Keeps, Pushing
<1> QED BY <1>1, <1>2, <1>3, <1>4, <1>5

(* The positions of what Pop has loaded when it has loaded both ends.      *)
LEMMA BehindTail ==
  ASSUME TypeInv, ChainInv, NEW l, l.at \in {"popNext", "popCheck"},
         PopLoaded(l, linked, Len(popped), TailAt)
  PROVE  \E i \in 0 .. Len(popped), j \in 0 .. TailAt :
           i <= j /\ l.head = Node(linked, i) /\ l.tail = Node(linked, j)
<1>1. PICK i \in 0 .. Len(popped) :
        \E j \in i .. TailAt : l.head = Node(linked, i) /\ l.tail = Node(linked, j)
  BY DEF PopLoaded
<1>2. Len(popped) \in Nat /\ TailAt \in Nat
  BY LastIsOpen
<1>3. \A j \in i .. TailAt : j \in 0 .. TailAt /\ i <= j
  BY <1>2
<1> QED BY <1>1, <1>3

(* So do those of Pop.                                                     *)
LEMMA PopKeeps ==
  ASSUME ListInv, NEW t \in Threads,
         \/ StartPop(t) \/ PopLoadsHead(t) \/ PopLoadsTail(t) \/ PopLoadsNext(t)
         \/ PopAnswersEmpty(t) \/ PopChecks(t) \/ (PopTakes(t) /\ head # thread[t].head)
         \/ PopCounts(t)
  PROVE  Keeps(t)
<1> USE DEF ListInv, historyVars
<1>t. thread[t] \in Locals /\ thread \in [Threads -> Locals]
  BY DEF TypeInv
<1>l. PopLoaded(thread[t], linked, Len(popped), TailAt)
  BY DEF LoadedInv
<1>c. /\ tail = Node(linked, TailAt) /\ head = Node(linked, Len(popped))
      /\ Len(popped) <= TailAt /\ Len(popped) \in Nat /\ Len(linked) \in Nat
      /\ TailAt \in Nat /\ TailAt <= Len(linked)
  BY LastIsOpen DEF ChainInv, TypeInv
<1>n. /\ \A i \in 0 .. Len(linked) : (next[Node(linked, i)] = Nil) <=> (i = Len(linked))
      /\ \A i \in 0 .. Len(linked) - 1 : next[Node(linked, i)] = Node(linked, i + 1)
      /\ \A i \in 0 .. Len(linked) : Node(linked, i) \in Nodes
      /\ \A n \in Nodes : next[n] \in 0 .. MaxPushes
  BY LastIsOpen, NodesApart DEF ChainInv, TypeInv
<1>d. \A i, j \in 0 .. Len(linked) : Node(linked, i) = Node(linked, j) => i = j
  BY NodesApart DEF ChainInv, TypeInv
<1> DEFINE l == thread'[t]
           Rest == UNCHANGED <<head, tail, next, linked, popped, pushes>>
           Fine == PushLoaded(l, linked, TailAt) /\ PopLoaded(l, linked, Len(popped), TailAt)
<1>0. ASSUME NEW r \in Locals, thread' = [thread EXCEPT ![t] = r], Rest, Fine, r.at \notin Pushing
      PROVE  Keeps(t)
  BY <1>0, <1>t DEF Keeps
<1>1. CASE StartPop(t) \/ PopAnswersEmpty(t) \/ PopCounts(t)
  <2>1. Rest /\ \E a \in {"idle", "pop"} : thread' = [thread EXCEPT ![t] = [Idle EXCEPT !.at = a]]
    BY <1>1 DEF StartPop, PopAnswersEmpty, PopCounts, Idle
  <2>2. PICK a \in {"idle", "pop"} : thread' = [thread EXCEPT ![t] = [Idle EXCEPT !.at = a]]
    BY <2>1
  <2>3. [Idle EXCEPT !.at = a] \in Locals /\ [Idle EXCEPT !.at = a].at = a /\ a \notin Pushing
    BY IdleOrPop DEF Pushing
  <2>4. Fine
    BY <1>t, <2>2, <2>3 DEF PushLoaded, PopLoaded
  <2> QED BY <1>0, <2>1, <2>2, <2>3, <2>4
<1>2. CASE PopLoadsHead(t)
  <2> DEFINE r == [thread[t] EXCEPT !.at = "popTail", !.head = head]
  <2>1. thread' = [thread EXCEPT ![t] = r] /\ Rest
    BY <1>2 DEF PopLoadsHead, Load
  <2>2. head \in 0 .. MaxPushes + 1
    BY <1>c, <1>n
  <2>3. r \in Locals /\ r.at = "popTail" /\ r.head = head
    BY <1>t, <2>2 DEF Locals, Places, Popping
  <2> HIDE DEF r
  <2>4. thread'[t] = r /\ Len(popped) \in 0 .. Len(popped)
    BY <1>t, <1>c, <2>1
  <2>5. \E i \in 0 .. Len(popped) : thread'[t].head = Node(linked, i)
    BY <1>c, <2>3, <2>4
  <2>6. Fine
    BY <2>3, <2>4, <2>5 DEF PushLoaded, PopLoaded
  <2> QED BY <1>0, <2>1, <2>3, <2>6 DEF Pushing
<1>3. CASE PopLoadsTail(t)
  <2> DEFINE r == [thread[t] EXCEPT !.at = "popNext", !.tail = tail]
  <2>1. thread' = [thread EXCEPT ![t] = r] /\ Rest /\ thread[t].at = "popTail"
    BY <1>3 DEF PopLoadsTail, Load
  <2>2. tail \in 0 .. MaxPushes + 1
    BY <1>c, <1>n
  <2>3. r \in Locals /\ r.at = "popNext" /\ r.tail = tail /\ r.head = thread[t].head
    BY <1>t, <2>2 DEF Locals, Places, Popping
  <2> HIDE DEF r
  <2>4. PICK i \in 0 .. Len(popped) : thread[t].head = Node(linked, i)
    BY <1>l, <2>1 DEF PopLoaded
  <2>5. TailAt \in i .. TailAt
    BY <1>c
  <2>6. Fine
    BY <1>t, <1>c, <2>1, <2>3, <2>4, <2>5 DEF PushLoaded, PopLoaded
  <2> QED BY <1>0, <2>1, <2>3, <2>6 DEF Pushing
<1>4. CASE PopLoadsNext(t)
  <2> DEFINE n == next[thread[t].head]
             r == [thread[t] EXCEPT !.at = "popCheck", !.next = n]
  <2>1. thread' = [thread EXCEPT ![t] = r] /\ Rest /\ thread[t].at = "popNext"
    BY <1>4 DEF PopLoadsNext, Load
  <2>2. PICK i \in 0 .. Len(popped), j \in 0 .. TailAt :
           i <= j /\ thread[t].head = Node(linked, i) /\ thread[t].tail = Node(linked, j)
    BY <1>l, <2>1, BehindTail
  <2>3. n \in 0 .. MaxPushes + 1
    <3>1. i \in 0 .. Len(linked)
      BY <1>c
    <3> QED BY <1>n, <2>2, <3>1
  <2>4. IF n = Nil THEN thread[t].head = thread[t].tail ELSE Points(linked, thread[t].head, n)
    <3>1. i \in 0 .. Len(linked) /\ j \in 0 .. Len(linked)
      BY <1>c
    <3>2. CASE i = Len(linked)
      BY <1>c, <1>n, <2>2, <3>1, <3>2
    <3>3. CASE i # Len(linked)
      BY <1>c, <1>n, <2>2, <3>1, <3>3 DEF Points
    <3> QED BY <3>2, <3>3
  <2> HIDE DEF n
  <2>5. /\ r \in Locals /\ r.at = "popCheck" /\ r.tail = thread[t].tail
        /\ r.head = thread[t].head /\ r.next = n
    BY <1>t, <2>3 DEF Locals, Places, Popping
  <2> HIDE DEF r
  <2>6. thread'[t] = r
    BY <1>t, <2>1
  <2>7. thread[t].tail \in {Node(linked, m) : m \in i .. TailAt}
    BY <1>c, <2>2
  <2>8. \E m \in 0 .. Len(popped) : \E o \in m .. TailAt :
           r.head = Node(linked, m) /\ r.tail = Node(linked, o)
    BY <2>2, <2>5, <2>7
  <2>9. Fine
    BY <2>4, <2>5, <2>6, <2>8 DEF PushLoaded, PopLoaded
  <2> QED BY <1>0, <2>1, <2>5, <2>9 DEF Pushing
<1>5. CASE PopChecks(t)
  <2>1. PICK to \in {"pop", "popHelps", "take"} :
           /\ thread' = [thread EXCEPT ![t].at = to] /\ Rest /\ thread[t].at = "popCheck"
           /\ to = "popHelps" => thread[t].head = thread[t].tail /\ thread[t].next # Nil
           /\ to = "take" => thread[t].head # thread[t].tail
    BY <1>5 DEF PopChecks, Goto
  <2> DEFINE r == [thread[t] EXCEPT !.at = to]
  <2>2. thread' = [thread EXCEPT ![t] = r]
    BY <1>t, <2>1 DEF Locals
  <2>3. /\ r \in Locals /\ r.at = to /\ r.tail = thread[t].tail
        /\ r.head = thread[t].head /\ r.next = thread[t].next
    BY <1>t, <2>1 DEF Locals, Places, Popping
  <2> HIDE DEF r
  <2>4. thread'[t] = r
    BY <1>t, <2>2
  <2>5. ASSUME to = "take"
        PROVE  \E i \in 0 .. TailAt - 1 : r.head = Node(linked, i) /\ r.next = Node(linked, i + 1)
    <3>1. PICK i \in 0 .. Len(popped), j \in 0 .. TailAt :
             i <= j /\ thread[t].head = Node(linked, i) /\ thread[t].tail = Node(linked, j)
      BY <1>l, <2>1, BehindTail
    <3>2. PICK k \in 0 .. Len(linked) - 1 :
             thread[t].head = Node(linked, k) /\ thread[t].next = Node(linked, k + 1)
      BY <1>l, <2>1, <2>5 DEF PopLoaded, Points
    <3>3. i # j
      BY <2>1, <2>5, <3>1
    <3>n. i \in 0 .. TailAt - 1 /\ i \in 0 .. Len(linked) /\ k \in 0 .. Len(linked)
      BY <1>c, <3>1, <3>3
    <3>4. i = k
      BY <1>d, <3>1, <3>2, <3>n
    <3> QED BY <2>3, <3>2, <3>n, <3>4
  <2>6. Fine
    BY <1>l, <2>1, <2>3, <2>4, <2>5 DEF PushLoaded, PopLoaded
  <2> QED BY <1>0, <2>1, <2>2, <2>3, <2>6 DEF Pushing
<1>6. CASE PopTakes(t) /\ head # thread[t].head
  <2> DEFINE r == [thread[t] EXCEPT !.at = "pop"]
  <2>1. thread' = [thread EXCEPT ![t].at = "pop"] /\ Rest
    BY <1>6 DEF PopTakes, Goto
  <2>2. thread' = [thread EXCEPT ![t] = r]
    BY <1>t, <2>1 DEF Locals
  <2>3. r \in Locals /\ r.at = "pop"
    BY <1>t DEF Locals, Places, Popping
  <2> HIDE DEF r
  <2>4. Fine
    BY <1>t, <2>2, <2>3 DEF PushLoaded, PopLoaded
  <2> QED BY <1>0, <2>1, <2>2, <2>3, <2>4 DEF Pushing
<1> QED BY <1>1, <1>2, <1>3, <1>4, <1>5, <1>6

(* Such a step keeps the invariant of the list.                            *)
LEMMA KeepsList == ASSUME ListInv, NEW t \in Threads, Keeps(t) PROVE ListInv'
<1> USE DEF ListInv, Keeps
<1>1. TailAt' = TailAt
  BY DEF TailAt
<1>2. TypeInv'
  BY DEF TypeInv
<1>3. ChainInv'
  BY <1>1 DEF ChainInv
<1>4. NodeInv'
  BY DEF NodeInv, OwnsNode
<1>5. ASSUME NEW u \in Threads
      PROVE  /\ PushLoaded(thread'[u], linked, TailAt)
             /\ PopLoaded(thread'[u], linked, Len(popped), TailAt)
  <2>1. CASE u = t
    BY <2>1
  <2>2. CASE u # t
    BY <2>2 DEF LoadedInv
  <2> QED BY <2>1, <2>2
<1>6. LoadedInv'
  BY <1>1, <1>5 DEF LoadedInv
<1> QED BY <1>2, <1>3, <1>4, <1>6

--------------------------------------------------------------------------------
(* A new call of Push allocates a node nobody else has.                    *)
LEMMA StartKeepsList == ASSUME ListInv, NEW t \in Threads, StartPush(t) PROVE ListInv'
<1> USE DEF ListInv
<1> DEFINE r == [Idle EXCEPT !.at = "push", !.node = pushes + 1]
<1>1. /\ pushes' = pushes + 1 /\ pushes' \in 1 .. MaxPushes /\ thread' = [thread EXCEPT ![t] = r]
      /\ UNCHANGED <<head, tail, next, linked, popped>> /\ thread[t].at = "idle"
  BY DEF StartPush, TypeInv
<1>2. r \in Locals /\ r.at = "push" /\ r.node = pushes + 1
  <2>1. 0 \in 0 .. MaxPushes + 1 /\ pushes + 1 \in 0 .. MaxPushes /\ "push" \in Places
    BY <1>1 DEF Places, Pushing
  <2> QED BY <2>1 DEF Idle, Locals
<1> HIDE DEF r
<1>3. thread'[t] = r /\ \A u \in Threads \ {t} : thread'[u] = thread[u]
  BY <1>1 DEF TypeInv
<1>4. TailAt' = TailAt
  BY <1>1 DEF TailAt
<1>5. TypeInv'
  BY <1>1, <1>2 DEF TypeInv
<1>6. ChainInv'
  <2>1. \A i \in 1 .. Len(linked') : linked'[i] <= pushes'
    <3>1. linked \in Seq(1 .. MaxPushes) /\ pushes \in 0 .. MaxPushes
      BY DEF TypeInv
    <3>2. \A i \in 1 .. Len(linked) : linked[i] <= pushes
      BY DEF ChainInv
    <3>3. \A i \in 1 .. Len(linked) : linked[i] \in Int
      BY <3>1
    <3> QED BY <1>1, <3>1, <3>2, <3>3
  <2> QED BY <1>1, <1>4, <2>1 DEF ChainInv
<1>7. NodeInv'
  <2>1. ASSUME NEW u \in Threads \ {t}, thread[u].at \in Pushing
        PROVE  thread[u].node \in 1 .. pushes' /\ thread[u].node # pushes + 1
    <3>1. thread[u].node \in 1 .. pushes
      BY <2>1 DEF NodeInv, OwnsNode
    <3> QED BY <1>1, <3>1 DEF TypeInv
  <2>2. \A i \in 1 .. Len(linked) : linked[i] # pushes + 1
    <3>1. \A i \in 1 .. Len(linked) : linked[i] <= pushes /\ linked[i] \in Int
      BY DEF ChainInv, TypeInv
    <3> QED BY <3>1 DEF TypeInv
  <2>3. OwnsNode(t, linked)'
    BY <1>1, <1>2, <1>3, <2>1, <2>2 DEF OwnsNode
  <2>4. ASSUME NEW u \in Threads \ {t} PROVE OwnsNode(u, linked)'
    <3>1. \A v \in Threads \ {t} : thread'[v] = thread[v]
      BY <1>3
    <3>2. OwnsNode(u, linked)
      BY DEF NodeInv
    <3> QED BY <1>1, <1>2, <1>3, <2>1, <3>2 DEF OwnsNode
  <2> QED BY <2>3, <2>4 DEF NodeInv
<1>8. LoadedInv'
  <2>1. ASSUME NEW u \in Threads
        PROVE  /\ PushLoaded(thread'[u], linked, TailAt)
               /\ PopLoaded(thread'[u], linked, Len(popped), TailAt)
    <3>1. CASE u = t
      BY <1>2, <1>3, <3>1 DEF PushLoaded, PopLoaded
    <3>2. CASE u # t
      BY <1>3, <3>2 DEF LoadedInv
    <3> QED BY <3>1, <3>2
  <2> QED BY <1>1, <1>4, <2>1 DEF LoadedInv
<1> QED BY <1>5, <1>6, <1>7, <1>8

(* A successful compare-and-swap of Push appends the node to the chain.    *)
LEMMA LinkKeepsList ==
  ASSUME ListInv, NEW t \in Threads, PushLinks(t), next[thread[t].tail] = Nil
  PROVE  ListInv' /\ linked' = Append(linked, thread[t].node) /\ TailAt' = TailAt
<1> USE DEF ListInv
<1> DEFINE n == thread[t].node
           last == Node(linked, Len(linked))
           r == [thread[t] EXCEPT !.at = "swing"]
<1>1. /\ thread' = [thread EXCEPT ![t].at = "swing"] /\ thread[t].at = "link"
      /\ next' = [next EXCEPT ![thread[t].tail] = n] /\ linked' = Append(linked, n)
      /\ UNCHANGED <<head, tail, popped, pushes>>
  BY DEF PushLinks, Goto
<1>2. thread[t].tail = last /\ TailAt = Len(linked) /\ tail = last
  BY <1>1, LinksBehindLast DEF ChainInv
<1>3. /\ thread[t] \in Locals /\ thread \in [Threads -> Locals] /\ n \in 1 .. pushes
      /\ \A i \in 1 .. Len(linked) : linked[i] # n
      /\ \A u \in Threads \ {t} : thread[u].at \in Pushing => thread[u].node # n
  BY <1>1 DEF TypeInv, NodeInv, OwnsNode, Pushing
<1>4. r \in Locals /\ r.at = "swing" /\ r.tail = last /\ r.node = n
  BY <1>2, <1>3 DEF Locals, Places
<1>5. thread' = [thread EXCEPT ![t] = r]
  BY <1>1
<1>6. thread'[t] = r /\ \A u \in Threads \ {t} : thread'[u] = thread[u]
  BY <1>3, <1>5
<1>7. /\ Len(linked) \in Nat /\ Len(popped) \in Nat /\ Len(popped) <= Len(linked)
      /\ n \in 1 .. MaxPushes /\ pushes \in Nat
  BY <1>3, LastIsOpen DEF ChainInv, TypeInv
<1>8. /\ linked' \in Seq(1 .. MaxPushes) /\ Len(linked') = Len(linked) + 1
      /\ \A i \in 0 .. Len(linked) : Node(linked', i) = Node(linked, i)
      /\ Node(linked', Len(linked) + 1) = n /\ linked'[Len(linked) + 1] = n
      /\ \A i \in 1 .. Len(linked) : linked'[i] = linked[i]
  BY <1>1, <1>7, NodesStay DEF TypeInv
<1>9. /\ last \in Nodes /\ last # n
      /\ \A i, j \in 0 .. Len(linked) : Node(linked, i) = Node(linked, j) => i = j
  <2>1. last # n
    BY <1>3, <1>7 DEF Node
  <2>2. Len(linked) \in 0 .. Len(linked)
    BY <1>7
  <2> QED BY <2>1, <2>2, NodesApart DEF ChainInv, TypeInv
<1> HIDE DEF r
<1>10. TailAt' = TailAt
  BY <1>1, <1>2, <1>7, <1>8, <1>9 DEF TailAt
<1>11. TypeInv'
  <2>1. thread' \in [Threads -> Locals]
    BY <1>3, <1>4, <1>5
  <2>2. next' \in [Nodes -> 0 .. MaxPushes]
    <3>1. next' = [next EXCEPT ![last] = n] /\ n \in 0 .. MaxPushes
      BY <1>1, <1>2, <1>7
    <3> HIDE DEF n, last
    <3> QED BY <3>1 DEF TypeInv
  <2> QED BY <1>1, <1>8, <2>1, <2>2 DEF TypeInv
<1>12. ChainInv'
  <2>1. Distinct(linked')
    <3>1. \A i, j \in 1 .. Len(linked) : linked'[i] = linked'[j] => i = j
      BY <1>8 DEF Distinct, ChainInv
    <3>2. \A i \in 1 .. Len(linked) : linked'[i] # linked'[Len(linked) + 1]
      BY <1>3, <1>8
    <3>3. \A i \in 1 .. Len(linked') : i \in 1 .. Len(linked) \/ i = Len(linked) + 1
      BY <1>7, <1>8
    <3> QED BY <3>1, <3>2, <3>3 DEF Distinct
  <2>2. \A i \in 1 .. Len(linked') : linked'[i] <= pushes'
    BY <1>1, <1>3, <1>7, <1>8 DEF ChainInv
  <2>3. next'[last] = n /\ \A m \in Nodes \ {last} : next'[m] = next[m]
    BY <1>1, <1>2, <1>9 DEF TypeInv
  <2>4. ASSUME NEW i \in 0 .. Len(linked') - 1
        PROVE  next'[Node(linked', i)] = Node(linked', i + 1)
    <3>1. CASE i = Len(linked)
      BY <1>7, <1>8, <2>3, <3>1
    <3>2. CASE i # Len(linked)
      <4>1. i \in 0 .. Len(linked) - 1 /\ i \in 0 .. Len(linked) /\ i + 1 \in 0 .. Len(linked)
            /\ Len(linked) \in 0 .. Len(linked)
        BY <1>7, <1>8, <3>2
      <4>2. Node(linked, i) # last /\ Node(linked, i) \in Nodes
        BY <1>9, <3>2, <4>1, NodesApart DEF ChainInv, TypeInv
      <4> QED BY <1>8, <2>3, <4>1, <4>2 DEF ChainInv
    <3> QED BY <3>1, <3>2
  <2>5. ASSUME NEW m \in Nodes, \A i \in 0 .. Len(linked') - 1 : m # Node(linked', i)
        PROVE  next'[m] = Nil
    <3>1. \A i \in 0 .. Len(linked) : m # Node(linked, i)
      BY <1>7, <1>8, <2>5
    <3>2. m # last /\ \A i \in 0 .. Len(linked) - 1 : m # Node(linked, i)
      BY <1>7, <3>1
    <3> QED BY <2>3, <3>2 DEF ChainInv
  <2>6. Len(popped') <= Len(linked') /\ \A i \in 1 .. Len(popped') : popped'[i] = linked'[i]
    BY <1>1, <1>7, <1>8 DEF ChainInv
  <2>7. head' = Node(linked', Len(popped'))
    BY <1>1, <1>7, <1>8 DEF ChainInv
  <2>8. tail' = Node(linked', TailAt') /\ Len(popped') <= TailAt'
    BY <1>1, <1>2, <1>7, <1>8, <1>10
  <2> QED BY <2>1, <2>2, <2>4, <2>5, <2>6, <2>7, <2>8 DEF ChainInv
<1>13. NodeInv'
  <2>1. ASSUME NEW u \in Threads \ {t} PROVE OwnsNode(u, linked)'
    <3>1. OwnsNode(u, linked) /\ thread'[u] = thread[u]
      BY <1>6 DEF NodeInv
    <3>2. ASSUME thread[u].at \in Pushing PROVE \A i \in 1 .. Len(linked') : linked'[i] # thread[u].node
      BY <1>3, <1>7, <1>8, <3>1, <3>2 DEF OwnsNode
    <3>3. r.at \notin Pushing
      BY <1>4 DEF Pushing
    <3> QED BY <1>1, <1>6, <3>1, <3>2, <3>3 DEF OwnsNode
  <2>2. OwnsNode(t, linked)'
    BY <1>4, <1>6 DEF OwnsNode, Pushing
  <2> QED BY <2>1, <2>2 DEF NodeInv
<1>14. LoadedInv'
  <2>1. ASSUME NEW u \in Threads \ {t}
        PROVE  PushLoaded(thread[u], linked', TailAt) /\ PopLoaded(thread[u], linked', Len(popped), TailAt)
    <3>1. PushLoaded(thread[u], linked, TailAt) /\ PopLoaded(thread[u], linked, Len(popped), TailAt)
      BY DEF LoadedInv
    <3>2. /\ linked \in Seq(1 .. MaxPushes) /\ Len(popped) \in 0 .. Len(linked)
          /\ TailAt \in 0 .. Len(linked) /\ Len(popped) \in 0 .. Len(linked')
          /\ TailAt \in 0 .. Len(linked') /\ Len(popped) <= Len(popped) /\ TailAt <= TailAt
      BY <1>2, <1>7, <1>8 DEF TypeInv
    <3>3. \E x \in 1 .. MaxPushes : linked' = Append(linked, x)
      BY <1>1, <1>7
    <3> DEFINE h == Len(popped)
               k == TailAt
               l == thread[u]
    <3>4. /\ linked \in Seq(1 .. MaxPushes) /\ h \in 0 .. Len(linked) /\ h <= h
          /\ k \in 0 .. Len(linked) /\ h \in 0 .. Len(linked') /\ k \in 0 .. Len(linked') /\ k <= k
          /\ linked' \in Seq(1 .. MaxPushes)
      BY <1>8, <3>2
    <3> HIDE DEF h, k, l
    <3>5. /\ PushLoaded(l, linked, k) => PushLoaded(l, linked', k)
          /\ PopLoaded(l, linked, h, k) => PopLoaded(l, linked', h, k)
      BY <3>3, <3>4, StillLoaded
    <3> QED BY <3>1, <3>5 DEF h, k, l
  <2>2. Points(linked', r.tail, r.node)
    <3>1. Len(linked) \in 0 .. Len(linked') - 1 /\ Len(linked) \in 0 .. Len(linked)
      BY <1>7, <1>8
    <3> QED BY <1>4, <1>8, <3>1 DEF Points
  <2>3. PushLoaded(r, linked', TailAt) /\ PopLoaded(r, linked', Len(popped), TailAt)
    BY <1>4, <2>2 DEF PushLoaded, PopLoaded
  <2> QED BY <1>1, <1>6, <1>10, <2>1, <2>3 DEF LoadedInv
<1> QED BY <1>1, <1>10, <1>11, <1>12, <1>13, <1>14

(* So does a thread that swings the tail, which never moves back.          *)
LEMMA SwingKeepsList ==
  ASSUME ListInv, NEW t \in Threads, PushSwings(t) \/ Helps(t)
  PROVE  ListInv' /\ UNCHANGED <<linked, popped>>
<1> USE DEF ListInv, historyVars
<1>1. PICK to \in {"pushCount", "push", "pop"}, b \in 0 .. MaxPushes + 1 :
         /\ thread' = [thread EXCEPT ![t].at = to] /\ SwingTail(thread[t].tail, b)
         /\ Points(linked, thread[t].tail, b)
         /\ to = "push" => thread[t].at = "pushHelps"
         /\ UNCHANGED <<head, next, linked, popped, pushes>>
  <2>1. PushLoaded(thread[t], linked, TailAt) /\ thread[t] \in Locals
    BY DEF LoadedInv, TypeInv
  <2>2. CASE PushSwings(t)
    <3>1. thread[t].at = "swing" /\ thread[t].node \in 0 .. MaxPushes + 1
      BY <2>1, <2>2 DEF PushSwings, Goto, Locals
    <3>2. Points(linked, thread[t].tail, thread[t].node)
      BY <2>1, <3>1 DEF PushLoaded
    <3> QED BY <2>2, <3>1, <3>2 DEF PushSwings, Goto
  <2>3. CASE Helps(t)
    <3>1. thread[t].at \in {"pushHelps", "popHelps"} /\ thread[t].next \in 0 .. MaxPushes + 1
      BY <2>1, <2>3 DEF Helps, Goto, Locals
    <3>2. Points(linked, thread[t].tail, thread[t].next)
      BY <2>1, <3>1 DEF PushLoaded
    <3> QED BY <2>3, <3>1, <3>2 DEF Helps, Goto
  <2> QED BY <2>2, <2>3
<1> DEFINE r == [thread[t] EXCEPT !.at = to]
<1>2. /\ thread' = [thread EXCEPT ![t] = r] /\ r \in Locals /\ r.at = to
      /\ r.node = thread[t].node /\ thread \in [Threads -> Locals]
  <2>1. to \in Places /\ thread[t] \in Locals /\ thread \in [Threads -> Locals]
    BY DEF Places, Pushing, Popping, TypeInv
  <2> QED BY <1>1, <2>1 DEF Locals
<1> HIDE DEF r
<1>3. thread'[t] = r /\ \A u \in Threads \ {t} : thread'[u] = thread[u]
  BY <1>2
<1>4. tail' = tail \/ (tail' = Node(linked, Len(linked)) /\ TailAt = Len(linked) - 1)
  BY <1>1, SwingsForward
<1>5. /\ Len(linked) \in Nat /\ Len(popped) \in Nat /\ TailAt \in Nat /\ TailAt <= Len(linked)
  BY LastIsOpen
<1>6. TailAt' \in Nat /\ TailAt <= TailAt' /\ TailAt' <= Len(linked) /\ tail' = Node(linked, TailAt')
  <2>1. CASE tail' = tail
    <3>1. TailAt' = TailAt
      BY <1>1, <2>1 DEF TailAt
    <3> QED BY <1>5, <2>1, <3>1 DEF ChainInv
  <2>2. CASE tail' = Node(linked, Len(linked)) /\ TailAt = Len(linked) - 1
    <3>1. TailAt' = Len(linked)
      BY <1>1, <2>2 DEF TailAt
    <3> QED BY <1>5, <2>2, <3>1
  <2> QED BY <1>4, <2>1, <2>2
<1>7. TypeInv'
  BY <1>1, <1>2 DEF TypeInv
<1>8. ChainInv'
  <2>1. Len(popped) <= TailAt'
    BY <1>5, <1>6 DEF ChainInv
  <2> QED BY <1>1, <1>6, <2>1 DEF ChainInv
<1>9. NodeInv'
  <2>1. r.at \in Pushing => thread[t].at \in Pushing
    BY <1>1, <1>2 DEF Pushing
  <2> QED BY <1>1, <1>2, <1>3, <2>1 DEF NodeInv, OwnsNode
<1>10. LoadedInv'
  <2>1. ASSUME NEW u \in Threads \ {t}
        PROVE  PushLoaded(thread[u], linked, TailAt') /\ PopLoaded(thread[u], linked, Len(popped), TailAt')
    <3>1. PushLoaded(thread[u], linked, TailAt) /\ PopLoaded(thread[u], linked, Len(popped), TailAt)
      BY DEF LoadedInv
    <3>2. /\ linked \in Seq(1 .. MaxPushes) /\ Len(popped) \in 0 .. Len(linked)
          /\ TailAt \in 0 .. Len(linked) /\ TailAt' \in 0 .. Len(linked)
          /\ Len(popped) <= Len(popped) /\ TailAt <= TailAt'
      BY <1>5, <1>6 DEF TypeInv, ChainInv
    <3> QED BY <3>1, <3>2, StillLoaded
  <2>2. PushLoaded(r, linked, TailAt') /\ PopLoaded(r, linked, Len(popped), TailAt')
    BY <1>1, <1>2 DEF PushLoaded, PopLoaded
  <2> QED BY <1>1, <1>3, <2>1, <2>2 DEF LoadedInv
<1> QED BY <1>1, <1>7, <1>8, <1>9, <1>10

(* And one whose compare-and-swap of the head takes the oldest node.       *)
LEMMA TakeKeepsList ==
  ASSUME ListInv, NEW t \in Threads, PopTakes(t), head = thread[t].head
  PROVE  /\ ListInv' /\ Len(popped) < Len(linked)
         /\ popped' = Append(popped, linked[Len(popped) + 1]) /\ linked' = linked
<1> USE DEF ListInv
<1> DEFINE r == [thread[t] EXCEPT !.at = "popCount"]
           h == Len(popped) + 1
<1>1. /\ thread' = [thread EXCEPT ![t].at = "popCount"] /\ thread[t].at = "take"
      /\ head' = thread[t].next /\ popped' = Append(popped, thread[t].next)
      /\ UNCHANGED <<tail, next, linked, pushes>>
  BY DEF PopTakes, Goto
<1>2. h <= TailAt /\ h \in 1 .. Len(linked) /\ thread[t].next = linked[h]
  <2>1. /\ Len(popped) < TailAt /\ Len(popped) + 1 \in 1 .. Len(linked)
        /\ thread[t].next = linked[Len(popped) + 1]
    BY <1>1, TakesOldest
  <2> QED BY <2>1, LastIsOpen
<1>3. /\ thread' = [thread EXCEPT ![t] = r] /\ r \in Locals /\ r.at = "popCount"
      /\ thread \in [Threads -> Locals]
  <2>1. "popCount" \in Places /\ thread[t] \in Locals /\ thread \in [Threads -> Locals]
    BY DEF Places, TypeInv
  <2> QED BY <1>1, <2>1 DEF Locals
<1> HIDE DEF r
<1>4. thread'[t] = r /\ \A u \in Threads \ {t} : thread'[u] = thread[u]
  BY <1>3
<1>5. TailAt' = TailAt
  BY <1>1 DEF TailAt
<1>6. /\ Len(linked) \in Nat /\ Len(popped) \in Nat /\ TailAt \in Nat /\ TailAt <= Len(linked)
  BY LastIsOpen
<1>7. /\ popped' \in Seq(1 .. MaxPushes) /\ Len(popped') = h /\ popped'[h] = linked[h]
      /\ \A i \in 1 .. Len(popped) : popped'[i] = popped[i]
  <2>1. linked[h] \in 1 .. MaxPushes /\ popped \in Seq(1 .. MaxPushes)
    BY <1>2 DEF TypeInv
  <2> QED BY <1>1, <1>2, <2>1, AppendProperties
<1>8. TypeInv'
  BY <1>1, <1>3, <1>7 DEF TypeInv
<1>9. ChainInv'
  <2>1. Len(popped') <= Len(linked) /\ Len(popped') <= TailAt
    BY <1>2, <1>7
  <2>2. \A i \in 1 .. Len(popped') : popped'[i] = linked[i]
    <3>1. \A i \in 1 .. Len(popped') : i \in 1 .. Len(popped) \/ i = h
      BY <1>6, <1>7
    <3> QED BY <1>7, <3>1 DEF ChainInv
  <2>3. head' = Node(linked, Len(popped'))
    BY <1>1, <1>2, <1>6, <1>7 DEF Node
  <2> QED BY <1>1, <1>5, <2>1, <2>2, <2>3 DEF ChainInv
<1>10. NodeInv'
  BY <1>1, <1>3, <1>4 DEF NodeInv, OwnsNode, Pushing
<1>11. LoadedInv'
  <2>1. ASSUME NEW u \in Threads \ {t}
        PROVE  PushLoaded(thread[u], linked, TailAt) /\ PopLoaded(thread[u], linked, h, TailAt)
    <3>1. PushLoaded(thread[u], linked, TailAt) /\ PopLoaded(thread[u], linked, Len(popped), TailAt)
      BY DEF LoadedInv
    <3>2. /\ linked \in Seq(1 .. MaxPushes) /\ Len(popped) \in 0 .. Len(linked)
          /\ TailAt \in 0 .. Len(linked) /\ h \in 0 .. Len(linked)
          /\ Len(popped) <= h /\ TailAt <= TailAt
      <4>1. linked \in Seq(1 .. MaxPushes) /\ Len(popped) <= Len(linked)
        BY DEF TypeInv, ChainInv
      <4> QED BY <1>2, <1>6, <4>1
    <3> QED BY <3>1, <3>2, StillLoaded
  <2>2. PushLoaded(r, linked, TailAt) /\ PopLoaded(r, linked, h, TailAt)
    BY <1>3 DEF PushLoaded, PopLoaded
  <2> QED BY <1>1, <1>4, <1>5, <1>7, <2>1, <2>2 DEF LoadedInv
<1> QED BY <1>1, <1>2, <1>6, <1>8, <1>9, <1>10, <1>11

--------------------------------------------------------------------------------
(* Every step keeps the invariant of the list.                             *)
LEMMA ListStep == ListInv /\ [QueueNext]_queueVars => ListInv'
<1> SUFFICES ASSUME ListInv, [QueueNext]_queueVars PROVE ListInv'
  OBVIOUS
<1>1. CASE UNCHANGED queueVars
  <2> USE <1>1 DEF queueVars, ListInv
  <2>1. TypeInv' /\ TailAt' = TailAt
    BY DEF TypeInv, TailAt
  <2>2. ChainInv' /\ NodeInv' /\ LoadedInv'
    BY <2>1 DEF ChainInv, NodeInv, OwnsNode, LoadedInv
  <2> QED BY <2>1, <2>2
<1>2. ASSUME NEW t \in Threads, PushLinks(t) PROVE ListInv'
  <2>1. CASE next[thread[t].tail] = Nil
    BY <1>2, <2>1, LinkKeepsList
  <2>2. CASE next[thread[t].tail] # Nil
    <3>1. linked' = linked
      BY <1>2, <2>2 DEF PushLinks, historyVars
    <3> QED BY <1>2, <3>1, PushKeeps, KeepsList
  <2> QED BY <2>1, <2>2
<1>3. ASSUME NEW t \in Threads, PopTakes(t) PROVE ListInv'
  BY <1>3, TakeKeepsList, PopKeeps, KeepsList
<1> QED
  BY <1>1, <1>2, <1>3, StartKeepsList, SwingKeepsList, PushKeeps, PopKeeps, KeepsList DEF QueueNext

(* What happens to Pushed and Popped when one thread takes a step.         *)
LEMMA CountMoves ==
  ASSUME CountInv, NEW t \in Threads, \A u \in Threads \ {t} : thread'[u] = thread[u]
  PROVE  /\ IsFiniteSet(Pushed') /\ IsFiniteSet(Popped')
         /\ Cardinality(Pushed) \in Nat /\ Cardinality(Popped) \in Nat
         /\ Cardinality(Pushed') = Cardinality(Pushed)
              + (IF t \in Pushed' THEN 1 ELSE 0) - (IF t \in Pushed THEN 1 ELSE 0)
         /\ Cardinality(Popped') = Cardinality(Popped)
              + (IF t \in Popped' THEN 1 ELSE 0) - (IF t \in Popped THEN 1 ELSE 0)
<1>1. IsFiniteSet(Pushed) /\ IsFiniteSet(Popped)
  BY DEF CountInv
<1>2. Cardinality(Pushed) \in Nat /\ Cardinality(Popped) \in Nat
  BY <1>1, FS_CardinalityType
<1>3. Pushed' = IF t \in Pushed' THEN Pushed \cup {t} ELSE Pushed \ {t}
  BY DEF Pushed
<1>4. Popped' = IF t \in Popped' THEN Popped \cup {t} ELSE Popped \ {t}
  BY DEF Popped
<1>5. /\ IsFiniteSet(Pushed \cup {t}) /\ IsFiniteSet(Pushed \ {t})
      /\ Cardinality(Pushed \cup {t}) = IF t \in Pushed THEN Cardinality(Pushed) ELSE Cardinality(Pushed) + 1
      /\ Cardinality(Pushed \ {t}) = IF t \in Pushed THEN Cardinality(Pushed) - 1 ELSE Cardinality(Pushed)
  BY <1>1, FS_AddElement, FS_RemoveElement
<1>6. /\ IsFiniteSet(Popped \cup {t}) /\ IsFiniteSet(Popped \ {t})
      /\ Cardinality(Popped \cup {t}) = IF t \in Popped THEN Cardinality(Popped) ELSE Cardinality(Popped) + 1
      /\ Cardinality(Popped \ {t}) = IF t \in Popped THEN Cardinality(Popped) - 1 ELSE Cardinality(Popped)
  BY <1>1, FS_AddElement, FS_RemoveElement
<1>7. /\ IsFiniteSet(Pushed')
      /\ Cardinality(Pushed') = Cardinality(Pushed)
           + (IF t \in Pushed' THEN 1 ELSE 0) - (IF t \in Pushed THEN 1 ELSE 0)
  <2>1. CASE t \in Pushed'
    BY <1>2, <1>3, <1>5, <2>1
  <2>2. CASE t \notin Pushed'
    BY <1>2, <1>3, <1>5, <2>2
  <2> QED BY <2>1, <2>2
<1>8. /\ IsFiniteSet(Popped')
      /\ Cardinality(Popped') = Cardinality(Popped)
           + (IF t \in Popped' THEN 1 ELSE 0) - (IF t \in Popped THEN 1 ELSE 0)
  <2>1. CASE t \in Popped'
    <3>1. Popped' = Popped \cup {t}
      BY <1>4, <2>1
    <3>2. CASE t \in Popped
      BY <1>2, <1>6, <2>1, <3>1, <3>2
    <3>3. CASE t \notin Popped
      BY <1>2, <1>6, <2>1, <3>1, <3>3
    <3> QED BY <3>2, <3>3
  <2>2. CASE t \notin Popped'
    BY <1>2, <1>4, <1>6, <2>2
  <2> QED BY <2>1, <2>2
<1> QED BY <1>2, <1>7, <1>8

(* The counter follows the list at the distance of the calls under way.    *)
LEMMA CountStep == ListInv /\ CountInv /\ [QueueNext]_queueVars => CountInv'
<1> SUFFICES ASSUME ListInv, CountInv, [QueueNext]_queueVars PROVE CountInv'
  OBVIOUS
<1>t. thread \in [Threads -> Locals] /\ Len(linked) \in Nat /\ Len(popped) \in Nat
  BY LastIsOpen DEF ListInv, TypeInv
<1>0. ASSUME NEW t \in Threads, NEW a, NEW b, thread[t].at = a, thread'[t].at = b,
             \A u \in Threads \ {t} : thread'[u] = thread[u]
      PROVE  /\ t \in Pushed <=> a \in {"swing", "pushCount"}
             /\ t \in Popped <=> a = "popCount"
             /\ t \in Pushed' <=> b \in {"swing", "pushCount"}
             /\ t \in Popped' <=> b = "popCount"
  BY <1>0 DEF Pushed, Popped
<1>1. CASE UNCHANGED queueVars
  BY <1>1 DEF queueVars, CountInv, Pushed, Popped
<1>2. ASSUME NEW t \in Threads, PushLinks(t), next[thread[t].tail] = Nil PROVE CountInv'
  <2>1. /\ thread[t].at = "link" /\ thread' = [thread EXCEPT ![t].at = "swing"]
        /\ UNCHANGED <<count, popped>>
    BY <1>2 DEF PushLinks, Goto
  <2>2. thread'[t].at = "swing" /\ \A u \in Threads \ {t} : thread'[u] = thread[u]
    BY <1>t, <2>1 DEF Locals
  <2>3. Len(linked') = Len(linked) + 1
    <3>1. linked' = Append(linked, thread[t].node) /\ linked' \in Seq(1 .. MaxPushes)
      BY <1>2, LinkKeepsList DEF ListInv, TypeInv
    <3> QED BY <3>1 DEF ListInv, TypeInv
  <2>4. t \notin Pushed /\ t \notin Popped /\ t \in Pushed' /\ t \notin Popped'
    BY <1>0, <2>1, <2>2
  <2>5. /\ IsFiniteSet(Pushed') /\ IsFiniteSet(Popped')
        /\ Cardinality(Pushed) \in Nat /\ Cardinality(Popped) \in Nat
        /\ Cardinality(Pushed') = Cardinality(Pushed) + 1
        /\ Cardinality(Popped') = Cardinality(Popped)
    BY <2>2, <2>4, CountMoves
  <2> QED BY <1>t, <2>1, <2>3, <2>5 DEF CountInv
<1>3. ASSUME NEW t \in Threads, PopTakes(t), head = thread[t].head PROVE CountInv'
  <2>1. /\ thread[t].at = "take" /\ thread' = [thread EXCEPT ![t].at = "popCount"]
        /\ UNCHANGED <<count, linked>>
    BY <1>3 DEF PopTakes, Goto
  <2>2. thread'[t].at = "popCount" /\ \A u \in Threads \ {t} : thread'[u] = thread[u]
    BY <1>t, <2>1 DEF Locals
  <2>3. Len(popped') = Len(popped) + 1
    <3>1. popped' = Append(popped, linked[Len(popped) + 1])
      BY <1>3, TakeKeepsList
    <3> QED BY <3>1 DEF ListInv, TypeInv
  <2>4. t \notin Pushed /\ t \notin Popped /\ t \notin Pushed' /\ t \in Popped'
    BY <1>0, <2>1, <2>2
  <2>5. /\ IsFiniteSet(Pushed') /\ IsFiniteSet(Popped')
        /\ Cardinality(Pushed) \in Nat /\ Cardinality(Popped) \in Nat
        /\ Cardinality(Pushed') = Cardinality(Pushed)
        /\ Cardinality(Popped') = Cardinality(Popped) + 1
    BY <2>2, <2>4, CountMoves
  <2> QED BY <1>t, <2>1, <2>3, <2>5 DEF CountInv
<1>4. ASSUME NEW t \in Threads, PushCounts(t) PROVE CountInv'
  <2>1. /\ thread[t].at = "pushCount" /\ thread' = [thread EXCEPT ![t] = Idle]
        /\ count' = count + 1 /\ UNCHANGED <<linked, popped>>
    BY <1>4 DEF PushCounts, historyVars
  <2>2. thread'[t].at = "idle" /\ \A u \in Threads \ {t} : thread'[u] = thread[u]
    BY <1>t, <2>1, IdleOrPop
  <2>3. t \in Pushed /\ t \notin Popped /\ t \notin Pushed' /\ t \notin Popped'
    BY <1>0, <2>1, <2>2
  <2>4. /\ IsFiniteSet(Pushed') /\ IsFiniteSet(Popped')
        /\ Cardinality(Pushed) \in Nat /\ Cardinality(Popped) \in Nat
        /\ Cardinality(Pushed') = Cardinality(Pushed) - 1
        /\ Cardinality(Popped') = Cardinality(Popped)
    BY <2>2, <2>3, CountMoves
  <2> QED BY <1>t, <2>1, <2>4 DEF CountInv
<1>5. ASSUME NEW t \in Threads, PopCounts(t) PROVE CountInv'
  <2>1. /\ thread[t].at = "popCount" /\ thread' = [thread EXCEPT ![t] = Idle]
        /\ count' = count - 1 /\ UNCHANGED <<linked, popped>>
    BY <1>5 DEF PopCounts, historyVars
  <2>2. thread'[t].at = "idle" /\ \A u \in Threads \ {t} : thread'[u] = thread[u]
    BY <1>t, <2>1, IdleOrPop
  <2>3. t \notin Pushed /\ t \in Popped /\ t \notin Pushed' /\ t \notin Popped'
    BY <1>0, <2>1, <2>2
  <2>4. /\ IsFiniteSet(Pushed') /\ IsFiniteSet(Popped')
        /\ Cardinality(Pushed) \in Nat /\ Cardinality(Popped) \in Nat
        /\ Cardinality(Pushed') = Cardinality(Pushed)
        /\ Cardinality(Popped') = Cardinality(Popped) - 1
    BY <2>2, <2>3, CountMoves
  <2> QED BY <1>t, <2>1, <2>4 DEF CountInv
<1>6. ASSUME NEW t \in Threads,
             \/ StartPush(t) \/ PushLoadsTail(t) \/ PushLoadsNext(t) \/ PushChecks(t)
             \/ (PushLinks(t) /\ next[thread[t].tail] # Nil) \/ PushSwings(t) \/ Helps(t)
             \/ StartPop(t) \/ PopLoadsHead(t) \/ PopLoadsTail(t) \/ PopLoadsNext(t)
             \/ PopAnswersEmpty(t) \/ PopChecks(t) \/ (PopTakes(t) /\ head # thread[t].head)
      PROVE  CountInv'
  <2>1. UNCHANGED <<count, linked, popped>>
    BY <1>6 DEF StartPush, PushLoadsTail, PushLoadsNext, PushChecks, PushLinks, PushSwings, Helps,
         StartPop, PopLoadsHead, PopLoadsTail, PopLoadsNext, PopAnswersEmpty, PopChecks,
         PopTakes, Load, historyVars
  <2>2. /\ thread[t].at \in {"idle", "swing"} \cup Pushing \cup Popping
        /\ thread' \in [Threads -> Locals] /\ \A u \in Threads \ {t} : thread'[u] = thread[u]
        /\ thread'[t].at \in IF thread[t].at = "swing" THEN {"pushCount"}
                             ELSE {"idle"} \cup Pushing \cup Popping
    <3>1. ListInv'
      BY ListStep
    <3>2. thread' \in [Threads -> Locals]
      BY <3>1 DEF ListInv, TypeInv
    <3>3. CASE StartPush(t)
      BY <1>t, <3>2, <3>3 DEF StartPush, Idle, Pushing
    <3>4. CASE PushLoadsTail(t) \/ PushLoadsNext(t)
      <4>1. CASE PushLoadsTail(t)
        BY <1>t, <3>2, <4>1 DEF PushLoadsTail, Load, Pushing, Locals
      <4>2. CASE PushLoadsNext(t)
        BY <1>t, <3>2, <4>2 DEF PushLoadsNext, Load, Pushing, Locals
      <4> QED BY <3>4, <4>1, <4>2
    <3>5. CASE PushChecks(t) \/ (PushLinks(t) /\ next[thread[t].tail] # Nil)
      <4>1. CASE PushChecks(t)
        BY <1>t, <3>2, <4>1 DEF PushChecks, Goto, Pushing, Locals
      <4>2. CASE PushLinks(t) /\ next[thread[t].tail] # Nil
        BY <1>t, <3>2, <4>2 DEF PushLinks, Goto, Pushing, Locals
      <4> QED BY <3>5, <4>1, <4>2
    <3>6. CASE PushSwings(t) \/ Helps(t)
      BY <1>t, <3>2, <3>6 DEF PushSwings, Helps, Goto, Pushing, Popping, Locals
    <3>7. CASE StartPop(t) \/ PopAnswersEmpty(t)
      BY <1>t, <3>2, <3>7 DEF StartPop, PopAnswersEmpty, Idle, Popping
    <3>8. CASE PopLoadsHead(t) \/ PopLoadsTail(t) \/ PopLoadsNext(t)
      <4>1. CASE PopLoadsHead(t)
        BY <1>t, <3>2, <4>1 DEF PopLoadsHead, Load, Popping, Locals
      <4>2. CASE PopLoadsTail(t)
        BY <1>t, <3>2, <4>2 DEF PopLoadsTail, Load, Popping, Locals
      <4>3. CASE PopLoadsNext(t)
        BY <1>t, <3>2, <4>3 DEF PopLoadsNext, Load, Popping, Locals
      <4> QED BY <3>8, <4>1, <4>2, <4>3
    <3>9. CASE PopChecks(t) \/ (PopTakes(t) /\ head # thread[t].head)
      BY <1>t, <3>2, <3>9 DEF PopChecks, PopTakes, Goto, Popping, Locals
    <3> QED BY <1>6, <3>3, <3>4, <3>5, <3>6, <3>7, <3>8, <3>9
  <2>3. Pushed' = Pushed /\ Popped' = Popped
    BY <2>2 DEF Pushed, Popped, Pushing, Popping
  <2> QED BY <2>1, <2>3 DEF CountInv
<1> QED BY <1>1, <1>2, <1>3, <1>4, <1>5, <1>6 DEF QueueNext, PushLinks, PopTakes

(* ErrQueueEmpty is never a lie: a Pop that finds no node behind the head  *)
(* it loaded has loaded the last node, all before it were taken, and it    *)
(* then looks at an empty queue.                                           *)
LEMMA EmptyStep == ListInv /\ EmptyInv /\ [QueueNext]_queueVars => EmptyInv'
<1> SUFFICES ASSUME ListInv, EmptyInv, [QueueNext]_queueVars PROVE EmptyInv'
  OBVIOUS
<1>t. thread \in [Threads -> Locals] /\ Len(linked) \in Nat /\ Len(popped) \in Nat
  BY LastIsOpen DEF ListInv, TypeInv
<1>e. /\ emptySeen \in [Threads -> BOOLEAN] /\ ~lied
      /\ \A t \in Threads :
           /\ thread[t].at \in Popping /\ Len(linked) = Len(popped) => emptySeen[t]
           /\ thread[t].at = "popCheck" /\ thread[t].next = Nil => emptySeen[t]
  BY DEF EmptyInv
<1>0. ASSUME NEW t \in Threads, \A u \in Threads \ {t} : thread'[u] = thread[u],
             UNCHANGED <<linked, popped, emptySeen, lied>>,
             thread'[t].at \in Popping => thread[t].at \in Popping,
             thread'[t].at = "popCheck" /\ thread'[t].next = Nil => emptySeen[t]
      PROVE  EmptyInv'
  BY <1>0, <1>e DEF EmptyInv
<1>1. CASE UNCHANGED queueVars
  BY <1>1, <1>e DEF queueVars, EmptyInv
<1>2. ASSUME NEW t \in Threads, PushLinks(t), next[thread[t].tail] = Nil PROVE EmptyInv'
  <2>1. /\ thread[t].at = "link" /\ thread' = [thread EXCEPT ![t].at = "swing"]
        /\ UNCHANGED <<popped, emptySeen, lied>>
    BY <1>2 DEF PushLinks, Goto
  <2>2. thread'[t].at = "swing" /\ \A u \in Threads \ {t} : thread'[u] = thread[u]
    BY <1>t, <2>1 DEF Locals
  <2>3. Len(linked') # Len(popped)
    <3>1. linked' = Append(linked, thread[t].node) /\ linked' \in Seq(1 .. MaxPushes)
      BY <1>2, LinkKeepsList DEF ListInv, TypeInv
    <3>2. Len(linked') = Len(linked) + 1 /\ Len(popped) <= Len(linked)
      BY <3>1 DEF ListInv, TypeInv, ChainInv
    <3> QED BY <1>t, <3>2
  <2> QED BY <1>e, <2>1, <2>2, <2>3 DEF EmptyInv
<1>3. ASSUME NEW t \in Threads, PopTakes(t), head = thread[t].head PROVE EmptyInv'
  <2>1. /\ thread[t].at = "take" /\ thread' = [thread EXCEPT ![t].at = "popCount"]
        /\ emptySeen' = [u \in Threads |-> emptySeen[u] \/ Len(linked) = Len(popped')]
        /\ UNCHANGED <<linked, lied>>
    BY <1>3 DEF PopTakes, Goto
  <2>2. thread'[t].at = "popCount" /\ \A u \in Threads \ {t} : thread'[u] = thread[u]
    BY <1>t, <2>1 DEF Locals
  <2>3. emptySeen' \in [Threads -> BOOLEAN]
    BY <2>1, Zenon
  <2>4. \A u \in Threads : emptySeen[u] \/ Len(linked) = Len(popped') => emptySeen'[u]
    BY <2>1
  <2> QED BY <1>e, <2>1, <2>2, <2>3, <2>4 DEF EmptyInv, Popping
<1>4. ASSUME NEW t \in Threads, StartPop(t) PROVE EmptyInv'
  <2>1. /\ thread' = [thread EXCEPT ![t] = [Idle EXCEPT !.at = "pop"]]
        /\ emptySeen' = [emptySeen EXCEPT ![t] = Len(linked) = Len(popped)]
        /\ UNCHANGED <<linked, popped, lied>>
    BY <1>4 DEF StartPop
  <2>2. thread'[t].at = "pop" /\ \A u \in Threads \ {t} : thread'[u] = thread[u]
    BY <1>t, <2>1, IdleOrPop
  <2>3. emptySeen' \in [Threads -> BOOLEAN]
    BY <1>e, <2>1, Zenon
  <2>4. /\ Len(linked) = Len(popped) => emptySeen'[t]
        /\ \A u \in Threads \ {t} : emptySeen'[u] = emptySeen[u]
    BY <1>e, <2>1
  <2> QED BY <1>e, <2>1, <2>2, <2>3, <2>4 DEF EmptyInv
<1>5. ASSUME NEW t \in Threads, PopLoadsNext(t) PROVE EmptyInv'
  <2> DEFINE n == next[thread[t].head]
  <2>1. /\ thread[t].at = "popNext" /\ UNCHANGED <<linked, popped, emptySeen, lied>>
        /\ thread' = [thread EXCEPT ![t] = [thread[t] EXCEPT !.at = "popCheck", !.next = n]]
    BY <1>5 DEF PopLoadsNext, Load, historyVars
  <2> HIDE DEF n
  <2>2. thread'[t].next = n /\ \A u \in Threads \ {t} : thread'[u] = thread[u]
    BY <1>t, <2>1 DEF Locals
  <2>3. ASSUME n = Nil PROVE emptySeen[t]
    <3>1. PICK i \in 0 .. Len(popped), j \in 0 .. TailAt :
             i <= j /\ thread[t].head = Node(linked, i) /\ thread[t].tail = Node(linked, j)
      BY <2>1, BehindTail DEF ListInv, LoadedInv
    <3>2. Len(popped) <= Len(linked)
      BY DEF ListInv, ChainInv
    <3>3. i \in 0 .. Len(linked)
      BY <1>t, <3>2
    <3>4. i = Len(linked)
      BY <2>3, <3>1, <3>3, LastIsOpen DEF n, ListInv
    <3>5. Len(linked) = Len(popped)
      BY <1>t, <3>2, <3>4
    <3> QED BY <1>e, <2>1, <3>5 DEF Popping
  <2> QED BY <1>0, <2>1, <2>2, <2>3 DEF Popping
<1>6. ASSUME NEW t \in Threads, PopAnswersEmpty(t) PROVE EmptyInv'
  <2>1. /\ thread[t].at = "popCheck" /\ thread[t].next = Nil /\ lied' = (lied \/ ~emptySeen[t])
        /\ thread' = [thread EXCEPT ![t] = Idle] /\ UNCHANGED <<linked, popped, emptySeen>>
    BY <1>6 DEF PopAnswersEmpty
  <2>2. thread'[t].at = "idle" /\ \A u \in Threads \ {t} : thread'[u] = thread[u]
    BY <1>t, <2>1, IdleOrPop
  <2>3. ~lied'
    BY <1>e, <2>1
  <2> QED BY <1>e, <2>1, <2>2, <2>3 DEF EmptyInv, Popping
<1>7. ASSUME NEW t \in Threads,
             \/ StartPush(t) \/ PushLoadsTail(t) \/ PushLoadsNext(t) \/ PushChecks(t)
             \/ (PushLinks(t) /\ next[thread[t].tail] # Nil) \/ PushSwings(t) \/ PushCounts(t)
      PROVE  EmptyInv'
  <2>1. UNCHANGED <<linked, popped, emptySeen, lied>>
    BY <1>7 DEF StartPush, PushLoadsTail, PushLoadsNext, PushChecks, PushLinks, PushSwings,
         PushCounts, Load, historyVars
  <2>2. thread'[t].at \notin Popping /\ \A u \in Threads \ {t} : thread'[u] = thread[u]
    <3>1. CASE StartPush(t) \/ PushCounts(t)
      <4>1. \/ thread' = [thread EXCEPT ![t] = Idle]
            \/ thread' = [thread EXCEPT ![t] = [Idle EXCEPT !.at = "push", !.node = pushes']]
        BY <3>1 DEF StartPush, PushCounts
      <4>2. [Idle EXCEPT !.at = "push", !.node = pushes'].at = "push" /\ Idle.at = "idle"
        BY DEF Idle
      <4> QED BY <1>t, <4>1, <4>2 DEF Popping
    <3>2. CASE PushLoadsTail(t) \/ PushLoadsNext(t)
      BY <1>t, <3>2 DEF PushLoadsTail, PushLoadsNext, Load, Popping, Locals
    <3>3. CASE PushChecks(t)
      BY <1>t, <3>3 DEF PushChecks, Goto, Popping, Locals
    <3>4. CASE (PushLinks(t) /\ next[thread[t].tail] # Nil) \/ PushSwings(t)
      BY <1>t, <3>4 DEF PushLinks, PushSwings, Goto, Popping, Locals
    <3> QED BY <1>7, <3>1, <3>2, <3>3, <3>4
  <2> QED BY <1>0, <2>1, <2>2 DEF Popping
<1>8. ASSUME NEW t \in Threads,
             \/ Helps(t) \/ PopLoadsHead(t) \/ PopLoadsTail(t) \/ PopChecks(t)
             \/ (PopTakes(t) /\ head # thread[t].head) \/ PopCounts(t)
      PROVE  EmptyInv'
  <2>1. UNCHANGED <<linked, popped, emptySeen, lied>>
    BY <1>8 DEF Helps, PopLoadsHead, PopLoadsTail, PopChecks, PopTakes, PopCounts, Load, historyVars
  <2>2. /\ thread'[t].at # "popCheck" /\ \A u \in Threads \ {t} : thread'[u] = thread[u]
        /\ thread'[t].at \in Popping => thread[t].at \in Popping
    <3>1. CASE Helps(t)
      BY <1>t, <3>1 DEF Helps, Goto, Popping, Locals
    <3>2. CASE PopLoadsHead(t) \/ PopLoadsTail(t)
      BY <1>t, <3>2 DEF PopLoadsHead, PopLoadsTail, Load, Popping, Locals
    <3>3. CASE PopChecks(t) \/ (PopTakes(t) /\ head # thread[t].head)
      BY <1>t, <3>3 DEF PopChecks, PopTakes, Goto, Popping, Locals
    <3>4. CASE PopCounts(t)
      BY <1>t, <3>4 DEF PopCounts, Idle, Popping
    <3> QED BY <1>8, <3>1, <3>2, <3>3, <3>4
  <2> QED BY <1>0, <2>1, <2>2
<1> QED
  BY <1>1, <1>2, <1>3, <1>4, <1>5, <1>6, <1>7, <1>8 DEF QueueNext, PushLinks, PopTakes

(* An empty queue, its sentinel and idle threads satisfy the invariant.    *)
LEMMA LockFreeInit == QueueInit => LockFreeInv
<1> SUFFICES ASSUME QueueInit PROVE LockFreeInv
  OBVIOUS
<1> USE DEF QueueInit
<1>1. Len(linked) = 0 /\ Len(popped) = 0 /\ TailAt = 0
  BY DEF TailAt, Node
<1>2. TypeInv
  <2>1. thread \in [Threads -> Locals]
    BY IdleOrPop
  <2>2. next \in [Nodes -> 0 .. MaxPushes]
    OBVIOUS
  <2> QED BY <2>1, <2>2 DEF TypeInv
<1>3. ChainInv
  BY <1>1 DEF ChainInv, Distinct, Node
<1>4. \A t \in Threads : thread[t].at = "idle"
  BY IdleOrPop
<1>5. NodeInv /\ LoadedInv
  BY <1>4 DEF NodeInv, OwnsNode, LoadedInv, PushLoaded, PopLoaded, Pushing
<1>6. EmptyInv
  <2>1. emptySeen \in [Threads -> BOOLEAN] /\ ~lied
    BY Zenon
  <2> QED BY <1>4, <2>1 DEF EmptyInv, Popping
<1>7. CountInv
  <2>1. Pushed = {} /\ Popped = {}
    BY <1>4 DEF Pushed, Popped
  <2> QED BY <1>1, <2>1, FS_EmptySet DEF CountInv
<1> QED BY <1>2, <1>3, <1>5, <1>6, <1>7 DEF LockFreeInv, ListInv

(* Every step of any thread keeps the invariant.                           *)
LEMMA LockFreeStep == LockFreeInv /\ [QueueNext]_queueVars => LockFreeInv'
BY ListStep, EmptyStep, CountStep DEF LockFreeInv

(* So it always holds.                                                     *)
LEMMA LockFreeHolds == QueueSpec => []LockFreeInv
BY LockFreeInit, LockFreeStep, PTL DEF QueueSpec

--------------------------------------------------------------------------------
(* A successful compare-and-swap of Push is a Put of an abstract queue, a  *)
(* successful one of the head in Pop a Take, and no other step touches it. *)
THEOREM LockFreeImplementsFIFO == QueueSpec => QueueIsFIFO
<1>1. QueueInit => FIFO!Init
  BY DEF QueueInit, FIFO!Init
<1>2. ASSUME LockFreeInv, [QueueNext]_queueVars PROVE [FIFO!Next]_<<linked, popped>>
  <2> USE <1>2 DEF LockFreeInv
  <2>1. Len(linked) \in Nat /\ Len(popped) \in Nat
    BY LastIsOpen DEF ListInv
  <2>2. ASSUME NEW t \in Threads, PushLinks(t), next[thread[t].tail] = Nil PROVE FIFO!Next
    <3> DEFINE n == thread[t].node
               others == (1 .. MaxPushes) \ {n}
    <3>1. linked' = Append(linked, n) /\ popped' = popped /\ thread[t].at = "link"
      BY <2>2 DEF PushLinks, Goto
    <3>2. n \in 1 .. pushes /\ \A i \in 1 .. Len(linked) : linked[i] # n
      BY <3>1 DEF ListInv, NodeInv, OwnsNode, Pushing
    <3>a. pushes \in 0 .. MaxPushes /\ linked \in Seq(1 .. MaxPushes) /\ MaxPushes \in Nat
      BY LockFreeQueueAssumption DEF ListInv, TypeInv
    <3>3. n \in 1 .. MaxPushes
      BY <3>2, <3>a
    <3>4. Len(linked) < MaxPushes
      <4>1. IsFiniteSet(1 .. MaxPushes) /\ Cardinality(1 .. MaxPushes) = MaxPushes
        <5>1. 1 \in Int /\ MaxPushes \in Int
          OBVIOUS
        <5>2. IsFiniteSet(1 .. MaxPushes)
              /\ Cardinality(1 .. MaxPushes) = IF 1 > MaxPushes THEN 0 ELSE MaxPushes - 1 + 1
          BY <5>1, FS_Interval, Zenon
        <5> QED BY <5>2
      <4>2. IsFiniteSet(1 .. Len(linked)) /\ Cardinality(1 .. Len(linked)) = Len(linked)
        <5>1. 1 \in Int /\ Len(linked) \in Int
          BY <2>1
        <5>2. IsFiniteSet(1 .. Len(linked))
              /\ Cardinality(1 .. Len(linked)) = IF 1 > Len(linked) THEN 0 ELSE Len(linked) - 1 + 1
          BY <5>1, FS_Interval, Zenon
        <5> QED BY <2>1, <5>2
      <4>3. IsFiniteSet(others) /\ Cardinality(others) = MaxPushes - 1
        BY <3>3, <4>1, FS_RemoveElement
      <4>4. linked \in [1 .. Len(linked) -> others]
        BY <3>2, <3>a
      <4>5. \A i, j \in 1 .. Len(linked) : i # j => linked[i] # linked[j]
        BY DEF ListInv, ChainInv, Distinct
      <4> HIDE DEF others
      <4>6. ~(Cardinality(others) < Cardinality(1 .. Len(linked)))
        <5> SUFFICES ASSUME Cardinality(others) < Cardinality(1 .. Len(linked)) PROVE FALSE
          OBVIOUS
        <5>1. \E i, j \in 1 .. Len(linked) : i # j /\ linked[i] = linked[j]
          BY <4>2, <4>3, <4>4, FS_PigeonHole, Zenon
        <5> QED BY <4>5, <5>1
      <4> QED BY <2>1, <4>2, <4>3, <4>6
    <3>5. n \in Nodes /\ Len(linked) < Len(popped) + MaxPushes
      BY <2>1, <3>3, <3>4
    <3> QED BY <3>1, <3>5 DEF FIFO!Next, FIFO!Put
  <2>3. ASSUME NEW t \in Threads, PopTakes(t), head = thread[t].head PROVE FIFO!Next
    BY <2>3, TakeKeepsList DEF FIFO!Next, FIFO!Take
  <2>4. CASE UNCHANGED <<linked, popped>>
    BY <2>4
  <2>5. ASSUME NEW t \in Threads,
               \/ StartPush(t) \/ PushLoadsTail(t) \/ PushLoadsNext(t) \/ PushChecks(t)
               \/ (PushLinks(t) /\ next[thread[t].tail] # Nil) \/ PushSwings(t) \/ PushCounts(t)
               \/ Helps(t) \/ StartPop(t) \/ PopLoadsHead(t) \/ PopLoadsTail(t)
               \/ PopLoadsNext(t) \/ PopAnswersEmpty(t) \/ PopChecks(t)
               \/ (PopTakes(t) /\ head # thread[t].head) \/ PopCounts(t)
        PROVE  UNCHANGED <<linked, popped>>
    BY <2>5 DEF StartPush, PushLoadsTail, PushLoadsNext, PushChecks, PushLinks, PushSwings,
         PushCounts, Helps, StartPop, PopLoadsHead, PopLoadsTail, PopLoadsNext,
         PopAnswersEmpty, PopChecks, PopTakes, PopCounts, Load, historyVars
  <2> QED BY <2>2, <2>3, <2>4, <2>5 DEF QueueNext, PushLinks, PopTakes, queueVars
<1> QED BY <1>1, <1>2, LockFreeHolds, PTL DEF QueueSpec, QueueIsFIFO

(* Of a queue for which the invariant holds every answer is truthful.      *)
LEMMA LockFreeInvImplies == LockFreeInv => AnswersTruthful
<1> SUFFICES ASSUME LockFreeInv, \A t \in Threads : thread[t].at = "idle"
             PROVE  count = Len(linked) - Len(popped)
  BY DEF AnswersTruthful, LockFreeInv, EmptyInv
<1>1. Pushed = {} /\ Popped = {}
  BY DEF Pushed, Popped
<1>2. Cardinality(Pushed) = 0 /\ Cardinality(Popped) = 0
  BY <1>1, FS_EmptySet
<1> QED BY <1>2, LastIsOpen DEF LockFreeInv, CountInv, ListInv

(* Pop says the queue is empty only if it was, at some moment of the call, *)
(* and when no call is under way Size is exact.                            *)
THEOREM AnswersAreTrue == QueueSpec => []AnswersTruthful
BY LockFreeHolds, LockFreeInvImplies, PTL
================================================================================
