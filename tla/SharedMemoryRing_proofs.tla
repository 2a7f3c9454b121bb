------------------------ MODULE SharedMemoryRing_proofs ------------------------
(***************************************************************************)
(* Proofs about SharedMemoryRing, for any number of producers, consumers,  *)
(* slots, messages and crashes.                                            *)
(*                                                                         *)
(* The argument has three layers.  LockInv: the flag of a slot is a lock,  *)
(* whatever index its holder came with.  RingInv: the slots of the indices *)
(* claimed by a producer and not yet by a consumer (InFlight) are never    *)
(* empty, hold the message sent for their index, and only they can be      *)
(* ready; a holder whose compare-and-swap of the index is yet to come or   *)
(* has failed cannot have damaged one of them.  CountInv: the message      *)
(* counter is off by the processes between an index and the counter.       *)
(***************************************************************************)
EXTENDS SharedMemoryRing, FiniteSetTheorems, TLAPS

InFlight == readIndex .. writeIndex - 1

ControlType ==
  /\ flag \in [Slots -> {"empty", "writing", "ready", "reading"}]
  /\ pPc \in [Producers -> WriteSteps \cup {"idle", "gone", "dead"}]
  /\ cPc \in [Consumers -> ReadSteps \cup {"tick", "poll", "exited", "gone", "dead"}]
  /\ wIdx \in [Producers -> Nat] /\ rIdx \in [Consumers -> Nat]

DataType ==
  /\ writeIndex \in Nat /\ readIndex \in Nat
  /\ data \in [Slots -> Messages \cup {NoMsg}]
  /\ offset \in [Producers -> 0 .. MaxSends] /\ IsFiniteSet(Calls)
  /\ \A p \in Producers : pPc[p] \in WriteSteps => offset[p] >= 1
  /\ msg \in [Consumers -> Messages \cup {NoMsg}]
  /\ sent \in Seq(Messages) /\ taken \in Seq(Messages)
  /\ handled \subseteq Nat \X Messages

TypeInv == ControlType /\ DataType

HoldsToWrite(p) == pPc[p] \in {"advance", "release", "copy", "ready"}
HoldsToRead(c)  == cPc[c] \in {"advance", "release", "copy", "empty"}

(* Whoever holds a slot finds its own flag there, and holds it alone.      *)
LockInv ==
  /\ \A p \in Producers : HoldsToWrite(p) => flag[Slot(wIdx[p])] = "writing"
  /\ \A c \in Consumers : HoldsToRead(c) => flag[Slot(rIdx[c])] = "reading"
  /\ \A p, q \in Producers :
       HoldsToWrite(p) /\ HoldsToWrite(q) /\ Slot(wIdx[p]) = Slot(wIdx[q]) => p = q
  /\ \A c, d \in Consumers :
       HoldsToRead(c) /\ HoldsToRead(d) /\ Slot(rIdx[c]) = Slot(rIdx[d]) => c = d

(* The indices and the history.                                            *)
IndexInv ==
  /\ Len(sent) = writeIndex /\ Len(taken) = readIndex
  /\ readIndex <= writeIndex /\ writeIndex <= readIndex + SlotCount
  /\ \A i \in 1 .. Len(taken) : taken[i] = sent[i]

(* What the slots say about the messages in flight.                        *)
SlotInv ==
  /\ \A i \in InFlight : /\ flag[Slot(i)] # "empty"
                         /\ flag[Slot(i)] \in {"ready", "reading"} => data[Slot(i)] = sent[i + 1]
  /\ \A s \in Slots : flag[s] = "ready" => \E i \in InFlight : Slot(i) = s

(* What a producer knows about the slot it holds: before its claim of the  *)
(* index succeeds no message in flight lives there, afterwards its own     *)
(* does.                                                                   *)
WriterInv ==
  \A p \in Producers :
    /\ pPc[p] \in {"advance", "release"} => \A i \in InFlight : Slot(i) # Slot(wIdx[p])
    /\ pPc[p] \in {"copy", "ready"} =>
         wIdx[p] \in InFlight /\ sent[wIdx[p] + 1] = <<p, offset[p]>>
    /\ pPc[p] = "ready" => data[Slot(wIdx[p])] = <<p, offset[p]>>

(* What a consumer knows about the slot it holds: until its claim of the   *)
(* index succeeds a message in flight lives there, afterwards its own      *)
(* message and none in flight.                                             *)
ReaderInv ==
  \A c \in Consumers :
    /\ cPc[c] \in {"advance", "release"} => \E i \in InFlight : Slot(i) = Slot(rIdx[c])
    /\ cPc[c] \in {"copy", "empty"} => \A i \in InFlight : Slot(i) # Slot(rIdx[c])
    /\ cPc[c] \in {"copy", "empty", "count"} => rIdx[c] < readIndex
    /\ cPc[c] = "copy" => data[Slot(rIdx[c])] = sent[rIdx[c] + 1]
    /\ cPc[c] \in {"empty", "count"} => msg[c] = sent[rIdx[c] + 1]

(* The message counter lags behind the indices by the processes between an *)
(* index and the counter.                                                  *)
Writing == {p \in Producers : InWrite(p)}
Reading == {c \in Consumers : InRead(c)}
Settled == Len(sent) - Len(taken) - Cardinality(Writing) + Cardinality(Reading)
CountInv ==
  /\ crashes \in Nat /\ IsFiniteSet(Writing) /\ IsFiniteSet(Reading)
  /\ crashes = 0 => messageCount = Settled % CountModulus

RingInv == TypeInv /\ LockInv /\ IndexInv /\ SlotInv /\ WriterInv /\ ReaderInv /\ HandledInOrder

IInv == RingInv /\ CountInv

--------------------------------------------------------------------------------
(* The only multiple of N less than N away from 0 is 0.                    *)
LEMMA SmallMultiple ==
  ASSUME NEW N \in Nat \ {0}, NEW d \in Int, -N < N * d, N * d < N
  PROVE  d = 0
<1>1. CASE d >= 1
  <2>1. N * d >= N
    BY <1>1
  <2>2. QED
    BY <2>1
<1>2. CASE d <= -1
  <2>1. N * d <= -N
    BY <1>2
  <2>2. QED
    BY <2>1
<1>3. QED
  BY <1>1, <1>2

(* The difference of two numbers is a multiple of N and the difference of  *)
(* their remainders.                                                       *)
LEMMA SameRemainder ==
  ASSUME NEW N \in Nat \ {0}, NEW i \in Int, NEW j \in Int
  PROVE  /\ i % N \in 0 .. N - 1 /\ j % N \in 0 .. N - 1
         /\ j - i = N * ((j \div N) - (i \div N)) + ((j % N) - (i % N))
<1>1. i = N * (i \div N) + (i % N) /\ j = N * (j \div N) + (j % N)
  OBVIOUS
<1>2. i \div N \in Int /\ j \div N \in Int /\ i % N \in 0 .. N - 1 /\ j % N \in 0 .. N - 1
  OBVIOUS
<1>3. N * ((j \div N) - (i \div N)) = N * (j \div N) - N * (i \div N)
  BY <1>2
<1>4. QED
  BY <1>1, <1>2, <1>3

(* Numbers a multiple of N apart have the same remainder.                  *)
LEMMA EqualRemainders ==
  ASSUME NEW N \in Nat \ {0}, NEW i \in Int, NEW j \in Int, NEW k \in Int, j - i = N * k
  PROVE  j % N = i % N
<1> DEFINE d == (j \div N) - (i \div N)
<1>1. d \in Int
  OBVIOUS
<1>2. j - i = N * d + ((j % N) - (i % N)) /\ i % N \in 0 .. N - 1 /\ j % N \in 0 .. N - 1
  BY SameRemainder
<1> HIDE DEF d
<1>3. N * (k - d) = N * k - N * d
  BY <1>1
<1>4. k - d = 0
  BY <1>1, <1>2, <1>3, SmallMultiple
<1>5. k = d
  BY <1>1, <1>4
<1>6. (j % N) - (i % N) = 0
  BY <1>1, <1>2, <1>5
<1>7. QED
  BY <1>2, <1>6

(* A counter kept modulo N follows the counter it stands for.              *)
LEMMA ModuloAdd ==
  ASSUME NEW N \in Nat \ {0}, NEW x \in Int, NEW d \in Int
  PROVE  ((x % N) + d) % N = (x + d) % N
<1>1. x = N * (x \div N) + (x % N) /\ x \div N \in Int /\ x % N \in Int
  OBVIOUS
<1>2. (x + d) - ((x % N) + d) = N * (x \div N)
  BY <1>1
<1>3. x + d \in Int /\ (x % N) + d \in Int
  BY <1>1
<1>4. (x + d) % N = ((x % N) + d) % N
  BY <1>1, <1>2, <1>3, EqualRemainders, Zenon
<1>5. QED
  BY <1>4

(* Distinct indices less than SlotCount apart have distinct slots.         *)
LEMMA SlotsDiffer ==
  \A i, j \in Nat : i < j /\ j < i + SlotCount => Slot(i) # Slot(j)
<1> SUFFICES ASSUME NEW i \in Nat, NEW j \in Nat, i < j, j < i + SlotCount,
                    i % SlotCount = j % SlotCount
             PROVE  FALSE
  BY DEF Slot
<1> DEFINE N == SlotCount
           d == (j \div N) - (i \div N)
<1>1. N \in Nat \ {0} /\ i \in Int /\ j \in Int /\ d \in Int
  BY RingAssumption
<1>2. j - i = N * d + ((j % N) - (i % N)) /\ i % N \in 0 .. N - 1
  BY <1>1, SameRemainder, Zenon
<1>3. i % N = j % N /\ i < j /\ j < i + N
  OBVIOUS
<1> HIDE DEF N, d
<1>4. j - i = N * d
  BY <1>1, <1>2, <1>3
<1>5. d = 0
  BY <1>1, <1>3, <1>4, SmallMultiple
<1>6. QED
  BY <1>1, <1>3, <1>4, <1>5

(* The ring wraps around: SlotCount indices later it is the same slot.     *)
LEMMA SlotWraps == \A i \in Nat : Slot(i + SlotCount) = Slot(i)
<1> SUFFICES ASSUME NEW i \in Nat
             PROVE  (i + SlotCount) % SlotCount = i % SlotCount
  BY DEF Slot
<1>1. SlotCount \in Nat \ {0} /\ (i + SlotCount) - i = SlotCount * 1
  BY RingAssumption
<1>2. i \in Int /\ i + SlotCount \in Int /\ 1 \in Int
  BY <1>1
<1>3. QED
  BY <1>1, <1>2, EqualRemainders, Zenon

(* Every index has a slot.                                                 *)
LEMMA SlotInRange == \A i \in Nat : Slot(i) \in Slots
  BY RingAssumption DEF Slot, Slots

--------------------------------------------------------------------------------
(* Most steps of a process that holds no slot, and its crash, change only  *)
(* what it knows itself.                                                   *)
QuietWrite(p) ==
  /\ \A q \in Producers \ {p} : pPc'[q] = pPc[q] /\ wIdx'[q] = wIdx[q] /\ offset'[q] = offset[q]
  /\ pPc'[p] \notin {"advance", "release", "copy", "ready"}
  /\ UNCHANGED <<writeIndex, readIndex, slots, consumer, history>>

QuietRead(c) ==
  /\ \A d \in Consumers \ {c} : cPc'[d] = cPc[d] /\ rIdx'[d] = rIdx[d] /\ msg'[d] = msg[d]
  /\ cPc'[c] \notin {"advance", "release", "copy", "empty", "count"}
  /\ UNCHANGED <<writeIndex, readIndex, slots, producer, sent, taken>>

(* Send, the steps before the claim of the slot, the counter, Close and a  *)
(* crash are quiet.                                                        *)
LEMMA QuietWriteSteps ==
  ASSUME TypeInv, NEW p \in Producers,
         \/ Send(p) \/ WriteClosed(p) \/ WriteLoad(p) \/ WriteEmpty(p)
         \/ WriteCount(p) \/ ProducerClose(p) \/ ProducerCrash(p)
  PROVE  QuietWrite(p)
<1> USE DEF QuietWrite, WriteStep, TypeInv, ControlType, DataType, header, slots, producer, consumer, history
<1>1. CASE Send(p)
  BY <1>1 DEF Send
<1>2. CASE WriteClosed(p)
  BY <1>2 DEF WriteClosed
<1>3. CASE WriteLoad(p)
  BY <1>3 DEF WriteLoad
<1>4. CASE WriteEmpty(p)
  BY <1>4 DEF WriteEmpty
<1>5. CASE WriteCount(p)
  BY <1>5 DEF WriteCount
<1>6. CASE ProducerClose(p)
  BY <1>6 DEF ProducerClose
<1>7. CASE ProducerCrash(p)
  BY <1>7 DEF ProducerCrash
<1>8. QED
  BY <1>1, <1>2, <1>3, <1>4, <1>5, <1>6, <1>7

(* The loop, the steps of Read before the claim of the slot and after its  *)
(* release, Close and a crash are quiet.                                   *)
LEMMA QuietReadSteps ==
  ASSUME TypeInv, NEW c \in Consumers,
         \/ Tick(c) \/ Poll(c) \/ LoopExit(c) \/ ReadClosed(c) \/ ReadDrained(c)
         \/ ReadLoad(c) \/ ReadReady(c) \/ ReadCount(c) \/ ConsumerClose(c)
         \/ ConsumerCrash(c)
  PROVE  QuietRead(c)
<1> USE DEF QuietRead, ReadStep, TypeInv, ControlType, DataType, header, slots, producer, consumer, history
<1>1. CASE Tick(c) \/ Poll(c) \/ LoopExit(c)
  BY <1>1 DEF Tick, Poll, LoopExit
<1>2. CASE ReadClosed(c) \/ ReadDrained(c)
  BY <1>2 DEF ReadClosed, ReadDrained
<1>3. CASE ReadLoad(c)
  BY <1>3 DEF ReadLoad
<1>4. CASE ReadReady(c)
  BY <1>4 DEF ReadReady
<1>5. CASE ReadCount(c)
  BY <1>5 DEF ReadCount
<1>6. CASE ConsumerClose(c)
  BY <1>6 DEF ConsumerClose
<1>7. CASE ConsumerCrash(c)
  BY <1>7 DEF ConsumerCrash
<1>8. QED
  BY <1>1, <1>2, <1>3, <1>4, <1>5, <1>6, <1>7

(* Every step is quiet or one of ten that touch a slot or an index; Cancel *)
(* touches only the context.                                               *)
LEMMA Steps ==
  ASSUME TypeInv, [Next]_vars
  PROVE  \/ \E p \in Producers :
              \/ QuietWrite(p) \/ WriteClaim(p) \/ WriteAdvance(p)
              \/ WriteRelease(p) \/ WriteCopy(p) \/ WriteReady(p)
         \/ \E c \in Consumers :
              \/ QuietRead(c) /\ handled' = handled
              \/ ReadCount(c) \/ ReadClaim(c) \/ ReadAdvance(c)
              \/ ReadRelease(c) \/ ReadCopy(c) \/ ReadEmpty(c)
         \/ UNCHANGED <<writeIndex, readIndex, slots, producer, cPc, rIdx, msg, history>>
<1>1. ASSUME NEW p \in Producers, Send(p) \/ Write(p) \/ ProducerClose(p) \/ ProducerCrash(p)
      PROVE  \/ QuietWrite(p) \/ WriteClaim(p) \/ WriteAdvance(p)
             \/ WriteRelease(p) \/ WriteCopy(p) \/ WriteReady(p)
  BY <1>1, QuietWriteSteps DEF Write
<1>2. ASSUME NEW c \in Consumers, ConsumeLoop(c) \/ ConsumerClose(c) \/ ConsumerCrash(c)
      PROVE  \/ QuietRead(c) /\ handled' = handled
             \/ ReadCount(c) \/ ReadClaim(c) \/ ReadAdvance(c)
             \/ ReadRelease(c) \/ ReadCopy(c) \/ ReadEmpty(c)
  <2>1. CASE \/ Tick(c) \/ Poll(c) \/ LoopExit(c) \/ ReadClosed(c) \/ ReadDrained(c)
             \/ ReadLoad(c) \/ ReadReady(c) \/ ConsumerClose(c) \/ ConsumerCrash(c)
    <3>1. handled' = handled
      BY <2>1 DEF Tick, Poll, LoopExit, ReadClosed, ReadDrained, ReadLoad, ReadReady,
                  ConsumerClose, ConsumerCrash, history
    <3>2. QED
      BY <2>1, <3>1, QuietReadSteps
  <2>2. QED
    BY <1>2, <2>1 DEF ConsumeLoop, Read
<1>3. ASSUME NEW c \in Consumers, Cancel(c)
      PROVE  UNCHANGED <<writeIndex, readIndex, slots, producer, cPc, rIdx, msg, history>>
  BY <1>3 DEF Cancel, header
<1>4. CASE UNCHANGED vars
  BY <1>4 DEF vars, header, consumer
<1>5. QED
  BY <1>1, <1>2, <1>3, <1>4 DEF Next

--------------------------------------------------------------------------------
(* The offset of a producer counts its own calls, so it stays within the   *)
(* bound that Send checks for all of them.                                 *)
LEMMA OffsetBound ==
  ASSUME TypeInv, Cardinality(Calls) < MaxSends, NEW p \in Producers
  PROVE  offset[p] + 1 <= MaxSends
<1> DEFINE Own == {<<p, n>> : n \in 1 .. offset[p]}
           f == [n \in 1 .. offset[p] |-> <<p, n>>]
<1>1. offset[p] \in Nat /\ offset[p] <= MaxSends /\ MaxSends \in Nat
  BY RingAssumption DEF TypeInv, DataType
<1>2. Own \subseteq Calls
  BY <1>1 DEF Calls, Messages
<1>3. IsFiniteSet(Own) /\ Cardinality(Own) <= Cardinality(Calls) /\ Cardinality(Calls) \in Nat
  BY <1>2, FS_Subset, FS_CardinalityType DEF TypeInv, DataType
<1>4. Cardinality(Own) = offset[p]
  <2>1. /\ IsFiniteSet(1 .. offset[p])
        /\ Cardinality(1 .. offset[p]) = IF 1 > offset[p] THEN 0 ELSE offset[p] - 1 + 1
    BY <1>1, FS_Interval, 1 \in Int, offset[p] \in Int, Zenon
  <2>2. f \in Bijection(1 .. offset[p], Own)
    <3>1. f \in [1 .. offset[p] -> Own]
      OBVIOUS
    <3>2. \A i, j \in 1 .. offset[p] : f[i] = f[j] => i = j
      OBVIOUS
    <3>3. \A c \in Own : \E n \in 1 .. offset[p] : f[n] = c
      OBVIOUS
    <3> HIDE DEF f, Own
    <3> QED BY <3>1, <3>2, <3>3 DEF Bijection, Injection, Surjection, IsInjective
  <2>3. Cardinality(1 .. offset[p]) = offset[p]
    BY <1>1, <2>1
  <2>4. ExistsBijection(1 .. offset[p], Own)
    BY <2>2, Zenon DEF ExistsBijection
  <2> HIDE DEF f, Own
  <2>5. QED
    BY <2>1, <2>3, <2>4, FS_Bijection, Zenon
<1>5. Cardinality(Own) \in Nat
  BY <1>1, <1>4
<1>6. QED
  BY <1>1, <1>3, <1>4

(* The busy flag of a slot has one holder at most, and is set while it is  *)
(* held: only the compare-and-swap of Write and of Read takes it.          *)
LEMMA LockStep == TypeInv /\ LockInv /\ [Next]_vars => LockInv'
<1> SUFFICES ASSUME TypeInv, LockInv, [Next]_vars PROVE LockInv'
  OBVIOUS
<1>a. /\ ControlType
      /\ \A p \in Producers : Slot(wIdx[p]) \in Slots
      /\ \A c \in Consumers : Slot(rIdx[c]) \in Slots
  BY SlotInRange DEF TypeInv, ControlType
<1> USE <1>a DEF ControlType, LockInv, HoldsToWrite, HoldsToRead, WriteStep, ReadStep,
                 header, slots, producer, consumer, history
<1>1. ASSUME NEW p \in Producers, QuietWrite(p) PROVE LockInv'
  <2>1. UNCHANGED <<flag, cPc, rIdx>>
    BY <1>1 DEF QuietWrite
  <2>2. \A q \in Producers : HoldsToWrite(q)' => HoldsToWrite(q) /\ wIdx'[q] = wIdx[q]
    BY <1>1 DEF QuietWrite
  <2>3. QED
    BY <2>1, <2>2
<1>2. ASSUME NEW p \in Producers, WriteClaim(p) PROVE LockInv'
  <2>1. CASE flag' = flag
    BY <1>2, <2>1 DEF WriteClaim
  <2>2. CASE flag' # flag
    <3>1. flag[Slot(wIdx[p])] = "empty" /\ flag' = [flag EXCEPT ![Slot(wIdx[p])] = "writing"]
      BY <1>2, <2>2 DEF WriteClaim
    <3>2. UNCHANGED <<wIdx, cPc, rIdx>> /\ pPc' = [pPc EXCEPT ![p] = "advance"]
      BY <1>2, <2>2 DEF WriteClaim
    <3>3. QED
      BY <3>1, <3>2
  <2>3. QED
    BY <2>1, <2>2
<1>3. ASSUME NEW p \in Producers, WriteAdvance(p) \/ WriteCopy(p) PROVE LockInv'
  <2>1. UNCHANGED <<flag, wIdx, cPc, rIdx>>
    BY <1>3 DEF WriteAdvance, WriteCopy
  <2>2. \A q \in Producers : HoldsToWrite(q)' => HoldsToWrite(q)
    BY <1>3 DEF WriteAdvance, WriteCopy
  <2>3. QED
    BY <2>1, <2>2
<1>4. ASSUME NEW p \in Producers, WriteRelease(p) PROVE LockInv'
  BY <1>4 DEF WriteRelease
<1>5. ASSUME NEW p \in Producers, WriteReady(p) PROVE LockInv'
  BY <1>5 DEF WriteReady
<1>6. ASSUME NEW c \in Consumers, QuietRead(c) PROVE LockInv'
  BY <1>6 DEF QuietRead
<1>7. ASSUME NEW c \in Consumers, ReadClaim(c) PROVE LockInv'
  <2>1. CASE flag' = flag
    BY <1>7, <2>1 DEF ReadClaim
  <2>2. CASE flag' # flag
    <3>1. flag[Slot(rIdx[c])] = "ready" /\ flag' = [flag EXCEPT ![Slot(rIdx[c])] = "reading"]
      BY <1>7, <2>2 DEF ReadClaim
    <3>2. UNCHANGED <<wIdx, pPc, rIdx>> /\ cPc' = [cPc EXCEPT ![c] = "advance"]
      BY <1>7, <2>2 DEF ReadClaim
    <3>3. QED
      BY <3>1, <3>2
  <2>3. QED
    BY <2>1, <2>2
<1>8. ASSUME NEW c \in Consumers, ReadAdvance(c) \/ ReadCopy(c) PROVE LockInv'
  <2>1. UNCHANGED <<flag, pPc, wIdx, rIdx>>
    BY <1>8 DEF ReadAdvance, ReadCopy
  <2>2. \A d \in Consumers : HoldsToRead(d)' => HoldsToRead(d)
    BY <1>8 DEF ReadAdvance, ReadCopy
  <2>3. QED
    BY <2>1, <2>2
<1>9. ASSUME NEW c \in Consumers, ReadRelease(c) PROVE LockInv'
  BY <1>9 DEF ReadRelease
<1>10. ASSUME NEW c \in Consumers, ReadEmpty(c) PROVE LockInv'
  BY <1>10 DEF ReadEmpty
<1>11. CASE UNCHANGED <<writeIndex, readIndex, slots, producer, cPc, rIdx, msg, history>>
  BY <1>11
<1>12. QED
  BY Steps, QuietReadSteps, <1>1, <1>2, <1>3, <1>4, <1>5, <1>6, <1>7, <1>8, <1>9,
     <1>10, <1>11

--------------------------------------------------------------------------------
(* No two messages in flight share a slot.                                 *)
LEMMA InFlightApart ==
  ASSUME TypeInv, IndexInv
  PROVE  /\ \A i, j \in InFlight : Slot(i) = Slot(j) => i = j
         /\ InFlight \subseteq Nat
  BY RingAssumption, SlotsDiffer DEF InFlight, IndexInv, TypeInv, DataType

(* A producer that holds the slot of writeIndex found room for a message:  *)
(* were the ring full, that slot would be the one of the oldest message.   *)
LEMMA WriterHasRoom ==
  ASSUME RingInv, NEW p \in Producers, pPc[p] = "advance", wIdx[p] = writeIndex
  PROVE  writeIndex < readIndex + SlotCount
<1>0. writeIndex \in Nat /\ readIndex \in Nat /\ writeIndex <= readIndex + SlotCount
  BY DEF RingInv, IndexInv, TypeInv, DataType
<1> SUFFICES ASSUME writeIndex = readIndex + SlotCount PROVE FALSE
  BY <1>0, RingAssumption
<1>1. readIndex \in InFlight
  BY RingAssumption DEF RingInv, TypeInv, DataType, InFlight
<1>2. Slot(readIndex) = Slot(wIdx[p])
  BY SlotWraps DEF RingInv, TypeInv, DataType
<1>3. QED
  BY <1>1, <1>2 DEF RingInv, WriterInv

(* A consumer that holds the slot of readIndex has the oldest message.     *)
LEMMA ReaderHasOldest ==
  ASSUME RingInv, NEW c \in Consumers, cPc[c] = "advance", rIdx[c] = readIndex
  PROVE  /\ readIndex \in InFlight
         /\ data[Slot(readIndex)] = sent[readIndex + 1]
<1>1. PICK i \in InFlight : Slot(i) = Slot(readIndex)
  BY DEF RingInv, ReaderInv
<1>2. i = readIndex
  <2>1. i \in Nat /\ readIndex \in Nat /\ readIndex <= i /\ i < readIndex + SlotCount
    BY RingAssumption DEF RingInv, IndexInv, TypeInv, DataType, InFlight
  <2>2. QED
    BY <1>1, <2>1, SlotsDiffer
<1>3. flag[Slot(readIndex)] = "reading"
  BY DEF RingInv, LockInv, HoldsToRead
<1>4. QED
  BY <1>1, <1>2, <1>3 DEF RingInv, SlotInv

(* What a successful claim of writeIndex does.                             *)
LEMMA WriteAdvances ==
  ASSUME RingInv, NEW p \in Producers, WriteAdvance(p), wIdx[p] = writeIndex
  PROVE  /\ pPc[p] = "advance" /\ pPc' = [pPc EXCEPT ![p] = "copy"]
         /\ InFlight' = InFlight \cup {writeIndex} /\ readIndex' = readIndex
         /\ sent' = Append(sent, <<p, offset[p]>>) /\ <<p, offset[p]>> \in Messages
         /\ \A i \in Nat : i < Len(sent) => sent'[i + 1] = sent[i + 1]
         /\ sent'[writeIndex + 1] = <<p, offset[p]>>
         /\ Len(sent') = Len(sent) + 1 /\ Len(sent) = writeIndex
         /\ UNCHANGED <<flag, data, wIdx, offset, cPc, rIdx, msg, taken, handled>>
<1> USE DEF RingInv, TypeInv, DataType
<1>1. /\ pPc[p] = "advance" /\ pPc' = [pPc EXCEPT ![p] = "copy"]
      /\ writeIndex' = writeIndex + 1 /\ sent' = Append(sent, <<p, offset[p]>>)
      /\ UNCHANGED <<flag, data, wIdx, offset, cPc, rIdx, msg, taken, handled, readIndex>>
  BY DEF WriteAdvance, WriteStep, slots, consumer
<1>2. InFlight' = InFlight \cup {writeIndex}
  BY <1>1 DEF InFlight, IndexInv
<1>3. <<p, offset[p]>> \in Messages
  BY <1>1 DEF Messages, WriteSteps
<1>4. QED
  BY <1>1, <1>2, <1>3 DEF IndexInv

(* What a successful claim of readIndex does.                              *)
LEMMA ReadAdvances ==
  ASSUME RingInv, NEW c \in Consumers, ReadAdvance(c), rIdx[c] = readIndex
  PROVE  /\ cPc[c] = "advance" /\ cPc' = [cPc EXCEPT ![c] = "copy"]
         /\ readIndex \in InFlight /\ InFlight' = InFlight \ {readIndex}
         /\ readIndex' = readIndex + 1
         /\ taken' = Append(taken, sent[readIndex + 1]) /\ sent[readIndex + 1] \in Messages
         /\ data[Slot(readIndex)] = sent[readIndex + 1]
         /\ UNCHANGED <<flag, data, pPc, wIdx, offset, rIdx, msg, sent, handled, writeIndex>>
<1> USE DEF RingInv, TypeInv, DataType
<1>1. /\ cPc[c] = "advance" /\ cPc' = [cPc EXCEPT ![c] = "copy"]
      /\ readIndex' = readIndex + 1 /\ taken' = Append(taken, data[Slot(readIndex)])
      /\ UNCHANGED <<flag, data, pPc, wIdx, offset, rIdx, msg, sent, handled, writeIndex>>
  BY DEF ReadAdvance, ReadStep, slots, producer
<1>2. readIndex \in InFlight /\ data[Slot(readIndex)] = sent[readIndex + 1]
  BY <1>1, ReaderHasOldest
<1>3. InFlight' = InFlight \ {readIndex}
  BY <1>1, <1>2 DEF InFlight
<1>4. sent[readIndex + 1] \in Messages
  BY <1>2 DEF InFlight, IndexInv
<1>5. QED
  BY <1>1, <1>2, <1>3, <1>4

(* A compare-and-swap of an index that fails changes only the next step of *)
(* its process.                                                            *)
LEMMA WriteLoses ==
  ASSUME NEW p \in Producers, WriteAdvance(p), wIdx[p] # writeIndex
  PROVE  /\ pPc[p] = "advance" /\ pPc' = [pPc EXCEPT ![p] = "release"]
         /\ UNCHANGED <<writeIndex, readIndex, slots, wIdx, offset, cPc, rIdx, msg, history>>
  BY DEF WriteAdvance, WriteStep, consumer, history

(* The same of a consumer that lost the claim of readIndex.                *)
LEMMA ReadLoses ==
  ASSUME NEW c \in Consumers, ReadAdvance(c), rIdx[c] # readIndex
  PROVE  /\ cPc[c] = "advance" /\ cPc' = [cPc EXCEPT ![c] = "release"]
         /\ UNCHANGED <<writeIndex, readIndex, slots, producer, rIdx, msg, history>>
  BY DEF ReadAdvance, ReadStep, history

(* Both indices only grow, by one, and readIndex never passes writeIndex.  *)
LEMMA IndexStep == RingInv /\ [Next]_vars => IndexInv'
<1> SUFFICES ASSUME RingInv, [Next]_vars PROVE IndexInv'
  OBVIOUS
<1>a. /\ writeIndex \in Nat /\ readIndex \in Nat /\ SlotCount \in Nat \ {0}
      /\ sent \in Seq(Messages) /\ taken \in Seq(Messages)
      /\ IndexInv /\ TypeInv
  BY RingAssumption DEF RingInv, TypeInv, DataType
<1>1. CASE UNCHANGED <<writeIndex, readIndex, sent, taken>>
  BY <1>a, <1>1 DEF IndexInv
<1>2. ASSUME NEW p \in Producers, WriteAdvance(p), wIdx[p] = writeIndex PROVE IndexInv'
  <2>1. pPc[p] = "advance" /\ writeIndex < readIndex + SlotCount
    BY <1>2, WriteAdvances, WriterHasRoom
  <2>2. /\ Len(sent') = Len(sent) + 1 /\ UNCHANGED <<readIndex, taken>>
        /\ \A i \in Nat : i < Len(sent) => sent'[i + 1] = sent[i + 1]
    BY <1>2, WriteAdvances
  <2>3. \A i \in 1 .. Len(taken) : taken[i] = sent'[i]
    <3>1. \A i \in 1 .. Len(taken) : i - 1 \in Nat /\ i - 1 < Len(sent) /\ (i - 1) + 1 = i
      BY <1>a DEF IndexInv
    <3>2. QED
      BY <1>a, <2>2, <3>1 DEF IndexInv
  <2>4. writeIndex' = writeIndex + 1
    BY <1>2 DEF WriteAdvance
  <2>5. QED
    BY <1>a, <2>1, <2>2, <2>3, <2>4 DEF IndexInv
<1>3. ASSUME NEW c \in Consumers, ReadAdvance(c), rIdx[c] = readIndex PROVE IndexInv'
  <2>1. /\ readIndex < writeIndex /\ readIndex' = readIndex + 1
        /\ taken' = Append(taken, sent[readIndex + 1])
        /\ UNCHANGED <<writeIndex, sent>>
    BY <1>3, <1>a, ReadAdvances DEF InFlight
  <2>2. QED
    BY <1>a, <2>1 DEF IndexInv
<1>4. QED
  BY <1>a, <1>1, <1>2, <1>3, Steps, WriteLoses, ReadLoses
  DEF QuietWrite, QuietRead, WriteClaim, WriteRelease, WriteCopy, WriteReady, ReadCount,
      ReadClaim, ReadRelease, ReadCopy, ReadEmpty, header, history

(* What a slot holds is the message of the one index in flight it is for,  *)
(* or is marked as not readable.                                           *)
LEMMA SlotStep == RingInv /\ [Next]_vars => SlotInv'
<1> SUFFICES ASSUME RingInv, [Next]_vars PROVE SlotInv'
  OBVIOUS
<1>a. /\ ControlType /\ LockInv /\ SlotInv /\ WriterInv /\ ReaderInv
      /\ data \in [Slots -> Messages \cup {NoMsg}]
      /\ InFlight \subseteq Nat /\ \A i, j \in InFlight : Slot(i) = Slot(j) => i = j
      /\ \A i \in InFlight : Slot(i) \in Slots
      /\ \A p \in Producers : Slot(wIdx[p]) \in Slots
      /\ \A c \in Consumers : Slot(rIdx[c]) \in Slots
  BY SlotInRange, InFlightApart DEF RingInv, TypeInv, ControlType, DataType
<1> USE <1>a DEF ControlType, SlotInv
<1>1. CASE UNCHANGED <<writeIndex, readIndex, slots, sent>>
  BY <1>1 DEF slots, InFlight
<1>2. ASSUME NEW p \in Producers, WriteClaim(p) PROVE SlotInv'
  <2>1. InFlight' = InFlight /\ sent' = sent /\ data' = data
    BY <1>2 DEF WriteClaim, header, history, InFlight
  <2>2. CASE flag' = flag
    BY <2>1, <2>2
  <2>3. CASE flag' # flag
    BY <1>2, <2>1, <2>3 DEF WriteClaim
  <2>4. QED
    BY <2>2, <2>3
<1>3. ASSUME NEW p \in Producers, WriteAdvance(p), wIdx[p] = writeIndex PROVE SlotInv'
  <2>1. flag[Slot(writeIndex)] = "writing"
    BY <1>3, WriteAdvances DEF LockInv, HoldsToWrite
  <2>2. /\ InFlight' = InFlight \cup {writeIndex} /\ UNCHANGED <<flag, data>>
        /\ \A i \in InFlight : sent'[i + 1] = sent[i + 1]
    <3>1. \A i \in InFlight : i < Len(sent)
      BY DEF RingInv, IndexInv, TypeInv, DataType, InFlight
    <3>2. QED
      BY <1>3, <3>1, WriteAdvances
  <2>3. QED
    BY <2>1, <2>2
<1>4. ASSUME NEW p \in Producers, WriteRelease(p) PROVE SlotInv'
  <2>1. \A i \in InFlight : Slot(i) # Slot(wIdx[p])
    BY <1>4 DEF WriterInv, WriteRelease, WriteStep
  <2>2. QED
    BY <1>4, <2>1 DEF WriteRelease, header, history, InFlight
<1>5. ASSUME NEW p \in Producers, WriteCopy(p) PROVE SlotInv'
  <2>1. flag[Slot(wIdx[p])] = "writing"
    BY <1>5 DEF LockInv, HoldsToWrite, WriteCopy, WriteStep
  <2>2. QED
    BY <1>5, <2>1 DEF WriteCopy, header, history, InFlight
<1>6. ASSUME NEW p \in Producers, WriteReady(p) PROVE SlotInv'
  <2>1. wIdx[p] \in InFlight /\ data[Slot(wIdx[p])] = sent[wIdx[p] + 1]
    BY <1>6 DEF WriterInv, WriteReady, WriteStep
  <2>2. QED
    BY <1>6, <2>1 DEF WriteReady, header, history, InFlight
<1>7. ASSUME NEW c \in Consumers, ReadClaim(c) PROVE SlotInv'
  <2>1. InFlight' = InFlight /\ sent' = sent /\ data' = data
    BY <1>7 DEF ReadClaim, header, history, InFlight
  <2>2. CASE flag' = flag
    BY <2>1, <2>2
  <2>3. CASE flag' # flag
    BY <1>7, <2>1, <2>3 DEF ReadClaim
  <2>4. QED
    BY <2>2, <2>3
<1>8. ASSUME NEW c \in Consumers, ReadAdvance(c), rIdx[c] = readIndex PROVE SlotInv'
  <2>1. flag[Slot(readIndex)] = "reading"
    BY <1>8, ReadAdvances DEF LockInv, HoldsToRead
  <2>2. InFlight' = InFlight \ {readIndex} /\ UNCHANGED <<flag, data, sent>>
    BY <1>8, ReadAdvances
  <2>3. QED
    BY <2>1, <2>2
<1>9. ASSUME NEW c \in Consumers, ReadRelease(c) PROVE SlotInv'
  <2>1. \E i \in InFlight : Slot(i) = Slot(rIdx[c])
    BY <1>9 DEF ReaderInv, ReadRelease, ReadStep
  <2>2. flag[Slot(rIdx[c])] = "reading"
    BY <1>9 DEF LockInv, HoldsToRead, ReadRelease, ReadStep
  <2>3. QED
    BY <1>9, <2>1, <2>2 DEF ReadRelease, header, history, InFlight
<1>10. ASSUME NEW c \in Consumers, ReadEmpty(c) PROVE SlotInv'
  <2>1. \A i \in InFlight : Slot(i) # Slot(rIdx[c])
    BY <1>10 DEF ReaderInv, ReadEmpty, ReadStep
  <2>2. QED
    BY <1>10, <2>1 DEF ReadEmpty, header, history, InFlight
<1>11. QED
  BY <1>1, <1>2, <1>3, <1>4, <1>5, <1>6, <1>7, <1>8, <1>9, <1>10, Steps, WriteLoses, ReadLoses
  DEF RingInv, QuietWrite, QuietRead, ReadCount, ReadCopy, header, history

(* What a producer remembers of its Write between two of its steps stays   *)
(* true, whatever the other processes do.                                  *)
LEMMA WriterStep == RingInv /\ [Next]_vars => WriterInv'
<1> SUFFICES ASSUME RingInv, [Next]_vars PROVE WriterInv'
  OBVIOUS
<1>a. /\ ControlType /\ LockInv /\ SlotInv /\ WriterInv
      /\ data \in [Slots -> Messages \cup {NoMsg}]
      /\ InFlight \subseteq Nat /\ \A i \in InFlight : i < Len(sent)
      /\ \A p \in Producers : Slot(wIdx[p]) \in Slots
      /\ \A c \in Consumers : Slot(rIdx[c]) \in Slots
  BY SlotInRange DEF RingInv, TypeInv, ControlType, DataType, IndexInv, InFlight
<1> USE <1>a DEF ControlType, WriterInv
<1>1. CASE UNCHANGED <<writeIndex, readIndex, data, producer, sent>>
  BY <1>1 DEF producer, InFlight
<1>2. ASSUME NEW p \in Producers, QuietWrite(p) PROVE WriterInv'
  <2>1. UNCHANGED <<InFlight, data, sent>>
    BY <1>2 DEF QuietWrite, slots, history, InFlight
  <2>2. \A q \in Producers : pPc'[q] \in {"advance", "release", "copy", "ready"}
          => pPc'[q] = pPc[q] /\ wIdx'[q] = wIdx[q] /\ offset'[q] = offset[q]
    BY <1>2 DEF QuietWrite
  <2>3. QED
    BY <2>1, <2>2
<1>3. ASSUME NEW p \in Producers, WriteClaim(p) PROVE WriterInv'
  <2>1. UNCHANGED <<InFlight, data, sent, wIdx, offset>>
    BY <1>3 DEF WriteClaim, header, history, InFlight
  <2>2. CASE flag' = flag
    BY <1>3, <2>1, <2>2 DEF WriteClaim, WriteStep
  <2>3. CASE flag' # flag
    <3>1. flag[Slot(wIdx[p])] = "empty" /\ pPc' = [pPc EXCEPT ![p] = "advance"]
      BY <1>3, <2>3 DEF WriteClaim, WriteStep
    <3>2. \A i \in InFlight : Slot(i) # Slot(wIdx[p])
      BY <3>1 DEF SlotInv
    <3>3. QED
      BY <2>1, <3>1, <3>2
  <2>4. QED
    BY <2>2, <2>3
<1>4. ASSUME NEW p \in Producers, WriteAdvance(p), wIdx[p] = writeIndex PROVE WriterInv'
  <2>1. /\ pPc[p] = "advance" /\ pPc' = [pPc EXCEPT ![p] = "copy"]
        /\ InFlight' = InFlight \cup {wIdx[p]} /\ UNCHANGED <<data, wIdx, offset>>
        /\ \A i \in InFlight : sent'[i + 1] = sent[i + 1]
        /\ sent'[wIdx[p] + 1] = <<p, offset[p]>>
    BY <1>4, WriteAdvances
  <2>2. \A q \in Producers : pPc[q] \in {"advance", "release"} /\ q # p
          => Slot(wIdx[q]) # Slot(wIdx[p])
    BY <2>1 DEF LockInv, HoldsToWrite
  <2>3. QED
    BY <2>1, <2>2
<1>5. ASSUME NEW p \in Producers, WriteAdvance(p), wIdx[p] # writeIndex PROVE WriterInv'
  BY <1>5, WriteLoses DEF slots, history, InFlight
<1>6. ASSUME NEW p \in Producers, WriteRelease(p) \/ WriteReady(p) PROVE WriterInv'
  BY <1>6 DEF WriteRelease, WriteReady, WriteStep, header, history, InFlight
<1>7. ASSUME NEW p \in Producers, WriteCopy(p) PROVE WriterInv'
  <2>1. \A q \in Producers : pPc[q] = "ready" => Slot(wIdx[q]) # Slot(wIdx[p])
    BY <1>7 DEF LockInv, HoldsToWrite, WriteCopy, WriteStep
  <2>2. /\ pPc[p] = "copy" /\ pPc' = [pPc EXCEPT ![p] = "ready"]
        /\ data' = [data EXCEPT ![Slot(wIdx[p])] = <<p, offset[p]>>]
        /\ UNCHANGED <<InFlight, sent, wIdx, offset>>
    BY <1>7 DEF WriteCopy, WriteStep, header, history, InFlight
  <2>3. QED
    BY <2>1, <2>2
<1>8. ASSUME NEW c \in Consumers, ReadAdvance(c), rIdx[c] = readIndex PROVE WriterInv'
  <2>1. /\ flag[Slot(readIndex)] = "reading" /\ InFlight' = InFlight \ {readIndex}
        /\ UNCHANGED <<data, producer, sent>>
    BY <1>8, ReadAdvances DEF LockInv, HoldsToRead, producer
  <2>2. \A q \in Producers : pPc[q] \in {"copy", "ready"} => wIdx[q] # readIndex
    BY <2>1 DEF LockInv, HoldsToWrite
  <2>3. QED
    BY <2>1, <2>2 DEF producer
<1>9. QED
  BY <1>1, <1>2, <1>3, <1>4, <1>5, <1>6, <1>7, <1>8, Steps, ReadLoses
  DEF RingInv, QuietRead, ReadCount, ReadClaim, ReadRelease, ReadCopy, ReadEmpty,
      header, slots, history

(* What a consumer remembers of its Read between two of its steps stays    *)
(* true, whatever the other processes do.                                  *)
LEMMA ReaderStep == RingInv /\ [Next]_vars => ReaderInv'
<1> SUFFICES ASSUME RingInv, [Next]_vars PROVE ReaderInv'
  OBVIOUS
<1>a. /\ ControlType /\ LockInv /\ SlotInv /\ ReaderInv
      /\ data \in [Slots -> Messages \cup {NoMsg}]
      /\ msg \in [Consumers -> Messages \cup {NoMsg}]
      /\ InFlight \subseteq Nat /\ \A i \in InFlight : i < Len(sent)
      /\ readIndex \in Nat /\ readIndex <= Len(sent) /\ Len(sent) \in Nat
      /\ \A p \in Producers : Slot(wIdx[p]) \in Slots
      /\ \A c \in Consumers : Slot(rIdx[c]) \in Slots
  BY SlotInRange DEF RingInv, TypeInv, ControlType, DataType, IndexInv, InFlight
<1> USE <1>a DEF ControlType, ReaderInv
<1>1. CASE UNCHANGED <<writeIndex, readIndex, data, cPc, rIdx, msg, sent>>
  BY <1>1 DEF InFlight
<1>2. ASSUME NEW p \in Producers, WriteAdvance(p), wIdx[p] = writeIndex PROVE ReaderInv'
  <2>1. /\ InFlight' = InFlight \cup {writeIndex} /\ UNCHANGED <<readIndex, data, cPc, rIdx, msg>>
        /\ \A i \in Nat : i < Len(sent) => sent'[i + 1] = sent[i + 1]
        /\ flag[Slot(writeIndex)] = "writing"
    BY <1>2, WriteAdvances DEF LockInv, HoldsToWrite
  <2>2. \A c \in Consumers : cPc[c] \in {"copy", "empty"} => Slot(rIdx[c]) # Slot(writeIndex)
    BY <2>1 DEF LockInv, HoldsToRead
  <2>3. \A c \in Consumers : rIdx[c] < readIndex => sent'[rIdx[c] + 1] = sent[rIdx[c] + 1]
    BY <2>1
  <2>4. QED
    BY <2>1, <2>2, <2>3
<1>3. ASSUME NEW p \in Producers, WriteCopy(p) PROVE ReaderInv'
  <2>1. \A c \in Consumers : cPc[c] = "copy" => Slot(rIdx[c]) # Slot(wIdx[p])
    BY <1>3 DEF LockInv, HoldsToWrite, HoldsToRead, WriteCopy, WriteStep
  <2>2. /\ data' = [data EXCEPT ![Slot(wIdx[p])] = <<p, offset[p]>>]
        /\ UNCHANGED <<InFlight, readIndex, sent, cPc, rIdx, msg>>
    BY <1>3 DEF WriteCopy, header, consumer, history, InFlight
  <2>3. QED
    BY <2>1, <2>2
<1>4. ASSUME NEW c \in Consumers, QuietRead(c) PROVE ReaderInv'
  <2>1. UNCHANGED <<InFlight, readIndex, data, sent>>
    BY <1>4 DEF QuietRead, slots, InFlight
  <2>2. \A d \in Consumers : cPc'[d] \in {"advance", "release", "copy", "empty", "count"}
          => cPc'[d] = cPc[d] /\ rIdx'[d] = rIdx[d] /\ msg'[d] = msg[d]
    BY <1>4 DEF QuietRead
  <2>3. QED
    BY <2>1, <2>2
<1>5. ASSUME NEW c \in Consumers, ReadClaim(c) PROVE ReaderInv'
  <2>1. UNCHANGED <<InFlight, readIndex, data, sent, rIdx, msg>>
    BY <1>5 DEF ReadClaim, header, history, InFlight
  <2>2. CASE flag' = flag
    BY <1>5, <2>1, <2>2 DEF ReadClaim, ReadStep
  <2>3. CASE flag' # flag
    <3>1. flag[Slot(rIdx[c])] = "ready" /\ cPc' = [cPc EXCEPT ![c] = "advance"]
      BY <1>5, <2>3 DEF ReadClaim, ReadStep
    <3>2. \E i \in InFlight : Slot(i) = Slot(rIdx[c])
      BY <3>1 DEF SlotInv
    <3>3. QED
      BY <2>1, <3>1, <3>2
  <2>4. QED
    BY <2>2, <2>3
<1>6. ASSUME NEW c \in Consumers, ReadAdvance(c), rIdx[c] = readIndex PROVE ReaderInv'
  <2>1. /\ cPc[c] = "advance" /\ cPc' = [cPc EXCEPT ![c] = "copy"]
        /\ InFlight' = InFlight \ {readIndex} /\ readIndex' = readIndex + 1
        /\ readIndex \in InFlight /\ data[Slot(readIndex)] = sent[readIndex + 1]
        /\ UNCHANGED <<data, rIdx, msg, sent>>
    BY <1>6, ReadAdvances
  <2>2. \A d \in Consumers : HoldsToRead(d) /\ d # c => Slot(rIdx[d]) # Slot(readIndex)
    BY <1>6, <2>1 DEF LockInv, HoldsToRead
  <2>3. \A i \in InFlight' : Slot(i) # Slot(readIndex)
    BY <2>1, InFlightApart DEF RingInv
  <2>4. QED
    BY <1>6, <2>1, <2>2, <2>3 DEF HoldsToRead
<1>7. ASSUME NEW c \in Consumers, ReadAdvance(c), rIdx[c] # readIndex PROVE ReaderInv'
  <2>1. /\ cPc[c] = "advance" /\ cPc' = [cPc EXCEPT ![c] = "release"]
        /\ UNCHANGED <<InFlight, readIndex, data, sent, rIdx, msg>>
    BY <1>7, ReadLoses DEF slots, history, InFlight
  <2>2. \E i \in InFlight : Slot(i) = Slot(rIdx[c])
    BY <2>1
  <2>3. \A d \in Consumers : cPc'[d] = IF d = c THEN "release" ELSE cPc[d]
    BY <2>1
  <2>4. QED
    BY <2>1, <2>2, <2>3
<1>8. ASSUME NEW c \in Consumers, ReadRelease(c) \/ ReadCopy(c) \/ ReadEmpty(c) PROVE ReaderInv'
  <2>1. CASE ReadRelease(c)
    BY <2>1 DEF ReadRelease, ReadStep, header, history, InFlight
  <2>2. CASE ReadCopy(c)
    BY <2>2 DEF ReadCopy, ReadStep, header, slots, history, InFlight
  <2>3. CASE ReadEmpty(c)
    BY <2>3 DEF ReadEmpty, ReadStep, header, history, InFlight
  <2>4. QED
    BY <1>8, <2>1, <2>2, <2>3
<1>9. QED
  BY <1>1, <1>2, <1>3, <1>4, <1>5, <1>6, <1>7, <1>8, Steps, WriteLoses, QuietReadSteps
  DEF RingInv, QuietWrite, WriteClaim, WriteRelease, WriteReady,
      header, slots, consumer, history

(* Only a message whose index the consumer won is handled.                 *)
LEMMA HandledStep == RingInv /\ [Next]_vars => HandledInOrder'
<1> SUFFICES ASSUME RingInv, [Next]_vars PROVE HandledInOrder'
  OBVIOUS
<1>a. /\ HandledInOrder /\ ReaderInv /\ handled \subseteq Nat \X Messages
      /\ readIndex \in Nat /\ readIndex <= Len(sent) /\ Len(sent) \in Nat
      /\ rIdx \in [Consumers -> Nat]
  BY DEF RingInv, TypeInv, ControlType, DataType, IndexInv
<1>1. CASE UNCHANGED <<sent, handled>>
  BY <1>a, <1>1 DEF HandledInOrder
<1>2. ASSUME NEW p \in Producers, WriteAdvance(p), wIdx[p] = writeIndex PROVE HandledInOrder'
  <2>1. /\ handled' = handled /\ Len(sent') = Len(sent) + 1
        /\ \A i \in Nat : i < Len(sent) => sent'[i + 1] = sent[i + 1]
    BY <1>2, WriteAdvances
  <2>2. ASSUME NEW h \in handled PROVE h[1] < Len(sent') /\ h[2] = sent'[h[1] + 1]
    <3>1. h[1] \in Nat /\ h[1] < Len(sent) /\ h[2] = sent[h[1] + 1]
      BY <1>a DEF HandledInOrder
    <3>2. QED
      BY <1>a, <2>1, <3>1
  <2>3. QED
    BY <2>1, <2>2 DEF HandledInOrder
<1>3. ASSUME NEW c \in Consumers, ReadCount(c) PROVE HandledInOrder'
  <2>1. handled' = handled \cup {<<rIdx[c], msg[c]>>} /\ sent' = sent
    BY <1>3 DEF ReadCount
  <2>2. rIdx[c] < Len(sent) /\ msg[c] = sent[rIdx[c] + 1]
    BY <1>3, <1>a DEF ReaderInv, ReadCount, ReadStep
  <2>3. QED
    BY <1>a, <2>1, <2>2 DEF HandledInOrder
<1>4. QED
  BY <1>1, <1>2, <1>3, Steps, WriteLoses
  DEF RingInv, QuietWrite, QuietRead, WriteClaim, WriteRelease, WriteCopy, WriteReady,
      ReadClaim, ReadAdvance, ReadRelease, ReadCopy, ReadEmpty, header, history

(* Every process stays at a point of its program.                          *)
LEMMA ControlStep == TypeInv /\ [Next]_vars => ControlType'
<1> SUFFICES ASSUME TypeInv, [Next]_vars PROVE ControlType'
  OBVIOUS
<1> USE DEF TypeInv, ControlType, DataType, WriteStep, ReadStep, WriteSteps, ReadSteps,
            header, slots, producer, consumer, history
<1>1. ASSUME NEW p \in Producers,
             Send(p) \/ WriteClosed(p) \/ WriteLoad(p) \/ WriteEmpty(p) \/ WriteAdvance(p)
      PROVE  ControlType'
  BY <1>1 DEF Send, WriteClosed, WriteLoad, WriteEmpty, WriteAdvance
<1>2. ASSUME NEW p \in Producers,
             WriteClaim(p) \/ WriteRelease(p) \/ WriteReady(p) \/ WriteCopy(p)
      PROVE  ControlType'
  BY <1>2 DEF WriteClaim, WriteRelease, WriteReady, WriteCopy
<1>3. ASSUME NEW p \in Producers, WriteCount(p) \/ ProducerClose(p) \/ ProducerCrash(p)
      PROVE  ControlType'
  BY <1>3 DEF WriteCount, ProducerClose, ProducerCrash
<1>4. ASSUME NEW c \in Consumers,
             \/ Tick(c) \/ Poll(c) \/ LoopExit(c) \/ ReadClosed(c) \/ ReadDrained(c)
             \/ ReadLoad(c) \/ ReadReady(c) \/ ReadAdvance(c)
      PROVE  ControlType'
  BY <1>4 DEF Tick, Poll, LoopExit, ReadClosed, ReadDrained, ReadLoad, ReadReady, ReadAdvance
<1>5. ASSUME NEW c \in Consumers,
             ReadClaim(c) \/ ReadRelease(c) \/ ReadEmpty(c) \/ ReadCopy(c)
      PROVE  ControlType'
  BY <1>5 DEF ReadClaim, ReadRelease, ReadEmpty, ReadCopy
<1>6. ASSUME NEW c \in Consumers,
             ReadCount(c) \/ Cancel(c) \/ ConsumerClose(c) \/ ConsumerCrash(c)
      PROVE  ControlType'
  BY <1>6 DEF ReadCount, Cancel, ConsumerClose, ConsumerCrash
<1>7. CASE UNCHANGED vars
  BY <1>7 DEF vars
<1>8. QED
  BY <1>1, <1>2, <1>3, <1>4, <1>5, <1>6, <1>7 DEF Next, Write, Read, ConsumeLoop

(* The memory and the history variables keep their types.                  *)
LEMMA DataStep == RingInv /\ [Next]_vars => DataType'
<1> SUFFICES ASSUME RingInv, [Next]_vars PROVE DataType'
  OBVIOUS
<1>a. TypeInv /\ ControlType /\ DataType
  BY DEF RingInv, TypeInv
<1>b. /\ \A p \in Producers : Slot(wIdx[p]) \in Slots
      /\ \A c \in Consumers : Slot(rIdx[c]) \in Slots
  BY <1>a, SlotInRange DEF ControlType
<1> USE <1>a, <1>b DEF ControlType, DataType, WriteStep, ReadStep, WriteSteps,
                       header, slots, producer, consumer, history
<1>1. ASSUME NEW p \in Producers, Send(p) PROVE DataType'
  <2>1. /\ offset' = [offset EXCEPT ![p] = @ + 1] /\ Cardinality(Calls) < MaxSends
        /\ \A q \in Producers : pPc'[q] \in WriteSteps => q = p \/ pPc[q] \in WriteSteps
        /\ UNCHANGED <<writeIndex, readIndex, data, msg, sent, taken, handled>>
    BY <1>1 DEF Send
  <2>2. offset' \in [Producers -> 0 .. MaxSends]
    BY <2>1, OffsetBound, RingAssumption
  <2>3. IsFiniteSet(Calls')
    <3>1. Calls' \subseteq Calls \cup {<<p, offset[p] + 1>>}
      <4>1. SUFFICES ASSUME NEW m \in Messages, m[2] <= offset'[m[1]], m \notin Calls
                     PROVE  m = <<p, offset[p] + 1>>
        BY DEF Calls
      <4>2. PICK q \in Producers, n \in 1 .. MaxSends : m = <<q, n>>
        BY DEF Messages
      <4>3. n <= offset'[q] /\ ~(n <= offset[q])
        BY <4>1, <4>2 DEF Calls
      <4>4. q = p /\ n = offset[p] + 1
        BY <2>1, <4>3, RingAssumption
      <4>5. QED
        BY <4>2, <4>4
    <3>2. QED
      BY <3>1, FS_AddElement, FS_Subset
  <2>4. QED
    BY <2>1, <2>2, <2>3
<1>2. ASSUME NEW p \in Producers, WriteAdvance(p), wIdx[p] = writeIndex PROVE DataType'
  <2>1. /\ sent' = Append(sent, <<p, offset[p]>>) /\ <<p, offset[p]>> \in Messages
        /\ UNCHANGED <<readIndex, data, offset, msg, taken, handled>>
    BY <1>2, WriteAdvances
  <2>2. /\ writeIndex' = writeIndex + 1
        /\ \A q \in Producers : pPc'[q] \in WriteSteps => pPc[q] \in WriteSteps
    BY <1>2 DEF WriteAdvance
  <2>3. sent' \in Seq(Messages)
    BY <2>1
  <2>4. QED
    BY <2>1, <2>2, <2>3 DEF Calls
<1>3. ASSUME NEW c \in Consumers, ReadAdvance(c), rIdx[c] = readIndex PROVE DataType'
  <2>1. /\ taken' = Append(taken, sent[readIndex + 1]) /\ sent[readIndex + 1] \in Messages
        /\ readIndex' = readIndex + 1
        /\ UNCHANGED <<writeIndex, data, pPc, offset, msg, sent, handled>>
    BY <1>3, ReadAdvances
  <2>2. taken' \in Seq(Messages)
    BY <2>1
  <2>3. QED
    BY <2>1, <2>2 DEF Calls
<1>4. ASSUME NEW p \in Producers, WriteCopy(p) PROVE DataType'
  <2>1. <<p, offset[p]>> \in Messages
    BY <1>4 DEF WriteCopy, Messages
  <2>2. QED
    BY <1>4, <2>1 DEF WriteCopy, Calls
<1>5. ASSUME NEW c \in Consumers, ReadCopy(c) PROVE DataType'
  BY <1>5 DEF ReadCopy, Calls
<1>6. ASSUME NEW c \in Consumers, ReadCount(c) PROVE DataType'
  <2>1. msg[c] = sent[rIdx[c] + 1] /\ rIdx[c] < Len(sent) /\ rIdx[c] \in Nat
    BY <1>6 DEF RingInv, ReaderInv, IndexInv, ReadCount
  <2>2. <<rIdx[c], msg[c]>> \in Nat \X Messages
    BY <2>1
  <2>3. QED
    BY <1>6, <2>2 DEF ReadCount, Calls
<1>7. CASE /\ UNCHANGED <<writeIndex, readIndex, data, offset, msg, sent, taken, handled>>
           /\ \A q \in Producers : pPc'[q] \in WriteSteps => pPc[q] \in WriteSteps
  BY <1>7 DEF Calls
<1>8. ASSUME NEW p \in Producers, \/ WriteClosed(p) \/ WriteLoad(p) \/ WriteEmpty(p)
                                  \/ WriteClaim(p) \/ WriteRelease(p) \/ WriteReady(p)
                                  \/ WriteCount(p) \/ ProducerClose(p) \/ ProducerCrash(p)
                                  \/ WriteAdvance(p) /\ wIdx[p] # writeIndex
      PROVE  DataType'
  <2>1. \A q \in Producers : pPc'[q] \in WriteSteps => pPc[q] \in WriteSteps
    BY <1>8 DEF WriteClosed, WriteLoad, WriteEmpty, WriteClaim, WriteRelease, WriteReady,
                WriteCount, ProducerClose, ProducerCrash, WriteAdvance
  <2>2. UNCHANGED <<writeIndex, readIndex, data, offset, msg, sent, taken, handled>>
    BY <1>8 DEF WriteClosed, WriteLoad, WriteEmpty, WriteClaim, WriteRelease, WriteReady,
                WriteCount, ProducerClose, ProducerCrash, WriteAdvance
  <2>3. QED
    BY <1>7, <2>1, <2>2
<1>9. ASSUME NEW c \in Consumers, \/ Tick(c) \/ Poll(c) \/ LoopExit(c) \/ ReadClosed(c)
                                  \/ ReadDrained(c) \/ ReadLoad(c) \/ ReadReady(c)
                                  \/ ReadClaim(c) \/ ReadRelease(c) \/ ReadEmpty(c)
                                  \/ Cancel(c) \/ ConsumerClose(c) \/ ConsumerCrash(c)
                                  \/ ReadAdvance(c) /\ rIdx[c] # readIndex
      PROVE  DataType'
  <2>1. UNCHANGED <<writeIndex, readIndex, data, pPc, offset, msg, sent, taken, handled>>
    BY <1>9 DEF Tick, Poll, LoopExit, ReadClosed, ReadDrained, ReadLoad, ReadReady, ReadClaim,
                ReadRelease, ReadEmpty, Cancel, ConsumerClose, ConsumerCrash, ReadAdvance
  <2>2. QED
    BY <1>7, <2>1
<1>10. CASE UNCHANGED vars
  BY <1>7, <1>10 DEF vars
<1>11. QED
  BY <1>1, <1>2, <1>3, <1>4, <1>5, <1>6, <1>8, <1>9, <1>10 DEF Next, Write, Read, ConsumeLoop

--------------------------------------------------------------------------------
(* The counter changes when a process leaves Writing or Reading, and the   *)
(* indices when one enters.                                                *)
LEMMA CountStep == RingInv /\ CountInv /\ [Next]_vars => CountInv'
<1> SUFFICES ASSUME RingInv, CountInv, [Next]_vars PROVE CountInv'
  OBVIOUS
<1>a. /\ ControlType /\ CountModulus \in Nat \ {0}
      /\ Len(sent) \in Nat /\ Len(taken) \in Nat
      /\ sent \in Seq(Messages) /\ taken \in Seq(Messages)
      /\ Cardinality(Writing) \in Nat /\ Cardinality(Reading) \in Nat
  BY RingAssumption, FS_CardinalityType DEF RingInv, TypeInv, DataType, CountInv
<1> USE <1>a DEF ControlType, CountInv, WriteStep, ReadStep, InWrite, InRead,
                 header, producer, consumer, history
<1>1. CASE /\ UNCHANGED <<messageCount, sent, taken, Writing, Reading>>
           /\ crashes' = crashes
  BY <1>1 DEF Settled
<1>2. ASSUME NEW p \in Producers, WriteAdvance(p), wIdx[p] = writeIndex PROVE CountInv'
  <2>1. /\ pPc[p] = "advance" /\ pPc' = [pPc EXCEPT ![p] = "copy"]
        /\ Len(sent') = Len(sent) + 1 /\ UNCHANGED <<taken, cPc>>
    BY <1>2, WriteAdvances
  <2>2. UNCHANGED <<messageCount, crashes>>
    BY <1>2 DEF WriteAdvance
  <2>3. Writing' = Writing \cup {p} /\ p \notin Writing /\ Reading' = Reading
    BY <2>1 DEF Writing, Reading
  <2>4. IsFiniteSet(Writing') /\ Cardinality(Writing') = Cardinality(Writing) + 1
    BY <2>3, FS_AddElement
  <2>5. Settled' = Settled
    BY <2>1, <2>3, <2>4 DEF Settled
  <2>6. QED
    BY <2>2, <2>3, <2>4, <2>5
<1>3. ASSUME NEW p \in Producers, WriteCount(p) PROVE CountInv'
  <2>1. Writing' = Writing \ {p} /\ p \in Writing /\ Reading' = Reading
    BY <1>3 DEF WriteCount, Writing, Reading
  <2>2. IsFiniteSet(Writing') /\ Cardinality(Writing') = Cardinality(Writing) - 1
    BY <2>1, FS_RemoveElement
  <2>3. Settled' = Settled + 1 /\ Settled \in Int
    BY <1>3, <2>1, <2>2 DEF WriteCount, Settled
  <2>4. crashes = 0 => messageCount' = Settled' % CountModulus
    <3>1. ((Settled % CountModulus) + 1) % CountModulus = (Settled + 1) % CountModulus
      BY <2>3, <1>a, 1 \in Int, ModuloAdd, Zenon
    <3>2. messageCount' = (messageCount + 1) % CountModulus
      BY <1>3 DEF WriteCount
    <3>3. QED
      BY <2>3, <3>1, <3>2
  <2>5. QED
    BY <1>3, <2>1, <2>2, <2>4 DEF WriteCount
<1>4. ASSUME NEW c \in Consumers, ReadAdvance(c), rIdx[c] = readIndex PROVE CountInv'
  <2>1. /\ cPc[c] = "advance" /\ cPc' = [cPc EXCEPT ![c] = "copy"]
        /\ taken' = Append(taken, sent[readIndex + 1]) /\ UNCHANGED <<sent, pPc>>
    BY <1>4, ReadAdvances
  <2>2. UNCHANGED <<messageCount, crashes>>
    BY <1>4 DEF ReadAdvance
  <2>3. Reading' = Reading \cup {c} /\ c \notin Reading /\ Writing' = Writing
    BY <2>1 DEF Writing, Reading
  <2>4. IsFiniteSet(Reading') /\ Cardinality(Reading') = Cardinality(Reading) + 1
    BY <2>3, FS_AddElement
  <2>5. Settled' = Settled
    BY <2>1, <2>3, <2>4 DEF Settled
  <2>6. QED
    BY <2>2, <2>3, <2>4, <2>5
<1>5. ASSUME NEW c \in Consumers, ReadCount(c) PROVE CountInv'
  <2>1. Reading' = Reading \ {c} /\ c \in Reading /\ Writing' = Writing
    BY <1>5 DEF ReadCount, Writing, Reading
  <2>2. IsFiniteSet(Reading') /\ Cardinality(Reading') = Cardinality(Reading) - 1
    BY <2>1, FS_RemoveElement
  <2>3. Settled' = Settled - 1 /\ Settled \in Int
    BY <1>5, <2>1, <2>2 DEF ReadCount, Settled
  <2>4. crashes = 0 => messageCount' = Settled' % CountModulus
    <3>1. ((Settled % CountModulus) + (-1)) % CountModulus = (Settled + (-1)) % CountModulus
      BY <2>3, <1>a, -1 \in Int, ModuloAdd, Zenon
    <3>2. Settled + (-1) = Settled - 1 /\ (Settled % CountModulus) + (-1) = (Settled % CountModulus) - 1
      BY <2>3
    <3>3. messageCount' = (messageCount - 1) % CountModulus
      BY <1>5 DEF ReadCount
    <3>4. QED
      BY <2>3, <3>1, <3>2, <3>3
  <2>5. QED
    BY <1>5, <2>1, <2>2, <2>4 DEF ReadCount
<1>6. ASSUME NEW p \in Producers, ProducerCrash(p) PROVE CountInv'
  <2>1. Writing' = Writing \ {p} /\ Reading' = Reading /\ crashes' = crashes + 1
    BY <1>6 DEF ProducerCrash, Writing, Reading
  <2>2. IsFiniteSet(Writing') /\ IsFiniteSet(Reading')
    BY <2>1, FS_RemoveElement
  <2>3. crashes' \in Nat /\ crashes' # 0
    BY <2>1
  <2>4. QED
    BY <2>2, <2>3
<1>7. ASSUME NEW c \in Consumers, ConsumerCrash(c) PROVE CountInv'
  <2>1. Reading' = Reading \ {c} /\ Writing' = Writing /\ crashes' = crashes + 1
    BY <1>7 DEF ConsumerCrash, Writing, Reading
  <2>2. IsFiniteSet(Writing') /\ IsFiniteSet(Reading')
    BY <2>1, FS_RemoveElement
  <2>3. crashes' \in Nat /\ crashes' # 0
    BY <2>1
  <2>4. QED
    BY <2>2, <2>3
<1>8. ASSUME NEW p \in Producers, \/ Send(p) \/ WriteClosed(p) \/ WriteLoad(p) \/ WriteEmpty(p)
                                  \/ WriteClaim(p) \/ WriteRelease(p) \/ WriteCopy(p)
                                  \/ WriteReady(p) \/ ProducerClose(p)
                                  \/ WriteAdvance(p) /\ wIdx[p] # writeIndex
      PROVE  CountInv'
  <2>1. UNCHANGED <<messageCount, sent, taken, cPc, crashes>>
    BY <1>8 DEF Send, WriteClosed, WriteLoad, WriteEmpty, WriteClaim, WriteRelease,
                WriteCopy, WriteReady, ProducerClose, WriteAdvance
  <2>2. \A q \in Producers : InWrite(q)' <=> InWrite(q)
    BY <1>8 DEF Send, WriteClosed, WriteLoad, WriteEmpty, WriteClaim, WriteRelease,
                WriteCopy, WriteReady, ProducerClose, WriteAdvance
  <2>3. QED
    BY <1>1, <2>1, <2>2 DEF Writing, Reading
<1>9. ASSUME NEW c \in Consumers, \/ Tick(c) \/ Poll(c) \/ LoopExit(c) \/ ReadClosed(c)
                                  \/ ReadDrained(c) \/ ReadLoad(c) \/ ReadReady(c)
                                  \/ ReadClaim(c) \/ ReadRelease(c) \/ ReadCopy(c)
                                  \/ ReadEmpty(c) \/ Cancel(c) \/ ConsumerClose(c)
                                  \/ ReadAdvance(c) /\ rIdx[c] # readIndex
      PROVE  CountInv'
  <2>1. UNCHANGED <<messageCount, sent, taken, pPc, crashes>>
    BY <1>9 DEF Tick, Poll, LoopExit, ReadClosed, ReadDrained, ReadLoad, ReadReady, ReadClaim,
                ReadRelease, ReadCopy, ReadEmpty, Cancel, ConsumerClose, ReadAdvance
  <2>2. \A d \in Consumers : InRead(d)' <=> InRead(d)
    BY <1>9 DEF Tick, Poll, LoopExit, ReadClosed, ReadDrained, ReadLoad, ReadReady, ReadClaim,
                ReadRelease, ReadCopy, ReadEmpty, Cancel, ConsumerClose, ReadAdvance
  <2>3. QED
    BY <1>1, <2>1, <2>2 DEF Writing, Reading
<1>10. CASE UNCHANGED vars
  BY <1>1, <1>10 DEF vars, Writing, Reading
<1>11. QED
  BY <1>2, <1>3, <1>4, <1>5, <1>6, <1>7, <1>8, <1>9, <1>10 DEF Next, Write, Read, ConsumeLoop

--------------------------------------------------------------------------------
(* A ring nobody has used yet satisfies the invariant.                     *)
LEMMA InitInv == Init => IInv
<1> SUFFICES ASSUME Init PROVE IInv
  OBVIOUS
<1>1. TypeInv
  <2>1. ControlType
    BY DEF Init, ControlType, Slots, WriteSteps, ReadSteps
  <2>2. Calls = {}
    BY RingAssumption DEF Init, Calls, Messages
  <2>3. DataType
    BY <2>2, FS_EmptySet, RingAssumption DEF Init, DataType, WriteSteps
  <2>4. QED
    BY <2>1, <2>3 DEF TypeInv
<1>2. LockInv /\ WriterInv /\ ReaderInv
  BY DEF Init, LockInv, WriterInv, ReaderInv, HoldsToWrite, HoldsToRead
<1>3. IndexInv /\ HandledInOrder
  BY RingAssumption DEF Init, IndexInv, HandledInOrder
<1>4. SlotInv
  BY DEF Init, SlotInv, InFlight
<1>5. CountInv
  <2>1. Writing = {} /\ Reading = {}
    BY DEF Init, Writing, Reading, InWrite, InRead
  <2>2. Settled = 0 /\ 0 % CountModulus = 0
    BY <2>1, FS_EmptySet, RingAssumption DEF Init, Settled
  <2>3. QED
    BY <2>1, <2>2, FS_EmptySet DEF Init, CountInv
<1>6. QED
  BY <1>1, <1>2, <1>3, <1>4, <1>5 DEF IInv, RingInv

(* The invariant holds initially and every step keeps it.                  *)
LEMMA Inductive == Spec => []IInv
<1>1. IInv /\ [Next]_vars => IInv'
  BY ControlStep, DataStep, LockStep, IndexStep, SlotStep, WriterStep, ReaderStep,
     HandledStep, CountStep DEF IInv, RingInv, TypeInv
<1>2. QED
  BY <1>1, InitInv, PTL DEF Spec

(* At most one process is in a slot at a time, with stale indices, failed  *)
(* claims and crashes: the flag is a lock for any number of processes.     *)
THEOREM MutualExclusion == Spec => []SlotExclusion
<1>1. IInv => SlotExclusion
  <2> SUFFICES ASSUME IInv, NEW s \in Slots
               PROVE  /\ \A x, y \in Holders(s) : x = y
                      /\ flag[s] \in {"empty", "ready"} => Holders(s) = {}
    BY DEF SlotExclusion
  <2>1. \A x \in Holders(s) :
          \/ x \in Producers /\ HoldsToWrite(x) /\ Slot(wIdx[x]) = s /\ flag[s] = "writing"
          \/ x \in Consumers /\ HoldsToRead(x) /\ Slot(rIdx[x]) = s /\ flag[s] = "reading"
    BY DEF IInv, RingInv, LockInv, Holders, HoldsToWrite, HoldsToRead
  <2>2. QED
    BY <2>1 DEF IInv, RingInv, LockInv
<1>2. QED
  BY <1>1, Inductive, PTL

(* Handlers get, for a read index, the message written for that index.     *)
THEOREM NeverTorn == Spec => []HandledInOrder
<1>1. IInv => HandledInOrder
  BY DEF IInv, RingInv
<1>2. QED
  BY <1>1, Inductive, PTL

(* However often it wrapped, the message counter ends up right when every  *)
(* Write and Read in progress is over and nobody crashed.                  *)
THEOREM CounterSettles == Spec => []CountSettles
<1>1. IInv => CountSettles
  <2> SUFFICES ASSUME IInv, crashes = 0,
                      \A p \in Producers : ~InWrite(p), \A c \in Consumers : ~InRead(c)
               PROVE  messageCount = Len(sent) - Len(taken)
    BY DEF CountSettles
  <2>1. Writing = {} /\ Reading = {}
    BY DEF Writing, Reading
  <2>2. Settled = Len(sent) - Len(taken) /\ messageCount = Settled % CountModulus
    BY <2>1, FS_EmptySet DEF IInv, RingInv, TypeInv, DataType, CountInv, Settled
  <2>3. Settled \in 0 .. SlotCount
    BY <2>2, RingAssumption DEF IInv, RingInv, TypeInv, DataType, IndexInv
  <2>4. QED
    BY <2>2, <2>3, RingAssumption
<1>2. QED
  BY <1>1, Inductive, PTL

(* The ring implements the bounded queue: a producer's successful claim of *)
(* writeIndex is a Put, a consumer's of readIndex a Take, and every other  *)
(* step leaves the queue alone.                                            *)
THEOREM RingImplementsFIFO == Spec => ImplementsFIFO
<1>1. Init => FIFO!Init
  BY DEF Init, FIFO!Init
<1>2. IInv /\ [Next]_vars => [FIFO!Next]_(FIFO!fifoVars)
  <2> SUFFICES ASSUME IInv, [Next]_vars
               PROVE  [FIFO!Next]_(FIFO!fifoVars)
    OBVIOUS
  <2>1. RingInv /\ TypeInv /\ IndexInv
    BY DEF IInv, RingInv
  <2>2. CASE UNCHANGED <<sent, taken>>
    BY <2>2 DEF FIFO!fifoVars
  <2>3. ASSUME NEW p \in Producers, WriteAdvance(p), wIdx[p] = writeIndex PROVE FIFO!Next
    <3>1. <<p, offset[p]>> \in Messages /\ sent' = Append(sent, <<p, offset[p]>>) /\ taken' = taken
      BY <2>1, <2>3, WriteAdvances
    <3>2. Len(sent) < Len(taken) + SlotCount
      BY <2>1, <2>3, WriterHasRoom DEF WriteAdvance, WriteStep, IndexInv
    <3>3. QED
      BY <3>1, <3>2 DEF FIFO!Next, FIFO!Put
  <2>4. ASSUME NEW c \in Consumers, ReadAdvance(c), rIdx[c] = readIndex PROVE FIFO!Next
    <3>1. readIndex \in InFlight /\ taken' = Append(taken, sent[readIndex + 1]) /\ sent' = sent
      BY <2>1, <2>4, ReadAdvances
    <3>2. Len(taken) < Len(sent) /\ readIndex = Len(taken)
      BY <2>1, <3>1 DEF IndexInv, InFlight, TypeInv, DataType
    <3>3. QED
      BY <3>1, <3>2 DEF FIFO!Next, FIFO!Take
  <2>5. QED
    BY <2>1, <2>2, <2>3, <2>4, Steps, WriteLoses, ReadLoses
    DEF QuietWrite, QuietRead, WriteClaim, WriteRelease, WriteCopy, WriteReady, ReadCount,
        ReadClaim, ReadRelease, ReadCopy, ReadEmpty, history
<1>3. QED
  BY <1>1, <1>2, Inductive, PTL DEF Spec, ImplementsFIFO, FIFO!Spec
================================================================================
