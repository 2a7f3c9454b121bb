---------------------------- MODULE HFTRing_proofs -----------------------------
(***************************************************************************)
(* Proofs about HFTRing, for every number of slots, orders and crashes.    *)
(*                                                                         *)
(* The inductive invariant IInv says where each process can be relative to *)
(* the two sequence numbers: the producer works on writeSeq, the consumer  *)
(* on readSeq, and the two are at most SlotCount apart.  Two distinct      *)
(* sequence numbers less than SlotCount apart have distinct slots          *)
(* (SlotsDiffer), and everything else follows.                             *)
(***************************************************************************)
EXTENDS HFTRing, Integers, TLAPS

(* The history follows the header: one element per published and one per   *)
(* consumed message, consumed in the order published.                      *)
HistoryInv ==
  /\ Len(sent) = writeSeq /\ Len(taken) = readSeq
  /\ readSeq <= writeSeq /\ writeSeq <= readSeq + SlotCount
  /\ \A i \in 1 .. Len(taken) : taken[i] = sent[i]

(* What the producer knows at each step of Publish.                        *)
ProducerInv ==
  /\ pPc \in {"full?", "claim", "copy", "ready", "advance"} => pSeq = writeSeq
  /\ pPc \in {"claim", "copy", "ready", "advance"} => writeSeq < readSeq + SlotCount
  /\ pPc \in {"copy", "ready"} => slotState[Slot(writeSeq)] = "writing"
  /\ pPc = "advance" => slotState[Slot(writeSeq)] = "ready"
  /\ pPc \in {"ready", "advance"} => slotMsg[Slot(writeSeq)] = order
  /\ pPc \in ProducerSteps => order >= 1

(* What the consumer knows at each step of Consume.                        *)
ConsumerInv ==
  /\ cPc \in {"claim", "free", "advance"} => readSeq < writeSeq
  /\ cPc \in {"free", "advance"} => cSeq = readSeq
  /\ cPc = "handle" => readSeq = cSeq + 1

(* Orders become visible in the order they are built.                      *)
OrderInv ==
  /\ PublishedOnce
  /\ \A i \in 1 .. Len(sent) : sent[i] <= order
  /\ pPc \in ProducerSteps => \A i \in 1 .. Len(sent) : sent[i] < order

(* A producer that closed the ring is gone.  On a ring closed under it, no  *)
(* order passes the check of the closed word any more: the only one that   *)
(* may still be published is the one that passed it before.                *)
CloseInv ==
  /\ closed <=> closer # "nobody"
  /\ closer = "producer" => pPc = "gone"
  /\ cPc = "drained?" => closed
  /\ cPc = "finished" =>
       /\ closed
       /\ pPc \in ProducerSteps \ {"closed?"} \/ closer = "producer" => readSeq = writeSeq
       /\ writeSeq <= readSeq + 1

(* The steps of HFTConsumer.Close.                                         *)
ConsumerCloses == ConsumerClose \/ ConsumerSetClosed \/ ConsumerUnmap

IInv == /\ TypeOK /\ HistoryInv /\ ProducerInv /\ ConsumerInv
        /\ NoOverwrite /\ PointerUntilReused /\ OrderInv /\ CloseInv

--------------------------------------------------------------------------------
(* Distinct numbers less than N apart have distinct remainders.            *)
LEMMA ModDiffer ==
  ASSUME NEW N \in Nat \ {0}, NEW i \in Nat, NEW j \in Nat, i < j, j < i + N
  PROVE  i % N # j % N
<1> SUFFICES ASSUME i % N = j % N PROVE FALSE
  OBVIOUS
<1>1. i = N * (i \div N) + (i % N) /\ j = N * (j \div N) + (j % N)
  OBVIOUS
<1> DEFINE d == (j \div N) - (i \div N)
<1>2. d \in Int /\ i \div N \in Int /\ j \div N \in Int /\ i % N \in Int
  OBVIOUS
<1>3. j - i = N * d
  <2>1. N * d = N * (j \div N) - N * (i \div N)
    BY <1>2
  <2>2. QED
    BY <2>1, <1>1, <1>2
<1> HIDE DEF d
<1>4. CASE d >= 1
  <2>1. N * d >= N
    BY <1>2, <1>4
  <2>2. QED
    BY <2>1, <1>3
<1>5. CASE d <= 0
  <2>1. N * d <= 0
    BY <1>2, <1>5
  <2>2. QED
    BY <2>1, <1>3
<1>6. QED
  BY <1>2, <1>4, <1>5

(* Two sequence numbers less than SlotCount apart live in different slots: *)
(* the masking writeSeq & mask never confuses two unconsumed messages.     *)
LEMMA SlotsDiffer ==
  \A i, j \in Nat : i < j /\ j < i + SlotCount => Slot(i) # Slot(j)
  BY SlotCountAssumption, ModDiffer DEF Slot

(* The slot of a sequence number exists.                                   *)
LEMMA SlotInRange == \A seq \in Nat : Slot(seq) \in Slots
  BY SlotCountAssumption DEF Slot, Slots

(* The initial memory satisfies the invariant.                             *)
LEMMA InitInv == Init => IInv
  BY SlotCountAssumption, BoundsAssumption, ModesAssumption
  DEF Init, IInv, TypeOK, HistoryInv, ProducerInv, ConsumerInv, NoOverwrite,
      PointerUntilReused, OrderInv, PublishedOnce, CloseInv, Slots, Orders,
      ProducerSteps, ConsumerSteps


(* Types are preserved: readSeq advances only below writeSeq, and what is  *)
(* taken is a published order.                                             *)
LEMMA TypeStep == IInv /\ [Next]_vars => TypeOK'
<1> SUFFICES ASSUME IInv, [Next]_vars PROVE TypeOK'
  OBVIOUS
<1> USE SlotInRange, BoundsAssumption, ModesAssumption
    DEF IInv, TypeOK, vars, header, slots, producer, consumer, history, Orders, ProducerSteps, ConsumerSteps, SendModes
<1>1. CASE SendOrder \/ PublishClosed \/ PublishLoadWriteSeq \/ PublishLoadReadSeq
  <2>1. CASE SendOrder
    BY <2>1 DEF SendOrder
  <2>2. CASE PublishClosed
    BY <2>2 DEF PublishClosed
  <2>3. CASE PublishLoadWriteSeq
    BY <2>3 DEF PublishLoadWriteSeq
  <2>4. CASE PublishLoadReadSeq
    BY <2>4 DEF PublishLoadReadSeq, PublishFull
  <2>5. QED
    BY <1>1, <2>1, <2>2, <2>3, <2>4
<1>2. CASE PublishClaim
  BY <1>2 DEF PublishClaim, PublishFull
<1>3. CASE PublishCopy
  BY <1>3 DEF PublishCopy, ProducerInv
<1>4. CASE PublishReady
  BY <1>4 DEF PublishReady
<1>5. CASE PublishAdvance
  BY <1>5 DEF PublishAdvance, ProducerInv
<1>6. CASE RunLoop \/ ConsumeClosed \/ ConsumeDrained \/ ConsumeEmpty
  BY <1>6 DEF RunLoop, ConsumeClosed, ConsumeDrained, ConsumeEmpty, ConsumerStep
<1>7. CASE ConsumeClaim
  <2>1. CASE slotState' = slotState
    BY <1>7, <2>1 DEF ConsumeClaim, ConsumerStep
  <2>2. CASE slotState' = [slotState EXCEPT ![Slot(readSeq)] = "reading"] /\ cSeq' = readSeq
    BY <1>7, <2>2 DEF ConsumeClaim, ConsumerStep
  <2>3. QED
    BY <1>7, <2>1, <2>2 DEF ConsumeClaim
<1>8. CASE ConsumeFree
  BY <1>8 DEF ConsumeFree, ConsumerStep
<1>9. CASE ConsumeAdvance
  <2>1. slotMsg[Slot(cSeq)] = sent[readSeq + 1]
    BY <1>9 DEF ConsumeAdvance, ConsumerStep, ConsumerInv, NoOverwrite
  <2>2. sent[readSeq + 1] \in Orders
    BY <1>9 DEF ConsumeAdvance, ConsumerStep, ConsumerInv, HistoryInv
  <2>3. QED
    BY <1>9, <2>1, <2>2 DEF ConsumeAdvance, ConsumerStep, ConsumerInv
<1>10. CASE Handle
  BY <1>10 DEF Handle, ConsumerStep
<1>11. CASE ProducerClose \/ ConsumerStop \/ ConsumerCloses
  <2>1. CASE ProducerClose
    BY <2>1 DEF ProducerClose, SetClosed
  <2>2. ASSUME ConsumerStop \/ ConsumerCloses
        PROVE  /\ running' = FALSE \/ running' = running
               /\ closing' \in {"no", "close", "unmap", "done"}
               /\ closed' = TRUE \/ closed' = closed
               /\ closer' \in {"nobody", "producer", "consumer"}
               /\ UNCHANGED <<writeSeq, readSeq, slots, producer, cPc, cSeq,
                              sent, taken, handled, crashes>>
    <3>1. CASE ConsumerStop
      BY <3>1 DEF ConsumerStop
    <3>2. CASE ConsumerClose
      BY <3>2 DEF ConsumerClose
    <3>3. CASE ConsumerSetClosed
      BY <3>3 DEF ConsumerSetClosed, SetClosed
    <3>4. CASE ConsumerUnmap
      BY <3>4 DEF ConsumerUnmap
    <3> QED BY <2>2, <3>1, <3>2, <3>3, <3>4 DEF ConsumerCloses
  <2>3. CASE ConsumerStop \/ ConsumerCloses
    <3>1. /\ writeSeq' \in Nat /\ readSeq' \in 0 .. writeSeq'
          /\ running' \in BOOLEAN /\ closed' \in BOOLEAN
      BY <2>2, <2>3
    <3> QED BY <2>2, <2>3, <3>1
  <2>4. QED
    BY <1>11, <2>1, <2>3
<1>12. CASE ProducerCrash \/ ProducerReopen \/ ConsumerCrash \/ ConsumerReopen
  <2>1. CASE ProducerCrash
    BY <2>1 DEF ProducerCrash
  <2>2. CASE ProducerReopen
    BY <2>2 DEF ProducerReopen
  <2>3. CASE ConsumerCrash
    BY <2>3 DEF ConsumerCrash
  <2>4. CASE ConsumerReopen
    BY <2>4 DEF ConsumerReopen
  <2>5. QED
    BY <1>12, <2>1, <2>2, <2>3, <2>4
<1>13. CASE UNCHANGED vars
  BY <1>13
<1>14. QED
  BY <1>1, <1>2, <1>3, <1>4, <1>5, <1>6, <1>7, <1>8, <1>9, <1>10, <1>11, <1>12, <1>13
  DEF Next, Publish, Consume, Run, ConsumerCloses

(* The producer is never more than SlotCount ahead, and what is taken is   *)
(* what was sent.                                                          *)
LEMMA HistoryStep == IInv /\ [Next]_vars => HistoryInv'
<1> SUFFICES ASSUME IInv, [Next]_vars PROVE HistoryInv'
  OBVIOUS
<1> USE SlotCountAssumption, BoundsAssumption
    DEF IInv, TypeOK, HistoryInv, ProducerInv, ConsumerInv, vars, header, slots, producer, consumer, history, Orders, ProducerSteps
<1>1. CASE SendOrder \/ PublishClosed \/ PublishLoadWriteSeq \/ PublishLoadReadSeq
  BY <1>1 DEF SendOrder, PublishClosed, PublishLoadWriteSeq, PublishLoadReadSeq, PublishFull
<1>2. CASE PublishClaim
  BY <1>2 DEF PublishClaim, PublishFull
<1>3. CASE PublishCopy
  BY <1>3 DEF PublishCopy
<1>4. CASE PublishReady
  BY <1>4 DEF PublishReady
<1>5. CASE PublishAdvance
  <2>1. /\ writeSeq' = writeSeq + 1 /\ sent' = Append(sent, order) /\ order \in Orders
        /\ UNCHANGED <<readSeq, taken>> /\ writeSeq < readSeq + SlotCount
    BY <1>5 DEF PublishAdvance
  <2>2. /\ sent \in Seq(Orders) /\ readSeq \in Nat /\ writeSeq \in Nat /\ SlotCount \in Nat
        /\ HistoryInv
    OBVIOUS
  <2> HIDE DEF IInv, TypeOK, HistoryInv, ProducerInv, ConsumerInv, Orders
  <2>3. QED
    BY <2>1, <2>2 DEF HistoryInv
<1>6. CASE RunLoop \/ ConsumeClosed \/ ConsumeDrained \/ ConsumeEmpty
  BY <1>6 DEF RunLoop, ConsumeClosed, ConsumeDrained, ConsumeEmpty, ConsumerStep
<1>7. CASE ConsumeClaim
  BY <1>7 DEF ConsumeClaim, ConsumerStep
<1>8. CASE ConsumeFree
  BY <1>8 DEF ConsumeFree, ConsumerStep
<1>9. CASE ConsumeAdvance
  <2>1. slotMsg[Slot(cSeq)] = sent[readSeq + 1]
    BY <1>9 DEF ConsumeAdvance, ConsumerStep, NoOverwrite
  <2>2. QED
    BY <1>9, <2>1 DEF ConsumeAdvance, ConsumerStep
<1>10. CASE Handle
  BY <1>10 DEF Handle, ConsumerStep
<1>11. CASE ProducerClose \/ ConsumerStop \/ ConsumerCloses
  BY <1>11 DEF ProducerClose, SetClosed, ConsumerStop, ConsumerCloses, ConsumerClose,
               ConsumerSetClosed, ConsumerUnmap
<1>12. CASE ProducerCrash \/ ProducerReopen \/ ConsumerCrash \/ ConsumerReopen
  BY <1>12 DEF ProducerCrash, ProducerReopen, ConsumerCrash, ConsumerReopen
<1>13. CASE UNCHANGED vars
  BY <1>13
<1>14. QED
  BY <1>1, <1>2, <1>3, <1>4, <1>5, <1>6, <1>7, <1>8, <1>9, <1>10, <1>11, <1>12, <1>13
  DEF Next, Publish, Consume, Run, ConsumerCloses

(* The producer's slot stays its own until writeSeq advances: the consumer *)
(* frees the slot of readSeq only.                                         *)
LEMMA ProducerStep == IInv /\ [Next]_vars => ProducerInv'
<1> SUFFICES ASSUME IInv, [Next]_vars PROVE ProducerInv'
  OBVIOUS
<1> USE SlotInRange, SlotsDiffer, SlotCountAssumption
    DEF IInv, TypeOK, HistoryInv, ProducerInv, ConsumerInv, vars, header, slots, producer, consumer, history, ProducerSteps, ConsumerSteps
<1>1. CASE SendOrder \/ PublishClosed \/ PublishLoadWriteSeq \/ PublishLoadReadSeq
  BY <1>1 DEF SendOrder, PublishClosed, PublishLoadWriteSeq, PublishLoadReadSeq, PublishFull
<1>2. CASE PublishClaim
  BY <1>2 DEF PublishClaim, PublishFull
<1>3. CASE PublishCopy
  BY <1>3 DEF PublishCopy
<1>4. CASE PublishReady
  BY <1>4 DEF PublishReady
<1>5. CASE PublishAdvance
  BY <1>5 DEF PublishAdvance
<1>6. CASE RunLoop \/ ConsumeClosed \/ ConsumeDrained \/ ConsumeEmpty
  BY <1>6 DEF RunLoop, ConsumeClosed, ConsumeDrained, ConsumeEmpty, ConsumerStep
<1>7. CASE ConsumeClaim
  BY <1>7 DEF ConsumeClaim, ConsumerStep
<1>8. CASE ConsumeFree
  BY <1>8 DEF ConsumeFree, ConsumerStep
<1>9. CASE ConsumeAdvance
  BY <1>9 DEF ConsumeAdvance, ConsumerStep
<1>10. CASE Handle
  BY <1>10 DEF Handle, ConsumerStep
<1>11. CASE ProducerClose \/ ConsumerStop \/ ConsumerCloses
  BY <1>11 DEF ProducerClose, SetClosed, ConsumerStop, ConsumerCloses, ConsumerClose,
               ConsumerSetClosed, ConsumerUnmap
<1>12. CASE ProducerCrash \/ ProducerReopen \/ ConsumerCrash \/ ConsumerReopen
  BY <1>12 DEF ProducerCrash, ProducerReopen, ConsumerCrash, ConsumerReopen
<1>13. CASE UNCHANGED vars
  BY <1>13
<1>14. QED
  BY <1>1, <1>2, <1>3, <1>4, <1>5, <1>6, <1>7, <1>8, <1>9, <1>10, <1>11, <1>12, <1>13
  DEF Next, Publish, Consume, Run, ConsumerCloses

(* The message the consumer works on stays published and unconsumed.       *)
LEMMA ConsumerStepInv == IInv /\ [Next]_vars => ConsumerInv'
<1> SUFFICES ASSUME IInv, [Next]_vars PROVE ConsumerInv'
  OBVIOUS
<1> USE SlotCountAssumption
    DEF IInv, TypeOK, HistoryInv, ProducerInv, ConsumerInv, vars, header, slots, producer, consumer, history, ConsumerSteps
<1>1. CASE SendOrder \/ PublishClosed \/ PublishLoadWriteSeq \/ PublishLoadReadSeq
  BY <1>1 DEF SendOrder, PublishClosed, PublishLoadWriteSeq, PublishLoadReadSeq, PublishFull
<1>2. CASE PublishClaim
  BY <1>2 DEF PublishClaim, PublishFull
<1>3. CASE PublishCopy
  BY <1>3 DEF PublishCopy
<1>4. CASE PublishReady
  BY <1>4 DEF PublishReady
<1>5. CASE PublishAdvance
  BY <1>5 DEF PublishAdvance
<1>6. CASE RunLoop \/ ConsumeClosed \/ ConsumeDrained \/ ConsumeEmpty
  BY <1>6 DEF RunLoop, ConsumeClosed, ConsumeDrained, ConsumeEmpty, ConsumerStep
<1>7. CASE ConsumeClaim
  BY <1>7 DEF ConsumeClaim, ConsumerStep
<1>8. CASE ConsumeFree
  BY <1>8 DEF ConsumeFree, ConsumerStep
<1>9. CASE ConsumeAdvance
  BY <1>9 DEF ConsumeAdvance, ConsumerStep
<1>10. CASE Handle
  BY <1>10 DEF Handle, ConsumerStep
<1>11. CASE ProducerClose \/ ConsumerStop \/ ConsumerCloses
  BY <1>11 DEF ProducerClose, SetClosed, ConsumerStop, ConsumerCloses, ConsumerClose,
               ConsumerSetClosed, ConsumerUnmap
<1>12. CASE ProducerCrash \/ ProducerReopen \/ ConsumerCrash \/ ConsumerReopen
  BY <1>12 DEF ProducerCrash, ProducerReopen, ConsumerCrash, ConsumerReopen
<1>13. CASE UNCHANGED vars
  BY <1>13
<1>14. QED
  BY <1>1, <1>2, <1>3, <1>4, <1>5, <1>6, <1>7, <1>8, <1>9, <1>10, <1>11, <1>12, <1>13
  DEF Next, Publish, Consume, Run, ConsumerCloses

(* Publish copies into a slot that holds no unconsumed message.            *)
LEMMA NoOverwriteStep == IInv /\ [Next]_vars => NoOverwrite'
<1> SUFFICES ASSUME IInv, [Next]_vars PROVE NoOverwrite'
  OBVIOUS
<1> USE SlotInRange, SlotsDiffer, SlotCountAssumption
    DEF IInv, TypeOK, HistoryInv, ProducerInv, ConsumerInv, vars, header, slots, producer, consumer, history, NoOverwrite, Orders, ProducerSteps
<1>1. CASE SendOrder \/ PublishClosed \/ PublishLoadWriteSeq \/ PublishLoadReadSeq
  BY <1>1 DEF SendOrder, PublishClosed, PublishLoadWriteSeq, PublishLoadReadSeq, PublishFull
<1>2. CASE PublishClaim
  BY <1>2 DEF PublishClaim, PublishFull
<1>3. CASE PublishCopy
  BY <1>3 DEF PublishCopy
<1>4. CASE PublishReady
  BY <1>4 DEF PublishReady
<1>5. CASE PublishAdvance
  BY <1>5 DEF PublishAdvance
<1>6. CASE RunLoop \/ ConsumeClosed \/ ConsumeDrained \/ ConsumeEmpty
  BY <1>6 DEF RunLoop, ConsumeClosed, ConsumeDrained, ConsumeEmpty, ConsumerStep
<1>7. CASE ConsumeClaim
  BY <1>7 DEF ConsumeClaim, ConsumerStep
<1>8. CASE ConsumeFree
  BY <1>8 DEF ConsumeFree, ConsumerStep
<1>9. CASE ConsumeAdvance
  BY <1>9 DEF ConsumeAdvance, ConsumerStep
<1>10. CASE Handle
  BY <1>10 DEF Handle, ConsumerStep
<1>11. CASE ProducerClose \/ ConsumerStop \/ ConsumerCloses
  BY <1>11 DEF ProducerClose, SetClosed, ConsumerStop, ConsumerCloses, ConsumerClose,
               ConsumerSetClosed, ConsumerUnmap
<1>12. CASE ProducerCrash \/ ProducerReopen \/ ConsumerCrash \/ ConsumerReopen
  BY <1>12 DEF ProducerCrash, ProducerReopen, ConsumerCrash, ConsumerReopen
<1>13. CASE UNCHANGED vars
  BY <1>13
<1>14. QED
  BY <1>1, <1>2, <1>3, <1>4, <1>5, <1>6, <1>7, <1>8, <1>9, <1>10, <1>11, <1>12, <1>13
  DEF Next, Publish, Consume, Run, ConsumerCloses

(* The slot behind the returned pointer changes only after a new claim.    *)
LEMMA PointerStep == IInv /\ [Next]_vars => PointerUntilReused'
<1> SUFFICES ASSUME IInv, [Next]_vars PROVE PointerUntilReused'
  OBVIOUS
<1> USE SlotInRange, SlotCountAssumption, BoundsAssumption
    DEF IInv, TypeOK, HistoryInv, ProducerInv, ConsumerInv, vars, header, slots, producer, consumer, history, PointerUntilReused, Orders, ProducerSteps
<1>1. CASE SendOrder \/ PublishClosed \/ PublishLoadWriteSeq \/ PublishLoadReadSeq
  BY <1>1 DEF SendOrder, PublishClosed, PublishLoadWriteSeq, PublishLoadReadSeq, PublishFull
<1>2. CASE PublishClaim
  BY <1>2 DEF PublishClaim, PublishFull
<1>3. CASE PublishCopy
  BY <1>3 DEF PublishCopy
<1>4. CASE PublishReady
  BY <1>4 DEF PublishReady
<1>5. CASE PublishAdvance
  BY <1>5 DEF PublishAdvance
<1>6. CASE RunLoop \/ ConsumeClosed \/ ConsumeDrained \/ ConsumeEmpty
  BY <1>6 DEF RunLoop, ConsumeClosed, ConsumeDrained, ConsumeEmpty, ConsumerStep
<1>7. CASE ConsumeClaim
  BY <1>7 DEF ConsumeClaim, ConsumerStep
<1>8. CASE ConsumeFree
  BY <1>8 DEF ConsumeFree, ConsumerStep
<1>9. CASE ConsumeAdvance
  BY <1>9 DEF ConsumeAdvance, ConsumerStep
<1>10. CASE Handle
  BY <1>10 DEF Handle, ConsumerStep
<1>11. CASE ProducerClose \/ ConsumerStop \/ ConsumerCloses
  BY <1>11 DEF ProducerClose, SetClosed, ConsumerStop, ConsumerCloses, ConsumerClose,
               ConsumerSetClosed, ConsumerUnmap
<1>12. CASE ProducerCrash \/ ProducerReopen \/ ConsumerCrash \/ ConsumerReopen
  BY <1>12 DEF ProducerCrash, ProducerReopen, ConsumerCrash, ConsumerReopen
<1>13. CASE UNCHANGED vars
  BY <1>13
<1>14. QED
  BY <1>1, <1>2, <1>3, <1>4, <1>5, <1>6, <1>7, <1>8, <1>9, <1>10, <1>11, <1>12, <1>13
  DEF Next, Publish, Consume, Run, ConsumerCloses

(* Each published order is newer than all published before it.             *)
LEMMA OrderStep == IInv /\ [Next]_vars => OrderInv'
<1> SUFFICES ASSUME IInv, [Next]_vars PROVE OrderInv'
  OBVIOUS
<1> USE BoundsAssumption
    DEF IInv, TypeOK, HistoryInv, ProducerInv, ConsumerInv, vars, header, slots, producer, consumer, history, OrderInv, PublishedOnce, Orders, ProducerSteps, ConsumerSteps
<1>1. CASE SendOrder \/ PublishClosed \/ PublishLoadWriteSeq \/ PublishLoadReadSeq
  <2>1. CASE SendOrder
    <3>1. order' = order + 1 /\ UNCHANGED sent /\ order \in Nat
      BY <2>1 DEF SendOrder
    <3>2. sent \in Seq(Nat)
      OBVIOUS
    <3>3. OrderInv
      OBVIOUS
    <3> HIDE DEF IInv, TypeOK, HistoryInv, ProducerInv, ConsumerInv, Orders
    <3> QED BY <3>1, <3>2, <3>3
  <2>2. CASE PublishClosed
    BY <2>2 DEF PublishClosed
  <2>3. CASE PublishLoadWriteSeq
    BY <2>3 DEF PublishLoadWriteSeq
  <2>4. CASE PublishLoadReadSeq
    BY <2>4 DEF PublishLoadReadSeq, PublishFull
  <2>5. QED
    BY <1>1, <2>1, <2>2, <2>3, <2>4
<1>2. CASE PublishClaim
  BY <1>2 DEF PublishClaim, PublishFull
<1>3. CASE PublishCopy
  BY <1>3 DEF PublishCopy
<1>4. CASE PublishReady
  BY <1>4 DEF PublishReady
<1>5. CASE PublishAdvance
  BY <1>5 DEF PublishAdvance
<1>6. CASE RunLoop \/ ConsumeClosed \/ ConsumeDrained \/ ConsumeEmpty
  BY <1>6 DEF RunLoop, ConsumeClosed, ConsumeDrained, ConsumeEmpty, ConsumerStep
<1>7. CASE ConsumeClaim
  BY <1>7 DEF ConsumeClaim, ConsumerStep
<1>8. CASE ConsumeFree
  BY <1>8 DEF ConsumeFree, ConsumerStep
<1>9. CASE ConsumeAdvance
  BY <1>9 DEF ConsumeAdvance, ConsumerStep
<1>10. CASE Handle
  BY <1>10 DEF Handle, ConsumerStep
<1>11. CASE ProducerClose \/ ConsumerStop \/ ConsumerCloses
  BY <1>11 DEF ProducerClose, SetClosed, ConsumerStop, ConsumerCloses, ConsumerClose,
               ConsumerSetClosed, ConsumerUnmap
<1>12. CASE ProducerCrash \/ ProducerReopen \/ ConsumerCrash \/ ConsumerReopen
  BY <1>12 DEF ProducerCrash, ProducerReopen, ConsumerCrash, ConsumerReopen
<1>13. CASE UNCHANGED vars
  BY <1>13
<1>14. QED
  BY <1>1, <1>2, <1>3, <1>4, <1>5, <1>6, <1>7, <1>8, <1>9, <1>10, <1>11, <1>12, <1>13
  DEF Next, Publish, Consume, Run, ConsumerCloses

(* After the producer closed the ring, nothing is published any more.      *)
LEMMA CloseStep == IInv /\ [Next]_vars => CloseInv'
<1> SUFFICES ASSUME IInv, [Next]_vars PROVE CloseInv'
  OBVIOUS
<1> USE SlotCountAssumption
    DEF IInv, TypeOK, HistoryInv, ProducerInv, ConsumerInv, vars, header, slots, producer, consumer, history, CloseInv, ProducerSteps, ConsumerSteps
<1>1. CASE SendOrder \/ PublishClosed \/ PublishLoadWriteSeq \/ PublishLoadReadSeq
  BY <1>1 DEF SendOrder, PublishClosed, PublishLoadWriteSeq, PublishLoadReadSeq, PublishFull
<1>2. CASE PublishClaim
  BY <1>2 DEF PublishClaim, PublishFull
<1>3. CASE PublishCopy
  BY <1>3 DEF PublishCopy
<1>4. CASE PublishReady
  BY <1>4 DEF PublishReady
<1>5. CASE PublishAdvance
  BY <1>5 DEF PublishAdvance
<1>6. CASE RunLoop \/ ConsumeClosed \/ ConsumeDrained \/ ConsumeEmpty
  BY <1>6 DEF RunLoop, ConsumeClosed, ConsumeDrained, ConsumeEmpty, ConsumerStep
<1>7. CASE ConsumeClaim
  BY <1>7 DEF ConsumeClaim, ConsumerStep
<1>8. CASE ConsumeFree
  BY <1>8 DEF ConsumeFree, ConsumerStep
<1>9. CASE ConsumeAdvance
  BY <1>9 DEF ConsumeAdvance, ConsumerStep
<1>10. CASE Handle
  BY <1>10 DEF Handle, ConsumerStep
<1>11. CASE ProducerClose \/ ConsumerStop \/ ConsumerCloses
  BY <1>11 DEF ProducerClose, SetClosed, ConsumerStop, ConsumerCloses, ConsumerClose,
               ConsumerSetClosed, ConsumerUnmap
<1>12. CASE ProducerCrash \/ ProducerReopen \/ ConsumerCrash \/ ConsumerReopen
  BY <1>12 DEF ProducerCrash, ProducerReopen, ConsumerCrash, ConsumerReopen
<1>13. CASE UNCHANGED vars
  BY <1>13
<1>14. QED
  BY <1>1, <1>2, <1>3, <1>4, <1>5, <1>6, <1>7, <1>8, <1>9, <1>10, <1>11, <1>12, <1>13
  DEF Next, Publish, Consume, Run, ConsumerCloses

--------------------------------------------------------------------------------
(* The invariant is inductive.                                             *)
LEMMA Inductive == Spec => []IInv
<1>1. IInv /\ [Next]_vars => IInv'
  BY TypeStep, HistoryStep, ProducerStep, ConsumerStepInv, NoOverwriteStep,
     PointerStep, OrderStep, CloseStep DEF IInv
<1>2. QED
  BY <1>1, InitInv, PTL DEF Spec

(* Every variable keeps its type and readSeq never passes writeSeq: the    *)
(* unsigned writeSeq-readSeq of Publish and Size cannot wrap.              *)
THEOREM TypeCorrect == Spec => []TypeOK
<1>1. IInv => TypeOK
  BY DEF IInv
<1>2. QED
  BY <1>1, Inductive, PTL

(* Publish never copies into the slot Consume has claimed, whatever        *)
(* crashed in between.                                                     *)
THEOREM MutualExclusion == Spec => []SlotExclusion
<1>1. IInv => SlotExclusion
  BY SlotsDiffer DEF IInv, TypeOK, HistoryInv, ProducerInv, ConsumerInv, SlotExclusion
<1>2. QED
  BY <1>1, Inductive, PTL

(* No unconsumed message is overwritten.                                   *)
THEOREM NeverOverwritten == Spec => []NoOverwrite
<1>1. IInv => NoOverwrite
  BY DEF IInv
<1>2. QED
  BY <1>1, Inductive, PTL

(* Retries and restarts publish no order twice and none out of order.      *)
THEOREM NoDuplicates == Spec => []PublishedOnce
<1>1. IInv => PublishedOnce
  BY DEF IInv, OrderInv
<1>2. QED
  BY <1>1, Inductive, PTL

(* The pointer of Consume shows the consumed message until its slot is     *)
(* claimed again.                                                          *)
THEOREM PointerSafe == Spec => []PointerUntilReused
<1>1. IInv => PointerUntilReused
  BY DEF IInv
<1>2. QED
  BY <1>1, Inductive, PTL

(* Run leaves no published message behind when it returns ErrHFTClosed on  *)
(* a ring that the producer closed, and at most one, whose Publish was     *)
(* under way, when its own process closed the ring.                        *)
THEOREM NothingLeftBehind == Spec => []DrainedWhenFinished
<1>1. IInv => DrainedWhenFinished
  BY DEF IInv, TypeOK, HistoryInv, CloseInv, DrainedWhenFinished
<1>2. QED
  BY <1>1, Inductive, PTL

(* The ring implements the bounded queue: every step of the processes is a *)
(* Put, a Take or leaves the queue alone.                                  *)
THEOREM RingImplementsFIFO == Spec => ImplementsFIFO
<1>1. Init => FIFO!Init
  BY DEF Init, FIFO!Init
<1>2. IInv /\ [Next]_vars => [FIFO!Next]_(FIFO!fifoVars)
  <2> SUFFICES ASSUME IInv, [Next]_vars
               PROVE  [FIFO!Next]_(FIFO!fifoVars)
    OBVIOUS
  <2>1. CASE PublishAdvance
    <3>1. order \in Orders
      BY <2>1 DEF PublishAdvance, IInv, TypeOK, ProducerInv, ProducerSteps, Orders
    <3>2. Len(sent) < Len(taken) + SlotCount
      BY <2>1 DEF PublishAdvance, IInv, HistoryInv, ProducerInv
    <3>3. QED
      BY <2>1, <3>1, <3>2 DEF PublishAdvance, FIFO!Next, FIFO!Put
  <2>2. CASE ConsumeAdvance
    <3>1. cSeq = readSeq /\ readSeq < writeSeq
      BY <2>2 DEF ConsumeAdvance, ConsumerStep, IInv, ConsumerInv
    <3>2. slotMsg[Slot(cSeq)] = sent[Len(taken) + 1] /\ Len(taken) < Len(sent)
      BY <3>1 DEF IInv, TypeOK, HistoryInv, NoOverwrite
    <3>3. QED
      BY <2>2, <3>2 DEF ConsumeAdvance, FIFO!Next, FIFO!Take
  <2>3. CASE ~PublishAdvance /\ ~ConsumeAdvance
    <3>1. sent' = sent /\ taken' = taken
      BY <2>3 DEF Next, Publish, Consume, Run, vars, header, slots, producer,
         consumer, history, SendOrder, PublishClosed, PublishLoadWriteSeq,
         PublishLoadReadSeq, PublishClaim, PublishCopy, PublishReady,
         ProducerClose, RunLoop, ConsumeClosed, ConsumeDrained, ConsumeEmpty,
         ConsumeClaim, ConsumeFree, Handle, ConsumerStop, ConsumerClose,
         ConsumerSetClosed, ConsumerUnmap, ProducerCrash,
         ProducerReopen, ConsumerCrash, ConsumerReopen
    <3>2. QED
      BY <3>1 DEF FIFO!fifoVars
  <2>4. QED
    BY <2>1, <2>2, <2>3
<1>3. QED
  BY <1>1, <1>2, Inductive, PTL DEF Spec, ImplementsFIFO, FIFO!Spec
================================================================================
