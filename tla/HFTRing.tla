-------------------------------- MODULE HFTRing --------------------------------
(***************************************************************************)
(* The single-producer single-consumer ring buffer in shared memory of     *)
(* messages/msg_hft_shared_memory.go: HFTRingBuffer with the HFTProducer   *)
(* and the HFTConsumer that use it, each in a process of its own.          *)
(*                                                                         *)
(* Every atomic load, store, add or compare-and-swap on the mapped memory  *)
(* is one action, so that the two processes interleave as they do on a     *)
(* machine.  A process may crash between any two of them (the memory is a  *)
(* file and survives) and reopen the ring with Create: false.              *)
(*                                                                         *)
(* A message is the number of the order it carries.  Sequence numbers are  *)
(* uint64 in the code; MaxOrders keeps them far from 2^64.                 *)
(***************************************************************************)
EXTENDS Naturals, Sequences

CONSTANTS
  SlotCount,    (* number of slots; a power of two in the code             *)
  MaxOrders,    (* bound: how many orders the producer sends               *)
  MaxCrashes,   (* bound: how many crashes of the two processes together   *)
  Modes,        (* how orders are sent: a subset of SendModes              *)
  NoMsg         (* content of a slot that was never written                *)

(* "once": SendOrder.  "forever": SendOrderWait with timeout 0.            *)
(* "timed": SendOrderWait with a timeout.                                  *)
SendModes == {"once", "forever", "timed"}

ASSUME SlotCountAssumption == SlotCount \in Nat \ {0}
ASSUME BoundsAssumption == MaxOrders \in Nat /\ MaxCrashes \in Nat
ASSUME ModesAssumption == Modes \subseteq SendModes
ASSUME NoMsgAssumption == NoMsg \notin Nat

VARIABLES
  (* the mapped memory *)
  writeSeq,    (* header: next sequence number to publish                  *)
  readSeq,     (* header: next sequence number to consume                  *)
  closed,      (* header: the closed word                                  *)
  slotState,   (* State of each slot                                       *)
  slotMsg,     (* Message of each slot                                     *)
  (* the producer process *)
  pPc,         (* what the producer does next                              *)
  pSeq,        (* writeSeq as loaded by Publish                            *)
  pMode,       (* mode of the order being sent                             *)
  order,       (* number of the last order built                           *)
  (* the consumer process *)
  cPc,         (* what the consumer does next                              *)
  running,     (* HFTConsumer.running                                      *)
  closing,     (* how far HFTConsumer.Close is: "no", about to "close" the *)
               (* ring, about to "unmap" it, or "done"                     *)
  cSeq,        (* sequence number of the last claimed message              *)
  (* history *)
  sent,        (* messages made visible by Publish, in order               *)
  taken,       (* messages in their slots when Consume advanced            *)
  handled,     (* what the handler read through the returned pointer       *)
  closer,      (* who closed the ring first                                *)
  crashes      (* crashes so far                                           *)

header   == <<writeSeq, readSeq, closed>>
slots    == <<slotState, slotMsg>>
producer == <<pPc, pSeq, pMode, order>>
consumer == <<cPc, running, closing, cSeq>>
history  == <<sent, taken, handled, closer>>
vars     == <<header, slots, producer, consumer, history, crashes>>

(* writeSeq & mask: the slot of a sequence number.                         *)
Slot(seq) == seq % SlotCount
Slots == 0 .. SlotCount - 1
Orders == 1 .. MaxOrders

ProducerSteps == {"closed?", "load", "full?", "claim", "copy", "ready", "advance"}
ConsumerSteps == {"closed?", "drained?", "empty?", "claim", "free", "advance", "handle"}

(* NewHFTRingBuffer with Create: true zeroes the memory; the producer owns *)
(* the file and the consumer has opened it and called Run.                 *)
Init ==
  /\ writeSeq = 0 /\ readSeq = 0 /\ closed = FALSE
  /\ slotState = [i \in Slots |-> "empty"]
  /\ slotMsg = [i \in Slots |-> NoMsg]
  /\ pPc = "idle" /\ pSeq = 0 /\ pMode \in Modes /\ order = 0
  /\ cPc = "loop" /\ running = TRUE /\ closing = "no" /\ cSeq = 0
  /\ sent = <<>> /\ taken = <<>> /\ handled = <<>>
  /\ closer = "nobody" /\ crashes = 0

--------------------------------------------------------------------------------
(* The producer: SendOrder, SendOrderWait and the Publish they call.       *)

SendOrder ==
  /\ pPc = "idle" /\ order < MaxOrders
  /\ order' = order + 1
  /\ pMode' \in Modes
  /\ pPc' = "closed?"
  /\ UNCHANGED <<header, slots, pSeq, consumer, history, crashes>>

(* Publish fails with ErrHFTBufferFull: SendOrder gives the order up,      *)
(* SendOrderWait spins, or times out when it has a timeout.                *)
PublishFull ==
  \/ pMode # "once" /\ pPc' = "closed?"
  \/ pMode # "forever" /\ pPc' = "idle"

PublishClosed ==
  /\ pPc = "closed?"
  /\ pPc' = IF closed THEN "idle" ELSE "load"
  /\ UNCHANGED <<header, slots, pSeq, pMode, order, consumer, history, crashes>>

PublishLoadWriteSeq ==
  /\ pPc = "load"
  /\ pSeq' = writeSeq
  /\ pPc' = "full?"
  /\ UNCHANGED <<header, slots, pMode, order, consumer, history, crashes>>

(* Mutants of PublishLoadReadSeq. *)
PublishOneTooMany ==
  /\ pPc = "full?"
  /\ \/ pSeq - readSeq > SlotCount /\ PublishFull
     \/ pSeq - readSeq <= SlotCount /\ pPc' = "claim"
  /\ UNCHANGED <<header, slots, pSeq, pMode, order, consumer, history, crashes>>

PublishWithoutClaim ==
  /\ pPc = "full?"
  /\ \/ pSeq - readSeq >= SlotCount /\ PublishFull
     \/ pSeq - readSeq < SlotCount /\ pPc' = "copy"
  /\ UNCHANGED <<header, slots, pSeq, pMode, order, consumer, history, crashes>>

PublishLoadReadSeq ==
  /\ pPc = "full?"
  /\ \/ pSeq - readSeq >= SlotCount /\ PublishFull
     \/ pSeq - readSeq < SlotCount /\ pPc' = "claim"
  /\ UNCHANGED <<header, slots, pSeq, pMode, order, consumer, history, crashes>>

PublishClaim ==
  /\ pPc = "claim"
  /\ \/ /\ slotState[Slot(pSeq)] = "empty"
        /\ slotState' = [slotState EXCEPT ![Slot(pSeq)] = "writing"]
        /\ pPc' = "copy"
     \/ /\ slotState[Slot(pSeq)] # "empty"
        /\ PublishFull
        /\ UNCHANGED slotState
  /\ UNCHANGED <<header, slotMsg, pSeq, pMode, order, consumer, history, crashes>>

PublishCopy ==
  /\ pPc = "copy"
  /\ slotMsg' = [slotMsg EXCEPT ![Slot(pSeq)] = order]
  /\ pPc' = "ready"
  /\ UNCHANGED <<header, slotState, pSeq, pMode, order, consumer, history, crashes>>

PublishReady ==
  /\ pPc = "ready"
  /\ slotState' = [slotState EXCEPT ![Slot(pSeq)] = "ready"]
  /\ pPc' = "advance"
  /\ UNCHANGED <<header, slotMsg, pSeq, pMode, order, consumer, history, crashes>>

(* Mutant of PublishAdvance. *)
PublishRetriesSuccess ==
  /\ pPc = "advance"
  /\ writeSeq' = writeSeq + 1
  /\ sent' = Append(sent, order)
  /\ pPc' = IF pMode = "once" THEN "idle" ELSE "closed?"
  /\ UNCHANGED <<readSeq, closed, slots, pSeq, pMode, order, consumer,
                 taken, handled, closer, crashes>>

PublishAdvance ==
  /\ pPc = "advance"
  /\ writeSeq' = writeSeq + 1
  /\ sent' = Append(sent, order)
  /\ pPc' = "idle"
  /\ UNCHANGED <<readSeq, closed, slots, pSeq, pMode, order, consumer,
                 taken, handled, closer, crashes>>

(* HFTRingBuffer.Close sets the closed word, whether or not it is set.     *)
SetClosed(by) ==
  /\ closed' = TRUE
  /\ closer' = IF closed THEN closer ELSE by

(* HFTProducer.Close, by the goroutine that sends, between two orders:     *)
(* sets the closed word, unmaps and ends the producer, which is not seen   *)
(* by anybody who could tell the two apart.                                *)
ProducerClose ==
  /\ pPc = "idle"
  /\ SetClosed("producer")
  /\ pPc' = "gone"
  /\ UNCHANGED <<writeSeq, readSeq, slots, pSeq, pMode, order, consumer,
                 sent, taken, handled, crashes>>

--------------------------------------------------------------------------------
(* The consumer: HFTConsumer.Run, the Consume it calls and the handler.    *)

(* A step of Run's goroutine that goes from one program point to another   *)
(* touches the mapping: without it the process dies of a memory fault.     *)
ConsumerStep(from) == cPc = from /\ closing # "done"

RunLoop ==
  /\ cPc = "loop"
  /\ cPc' = IF running THEN "closed?" ELSE "stopped"
  /\ UNCHANGED <<header, slots, producer, running, closing, cSeq, history, crashes>>

(* Mutant of ConsumeClosed. *)
ConsumeClosedUndrained ==
  /\ ConsumerStep("closed?")
  /\ cPc' = IF closed THEN "finished" ELSE "empty?"
  /\ UNCHANGED <<header, slots, producer, running, closing, cSeq, history, crashes>>

ConsumeClosed ==
  /\ ConsumerStep("closed?")
  /\ cPc' = IF closed THEN "drained?" ELSE "empty?"
  /\ UNCHANGED <<header, slots, producer, running, closing, cSeq, history, crashes>>

(* Consume returns ErrHFTClosed, and Run returns, only on a drained ring.  *)
ConsumeDrained ==
  /\ ConsumerStep("drained?")
  /\ cPc' = IF readSeq >= writeSeq THEN "finished" ELSE "empty?"
  /\ UNCHANGED <<header, slots, producer, running, closing, cSeq, history, crashes>>

(* Mutant of ConsumeEmpty. *)
ConsumeOneTooFew ==
  /\ ConsumerStep("empty?")
  /\ cPc' = IF readSeq + 1 >= writeSeq THEN "loop" ELSE "claim"
  /\ UNCHANGED <<header, slots, producer, running, closing, cSeq, history, crashes>>

ConsumeEmpty ==
  /\ ConsumerStep("empty?")
  /\ cPc' = IF readSeq >= writeSeq THEN "loop" ELSE "claim"
  /\ UNCHANGED <<header, slots, producer, running, closing, cSeq, history, crashes>>

(* The load of State and the compare-and-swap that follows it: a ready     *)
(* slot belongs to the only consumer, so that nobody changes it between.   *)
ConsumeClaim ==
  /\ ConsumerStep("claim")
  /\ \/ /\ slotState[Slot(readSeq)] = "ready"
        /\ slotState' = [slotState EXCEPT ![Slot(readSeq)] = "reading"]
        /\ cSeq' = readSeq
        /\ cPc' = "free"
     \/ /\ slotState[Slot(readSeq)] # "ready"
        /\ cPc' = "loop"
        /\ UNCHANGED <<slotState, cSeq>>
  /\ UNCHANGED <<header, slotMsg, producer, running, closing, history, crashes>>

(* Mutant of ConsumeFree. *)
ConsumeForgetsToFree ==
  /\ ConsumerStep("free")
  /\ cPc' = "advance"
  /\ UNCHANGED <<header, slots, producer, running, closing, cSeq, history, crashes>>

ConsumeFree ==
  /\ ConsumerStep("free")
  /\ slotState' = [slotState EXCEPT ![Slot(cSeq)] = "empty"]
  /\ cPc' = "advance"
  /\ UNCHANGED <<header, slotMsg, producer, running, closing, cSeq, history, crashes>>

(* Consume returns the pointer to the slot it has just given back.         *)
ConsumeAdvance ==
  /\ ConsumerStep("advance")
  /\ readSeq' = readSeq + 1
  /\ taken' = Append(taken, slotMsg[Slot(cSeq)])
  /\ cPc' = "handle"
  /\ UNCHANGED <<writeSeq, closed, slots, producer, running, closing, cSeq,
                 sent, handled, closer, crashes>>

(* The handler reads the message through the pointer.                      *)
Handle ==
  /\ ConsumerStep("handle")
  /\ handled' = Append(handled, slotMsg[Slot(cSeq)])
  /\ cPc' = "loop"
  /\ UNCHANGED <<header, slots, producer, running, closing, cSeq, sent, taken, closer, crashes>>

ConsumerStop ==
  /\ cPc # "down" /\ running
  /\ running' = FALSE
  /\ UNCHANGED <<header, slots, producer, cPc, closing, cSeq, history, crashes>>

(* HFTConsumer.Close, in a goroutine other than Run's and without waiting  *)
(* for it: Stop, ...                                                       *)
ConsumerClose ==
  /\ cPc # "down" /\ closing = "no"
  /\ running' = FALSE
  /\ closing' = "close"
  /\ UNCHANGED <<header, slots, producer, cPc, cSeq, history, crashes>>

(* ... then HFTRingBuffer.Close, which sets the closed word, so that Run   *)
(* may meet a ring that its own process has closed, ...                    *)
ConsumerSetClosed ==
  /\ closing = "close"
  /\ SetClosed("consumer")
  /\ closing' = "unmap"
  /\ UNCHANGED <<writeSeq, readSeq, slots, producer, cPc, running, cSeq,
                 sent, taken, handled, crashes>>

(* ... and takes the mapping away.                                         *)
ConsumerUnmap ==
  /\ closing = "unmap"
  /\ closing' = "done"
  /\ UNCHANGED <<header, slots, producer, cPc, running, cSeq, history, crashes>>

--------------------------------------------------------------------------------
(* Crashes, and reopening the file while the ring is open.                 *)

ProducerCrash ==
  /\ pPc \in ProducerSteps /\ crashes < MaxCrashes
  /\ pPc' = "down" /\ crashes' = crashes + 1
  /\ UNCHANGED <<header, slots, pSeq, pMode, order, consumer, history>>

(* Mutant of ProducerReopen. *)
ProducerRecreates ==
  /\ pPc = "down" /\ ~closed
  /\ pPc' = "idle"
  /\ writeSeq' = 0 /\ readSeq' = 0
  /\ slotState' = [i \in Slots |-> "empty"] /\ slotMsg' = [i \in Slots |-> NoMsg]
  /\ UNCHANGED <<closed, pSeq, pMode, order, consumer, history, crashes>>

ProducerReopen ==
  /\ pPc = "down" /\ ~closed
  /\ pPc' = "idle"
  /\ UNCHANGED <<header, slots, pSeq, pMode, order, consumer, history, crashes>>

(* The process dies in Consume or in Close.                                *)
ConsumerCrash ==
  /\ cPc \in ConsumerSteps \/ closing \in {"close", "unmap"}
  /\ crashes < MaxCrashes
  /\ cPc' = "down" /\ closing' = "no" /\ crashes' = crashes + 1
  /\ UNCHANGED <<header, slots, producer, running, cSeq, history>>

ConsumerReopen ==
  /\ cPc = "down" /\ ~closed
  /\ cPc' = "loop" /\ running' = TRUE
  /\ UNCHANGED <<header, slots, producer, closing, cSeq, history, crashes>>

--------------------------------------------------------------------------------
Publish == \/ PublishClosed \/ PublishLoadWriteSeq \/ PublishLoadReadSeq
           \/ PublishClaim \/ PublishCopy \/ PublishReady \/ PublishAdvance

Consume == \/ ConsumeClosed \/ ConsumeDrained \/ ConsumeEmpty
           \/ ConsumeClaim \/ ConsumeFree \/ ConsumeAdvance

Run == RunLoop \/ Consume \/ Handle

Next == \/ SendOrder \/ Publish \/ ProducerClose
        \/ Run \/ ConsumerStop
        \/ ConsumerClose \/ ConsumerSetClosed \/ ConsumerUnmap
        \/ ProducerCrash \/ ProducerReopen \/ ConsumerCrash \/ ConsumerReopen

Spec == Init /\ [][Next]_vars

(* Publish and Run never block: each is a loop of the process that runs    *)
(* it, so that the operating system's scheduler takes its next step.       *)
Fairness == WF_vars(Publish) /\ WF_vars(Run)

FairSpec == Spec /\ Fairness
--------------------------------------------------------------------------------
(* Types: readSeq never passes writeSeq, so that the code's unsigned       *)
(* subtraction writeSeq-readSeq never wraps.                               *)
TypeOK ==
  /\ writeSeq \in Nat /\ readSeq \in 0 .. writeSeq /\ closed \in BOOLEAN
  /\ slotState \in [Slots -> {"empty", "writing", "ready", "reading"}]
  /\ slotMsg \in [Slots -> Orders \cup {NoMsg}]
  /\ pPc \in ProducerSteps \cup {"idle", "down", "gone"}
  /\ pSeq \in Nat /\ pMode \in SendModes /\ order \in 0 .. MaxOrders
  /\ cPc \in ConsumerSteps \cup {"loop", "down", "stopped", "finished"}
  /\ running \in BOOLEAN /\ closing \in {"no", "close", "unmap", "done"}
  /\ cSeq \in Nat
  /\ sent \in Seq(Orders) /\ taken \in Seq(Orders)
  /\ handled \in Seq(Orders \cup {NoMsg})
  /\ closer \in {"nobody", "producer", "consumer"} /\ crashes \in Nat

(* The slot states are a lock: Publish writes a slot's message only while  *)
(* Consume is not between claiming and freeing that same slot, even when a *)
(* process died in the middle and its successor carries on.                *)
SlotExclusion ==
  pPc \in {"copy", "ready"} /\ cPc = "free" => Slot(pSeq) # Slot(cSeq)

(* Everything published and not yet consumed is in its slot, unchanged:    *)
(* the producer never laps the consumer.                                   *)
NoOverwrite ==
  \A seq \in readSeq .. writeSeq - 1 : slotMsg[Slot(seq)] = sent[seq + 1]

(* An order is published at most once and orders are published in the      *)
(* order they were built, however often SendOrderWait spins and whoever    *)
(* crashes: a retry never repeats what already became visible.             *)
PublishedOnce == \A i, j \in 1 .. Len(sent) : i < j => sent[i] < sent[j]

(* The pointer Consume returns still shows the consumed message as long as *)
(* the producer has not claimed that slot for the message SlotCount later; *)
(* Consume has already given the slot back, so nothing else protects it.   *)
PointerUntilReused ==
  /\ cPc = "handle"
  /\ writeSeq <= cSeq + SlotCount /\ slotState[Slot(cSeq)] = "empty"
  => slotMsg[Slot(cSeq)] = taken[Len(taken)]

(* When Run returns on ErrHFTClosed, everything published on a ring that   *)
(* the producer closed has been consumed.  On a ring that the consumer's   *)
(* own Close closed under a running producer, a Publish that had passed    *)
(* its check of the closed word may still report one order as sent, which  *)
(* nobody consumes; but only one.                                          *)
DrainedWhenFinished ==
  cPc = "finished" =>
    \/ closer = "producer" /\ taken = sent
    \/ closer = "consumer" /\ Len(sent) <= Len(taken) + 1

(* What the comment on Consume says: "The returned pointer is only valid   *)
(* until the next Consume call".  Until then, at the latest when the       *)
(* handler reads it, it shows the message that Consume took.               *)
PointerUntilNextConsume ==
  cPc = "handle" => slotMsg[Slot(cSeq)] = taken[Len(taken)]

(* The ring is a bounded queue of published orders: published when         *)
(* writeSeq advances, consumed when readSeq advances, with the message     *)
(* that is in the slot at that moment.                                     *)
FIFO == INSTANCE BoundedFIFO WITH Messages <- Orders, Capacity <- SlotCount
ImplementsFIFO == FIFO!Spec

(* While nobody crashes, a consumer that keeps running takes every order   *)
(* that Publish reported as sent.                                          *)
Delivered ==
  \A n \in Orders :
    (Len(sent) >= n /\ running) ~> (Len(taken) >= n \/ ~running \/ crashes > 0)

(* While nobody crashes, SendOrderWait with timeout 0 returns as long as   *)
(* the consumer runs, and SendOrder always returns.                        *)
SendReturns ==
  (pPc \in ProducerSteps) ~> (pPc \notin ProducerSteps \/ ~running \/ crashes > 0)
================================================================================
