--------------------------- MODULE SharedMemoryRing ----------------------------
(***************************************************************************)
(* The ring buffer of messages/msg_shared_memory.go: any number of         *)
(* SharedMemoryProducers and SharedMemoryConsumers, in any number of       *)
(* processes, on one SharedMemoryRingBuffer.                               *)
(*                                                                         *)
(* Every atomic access to the mapped memory is one action.  A slot's flag  *)
(* is the lock of the slot; a process that claimed a slot with a stale     *)
(* index notices when its compare-and-swap of the index fails, and gives   *)
(* the slot back.  A producer or consumer may crash between two accesses.  *)
(*                                                                         *)
(* A message is the pair of its producer and the producer's offset.  The   *)
(* indices are uint64 in the code; MaxSends keeps them small.  The        *)
(* message counter is kept modulo CountModulus, 2^64 in the code, because  *)
(* it does wrap.                                                           *)
(***************************************************************************)
EXTENDS Integers, Sequences, FiniteSets

CONSTANTS
  Producers,    (* goroutines that call SharedMemoryProducer.Send           *)
  Consumers,    (* goroutines that run SharedMemoryConsumer.consumeLoop     *)
  SlotCount,    (* number of slots                                          *)
  MaxSends,     (* bound: how many calls of Send there are                  *)
  MaxCrashes,   (* bound: how many processes crash                          *)
  CountModulus, (* the message counter wraps here                           *)
  NoMsg         (* content of a slot that was never written                 *)

Messages == Producers \X (1 .. MaxSends)
Slots == 0 .. SlotCount - 1

ASSUME RingAssumption ==
  /\ SlotCount \in Nat \ {0} /\ MaxSends \in Nat /\ MaxCrashes \in Nat
  /\ CountModulus \in Nat /\ CountModulus > SlotCount
  /\ NoMsg \notin Messages
  /\ Producers \cap Consumers = {}

VARIABLES
  writeIndex, readIndex, messageCount, closed,  (* the header               *)
  flag, data,     (* flag and message of each slot                          *)
  pPc, wIdx,      (* producers: next step, and writeIndex as loaded         *)
  offset,         (* producers: SharedMemoryProducer.offset                 *)
  cPc, rIdx,      (* consumers: next step, and readIndex as loaded          *)
  cancelled,      (* consumers: the context of consumeLoop is done          *)
  msg,            (* consumers: what Read copied out of the slot            *)
  sent, taken,    (* history: messages in the order writeIndex and          *)
                  (* readIndex advanced over them                           *)
  handled,        (* history: what processMessage got, by read index        *)
  crashes         (* history: crashes so far                                *)

header   == <<writeIndex, readIndex, messageCount, closed>>
slots    == <<flag, data>>
producer == <<pPc, wIdx, offset>>
consumer == <<cPc, rIdx, cancelled, msg>>
history  == <<sent, taken, handled>>
vars     == <<header, slots, producer, consumer, history, crashes>>

Slot(index) == index % SlotCount

WriteSteps == {"closed?", "load", "empty?", "claim", "advance", "release",
               "copy", "ready", "count"}
ReadSteps == {"closed?", "drained?", "load", "ready?", "claim", "advance",
              "release", "copy", "empty", "count"}

(* The owner has created the file and every process has opened it.  Who is *)
(* "gone" is never started.                                                *)
Init ==
  /\ writeIndex = 0 /\ readIndex = 0 /\ messageCount = 0 /\ closed = FALSE
  /\ flag = [i \in Slots |-> "empty"] /\ data = [i \in Slots |-> NoMsg]
  /\ pPc \in [Producers -> {"idle", "gone"}] /\ wIdx = [p \in Producers |-> 0]
  /\ offset = [p \in Producers |-> 0]
  /\ cPc \in [Consumers -> {"tick", "gone"}] /\ rIdx = [c \in Consumers |-> 0]
  /\ cancelled = [c \in Consumers |-> cPc[c] = "gone"]
  /\ msg = [c \in Consumers |-> NoMsg]
  /\ sent = <<>> /\ taken = <<>> /\ handled = {}
  /\ crashes = 0

--------------------------------------------------------------------------------
(* Send and Write.                                                         *)

WriteStep(p, from, to) == pPc[p] = from /\ pPc' = [pPc EXCEPT ![p] = to]

(* The calls of Send so far, one per producer and offset.                  *)
Calls == {m \in Messages : m[2] <= offset[m[1]]}

(* The offset is taken before Write can fail.  A message that does not fit *)
(* a slot is refused before the ring is touched.                           *)
Send(p) ==
  /\ Cardinality(Calls) < MaxSends
  /\ offset' = [offset EXCEPT ![p] = @ + 1]
  /\ WriteStep(p, "idle", "closed?") \/ WriteStep(p, "idle", "idle")
  /\ UNCHANGED <<header, slots, wIdx, consumer, history, crashes>>

(* isClosed at the head of every attempt; the check before serializing is  *)
(* the same load a little earlier.                                         *)
WriteClosed(p) ==
  /\ WriteStep(p, "closed?", IF closed THEN "idle" ELSE "load")
  /\ UNCHANGED <<header, slots, wIdx, offset, consumer, history, crashes>>

WriteLoad(p) ==
  /\ WriteStep(p, "load", "empty?")
  /\ wIdx' = [wIdx EXCEPT ![p] = writeIndex]
  /\ UNCHANGED <<header, slots, offset, consumer, history, crashes>>

(* A slot that is not empty makes Write fail with ErrSharedMemoryFull.     *)
WriteEmpty(p) ==
  /\ WriteStep(p, "empty?", IF flag[Slot(wIdx[p])] = "empty" THEN "claim" ELSE "idle")
  /\ UNCHANGED <<header, slots, wIdx, offset, consumer, history, crashes>>

(* Mutant of WriteClaim. *)
WriteClaimWithoutCheck(p) ==
  /\ WriteStep(p, "claim", "advance")
  /\ flag' = [flag EXCEPT ![Slot(wIdx[p])] = "writing"]
  /\ UNCHANGED <<header, data, wIdx, offset, consumer, history, crashes>>

WriteClaim(p) ==
  /\ LET s == Slot(wIdx[p]) IN
       \/ /\ flag[s] = "empty"
          /\ WriteStep(p, "claim", "advance")
          /\ flag' = [flag EXCEPT ![s] = "writing"]
       \/ /\ flag[s] # "empty"
          /\ WriteStep(p, "claim", "closed?")
          /\ UNCHANGED flag
  /\ UNCHANGED <<header, data, wIdx, offset, consumer, history, crashes>>

(* Mutant of WriteAdvance. *)
WriteAdvanceWithoutCheck(p) ==
  /\ WriteStep(p, "advance", "copy")
  /\ writeIndex' = writeIndex + 1
  /\ sent' = Append(sent, <<p, offset[p]>>)
  /\ UNCHANGED <<readIndex, messageCount, closed, slots, wIdx, offset, consumer,
                 taken, handled, crashes>>

WriteAdvance(p) ==
  /\ \/ /\ writeIndex = wIdx[p]
        /\ WriteStep(p, "advance", "copy")
        /\ writeIndex' = writeIndex + 1
        /\ sent' = Append(sent, <<p, offset[p]>>)
     \/ /\ writeIndex # wIdx[p]
        /\ WriteStep(p, "advance", "release")
        /\ UNCHANGED <<writeIndex, sent>>
  /\ UNCHANGED <<readIndex, messageCount, closed, slots, wIdx, offset, consumer,
                 taken, handled, crashes>>

WriteRelease(p) ==
  /\ WriteStep(p, "release", "closed?")
  /\ flag' = [flag EXCEPT ![Slot(wIdx[p])] = "empty"]
  /\ UNCHANGED <<header, data, wIdx, offset, consumer, history, crashes>>

WriteCopy(p) ==
  /\ WriteStep(p, "copy", "ready")
  /\ data' = [data EXCEPT ![Slot(wIdx[p])] = <<p, offset[p]>>]
  /\ UNCHANGED <<header, flag, wIdx, offset, consumer, history, crashes>>

WriteReady(p) ==
  /\ WriteStep(p, "ready", "count")
  /\ flag' = [flag EXCEPT ![Slot(wIdx[p])] = "ready"]
  /\ UNCHANGED <<header, data, wIdx, offset, consumer, history, crashes>>

WriteCount(p) ==
  /\ WriteStep(p, "count", "idle")
  /\ messageCount' = (messageCount + 1) % CountModulus
  /\ UNCHANGED <<writeIndex, readIndex, closed, slots, wIdx, offset, consumer,
                 history, crashes>>

(* SharedMemoryProducer.Close, between two sends.                          *)
ProducerClose(p) ==
  /\ WriteStep(p, "idle", "gone")
  /\ closed' = TRUE
  /\ UNCHANGED <<writeIndex, readIndex, messageCount, slots, wIdx, offset,
                 consumer, history, crashes>>

--------------------------------------------------------------------------------
(* consumeLoop, pollMessages and Read.                                     *)

ReadStep(c, from, to) == cPc[c] = from /\ cPc' = [cPc EXCEPT ![c] = to]

(* The ticker fires.                                                       *)
Tick(c) ==
  /\ ReadStep(c, "tick", "poll")
  /\ UNCHANGED <<header, slots, producer, rIdx, cancelled, msg, history, crashes>>

(* Before each Read, pollMessages looks at the context; with the context   *)
(* done both selects end the loop (the outer one at the latest when it     *)
(* prefers Done to another tick).                                          *)
Poll(c) ==
  /\ ReadStep(c, "poll", IF cancelled[c] THEN "tick" ELSE "closed?")
  /\ UNCHANGED <<header, slots, producer, rIdx, cancelled, msg, history, crashes>>

LoopExit(c) ==
  /\ cancelled[c]
  /\ ReadStep(c, "tick", "exited")
  /\ UNCHANGED <<header, slots, producer, rIdx, cancelled, msg, history, crashes>>

ReadClosed(c) ==
  /\ ReadStep(c, "closed?", IF closed THEN "drained?" ELSE "load")
  /\ UNCHANGED <<header, slots, producer, rIdx, cancelled, msg, history, crashes>>

(* Mutant of ReadDrained. *)
ReadDrainedEndsLoop(c) ==
  /\ ReadStep(c, "drained?", IF messageCount = 0 THEN "exited" ELSE "load")
  /\ UNCHANGED <<header, slots, producer, rIdx, cancelled, msg, history, crashes>>

(* ErrSharedMemoryClosed ends this poll, the next tick polls again.        *)
ReadDrained(c) ==
  /\ ReadStep(c, "drained?", IF messageCount = 0 THEN "tick" ELSE "load")
  /\ UNCHANGED <<header, slots, producer, rIdx, cancelled, msg, history, crashes>>

ReadLoad(c) ==
  /\ ReadStep(c, "load", "ready?")
  /\ rIdx' = [rIdx EXCEPT ![c] = readIndex]
  /\ UNCHANGED <<header, slots, producer, cancelled, msg, history, crashes>>

(* A slot that is not ready makes Read fail with ErrSharedMemoryEmpty or   *)
(* ErrSharedMemoryClosed; both end the poll.                               *)
ReadReady(c) ==
  /\ ReadStep(c, "ready?", IF flag[Slot(rIdx[c])] = "ready" THEN "claim" ELSE "tick")
  /\ UNCHANGED <<header, slots, producer, rIdx, cancelled, msg, history, crashes>>

ReadClaim(c) ==
  /\ LET s == Slot(rIdx[c]) IN
       \/ /\ flag[s] = "ready"
          /\ ReadStep(c, "claim", "advance")
          /\ flag' = [flag EXCEPT ![s] = "reading"]
       \/ /\ flag[s] # "ready"
          /\ ReadStep(c, "claim", "load")
          /\ UNCHANGED flag
  /\ UNCHANGED <<header, data, producer, rIdx, cancelled, msg, history, crashes>>

(* Mutant of ReadAdvance. *)
ReadAdvanceIgnoresLoss(c) ==
  /\ ReadStep(c, "advance", "copy")
  /\ readIndex' = IF readIndex = rIdx[c] THEN readIndex + 1 ELSE readIndex
  /\ taken' = IF readIndex = rIdx[c] THEN Append(taken, data[Slot(rIdx[c])]) ELSE taken
  /\ UNCHANGED <<writeIndex, messageCount, closed, slots, producer, rIdx,
                 cancelled, msg, sent, handled, crashes>>

ReadAdvance(c) ==
  /\ \/ /\ readIndex = rIdx[c]
        /\ ReadStep(c, "advance", "copy")
        /\ readIndex' = readIndex + 1
        /\ taken' = Append(taken, data[Slot(rIdx[c])])
     \/ /\ readIndex # rIdx[c]
        /\ ReadStep(c, "advance", "release")
        /\ UNCHANGED <<readIndex, taken>>
  /\ UNCHANGED <<writeIndex, messageCount, closed, slots, producer, rIdx,
                 cancelled, msg, sent, handled, crashes>>

ReadRelease(c) ==
  /\ ReadStep(c, "release", "load")
  /\ flag' = [flag EXCEPT ![Slot(rIdx[c])] = "ready"]
  /\ UNCHANGED <<header, data, producer, rIdx, cancelled, msg, history, crashes>>

ReadCopy(c) ==
  /\ ReadStep(c, "copy", "empty")
  /\ msg' = [msg EXCEPT ![c] = data[Slot(rIdx[c])]]
  /\ UNCHANGED <<header, slots, producer, rIdx, cancelled, history, crashes>>

ReadEmpty(c) ==
  /\ ReadStep(c, "empty", "count")
  /\ flag' = [flag EXCEPT ![Slot(rIdx[c])] = "empty"]
  /\ UNCHANGED <<header, data, producer, rIdx, cancelled, msg, history, crashes>>

(* Mutant of ReadCount. *)
ReadWithoutCount(c) ==
  /\ ReadStep(c, "count", "poll")
  /\ handled' = handled \cup {<<rIdx[c], msg[c]>>}
  /\ msg' = [msg EXCEPT ![c] = NoMsg]
  /\ UNCHANGED <<header, slots, producer, rIdx, cancelled, sent, taken, crashes>>

(* The counter is decremented, Read returns the message and processMessage *)
(* gives it to the handlers.                                               *)
ReadCount(c) ==
  /\ ReadStep(c, "count", "poll")
  /\ messageCount' = (messageCount - 1) % CountModulus
  /\ handled' = handled \cup {<<rIdx[c], msg[c]>>}
  /\ msg' = [msg EXCEPT ![c] = NoMsg]
  /\ UNCHANGED <<writeIndex, readIndex, closed, slots, producer, rIdx, cancelled,
                 sent, taken, crashes>>

(* SharedMemoryConsumer.Close: cancel, wait for the loop, close the ring.  *)
Cancel(c) ==
  /\ ~cancelled[c]
  /\ cancelled' = [cancelled EXCEPT ![c] = TRUE]
  /\ UNCHANGED <<header, slots, producer, cPc, rIdx, msg, history, crashes>>

ConsumerClose(c) ==
  /\ ReadStep(c, "exited", "gone")
  /\ closed' = TRUE
  /\ UNCHANGED <<writeIndex, readIndex, messageCount, slots, producer, rIdx,
                 cancelled, msg, history, crashes>>

--------------------------------------------------------------------------------
(* A process dies in the middle of Write or Read; the mapped file stays as *)
(* it is and nobody repairs it.                                            *)
ProducerCrash(p) ==
  /\ pPc[p] \in WriteSteps /\ crashes < MaxCrashes
  /\ pPc' = [pPc EXCEPT ![p] = "dead"] /\ crashes' = crashes + 1
  /\ UNCHANGED <<header, slots, wIdx, offset, consumer, history>>

ConsumerCrash(c) ==
  /\ cPc[c] \in ReadSteps /\ crashes < MaxCrashes
  /\ cPc' = [cPc EXCEPT ![c] = "dead"] /\ crashes' = crashes + 1
  /\ UNCHANGED <<header, slots, producer, rIdx, cancelled, msg, history>>

--------------------------------------------------------------------------------
Write(p) == \/ WriteClosed(p) \/ WriteLoad(p) \/ WriteEmpty(p) \/ WriteClaim(p)
            \/ WriteAdvance(p) \/ WriteRelease(p) \/ WriteCopy(p)
            \/ WriteReady(p) \/ WriteCount(p)

Read(c) == \/ ReadClosed(c) \/ ReadDrained(c) \/ ReadLoad(c) \/ ReadReady(c)
           \/ ReadClaim(c) \/ ReadAdvance(c) \/ ReadRelease(c) \/ ReadCopy(c)
           \/ ReadEmpty(c) \/ ReadCount(c)

ConsumeLoop(c) == Tick(c) \/ Poll(c) \/ LoopExit(c) \/ Read(c)

Next ==
  \/ \E p \in Producers : Send(p) \/ Write(p) \/ ProducerClose(p) \/ ProducerCrash(p)
  \/ \E c \in Consumers :
       ConsumeLoop(c) \/ Cancel(c) \/ ConsumerClose(c) \/ ConsumerCrash(c)

Spec == Init /\ [][Next]_vars

(* Write and consumeLoop never block on anything but the ticker, so every  *)
(* goroutine in them keeps taking steps.                                   *)
Fairness == /\ \A p \in Producers : WF_vars(Write(p))
            /\ \A c \in Consumers : WF_vars(ConsumeLoop(c))

FairSpec == Spec /\ Fairness

--------------------------------------------------------------------------------
(* The processes that have claimed a slot and not given it back.           *)
Holders(s) ==
  {p \in Producers : pPc[p] \in {"advance", "release", "copy", "ready"} /\ Slot(wIdx[p]) = s}
  \cup {c \in Consumers : cPc[c] \in {"advance", "release", "copy", "empty"} /\ Slot(rIdx[c]) = s}

(* The flag is a lock: also with stale indices, failed claims and crashed  *)
(* processes, at most one producer or consumer is in a slot at a time, and *)
(* only while the flag says so.                                            *)
SlotExclusion ==
  \A s \in Slots :
    /\ \A x, y \in Holders(s) : x = y
    /\ flag[s] \in {"empty", "ready"} => Holders(s) = {}

(* What a handler gets for a read index is the message that was written    *)
(* for that index, never a torn, a stale or a later one.                   *)
HandledInOrder == \A h \in handled : h[1] < Len(sent) /\ h[2] = sent[h[1] + 1]

(* Without crashes the message counter, which lags behind the indices and  *)
(* wraps below zero on the way, ends up at the number of messages left.    *)
InWrite(p) == pPc[p] \in {"copy", "ready", "count"}
InRead(c)  == cPc[c] \in {"copy", "empty", "count"}
CountSettles ==
  crashes = 0 /\ (\A p \in Producers : ~InWrite(p)) /\ (\A c \in Consumers : ~InRead(c))
    => messageCount = Len(sent) - Len(taken)

(* The ring is a bounded queue: enqueued when writeIndex advances and      *)
(* dequeued when readIndex does, with what is in the slot at that moment.  *)
FIFO == INSTANCE BoundedFIFO WITH Capacity <- SlotCount
ImplementsFIFO == FIFO!Spec

(* Every message whose index was claimed reaches a handler, although Read  *)
(* reports the ring empty or closed in between, as long as nobody crashes  *)
(* and some consumer keeps polling.  (Send is called finitely often.)      *)
Delivered ==
  []<>\/ Cardinality(handled) = Len(sent)
      \/ crashes > 0
      \/ \A c \in Consumers : cancelled[c]
================================================================================
