------------------------------ MODULE FlushBuffer ------------------------------
(***************************************************************************)
(* The buffer of efflux/flush_buffer.go: clients add items, and batches    *)
(* of items go to the user's flushFunc when the buffer is full, when the   *)
(* timer fires, on demand and at the end.                                  *)
(*                                                                         *)
(* The mutex is held throughout every operation except while flushFunc     *)
(* runs: doFlush unlocks around that call.  So a critical section, up to   *)
(* the unlock, is one action, and the call of flushFunc, during which      *)
(* everybody else may use the buffer, lies between two actions.            *)
(*                                                                         *)
(* Items are numbered in the order the calls pass them.  The time is       *)
(* abstracted: an armed timer may fire at any moment.                      *)
(***************************************************************************)
EXTENDS Integers, Sequences, FiniteSets, SequencesExt

CONSTANTS
  Clients,       (* goroutines that use the buffer                          *)
  Loop,          (* the goroutine of flushLoop                              *)
  Capacity,      (* capacity of the buffer                                  *)
  MaxItems,      (* bound: how many items are ever passed in                *)
  MaxBatch,      (* bound: how many items one AddBatch passes               *)
  MayFail,       (* whether flushFunc may return an error of its own        *)
  ContextAware   (* whether flushFunc fails once its context is cancelled   *)

Goroutines == Clients \cup {Loop}
Items == 1 .. MaxItems

ASSUME FlushBufferAssumption ==
  /\ Loop \notin Clients
  /\ Capacity \in Nat /\ MaxItems \in Nat /\ MaxBatch \in Nat
  /\ MayFail \in BOOLEAN /\ ContextAware \in BOOLEAN

VARIABLES
  data,        (* the buffered items                                        *)
  armed,       (* the timer is running                                      *)
  ctxDone,     (* the context of Start is cancelled                         *)
  pc,          (* where each goroutine is                                   *)
  stopping,    (* clients that are inside Stop                              *)
  batch,       (* what each goroutine has passed to flushFunc               *)
  canceled,    (* whether its context was cancelled at that call            *)
  rest,        (* what an AddBatch still has to append                      *)
  made,        (* history: number of items passed in so far                 *)
  accepted,    (* history: items appended to data, in order                 *)
  extracted,   (* history: items taken out of data, in order                *)
  delivered, failed, lost,  (* history: items flushed, items whose flush    *)
                            (* failed, items a failing AddBatch never added *)
  leftover     (* history: what data held when each client called Stop      *)

buffer  == <<data, armed>>
history == <<made, accepted, extracted, delivered, failed, lost, leftover>>
vars    == <<buffer, ctxDone, pc, stopping, batch, canceled, rest, history>>

Init ==
  /\ data = <<>> /\ armed = FALSE /\ ctxDone = FALSE
  /\ pc = [g \in Goroutines |-> IF g = Loop THEN "new" ELSE "idle"]
  /\ stopping = {}
  /\ batch = [g \in Goroutines |-> <<>>]
  /\ canceled = [g \in Goroutines |-> FALSE]
  /\ rest = [c \in Clients |-> <<>>]
  /\ made = 0 /\ accepted = <<>> /\ extracted = <<>>
  /\ delivered = {} /\ failed = {} /\ lost = {}
  /\ leftover = [c \in Clients |-> {}]

Started == pc[Loop] # "new"

--------------------------------------------------------------------------------
(* doFlush up to the unlock: g takes all of d, the buffer's content, and   *)
(* calls flushFunc.  There is a timer to reset once Start was called.      *)
BeginFlush(g, d) ==
  /\ data' = <<>>
  /\ armed' = Started
  /\ batch' = [batch EXCEPT ![g] = d]
  /\ canceled' = [canceled EXCEPT ![g] = ctxDone]
  /\ extracted' = extracted \o d
  /\ pc' = [pc EXCEPT ![g] = "flushing"]

(* The number of items that fit before a flush is due, at least one.       *)
Room == IF Len(data) < Capacity THEN Capacity - Len(data) ELSE 1

(* One critical section of Add or AddBatch: append items until the         *)
(* capacity is reached, then flush; what is left waits for the flush.      *)
AppendItems(c, items) ==
  LET k == IF Len(items) < Room THEN Len(items) ELSE Room
      d == data \o SubSeq(items, 1, k)
  IN  /\ accepted' = accepted \o SubSeq(items, 1, k)
      /\ rest' = [rest EXCEPT ![c] = SubSeq(items, k + 1, Len(items))]
      /\ \/ Len(d) >= Capacity /\ BeginFlush(c, d)
         \/ /\ Len(d) < Capacity
            /\ data' = d
            /\ pc' = [pc EXCEPT ![c] = "idle"]
            /\ batch' = [batch EXCEPT ![c] = <<>>]
            /\ canceled' = [canceled EXCEPT ![c] = FALSE]
            /\ UNCHANGED <<armed, extracted>>

(* The call of flushFunc returns; a context-aware function that was called *)
(* with a cancelled context returns an error.                              *)
FlushReturns(g, ok) ==
  /\ pc[g] = "flushing"
  /\ ok \/ MayFail \/ (ContextAware /\ canceled[g])
  /\ ok => ~(ContextAware /\ canceled[g])
  /\ delivered' = IF ok THEN delivered \cup ToSet(batch[g]) ELSE delivered
  /\ failed' = IF ok THEN failed ELSE failed \cup ToSet(batch[g])

(* The goroutine is done with its flush.                                   *)
EndFlush(g, next) ==
  /\ pc' = [pc EXCEPT ![g] = next]
  /\ batch' = [batch EXCEPT ![g] = <<>>]
  /\ canceled' = [canceled EXCEPT ![g] = FALSE]

--------------------------------------------------------------------------------
(* Add passes one item, AddBatch any number.                               *)
NewItems(n) == [i \in 1 .. n |-> made + i]

Add(c, n) ==
  /\ pc[c] = "idle" /\ made + n <= MaxItems
  /\ made' = made + n
  /\ AppendItems(c, NewItems(n))
  /\ UNCHANGED <<ctxDone, stopping, delivered, failed, lost, leftover>>

Flush(c) ==
  /\ pc[c] = "idle" /\ data # <<>>
  /\ BeginFlush(c, data)
  /\ UNCHANGED <<ctxDone, stopping, rest, made, accepted, delivered, failed,
                 lost, leftover>>

(* flushFunc has returned to Add, AddBatch or Flush.  An AddBatch goes on  *)
(* with its next item after a success, under the lock it has just taken    *)
(* again, and gives up after a failure.                                    *)
ClientFlushed(c, ok) ==
  /\ c \notin stopping
  /\ FlushReturns(c, ok)
  /\ \/ /\ ok /\ rest[c] # <<>>
        /\ AppendItems(c, rest[c])
        /\ UNCHANGED lost
     \/ /\ ~ok \/ rest[c] = <<>>
        /\ EndFlush(c, "idle")
        /\ lost' = lost \cup ToSet(rest[c])
        /\ rest' = [rest EXCEPT ![c] = <<>>]
        /\ UNCHANGED <<buffer, accepted, extracted>>
  /\ UNCHANGED <<ctxDone, stopping, made, leftover>>

(* Stop cancels the context and stops the timer, ...                       *)
Stop(c) ==
  /\ pc[c] = "idle" /\ Started
  /\ ctxDone' = TRUE /\ armed' = FALSE
  /\ pc' = [pc EXCEPT ![c] = "waiting"]
  /\ stopping' = stopping \cup {c}
  /\ leftover' = [leftover EXCEPT ![c] = ToSet(data)]
  /\ UNCHANGED <<data, batch, canceled, rest, made, accepted, extracted,
                 delivered, failed, lost>>

(* Mutant of StopFlush. *)
StopFlushFullOnly(c) ==
  /\ pc[c] = "waiting" /\ pc[Loop] = "exited"
  /\ \/ Len(data) >= Capacity /\ BeginFlush(c, data)
     \/ /\ Len(data) < Capacity
        /\ pc' = [pc EXCEPT ![c] = "stopped"]
        /\ UNCHANGED <<buffer, batch, canceled, extracted>>
  /\ UNCHANGED <<ctxDone, stopping, rest, made, accepted, delivered, failed,
                 lost, leftover>>

(* ... waits for flushLoop and flushes what is left ...                    *)
StopFlush(c) ==
  /\ pc[c] = "waiting" /\ pc[Loop] = "exited"
  /\ \/ data # <<>> /\ BeginFlush(c, data)
     \/ /\ data = <<>>
        /\ pc' = [pc EXCEPT ![c] = "stopped"]
        /\ UNCHANGED <<buffer, batch, canceled, extracted>>
  /\ UNCHANGED <<ctxDone, stopping, rest, made, accepted, delivered, failed,
                 lost, leftover>>

(* ... and returns the error of that flush.                                *)
StopFlushed(c, ok) ==
  /\ c \in stopping
  /\ FlushReturns(c, ok)
  /\ EndFlush(c, "stopped")
  /\ UNCHANGED <<buffer, ctxDone, stopping, rest, made, accepted, extracted,
                 lost, leftover>>

--------------------------------------------------------------------------------
(* Start is called once, before Stop.                                      *)
Start ==
  /\ ~Started
  /\ pc' = [pc EXCEPT ![Loop] = "select"]
  /\ armed' = TRUE
  /\ UNCHANGED <<data, ctxDone, stopping, batch, canceled, rest, history>>

(* The parent of Start's context is cancelled.                             *)
ParentCancel ==
  /\ Started /\ ~ctxDone
  /\ ctxDone' = TRUE
  /\ UNCHANGED <<buffer, pc, stopping, batch, canceled, rest, history>>

LoopTick ==
  /\ pc[Loop] = "select" /\ armed
  /\ armed' = FALSE
  /\ pc' = [pc EXCEPT ![Loop] = "lock"]
  /\ UNCHANGED <<data, ctxDone, stopping, batch, canceled, rest, history>>

LoopFlush ==
  /\ pc[Loop] = "lock"
  /\ \/ data # <<>> /\ BeginFlush(Loop, data)
     \/ /\ data = <<>>
        /\ armed' = TRUE
        /\ pc' = [pc EXCEPT ![Loop] = "select"]
        /\ UNCHANGED <<data, batch, canceled, extracted>>
  /\ UNCHANGED <<ctxDone, stopping, rest, made, accepted, delivered, failed,
                 lost, leftover>>

(* Mutant of LoopFlushed. *)
LoopFlushedClears(ok) ==
  /\ FlushReturns(Loop, ok)
  /\ EndFlush(Loop, "select")
  /\ armed' = TRUE /\ data' = <<>>
  /\ UNCHANGED <<ctxDone, stopping, rest, made, accepted, extracted, lost, leftover>>

(* The error of an interval flush is only logged.                          *)
LoopFlushed(ok) ==
  /\ FlushReturns(Loop, ok)
  /\ EndFlush(Loop, "select")
  /\ armed' = TRUE
  /\ UNCHANGED <<data, ctxDone, stopping, rest, made, accepted, extracted,
                 lost, leftover>>

LoopExit ==
  /\ pc[Loop] = "select" /\ ctxDone
  /\ pc' = [pc EXCEPT ![Loop] = "exited"]
  /\ UNCHANGED <<buffer, ctxDone, stopping, batch, canceled, rest, history>>

FlushLoop == LoopTick \/ LoopFlush \/ (\E ok \in BOOLEAN : LoopFlushed(ok)) \/ LoopExit

Client(c) == \/ \E n \in 1 .. MaxBatch : Add(c, n)
             \/ Flush(c)
             \/ \E ok \in BOOLEAN : ClientFlushed(c, ok)
             \/ Stop(c) \/ StopFlush(c)
             \/ \E ok \in BOOLEAN : StopFlushed(c, ok)

Next == Start \/ ParentCancel \/ FlushLoop \/ \E c \in Clients : Client(c)

Spec == Init /\ [][Next]_vars

--------------------------------------------------------------------------------
(* Whenever the lock is free the buffer has room for one more item, and no *)
(* batch is longer than the capacity, however many goroutines add while    *)
(* others are inside flushFunc.                                            *)
Bounded ==
  /\ Len(data) < Capacity \/ data = <<>>
  /\ \A g \in Goroutines : Len(batch[g]) <= Capacity \/ Len(batch[g]) <= 1

(* The items currently inside a call of flushFunc.                         *)
InFlight == UNION {ToSet(batch[g]) : g \in Goroutines}

(* No item is lost or flushed twice: whatever is passed in sits in exactly *)
(* one place.                                                              *)
Waiting == UNION {ToSet(rest[c]) : c \in Clients}
Conserved ==
  /\ 1 .. made = ToSet(data) \cup InFlight \cup delivered \cup failed
                   \cup lost \cup Waiting
  /\ made = Len(data) + Cardinality(InFlight) + Cardinality(delivered)
              + Cardinality(failed) + Cardinality(lost) + Cardinality(Waiting)
  /\ \A g, h \in Goroutines : g # h => ToSet(batch[g]) \cap ToSet(batch[h]) = {}

(* Items leave the buffer in the order they entered it.                    *)
OrderKept == accepted = extracted \o data

(* When Stop has returned, nothing is left of what the buffer held when it *)
(* was called.                                                             *)
StopDrains ==
  \A c \in Clients : pc[c] = "stopped" => leftover[c] \cap ToSet(data) = {}

(* The comment on Stop says it "gracefully stops the buffer and flushes    *)
(* remaining data": flushFunc, which never fails by itself, gets all of it *)
(* across.                                                                 *)
StopDelivers ==
  ~MayFail => \A c \in Clients : pc[c] = "stopped" => leftover[c] \cap failed = {}

(* Nothing waits for the timer; it will stay so, as nobody makes items     *)
(* any more: a buffered item leaves the buffer while the context of Start  *)
(* lives.                                                                  *)
NothingWaits == Started /\ ~ctxDone => data = <<>>

(* Nobody is inside a Stop that waits for flushLoop.                       *)
NoStopWaits == \A c \in Clients : pc[c] # "waiting"
================================================================================
