------------------------------ MODULE KafkaProducer ----------------------------
(***************************************************************************)
(* KafkaSyncProducer and KafkaAsyncProducer of messages/kafka.go.  Send    *)
(* holds the mutex for reading while it waits for the library to take the  *)
(* message, so that a Close waits for it, and no Send can find the input   *)
(* of the library closed.  Two goroutines hand on what the library says of *)
(* every message; the Close of the asynchronous producer waits for them.   *)
(*                                                                         *)
(* The library (sarama) is external: it takes what is in its input, and    *)
(* sooner or later reports each message as a success or an error.          *)
(***************************************************************************)
EXTENDS Integers, FiniteSets

CONSTANTS
  KafkaClients,
  InputSize,     (* of the channel Input                                    *)
  MaxMessages    (* bound: messages sent                                    *)

ASSUME KafkaProducerAssumption == InputSize \in Nat \ {0} /\ MaxMessages \in Nat

Reports == {"Errors", "Successes"}   \* the library's channels, one handler for each

VARIABLES
  mode,          (* "sync" or "async"                                       *)
  producerClosed,(* p.closed; p.cancel is closed with it                    *)
  kafkaClient,   (* what each client does                                   *)
  library,       (* external: messages in the input and in flight, reports  *)
                 (* that wait in each channel, and whether it was closed    *)
  handlers,      (* the handlers that run                                   *)
  taken, reported, (* history: messages sent, and handed to a handler       *)
  kafkaMisused   (* history: a message was put in an input that was closed, *)
                 (* or Close has returned before all reports were handled    *)

kafkaProducerVars ==
  <<mode, producerClosed, kafkaClient, library, handlers, taken, reported, kafkaMisused>>

KafkaProducerInit ==
  /\ mode \in {"sync", "async"}
  /\ producerClosed = FALSE
  /\ kafkaClient = [c \in KafkaClients |-> "idle"]
  /\ library = [input |-> 0, inFlight |-> 0, reports |-> [r \in Reports |-> 0], closed |-> FALSE]
  /\ handlers = IF mode = "async" THEN Reports ELSE {}
  /\ taken = 0 /\ reported = 0 /\ kafkaMisused = FALSE

ClientAt(c, from, to) == kafkaClient[c] = from /\ kafkaClient' = [kafkaClient EXCEPT ![c] = to]
Busy(states) == \E c \in KafkaClients : kafkaClient[c] \in states

--------------------------------------------------------------------------------
(* Send takes the read lock, unless somebody waits for the write lock.     *)
SendLocks(c) ==
  /\ ClientAt(c, "idle", "sending")
  /\ ~producerClosed /\ ~Busy({"locking"})
  /\ taken + Cardinality({d \in KafkaClients : kafkaClient[d] = "sending"}) < MaxMessages
  /\ UNCHANGED <<mode, producerClosed, library, handlers, taken, reported, kafkaMisused>>

(* The select of the asynchronous Send: the input takes the message.       *)
(* (p.cancel cannot be closed meanwhile: see ProducerExact.)               *)
SendAsync(c) ==
  /\ mode = "async" /\ library.input < InputSize
  /\ ClientAt(c, "sending", "idle")
  /\ library' = [library EXCEPT !.input = @ + 1]
  /\ taken' = taken + 1
  /\ kafkaMisused' = (kafkaMisused \/ library.closed)
  /\ UNCHANGED <<mode, producerClosed, handlers, reported>>

(* SendMessage of the synchronous producer returns with the report.        *)
SendSync(c) ==
  /\ mode = "sync" /\ ClientAt(c, "sending", "idle")
  /\ taken' = taken + 1 /\ reported' = reported + 1
  /\ kafkaMisused' = (kafkaMisused \/ library.closed)
  /\ UNCHANGED <<mode, producerClosed, library, handlers>>

(* (A client that has called Close calls nothing any more.)                *)
CloseProducer(c) ==
  /\ ClientAt(c, "idle", "locking")
  /\ UNCHANGED <<mode, producerClosed, library, handlers, taken, reported, kafkaMisused>>

(* Mutant of CloseLocked: Close takes the read lock. *)
CloseLockedShared(c) ==
  /\ ClientAt(c, "locking", IF ~producerClosed /\ mode = "async" THEN "closing" ELSE "over")
  /\ producerClosed' = TRUE
  /\ library' = [library EXCEPT !.closed = @ \/ mode = "sync"]
  /\ UNCHANGED <<mode, handlers, taken, reported, kafkaMisused>>

(* The write lock: the synchronous producer closes the library under it.   *)
CloseLocked(c) ==
  /\ ~Busy({"sending"})
  /\ ClientAt(c, "locking", IF ~producerClosed /\ mode = "async" THEN "closing" ELSE "over")
  /\ producerClosed' = TRUE
  /\ library' = [library EXCEPT !.closed = @ \/ mode = "sync"]
  /\ UNCHANGED <<mode, handlers, taken, reported, kafkaMisused>>

AsyncClose(c) ==
  /\ ClientAt(c, "closing", "draining")
  /\ library' = [library EXCEPT !.closed = TRUE]
  /\ UNCHANGED <<mode, producerClosed, handlers, taken, reported, kafkaMisused>>

(* wg.Wait.                                                                *)
CloseReturns(c) ==
  /\ handlers = {}
  /\ ClientAt(c, "draining", "over")
  /\ kafkaMisused' = (kafkaMisused \/ reported # taken)
  /\ UNCHANGED <<mode, producerClosed, library, handlers, taken, reported>>

HandleReport(r) ==
  /\ r \in handlers /\ library.reports[r] > 0
  /\ library' = [library EXCEPT !.reports[r] = @ - 1]
  /\ reported' = reported + 1
  /\ UNCHANGED <<mode, producerClosed, kafkaClient, handlers, taken, kafkaMisused>>

(* The library closes the channel of a handler when it has reported all.   *)
HandlerEnds(r) ==
  /\ r \in handlers
  /\ library.closed /\ library.input = 0 /\ library.inFlight = 0 /\ library.reports[r] = 0
  /\ handlers' = handlers \ {r}
  /\ UNCHANGED <<mode, producerClosed, kafkaClient, library, taken, reported, kafkaMisused>>

--------------------------------------------------------------------------------
(* The library.                                                            *)
LibraryTakes ==
  /\ library.input > 0
  /\ library' = [library EXCEPT !.input = @ - 1, !.inFlight = @ + 1]
  /\ UNCHANGED <<mode, producerClosed, kafkaClient, handlers, taken, reported, kafkaMisused>>

LibraryReports(r) ==
  /\ library.inFlight > 0
  /\ library' = [library EXCEPT !.inFlight = @ - 1, !.reports[r] = @ + 1]
  /\ UNCHANGED <<mode, producerClosed, kafkaClient, handlers, taken, reported, kafkaMisused>>

LibraryStep == LibraryTakes \/ \E r \in Reports : LibraryReports(r)
HandlerStep(r) == HandleReport(r) \/ HandlerEnds(r)
ClientGoesOn(c) ==
  SendAsync(c) \/ SendSync(c) \/ CloseLocked(c) \/ AsyncClose(c) \/ CloseReturns(c)

KafkaProducerNext ==
  \/ \E c \in KafkaClients : SendLocks(c) \/ CloseProducer(c) \/ ClientGoesOn(c)
  \/ LibraryStep \/ \E r \in Reports : HandlerStep(r)

--------------------------------------------------------------------------------
(* No message is put in an input that was closed, which would panic; a     *)
(* Send that waits for the input never sees p.cancel closed; and the Close *)
(* that closes returns when everything taken was handed to a handler.   *)
ProducerExact ==
  /\ ~kafkaMisused
  /\ producerClosed => ~Busy({"sending"})
  /\ reported <= taken

(* Every Send and Close comes to its end.                                  *)
ProducerEnds == ~Busy({"sending", "locking", "closing", "draining"})
================================================================================
