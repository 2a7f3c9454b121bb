------------------------------ MODULE KafkaConsumer ----------------------------
(***************************************************************************)
(* KafkaConsumerGroup of messages/kafka_consumer.go: the claim of one      *)
(* partition.  ConsumeClaim calls all handlers with each message and marks *)
(* it, whatever the handlers return.  A session ends by a rebalance, by    *)
(* Close or by a crash; the next one starts at the committed offset.       *)
(*                                                                         *)
(* The library (sarama) is external: it starts sessions, delivers the      *)
(* messages from the committed offset on in order, and commits what is     *)
(* marked from time to time and when a session ends.                       *)
(***************************************************************************)
EXTENDS Integers

CONSTANTS
  NumHandlers,
  MaxOffset,     (* bound: messages in the partition                        *)
  MaxSessions    (* bound                                                   *)

ASSUME KafkaConsumerAssumption ==
  NumHandlers \in Nat \ {0} /\ MaxOffset \in Nat /\ MaxSessions \in Nat

VARIABLES
  groupClosed,
  claim,         (* the claim: at "none", "select", "handling" (next: the   *)
                 (* handler to call) or "marking"; next offset to receive;  *)
                 (* done: its session's context has ended                   *)
  marked,        (* offsets below are marked in the session ...             *)
  committed,     (* ... and committed                                       *)
  sessions,      (* history: sessions begun                                 *)
  seen           (* history: of each handler, the offsets it was called     *)
                 (* with are those below                                    *)

kafkaConsumerVars == <<groupClosed, claim, marked, committed, sessions, seen>>

NoClaim == [at |-> "none", handler |-> 0, offset |-> 0, done |-> FALSE]

KafkaConsumerInit ==
  /\ groupClosed = FALSE /\ claim = NoClaim
  /\ marked = 0 /\ committed = 0 /\ sessions = 0
  /\ seen = [h \in 1 .. NumHandlers |-> 0]

--------------------------------------------------------------------------------
(* Consume, in the loop of Start.                                          *)
SessionStarts ==
  /\ claim.at = "none" /\ ~groupClosed /\ sessions < MaxSessions
  /\ claim' = [NoClaim EXCEPT !.at = "select", !.offset = committed]
  /\ sessions' = sessions + 1 /\ marked' = committed
  /\ UNCHANGED <<groupClosed, committed, seen>>

(* Mutant of ReceiveMessage: the message is marked before it is handled. *)
ReceiveMessageMarks ==
  /\ claim.at = "select" /\ claim.offset < MaxOffset
  /\ claim' = [claim EXCEPT !.at = "handling", !.handler = 1]
  /\ marked' = claim.offset + 1
  /\ UNCHANGED <<groupClosed, committed, sessions, seen>>

(* ConsumeClaim.  The select may prefer a message to Done.                 *)
ReceiveMessage ==
  /\ claim.at = "select" /\ claim.offset < MaxOffset
  /\ claim' = [claim EXCEPT !.at = "handling", !.handler = 1]
  /\ UNCHANGED <<groupClosed, marked, committed, sessions, seen>>

(* A handler returns nil or an error.                                      *)
CallHandler ==
  LET h == claim.handler
  IN  /\ claim.at = "handling"
      /\ claim' = IF h = NumHandlers THEN [claim EXCEPT !.at = "marking", !.handler = 0]
                                     ELSE [claim EXCEPT !.handler = h + 1]
      /\ seen' = [seen EXCEPT ![h] = IF claim.offset >= @ THEN claim.offset + 1 ELSE @]
      /\ UNCHANGED <<groupClosed, marked, committed, sessions>>

MarkMessage ==
  /\ claim.at = "marking"
  /\ claim' = [claim EXCEPT !.at = "select", !.offset = @ + 1]
  /\ marked' = claim.offset + 1
  /\ UNCHANGED <<groupClosed, committed, sessions, seen>>

(* The claim returns; the library commits what is marked.                  *)
ClaimReturns ==
  /\ claim.at = "select" /\ claim.done
  /\ claim' = NoClaim /\ committed' = marked
  /\ UNCHANGED <<groupClosed, marked, sessions, seen>>

ConsumeStep == ReceiveMessage \/ CallHandler \/ MarkMessage \/ ClaimReturns

CloseGroup ==
  /\ ~groupClosed
  /\ groupClosed' = TRUE
  /\ claim' = [claim EXCEPT !.done = claim.at # "none"]
  /\ UNCHANGED <<marked, committed, sessions, seen>>

--------------------------------------------------------------------------------
Rebalance ==
  /\ claim.at # "none" /\ ~claim.done
  /\ claim' = [claim EXCEPT !.done = TRUE]
  /\ UNCHANGED <<groupClosed, marked, committed, sessions, seen>>

CommitMarked ==
  /\ committed < marked /\ claim.at # "none"
  /\ committed' = marked
  /\ UNCHANGED <<groupClosed, claim, marked, sessions, seen>>

(* The process dies and is started again.                                  *)
ConsumerCrashes ==
  /\ claim.at # "none"
  /\ claim' = NoClaim /\ groupClosed' = FALSE
  /\ UNCHANGED <<marked, committed, sessions, seen>>

KafkaConsumerNext ==
  SessionStarts \/ ConsumeStep \/ CloseGroup \/ Rebalance \/ CommitMarked \/ ConsumerCrashes

--------------------------------------------------------------------------------
(* At least once: wherever a crash, a rebalance or Close meets the claim,  *)
(* every message below the committed offset was given to every handler,    *)
(* to one handler after the other; and no message is skipped: none is      *)
(* received before those before it were given to all of them.              *)
AtLeastOnce ==
  /\ \A h \in DOMAIN seen : committed <= seen[h] /\ claim.offset <= seen[h]
  /\ \A h \in 2 .. NumHandlers : seen[h] <= seen[h - 1]
  /\ claim.at # "none" => committed <= marked /\ marked <= claim.offset

(* After Close the claim comes to its end.                                 *)
ClaimEnds == groupClosed => claim.at = "none"
================================================================================
