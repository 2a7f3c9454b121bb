------------------------------ MODULE BoundedFIFO ------------------------------
(***************************************************************************)
(* What a ring buffer of the messages package promises to its users: a     *)
(* bounded queue that hands out every accepted message once and in the     *)
(* order of acceptance.                                                    *)
(*                                                                         *)
(* `sent' is the sequence of all messages accepted so far and `taken' the  *)
(* sequence of all messages handed out so far; the queue's content is what *)
(* `sent' has beyond `taken'.  HFTRing and SharedMemoryRing implement this *)
(* specification.                                                          *)
(***************************************************************************)
EXTENDS Naturals, Sequences

CONSTANTS Messages,  (* the messages that can be sent                      *)
          Capacity   (* how many messages the queue holds at most          *)

VARIABLES sent, taken

fifoVars == <<sent, taken>>

Init == sent = <<>> /\ taken = <<>>

Put(m) == /\ Len(sent) < Len(taken) + Capacity
          /\ sent' = Append(sent, m)
          /\ taken' = taken

Take == /\ Len(taken) < Len(sent)
        /\ taken' = Append(taken, sent[Len(taken) + 1])
        /\ sent' = sent

Next == (\E m \in Messages : Put(m)) \/ Take

Spec == Init /\ [][Next]_fifoVars
================================================================================
