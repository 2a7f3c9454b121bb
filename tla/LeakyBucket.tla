------------------------------ MODULE LeakyBucket ------------------------------
(***************************************************************************)
(* LeakyBucket of stability/ratelimit.go: callers that pour into a bucket  *)
(* or wait for space in it, and the goroutine that leaks.                  *)
(*                                                                         *)
(* The bucket is guarded by mu and the wait queue by waitQueueMu; each     *)
(* critical section is one action.  WaitN is many: AllowN, joining the     *)
(* queue, waking up and trying again happen with other goroutines between. *)
(*                                                                         *)
(* A caller has at most one channel in the queue, so that the channel is   *)
(* named by its caller.  Time is abstracted: a running ticker may tick at  *)
(* any moment, and the delays of reservations are left out.                *)
(***************************************************************************)
EXTENDS Integers, Sequences, SequencesExt

CONSTANTS
  Callers,      (* goroutines that use the bucket                           *)
  Bursts,       (* the values capacity is set to                            *)
  MaxN,         (* bound: how much one call asks for                        *)
  MaxManual     (* bound: calls of SetLimit, SetBurst, Reset and ReserveN   *)

LeakyBucketAssumption ==
  /\ Bursts \subseteq Nat \ {0} /\ Bursts # {}
  /\ MaxN \in Nat /\ MaxManual \in Nat

VARIABLES
  capacity, current, closed,  (* the bucket                                 *)
  queue,      (* waitQueue                                                  *)
  woken,      (* waiting callers whose channel is closed                    *)
  pc,         (* callers: "idle", "join" or "wait"                          *)
  need,       (* callers: what WaitN still has to pour                      *)
  reserved,   (* callers: tokens of a reservation not cancelled yet         *)
  loop,       (* startLeaking: "start", "select", "leak" or "exited"        *)
  listens,    (* whether the ticker its select waits for still runs         *)
  manual      (* history: manual calls so far                               *)

bucket  == <<capacity, current, closed>>
callers == <<queue, woken, pc, need, reserved>>
leaker  == <<loop, listens>>
vars    == <<bucket, callers, leaker, manual>>

(* NewLeakyBucket.                                                         *)
Init ==
  /\ capacity \in Bursts /\ current = 0 /\ closed = FALSE
  /\ queue = <<>> /\ woken = {}
  /\ pc = [c \in Callers |-> "idle"] /\ need = [c \in Callers |-> 0]
  /\ reserved = [c \in Callers |-> 0]
  /\ loop = "start" /\ listens = FALSE
  /\ manual = 0

Manual == manual < MaxManual /\ manual' = manual + 1

WakeAll == woken' = woken \cup ToSet(queue) /\ queue' = <<>>

--------------------------------------------------------------------------------
(* Allow, AllowN, and the attempt WaitN begins with, when they succeed.    *)
AllowN(n) ==
  /\ ~closed /\ current + n <= capacity
  /\ current' = current + n
  /\ UNCHANGED <<capacity, closed, callers, leaker, manual>>

(* WaitN finds no room and is about to wait for n times one space.         *)
WaitN(c, n) ==
  /\ pc[c] = "idle"
  /\ closed \/ current + n > capacity
  /\ pc' = [pc EXCEPT ![c] = "join"] /\ need' = [need EXCEPT ![c] = n]
  /\ UNCHANGED <<bucket, queue, woken, reserved, leaker, manual>>

(* waitForSpace puts a new channel into the queue.                         *)
Join(c) ==
  /\ pc[c] = "join"
  /\ pc' = [pc EXCEPT ![c] = "wait"] /\ queue' = Append(queue, c)
  /\ UNCHANGED <<bucket, woken, need, reserved, leaker, manual>>

(* Mutant of Retry. *)
RetryUnchecked(c) ==
  /\ pc[c] = "wait" /\ c \in woken
  /\ woken' = woken \ {c}
  /\ current' = current + 1
  /\ need' = [need EXCEPT ![c] = @ - 1]
  /\ pc' = [pc EXCEPT ![c] = IF need[c] = 1 THEN "idle" ELSE "join"]
  /\ UNCHANGED <<capacity, closed, queue, reserved, leaker, manual>>

(* The channel is closed: take the space if it is still there, and queue   *)
(* up again for the next one or for another try.                           *)
Retry(c) ==
  /\ pc[c] = "wait" /\ c \in woken
  /\ woken' = woken \ {c}
  /\ \/ /\ current < capacity /\ ~closed
        /\ current' = current + 1
        /\ need' = [need EXCEPT ![c] = @ - 1]
        /\ pc' = [pc EXCEPT ![c] = IF need[c] = 1 THEN "idle" ELSE "join"]
     \/ /\ current >= capacity \/ closed
        /\ pc' = [pc EXCEPT ![c] = "join"]
        /\ UNCHANGED <<current, need>>
  /\ UNCHANGED <<capacity, closed, queue, reserved, leaker, manual>>

(* Mutant of GiveUp. *)
GiveUpStaysQueued(c) ==
  /\ pc[c] = "wait"
  /\ pc' = [pc EXCEPT ![c] = "idle"] /\ need' = [need EXCEPT ![c] = 0]
  /\ woken' = woken \ {c}
  /\ UNCHANGED <<bucket, queue, reserved, leaker, manual>>

(* The context is done; what WaitN has poured already stays poured.  The   *)
(* select may prefer this to a channel that was closed at the same time.   *)
GiveUp(c) ==
  /\ pc[c] = "wait"
  /\ pc' = [pc EXCEPT ![c] = "idle"] /\ need' = [need EXCEPT ![c] = 0]
  /\ \/ \E i \in DOMAIN queue :
          queue[i] = c /\ (\A j \in 1 .. i - 1 : queue[j] # c) /\ queue' = RemoveAt(queue, i)
     \/ c \notin ToSet(queue) /\ UNCHANGED queue
  /\ woken' = woken \ {c}
  /\ UNCHANGED <<bucket, reserved, leaker, manual>>

--------------------------------------------------------------------------------
(* ReserveN when there is room: nothing is poured, but ...                 *)
ReserveN(c, n) ==
  /\ Manual
  /\ ~closed /\ reserved[c] = 0 /\ n <= capacity - current
  /\ reserved' = [reserved EXCEPT ![c] = n]
  /\ UNCHANGED <<bucket, queue, woken, pc, need, leaker>>

(* ... Cancel takes the tokens out.                                        *)
Cancel(c) ==
  /\ reserved[c] > 0
  /\ reserved' = [reserved EXCEPT ![c] = 0]
  /\ current' = IF current < reserved[c] THEN 0 ELSE current - reserved[c]
  /\ UNCHANGED <<capacity, closed, queue, woken, pc, need, leaker, manual>>

SetBurst(burst) ==
  /\ Manual
  /\ capacity' = burst
  /\ current' = IF current > burst THEN burst ELSE current
  /\ UNCHANGED <<closed, callers, leaker>>

(* SetLimit stops the ticker and puts another one in its place.  A leaking *)
(* goroutine that is in its select keeps waiting for the old one.          *)
SetLimit ==
  /\ Manual
  /\ listens' = IF loop = "select" THEN FALSE ELSE listens
  /\ UNCHANGED <<bucket, callers, loop>>

Reset ==
  /\ Manual
  /\ current' = 0
  /\ WakeAll
  /\ UNCHANGED <<capacity, closed, pc, need, reserved, leaker>>

Close ==
  /\ ~closed
  /\ closed' = TRUE
  /\ WakeAll
  /\ UNCHANGED <<capacity, current, pc, need, reserved, leaker, manual>>

--------------------------------------------------------------------------------
(* startLeaking.  Every round of the loop looks up the ticker anew.        *)
LeakStart ==
  /\ loop = "start"
  /\ loop' = "select" /\ listens' = TRUE
  /\ UNCHANGED <<bucket, callers, manual>>

Tick ==
  /\ loop = "select" /\ listens
  /\ loop' = "leak"
  /\ UNCHANGED <<bucket, callers, listens, manual>>

(* Mutant of DoLeak. *)
DoLeakWakesLast ==
  /\ loop = "leak"
  /\ loop' = "select" /\ listens' = TRUE
  /\ \/ /\ current > 0
        /\ current' = current - 1
        /\ \/ /\ queue # <<>>
              /\ woken' = woken \cup {Last(queue)} /\ queue' = Front(queue)
           \/ queue = <<>> /\ UNCHANGED <<queue, woken>>
     \/ /\ current = 0
        /\ UNCHANGED <<current, queue, woken>>
  /\ UNCHANGED <<capacity, closed, pc, need, reserved, manual>>

DoLeak ==
  /\ loop = "leak"
  /\ loop' = "select" /\ listens' = TRUE
  /\ \/ /\ current > 0
        /\ current' = current - 1
        /\ \/ /\ queue # <<>>
              /\ woken' = woken \cup {Head(queue)} /\ queue' = Tail(queue)
           \/ queue = <<>> /\ UNCHANGED <<queue, woken>>
     \/ /\ current = 0
        /\ UNCHANGED <<current, queue, woken>>
  /\ UNCHANGED <<capacity, closed, pc, need, reserved, manual>>

LeakExit ==
  /\ loop = "select" /\ closed
  /\ loop' = "exited"
  /\ UNCHANGED <<bucket, callers, listens, manual>>

StartLeaking == LeakStart \/ Tick \/ DoLeak \/ LeakExit

Next ==
  \/ \E n \in 1 .. MaxN : AllowN(n)
  \/ \E c \in Callers :
       \/ \E n \in 1 .. MaxN : WaitN(c, n) \/ ReserveN(c, n)
       \/ Join(c) \/ Retry(c) \/ GiveUp(c) \/ Cancel(c)
  \/ (\E b \in Bursts : SetBurst(b)) \/ SetLimit \/ Reset \/ Close
  \/ StartLeaking

Spec == Init /\ [][Next]_vars

(* The ticker ticks and mutexes are handed on.  No context has to end.     *)
Fairness == /\ WF_vars(StartLeaking)
            /\ \A c \in Callers : WF_vars(Join(c) \/ Retry(c))

FairSpec == Spec /\ Fairness

--------------------------------------------------------------------------------
TypeOK ==
  /\ capacity \in Bursts /\ current \in 0 .. capacity /\ closed \in BOOLEAN
  /\ queue \in Seq(Callers) /\ woken \subseteq Callers
  /\ pc \in [Callers -> {"idle", "join", "wait"}]
  /\ need \in [Callers -> 0 .. MaxN] /\ reserved \in [Callers -> 0 .. MaxN]
  /\ loop \in {"start", "select", "leak", "exited"} /\ listens \in BOOLEAN
  /\ manual \in Nat

(* Exactly the callers asleep in waitForSpace have a channel in the queue, *)
(* each one: a channel that stays in the queue is closed twice, which      *)
(* panics, or takes the wake-up of a caller that is still there; one that  *)
(* leaves it without being closed is never closed.                         *)
Asleep(c) == pc[c] = "wait" /\ c \notin woken
QueueExact ==
  /\ ToSet(queue) = {c \in Callers : Asleep(c)}
  /\ IsInjective(queue)
  /\ \A c \in woken : pc[c] = "wait"

(* Nobody gets in after Close, not even a caller that Close itself or a    *)
(* leak before it has woken.                                               *)
ClosedAdmitsNobody == [][closed => current' <= current]_vars

(* As long as the bucket is not empty, a caller asleep in the queue is     *)
(* woken, however many are before it: unless SetLimit took the ticker away *)
(* from the leaking goroutine, or the bucket was closed and leaks no more. *)
SleeperWakes ==
  \A c \in Callers :
    (Asleep(c) /\ current > 0) ~>
      (~Asleep(c) \/ current = 0 \/ closed \/ (loop = "select" /\ ~listens))
================================================================================
