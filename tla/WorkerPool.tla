-------------------------------- MODULE WorkerPool ------------------------------
(***************************************************************************)
(* WorkerPool of efflux/worker_pool.go.                                    *)
(*                                                                         *)
(* NewWorkerPool makes workers but does not keep them: the slice that a    *)
(* worker goroutine looks its own worker up in is empty, and the lookup    *)
(* panics.  The goroutine recovers and ends.                               *)
(***************************************************************************)
EXTENDS Integers, Sequences, FiniteSets, SequencesExt

CONSTANTS
  MaxSubmits,     (* bound: of tasks submitted                              *)
  PoolClients,    (* goroutines that call Submit and TrySubmit              *)
  NumWorkers,
  PoolQueueSize

ASSUME WorkerPoolAssumption ==
  /\ MaxSubmits \in Nat /\ NumWorkers \in Nat
  /\ PoolQueueSize \in Nat \ {0}

VARIABLES
  poolStarted, poolStopped, poolClosed,  (* closed: the channel is          *)
  poolDone,       (* the context of Start has ended                         *)
  poolQueue,      (* taskQueue; tasks are numbers                           *)
  poolWorkers,    (* workers: "none", "select", "process" or "exited"       *)
  poolTask,       (* what each of them has received                         *)
  submitPc,       (* clients: "idle", or the select they are in: "block",   *)
                  (* with the context of Start, or "try", with a default    *)
  poolStopPc,     (* "no", "close", "wait" or "returned"                    *)
  submitted,      (* history: number of tasks submitted                     *)
  submitting,     (* the task of each client                                *)
  answers,        (* history: what Submit has returned for each task        *)
  handled, panicked  (* history: tasks processed, tasks lost in a panic     *)

workerPoolVars ==
  <<poolStarted, poolStopped, poolClosed, poolDone, poolQueue, poolWorkers, poolTask,
    submitPc, poolStopPc, submitted, submitting, answers, handled, panicked>>

Workplaces == 1 .. NumWorkers
NoWork     == 0

PoolInit ==
  /\ poolStarted = FALSE /\ poolStopped = FALSE /\ poolClosed = FALSE
  /\ poolDone = FALSE /\ poolQueue = <<>>
  /\ poolWorkers = [w \in Workplaces |-> "none"]
  /\ poolTask = [w \in Workplaces |-> NoWork]
  /\ submitPc = [c \in PoolClients |-> "idle"] /\ poolStopPc = "no"
  /\ submitted = 0 /\ submitting = [c \in PoolClients |-> NoWork]
  /\ answers = <<>> /\ handled = {} /\ panicked = {}

(* The length of the slice workers, as NewWorkerPool leaves it.            *)
WorkersKept == 0

--------------------------------------------------------------------------------
PoolStart ==
  /\ ~poolStarted /\ ~poolStopped
  /\ poolStarted' = TRUE
  /\ poolWorkers' = [w \in Workplaces |-> "select"]
  /\ UNCHANGED <<poolStopped, poolClosed, poolDone, poolQueue, poolTask, submitPc,
                 poolStopPc, submitted, submitting, answers, handled, panicked>>

(* The context that was given to Start ends.                               *)
PoolContextEnds ==
  /\ poolStarted /\ ~poolDone
  /\ poolDone' = TRUE
  /\ UNCHANGED <<poolStarted, poolStopped, poolClosed, poolQueue, poolWorkers, poolTask,
                 submitPc, poolStopPc, submitted, submitting, answers, handled, panicked>>

(* Submit or TrySubmit looks whether the pool is stopped.  Submit waits    *)
(* for room only if the pool has been started, and TrySubmit never.        *)
SubmitBegin(c, try) ==
  /\ submitPc[c] = "idle" /\ submitted < MaxSubmits
  /\ submitted' = submitted + 1
  /\ \/ /\ poolStopped
        /\ answers' = Append(answers, FALSE)
        /\ UNCHANGED <<submitPc, submitting>>
     \/ /\ ~poolStopped
        /\ submitPc' = [submitPc EXCEPT ![c] =
                          IF poolStarted /\ ~try THEN "block" ELSE "try"]
        /\ submitting' = [submitting EXCEPT ![c] = submitted']
        /\ answers' = Append(answers, FALSE)
  /\ UNCHANGED <<poolStarted, poolStopped, poolClosed, poolDone, poolQueue, poolWorkers,
                 poolTask, poolStopPc, handled, panicked>>

SubmitEnd(c) == /\ submitPc' = [submitPc EXCEPT ![c] = "idle"]
                /\ submitting' = [submitting EXCEPT ![c] = NoWork]

SubmitSend(c) ==
  /\ submitPc[c] # "idle" /\ ~poolClosed /\ Len(poolQueue) < PoolQueueSize
  /\ poolQueue' = Append(poolQueue, submitting[c])
  /\ answers' = [answers EXCEPT ![submitting[c]] = TRUE]
  /\ SubmitEnd(c)
  /\ UNCHANGED <<poolStarted, poolStopped, poolClosed, poolDone, poolWorkers, poolTask,
                 poolStopPc, submitted, handled, panicked>>

(* Mutant of SubmitFails. *)
SubmitFailsTrue(c) ==
  /\ \/ submitPc[c] # "idle" /\ poolClosed
     \/ submitPc[c] = "try" /\ Len(poolQueue) = PoolQueueSize
     \/ submitPc[c] = "block" /\ poolDone
  /\ answers' = [answers EXCEPT ![submitting[c]] = poolClosed]
  /\ SubmitEnd(c)
  /\ UNCHANGED <<poolStarted, poolStopped, poolClosed, poolDone, poolQueue, poolWorkers,
                 poolTask, poolStopPc, submitted, handled, panicked>>

(* The send on the closed channel panics, which Submit recovers from and   *)
(* returns false; or there is no room; or the context has ended.           *)
SubmitFails(c) ==
  /\ \/ submitPc[c] # "idle" /\ poolClosed
     \/ submitPc[c] = "try" /\ Len(poolQueue) = PoolQueueSize
     \/ submitPc[c] = "block" /\ poolDone
  /\ SubmitEnd(c)
  /\ UNCHANGED <<poolStarted, poolStopped, poolClosed, poolDone, poolQueue, poolWorkers,
                 poolTask, poolStopPc, submitted, answers, handled, panicked>>

--------------------------------------------------------------------------------
(* worker.                                                                 *)
PoolReceive(w) ==
  /\ poolWorkers[w] = "select" /\ poolQueue # <<>>
  /\ poolTask' = [poolTask EXCEPT ![w] = Head(poolQueue)]
  /\ poolQueue' = Tail(poolQueue)
  /\ poolWorkers' = [poolWorkers EXCEPT ![w] = "process"]
  /\ UNCHANGED <<poolStarted, poolStopped, poolClosed, poolDone, submitPc, poolStopPc,
                 submitted, submitting, answers, handled, panicked>>

PoolProcess(w) ==
  /\ poolWorkers[w] = "process"
  /\ \/ /\ w <= WorkersKept
        /\ handled' = handled \cup {poolTask[w]}
        /\ poolWorkers' = [poolWorkers EXCEPT ![w] = "select"]
        /\ UNCHANGED panicked
     \/ /\ w > WorkersKept
        /\ panicked' = panicked \cup {poolTask[w]}
        /\ poolWorkers' = [poolWorkers EXCEPT ![w] = "exited"]
        /\ UNCHANGED handled
  /\ poolTask' = [poolTask EXCEPT ![w] = NoWork]
  /\ UNCHANGED <<poolStarted, poolStopped, poolClosed, poolDone, poolQueue, submitPc,
                 poolStopPc, submitted, submitting, answers>>

PoolWorkerExits(w) ==
  /\ poolWorkers[w] = "select"
  /\ poolDone \/ (poolClosed /\ poolQueue = <<>>)
  /\ poolWorkers' = [poolWorkers EXCEPT ![w] = "exited"]
  /\ UNCHANGED <<poolStarted, poolStopped, poolClosed, poolDone, poolQueue, poolTask,
                 submitPc, poolStopPc, submitted, submitting, answers, handled, panicked>>

(* Stop marks the pool as stopped, closes the channel and waits.           *)
PoolStop ==
  /\ poolStarted /\ ~poolStopped
  /\ poolStopped' = TRUE /\ poolStopPc' = "close"
  /\ UNCHANGED <<poolStarted, poolClosed, poolDone, poolQueue, poolWorkers, poolTask,
                 submitPc, submitted, submitting, answers, handled, panicked>>

PoolClose ==
  /\ poolStopPc = "close"
  /\ poolClosed' = TRUE /\ poolStopPc' = "wait"
  /\ UNCHANGED <<poolStarted, poolStopped, poolDone, poolQueue, poolWorkers, poolTask,
                 submitPc, submitted, submitting, answers, handled, panicked>>

PoolStopped ==
  /\ poolStopPc = "wait" /\ \A w \in Workplaces : poolWorkers[w] = "exited"
  /\ poolStopPc' = "returned"
  /\ UNCHANGED <<poolStarted, poolStopped, poolClosed, poolDone, poolQueue, poolWorkers,
                 poolTask, submitPc, submitted, submitting, answers, handled, panicked>>

--------------------------------------------------------------------------------
PoolWorker(w) == PoolReceive(w) \/ PoolProcess(w) \/ PoolWorkerExits(w)

WorkerPoolNext ==
  \/ PoolStart \/ PoolContextEnds \/ PoolStop \/ PoolClose \/ PoolStopped
  \/ \E c \in PoolClients : \/ \E try \in BOOLEAN : SubmitBegin(c, try)
                            \/ SubmitSend(c) \/ SubmitFails(c)
  \/ \E w \in Workplaces : PoolWorker(w)

WorkerPoolSpec == PoolInit /\ [][WorkerPoolNext]_workerPoolVars

--------------------------------------------------------------------------------
(* Submit tells the truth, however it races with Stop and the end of the   *)
(* context: the tasks it returned true for, and no others, are in the      *)
(* queue or were taken out of it by one worker.                            *)
SubmitTruthful ==
  /\ {t \in 1 .. submitted : answers[t]} =
       ToSet(poolQueue) \cup ({poolTask[w] : w \in Workplaces} \ {NoWork})
         \cup handled \cup panicked
  /\ Cardinality({t \in 1 .. submitted : answers[t]}) =
       Len(poolQueue) + Cardinality({w \in Workplaces : poolTask[w] # NoWork})
         + Cardinality(handled) + Cardinality(panicked)

(* Nobody is inside Stop, which returns even if the workers are gone.      *)
PoolStopReturns == poolStopPc \in {"no", "returned"}
================================================================================
