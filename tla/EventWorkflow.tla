----------------------------- MODULE EventWorkflow -----------------------------
(***************************************************************************)
(* EventBasedWorkflow of efflux/event_based_workflow.go with the           *)
(* BasicEventQueue and the BasicEventWorkerManager it is used with.        *)
(*                                                                         *)
(* Tasks go round: clients and the puller send them to the queue, the      *)
(* event loop assigns them to the task queue of the workers, and a worker  *)
(* that has processed one sends it back to the queue, if the manager has   *)
(* a return queue.  Both queues are bounded channels, and every send and   *)
(* receive may also end because a context is done.                         *)
(***************************************************************************)
EXTENDS Integers, Sequences, FiniteSets, SequencesExt

CONSTANTS
  MaxTasks,       (* bound: of tasks                                        *)
  Submitters,     (* goroutines that call Submit and SubmitBatch            *)
  Puller,         (* the goroutine of pullTasks                             *)
  Workers,
  QueueSize,      (* capacity of BasicEventQueue.queue                      *)
  TaskQueueSize   (* capacity of BasicEventWorkerManager.taskQueue          *)

Tasks == 1 .. MaxTasks
NoTask == 0
Senders == Submitters \cup {Puller}

ASSUME EventWorkflowAssumption ==
  /\ IsFiniteSet(Submitters) /\ Puller \notin Submitters
  /\ IsFiniteSet(Workers) /\ MaxTasks \in Nat
  /\ QueueSize \in Nat \ {0} /\ TaskQueueSize \in Nat \ {0}

VARIABLES
  returns,        (* whether there is a return queue                        *)
  cancelled,      (* Stop has cancelled the context of the workflow, from   *)
                  (* which those of the queue and the manager derive        *)
  sent,           (* number of tasks given to somebody to send so far       *)
  hand,           (* what each sender still has to send                     *)
  taskChan,       (* BasicEventQueue.queue                                  *)
  pullPc,         (* the puller: "new", "select", "send" or "exited"        *)
  loopPc,         (* the event loop: "new", "select", "assign" or "exited"  *)
  loopTask,       (* the task it has received                               *)
  taskQueue,
  workerPc,       (* workers: "new", "select", "process", "return" or       *)
                  (* "exited"                                               *)
  workerTask,
  stopPc,         (* "no", or what Stop waits for: "workers", "puller",     *)
                  (* "loop"; then "returned"                                *)
  processed,      (* history: tasks processed at least once                 *)
  gone            (* history: where the tasks are that left the flow:       *)
                  (* "finished", "refused" or "dropped"                     *)

workflowVars ==
  <<returns, cancelled, sent, hand, taskChan, pullPc, loopPc, loopTask, taskQueue,
    workerPc, workerTask, stopPc, processed, gone>>

WorkflowInit ==
  /\ returns \in BOOLEAN /\ cancelled = FALSE
  /\ sent = 0 /\ hand = [s \in Senders |-> <<>>] /\ taskChan = <<>>
  /\ pullPc = "new" /\ loopPc = "new" /\ loopTask = NoTask /\ taskQueue = <<>>
  /\ workerPc = [w \in Workers |-> "new"]
  /\ workerTask = [w \in Workers |-> NoTask]
  /\ stopPc = "no" /\ processed = {}
  /\ gone = [t \in {} |-> "finished"]

Leave(ts, how) ==
  gone' = [t \in DOMAIN gone \cup ts |-> IF t \in ts THEN how ELSE gone[t]]

(* The next n tasks.                                                       *)
NextTasks(n) == [i \in 1 .. n |-> sent + i]
Took(n)      == sent + n <= MaxTasks /\ sent' = sent + n

--------------------------------------------------------------------------------
(* Start, of the queue, the manager and the event loop.  A second call     *)
(* finds a context and returns.                                            *)
WorkflowStart ==
  /\ loopPc = "new"
  /\ pullPc' = "select" /\ loopPc' = "select"
  /\ workerPc' = [w \in Workers |-> "select"]
  /\ UNCHANGED <<returns, cancelled, sent, hand, taskChan, loopTask, taskQueue,
                 workerTask, stopPc, processed, gone>>

(* Submit passes one task, SubmitBatch several.                            *)
WorkflowSubmit(s, n) ==
  /\ hand[s] = <<>>
  /\ Took(n)
  /\ hand' = [hand EXCEPT ![s] = NextTasks(n)]
  /\ UNCHANGED <<returns, cancelled, taskChan, pullPc, loopPc, loopTask, taskQueue,
                 workerPc, workerTask, stopPc, processed, gone>>

(* The ticker of the puller fires and Pull returns tasks, or an error or   *)
(* nothing, after which it waits for the next tick.                        *)
WorkflowPull(n) ==
  /\ pullPc = "select"
  /\ Took(n)
  /\ hand' = [hand EXCEPT ![Puller] = NextTasks(n)]
  /\ pullPc' = "send"
  /\ UNCHANGED <<returns, cancelled, taskChan, loopPc, loopTask, taskQueue, workerPc,
                 workerTask, stopPc, processed, gone>>

(* A send to the queue goes through.                                       *)
WorkflowSend(s) ==
  /\ hand[s] # <<>> /\ Len(taskChan) < QueueSize
  /\ taskChan' = Append(taskChan, Head(hand[s]))
  /\ hand' = [hand EXCEPT ![s] = Tail(@)]
  /\ pullPc' = IF s = Puller /\ Len(hand[s]) = 1 THEN "select" ELSE pullPc
  /\ UNCHANGED <<returns, cancelled, sent, loopPc, loopTask, taskQueue, workerPc,
                 workerTask, stopPc, processed, gone>>

(* The context of a Submit or SubmitBatch ends: the rest is refused.       *)
SubmitGivesUp(s) ==
  /\ s \in Submitters /\ hand[s] # <<>>
  /\ hand' = [hand EXCEPT ![s] = <<>>]
  /\ Leave(ToSet(hand[s]), "refused")
  /\ UNCHANGED <<returns, cancelled, sent, taskChan, pullPc, loopPc, loopTask,
                 taskQueue, workerPc, workerTask, stopPc, processed>>

(* The puller ends, and with it the tasks it holds.                        *)
PullerExit ==
  /\ pullPc \in {"select", "send"} /\ cancelled
  /\ pullPc' = "exited"
  /\ hand' = [hand EXCEPT ![Puller] = <<>>]
  /\ Leave(ToSet(hand[Puller]), "dropped")
  /\ UNCHANGED <<returns, cancelled, sent, taskChan, loopPc, loopTask, taskQueue,
                 workerPc, workerTask, stopPc, processed>>

--------------------------------------------------------------------------------
(* processEvents and Assign.                                               *)
LoopReceive ==
  /\ loopPc = "select" /\ taskChan # <<>>
  /\ loopTask' = Head(taskChan) /\ taskChan' = Tail(taskChan)
  /\ loopPc' = "assign"
  /\ UNCHANGED <<returns, cancelled, sent, hand, pullPc, taskQueue, workerPc,
                 workerTask, stopPc, processed, gone>>

(* Mutant of LoopAssign. *)
LoopAssignOrDrop ==
  /\ loopPc = "assign"
  /\ taskQueue' = IF Len(taskQueue) < TaskQueueSize THEN Append(taskQueue, loopTask)
                  ELSE taskQueue
  /\ loopTask' = NoTask /\ loopPc' = "select"
  /\ UNCHANGED <<returns, cancelled, sent, hand, taskChan, pullPc, workerPc,
                 workerTask, stopPc, processed, gone>>

LoopAssign ==
  /\ loopPc = "assign" /\ Len(taskQueue) < TaskQueueSize
  /\ taskQueue' = Append(taskQueue, loopTask)
  /\ loopTask' = NoTask /\ loopPc' = "select"
  /\ UNCHANGED <<returns, cancelled, sent, hand, taskChan, pullPc, workerPc,
                 workerTask, stopPc, processed, gone>>

(* The task keeps the error; nobody holds it any more.                     *)
LoopAssignFails ==
  /\ loopPc = "assign" /\ cancelled
  /\ Leave({loopTask}, "dropped")
  /\ loopTask' = NoTask /\ loopPc' = "select"
  /\ UNCHANGED <<returns, cancelled, sent, hand, taskChan, pullPc, taskQueue,
                 workerPc, workerTask, stopPc, processed>>

LoopDone ==
  /\ loopPc = "select" /\ cancelled
  /\ loopPc' = "exited"
  /\ UNCHANGED <<returns, cancelled, sent, hand, taskChan, pullPc, loopTask,
                 taskQueue, workerPc, workerTask, stopPc, processed, gone>>

--------------------------------------------------------------------------------
(* runWorker.                                                              *)
WorkerTake(w) ==
  /\ workerPc[w] = "select" /\ taskQueue # <<>>
  /\ workerTask' = [workerTask EXCEPT ![w] = Head(taskQueue)]
  /\ taskQueue' = Tail(taskQueue)
  /\ workerPc' = [workerPc EXCEPT ![w] = "process"]
  /\ UNCHANGED <<returns, cancelled, sent, hand, taskChan, pullPc, loopPc, loopTask,
                 stopPc, processed, gone>>

(* Process and the state updater; what they return is kept in the task.    *)
WorkerProcess(w) ==
  /\ workerPc[w] = "process"
  /\ processed' = processed \cup {workerTask[w]}
  /\ \/ /\ returns
        /\ workerPc' = [workerPc EXCEPT ![w] = "return"]
        /\ UNCHANGED <<workerTask, gone>>
     \/ /\ ~returns
        /\ workerPc' = [workerPc EXCEPT ![w] = "select"]
        /\ workerTask' = [workerTask EXCEPT ![w] = NoTask]
        /\ Leave({workerTask[w]}, "finished")
  /\ UNCHANGED <<returns, cancelled, sent, hand, taskChan, pullPc, loopPc, loopTask,
                 taskQueue, stopPc>>

(* Mutant of WorkerReturn. *)
WorkerReturnExits(w) ==
  /\ workerPc[w] = "return" /\ Len(taskChan) < QueueSize
  /\ taskChan' = Append(taskChan, workerTask[w])
  /\ workerTask' = [workerTask EXCEPT ![w] = NoTask]
  /\ workerPc' = [workerPc EXCEPT ![w] = "exited"]
  /\ UNCHANGED <<returns, cancelled, sent, hand, pullPc, loopPc, loopTask, taskQueue,
                 stopPc, processed, gone>>

WorkerReturn(w) ==
  /\ workerPc[w] = "return" /\ Len(taskChan) < QueueSize
  /\ taskChan' = Append(taskChan, workerTask[w])
  /\ workerTask' = [workerTask EXCEPT ![w] = NoTask]
  /\ workerPc' = [workerPc EXCEPT ![w] = "select"]
  /\ UNCHANGED <<returns, cancelled, sent, hand, pullPc, loopPc, loopTask, taskQueue,
                 stopPc, processed, gone>>

(* The error of this Send is ignored.                                      *)
WorkerReturnFails(w) ==
  /\ workerPc[w] = "return" /\ cancelled
  /\ Leave({workerTask[w]}, "dropped")
  /\ workerTask' = [workerTask EXCEPT ![w] = NoTask]
  /\ workerPc' = [workerPc EXCEPT ![w] = "select"]
  /\ UNCHANGED <<returns, cancelled, sent, hand, taskChan, pullPc, loopPc, loopTask,
                 taskQueue, stopPc, processed>>

WorkerDone(w) ==
  /\ workerPc[w] = "select" /\ cancelled
  /\ workerPc' = [workerPc EXCEPT ![w] = "exited"]
  /\ UNCHANGED <<returns, cancelled, sent, hand, taskChan, pullPc, loopPc, loopTask,
                 taskQueue, workerTask, stopPc, processed, gone>>

--------------------------------------------------------------------------------
(* Stop cancels the context and waits for the workers, for the puller and  *)
(* for the event loop.  The first two waits end early, with an error, when *)
(* the context of Stop ends.  Stop may then be called again, with the same *)
(* effect.  (Before Start there is nothing to cancel or to wait for.)      *)
WorkflowStop ==
  /\ stopPc = "no" /\ loopPc # "new"
  /\ cancelled' = TRUE /\ stopPc' = "workers"
  /\ UNCHANGED <<returns, sent, hand, taskChan, pullPc, loopPc, loopTask, taskQueue,
                 workerPc, workerTask, processed, gone>>

StopWaited ==
  /\ \/ /\ stopPc = "workers" /\ stopPc' = "puller"
        /\ \A w \in Workers : workerPc[w] = "exited"
     \/ stopPc = "puller" /\ stopPc' = "loop" /\ pullPc = "exited"
     \/ stopPc = "loop" /\ stopPc' = "returned" /\ loopPc = "exited"
  /\ UNCHANGED <<returns, cancelled, sent, hand, taskChan, pullPc, loopPc, loopTask,
                 taskQueue, workerPc, workerTask, processed, gone>>

StopTimesOut ==
  /\ stopPc \in {"workers", "puller"}
  /\ stopPc' = "no"
  /\ UNCHANGED <<returns, cancelled, sent, hand, taskChan, pullPc, loopPc, loopTask,
                 taskQueue, workerPc, workerTask, processed, gone>>

--------------------------------------------------------------------------------
EventLoop == LoopReceive \/ LoopAssign \/ LoopAssignFails \/ LoopDone

RunWorker(w) == \/ WorkerTake(w) \/ WorkerProcess(w) \/ WorkerReturn(w)
                \/ WorkerReturnFails(w) \/ WorkerDone(w)

WorkflowNext ==
  \/ WorkflowStart
  \/ \E s \in Submitters, n \in {1, 2} : WorkflowSubmit(s, n)
  \/ \E n \in {1, 2} : WorkflowPull(n)
  \/ \E s \in Senders : WorkflowSend(s) \/ SubmitGivesUp(s)
  \/ PullerExit \/ EventLoop \/ (\E w \in Workers : RunWorker(w))
  \/ WorkflowStop \/ StopWaited \/ StopTimesOut

--------------------------------------------------------------------------------
(* How often t is held by a sender, a queue, the loop or a worker.         *)
Copies(t) ==
  Cardinality({p \in Senders \X (1 .. MaxTasks) :
                 p[2] <= Len(hand[p[1]]) /\ hand[p[1]][p[2]] = t})
  + Cardinality({i \in DOMAIN taskChan : taskChan[i] = t})
  + Cardinality({i \in DOMAIN taskQueue : taskQueue[i] = t})
  + (IF loopTask = t THEN 1 ELSE 0)
  + Cardinality({w \in Workers : workerTask[w] = t})

(* No task is lost or handled by two workers at once: one that has been    *)
(* sent is in one place until it has left the flow.  Tasks are dropped     *)
(* only by Stop.                                                           *)
TaskInOnePlace ==
  /\ \A t \in Tasks : Copies(t) = IF t > sent \/ t \in DOMAIN gone THEN 0 ELSE 1
  /\ (\E t \in DOMAIN gone : gone[t] = "dropped") => cancelled

(* The number of tasks the flow can hold without blocking itself: with one *)
(* more, every queue and every hand may be full, and the loop waits for    *)
(* the workers, which wait for the loop.                                   *)
FlowCapacity == QueueSize + TaskQueueSize + Cardinality(Workers)

(* With no more than FlowCapacity tasks every task that was sent is        *)
(* processed, unless the workflow is stopped, although the workers feed    *)
(* the queue that feeds them.                                              *)
AllProcessed ==
  MaxTasks <= FlowCapacity =>
    (cancelled \/ \A t \in Tasks : \/ t > sent \/ t \in processed \cup DOMAIN gone
                                   \/ \E s \in Senders : t \in ToSet(hand[s])
                                   \/ loopPc = "new")

(* Nobody is inside Stop, which ends whatever the queues hold and whoever  *)
(* is blocked on them.                                                     *)
WorkflowStopped == stopPc \in {"no", "returned"}
================================================================================
