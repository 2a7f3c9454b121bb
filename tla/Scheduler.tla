-------------------------------- MODULE Scheduler ------------------------------
(***************************************************************************)
(* Scheduler of scheduler/scheduler.go: a task has a timer whose callback, *)
(* executeTask, starts the handler and arms a new timer, or removes a task *)
(* that is to run once.  The callback holds the lock twice, and in between *)
(* the task may be removed or replaced, or the scheduler be stopped and    *)
(* started again.                                                          *)
(*                                                                         *)
(* A task is known by the number of its registration.  Interval and cron   *)
(* tasks differ in nothing but the time; timers always fire.               *)
(***************************************************************************)
EXTENDS Integers, Sequences

CONSTANTS
  TaskIDs,
  MaxRegistrations,   (* bound                                              *)
  MaxStarts,          (* bound: of calls of Start                           *)
  MaxRuns             (* bound: how often a handler is started              *)

ASSUME SchedulerAssumption ==
  MaxRegistrations \in Nat /\ MaxStarts \in Nat /\ MaxRuns \in Nat

NotRegistered == 0

VARIABLES
  scheduled,   (* s.tasks: the number registered under each ID              *)
  running,
  starts,      (* history: calls of Start                                   *)
  tasks        (* the registrations: id; oneTime; timer: the timer the task *)
               (* points to is armed; others: how many timers of it that it *)
               (* does not point to are armed; fired, executing: callbacks  *)
               (* before and after their look at running; runs, and         *)
               (* retired (history): starts of the handler, and whether the *)
               (* task was removed while nothing of it was under way        *)

schedulerVars == <<scheduled, running, starts, tasks>>

SchedulerInit ==
  /\ scheduled = [id \in TaskIDs |-> NotRegistered]
  /\ running = FALSE /\ starts = 0 /\ tasks = <<>>

(* time.AfterFunc: the task no longer points to the timer it had.          *)
Arm(t) == [t EXCEPT !.timer = TRUE, !.others = IF t.timer THEN @ + 1 ELSE @]

(* RegisterIntervalTask, RegisterCronTask and RegisterOneOffTask.  What    *)
(* was registered under the ID is forgotten, and its timer left alone.     *)
Register(id, oneTime) ==
  /\ Len(tasks) < MaxRegistrations
  /\ tasks' = Append(tasks, [id |-> id, oneTime |-> oneTime, timer |-> running,
                             others |-> 0, fired |-> 0, executing |-> 0, runs |-> 0,
                             retired |-> FALSE])
  /\ scheduled' = [scheduled EXCEPT ![id] = Len(tasks')]
  /\ UNCHANGED <<running, starts>>

Registered(i) == scheduled[tasks[i].id] = i

StartScheduler ==
  /\ ~running /\ starts < MaxStarts
  /\ running' = TRUE /\ starts' = starts + 1
  /\ tasks' = [i \in DOMAIN tasks |-> IF Registered(i) THEN Arm(tasks[i]) ELSE tasks[i]]
  /\ UNCHANGED scheduled

StopScheduler ==
  /\ running
  /\ running' = FALSE
  /\ tasks' = [i \in DOMAIN tasks |-> IF Registered(i) THEN [tasks[i] EXCEPT !.timer = FALSE]
                                      ELSE tasks[i]]
  /\ UNCHANGED <<scheduled, starts>>

RemoveTask(id) ==
  LET i == scheduled[id]
  IN  /\ i # NotRegistered
      /\ scheduled' = [scheduled EXCEPT ![id] = NotRegistered]
      /\ tasks' = [tasks EXCEPT
           ![i].timer = FALSE,
           ![i].retired = tasks[i].others + tasks[i].fired + tasks[i].executing = 0]
      /\ UNCHANGED <<running, starts>>

--------------------------------------------------------------------------------
(* A timer fires and calls executeTask, ...                                *)
TimerFires(i) ==
  /\ \/ /\ tasks[i].timer
        /\ tasks' = [tasks EXCEPT ![i].timer = FALSE, ![i].fired = @ + 1]
     \/ /\ tasks[i].others > 0
        /\ tasks' = [tasks EXCEPT ![i].others = @ - 1, ![i].fired = @ + 1]
  /\ UNCHANGED <<scheduled, running, starts>>

(* ... which starts the handler if the scheduler is running, ...           *)
ExecuteTask(i) ==
  /\ tasks[i].fired > 0
  /\ \/ /\ running /\ tasks[i].runs < MaxRuns
        /\ tasks' = [tasks EXCEPT ![i].fired = @ - 1, ![i].executing = @ + 1,
                                  ![i].runs = @ + 1]
     \/ /\ ~running
        /\ tasks' = [tasks EXCEPT ![i].fired = @ - 1]
  /\ UNCHANGED <<scheduled, running, starts>>

(* Mutant of Reschedule. *)
RescheduleOneTime(i) ==
  /\ tasks[i].executing > 0
  /\ LET ended == [tasks[i] EXCEPT !.executing = @ - 1]
     IN  /\ tasks' = [tasks EXCEPT ![i] = IF running THEN Arm(ended) ELSE ended]
         /\ scheduled' = scheduled
  /\ UNCHANGED <<running, starts>>

(* ... and removes whatever has the ID of a task that is to run once, or   *)
(* arms the next timer, whether or not the task is still registered.       *)
Reschedule(i) ==
  /\ tasks[i].executing > 0
  /\ LET ended == [tasks[i] EXCEPT !.executing = @ - 1]
     IN  \/ /\ tasks[i].oneTime
            /\ scheduled' = [scheduled EXCEPT ![tasks[i].id] = NotRegistered]
            /\ tasks' = [tasks EXCEPT ![i] = ended]
         \/ /\ ~tasks[i].oneTime
            /\ tasks' = [tasks EXCEPT ![i] = IF running THEN Arm(ended) ELSE ended]
            /\ UNCHANGED scheduled
  /\ UNCHANGED <<running, starts>>

SchedulerNext ==
  \/ \E id \in TaskIDs : \/ \E oneTime \in BOOLEAN : Register(id, oneTime)
                         \/ RemoveTask(id)
  \/ StartScheduler \/ StopScheduler
  \/ \E i \in DOMAIN tasks : TimerFires(i) \/ ExecuteTask(i) \/ Reschedule(i)

--------------------------------------------------------------------------------
(* What of task i is armed or under way.                                   *)
Chains(i) == (IF tasks[i].timer THEN 1 ELSE 0) + tasks[i].others + tasks[i].fired
               + tasks[i].executing

(* While the scheduler runs, no registered task is forgotten: it has a     *)
(* timer or a callback, however stops, starts and removals of others of    *)
(* its ID met its callbacks.                                               *)
NotForgotten ==
  running => \A i \in DOMAIN tasks : Registered(i) => Chains(i) > 0

(* Only a start adds to the chains of timers a task runs in, or to the     *)
(* times a task runs that is to run once: a callback never does.  A task   *)
(* that was removed while nothing of it was under way is silent for ever.  *)
NoExtraRuns ==
  \A i \in DOMAIN tasks :
    /\ Chains(i) <= starts
    /\ tasks[i].oneTime => tasks[i].runs <= starts
    /\ tasks[i].retired => Chains(i) = 0
================================================================================
