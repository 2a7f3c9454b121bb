--------------------------------- MODULE Runners -------------------------------
(***************************************************************************)
(* The components that run things in goroutines of their own: the flush    *)
(* buffer, the event-based workflow, the pollers, the worker pool and the  *)
(* jobs of package efflux, the scheduler, the state machine, the triggers  *)
(* and the Kafka producers and consumer.  They share nothing: a behavior   *)
(* is one of one of them, "part", while the others stay new.               *)
(***************************************************************************)
EXTENDS FlushBuffer, EventWorkflow, Pollers, OneTimePoller, WorkerPool, Job,
        Scheduler, StateMachine, Triggers, KafkaProducer, KafkaConsumer

VARIABLE part

allVars == <<part, vars, workflowVars, pollersVars, oneTimeVars, workerPoolVars, jobVars,
             schedulerVars, stateVars, triggerVars, kafkaProducerVars, kafkaConsumerVars>>

Parts == {"buffer", "workflow", "pollers", "onetime", "pool", "job", "scheduler", "states",
          "triggers", "producer", "consumer"}

(* What is not used has some configuration.                                *)
RunnersInit ==
  /\ part \in Parts
  /\ Init /\ WorkflowInit /\ PollersInit /\ OneTimeInit /\ PoolInit /\ JobInit
  /\ SchedulerInit /\ StateMachineInit /\ TriggersInit /\ KafkaProducerInit
  /\ KafkaConsumerInit
  /\ part # "triggers" =>
       \A t \in TriggerIDs : kind[t].priority = 1 /\ ~kind[t].once
                               /\ kind[t].type = CHOOSE e \in EventTypes : TRUE
  /\ part # "workflow" => ~returns
  /\ part # "onetime" => ~config.timed /\ config.retries = 0
  /\ part # "producer" => mode = "sync"

(* A step of one part, which leaves all the others alone.                  *)
Leaves(p, variables) == IF part = p THEN TRUE ELSE UNCHANGED variables
In(p, A) ==
  /\ part = p /\ A
  /\ UNCHANGED part
  /\ Leaves("buffer", vars) /\ Leaves("workflow", workflowVars)
  /\ Leaves("pollers", pollersVars) /\ Leaves("onetime", oneTimeVars)
  /\ Leaves("pool", workerPoolVars) /\ Leaves("job", jobVars)
  /\ Leaves("scheduler", schedulerVars) /\ Leaves("states", stateVars)
  /\ Leaves("triggers", triggerVars) /\ Leaves("producer", kafkaProducerVars)
  /\ Leaves("consumer", kafkaConsumerVars)

RunnersNext ==
  \/ In("buffer", Next)         \/ In("workflow", WorkflowNext)
  \/ In("pollers", PollersNext) \/ In("onetime", OneTimeNext)
  \/ In("pool", WorkerPoolNext) \/ In("job", JobNext)
  \/ In("scheduler", SchedulerNext) \/ In("states", StateMachineNext)
  \/ In("triggers", TriggersNext)
  \/ In("producer", KafkaProducerNext) \/ In("consumer", KafkaConsumerNext)

(* A select picks among its ready cases at random, so that it does not     *)
(* prefer the others to Done forever.  Each of these happens only once for *)
(* each goroutine: that one of them is taken when it can be taken again    *)
(* and again says the same of all.  (A backoff may end so more than once.) *)
SeesDone ==
  \/ In("buffer", LoopExit)
  \/ In("workflow", LoopDone \/ PullerExit \/ \E w \in Workers : WorkerDone(w))
  \/ In("pollers", \E i \in DOMAIN pollers : PollerDone(i))
  \/ In("onetime", RunEnds)
  \/ In("pool", \E w \in Workplaces : PoolWorkerExits(w))
  \/ In("job", \E i \in DOMAIN jobRuns : JobDone(i))
  \/ In("consumer", ClaimReturns)

(* Whoever can go on goes on: the goroutines of the components and the     *)
(* functions they call, and the calls that wait for them.  Nobody has to   *)
(* call anything; timers and tickers fire.                                 *)
RunnersFairness ==
  /\ SF_allVars(SeesDone)
  /\ SF_allVars(In("pollers", \E i \in DOMAIN pollers : BackoffDone(i)))
  /\ SF_allVars(In("onetime", BackoffCancelled))
  /\ WF_allVars(In("buffer", FlushLoop))
  /\ \A c \in Clients :
       /\ WF_allVars(In("buffer", \E ok \in BOOLEAN : ClientFlushed(c, ok) \/ StopFlushed(c, ok)))
       /\ WF_allVars(In("buffer", StopFlush(c)))
  /\ WF_allVars(In("workflow", EventLoop)) /\ WF_allVars(In("workflow", StopWaited))
  /\ \A s \in Senders : WF_allVars(In("workflow", WorkflowSend(s)))
  /\ \A w \in Workers : WF_allVars(In("workflow", RunWorker(w)))
  /\ \A i \in 1 .. MaxPollers :
       WF_allVars(In("pollers", i \in DOMAIN pollers /\ PollerStep(i)))
  /\ WF_allVars(In("onetime", run.at # "idle" /\ OneTimeStep))
  /\ \A w \in Workplaces : WF_allVars(In("pool", PoolWorker(w)))
  /\ WF_allVars(In("pool", PoolStopped \/ PoolClose))
  /\ \A i \in 1 .. MaxJobStarts : WF_allVars(In("job", JobStep(i)))
  /\ WF_allVars(In("job", JobStopped))
  /\ \A f \in Firers : WF_allVars(In("triggers", FirerStep(f)))
  /\ WF_allVars(In("triggers", WriterWrites))
  /\ \A c \in KafkaClients : WF_allVars(In("producer", ClientGoesOn(c)))
  /\ \A h \in Reports : WF_allVars(In("producer", HandlerStep(h)))
  /\ WF_allVars(In("producer", LibraryStep)) /\ WF_allVars(In("consumer", ConsumeStep))

RunnersSpec == RunnersInit /\ [][RunnersNext]_allVars /\ RunnersFairness

--------------------------------------------------------------------------------
(* FlushBuffer: the buffer stays within its capacity, every item is in one *)
(* place, in order, and Stop leaves nothing of what the buffer held.       *)
BufferExact == part = "buffer" => Bounded /\ Conserved /\ OrderKept /\ StopDrains

(* EventWorkflow: every task is in one place.                              *)
TasksExact == part = "workflow" => TaskInOnePlace

(* Pollers: the registry and the pollers agree.  OneTimePoller: the result *)
(* says why the run ended.                                                 *)
PollersExact ==
  /\ part = "pollers" => RegistryExact
  /\ part = "onetime" => ResultExact

(* WorkerPool: what Submit returns is true.  KafkaProducer, KafkaConsumer: *)
(* what was accepted is reported, what was committed was handled.          *)
SubmitExact ==
  /\ part = "pool" => SubmitTruthful
  /\ part = "producer" => ProducerExact
  /\ part = "consumer" => AtLeastOnce

(* Scheduler: no task is forgotten, and none runs in more chains or more   *)
(* often than it was started.                                              *)
ScheduleExact == part = "scheduler" => NotForgotten /\ NoExtraRuns

(* StateMachine: what was entered is left.                                 *)
HooksExact == part = "states" => HooksBalanced

(* Triggers: what is to execute once does.                                 *)
OnceExact == part = "triggers" => OnceUnlessOverlapping

(* FlushBuffer and EventWorkflow: what the timer has to flush gets flushed *)
(* and what was sent gets processed.                                       *)
WorkGetsDone ==
  <>[](IF part = "buffer" THEN NothingWaits ELSE part = "workflow" => AllProcessed)

(* Every Stop and Close comes to its end, with the goroutines it waits     *)
(* for, and every event, unless the chain of events it is in waits for a   *)
(* writer.                                                                 *)
EverythingEnds ==
  []<>(CASE part = "buffer"   -> NoStopWaits
         [] part = "workflow" -> WorkflowStopped
         [] part = "pollers"  -> PollersEnded
         [] part = "onetime"  -> OneTimeEnds
         [] part = "pool"     -> PoolStopReturns
         [] part = "job"      -> JobStops
         [] part = "triggers" -> EventsEndOrChainWaits
         [] part = "producer" -> ProducerEnds
         [] part = "consumer" -> ClaimEnds
         [] OTHER             -> TRUE)
================================================================================
