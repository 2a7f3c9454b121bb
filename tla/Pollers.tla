--------------------------------- MODULE Pollers -------------------------------
(***************************************************************************)
(* PollingManager of efflux/polling.go: pollers that run under an ID until *)
(* they are stopped or stop themselves.  The registry is keyed by ID, and  *)
(* a poller that ends, like a StopPoller that has waited too long, removes *)
(* whatever the registry has under that ID.                                *)
(*                                                                         *)
(* A poller is known by the number of its RunPoller call.  Tickers always  *)
(* fire; results are only counted, in the channel they are sent to.        *)
(***************************************************************************)
EXTENDS Integers, Sequences

CONSTANTS
  PollerIDs,
  MaxPollers,   (* bound: of RunPoller calls                                *)
  Stoppers,     (* goroutines that call StopPoller                          *)
  MaxRetries,   (* bound: of the MaxRetries of a poller                     *)
  ChannelSize   (* ResultChannelSize                                        *)

ASSUME PollersAssumption ==
  /\ MaxPollers \in Nat /\ MaxRetries \in Nat /\ ChannelSize \in Nat

Unregistered == 0
Retries == -1 .. MaxRetries    \* a negative number: unlimited

VARIABLES
  registry,       (* pm.pollers: the number of the poller, or Unregistered   *)
  managerDone,    (* Close has cancelled pm.ctx                              *)
  pollers,        (* id, state, cancelled (its context), maxRetries, attempt *)
                  (* and results (how many its channel holds) of each one    *)
  stopTarget,     (* the poller each StopPoller waits for                    *)
  stopExpired     (* history: a StopPoller has ended with its context        *)

pollersVars == <<registry, managerDone, pollers, stopTarget, stopExpired>>

PollersInit ==
  /\ registry = [id \in PollerIDs |-> Unregistered]
  /\ managerDone = FALSE /\ pollers = <<>>
  /\ stopTarget = [s \in Stoppers |-> Unregistered]
  /\ stopExpired = FALSE

(* The number of attempts counts within one poll cycle.                    *)
Move(i, state) ==
  pollers' = [pollers EXCEPT ![i].state = state,
                             ![i].attempt = IF state = "backoff" THEN @ ELSE 0]

RunPoller(id, max) ==
  /\ Len(pollers) < MaxPollers
  /\ registry[id] = Unregistered
  /\ pollers' = Append(pollers, [id |-> id, state |-> "select", cancelled |-> managerDone,
                                 maxRetries |-> max, attempt |-> 0, results |-> 0])
  /\ registry' = [registry EXCEPT ![id] = Len(pollers')]
  /\ UNCHANGED <<managerDone, stopTarget, stopExpired>>

(* StopPoller looks the poller up and cancels its context, ...             *)
StopPoller(s, id) ==
  /\ stopTarget[s] = Unregistered /\ registry[id] # Unregistered
  /\ stopTarget' = [stopTarget EXCEPT ![s] = registry[id]]
  /\ pollers' = [pollers EXCEPT ![registry[id]].cancelled = TRUE]
  /\ UNCHANGED <<registry, managerDone, stopExpired>>

(* ... waits for its end, ...                                              *)
StopReturns(s) ==
  /\ stopTarget[s] # Unregistered
  /\ pollers[stopTarget[s]].state = "done"
  /\ stopTarget' = [stopTarget EXCEPT ![s] = Unregistered]
  /\ UNCHANGED <<registry, managerDone, pollers, stopExpired>>

(* ... and removes the ID when its context ends before.                    *)
StopExpires(s) ==
  /\ stopTarget[s] # Unregistered
  /\ registry' = [registry EXCEPT ![pollers[stopTarget[s]].id] = Unregistered]
  /\ stopTarget' = [stopTarget EXCEPT ![s] = Unregistered]
  /\ stopExpired' = TRUE
  /\ UNCHANGED <<managerDone, pollers>>

(* Close cancels the context of the manager, then calls StopPoller for     *)
(* each ID, as StopAll does.                                               *)
CloseManager ==
  /\ ~managerDone
  /\ managerDone' = TRUE
  /\ pollers' = [i \in DOMAIN pollers |-> [pollers[i] EXCEPT !.cancelled = TRUE]]
  /\ UNCHANGED <<registry, stopTarget, stopExpired>>

--------------------------------------------------------------------------------
(* runPoller.                                                              *)
PollerTick(i) ==
  /\ pollers[i].state = "select"
  /\ Move(i, "poll")
  /\ UNCHANGED <<registry, managerDone, stopTarget, stopExpired>>

PollerDone(i) ==
  /\ pollers[i].state = "select" /\ pollers[i].cancelled
  /\ Move(i, "cleanup")
  /\ UNCHANGED <<registry, managerDone, stopTarget, stopExpired>>

(* Poll succeeds, with or without results, or says to stop.  The results   *)
(* go to the channel, if there is room; a poller whose context has ended   *)
(* may skip this, and then does not stop.                                  *)
PollSucceeds(i, found, shouldStop) ==
  /\ pollers[i].state = "poll"
  /\ \/ pollers' = [pollers EXCEPT
           ![i].state = IF shouldStop THEN "cleanup" ELSE "select",
           ![i].attempt = 0,
           ![i].results = IF found /\ @ < ChannelSize THEN @ + 1 ELSE @]
     \/ found /\ ChannelSize > 0 /\ pollers[i].cancelled /\ Move(i, "select")
  /\ UNCHANGED <<registry, managerDone, stopTarget, stopExpired>>

(* Poll fails: it is retried after a backoff, unless the retries are used  *)
(* up or the backoff is zero.                                              *)
PollFails(i) ==
  /\ pollers[i].state = "poll"
  /\ \/ pollers[i].maxRetries < 0 /\ Move(i, "backoff")
     \/ /\ pollers[i].attempt < pollers[i].maxRetries
        /\ Move(i, "backoff")
     \/ Move(i, "select")
  /\ UNCHANGED <<registry, managerDone, stopTarget, stopExpired>>

Retry(i) ==
  /\ pollers[i].state = "backoff"
  /\ pollers' = [pollers EXCEPT
       ![i].state = "poll",
       ![i].attempt = IF pollers[i].maxRetries < 0 THEN 0 ELSE @ + 1]
  /\ UNCHANGED <<registry, managerDone, stopTarget, stopExpired>>

(* Mutant of BackoffDone. *)
BackoffGoesOn(i) ==
  /\ pollers[i].state = "backoff" /\ pollers[i].cancelled
  /\ Move(i, "poll")
  /\ UNCHANGED <<registry, managerDone, stopTarget, stopExpired>>

BackoffDone(i) ==
  /\ pollers[i].state = "backoff" /\ pollers[i].cancelled
  /\ Move(i, "select")
  /\ UNCHANGED <<registry, managerDone, stopTarget, stopExpired>>

(* Poll or a callback panics.                                              *)
PollPanics(i) ==
  /\ pollers[i].state = "poll"
  /\ Move(i, "cleanup")
  /\ UNCHANGED <<registry, managerDone, stopTarget, stopExpired>>

(* Mutant of CleanUp. *)
CleanUpKeepsEntry(i) ==
  /\ pollers[i].state = "cleanup"
  /\ Move(i, "done")
  /\ UNCHANGED <<registry, managerDone, stopTarget, stopExpired>>

(* The deferred calls: the ID is removed, the channel is closed, and those *)
(* who wait for the end see it.                                            *)
CleanUp(i) ==
  /\ pollers[i].state = "cleanup"
  /\ registry' = [registry EXCEPT ![pollers[i].id] = Unregistered]
  /\ Move(i, "done")
  /\ UNCHANGED <<managerDone, stopTarget, stopExpired>>

(* A client receives results.                                              *)
ReceiveResults(i) ==
  /\ pollers[i].results > 0
  /\ pollers' = [pollers EXCEPT ![i].results = @ - 1]
  /\ UNCHANGED <<registry, managerDone, stopTarget, stopExpired>>

(* What the goroutine of poller i does.                                    *)
PollerStep(i) ==
  \/ PollerTick(i) \/ PollerDone(i)
  \/ \E found, shouldStop \in BOOLEAN : PollSucceeds(i, found, shouldStop)
  \/ PollFails(i) \/ Retry(i) \/ BackoffDone(i) \/ PollPanics(i) \/ CleanUp(i)

PollersNext ==
  \/ \E id \in PollerIDs, max \in Retries : RunPoller(id, max)
  \/ \E s \in Stoppers : \/ \E id \in PollerIDs : StopPoller(s, id)
                         \/ StopReturns(s) \/ StopExpires(s)
  \/ CloseManager
  \/ \E i \in DOMAIN pollers : PollerStep(i) \/ ReceiveResults(i)

--------------------------------------------------------------------------------
(* The registry is true to the pollers.  What it holds under an ID is a    *)
(* poller of that ID that has not ended.  And as long as no StopPoller has *)
(* run out of time, a poller that has not ended is registered: there is at *)
(* most one under each ID, and IsRunning sees it.  (After that it need not *)
(* be: the end of the old poller of an ID removes the new one's entry.)    *)
RegistryExact ==
  /\ \A id \in PollerIDs : registry[id] # Unregistered =>
       pollers[registry[id]].id = id /\ pollers[registry[id]].state # "done"
  /\ ~stopExpired => \A i \in DOMAIN pollers :
       pollers[i].state # "done" => registry[pollers[i].id] = i

(* After Close every poller ends, the ones that are not registered any     *)
(* more, too.                                                              *)
PollersEnded == managerDone => \A i \in DOMAIN pollers : pollers[i].state = "done"
================================================================================
