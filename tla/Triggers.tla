-------------------------------- MODULE Triggers -------------------------------
(***************************************************************************)
(* Trigger manager of trigger/manager.go and trigger/trigger.go.  An event *)
(* is processed by the goroutine that fires it, which holds the manager's  *)
(* RWMutex for reading all the time: several events are processed          *)
(* together, and an action may fire another event, under a second read     *)
(* lock of the same goroutine.  Registrations lock it for writing; a       *)
(* writer that waits keeps new readers out.                                *)
(*                                                                         *)
(* Actions and listeners may succeed or fail; conditions, and Enabled,     *)
(* which the user sets without a lock, may be true or false at every look. *)
(***************************************************************************)
EXTENDS Integers, Sequences, SequencesExt

CONSTANTS
  TriggerIDs,
  EventTypes,
  Firers,           (* goroutines that fire events: callers, timers, tickers *)
  MaxFired,         (* bound: events fired                                   *)
  MaxDepth,         (* bound: events a goroutine processes inside each other *)
  MaxWrites         (* bound: registrations, unregistrations, new listeners  *)

ASSUME TriggersAssumption ==
  /\ "none" \notin TriggerIDs
  /\ MaxFired \in Nat /\ MaxDepth \in Nat /\ MaxWrites \in Nat

Priorities == 1..2

VARIABLES
  kind,          (* of each trigger, as built: type, priority, once          *)
  registered,    (* the triggers the manager has                             *)
  executed,      (* of each trigger                                          *)
  stack,         (* of each firer, the events it is processing, innermost    *)
                 (* last: event; at; left: triggers to be matched; matching: *)
                 (* triggers to be executed; trigger: the one executed       *)
  writer,        (* "none", or "waiting" for or holding the write lock       *)
  stopped,       (* the manager's context is done                            *)
  fired, writes, (* history: events, writers                                 *)
  runs,          (* history: of each trigger, executions since the Reset     *)
  overlapping    (* history: triggers executed again while being executed    *)

triggerVars == <<kind, registered, executed, stack, writer, stopped, fired, writes,
                 runs, overlapping>>
lockVars == <<registered, writer, writes, kind, stopped>>

TriggersInit ==
  /\ kind \in [TriggerIDs -> [type : EventTypes, priority : Priorities, once : BOOLEAN]]
  /\ registered = {} /\ executed = [t \in TriggerIDs |-> FALSE]
  /\ stack = [f \in Firers |-> <<>>]
  /\ writer = "none" /\ stopped = FALSE /\ fired = 0 /\ writes = 0
  /\ runs = [t \in TriggerIDs |-> 0] /\ overlapping = {}

At(f, at) == stack[f] # <<>> /\ Last(stack[f]).at = at
Top(f, frame) == [stack EXCEPT ![f] = Append(Front(@), frame)]

(* The innermost event of f ends.  An error of the event an action fires   *)
(* is the action's own.                                                    *)
Ended(f, failed) ==
  LET outer == Front(stack[f])
  IN  [stack EXCEPT ![f] =
         IF outer = <<>> \/ ~failed THEN outer
         ELSE Append(Front(outer), [Last(outer) EXCEPT !.at = "failed"])]

--------------------------------------------------------------------------------
(* RegisterTrigger, UnregisterTrigger and AddEventListener: Lock, ...      *)
WriterLocks ==
  /\ writer = "none" /\ writes < MaxWrites
  /\ writer' = "waiting" /\ writes' = writes + 1
  /\ UNCHANGED <<kind, registered, executed, stack, stopped, fired, runs, overlapping>>

(* ... which waits for the readers that have the lock.                     *)
WriterWrites ==
  /\ writer = "waiting"
  /\ \A f \in Firers : \A i \in DOMAIN stack[f] : stack[f][i].at = "lock"
  /\ \/ \E t \in TriggerIDs : registered' \in {registered \cup {t}, registered \ {t}}
     \/ UNCHANGED registered
  /\ writer' = "none"
  /\ UNCHANGED <<kind, executed, stack, stopped, fired, writes, runs, overlapping>>

StopManager ==
  /\ ~stopped
  /\ stopped' = TRUE
  /\ UNCHANGED <<kind, registered, executed, stack, writer, fired, writes, runs, overlapping>>

ResetTrigger(t) ==
  /\ executed[t]
  /\ executed' = [executed EXCEPT ![t] = FALSE]
  /\ runs' = [runs EXCEPT ![t] = 0]
  /\ UNCHANGED <<kind, registered, stack, writer, stopped, fired, writes, overlapping>>

(* FireEvent, by a firer or by the action it executes.  A call after Stop  *)
(* is refused; in an action, that is the action's error.                   *)
FireEvent(f, e) ==
  /\ stack[f] = <<>> \/ At(f, "act")
  /\ ~stopped /\ fired < MaxFired /\ Len(stack[f]) < MaxDepth
  /\ stack' = [stack EXCEPT ![f] =
                 Append(@, [event |-> e, at |-> "lock", left |-> {}, matching |-> {},
                            trigger |-> "none"])]
  /\ fired' = fired + 1
  /\ UNCHANGED <<lockVars, executed, runs, overlapping>>

(* processEvent: RLock, ...                                                *)
ReaderLocks(f) ==
  /\ At(f, "lock") /\ writer = "none"
  /\ stack' = Top(f, [Last(stack[f]) EXCEPT !.at = "match", !.left = registered])
  /\ UNCHANGED <<lockVars, executed, fired, runs, overlapping>>

CanExecute(t, e) == kind[t].type = e /\ ~(kind[t].once /\ executed[t])

(* ... collecting the triggers that can execute, one after the other, ...  *)
MatchTrigger(f) ==
  /\ At(f, "match")
  /\ LET frame == Last(stack[f])
     IN  \/ \E t \in frame.left :
              LET rest == [frame EXCEPT !.left = @ \ {t}]
              IN  \/ stack' = Top(f, rest)
                  \/ /\ CanExecute(t, frame.event)
                     /\ stack' = Top(f, [rest EXCEPT !.matching = @ \cup {t}])
         \/ /\ frame.left = {}
            /\ stack' = Top(f, [frame EXCEPT !.at = "run"])
  /\ UNCHANGED <<lockVars, executed, fired, runs, overlapping>>

Executing(t) ==
  \E f \in Firers : \E i \in DOMAIN stack[f] : stack[f][i].trigger = t

(* Mutant of ExecuteTrigger: Execute does not look again. *)
ExecuteTriggerUnchecked(f) ==
  /\ At(f, "run")
  /\ LET frame == Last(stack[f])
     IN  \E t \in frame.matching :
           /\ \A u \in frame.matching : kind[u].priority <= kind[t].priority
           /\ stack' = Top(f, [frame EXCEPT !.at = "act", !.matching = @ \ {t},
                                            !.trigger = t])
           /\ overlapping' = IF Executing(t) THEN overlapping \cup {t} ELSE overlapping
  /\ UNCHANGED <<lockVars, executed, fired, runs>>

(* ... and executing them, highest priority first.  Execute looks again    *)
(* whether the trigger can; if not, it is an error, and ends the event.    *)
ExecuteTrigger(f) ==
  /\ At(f, "run")
  /\ LET frame == Last(stack[f])
     IN  \E t \in frame.matching :
           /\ \A u \in frame.matching : kind[u].priority <= kind[t].priority
           /\ \/ /\ CanExecute(t, frame.event)
                 /\ stack' = Top(f, [frame EXCEPT !.at = "act", !.matching = @ \ {t},
                                                  !.trigger = t])
                 /\ overlapping' = IF Executing(t) THEN overlapping \cup {t}
                                                   ELSE overlapping
              \/ /\ stack' = Ended(f, TRUE)
                 /\ UNCHANGED overlapping
  /\ UNCHANGED <<lockVars, executed, fired, runs>>

(* The actions succeed, and a trigger that is to execute once is marked, ... *)
ActionsDone(f) ==
  /\ At(f, "act")
  /\ LET frame == Last(stack[f])
         t == frame.trigger
     IN  /\ stack' = Top(f, [frame EXCEPT !.at = "run", !.trigger = "none"])
         /\ executed' = [executed EXCEPT ![t] = @ \/ kind[t].once]
         /\ runs' = [runs EXCEPT ![t] = IF kind[t].once THEN @ + 1 ELSE @]
  /\ UNCHANGED <<lockVars, fired, overlapping>>

(* ... or one fails, and ends the event.                                   *)
ActionFails(f) ==
  /\ At(f, "act") \/ At(f, "failed")
  /\ stack' = Ended(f, TRUE)
  /\ UNCHANGED <<lockVars, executed, fired, runs, overlapping>>

(* All triggers are executed: the listeners are called.                    *)
CallListeners(f) ==
  /\ At(f, "run") /\ Last(stack[f]).matching = {}
  /\ \E failed \in BOOLEAN : stack' = Ended(f, failed)
  /\ UNCHANGED <<lockVars, executed, fired, runs, overlapping>>

FirerStep(f) ==
  \/ ReaderLocks(f) \/ MatchTrigger(f) \/ ExecuteTrigger(f) \/ ActionsDone(f)
  \/ ActionFails(f) \/ CallListeners(f)

TriggersNext ==
  \/ WriterLocks \/ WriterWrites \/ StopManager
  \/ \E t \in TriggerIDs : ResetTrigger(t)
  \/ \E f \in Firers : FirerStep(f) \/ \E e \in EventTypes : FireEvent(f, e)

TriggersSpec ==
  /\ TriggersInit /\ [][TriggersNext]_triggerVars
  /\ \A f \in Firers : WF_triggerVars(FirerStep(f))
  /\ WF_triggerVars(WriterWrites)

--------------------------------------------------------------------------------
(* A trigger that is to execute once executes a second time only if a      *)
(* second event, or one its own actions fire, meets it while it is being   *)
(* executed: never because it was matched before the first execution ended *)
(* and executed after it.                                                  *)
OnceUnlessOverlapping == \A t \in TriggerIDs : runs[t] > 1 => t \in overlapping

(* Every event is processed to its end, though triggers are registered and *)
(* actions fire further events: what trigger/README.md promises, but an    *)
(* action that fires an event waits for a writer that waits for the event  *)
(* of the action.                                                          *)
EventsEnd == []<>(\A f \in Firers : stack[f] = <<>>)

(* That is the only way events may fail to end.                            *)
EventsEndOrChainWaits ==
  \/ \A f \in Firers : stack[f] = <<>>
  \/ writer = "waiting" /\ \E f \in Firers : Len(stack[f]) > 1 /\ At(f, "lock")
================================================================================
