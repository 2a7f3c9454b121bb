------------------------------ MODULE StateMachine -----------------------------
(***************************************************************************)
(* State machine of state/statemachine.go.  SendEvent holds the mutex      *)
(* three times, for choosing the next state, for finding it and for making *)
(* it the current one, and calls the hooks OnExit and OnEnter of the       *)
(* states in between without it.                                           *)
(*                                                                         *)
(* Events and data are abstracted to the state an event leads to.          *)
(***************************************************************************)
EXTENDS Integers, FiniteSets

CONSTANTS
  StateIDs,
  EventSenders,   (* goroutines that call SendEvent                         *)
  MaxEvents,      (* bound: events that lead to another state               *)
  MaxInitializations  (* bound: of calls of Initialize                      *)

NoState == "none"

ASSUME StateMachineAssumption ==
  /\ MaxEvents \in Nat /\ MaxInitializations \in Nat
  /\ NoState \notin StateIDs /\ IsFiniteSet(EventSenders)

VARIABLES
  states,         (* sm.states                                              *)
  initialState,
  currentState,
  senders,        (* of each client: at, and the two states of its event    *)
  inside,         (* history: of each state, calls of OnEnter that returned *)
                  (* no error less calls of OnExit that returned no error   *)
  balance,        (* history: the same of all states together               *)
  events,         (* history: events sent                                   *)
  failedEnters,   (* history: calls of OnEnter that returned an error       *)
  initializations,  (* history: calls of Initialize                         *)
  disturbed       (* history: two events were under way together, or the    *)
                  (* machine was initialized again                          *)

stateVars == <<states, initialState, currentState, senders, inside, balance,
               events, failedEnters, initializations, disturbed>>

AtRest == [at |-> "idle", from |-> NoState, to |-> NoState]

StateMachineInit ==
  /\ states = {} /\ initialState = NoState /\ currentState = NoState
  /\ senders = [c \in EventSenders |-> AtRest]
  /\ inside = [s \in StateIDs |-> 0] /\ balance = 0
  /\ events = 0 /\ failedEnters = 0
  /\ initializations = 0 /\ disturbed = FALSE

AddState(s) ==
  /\ s \notin states
  /\ states' = states \cup {s}
  /\ UNCHANGED <<initialState, currentState, senders, inside, balance, events,
                 failedEnters, initializations, disturbed>>

SetInitialState(s) ==
  /\ s \in states
  /\ initialState' = s
  /\ UNCHANGED <<states, currentState, senders, inside, balance, events, failedEnters,
                 initializations, disturbed>>

(* A hook of s returns no error.                                           *)
Entered(s) == inside' = [inside EXCEPT ![s] = @ + 1] /\ balance' = balance + 1
Left(s)    == inside' = [inside EXCEPT ![s] = @ - 1] /\ balance' = balance - 1

(* The state becomes current before OnEnter, and stays so if that fails.   *)
(* Another call enters the initial state again, without leaving the        *)
(* current one.                                                            *)
Initialize ==
  /\ initialState # NoState /\ initializations < MaxInitializations
  /\ initializations' = initializations + 1
  /\ disturbed' = (disturbed \/ currentState # NoState)
  /\ currentState' = initialState
  /\ \/ /\ Entered(initialState)
        /\ UNCHANGED failedEnters
     \/ /\ failedEnters' = failedEnters + 1
        /\ UNCHANGED <<inside, balance>>
  /\ UNCHANGED <<states, initialState, senders, events>>

--------------------------------------------------------------------------------
(* SendEvent(c): the current state chooses the next one.  An event that it *)
(* does not handle, or that leaves it current, changes nothing.            *)
ChooseNext(c, s) ==
  /\ senders[c].at = "idle" /\ events < MaxEvents
  /\ currentState \notin {NoState, s}
  /\ senders' = [senders EXCEPT ![c] = [at |-> "find", from |-> currentState, to |-> s]]
  /\ events' = events + 1
  /\ disturbed' = (disturbed \/ \E d \in EventSenders : senders[d].at # "idle")
  /\ UNCHANGED <<states, initialState, currentState, inside,
                 balance, failedEnters, initializations>>

FindNext(c) ==
  /\ senders[c].at = "find"
  /\ senders' = [senders EXCEPT ![c] = IF @.to \in states THEN [@ EXCEPT !.at = "exit"]
                                                          ELSE AtRest]
  /\ UNCHANGED <<states, initialState, currentState, inside, balance, events,
                 failedEnters, initializations, disturbed>>

(* Mutant of ExitState: an error of OnExit does not end the call. *)
ExitStateGoesOn(c) ==
  /\ senders[c].at = "exit"
  /\ senders' = [senders EXCEPT ![c].at = "enter"]
  /\ \/ Left(senders[c].from)
     \/ UNCHANGED <<inside, balance>>
  /\ UNCHANGED <<states, initialState, currentState, events,
                 failedEnters, initializations, disturbed>>

ExitState(c) ==
  /\ senders[c].at = "exit"
  /\ \/ /\ senders' = [senders EXCEPT ![c].at = "enter"]
        /\ Left(senders[c].from)
     \/ /\ senders' = [senders EXCEPT ![c] = AtRest]
        /\ UNCHANGED <<inside, balance>>
  /\ UNCHANGED <<states, initialState, currentState, events,
                 failedEnters, initializations, disturbed>>

EnterState(c) ==
  /\ senders[c].at = "enter"
  /\ \/ /\ senders' = [senders EXCEPT ![c].at = "set"]
        /\ Entered(senders[c].to)
        /\ UNCHANGED failedEnters
     \/ /\ senders' = [senders EXCEPT ![c] = AtRest]
        /\ failedEnters' = failedEnters + 1
        /\ UNCHANGED <<inside, balance>>
  /\ UNCHANGED <<states, initialState, currentState, events, initializations, disturbed>>

SetCurrent(c) ==
  /\ senders[c].at = "set"
  /\ currentState' = senders[c].to
  /\ senders' = [senders EXCEPT ![c] = AtRest]
  /\ UNCHANGED <<states, initialState, inside, balance, events,
                 failedEnters, initializations, disturbed>>

StateMachineNext ==
  \/ \E s \in StateIDs : \/ AddState(s) \/ SetInitialState(s)
                         \/ \E c \in EventSenders : ChooseNext(c, s)
  \/ Initialize
  \/ \E c \in EventSenders : FindNext(c) \/ ExitState(c) \/ EnterState(c) \/ SetCurrent(c)

--------------------------------------------------------------------------------
(* When no event is under way, the hooks that succeeded balance: states    *)
(* were entered more often than left by the number of initializations, but *)
(* for the calls of OnEnter that failed, whatever events overlapped; if    *)
(* none did, the machine was initialized once and no OnEnter failed, the   *)
(* current state was entered once more than left, and every other as often.*)
HooksBalanced ==
  (\A c \in EventSenders : senders[c].at = "idle") =>
    /\ balance = initializations - failedEnters
    /\ ~disturbed /\ failedEnters = 0 =>
         \A s \in StateIDs : inside[s] = (IF s = currentState THEN 1 ELSE 0)
================================================================================
