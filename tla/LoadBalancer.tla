------------------------------ MODULE LoadBalancer -----------------------------
(***************************************************************************)
(* RoundRobinLoadBalancer of stability/load_balancer.go.  Every method     *)
(* holds the mutex and is one step.  The index of the next target counts   *)
(* in the list of the targets that are available, which is built anew for  *)
(* every selection: what it points to changes when the list does.          *)
(***************************************************************************)
EXTENDS Integers, Sequences, SequencesExt

CONSTANTS
  Targets,
  MaxSelections  (* bound                                                   *)

ASSUME LoadBalancerAssumption == MaxSelections \in Nat

VARIABLES
  targetOrder,   (* the targets in the pool, in the order they were added   *)
  available,     (* those of them that are available                        *)
  requests,      (* of each target, the field Requests                      *)
  currentIndex, totalRequests,
  turns          (* history: of each target, the times it was selected      *)
                 (* since the list of available targets changed             *)

balancerVars == <<targetOrder, available, requests, currentIndex, totalRequests, turns>>

None == [t \in Targets |-> 0]

LoadBalancerInit ==
  /\ targetOrder = <<>> /\ available = {} /\ requests = None
  /\ currentIndex = 0 /\ totalRequests = 0 /\ turns = None

AvailableTargetIDs ==
  LET ids[i \in 0 .. Len(targetOrder)] ==
        IF i = 0 THEN <<>>
        ELSE IF targetOrder[i] \in available THEN Append(ids[i - 1], targetOrder[i])
        ELSE ids[i - 1]
  IN  ids[Len(targetOrder)]

(* Mutant of SelectTarget: the index goes on past the end of the list. *)
SelectTargetGoesOn ==
  LET ids == AvailableTargetIDs
      target == ids[(currentIndex % Len(ids)) + 1]
  IN  /\ ids # <<>> /\ totalRequests < MaxSelections
      /\ currentIndex' = (currentIndex + 1) % Len(targetOrder)
      /\ requests' = [requests EXCEPT ![target] = @ + 1]
      /\ totalRequests' = totalRequests + 1
      /\ turns' = [turns EXCEPT ![target] = @ + 1]
      /\ UNCHANGED <<targetOrder, available>>

SelectTarget ==
  LET ids == AvailableTargetIDs
      target == ids[(currentIndex % Len(ids)) + 1]
  IN  /\ ids # <<>> /\ totalRequests < MaxSelections
      /\ currentIndex' = (currentIndex + 1) % Len(ids)
      /\ requests' = [requests EXCEPT ![target] = @ + 1]
      /\ totalRequests' = totalRequests + 1
      /\ turns' = [turns EXCEPT ![target] = @ + 1]
      /\ UNCHANGED <<targetOrder, available>>

SetTargetAvailability(t, isAvailable) ==
  /\ t \in ToSet(targetOrder)
  /\ available' = IF isAvailable THEN available \cup {t} ELSE available \ {t}
  /\ turns' = IF available' = available THEN turns ELSE None
  /\ UNCHANGED <<targetOrder, requests, currentIndex, totalRequests>>

Reset ==
  /\ currentIndex' = 0 /\ requests' = None /\ totalRequests' = 0 /\ turns' = None
  /\ UNCHANGED <<targetOrder, available>>

AddTarget(t) ==
  /\ t \notin ToSet(targetOrder)
  /\ targetOrder' = Append(targetOrder, t)
  /\ available' = available \cup {t}
  /\ requests' = [requests EXCEPT ![t] = 0]
  /\ turns' = None
  /\ UNCHANGED <<currentIndex, totalRequests>>

RemoveTarget(t) ==
  /\ t \in ToSet(targetOrder)
  /\ targetOrder' = RemoveFirst(targetOrder, t)
  /\ available' = available \ {t}
  /\ requests' = [requests EXCEPT ![t] = 0]
  /\ currentIndex' = IF currentIndex >= Len(targetOrder') THEN 0 ELSE currentIndex
  /\ turns' = IF t \in available THEN None ELSE turns
  /\ UNCHANGED totalRequests

LoadBalancerNext ==
  \/ SelectTarget \/ Reset
  \/ \E t \in Targets :
       \/ AddTarget(t) \/ RemoveTarget(t)
       \/ \E isAvailable \in BOOLEAN : SetTargetAvailability(t, isAvailable)

--------------------------------------------------------------------------------
(* Wherever the index was when the list of available targets changed, the  *)
(* targets on the list take turns from then on: none is selected twice     *)
(* more than another.                                                      *)
TurnsFair == \A t, u \in available : turns[t] - turns[u] <= 1
================================================================================
