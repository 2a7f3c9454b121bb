-------------------------------- MODULE Pipeline -------------------------------
(***************************************************************************)
(* BasePipeline of efflux/pipeline.go: stages, each with the transitions   *)
(* to others in the order they were added, and Execute, which calls one    *)
(* stage after the other along them.  Stages are registered by name, so    *)
(* that a stage takes the place of another of its name.                    *)
(*                                                                         *)
(* What a stage and a condition return is up to the user.  The function of *)
(* a stage may change the pipeline that executes it; nothing else may      *)
(* meanwhile, because no lock is taken.                                    *)
(***************************************************************************)
EXTENDS Integers, Sequences, FiniteSets, SequencesExt, Functions

CONSTANTS
  PipelineStages,  (* a set of numbers                                      *)
  MaxTransitions,  (* bound                                                 *)
  MaxExecutions    (* bound                                                 *)

ASSUME PipelineAssumption ==
  /\ PipelineStages \subseteq Nat \ {0} /\ IsFiniteSet(PipelineStages)
  /\ MaxTransitions \in Nat /\ MaxExecutions \in Nat

NoStage == 0
StageName(s) == s \div 2     \* so that 2 and 3 have one name

VARIABLES
  root,
  stageNamed,    (* the registry: of each name in it, the stage             *)
  transitions,   (* of each stage, the targets, nil included                *)
  executing,     (* Execute: "no", "calling" (a stage) or "choosing" (the   *)
                 (* next one)                                               *)
  calls,         (* the stages called, the current one last: visited        *)
  executeResult, (* what the last Execute returned: "nil", "error" or       *)
                 (* "cycle"                                                 *)
  executions     (* history: calls of Execute                               *)

executeVars == <<executing, calls, executeResult, executions>>
pipelineVars == <<root, stageNamed, transitions, executeVars>>

PipelineInit ==
  /\ root = NoStage /\ stageNamed = [n \in {} |-> NoStage]
  /\ transitions = [s \in PipelineStages |-> <<>>]
  /\ executing = "no" /\ calls = <<>> /\ executeResult = "nil" /\ executions = 0

--------------------------------------------------------------------------------
(* Building the pipeline, before Execute or in the function of a stage.    *)
WithStage(s) == [n \in DOMAIN stageNamed \cup {StageName(s)} |->
                     IF n = StageName(s) THEN s ELSE stageNamed[n]]

AddTransition(s, target) ==
  /\ executing # "choosing"
  /\ FoldFunction(LAMBDA list, n : Len(list) + n, 0, transitions) < MaxTransitions
  /\ transitions' = [transitions EXCEPT ![s] = Append(@, target)]
  /\ UNCHANGED <<root, stageNamed, executeVars>>

AddStage(s) ==
  /\ executing # "choosing"
  /\ stageNamed' = WithStage(s)
  /\ UNCHANGED <<root, transitions, executeVars>>

SetRootStage(s) ==
  /\ executing # "choosing"
  /\ root' = s
  /\ stageNamed' = IF s = NoStage THEN stageNamed ELSE WithStage(s)
  /\ UNCHANGED <<transitions, executeVars>>

ClearPipeline ==
  /\ executing # "choosing"
  /\ root' = NoStage /\ stageNamed' = [n \in {} |-> NoStage]
  /\ UNCHANGED <<transitions, executeVars>>

--------------------------------------------------------------------------------
Ends(outcome) == executing' = "no" /\ executeResult' = outcome

(* Mutant of Reaches: only the stage that was called last is remembered. *)
ReachesAgain(s, before) ==
  IF s = NoStage THEN Ends("nil") /\ calls' = before
  ELSE IF before # <<>> /\ s = Last(before) THEN Ends("cycle") /\ calls' = before
  ELSE executing' = "calling" /\ calls' = Append(before, s) /\ UNCHANGED executeResult

(* The loop of Execute: current has become s.                              *)
Reaches(s, before) ==
  IF s = NoStage THEN Ends("nil") /\ calls' = before
  ELSE IF s \in ToSet(before) THEN Ends("cycle") /\ calls' = before
  ELSE executing' = "calling" /\ calls' = Append(before, s) /\ UNCHANGED executeResult

Execute ==
  /\ executing = "no" /\ executions < MaxExecutions
  /\ executions' = executions + 1
  /\ Reaches(root, <<>>)
  /\ UNCHANGED <<root, stageNamed, transitions>>

StageReturns(ok) ==
  /\ executing = "calling"
  /\ IF ok THEN executing' = "choosing" /\ UNCHANGED executeResult ELSE Ends("error")
  /\ UNCHANGED <<root, stageNamed, transitions, calls, executions>>

(* GetNextStage: the first transition whose condition holds, or none.      *)
GetNextStage ==
  /\ executing = "choosing"
  /\ \/ Reaches(NoStage, calls)
     \/ \E i \in DOMAIN transitions[Last(calls)] : Reaches(transitions[Last(calls)][i], calls)
  /\ UNCHANGED <<root, stageNamed, transitions, executions>>

ExecuteStep == GetNextStage \/ \E ok \in BOOLEAN : StageReturns(ok)

PipelineNext ==
  \/ Execute \/ ExecuteStep \/ ClearPipeline \/ SetRootStage(NoStage)
  \/ \E s \in PipelineStages :
       \/ AddStage(s) \/ SetRootStage(s)
       \/ \E target \in PipelineStages \cup {NoStage} : AddTransition(s, target)

--------------------------------------------------------------------------------
MarkReachable(start) ==
  LET mark[x \in (PipelineStages \cup {NoStage}) \X SUBSET PipelineStages] ==
        LET s == x[1]
            marked == x[2]
        IN  IF s = NoStage \/ s \in marked THEN marked
            ELSE FoldLeft(LAMBDA m, target : mark[<<target, m>>], marked \cup {s}, transitions[s])
  IN  mark[<<start, {}>>]

Validate ==
  IF root = NoStage THEN "no root"
  ELSE IF \A n \in DOMAIN stageNamed : stageNamed[n] \in MarkReachable(root)
       THEN "valid" ELSE "unreachable"

--------------------------------------------------------------------------------
(* Reference definition: the stages that so many transitions lead to.      *)
LeadsTo(start) ==
  LET reach[d \in 0 .. Cardinality(PipelineStages)] ==
        IF d = 0 THEN {start}
        ELSE reach[d - 1] \cup UNION {ToSet(transitions[s]) : s \in reach[d - 1] \ {NoStage}}
  IN  reach[Cardinality(PipelineStages)] \ {NoStage}

(* Execute calls no stage twice, each by a transition of the one before,   *)
(* and says there is a cycle only if there is one, even if the stages      *)
(* change the pipeline meanwhile; and Validate reports unreachable stages  *)
(* exactly if some stage in its registry cannot be reached from its root.  *)
(* Nothing is said of whether it reports cycles, as its comment promises   *)
(* (pipeline.go:93 and :315): the code does not look for any.              *)
PipelineExact ==
  /\ \A i, j \in DOMAIN calls : i # j => calls[i] # calls[j]
  /\ \A i \in DOMAIN calls : i > 1 => calls[i] \in ToSet(transitions[calls[i - 1]])
  /\ executing = "no" /\ executeResult = "cycle" =>
       \E s \in ToSet(transitions[Last(calls)]) \cap ToSet(calls) : Last(calls) \in LeadsTo(s)
  /\ Validate = "unreachable" <=>
       root # NoStage /\ ~(Range(stageNamed) \subseteq LeadsTo(root))

================================================================================
