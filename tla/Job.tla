----------------------------------- MODULE Job ---------------------------------
(***************************************************************************)
(* Job of efflux/job.go, with one handler, which Start runs in a goroutine *)
(* of its own until its context is cancelled.                              *)
(***************************************************************************)
EXTENDS Integers, Sequences

CONSTANT MaxJobStarts  (* bound: of calls of Start                          *)

ASSUME JobAssumption == MaxJobStarts \in Nat

VARIABLES
  jobRuns,     (* of each Start, the state of the handler: "select",        *)
               (* "handle" or "exited", and whether its context is done     *)
  jobStopPc    (* "no", "wait" or "returned"                                *)

jobVars == <<jobRuns, jobStopPc>>

JobInit == jobRuns = <<>> /\ jobStopPc = "no"

(* A second Start runs the handler once more, and forgets how to cancel    *)
(* the first context.                                                      *)
JobStart ==
  /\ Len(jobRuns) < MaxJobStarts /\ jobStopPc # "wait"
  /\ jobRuns' = Append(jobRuns, [state |-> "select", done |-> FALSE])
  /\ UNCHANGED jobStopPc

JobTick(i) ==
  /\ jobRuns[i].state = "select"
  /\ jobRuns' = [jobRuns EXCEPT ![i].state = "handle"]
  /\ UNCHANGED jobStopPc

(* Handle returns, or panics: then this handler has ended for good.        *)
JobHandle(i) ==
  /\ jobRuns[i].state = "handle"
  /\ jobRuns' \in {[jobRuns EXCEPT ![i].state = s] : s \in {"select", "exited"}}
  /\ UNCHANGED jobStopPc

JobDone(i) ==
  /\ jobRuns[i].state = "select" /\ jobRuns[i].done
  /\ jobRuns' = [jobRuns EXCEPT ![i].state = "exited"]
  /\ UNCHANGED jobStopPc

(* The parent of the context of one Start is cancelled.                    *)
JobContextEnds(i) ==
  /\ ~jobRuns[i].done
  /\ jobRuns' = [jobRuns EXCEPT ![i].done = TRUE]
  /\ UNCHANGED jobStopPc

(* Stop cancels the context of the last Start.                             *)
JobStop ==
  /\ jobStopPc # "wait"
  /\ jobStopPc' = "wait"
  /\ jobRuns' = IF jobRuns = <<>> THEN jobRuns
                ELSE [jobRuns EXCEPT ![Len(jobRuns)].done = TRUE]

JobStopped ==
  /\ jobStopPc = "wait" /\ \A i \in DOMAIN jobRuns : jobRuns[i].state = "exited"
  /\ jobStopPc' = "returned"
  /\ UNCHANGED jobRuns

JobStep(i) == i \in DOMAIN jobRuns /\ (JobTick(i) \/ JobHandle(i) \/ JobDone(i))

JobNext ==
  \/ JobStart \/ JobStop \/ JobStopped
  \/ \E i \in DOMAIN jobRuns : JobStep(i) \/ JobContextEnds(i)

--------------------------------------------------------------------------------
(* Nobody waits in Stop for the handlers, or one of them was started again *)
(* while it ran: then Stop waits for a run that nobody can cancel.         *)
JobStops ==
  jobStopPc = "wait" =>
    \E i \in 1 .. Len(jobRuns) - 1 : jobRuns[i].state # "exited" /\ ~jobRuns[i].done
================================================================================
