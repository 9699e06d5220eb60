------------------------------ MODULE CheckCmd ------------------------------
(***************************************************************************)
(* cmd/bjj: the command `bjj check'.  runCheck goes through the admission  *)
(* of `bjj admit', lets only an admitted plan pass, and hands the commit   *)
(* that was admitted to the check orchestrator.                            *)
(***************************************************************************)
EXTENDS Admission, Orchestrator

\* Every commit may be the candidate.
ASSUME CandidateAssumption == Candidate = Commit

VARIABLE exit    \* the exit code, Running before the command ends

Running              == -1
ExitCheckOK          == 0
ExitCheckInvalidArgs == 1
ExitCheckInfraError  == 2
ExitCheckAdmission   == 3
ExitCheckFailed      == 4

checkVars == <<repoVars, planVars, admVars, runnerVars, orchVars, exit>>

CheckInit ==
  /\ RepoInit /\ PlanInit /\ AdmInit
  /\ RunnerIdle /\ OrchIdle /\ subject = Root
  /\ exit = Running

-----------------------------------------------------------------------------
\* renderPlanErrorAsCheck.
PlanErrorExit(e) ==
  IF e \in {"LOCAL_BOOKMARK_NOT_FOUND", "REMOTE_NOT_FOUND"}
  THEN ExitCheckInvalidArgs ELSE ExitCheckInfraError

\* The arguments are refused before anything is read.
EndUsage ==
  /\ exit = Running /\ pc = "pin"
  /\ exit' = ExitCheckInvalidArgs

EndPlanError ==
  /\ exit = Running /\ pc = "failed"
  /\ exit' = PlanErrorExit(err)

EndAdmissionError ==
  /\ exit = Running /\ apc = "failed"
  /\ exit' = ExitCheckInfraError

\* The gate: anything but admit ends the command here.
EndNotAdmitted ==
  /\ exit = Running /\ apc = "decided"
  /\ result.decision # "admit"
  /\ exit' = ExitCheckAdmission

\* No parent directory for the workspaces.
EndNoParent ==
  /\ exit = Running /\ apc = "decided" /\ opc = "idle"
  /\ result.decision = "admit"
  /\ exit' = ExitCheckInfraError

\* Faulty variant: only a denial is stopped, and a no-op plan is checked.
FaultyPassGate ==
  /\ exit = Running /\ apc = "decided" /\ opc = "idle"
  /\ result.decision # "deny"
  /\ subject' = newRef
  /\ opc' = "spec"
  /\ UNCHANGED <<runnerVars, ix, todo, ws, manifest, walkVars, dirs, outcomes, total, cerr, stuck,
                 input, meddled, orphans>>

\* Faulty variant: the error of the parent directory is reported without a return.
FaultyUnguardedGate ==
  /\ apc = "decided" /\ opc = "idle"
  /\ result.decision = "admit"
  /\ subject' = newRef
  /\ opc' = "spec"
  /\ UNCHANGED <<runnerVars, ix, todo, ws, manifest, walkVars, dirs, outcomes, total, cerr, stuck,
                 input, meddled, orphans>>

\* The subject is the plan's NEW, and the orchestrator runs.
PassGate ==
  /\ exit = Running /\ apc = "decided" /\ opc = "idle"
  /\ result.decision = "admit"
  /\ subject' = newRef
  /\ opc' = "spec"
  /\ UNCHANGED <<runnerVars, ix, todo, ws, manifest, walkVars, dirs, outcomes, total, cerr, stuck,
                 input, meddled, orphans>>

\* The deferred RemoveAll of the parent directory, whose error is ignored: it
\* tries once more what an earlier removal left.
RemoveParent ==
  /\ dirs' \in SUBSET dirs
  /\ UNCHANGED <<opc, subject, ix, todo, ws, manifest, walkVars, outcomes, total, cerr, stuck,
                 input, meddled, orphans>>

EndCheckError ==
  /\ exit = Running /\ opc = "failed"
  /\ exit' = ExitCheckInfraError
  /\ RemoveParent

\* Faulty variant: a check that could not be run does not count.
FaultyStatusExit(s) == IF s = "fail" THEN ExitCheckFailed ELSE ExitCheckOK

StatusExit(s) ==
  CASE s = "pass" -> ExitCheckOK
    [] s = "fail" -> ExitCheckFailed
    [] OTHER      -> ExitCheckInfraError

\* The text renderer reports a failed write, which turns into exit code 2.
EndResult ==
  /\ exit = Running /\ opc = "done"
  /\ exit' \in {StatusExit(total), ExitCheckInfraError}
  /\ RemoveParent

End ==
  /\ \/ EndUsage /\ UNCHANGED orchVars
     \/ EndPlanError /\ UNCHANGED orchVars
     \/ EndAdmissionError /\ UNCHANGED orchVars
     \/ EndNotAdmitted /\ UNCHANGED orchVars
     \/ EndNoParent /\ UNCHANGED orchVars
     \/ EndCheckError
     \/ EndResult
  /\ UNCHANGED <<repoVars, planVars, admVars, runnerVars>>

\* One step of the command itself.
Run ==
  \/ exit = Running /\ PlanStep /\ UNCHANGED <<repoVars, admVars, runnerVars, orchVars, exit>>
  \/ AdmStep /\ UNCHANGED <<repoVars, planVars, runnerVars, orchVars, exit>>
  \/ PassGate /\ UNCHANGED <<repoVars, planVars, admVars, exit>>
  \/ OrchStep /\ UNCHANGED <<repoVars, planVars, admVars, exit>>
  \/ End

\* Everybody else; the context is context.Background, which nobody cancels.
Outside ==
  \/ RepoNext /\ UNCHANGED <<planVars, admVars, runnerVars, orchVars, exit>>
  \/ Environment /\ ctx' = ctx /\ UNCHANGED <<repoVars, planVars, admVars, exit>>

CheckNext == Run \/ Outside

CheckSpec == CheckInit /\ [][CheckNext]_checkVars

\* What is no step of the command but of its checks' surroundings.
Aside(A) == A /\ UNCHANGED <<repoVars, planVars, admVars, orchVars, exit>>

\* The command goes on, jj answers or fails, the deadline of a check fires, the
\* kill arrives and descendants that hold the pipes end at some time.
FairCheckSpec ==
  /\ CheckSpec
  /\ WF_checkVars(Run)
  /\ WF_checkVars(Aside(Expire))
  /\ WF_checkVars(Aside(Kill))
  /\ WF_checkVars(Aside(Release))

CheckTypeOK ==
  /\ RepoTypeOK /\ PlanTypeOK /\ AdmTypeOK /\ RunnerTypeOK /\ OrchTypeOK
  /\ exit \in {Running, ExitCheckOK, ExitCheckInvalidArgs, ExitCheckInfraError,
               ExitCheckAdmission, ExitCheckFailed}

-----------------------------------------------------------------------------
(* Exit code 0 of `bjj check': what is checked is what was admitted.  The   *)
(* policy of NEW allows the publication at the pinned view, and every check *)
(* of the profile passed on the tree of that NEW, although other programs   *)
(* moved the bookmark and the checks wrote in their workspaces; only a file *)
(* that was touched behind the walk of the verifier may have differed       *)
(* (check.go:19-33, orchestrator.go:232-237).                               *)
GreenIsAdmittedAndChecked ==
  exit = ExitCheckOK =>
    /\ Allowed /\ subject = newRef
    /\ Len(input) = Len(Profile) /\ Len(outcomes) = Len(Profile)
    /\ \A i \in DOMAIN Profile :
         outcomes[i].status = "pass" /\ IsTreeOf(input[i], newRef)

(* "The check path is NEVER entered for non-admitted subjects"              *)
(* (check.go:25-27): no process of a check exists, and no workspace, unless *)
(* the publication of the subject is allowed at the pinned view.            *)
NothingRunsUnadmitted ==
  proc # "none" \/ dirs # {} => Allowed /\ subject = newRef

(* Neither its checks nor other programs make `bjj check' start over or go  *)
(* on after its end: each step of its control brings it nearer to its end,  *)
(* admission is over before the first turn, and the exit code is given once *)
(* (check.go:35-185).                                                       *)
NothingAgain ==
  [][/\ exit = Running
     /\ \/ exit' # Running
        \/ StepsLeft' < StepsLeft
        \/ StepsLeft' = StepsLeft /\ Onward]_<<pc, apc, opc, rpc, ix, todo, unread, exit>>

(* `bjj check' always ends with an exit code, whatever its checks do and    *)
(* however often the bookmarks move meanwhile.                              *)
CheckEnds == <>(exit # Running)

-----------------------------------------------------------------------------
(* The contract of module CheckContract.                                   *)

\* How the command ended, by its exit code.
Ended ==
  IF exit = Running                 THEN "none"
  ELSE IF exit = ExitCheckOK        THEN "passed"
  ELSE IF exit = ExitCheckFailed    THEN "failed"
  ELSE IF exit = ExitCheckAdmission THEN "refused"
  ELSE "gave up"

\* The files that the processes of the checks were started on.
Handed == [i \in DOMAIN input |-> input[i].files]

Promise == INSTANCE CheckContract
             WITH pinned <- opID, answer <- Said, given <- Handed, end <- Ended, TreeOf <- Exact

(* `bjj check' implements its contract: between the subprocesses of the     *)
(* command, of its checks and of everybody else it is one look, one         *)
(* truthful answer, the tree of the commit of that answer for each check in *)
(* turn, and one end that says what happened (check.go:19-33).              *)
PromiseSpec == Promise!CheckSpec
=============================================================================
