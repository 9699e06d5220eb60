--------------------------- MODULE CheckCmd_proofs ---------------------------
(***************************************************************************)
(* Proofs about `bjj check': nothing runs on a commit that is not          *)
(* admitted, and exit code 0 is about the commit that was.  They join the  *)
(* invariants of admission and of the orchestrator at the gate.            *)
(***************************************************************************)
EXTENDS CheckCmd, Admission_proofs, Orchestrator_proofs

ExitType == {Running, ExitCheckOK, ExitCheckInvalidArgs, ExitCheckInfraError,
             ExitCheckAdmission, ExitCheckFailed}

\* Before the gate the orchestrator is at rest.
RestBeforeGate == opc = "idle" => proc = "none" /\ dirs = {} /\ orphans = {} /\ input = <<>>

\* Behind the gate is the commit that was admitted.
AdmittedBehindGate ==
  opc # "idle" => apc = "decided" /\ result.decision = "admit" /\ subject = newRef

ExitOfTotal == exit = ExitCheckOK => opc = "done" /\ total = "pass"

\* A command that has ended has nothing left to ask or to run.
EndsAtRest ==
  exit # Running =>
    /\ pc \in {"pin", "failed"} \/ apc \in {"failed", "decided"}
    /\ opc \in {"idle", "done", "failed"}

CheckInv ==
  /\ AdmInv /\ OrchInv /\ exit \in ExitType
  /\ RestBeforeGate /\ AdmittedBehindGate /\ ExitOfTotal /\ EndsAtRest

-----------------------------------------------------------------------------
LEMMA CheckInit_Inv == CheckInit => CheckInv
<1> SUFFICES ASSUME CheckInit PROVE CheckInv
  OBVIOUS
<1>1. AdmInv
  BY PlanInit_Inv, AdmInit_Inv DEF CheckInit, Init
<1>2. OrchInv
  BY OrchInit_Inv, CandidateAssumption, CommitAssumption DEF CheckInit, OrchInit
<1> QED BY <1>1, <1>2
  DEF CheckInit, CheckInv, OrchIdle, RunnerIdle, RestBeforeGate, AdmittedBehindGate, ExitOfTotal,
      EndsAtRest, ExitType, Running, ExitCheckOK

\* The orchestrator is not disturbed by what it does not see.
LEMMA OrchUnseen ==
  ASSUME OrchInv, UNCHANGED <<runnerVars, orchVars>>
  PROVE  OrchInv'
BY OrchStutter_Inv DEF allVars

LEMMA AdmUnseen ==
  ASSUME AdmInv, UNCHANGED <<repoVars, planVars, admVars>>
  PROVE  AdmInv'
BY AdmStutter_Inv

\* The steps up to the decision happen before the gate.
LEMMA BeforeGate ==
  ASSUME CheckInv, PlanStep \/ AdmStep
  PROVE  opc = "idle"
<1>1. CASE PlanStep
  <2>1. pc # "planned"
    BY <1>1 DEF PlanStep, PinOperation, ListRemotes, ListBookmarks, ResolveOldID, ResolveNewID,
                NearestRemoteAncestor, OutgoingCommits, QueryFails, Queries
  <2> QED BY <2>1 DEF CheckInv, AdmInv, InOrder, AdmittedBehindGate
<1>2. CASE AdmStep
  <2>1. apc # "decided"
    BY <1>2 DEF AdmStep, LoadPolicy, GatherMove, GatherPrivate, RefuseBlank, GatherObs, Evaluate,
                AdmQueryFails, AsksJJ
  <2> QED BY <2>1 DEF CheckInv, AdmittedBehindGate
<1> QED BY <1>1, <1>2

\* Admission and the orchestrator have steps while the command runs only.
LEMMA WhileRunning ==
  ASSUME CheckInv, AdmStep \/ OrchStep
  PROVE  exit = Running
<1>1. CASE AdmStep
  <2>1. pc = "planned" /\ apc \notin {"failed", "decided"}
    BY <1>1 DEF AdmStep, LoadPolicy, GatherMove, GatherPrivate, RefuseBlank, GatherObs, Evaluate,
                AdmQueryFails, AsksJJ
  <2> QED BY <2>1 DEF CheckInv, EndsAtRest
<1>2. CASE OrchStep
  <2>1. opc \notin {"idle", "done", "failed"}
    BY <1>2 DEF OrchStep, ListTree, MaterializeFile, BeginWalk, ReadBack, Compare, StartCheck,
                RunCheck, Collect, Finish
  <2> QED BY <2>1 DEF CheckInv, EndsAtRest
<1> QED BY <1>1, <1>2

LEMMA Decide_Inv ==
  ASSUME CheckInv, exit = Running,
         \/ PlanStep /\ UNCHANGED <<repoVars, admVars>>
         \/ AdmStep /\ UNCHANGED <<repoVars, planVars>>,
         UNCHANGED <<runnerVars, orchVars, exit>>
  PROVE  CheckInv'
<1>1. opc = "idle"
  BY BeforeGate
<1>2. AdmInv'
  BY OtherStep_Inv, AdmStep_Inv DEF CheckInv
<1>3. OrchInv'
  BY OrchUnseen DEF CheckInv
<1> QED BY <1>1, <1>2, <1>3
  DEF CheckInv, RestBeforeGate, AdmittedBehindGate, ExitOfTotal, EndsAtRest, runnerVars, orchVars

\* The gate hands the commit of the plan to the orchestrator.
LEMMA PassGate_Inv ==
  ASSUME CheckInv, PassGate, UNCHANGED <<repoVars, planVars, admVars, exit>>
  PROVE  CheckInv'
<1> USE DEF CheckInv, PassGate, walkVars
<1>1. AdmInv'
  BY AdmUnseen
<1>2. newRef \in Candidate
  BY PlannedFacts, CandidateAssumption DEF AdmInv, InOrder
<1>3. OrchInv'
  <2> USE DEF OrchInv
  <2>1. RunnerInv'
    BY RunnerStutter_Inv
  <2>2. OrchTyped'
    BY <1>2 DEF OrchTyped
  <2>3. TurnOfProfile' /\ DirsOfTurn' /\ ManifestOfTree' /\ WalkOfVerifier' /\ UntouchedIsExact'
    BY DEF RestBeforeGate, TurnOfProfile, DirsOfTurn, Working, Started, ManifestOfTree,
           WalkOfVerifier, AtStart, UntouchedIsExact, runnerVars
  <2>4. input' = <<>> /\ InputsCounted'
    BY DEF RestBeforeGate, InputsCounted, Started, runnerVars
  <2>5. NewInput'
    BY <2>4 DEF NewInput, InputIsShown, NothingLate, Undisturbed
  <2> QED BY <2>1, <2>2, <2>3, <2>4, <2>5
<1> QED BY <1>1, <1>3
  DEF RestBeforeGate, AdmittedBehindGate, ExitOfTotal, EndsAtRest, admVars, planVars

\* The orchestrator works behind the gate and does not leave it.
LEMMA OrchStepBehindGate ==
  ASSUME OrchStep
  PROVE  opc \notin {"idle", "done"} /\ opc' # "idle" /\ subject' = subject
BY DEF OrchStep, ListTree, MaterializeFile, Abort, BeginWalk, ReadBack, Compare, StartCheck,
       RunCheck, Collect, Finish

LEMMA Work_Inv ==
  ASSUME CheckInv, OrchStep, UNCHANGED <<repoVars, planVars, admVars, exit>>
  PROVE  CheckInv'
<1>1. AdmInv' /\ OrchInv'
  BY AdmUnseen, OrchStep_Inv DEF CheckInv
<1> QED BY <1>1, OrchStepBehindGate, WhileRunning
  DEF CheckInv, RestBeforeGate, AdmittedBehindGate, ExitOfTotal, EndsAtRest, admVars, planVars

\* The removal of the parent directory can only take workspaces away.
LEMMA RemoveParent_Inv ==
  ASSUME OrchInv, opc \in {"done", "failed"}, RemoveParent, UNCHANGED runnerVars
  PROVE  OrchInv'
<1> USE DEF OrchInv, RemoveParent, walkVars
<1>1. RunnerInv'
  BY RunnerStutter_Inv
<1>2. OrchTyped'
  BY DEF OrchTyped
<1>3. TurnOfProfile' /\ DirsOfTurn' /\ ManifestOfTree' /\ WalkOfVerifier' /\ UntouchedIsExact'
  BY DEF TurnOfProfile, DirsOfTurn, Working, Started, ManifestOfTree, WalkOfVerifier, AtStart,
         UntouchedIsExact, Tracked, Aggregate, HasStatus, runnerVars
<1>4. NewInput' /\ InputsCounted'
  BY InputsStay DEF Started, runnerVars
<1> QED BY <1>1, <1>2, <1>3, <1>4

LEMMA End_Inv == ASSUME CheckInv, End PROVE CheckInv'
<1>1. AdmInv' /\ UNCHANGED <<repoVars, planVars, admVars, runnerVars>>
  BY AdmUnseen DEF CheckInv, End
<1>2. CASE /\ EndUsage \/ EndPlanError \/ EndAdmissionError \/ EndNotAdmitted \/ EndNoParent
           /\ UNCHANGED orchVars
  <2>1. exit' \in ExitType /\ exit' # ExitCheckOK
    BY <1>2 DEF EndUsage, EndPlanError, PlanErrorExit, EndAdmissionError, EndNotAdmitted,
                EndNoParent, ExitType, Running, ExitCheckOK, ExitCheckInvalidArgs,
                ExitCheckInfraError, ExitCheckAdmission, ExitCheckFailed
  <2>2. OrchInv'
    BY <1>1, <1>2, OrchUnseen DEF CheckInv
  <2>3. /\ pc \in {"pin", "failed"} \/ apc \in {"failed", "decided"}
        /\ opc = "idle"
    BY <1>2 DEF EndUsage, EndPlanError, EndAdmissionError, EndNotAdmitted, EndNoParent, CheckInv,
                AdmittedBehindGate, AdmInv, InOrder
  <2> QED BY <1>1, <1>2, <2>1, <2>2, <2>3
    DEF CheckInv, RestBeforeGate, AdmittedBehindGate, ExitOfTotal, EndsAtRest, admVars, planVars,
        runnerVars, orchVars
<1>3. CASE EndCheckError \/ EndResult
  <2>1. opc \in {"done", "failed"} /\ opc' = opc /\ RemoveParent
    BY <1>3 DEF EndCheckError, EndResult, RemoveParent
  <2>2. exit' \in ExitType /\ (exit' = ExitCheckOK => opc = "done" /\ total = "pass")
    BY <1>3 DEF EndCheckError, EndResult, StatusExit, ExitType, Running, ExitCheckOK,
                ExitCheckInvalidArgs, ExitCheckInfraError, ExitCheckAdmission, ExitCheckFailed
  <2>3. OrchInv'
    BY <1>1, <2>1, RemoveParent_Inv DEF CheckInv
  <2> QED BY <1>1, <2>1, <2>2, <2>3
    DEF CheckInv, RestBeforeGate, AdmittedBehindGate, ExitOfTotal, EndsAtRest, RemoveParent,
        admVars, planVars
<1> QED BY <1>2, <1>3 DEF End

\* What the surroundings of the orchestrator leave alone.
LEMMA EnvironmentKeeps ==
  ASSUME Environment
  PROVE  /\ UNCHANGED <<opc, subject, outcomes, total, input>>
         /\ proc = "none" => proc' = "none"
         /\ opc = "idle" => orphans' = orphans
         /\ orphans = {} => dirs' = dirs
BY OthersKeep DEF Environment, Meddle, Detach, Scribble, Recreate, orchVars, runnerVars

LEMMA Outside_Inv == ASSUME CheckInv, Outside PROVE CheckInv'
<1>1. CASE RepoNext /\ UNCHANGED <<planVars, admVars, runnerVars, orchVars, exit>>
  <2>1. AdmInv' /\ OrchInv'
    BY <1>1, OtherStep_Inv, OrchUnseen DEF CheckInv
  <2> QED BY <1>1, <2>1
    DEF CheckInv, RestBeforeGate, AdmittedBehindGate, ExitOfTotal, EndsAtRest, planVars, admVars,
        runnerVars, orchVars
<1>2. CASE Environment /\ UNCHANGED <<repoVars, planVars, admVars, exit>>
  <2>1. AdmInv' /\ OrchInv'
    BY <1>2, AdmUnseen, Environment_Inv DEF CheckInv
  <2> QED BY <1>2, <2>1, EnvironmentKeeps
    DEF CheckInv, RestBeforeGate, AdmittedBehindGate, ExitOfTotal, EndsAtRest, planVars, admVars
<1> QED BY <1>1, <1>2 DEF Outside

LEMMA CheckNext_Inv == CheckInv /\ [CheckNext]_checkVars => CheckInv'
<1> SUFFICES ASSUME CheckInv, [CheckNext]_checkVars PROVE CheckInv'
  OBVIOUS
<1>1. CASE exit = Running /\ PlanStep
           /\ UNCHANGED <<repoVars, admVars, runnerVars, orchVars, exit>>
  BY <1>1, Decide_Inv
<1>2. CASE AdmStep /\ UNCHANGED <<repoVars, planVars, runnerVars, orchVars, exit>>
  BY <1>2, WhileRunning, Decide_Inv
<1>3. CASE PassGate /\ UNCHANGED <<repoVars, planVars, admVars, exit>>
  BY <1>3, PassGate_Inv
<1>4. CASE OrchStep /\ UNCHANGED <<repoVars, planVars, admVars, exit>>
  BY <1>4, Work_Inv
<1>5. CASE End
  BY <1>5, End_Inv
<1>6. CASE Outside
  BY <1>6, Outside_Inv
<1>7. CASE UNCHANGED checkVars
  <2>1. AdmInv' /\ OrchInv'
    BY <1>7, AdmUnseen, OrchUnseen DEF CheckInv, checkVars
  <2> QED BY <1>7, <2>1
    DEF CheckInv, RestBeforeGate, AdmittedBehindGate, ExitOfTotal, EndsAtRest, checkVars, planVars,
        admVars, runnerVars, orchVars
<1> QED BY <1>1, <1>2, <1>3, <1>4, <1>5, <1>6, <1>7 DEF CheckNext, Run

(* CheckInv is an invariant of the command beside its checks and other      *)
(* programs.                                                                *)
THEOREM CheckInvariant == CheckSpec => []CheckInv
BY CheckInit_Inv, CheckNext_Inv, PTL DEF CheckSpec

-----------------------------------------------------------------------------
(* Every variable of the command keeps its type.                            *)
THEOREM CheckTypeCorrect == CheckSpec => []CheckTypeOK
<1>1. CheckInv => CheckTypeOK
  BY InvOrchType DEF CheckInv, AdmInv, PlanInv, TypeOK, OrchInv, RunnerInv, CheckTypeOK, ExitType
<1> QED BY <1>1, CheckInvariant, PTL

(* No check process and no workspace exists for a commit whose publication  *)
(* is not allowed at the pinned view by the policy in its own tree          *)
(* (check.go:25-27), when the command is run at the root of the workspace.   *)
THEOREM NothingRunsBeforeAdmission ==
  ASSUME AtRoot
  PROVE  CheckSpec => []NothingRunsUnadmitted
<1>1. CheckInv => NothingRunsUnadmitted
  BY AdmittedIsAllowed
  DEF CheckInv, RestBeforeGate, AdmittedBehindGate, NothingRunsUnadmitted
<1> QED BY <1>1, CheckInvariant, PTL

(* What the parts of the command promise by themselves holds of the whole:  *)
(* the plan is that of the pinned view, verdicts are earned and cuts        *)
(* flagged, and no workspace is left but by a failed removal or by what a   *)
(* check left running.  The gate and the end of the command disturb none of *)
(* them (check.go:35-185).                                                  *)
THEOREM PartsInTheWhole ==
  CheckSpec => [](PlanOfOneView /\ VerdictEarned /\ CutIsFlagged /\ WorkspacesRemoved)
<1>1. CheckInv => PlanOfOneView /\ VerdictEarned /\ CutIsFlagged /\ WorkspacesRemoved
  BY InvPlan, InvVerdict, InvCut, InvWorkspaces DEF CheckInv, AdmInv, OrchInv
<1> QED BY <1>1, CheckInvariant, PTL

\* Behind exit code 0, whatever was in the workspaces.
LEMMA GreenOutcomes ==
  ASSUME CheckInv, exit = ExitCheckOK
  PROVE  /\ opc = "done" /\ apc = "decided" /\ result.decision = "admit" /\ subject = newRef
         /\ DOMAIN outcomes = DOMAIN Profile /\ DOMAIN input = DOMAIN Profile
         /\ Len(outcomes) = Len(Profile) /\ Len(input) = Len(Profile)
         /\ \A i \in DOMAIN outcomes : outcomes[i].status = "pass"
<1>1. opc = "done" /\ total = "pass" /\ apc = "decided" /\ result.decision = "admit"
      /\ subject = newRef
  BY DEF CheckInv, ExitOfTotal, AdmittedBehindGate
<1>2. /\ Len(outcomes) = Len(Profile) /\ Len(input) = Len(Profile)
      /\ \A i \in DOMAIN outcomes : outcomes[i].status = "pass"
  BY <1>1, InvTotal DEF CheckInv
<1>3. DOMAIN outcomes = DOMAIN Profile /\ DOMAIN input = DOMAIN Profile
  BY <1>2, OrchestratorAssumption, LenProperties DEF CheckInv, OrchInv, OrchTyped
<1> QED BY <1>1, <1>2, <1>3

(* Exit code 0, from any directory, with files of any size and whatever     *)
(* touches the workspaces: the publication is allowed by the policy that    *)
(* was found, and every check of the profile had a process for the commit   *)
(* that was admitted and passed.                                            *)
THEOREM GreenRanTheProfile ==
  CheckSpec =>
    [](exit = ExitCheckOK =>
         /\ AllowedBy(FileFound(newRef)) /\ subject = newRef
         /\ Len(input) = Len(Profile) /\ Len(outcomes) = Len(Profile)
         /\ \A i \in DOMAIN Profile : outcomes[i].status = "pass")
<1>1. CheckInv =>
        (exit = ExitCheckOK =>
           /\ AllowedBy(FileFound(newRef)) /\ subject = newRef
           /\ Len(input) = Len(Profile) /\ Len(outcomes) = Len(Profile)
           /\ \A i \in DOMAIN Profile : outcomes[i].status = "pass")
  BY GreenOutcomes, AdmittedByFound DEF CheckInv
<1> QED BY <1>1, CheckInvariant, PTL

(* Exit code 0: the commit that was admitted at the pinned view is the      *)
(* commit whose tree every check of the profile was given and passed        *)
(* (check.go:19-33), but for a file that was touched when the walk of the   *)
(* verifier had read it, if the command is run at the root of the workspace *)
(* and no file is beyond the capture bound.                                 *)
THEOREM GreenMeansAdmittedAndChecked ==
  ASSUME AtRoot, AllFit
  PROVE  CheckSpec => []GreenIsAdmittedAndChecked
<1>1. CheckInv => GreenIsAdmittedAndChecked
  <2> SUFFICES ASSUME CheckInv, exit = ExitCheckOK PROVE GreenIsAdmittedAndChecked
    BY DEF GreenIsAdmittedAndChecked
  <2>1. Allowed
    BY GreenOutcomes, AdmittedIsAllowed DEF CheckInv
  <2>2. InputIsNew
    BY InvInput DEF CheckInv
  <2> QED BY <2>1, <2>2, GreenOutcomes DEF GreenIsAdmittedAndChecked, InputIsNew
<1> QED BY <1>1, CheckInvariant, PTL

(* Every step of `bjj check' brings it nearer to its end, its checks and    *)
(* other programs move none of its control, and nothing follows the exit    *)
(* code: admission is never gone through again, and no turn taken twice     *)
(* (check.go:35-185).                                                       *)
THEOREM NothingIsDoneAgain == CheckSpec => NothingAgain
<1> DEFINE v == <<pc, apc, opc, rpc, ix, todo, unread, exit>>
           A == /\ exit = Running
                /\ \/ exit' # Running
                   \/ StepsLeft' < StepsLeft
                   \/ StepsLeft' = StepsLeft /\ Onward
<1>1. CheckInv /\ [CheckNext]_checkVars => [A]_v
  <2> SUFFICES ASSUME CheckInv, [CheckNext]_checkVars, ~UNCHANGED v PROVE A
    OBVIOUS
  <2>1. CheckNext
    BY DEF checkVars, planVars, admVars, runnerVars, orchVars, walkVars
  <2>2. UNCHANGED <<planVars, admVars>> => StepsLeft' = StepsLeft
    BY DEF StepsLeft, planVars, admVars
  <2>3. CASE exit = Running /\ PlanStep
             /\ UNCHANGED <<repoVars, admVars, runnerVars, orchVars, exit>>
    BY <2>3, StepCounts DEF CheckInv
  <2>4. CASE AdmStep /\ UNCHANGED <<repoVars, planVars, runnerVars, orchVars, exit>>
    BY <2>4, WhileRunning, StepCounts DEF CheckInv
  <2>5. CASE PassGate /\ UNCHANGED <<repoVars, planVars, admVars, exit>>
    BY <2>2, <2>5, Call_Onward DEF PassGate
  <2>6. CASE OrchStep /\ UNCHANGED <<repoVars, planVars, admVars, exit>>
    BY <2>2, <2>6, WhileRunning, OrchStep_Onward DEF CheckInv
  <2>7. CASE End
    <3>1. exit = Running /\ exit' # Running
      BY <2>7 DEF End, EndUsage, EndPlanError, PlanErrorExit, EndAdmissionError, EndNotAdmitted,
                  EndNoParent, EndCheckError, EndResult, StatusExit, Running, ExitCheckOK,
                  ExitCheckInvalidArgs, ExitCheckInfraError, ExitCheckAdmission, ExitCheckFailed
    <3> QED BY <3>1
  <2>8. CASE Outside
    BY <2>8, EnvironmentWaits DEF Outside, planVars, admVars, runnerVars, orchVars, walkVars
  <2> QED BY <2>1, <2>3, <2>4, <2>5, <2>6, <2>7, <2>8 DEF CheckNext, Run
<1> QED BY <1>1, CheckInvariant, PTL DEF CheckSpec, NothingAgain

-----------------------------------------------------------------------------
(* The contract.                                                           *)

\* The command implements what CheckContract takes over from AdmitContract.
LEMMA SameAdmission ==
  /\ Contract!Look => Promise!Look
  /\ Contract!Answer => Promise!Answer
  /\ Contract!GiveUp => Promise!GiveUp
  /\ Contract!Init => Promise!Init
BY DEF Contract!Look, Promise!Look, Contract!GiveUp, Promise!GiveUp, Contract!Answer,
       Promise!Answer, Contract!Init, Promise!Init, Contract!RepoInit, Promise!RepoInit,
       Contract!NoAnswer, Promise!NoAnswer, Contract!GaveUp, Promise!GaveUp, Contract!Answers,
       Promise!Answers, Contract!Truthful, Promise!Truthful, Contract!Blank, Promise!Blank,
       Contract!Rules, Promise!Rules, Contract!Broken, Promise!Broken, Contract!Reportable,
       Promise!Reportable,
       Contract!Subjects, Promise!Subjects, Contract!PolicyOf, Promise!PolicyOf, Contract!Heads,
       Promise!Heads, Contract!DagRange, Promise!DagRange, Contract!RemoteBookmarks,
       Promise!RemoteBookmarks, Contract!NoCommit, Promise!NoCommit, Contract!Root, Promise!Root,
       Contract!repoVars, Promise!repoVars

LEMMA PromiseStutter ==
  UNCHANGED <<repoVars, opID, Said, input, exit>> => [Promise!CheckNext]_(Promise!checkVars)
BY DEF repoVars, Ended, Handed, Promise!checkVars, Promise!vars, Promise!repoVars

\* What the processes were handed grows with the inputs.
LEMMA HandedType ==
  ASSUME input \in Seq(Given)
  PROVE  Handed \in Seq(Workspace) /\ Len(Handed) = Len(input)
<1>1. Len(input) \in Nat /\ DOMAIN input = 1..Len(input)
  BY LenProperties
<1>2. \A i \in 1..Len(input) : input[i].files \in Workspace
  <2> SUFFICES ASSUME NEW i \in 1..Len(input) PROVE input[i].files \in Workspace
    OBVIOUS
  <2>1. input[i] \in Given
    BY ElementOfSeq
  <2> QED BY <2>1 DEF Given
<1> QED BY <1>1, <1>2 DEF Handed

LEMMA HandedAppend ==
  ASSUME input \in Seq(Given), NEW g \in Given, input' = Append(input, g)
  PROVE  Handed' = Append(Handed, g.files)
<1> DEFINE n == Len(input)
<1>1. g.files \in Workspace /\ n \in Nat
  BY LenProperties DEF Given
<1>2. /\ input' \in Seq(Given) /\ Len(input') = n + 1 /\ DOMAIN input = 1..n
      /\ DOMAIN input' = 1..n + 1 /\ input'[n + 1] = g
      /\ \A i \in 1..n : input'[i] = input[i]
  BY AppendProperties, LenProperties
<1>3. Handed \in Seq(Workspace) /\ Len(Handed) = n
  BY HandedType
<1>4. /\ Append(Handed, g.files) \in Seq(Workspace)
      /\ Len(Append(Handed, g.files)) = n + 1
      /\ Append(Handed, g.files)[n + 1] = g.files
      /\ \A i \in 1..n : Append(Handed, g.files)[i] = input[i].files
  BY <1>1, <1>2, <1>3, AppendProperties DEF Handed
<1>5. Handed' \in Seq(Workspace) /\ Len(Handed') = n + 1
  <2>1. \A i \in 1..n + 1 : input'[i].files \in Workspace
    <3> SUFFICES ASSUME NEW i \in 1..n + 1 PROVE input'[i].files \in Workspace
      OBVIOUS
    <3>1. input'[i] \in Given
      BY <1>2, ElementOfSeq
    <3> QED BY <3>1 DEF Given
  <2>2. Handed' = [i \in 1..n + 1 |-> input'[i].files]
    BY <1>2 DEF Handed
  <2> QED BY <1>1, <2>1, <2>2
<1>6. \A i \in 1..n + 1 : Handed'[i] = Append(Handed, g.files)[i]
  BY <1>1, <1>2, <1>4 DEF Handed
<1> HIDE DEF n
<1> QED BY <1>4, <1>5, <1>6, SeqEqual

LEMMA PromiseInit == CheckInit => Promise!CheckInit
<1> SUFFICES ASSUME CheckInit PROVE Promise!CheckInit
  OBVIOUS
<1>1. Contract!Init
  BY DEF CheckInit, PlanInit, AdmInit, RepoInit, Said, NoCommit, Contract!Init,
         Contract!RepoInit, Contract!NoAnswer, Contract!NoCommit
<1>2. Handed = <<>>
  BY DEF CheckInit, OrchIdle, Handed
<1> QED BY <1>1, <1>2, SameAdmission DEF CheckInit, Ended, Promise!CheckInit

\* Admission is the admission of the contract.
LEMMA AdmittingMaps ==
  ASSUME [Contract!Next]_(Contract!vars), UNCHANGED <<repoVars, input, exit>>, exit = Running
  PROVE  [Promise!CheckNext]_(Promise!checkVars)
<1>1. Ended = "none" /\ Ended' = Ended /\ Handed' = Handed
  BY DEF Ended, Handed
<1>2. CASE Contract!Look \/ Contract!Answer \/ Contract!GiveUp
  BY <1>1, <1>2, SameAdmission DEF Promise!CheckNext, Promise!Admitting
<1>3. CASE UNCHANGED <<opID, Said>>
  BY <1>3, PromiseStutter
<1> QED BY <1>2, <1>3 DEF Contract!Next, Contract!vars

\* What the command says while the orchestrator works.
LEMMA SaidBehindGate ==
  ASSUME CheckInv, opc # "idle"
  PROVE  Said.decision = "admit" /\ Said.new = subject
BY DEF CheckInv, AdmittedBehindGate, AdmInv, InOrder, Said

\* A process that starts gets the tree of the commit that was admitted.
LEMMA OrchStepMaps ==
  ASSUME Quiet, AllFit, CheckInv, CheckInv', OrchStep,
         UNCHANGED <<repoVars, planVars, admVars, exit>>
  PROVE  [Promise!CheckNext]_(Promise!checkVars)
<1> DEFINE n == Len(input)
<1>1. opc # "idle" /\ exit = Running /\ subject' = subject
  BY OrchStepBehindGate, WhileRunning
<1>2. /\ Ended = "none" /\ Ended' = Ended
      /\ Said' = Said /\ opID' = opID
  BY <1>1 DEF Ended, Said, planVars, admVars
<1>3. Said.decision = "admit" /\ Said.new = subject
  BY <1>1, SaidBehindGate
<1>4. CASE input' = input
  BY <1>2, <1>4, PromiseStutter
<1>5. CASE input' # input
  <2> DEFINE g == [files |-> ws, late |-> late]
  <2>1. input \in Seq(Given) /\ input' \in Seq(Given) /\ n \in Nat
    BY LenProperties DEF CheckInv, OrchInv, OrchTyped
  <2>2. RunCheck
    BY <1>5 DEF OrchStep, ListTree, MaterializeFile, BeginWalk, ReadBack, Compare, StartCheck,
                Collect, Finish
  <2>3. input' = Append(input, g) /\ g \in Given /\ g.files = ws
    BY <1>5, <2>2 DEF RunCheck, Given, CheckInv, OrchInv, OrchTyped
  <2> HIDE DEF g
  <2>4. Len(input') = n + 1 /\ input'[n + 1] = g
    BY <2>1, <2>3
  <2>5. ws = Exact(subject)
    <3>1. /\ subject' \in Candidate /\ InputIsShown' /\ NothingLate' /\ ws \in Workspace
          /\ AsShown(subject)' = AsShown(subject)
      BY <1>1 DEF CheckInv, OrchInv, OrchTyped, NewInput, AsShown, Tracked
    <3>2. n + 1 \in DOMAIN input'
      BY <2>1, <2>4
    <3>3. g.late = {}
      BY <2>4, <3>1, <3>2 DEF NothingLate, Undisturbed
    <3>4. \A p \in Path : ws[p] = AsShown(subject)[p]
      BY <2>3, <2>4, <3>1, <3>2, <3>3 DEF InputIsShown
    <3>5. ws = AsShown(subject)
      BY <3>1, <3>4 DEF AsShown, Workspace
    <3> QED BY <1>1, <3>1, <3>5, CompleteIsExact
  <2>6. n < Len(Profile)
    <3>1. Len(input') <= Len(outcomes') + 1 /\ Len(outcomes') = ix' - 1 /\ ix' <= Len(Profile)
      <4>1. opc' = "running"
        BY <2>2 DEF RunCheck
      <4>2. OrchTyped' /\ InputsCounted' /\ TurnOfProfile'
        BY DEF CheckInv, OrchInv
      <4>3. Len(outcomes') \in Nat /\ ix' \in Nat
        BY <4>2, LenProperties DEF OrchTyped
      <4> QED BY <4>1, <4>2, <4>3 DEF InputsCounted, TurnOfProfile, Working
    <3>2. ix' \in Nat /\ Len(Profile) \in Nat
      BY OrchestratorAssumption, LenProperties DEF CheckInv, OrchInv, OrchTyped
    <3> QED BY <2>1, <2>4, <3>1, <3>2
  <2>7. Handed' = Append(Handed, Exact(subject)) /\ Len(Handed) = n
    BY <2>1, <2>3, <2>5, HandedAppend, HandedType
  <2>8. Promise!StartProcess
    BY <1>2, <1>3, <2>6, <2>7
    DEF repoVars, Promise!StartProcess, Promise!vars, Promise!repoVars
  <2> QED BY <2>8 DEF Promise!CheckNext
<1> QED BY <1>4, <1>5

LEMMA DecisionMade ==
  ASSUME AdmInv, apc = "decided", result.decision # "admit"
  PROVE  result.decision \in {"deny", "not_needed"}
BY DEF AdmInv, ResultOfFacts, EvaluateFacts

\* Each exit code ends the contract in its own way.
LEMMA EndMaps ==
  ASSUME CheckInv, End
  PROVE  [Promise!CheckNext]_(Promise!checkVars)
<1>1. /\ exit = Running /\ Ended = "none"
      /\ UNCHANGED <<repoVars, opID, Said, input>>
  BY DEF End, EndUsage, EndPlanError, EndAdmissionError, EndNotAdmitted, EndNoParent,
         EndCheckError, EndResult, RemoveParent, Ended, Said, planVars, admVars, orchVars
<1>6. Len(Handed) = Len(input) /\ Handed' = Handed
  BY <1>1, HandedType DEF CheckInv, OrchInv, OrchTyped, Handed
<1>2. SUFFICES \/ Ended' = "passed" /\ Said.decision = "admit" /\ Len(input) = Len(Profile)
               \/ Ended' = "failed" /\ Said.decision = "admit"
               \/ Ended' = "refused" /\ Said.decision \in {"deny", "not_needed"}
               \/ Ended' = "gave up"
  BY <1>1, <1>6
  DEF repoVars, Promise!CheckNext, Promise!End, Promise!vars, Promise!repoVars
<1> USE DEF Running, ExitCheckOK, ExitCheckInvalidArgs, ExitCheckInfraError, ExitCheckAdmission,
            ExitCheckFailed
<1>3. CASE EndUsage \/ EndPlanError \/ EndAdmissionError \/ EndNoParent \/ EndCheckError
  BY <1>3 DEF EndUsage, EndPlanError, PlanErrorExit, EndAdmissionError, EndNoParent,
              EndCheckError, Ended
<1>4. CASE EndNotAdmitted
  <2>1. result.decision \in {"deny", "not_needed"}
    BY <1>4, DecisionMade DEF EndNotAdmitted, CheckInv
  <2>2. Said.decision = result.decision
    BY <1>4 DEF EndNotAdmitted, CheckInv, AdmInv, InOrder, Said
  <2> QED BY <1>4, <2>1, <2>2 DEF EndNotAdmitted, Ended
<1>5. CASE EndResult
  <2>1. opc = "done" /\ exit' \in {StatusExit(total), ExitCheckInfraError}
    BY <1>5 DEF EndResult
  <2>2. Said.decision = "admit"
    BY <2>1, SaidBehindGate
  <2>3. total = "pass" => Len(input) = Len(Profile)
    BY <2>1, InvTotal DEF CheckInv
  <2> QED BY <2>1, <2>2, <2>3 DEF StatusExit, Ended
<1> QED BY <1>3, <1>4, <1>5 DEF End

LEMMA OutsideMaps ==
  ASSUME CheckInv, Outside
  PROVE  [Promise!CheckNext]_(Promise!checkVars)
<1>1. CASE RepoNext /\ UNCHANGED <<planVars, admVars, runnerVars, orchVars, exit>>
  BY <1>1
  DEF repoVars, planVars, admVars, orchVars, Said, Ended, Handed, RepoNext, Mutate, EditRemotes,
      Promise!CheckNext, Promise!RepoNext, Promise!Mutate, Promise!EditRemotes
<1>2. CASE Environment /\ UNCHANGED <<repoVars, planVars, admVars, exit>>
  BY <1>2, EnvironmentKeeps, PromiseStutter DEF planVars, admVars, Said
<1> QED BY <1>1, <1>2 DEF Outside

LEMMA PromiseNext ==
  AtRoot /\ Quiet /\ AllFit /\ CheckInv /\ CheckInv' /\ [CheckNext]_checkVars
    => [Promise!CheckNext]_(Promise!checkVars)
<1> SUFFICES ASSUME AtRoot, Quiet, AllFit, CheckInv, CheckInv', [CheckNext]_checkVars
             PROVE  [Promise!CheckNext]_(Promise!checkVars)
  OBVIOUS
<1>1. CASE exit = Running /\ PlanStep
           /\ UNCHANGED <<repoVars, admVars, runnerVars, orchVars, exit>>
  BY <1>1, PlanStepMaps, AdmittingMaps DEF CheckInv, orchVars
<1>2. CASE AdmStep /\ UNCHANGED <<repoVars, planVars, runnerVars, orchVars, exit>>
  BY <1>2, AdmStepMaps, AdmittingMaps, WhileRunning DEF CheckInv, orchVars
<1>3. CASE PassGate /\ UNCHANGED <<repoVars, planVars, admVars, exit>>
  BY <1>3, PromiseStutter DEF PassGate, planVars, admVars, Said
<1>4. CASE OrchStep /\ UNCHANGED <<repoVars, planVars, admVars, exit>>
  BY <1>4, OrchStepMaps
<1>5. CASE End
  BY <1>5, EndMaps
<1>6. CASE Outside
  BY <1>6, OutsideMaps
<1>7. CASE UNCHANGED checkVars
  BY <1>7, PromiseStutter DEF checkVars, planVars, admVars, orchVars, Said
<1> QED BY <1>1, <1>2, <1>3, <1>4, <1>5, <1>6, <1>7 DEF CheckNext, Run

(* `bjj check' implements its contract, whatever its checks and other       *)
(* programs do between its steps: one look, one truthful answer, the tree   *)
(* of the admitted commit for each check and one end (check.go:19-33).  It  *)
(* is run at the root of the workspace, other programs stay away from a     *)
(* workspace that has been written, and no file is beyond the capture bound. *)
THEOREM CheckKeepsItsPromise ==
  ASSUME AtRoot, Quiet, AllFit
  PROVE  CheckSpec => PromiseSpec
BY PromiseInit, PromiseNext, CheckInvariant, PTL DEF CheckSpec, PromiseSpec, Promise!CheckSpec

\* Behind the gate and at the end nothing is looked at or answered again.
LEMMA SaidOnce ==
  AtRoot /\ CheckInv /\ [CheckNext]_checkVars => [Contract!Next]_(Contract!vars)
<1> SUFFICES ASSUME AtRoot, CheckInv, [CheckNext]_checkVars PROVE [Contract!Next]_(Contract!vars)
  OBVIOUS
<1>1. CASE PlanStep /\ UNCHANGED <<repoVars, admVars>>
  BY <1>1, PlanStepMaps DEF CheckInv
<1>2. CASE AdmStep /\ UNCHANGED <<repoVars, planVars>>
  BY <1>2, AdmStepMaps DEF CheckInv
<1>3. CASE RepoNext /\ UNCHANGED <<planVars, admVars>>
  BY <1>3, ContractSteps DEF planVars, admVars, Said
<1>4. CASE UNCHANGED <<repoVars, planVars, admVars>>
  BY <1>4, ContractSteps DEF planVars, admVars, Said
<1> QED BY <1>1, <1>2, <1>3, <1>4 DEF CheckNext, Run, Outside, End, checkVars

(* `bjj check' answers for a publication as `bjj admit' does, whatever is    *)
(* in the workspaces and whatever its checks do: one look, one truthful      *)
(* answer, which the checks cannot change (check.go:19-33).                  *)
THEOREM CheckAnswersAsAdmit ==
  ASSUME AtRoot
  PROVE  CheckSpec => Contract!Spec
<1>1. CheckInit => Contract!Init
  BY DEF CheckInit, PlanInit, AdmInit, RepoInit, Said, NoCommit, Contract!Init,
         Contract!RepoInit, Contract!NoAnswer, Contract!NoCommit
<1> QED BY <1>1, SaidOnce, CheckInvariant, PTL DEF CheckSpec, Contract!Spec
=============================================================================
