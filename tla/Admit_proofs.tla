---------------------------- MODULE Admit_proofs ----------------------------
(***************************************************************************)
(* Proofs about `bjj admit': what an exit code of 0 guarantees, and that   *)
(* the command implements the contract of module AdmitContract: of its     *)
(* dozen subprocesses, PinOperation is the contract's Look, Evaluate its   *)
(* Answer, a failure its GiveUp, and every other step changes nothing that *)
(* the contract speaks of.                                                 *)
(***************************************************************************)
EXTENDS Admit, Admission_proofs

\* Exit code 0 of `bjj admit' reports a decision to admit.
ExitOfDecision ==
  cmd = "admit" /\ exit = ExitAdmitOK => apc = "decided" /\ result.decision = "admit"

\* A command that has ended has nothing left to ask.
EndsAtRest ==
  exit # Running => cmd = "plan" \/ pc \in {"pin", "failed"} \/ apc \in {"failed", "decided"}

AdmitInv == AdmInv /\ AdmitTypeOK /\ ExitOfDecision /\ EndsAtRest

LEMMA AdmitInit_Inv == AdmitInit => AdmitInv
<1> SUFFICES ASSUME AdmitInit PROVE AdmitInv
  OBVIOUS
<1>1. AdmInv
  BY PlanInit_Inv, AdmInit_Inv DEF AdmitInit, Init
<1> QED BY <1>1 DEF AdmitInit, AdmitInv, AdmInv, AdmitTypeOK, PlanInv, TypeOK, ExitOfDecision,
                    EndsAtRest, Running, ExitAdmitOK

\* The exit code reports the end of the run and nothing else changes.
LEMMA Finish_Inv ==
  ASSUME AdmitInv, Finish
  PROVE  AdmitInv'
<1>1. AdmInv'
  BY AdmStutter_Inv DEF AdmitInv, Finish
<1>2. exit' \in {ExitAdmitOK, ExitInvalidArgs, ExitInternalError, ExitAdmitDenied}
  BY DEF Finish, EndUsage, EndPlanError, PlanErrorExit, EndPlan, EndAdmissionError, EndDecision,
         DecisionExit, ExitOK, ExitAdmitOK
<1>3. AdmitTypeOK'
  BY <1>1, <1>2 DEF AdmitInv, AdmInv, AdmitTypeOK, PlanInv, TypeOK, Finish
<1>4. ExitOfDecision'
  BY DEF AdmitInv, ExitOfDecision, Finish, admVars, EndUsage, EndPlanError, PlanErrorExit, EndPlan,
         EndAdmissionError, EndDecision, DecisionExit, ExitAdmitOK, ExitInvalidArgs,
         ExitInternalError, ExitAdmitDenied
<1>5. EndsAtRest'
  BY DEF EndsAtRest, Finish, planVars, admVars, EndUsage, EndPlanError, EndPlan, EndAdmissionError,
         EndDecision
<1> QED BY <1>1, <1>3, <1>4, <1>5 DEF AdmitInv

\* Admission has steps while the command runs only.
LEMMA WhileRunning ==
  ASSUME AdmitInv, cmd = "admit", AdmStep
  PROVE  exit = Running /\ apc # "decided"
BY DEF AdmStep, LoadPolicy, GatherMove, GatherPrivate, RefuseBlank, GatherObs, Evaluate,
       AdmQueryFails, AsksJJ, AdmitInv, EndsAtRest

LEMMA AdmitNext_Inv == AdmitInv /\ [AdmitNext]_admitVars => AdmitInv'
<1> SUFFICES ASSUME AdmitInv, [AdmitNext]_admitVars PROVE AdmitInv'
  OBVIOUS
<1>1. CASE /\ UNCHANGED cmdVars /\ AdmInv' /\ (apc = "decided" => UNCHANGED admVars)
           /\ exit = Running \/ UNCHANGED <<planVars, admVars>>
  BY <1>1 DEF AdmitInv, AdmInv, AdmitTypeOK, PlanInv, TypeOK, ExitOfDecision, EndsAtRest, planVars,
              admVars, cmdVars
<1>2. CASE exit = Running /\ PlanStep /\ UNCHANGED <<repoVars, admVars, cmdVars>>
  BY <1>1, <1>2, OtherStep_Inv DEF AdmitInv
<1>3. CASE RepoNext /\ UNCHANGED <<planVars, admVars, cmdVars>>
  BY <1>1, <1>3, OtherStep_Inv DEF AdmitInv
<1>4. CASE cmd = "admit" /\ AdmStep /\ UNCHANGED <<repoVars, planVars, cmdVars>>
  BY <1>1, <1>4, WhileRunning, AdmStep_Inv DEF AdmitInv
<1>5. CASE Finish
  BY <1>5, Finish_Inv
<1>6. CASE UNCHANGED admitVars
  BY <1>1, <1>6, AdmStutter_Inv DEF AdmitInv, admitVars
<1> QED BY <1>2, <1>3, <1>4, <1>5, <1>6 DEF AdmitNext, Run

(* AdmitInv is an invariant of the command beside other programs.          *)
THEOREM AdmitInvariant == AdmitSpec => []AdmitInv
BY AdmitInit_Inv, AdmitNext_Inv, PTL DEF AdmitSpec

-----------------------------------------------------------------------------
LEMMA InvSound == AtRoot /\ AdmitInv => AdmitSound
BY AdmittedIsAllowed DEF AdmitInv, ExitOfDecision, AdmitSound

\* Every variable of the command stays in its type.
THEOREM AdmitTypeCorrect == AdmitSpec => []AdmitTypeOK
<1>1. AdmitInv => AdmitTypeOK
  BY DEF AdmitInv
<1> QED BY <1>1, AdmitInvariant, PTL

\* The plan that `bjj plan' prints and `bjj admit' judges is that of the pinned
\* view, and with a single remote it holds every commit that publication would
\* send: the commands add nothing that could disturb the resolver.
THEOREM PlanOfTheCommand ==
  /\ AdmitSpec => []PlanOfOneView
  /\ Remote = {R} => (AdmitSpec => []PlanCoversPublication)
<1>1. AdmitInv => PlanOfOneView
  BY InvPlan DEF AdmitInv, AdmInv
<1>2. ASSUME Remote = {R} PROVE AdmitInv => PlanCoversPublication
  BY <1>2, InvCovers DEF AdmitInv, AdmInv
<1>3. AdmitSpec => []PlanOfOneView
  BY <1>1, AdmitInvariant, PTL
<1>4. ASSUME Remote = {R} PROVE AdmitSpec => []PlanCoversPublication
  BY <1>2, <1>4, AdmitInvariant, PTL
<1> QED BY <1>3, <1>4

\* Run at the root of the workspace, `bjj admit' exits with 0 only when, at the
\* one pinned view, the policy of the commit being published allows the move
\* and every commit of the plan.
THEOREM AdmitIsSound ==
  ASSUME AtRoot
  PROVE  AdmitSpec => []AdmitSound
BY InvSound, AdmitInvariant, PTL

\* From whichever directory `bjj admit' is run, it exits with 0 only when the
\* policy it found (the one of NEW, or the defaults where the file is not
\* found) allows the move and every commit of the plan at the pinned view.
THEOREM AdmitFollowsWhatItFinds ==
  AdmitSpec => [](cmd = "admit" /\ exit = ExitAdmitOK => AllowedBy(FileFound(newRef)))
<1>1. AdmitInv =>
        (cmd = "admit" /\ exit = ExitAdmitOK => AllowedBy(FileFound(newRef)))
  BY AdmittedByFound DEF AdmitInv, ExitOfDecision
<1> QED BY <1>1, AdmitInvariant, PTL

\* Of NEW's history, what exit code 0 licenses and no remote is known to have.
NewToAll == Anc[newRef] \ (KnownToRemotes(View) \cup {Root})

NothingSecretIsLicensed ==
  cmd = "admit" /\ exit = ExitAdmitOK /\ PolicyFile[newRef].outcome = "LOADED" =>
    NewToAll \cap Match(PolicyFile[newRef].policy.private, View) = {}

\* However many remotes there are, exit code 0 licenses no private commit that
\* none of them is known to have: only what some remote already holds can slip
\* past the private set.
THEOREM NoSecretLicence ==
  ASSUME AtRoot
  PROVE  AdmitSpec => []NothingSecretIsLicensed
<1>1. AdmitInv => NothingSecretIsLicensed
  <2> SUFFICES ASSUME AdmitInv, cmd = "admit", exit = ExitAdmitOK,
                      PolicyFile[newRef].outcome = "LOADED"
               PROVE  NothingSecretIsLicensed
    BY DEF NothingSecretIsLicensed
  <2>1. commits \cap Match(PolicyFile[newRef].policy.private, View) = {}
    BY InvSound DEF AdmitSound, Allowed
  <2>2. NewToAll \subseteq commits
    BY InvCoversUnknown DEF AdmitInv, AdmInv, InOrder, ExitOfDecision, View, NewToAll
  <2> QED BY <2>1, <2>2 DEF NothingSecretIsLicensed
<1> QED BY <1>1, AdmitInvariant, PTL

\* With one remote, nothing that publication would newly send to it matches
\* the private set of the commit being published.
THEOREM NoPrivateLicence ==
  ASSUME AtRoot, Remote = {R}
  PROVE  AdmitSpec => []NothingPrivateIsLicensed
<1>1. AdmitInv => NothingPrivateIsLicensed
  <2> SUFFICES ASSUME AdmitInv, cmd = "admit", exit = ExitAdmitOK,
                      PolicyFile[newRef].outcome = "LOADED"
               PROVE  NothingPrivateIsLicensed
    BY DEF NothingPrivateIsLicensed
  <2>1. commits \cap Match(PolicyFile[newRef].policy.private, View) = {}
    BY InvSound DEF AdmitSound, Allowed
  <2>2. Anc[newRef] \ (Published(View, R) \cup {Root}) \subseteq commits
    BY InvCovers DEF AdmitInv, AdmInv, InOrder, ExitOfDecision, PlanCoversPublication, View
  <2> QED BY <2>1, <2>2 DEF NothingPrivateIsLicensed
<1> QED BY <1>1, AdmitInvariant, PTL

\* A command never starts over: whatever other programs do, each step of it
\* uses up one of the steps that were left, or gives the exit code, once and
\* last.  With the fairness of FairAdmitSpec this is why a command ends.
THEOREM NothingIsAskedTwice == AdmitSpec => NothingTwice
<1>1. AdmitInv /\ [AdmitNext]_admitVars =>
        [exit = Running
         /\ (exit' # Running \/ StepsLeft' < StepsLeft)]_<<planVars, admVars, cmdVars>>
  <2> SUFFICES ASSUME AdmitInv, AdmitNext, ~UNCHANGED <<planVars, admVars, cmdVars>>
               PROVE  exit = Running /\ (exit' # Running \/ StepsLeft' < StepsLeft)
    BY DEF admitVars
  <2>1. CASE exit = Running /\ PlanStep /\ UNCHANGED <<repoVars, admVars, cmdVars>>
    BY <2>1, StepCounts DEF AdmitInv
  <2>2. CASE cmd = "admit" /\ AdmStep /\ UNCHANGED <<repoVars, planVars, cmdVars>>
    BY <2>2, WhileRunning, StepCounts DEF AdmitInv
  <2>3. CASE Finish
    BY <2>3 DEF Finish, EndUsage, EndPlanError, PlanErrorExit, EndPlan, EndAdmissionError,
                EndDecision, DecisionExit, Running, ExitOK, ExitAdmitOK, ExitInvalidArgs,
                ExitInternalError, ExitAdmitDenied
  <2> QED BY <2>1, <2>2, <2>3 DEF AdmitNext, Run
<1> QED BY <1>1, AdmitInvariant, PTL DEF AdmitSpec, NothingTwice

-----------------------------------------------------------------------------
(* The contract.                                                           *)

LEMMA ContractInit == AdmitInit => Contract!Init
BY DEF AdmitInit, PlanInit, AdmInit, RepoInit, Said, NoCommit, Contract!Init,
       Contract!RepoInit, Contract!NoAnswer, Contract!NoCommit

LEMMA ContractNext ==
  AtRoot /\ AdmitInv /\ [AdmitNext]_admitVars => [Contract!Next]_(Contract!vars)
<1> SUFFICES ASSUME AtRoot, AdmitInv, [AdmitNext]_admitVars PROVE [Contract!Next]_(Contract!vars)
  OBVIOUS
<1>1. CASE PlanStep /\ UNCHANGED <<repoVars, admVars, cmdVars>>
  BY <1>1, PlanStepMaps DEF AdmitInv
<1>2. CASE AdmStep /\ UNCHANGED <<repoVars, planVars, cmdVars>>
  BY <1>2, AdmStepMaps DEF AdmitInv
<1>3. CASE RepoNext /\ UNCHANGED <<planVars, admVars, cmdVars>>
  BY <1>3, ContractSteps DEF planVars, admVars, Said
<1>4. CASE Finish \/ UNCHANGED admitVars
  BY <1>4, ContractSteps DEF Finish, admitVars, planVars, admVars, Said
<1> QED BY <1>1, <1>2, <1>3, <1>4 DEF AdmitNext, Run

\* The command implements its contract: whatever other programs do between
\* its subprocesses, a run at the root of the workspace amounts to one look at
\* the repository and one truthful answer about it.
THEOREM AdmitImplementsContract ==
  ASSUME AtRoot
  PROVE  AdmitSpec => ContractSpec
BY ContractInit, ContractNext, AdmitInvariant, PTL DEF AdmitSpec, ContractSpec, Contract!Spec
=============================================================================
