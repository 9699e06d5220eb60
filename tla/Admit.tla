-------------------------------- MODULE Admit --------------------------------
(***************************************************************************)
(* cmd/bjj: the commands `bjj plan' and `bjj admit'.  runPlan resolves the *)
(* plan and prints it.  runAdmit resolves the plan, loads the policy,      *)
(* gathers the facts, evaluates them and turns the outcome into an exit    *)
(* code.  Meanwhile other programs change the repository.                  *)
(***************************************************************************)
EXTENDS Admission

VARIABLES
  cmd,     \* the command
  exit     \* the exit code, Running before the command ends

Running     == -1
ExitOK      == 0
ExitAdmitOK == 0
ExitInvalidArgs   == 1
ExitInternalError == 2
ExitAdmitDenied   == 3    \* and exitAdmitNotNeeded

cmdVars == <<cmd, exit>>

admitVars == <<repoVars, planVars, admVars, cmdVars>>

AdmitInit ==
  /\ RepoInit /\ PlanInit /\ AdmInit
  /\ cmd \in {"plan", "admit"}
  /\ exit = Running

\* The arguments are refused before anything is read.
EndUsage ==
  /\ exit = Running /\ pc = "pin"
  /\ exit' = ExitInvalidArgs

\* The exit code for an error of the resolver, the same for both commands.
PlanErrorExit(code) ==
  IF code \in {"LOCAL_BOOKMARK_NOT_FOUND", "REMOTE_NOT_FOUND"}
  THEN ExitInvalidArgs ELSE ExitInternalError

DecisionExit(d) == IF d = "admit" THEN ExitAdmitOK ELSE ExitAdmitDenied

\* Faulty variant: the switch has no default.
FaultyEndPlanError ==
  /\ exit = Running /\ pc = "failed"
  /\ err \in {"LOCAL_BOOKMARK_NOT_FOUND", "REMOTE_NOT_FOUND"}
  /\ exit' = ExitInvalidArgs

EndPlanError ==
  /\ exit = Running /\ pc = "failed"
  /\ exit' = PlanErrorExit(err)

\* `bjj plan' is done; the text renderer reports a failed write.
EndPlan ==
  /\ exit = Running /\ cmd = "plan" /\ pc = "planned"
  /\ exit' \in {ExitOK, ExitInternalError}

EndAdmissionError ==
  /\ exit = Running /\ apc = "failed"
  /\ exit' = ExitInternalError

\* The text renderer reports a failed write, which turns into exit code 2.
EndDecision ==
  /\ exit = Running /\ apc = "decided"
  /\ exit' \in {DecisionExit(result.decision), ExitInternalError}

Finish ==
  /\ EndUsage \/ EndPlanError \/ EndPlan \/ EndAdmissionError \/ EndDecision
  /\ UNCHANGED <<repoVars, planVars, admVars, cmd>>

\* One step of the command itself.
Run ==
  \/ exit = Running /\ PlanStep /\ UNCHANGED <<repoVars, admVars, cmdVars>>
  \/ cmd = "admit" /\ AdmStep /\ UNCHANGED <<repoVars, planVars, cmdVars>>
  \/ Finish

AdmitNext ==
  \/ Run
  \/ RepoNext /\ UNCHANGED <<planVars, admVars, cmdVars>>

AdmitSpec == AdmitInit /\ [][AdmitNext]_admitVars

\* The command is one goroutine, and every jj subprocess is taken to return.
FairAdmitSpec == AdmitSpec /\ WF_admitVars(Run)

AdmitTypeOK ==
  /\ RepoTypeOK /\ PlanTypeOK /\ AdmTypeOK
  /\ cmd \in {"plan", "admit"}
  /\ exit \in {Running, ExitAdmitOK, ExitInvalidArgs, ExitInternalError, ExitAdmitDenied}

-----------------------------------------------------------------------------
(* Exit code 0 of `bjj admit' is a licence to publish.  It is given only   *)
(* when, at the one pinned view, the plan's NEW is the local bookmark, the *)
(* policy committed in NEW allows the move, and no commit of the plan is   *)
(* private, carries a conflict or lacks a description against that policy  *)
(* (runAdmit, admit.go:46-159), however the repository changed meanwhile   *)
(* and from whichever directory of the workspace the command is run.       *)
AdmitSound == cmd = "admit" /\ exit = ExitAdmitOK => Allowed

(* Exit code 0 together with PlanCoversPublication: with one remote, no    *)
(* commit that publication would newly send to it breaks the policy of     *)
(* the commit being published.                                             *)
NothingPrivateIsLicensed ==
  cmd = "admit" /\ exit = ExitAdmitOK /\ PolicyFile[newRef].outcome = "LOADED" =>
    (Anc[newRef] \ (Published(View, R) \cup {Root}))
      \cap Match(PolicyFile[newRef].policy.private, View) = {}

(* A PRIVATE_COMMIT denial names a real private commit: facts.go:88-96     *)
(* says the predicate is "restricted to exactly that subject set via       *)
(* `subject & predicate`".                                                 *)
PrivateReasonJustified ==
  "PRIVATE_COMMIT" \in result.reasons => commits \cap Match(policy.private, View) # {}

(* The subprocesses of a run, interleaved with everybody else's commands,  *)
(* amount to one look at the repository and one truthful answer about it.  *)
ContractSpec == Contract!Spec

(* Whatever the others do to the repository, a command never starts over:  *)
(* each of its steps brings it nearer to its end, no query is asked twice, *)
(* nothing is asked once the exit code is given, and it is given once      *)
(* (resolve.go:166-270, admit.go:46-159 have no loop over jj).             *)
NothingTwice ==
  [][exit = Running /\ (exit' # Running \/ StepsLeft' < StepsLeft)]_<<planVars, admVars, cmdVars>>

(* Every run ends with an exit code, whatever the others do (they cannot   *)
(* make bjj start over: nothing is retried or pinned twice).               *)
Terminates == <>(exit # Running)
=============================================================================
