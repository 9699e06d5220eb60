---------------------------- MODULE CheckContract ----------------------------
(***************************************************************************)
(* What `bjj check' promises, without its subprocesses: it looks and       *)
(* answers as `bjj admit' does, and when the answer is to admit, the       *)
(* checks of the profile are given the tree of the commit of that answer,  *)
(* one after the other; then it ends, or it gives up at any time.  Module  *)
(* CheckCmd is shown to implement it.                                      *)
(***************************************************************************)
EXTENDS AdmitContract

CONSTANTS
  Profile,    \* the checks
  TreeOf(_)   \* the files of a commit

VARIABLES
  given,    \* what the processes of the checks were started on
  end       \* how the command ended

checkVars == <<vars, given, end>>

CheckInit ==
  /\ Init
  /\ given = <<>>
  /\ end = "none"

\* The admission, which is over when the command ends.
Admitting ==
  /\ end = "none"
  /\ Look \/ Answer \/ GiveUp
  /\ UNCHANGED <<given, end>>

\* A check of the profile gets the tree of the commit that was admitted.
StartProcess ==
  /\ end = "none" /\ answer.decision = "admit"
  /\ Len(given) < Len(Profile)
  /\ given' = Append(given, TreeOf(answer.new))
  /\ UNCHANGED <<vars, end>>

\* All checks passed, so all of them had a process; a check failed; the
\* publication is denied or not needed; no result.
End ==
  /\ end = "none"
  /\ \/ end' = "passed" /\ answer.decision = "admit" /\ Len(given) = Len(Profile)
     \/ end' = "failed" /\ answer.decision = "admit"
     \/ end' = "refused" /\ answer.decision \in {"deny", "not_needed"}
     \/ end' = "gave up"
  /\ UNCHANGED <<vars, given>>

\* Other programs go on when the command has ended.
CheckNext ==
  \/ Admitting \/ StartProcess \/ End
  \/ RepoNext /\ UNCHANGED <<pinned, answer, given, end>>

CheckSpec == CheckInit /\ [][CheckNext]_checkVars
=============================================================================
