--------------------------------- MODULE Lab ---------------------------------
(***************************************************************************)
(* internal/lab: the publication laboratory.  Run probes the tools, sets   *)
(* up a lab (a bare remote, a seed, a git clone and a jj clone of it under *)
(* one temporary directory), makes two control observations in labs of     *)
(* their own and one of a push that must fail, and reports what it saw.    *)
(*                                                                         *)
(* Run is one goroutine.  Any git or jj command, directory or removal may  *)
(* fail at any point; when the context is cancelled all that follow do.    *)
(***************************************************************************)
EXTENDS Naturals, Sequences

\* The lab of Run, and those of the two controls.
Labs == {"main", "git", "jj"}

\* What the two probes leave behind: homeDirs("") makes a directory.
VersionHomes == {"home-jj", "home-git"}

VARIABLES
  lpc,       \* the step of Run that is next
  cur,       \* the lab it works in
  built,     \* the commands of Setup that have run in it
  remote,    \* remote[l]: refs/heads/feature in the bare remote of lab l
  seen,      \* what rev-parse said of it before a push, "" when it failed
  dirs,      \* the temporary directories that exist
  ev,        \* the observations Evidence claims
  reason,    \* its FailureReason is set
  lerr,      \* Run returns an error
  stuck,     \* history: directories whose removal failed
  started,   \* history: git was started for the push that must fail
  trouble    \* history: something went otherwise than on a machine that works

labVars == <<lpc, cur, built, remote, seen, dirs, ev, reason, lerr, stuck, started, trouble>>

\* Faulty variant: the candidate is made before jj knows its user.
FaultySetupSteps ==
  <<"init", "seed", "clone", "identity", "jj clone", "jj identity", "rename", "candidate",
    "user.name", "user.email">>

\* The commands of Setup; seedBare, the candidate and configureTestIdentity are
\* several each.
SetupSteps ==
  <<"init", "seed", "clone", "identity", "jj clone", "jj identity", "rename", "user.name",
    "user.email", "candidate">>

\* The commits of the git client and of the jj client; "anonymous" is one made
\* before jj knew its user.
Pushed == {"git", "jj", "anonymous"}

Observations == {"git", "jj", "transport", "unchanged"}

LabTypeOK ==
  /\ lpc \in {"jj version", "git version", "mkdir", "setup", "prepare", "before", "push",
              "verify", "nbefore", "npush", "nafter", "cleanup", "returned"}
  /\ cur \in Labs
  /\ built \in 0..Len(SetupSteps)
  /\ remote \in [Labs -> Pushed \cup {"absent"}]
  /\ seen \in Pushed \cup {""}
  /\ dirs \subseteq Labs \cup VersionHomes /\ stuck \subseteq Labs
  /\ ev \subseteq Observations
  /\ {reason, lerr, started, trouble} \subseteq BOOLEAN

LabInit ==
  /\ lpc = "jj version" /\ cur = "main" /\ built = 0
  /\ remote = [l \in Labs |-> "absent"] /\ seen = ""
  /\ dirs = {} /\ stuck = {}
  /\ ev = {} /\ reason = FALSE /\ lerr = FALSE /\ started = FALSE /\ trouble = FALSE

-----------------------------------------------------------------------------
\* Cleanup of the current lab, or RemoveAll of a root without a home; its error
\* is ignored.
Cleanup ==
  \/ dirs' = dirs \ {cur} /\ UNCHANGED stuck
  \/ /\ cur \in dirs \/ lpc = "mkdir"
     /\ dirs' = dirs \cup {cur} /\ stuck' = stuck \cup {cur}

\* The return of Run, or of runIsolated with the Cleanup of Run to come.
Leave ==
  IF cur = "main" THEN lpc' = "returned" /\ UNCHANGED cur
  ELSE lpc' = "cleanup" /\ cur' = "main"

\* Faulty variant: a failure leaves the lab where it is.
FaultyFail ==
  /\ reason' = TRUE /\ lerr' = TRUE
  /\ Leave
  /\ UNCHANGED <<dirs, stuck>>

\* A step in a lab fails: the lab is removed, by Setup or by a deferred Cleanup,
\* and the first error becomes the FailureReason.
Fail ==
  /\ reason' = TRUE /\ lerr' = TRUE
  /\ Cleanup
  /\ Leave

\* The probe of a version.  The directory it runs in is removed, the one that
\* stands for its HOME is not.
Probe(at, next, home) ==
  /\ lpc = at
  /\ \/ lpc' = next /\ dirs' = dirs \cup {home} /\ UNCHANGED <<reason, lerr, trouble>>
     \/ /\ lpc' = "returned" /\ reason' = TRUE /\ lerr' = TRUE /\ trouble' = TRUE
        /\ dirs' \in {dirs, dirs \cup {home}}
  /\ UNCHANGED <<cur, built, remote, seen, ev, stuck, started>>

Versions ==
  \/ Probe("jj version", "git version", "home-jj")
  \/ Probe("git version", "mkdir", "home-git")

-----------------------------------------------------------------------------
(* Setup.                                                                  *)

\* Faulty variant: a lab goes on where the one before it stopped.
FaultyMakeRoot ==
  /\ lpc = "mkdir"
  /\ dirs' = dirs \cup {cur}
  /\ lpc' = "setup"
  /\ UNCHANGED <<cur, built, remote, seen, ev, reason, lerr, stuck, started, trouble>>

\* The tools are on the PATH, and the root and the home in it are made.
MakeRoot ==
  /\ lpc = "mkdir"
  /\ dirs' = dirs \cup {cur}
  /\ built' = 0
  /\ lpc' = "setup"
  /\ UNCHANGED <<cur, remote, seen, ev, reason, lerr, stuck, started, trouble>>

\* The next command of Setup.  After the last one Run checks the URL of the
\* remote and the environment, which are local and bare by construction, and
\* begins the first control; a control begins in its own lab.
SetupCommand ==
  /\ lpc = "setup"
  /\ built' = built + 1
  /\ IF built' < Len(SetupSteps) THEN UNCHANGED <<lpc, cur>>
     ELSE IF cur = "main" THEN lpc' = "mkdir" /\ cur' = "git"
     ELSE lpc' = "prepare" /\ UNCHANGED cur
  /\ UNCHANGED <<remote, seen, dirs, ev, reason, lerr, stuck, started, trouble>>

-----------------------------------------------------------------------------
(* The controls: ControlRawGitPush in the git client of one lab, and       *)
(* ControlRawJJPush in the jj client of another.                           *)

Position(s) == CHOOSE i \in DOMAIN SetupSteps : SetupSteps[i] = s

\* The commit a control pushes.  jj records the user it knows when a change is
\* made.
Subject ==
  IF cur = "git" THEN "git"
  ELSE IF \A s \in {"user.name", "user.email"} : Position(s) < Position("candidate")
  THEN "jj" ELSE "anonymous"

\* Faulty variant: the observation is claimed before it is made.
FaultyPrepare ==
  /\ lpc = "prepare"
  /\ lpc' = "before"
  /\ ev' = ev \cup {cur}
  /\ UNCHANGED <<cur, built, remote, seen, dirs, reason, lerr, stuck, started, trouble>>

\* The commit is made, or looked up, and its id read.
Prepare ==
  /\ lpc = "prepare"
  /\ lpc' = "before"
  /\ UNCHANGED <<cur, built, remote, seen, dirs, ev, reason, lerr, stuck, started, trouble>>

\* rev-parse of the ref of a remote: it fails on an absent one too.
Ref(l) == IF remote[l] = "absent" THEN "" ELSE remote[l]

\* The ref before a push; the error of rev-parse is dropped.
ReadBefore ==
  /\ \/ lpc = "before" /\ lpc' = "push"
     \/ lpc = "nbefore" /\ lpc' = "npush"
  /\ seen' \in {"", Ref(cur)}
  /\ trouble' = (trouble \/ seen' # Ref(cur))
  /\ UNCHANGED <<cur, built, remote, dirs, ev, reason, lerr, stuck, started>>

\* The push is refused when the ref is not where the client last saw it, and
\* by jj when the commit has no author.
Refused == remote[cur] # "absent" \/ Subject = "anonymous"

Push ==
  /\ lpc = "push" /\ seen # Subject /\ ~Refused
  /\ remote' = [remote EXCEPT ![cur] = Subject]
  /\ lpc' = "verify"
  /\ UNCHANGED <<cur, built, seen, dirs, ev, reason, lerr, stuck, started, trouble>>

\* A push that loses its answer after the ref has moved.
PushLost ==
  /\ lpc = "push" /\ seen # Subject /\ ~Refused
  /\ remote' = [remote EXCEPT ![cur] = Subject]
  /\ Fail
  /\ trouble' = TRUE
  /\ UNCHANGED <<built, seen, ev, started>>

\* The ref is read back from the bare remote, the lab of the control goes, and
\* the next control begins, or the push that must fail.
Verify ==
  /\ lpc = "verify" /\ remote[cur] = Subject
  /\ ev' = ev \cup {cur}
  /\ Cleanup
  /\ IF cur = "git" THEN lpc' = "mkdir" /\ cur' = "jj" ELSE lpc' = "nbefore" /\ cur' = "main"
  /\ UNCHANGED <<built, remote, seen, reason, lerr, started, trouble>>

-----------------------------------------------------------------------------
(* NegativeTransport, in the lab of Run.                                   *)

\* The push to a repository that does not exist fails, be it that git cannot be
\* started: both count as an attempt.
PushNowhere ==
  /\ lpc = "npush"
  /\ lpc' = "nafter"
  /\ started' \in BOOLEAN
  /\ trouble' = (trouble \/ ~started')
  /\ UNCHANGED <<cur, built, remote, seen, dirs, ev, reason, lerr, stuck>>

\* It succeeds all the same.
PushArrives ==
  /\ lpc = "npush"
  /\ Fail
  /\ started' = TRUE /\ trouble' = TRUE
  /\ UNCHANGED <<built, remote, seen, ev>>

\* The ref again, its error dropped; a difference is a failure.
ReadAfter ==
  /\ lpc = "nafter"
  /\ \E after \in {"", Ref("main")} :
       /\ trouble' = (trouble \/ after # Ref("main"))
       /\ IF after = seen
          THEN /\ ev' = ev \cup {"transport", "unchanged"}
               /\ lpc' = "cleanup"
               /\ UNCHANGED <<cur, dirs, reason, lerr, stuck>>
          ELSE Fail /\ UNCHANGED ev
  /\ UNCHANGED <<built, remote, seen, started>>

\* The deferred Cleanup of Run, which also follows a failed control.
CleanupMain ==
  /\ lpc = "cleanup"
  /\ Cleanup
  /\ lpc' = "returned"
  /\ UNCHANGED <<cur, built, remote, seen, ev, reason, lerr, started, trouble>>

-----------------------------------------------------------------------------
\* A command, a directory or a file cannot be had, the remote is already at the
\* commit or the push is refused: the step gives up.
StepFails ==
  /\ lpc \in {"mkdir", "setup", "prepare", "push", "verify"}
  /\ Fail
  /\ trouble' = (trouble \/ ~(lpc = "push" /\ (seen = Subject \/ Refused)))
  /\ UNCHANGED <<built, remote, seen, ev, started>>

LabNext ==
  \/ Versions \/ MakeRoot \/ SetupCommand \/ Prepare \/ ReadBefore \/ Push \/ PushLost
  \/ Verify \/ PushNowhere \/ PushArrives \/ ReadAfter \/ CleanupMain \/ StepFails

LabSpec == LabInit /\ [][LabNext]_labVars

-----------------------------------------------------------------------------
(* A failure "guarantees no partial truth was claimed" (evidence.go:20):   *)
(* a control is claimed only when the commit of its own client is in the   *)
(* remote of its own lab, the failed push, where nothing went wrong, only  *)
(* when git was started for it, and a run that does not claim every        *)
(* observation returns an error and says why.                              *)
EvidenceEarned ==
  /\ \A l \in {"git", "jj"} : l \in ev => remote[l] = l
  /\ "transport" \in ev => started \/ trouble
  /\ lpc = "returned" /\ ev # Observations => lerr /\ reason

(* When every command works, every observation is made: the order of Setup *)
(* gives the candidate an author before jj has to push it (setup.go:88-90), *)
(* and no control meets a remote that an earlier one has moved             *)
(* (evidence.go:82-83, "so it does not contaminate the jj control").       *)
EveryObservation == lpc = "returned" /\ ~trouble => ev = Observations

(* When Run returns, on whatever path, no lab is left but those whose      *)
(* removal failed ("defer Cleanup to remove", lab.go:62).                  *)
LabsRemoved == lpc = "returned" => dirs \subseteq stuck \cup VersionHomes
=============================================================================
