------------------------------ MODULE Lab_proofs ------------------------------
(***************************************************************************)
(* Proofs about module Lab: what Run claims to have seen, on every path    *)
(* through it.                                                             *)
(***************************************************************************)
EXTENDS Lab, TLAPS

Probing == lpc \in {"jj version", "git version"}
Ending  == lpc \in {"cleanup", "returned"}

\* Which lab each step works in.
LabOfStep ==
  /\ lpc \in {"prepare", "before", "push", "verify"} => cur # "main"
  /\ Probing \/ Ending \/ lpc \in {"nbefore", "npush", "nafter"} => cur = "main"
  /\ lpc = "setup" => built < Len(SetupSteps)

\* The observations come in their order, and a run that ends before the last
\* of them has failed, for a reason, through trouble.
ClaimsOfStep ==
  /\ Probing \/ cur = "git" \/ (cur = "main" /\ lpc \in {"mkdir", "setup"}) => ev = {}
  /\ cur = "jj" => ev = {"git"}
  /\ lpc \in {"nbefore", "npush", "nafter"} => ev = {"git", "jj"}
  /\ Ending => ev = Observations \/ (lerr /\ reason /\ trouble)
  /\ lpc = "nafter" => started \/ trouble
  /\ Ending /\ "transport" \in ev => started \/ trouble

\* No lab meets a remote that another one has moved: the only refs are those of
\* claimed controls and the one that is just being verified.
RemotesOfStep ==
  /\ ~Ending => \A l \in Labs :
       remote[l] = IF l \in ev \/ (l = cur /\ lpc = "verify") THEN l ELSE "absent"
  /\ Ending => \A l \in {"git", "jj"} : l \in ev => remote[l] = l
  /\ lpc \in {"push", "npush", "nafter"} => seen = ""

\* The labs that exist are that of Run, that of the control and those that
\* resisted.
DirsOfStep ==
  /\ Probing => dirs \subseteq VersionHomes
  /\ dirs \subseteq stuck \cup VersionHomes \cup (IF lpc = "returned" THEN {} ELSE {"main", cur})

LabInv == LabTypeOK /\ LabOfStep /\ ClaimsOfStep /\ RemotesOfStep /\ DirsOfStep

-----------------------------------------------------------------------------
(* The order of Setup.                                                     *)

LEMMA StepCount == Len(SetupSteps) = 10 /\ DOMAIN SetupSteps = 1..10
BY DEF SetupSteps

LEMMA StepPositions ==
  Position("user.name") = 8 /\ Position("user.email") = 9 /\ Position("candidate") = 10
<1>1. \A i \in DOMAIN SetupSteps :
        \/ i = 1 \/ i = 2 \/ i = 3 \/ i = 4 \/ i = 5 \/ i = 6 \/ i = 7 \/ i = 8 \/ i = 9
        \/ i = 10
  BY StepCount
<1>2. /\ SetupSteps[1] = "init" /\ SetupSteps[2] = "seed" /\ SetupSteps[3] = "clone"
      /\ SetupSteps[4] = "identity" /\ SetupSteps[5] = "jj clone" /\ SetupSteps[6] = "jj identity"
      /\ SetupSteps[7] = "rename" /\ SetupSteps[8] = "user.name" /\ SetupSteps[9] = "user.email"
      /\ SetupSteps[10] = "candidate"
  BY DEF SetupSteps
<1>3. \A i \in DOMAIN SetupSteps :
        /\ SetupSteps[i] = "user.name" <=> i = 8
        /\ SetupSteps[i] = "user.email" <=> i = 9
        /\ SetupSteps[i] = "candidate" <=> i = 10
  BY <1>1, <1>2
<1>4. 8 \in DOMAIN SetupSteps /\ 9 \in DOMAIN SetupSteps /\ 10 \in DOMAIN SetupSteps
  BY StepCount
<1> QED BY <1>3, <1>4 DEF Position

\* jj knows its user when the candidate is made, so each control has a commit
\* of its own client to push.
LEMMA SubjectOfControl ==
  ASSUME cur \in Labs, cur # "main"
  PROVE  Subject = cur
<1>1. \A s \in {"user.name", "user.email"} : Position(s) < Position("candidate")
  BY StepPositions
<1> QED BY <1>1 DEF Subject, Labs

-----------------------------------------------------------------------------
LEMMA LabInit_Inv == LabInit => LabInv
<1> SUFFICES ASSUME LabInit PROVE LabInv
  OBVIOUS
<1>0. built = 0
  BY DEF LabInit
<1>1. built \in 0..Len(SetupSteps)
  BY <1>0, StepCount
<1>2. LabTypeOK
  BY <1>1 DEF LabInit, LabTypeOK, Labs
<1>3. LabOfStep /\ ClaimsOfStep /\ RemotesOfStep /\ DirsOfStep
  BY DEF LabInit, LabOfStep, ClaimsOfStep, RemotesOfStep, DirsOfStep, Probing, Ending
<1> QED BY <1>2, <1>3 DEF LabInv

\* A removal takes the current lab away, or is remembered.
LEMMA CleanupLeaves ==
  ASSUME LabInv, Cleanup
  PROVE  /\ dirs' \subseteq Labs \cup VersionHomes /\ stuck' \subseteq Labs
         /\ dirs' \subseteq stuck' \cup VersionHomes \cup ({"main"} \ {cur})
BY DEF LabInv, LabTypeOK, DirsOfStep, Cleanup

\* A step that gives up, wherever Run is in a lab.
LEMMA Fail_Inv ==
  ASSUME LabInv, Fail, ~Ending, trouble' = TRUE, started' \in BOOLEAN,
         UNCHANGED <<built, seen, ev>>,
         \A l \in Labs : l \in ev => remote'[l] = remote[l],
         remote' \in [Labs -> Pushed \cup {"absent"}]
  PROVE  LabInv'
<1>1. /\ dirs' \subseteq Labs \cup VersionHomes /\ stuck' \subseteq Labs
      /\ dirs' \subseteq stuck' \cup VersionHomes \cup ({"main"} \ {cur})
  BY CleanupLeaves DEF Fail
<1>2. /\ reason' = TRUE /\ lerr' = TRUE /\ cur' = "main"
      /\ lpc' = IF cur = "main" THEN "returned" ELSE "cleanup"
  BY DEF Fail, Leave
<1>3. LabTypeOK'
  BY <1>1, <1>2 DEF LabInv, LabTypeOK, Labs
<1>4. LabOfStep' /\ ClaimsOfStep'
  BY <1>2 DEF LabOfStep, ClaimsOfStep, Probing, Ending
<1>5. RemotesOfStep'
  BY <1>2 DEF LabInv, RemotesOfStep, Ending, Labs
<1>6. DirsOfStep'
  BY <1>1, <1>2 DEF DirsOfStep, Probing
<1> QED BY <1>3, <1>4, <1>5, <1>6 DEF LabInv

LEMMA Versions_Inv == ASSUME LabInv, Versions PROVE LabInv'
<1> USE DEF LabInv, Probing, Ending
<1>1. PICK at \in {"jj version", "git version"}, next \in {"git version", "mkdir"},
           home \in VersionHomes : Probe(at, next, home)
  BY DEF Versions, VersionHomes
<1>2. /\ Probing /\ cur = "main" /\ ev = {} /\ dirs \subseteq VersionHomes
      /\ UNCHANGED <<cur, built, remote, seen, ev, stuck, started>>
      /\ dirs' \subseteq VersionHomes
      /\ \/ lpc' = next /\ UNCHANGED <<reason, lerr, trouble>>
         \/ lpc' = "returned" /\ reason' = TRUE /\ lerr' = TRUE /\ trouble' = TRUE
  BY <1>1 DEF Probe, LabOfStep, ClaimsOfStep, DirsOfStep
<1>3. LabTypeOK'
  BY <1>2 DEF LabTypeOK
<1>4. LabOfStep' /\ ClaimsOfStep' /\ RemotesOfStep' /\ DirsOfStep'
  BY <1>2 DEF LabOfStep, ClaimsOfStep, RemotesOfStep, DirsOfStep, Labs
<1> QED BY <1>3, <1>4

LEMMA Setup_Inv == ASSUME LabInv, MakeRoot \/ SetupCommand PROVE LabInv'
<1> USE DEF LabInv, Probing, Ending
<1>1. CASE MakeRoot
  <2>3. built' \in 0..Len(SetupSteps)
    BY <1>1, StepCount DEF MakeRoot
  <2>1. LabTypeOK'
    BY <1>1, <2>3 DEF MakeRoot, LabTypeOK
  <2>2. LabOfStep' /\ ClaimsOfStep' /\ RemotesOfStep' /\ DirsOfStep'
    BY <1>1, StepCount
    DEF MakeRoot, LabOfStep, ClaimsOfStep, RemotesOfStep, DirsOfStep, Labs
  <2> QED BY <2>1, <2>2
<1>2. CASE SetupCommand
  <2>0. built \in 0..Len(SetupSteps) /\ built < Len(SetupSteps) /\ built' = built + 1
    BY <1>2 DEF SetupCommand, LabTypeOK, LabOfStep
  <2>3. built' \in 0..Len(SetupSteps)
    BY <2>0, StepCount
  <2>1. LabTypeOK'
    BY <1>2, <2>3 DEF SetupCommand, LabTypeOK, Labs
  <2>2. LabOfStep' /\ ClaimsOfStep' /\ RemotesOfStep' /\ DirsOfStep'
    BY <1>2, StepCount
    DEF SetupCommand, LabTypeOK, LabOfStep, ClaimsOfStep, RemotesOfStep, DirsOfStep, Labs
  <2> QED BY <2>1, <2>2
<1> QED BY <1>1, <1>2

\* The steps of a control before its ref moves.
LEMMA Before_Inv == ASSUME LabInv, Prepare \/ ReadBefore PROVE LabInv'
<1> USE DEF LabInv, Probing, Ending
<1>1. CASE Prepare
  BY <1>1 DEF Prepare, LabTypeOK, LabOfStep, ClaimsOfStep, RemotesOfStep, DirsOfStep,
              Labs
<1>2. CASE ReadBefore
  <2>1. /\ (lpc = "before" /\ lpc' = "push") \/ (lpc = "nbefore" /\ lpc' = "npush")
        /\ seen' \in {"", Ref(cur)}
        /\ UNCHANGED <<cur, built, remote, dirs, ev, reason, lerr, stuck, started>>
    BY <1>2 DEF ReadBefore
  <2>2. remote[cur] = "absent"
    <3>1. cur \in Labs /\ cur \notin ev
      BY <2>1 DEF LabTypeOK, LabOfStep, ClaimsOfStep, Labs
    <3> QED BY <2>1, <3>1 DEF RemotesOfStep
  <2>3. seen' = ""
    BY <2>1, <2>2 DEF Ref
  <2>4. trouble' \in BOOLEAN
    BY <1>2, Zenon DEF ReadBefore
  <2>5. LabTypeOK'
    BY <2>1, <2>3, <2>4 DEF LabTypeOK
  <2>6. LabOfStep' /\ ClaimsOfStep' /\ RemotesOfStep' /\ DirsOfStep'
    BY <2>1, <2>3 DEF LabOfStep, ClaimsOfStep, RemotesOfStep, DirsOfStep, Labs
  <2> QED BY <2>5, <2>6
<1> QED BY <1>1, <1>2

\* What is known at a push.
LEMMA AtPush ==
  ASSUME LabInv, lpc = "push"
  PROVE  /\ cur \in Labs /\ cur # "main" /\ cur \notin ev /\ Subject = cur /\ seen = ""
         /\ remote[cur] = "absent" /\ ~Refused
<1>1. cur \in Labs /\ cur # "main" /\ cur \notin ev
  BY DEF LabInv, LabTypeOK, LabOfStep, ClaimsOfStep, Labs
<1>2. Subject = cur
  BY <1>1, SubjectOfControl
<1>3. remote[cur] = "absent" /\ seen = ""
  BY <1>1 DEF LabInv, RemotesOfStep, Ending
<1> QED BY <1>1, <1>2, <1>3 DEF Refused, Labs

LEMMA Push_Inv == ASSUME LabInv, Push PROVE LabInv'
<1>1. cur \in Labs /\ cur # "main" /\ cur \notin ev /\ Subject = cur
  BY AtPush DEF Push
<1>2. /\ lpc = "push" /\ lpc' = "verify" /\ remote' = [remote EXCEPT ![cur] = cur]
      /\ UNCHANGED <<cur, built, seen, dirs, ev, reason, lerr, stuck, started, trouble>>
  BY <1>1 DEF Push
<1> QED BY <1>1, <1>2 DEF LabInv, LabTypeOK, LabOfStep, ClaimsOfStep, RemotesOfStep, DirsOfStep,
                          Probing, Ending, Labs, Pushed

LEMMA PushLost_Inv == ASSUME LabInv, PushLost PROVE LabInv'
<1>1. cur \in Labs /\ cur # "main" /\ cur \notin ev /\ Subject = cur /\ ~Ending
  BY AtPush DEF PushLost, Ending
<1>2. remote' = [remote EXCEPT ![cur] = cur] /\ remote \in [Labs -> Pushed \cup {"absent"}]
  BY <1>1 DEF PushLost, LabInv, LabTypeOK
<1>3. /\ remote' \in [Labs -> Pushed \cup {"absent"}]
      /\ \A l \in Labs : l \in ev => remote'[l] = remote[l]
  BY <1>1, <1>2 DEF Labs, Pushed
<1>4. UNCHANGED started /\ started \in BOOLEAN
  BY DEF PushLost, LabInv, LabTypeOK
<1> QED BY <1>1, <1>3, <1>4, Fail_Inv DEF PushLost

LEMMA Verify_Inv == ASSUME LabInv, Verify PROVE LabInv'
<1> USE DEF LabInv, Probing, Ending
<1>1. /\ lpc = "verify" /\ cur \in {"git", "jj"} /\ remote[cur] = cur /\ ev' = ev \cup {cur}
      /\ ev = (IF cur = "git" THEN {} ELSE {"git"})
      /\ IF cur = "git" THEN lpc' = "mkdir" /\ cur' = "jj" ELSE lpc' = "nbefore" /\ cur' = "main"
      /\ UNCHANGED <<built, remote, seen, reason, lerr, started, trouble>>
  BY SubjectOfControl DEF Verify, LabTypeOK, LabOfStep, ClaimsOfStep, Labs
<1>2. /\ dirs' \subseteq Labs \cup VersionHomes /\ stuck' \subseteq Labs
      /\ dirs' \subseteq stuck' \cup VersionHomes \cup {"main"}
  BY CleanupLeaves DEF Verify
<1>3. LabTypeOK'
  BY <1>1, <1>2 DEF LabTypeOK, Labs, Observations
<1>4. LabOfStep' /\ ClaimsOfStep'
  BY <1>1 DEF LabOfStep, ClaimsOfStep
<1>5. RemotesOfStep'
  BY <1>1 DEF RemotesOfStep, Labs
<1>6. DirsOfStep'
  BY <1>1, <1>2 DEF DirsOfStep
<1> QED BY <1>3, <1>4, <1>5, <1>6

LEMMA PushNowhere_Inv == ASSUME LabInv, PushNowhere PROVE LabInv'
<1> USE DEF LabInv, Probing, Ending
<1>1. /\ lpc = "npush" /\ lpc' = "nafter" /\ started' \in BOOLEAN
      /\ UNCHANGED <<cur, built, remote, seen, dirs, ev, reason, lerr, stuck>>
  BY DEF PushNowhere
<1>2. trouble' \in BOOLEAN
  BY Zenon DEF PushNowhere
<1>3. started' \/ trouble'
  BY Zenon DEF PushNowhere
<1>4. LabTypeOK'
  BY <1>1, <1>2 DEF LabTypeOK
<1>5. LabOfStep' /\ ClaimsOfStep' /\ RemotesOfStep' /\ DirsOfStep'
  BY <1>1, <1>3 DEF LabOfStep, ClaimsOfStep, RemotesOfStep, DirsOfStep, Labs
<1> QED BY <1>4, <1>5

LEMMA PushArrives_Inv == ASSUME LabInv, PushArrives PROVE LabInv'
<1>1. ~Ending /\ Fail /\ UNCHANGED <<built, remote, seen, ev>>
  BY DEF PushArrives, Ending
<1>2. trouble' = TRUE /\ started' \in BOOLEAN
  BY Zenon DEF PushArrives
<1> QED BY <1>1, <1>2, Fail_Inv DEF LabInv, LabTypeOK

\* The ref of the lab of Run never moves, so a read-back cannot differ.
LEMMA ReadAfter_Inv == ASSUME LabInv, ReadAfter PROVE LabInv'
<1> USE DEF LabInv, Probing, Ending
<1>1. /\ lpc = "nafter" /\ cur = "main" /\ ev = {"git", "jj"} /\ seen = ""
      /\ UNCHANGED <<built, remote, seen, started>>
  BY DEF ReadAfter, LabOfStep, ClaimsOfStep, RemotesOfStep
<1>2. Ref("main") = ""
  BY <1>1 DEF RemotesOfStep, Labs, Ref
<1>3. /\ ev' = Observations /\ lpc' = "cleanup"
      /\ UNCHANGED <<cur, dirs, reason, lerr, stuck>>
  BY <1>1, <1>2 DEF ReadAfter, Observations
<1>4. trouble' \in BOOLEAN /\ (started' \/ trouble')
  <2>1. PICK after \in {"", Ref("main")} : trouble' = (trouble \/ after # Ref("main"))
    BY Zenon DEF ReadAfter
  <2>2. started \/ trouble
    BY <1>1 DEF ClaimsOfStep
  <2> QED BY <1>1, <2>1, <2>2, Zenon
<1>5. LabTypeOK'
  BY <1>1, <1>3, <1>4 DEF LabTypeOK
<1>6. LabOfStep' /\ ClaimsOfStep' /\ RemotesOfStep' /\ DirsOfStep'
  BY <1>1, <1>3, <1>4 DEF LabOfStep, ClaimsOfStep, RemotesOfStep, DirsOfStep, Labs
<1> QED BY <1>5, <1>6

LEMMA CleanupMain_Inv == ASSUME LabInv, CleanupMain PROVE LabInv'
<1> USE DEF LabInv, Probing, Ending
<1>1. /\ lpc = "cleanup" /\ lpc' = "returned" /\ cur = "main"
      /\ UNCHANGED <<cur, built, remote, seen, ev, reason, lerr, started, trouble>>
  BY DEF CleanupMain, LabOfStep
<1>2. /\ dirs' \subseteq Labs \cup VersionHomes /\ stuck' \subseteq Labs
      /\ dirs' \subseteq stuck' \cup VersionHomes
  BY <1>1, CleanupLeaves DEF CleanupMain
<1>3. LabTypeOK'
  BY <1>1, <1>2 DEF LabTypeOK
<1>4. LabOfStep' /\ ClaimsOfStep' /\ RemotesOfStep' /\ DirsOfStep'
  BY <1>1, <1>2 DEF LabOfStep, ClaimsOfStep, RemotesOfStep, DirsOfStep
<1> QED BY <1>3, <1>4

\* A step that fails fails through trouble: no push meets a ref that is not
\* absent, and no control lacks an author.
LEMMA StepFails_Inv == ASSUME LabInv, StepFails PROVE LabInv'
<1>1. ~Ending /\ Fail /\ UNCHANGED <<built, remote, seen, ev>>
  BY DEF StepFails, Ending
<1>2. ~(lpc = "push" /\ (seen = Subject \/ Refused))
  <2> SUFFICES ASSUME lpc = "push" PROVE seen # Subject /\ ~Refused
    OBVIOUS
  <2> QED BY AtPush DEF Labs
<1>3. trouble' = TRUE /\ started' = started
  BY <1>2, Zenon DEF StepFails
<1> QED BY <1>1, <1>3, Fail_Inv DEF LabInv, LabTypeOK

LEMMA LabNext_Inv == LabInv /\ [LabNext]_labVars => LabInv'
<1> SUFFICES ASSUME LabInv, [LabNext]_labVars PROVE LabInv'
  OBVIOUS
<1>1. CASE LabNext
  BY <1>1, Versions_Inv, Setup_Inv, Before_Inv, Push_Inv, PushLost_Inv, Verify_Inv, PushNowhere_Inv,
     PushArrives_Inv, ReadAfter_Inv, CleanupMain_Inv, StepFails_Inv DEF LabNext
<1>2. CASE UNCHANGED labVars
  BY <1>2 DEF labVars, LabInv, LabTypeOK, LabOfStep, ClaimsOfStep, RemotesOfStep, DirsOfStep,
              Probing, Ending
<1> QED BY <1>1, <1>2

(* LabInv is an invariant of the laboratory.                               *)
THEOREM LabInvariant == LabSpec => []LabInv
BY LabInit_Inv, LabNext_Inv, PTL DEF LabSpec

-----------------------------------------------------------------------------
(* The variables of the laboratory keep their types; Setup makes no more    *)
(* steps than it has, whichever lab it begins again in (setup.go:60-104).   *)
THEOREM LabTypeCorrect == LabSpec => []LabTypeOK
<1>1. LabInv => LabTypeOK
  BY DEF LabInv
<1> QED BY <1>1, LabInvariant, PTL

(* No partial truth is claimed, whichever steps fail (evidence.go:20): a    *)
(* claimed control has its own commit in the remote of its own lab, a push  *)
(* is claimed to have failed only when git ran it or something went wrong,  *)
(* and a run short of a claim returns an error with its reason.             *)
THEOREM ClaimsAreEarned == LabSpec => []EvidenceEarned
<1>1. LabInv => EvidenceEarned
  <2> SUFFICES ASSUME LabInv PROVE EvidenceEarned
    OBVIOUS
  <2>1. \A l \in {"git", "jj"} : l \in ev => remote[l] = l
    <3>1. CASE Ending
      BY <3>1 DEF LabInv, RemotesOfStep
    <3>2. CASE ~Ending
      <4>1. lpc = "verify" => cur \notin ev
        BY <3>2 DEF LabInv, LabTypeOK, LabOfStep, ClaimsOfStep, Labs
      <4> QED BY <3>2, <4>1 DEF LabInv, RemotesOfStep, Labs
    <3> QED BY <3>1, <3>2
  <2>2. "transport" \in ev => started \/ trouble
    <3>1. "transport" \in ev => Ending
      <4>1. cur \in Labs /\ (cur # "main" => ev \subseteq {"git"})
        BY DEF LabInv, LabTypeOK, ClaimsOfStep, Labs
      <4>2. cur = "main" /\ ~Ending => ev \subseteq {"git", "jj"}
        BY DEF LabInv, LabTypeOK, LabOfStep, ClaimsOfStep, Probing, Ending
      <4> QED BY <4>1, <4>2
    <3> QED BY <3>1 DEF LabInv, ClaimsOfStep
  <2>3. lpc = "returned" /\ ev # Observations => lerr /\ reason
    BY DEF LabInv, ClaimsOfStep, Ending
  <2> QED BY <2>1, <2>2, <2>3 DEF EvidenceEarned
<1> QED BY <1>1, LabInvariant, PTL

(* When every command works, every observation is made: the order of Setup  *)
(* (setup.go:88-90) and a lab for each control (evidence.go:82-83) leave    *)
(* nothing that could refuse a push.                                        *)
THEOREM NothingStopsARun == LabSpec => []EveryObservation
<1>1. LabInv => EveryObservation
  BY DEF LabInv, ClaimsOfStep, Ending, EveryObservation
<1> QED BY <1>1, LabInvariant, PTL

(* No lab outlives Run but by a failed removal, on whatever path it returns *)
(* (lab.go:62).                                                             *)
THEOREM LabsGo == LabSpec => []LabsRemoved
<1>1. LabInv => LabsRemoved
  BY DEF LabInv, DirsOfStep, LabsRemoved
<1> QED BY <1>1, LabInvariant, PTL
=============================================================================
