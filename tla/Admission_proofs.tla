-------------------------- MODULE Admission_proofs --------------------------
(***************************************************************************)
(* Proofs about module Admission: what its facts, policy and decision say  *)
(* of the finished plan, for every repository, policy and interleaving.    *)
(* The commands that run admission cite them.                              *)
(***************************************************************************)
EXTENDS Admission, Plan_proofs

(* The strengthening: at each step of admission the facts, the policy and  *)
(* the result are functions of the finished plan and of the pinned view.   *)

\* Admission starts after the resolver and never touches its plan.
InOrder == apc # "policy" => pc = "planned"

PastPolicy == apc \in {"move", "private", "obs", "evaluate", "decided"}

\* The policy in force is the one found in NEW.
PolicyOfNew ==
  PastPolicy =>
    /\ FileFound(newRef).outcome # "MALFORMED"
    /\ policy = IF FileFound(newRef).outcome = "LOADED" THEN FileFound(newRef).policy
                ELSE DefaultPolicy

PastMove == apc \in {"private", "obs", "evaluate", "decided"}

\* The subject of the facts is the outgoing set of the plan, and the relation
\* is that of its ends.
MoveOfPlan ==
  PastMove =>
    /\ facts.op = opID
    /\ status = "no_remote_change" => facts.move = "NO_CHANGE" /\ facts.outgoing = {}
    /\ status = "planned" =>
         facts.move = MoveRelation(oldRef, newRef) /\ facts.outgoing = commits
    /\ apc \in {"private", "obs"} => status = "planned" /\ commits # {}

\* The private hits of the facts, once gathered.
PrivateOfView ==
  apc = "obs" \/ (apc \in {"evaluate", "decided"} /\ facts.outgoing # {}) =>
    /\ policy.private # Blank
    /\ facts.private = PrivateHits(facts.outgoing, Match(policy.private, ops[opID]))

\* The facts once complete.
FactsOfView ==
  apc \in {"evaluate", "decided"} =>
    /\ facts.outgoing = {} => facts.private = {}
    /\ facts.conflicted = facts.outgoing \cap Conflicted
    /\ facts.emptyDesc = facts.outgoing \cap EmptyDesc

ResultOfFacts == apc = "decided" => result = EvaluateFacts(facts, policy)

AdmInv ==
  /\ PlanInv /\ AdmTypeOK
  /\ InOrder /\ PolicyOfNew /\ MoveOfPlan /\ PrivateOfView /\ FactsOfView /\ ResultOfFacts

-----------------------------------------------------------------------------
(* Lemmas about the operators of admission.                                *)

\* The predicate query cannot miss a private commit of the subject.
LEMMA HitsCover ==
  ASSUME NEW s, NEW m, PrivateHits(s, m) = {}
  PROVE  s \cap m = {}
BY DEF PrivateHits

\* What it selects beyond the private commits needs a second commit.
LEMMA HitsCause ==
  ASSUME NEW s, NEW m, s # {}, s \subseteq Nat, PrivateHits(s, m) # {}
  PROVE  s \cap m # {} \/ \E a, b \in s : a # b
<1> SUFFICES ASSUME \A a, b \in s : a = b PROVE s \cap m # {}
  OBVIOUS
<1>1. PICK c \in s : TRUE
  OBVIOUS
<1>2. s = {c} /\ c \in Nat
  BY <1>1
<1>3. LastOf(s) = c
  BY <1>2 DEF LastOf
<1> QED BY <1>2, <1>3 DEF PrivateHits

\* The hits and the policies have the types of facts and policy.
LEMMA HitsType ==
  ASSUME NEW s \in SUBSET Commit, NEW m \in SUBSET Commit
  PROVE  PrivateHits(s, m) \subseteq Commit
BY DEF PrivateHits

LEMMA DefaultPolicyType == DefaultPolicy \in Policy
BY AdmissionAssumption DEF DefaultPolicy, Policy

LEMMA PolicyFileType ==
  ASSUME NEW c \in Commit
  PROVE  /\ FileFound(c).outcome \in {"LOADED", "DEFAULT", "MALFORMED"}
         /\ FileFound(c).policy \in Policy
BY AdmissionAssumption, DefaultPolicyType DEF PolicyOutcome, FileFound

\* MoveRelation gives one of the four relations, NO_CHANGE for equal ends.
LEMMA MoveRelationOf ==
  ASSUME NEW new \in Commit, NEW old \in Commit \cup {NoCommit}
  PROVE  /\ MoveRelation(old, new) \in Moves \ {"none"}
         /\ MoveRelation(old, new) = "CREATE" <=> old = NoCommit
         /\ MoveRelation(old, new) = "NO_CHANGE" <=> old = new
         /\ MoveRelation(old, new) = "NON_FAST_FORWARD"
              <=> old # NoCommit /\ old # new /\ old \notin Anc[new]
BY NoCommitIsNone DEF MoveRelation, Moves

\* The evaluator admits exactly what breaks no rule.
LEMMA EvaluateCases ==
  ASSUME NEW f \in Facts, NEW p \in Policy, f.op # 0
  PROVE  /\ EvaluateFacts(f, p) \in Result
         /\ EvaluateFacts(f, p).decision = "admit"
              <=> f.move # "NO_CHANGE" /\ Reasons(f, p) = {}
  <1>1. Reasons(f, p) \subseteq ReasonCodes
    BY DEF Reasons
  <1> QED BY <1>1 DEF EvaluateFacts, Result, ReasonCodes

-----------------------------------------------------------------------------
LEMMA AdmInit_Inv == PlanInv /\ AdmInit => AdmInv
<1> SUFFICES ASSUME PlanInv, AdmInit PROVE AdmInv
  OBVIOUS
<1>1. AdmTypeOK
  BY DefaultPolicyType
  DEF AdmInit, AdmTypeOK, FactsOf, Facts, Moves, Result, ReasonCodes
<1> QED BY <1>1
  DEF AdmInit, AdmInv, InOrder, PolicyOfNew, PastPolicy, MoveOfPlan, PastMove,
      PrivateOfView, FactsOfView, ResultOfFacts

\* Neither the other programs nor the resolver disturb admission: the one
\* cannot change the pinned view, the other has finished.
LEMMA OtherStep_Inv ==
  ASSUME AdmInv, UNCHANGED admVars,
         \/ RepoNext /\ UNCHANGED planVars
         \/ PlanStep /\ UNCHANGED repoVars
  PROVE  AdmInv'
<1> USE DEF admVars
<1>1. PlanInv'
  BY RepoNext_Inv, PlanStep_Inv DEF AdmInv
<1>2. AdmTypeOK'
  BY DEF AdmInv, AdmTypeOK
<1>3. CASE PlanStep /\ UNCHANGED repoVars
  <2>1. pc # "planned"
    BY <1>3 DEF PlanStep, PinOperation, ListRemotes, ListBookmarks, ResolveOldID, ResolveNewID,
                NearestRemoteAncestor, OutgoingCommits, QueryFails, Queries
  <2>2. apc = "policy"
    BY <2>1 DEF AdmInv, InOrder
  <2> QED BY <1>1, <1>2, <2>2
    DEF AdmInv, InOrder, PolicyOfNew, PastPolicy, MoveOfPlan, PastMove, PrivateOfView,
        FactsOfView, ResultOfFacts
<1>4. CASE RepoNext /\ UNCHANGED planVars
  <2>1. pc = "planned" => ops'[opID] = ops[opID]
    BY <1>4, AppendKeepsViews DEF AdmInv, PlanInv, TypeOK, Pinned
  <2>2. PrivateOfView'
    BY <1>4, <2>1 DEF AdmInv, InOrder, PrivateOfView, planVars
  <2> QED BY <1>1, <1>2, <1>4, <2>2
    DEF AdmInv, InOrder, PolicyOfNew, PastPolicy, MoveOfPlan, PastMove,
        FactsOfView, ResultOfFacts, planVars
<1> QED BY <1>3, <1>4

\* What a finished plan gives admission.
LEMMA PlannedFacts ==
  ASSUME PlanInv, pc = "planned"
  PROVE  /\ newRef \in Commit /\ oldRef \in Commit \cup {NoCommit} /\ commits \subseteq Commit
         /\ opID \in 1..Len(ops) /\ ops[opID] \in Views
         /\ status = IF oldRef = newRef THEN "no_remote_change" ELSE "planned"
BY DEF PlanInv, TypeOK, RepoTypeOK, PlanTypeOK, Pinned, EndsOfSnapshot, PlanOfSnapshot

\* The steps of admission itself.
LEMMA AdmStep_Inv ==
  ASSUME AdmInv, AdmStep, UNCHANGED <<repoVars, planVars>>
  PROVE  AdmInv'
<1> USE DEF repoVars, planVars
<1>1. PlanInv'
  BY DEF AdmInv, PlanInv, TypeOK, RepoTypeOK, PlanTypeOK, Pinned, Loaded, SnapshotOfView,
         EndsOfSnapshot, BaseOfView, Bases, RemoteAncestorHeads, PlanOfSnapshot
<1>2. pc = "planned" /\ apc # "decided" /\ pc' = pc
  BY DEF AdmStep, LoadPolicy, GatherMove, GatherPrivate, RefuseBlank, GatherObs, Evaluate,
         AdmQueryFails, AsksJJ, AdmInv, InOrder
<1>3. /\ newRef \in Commit /\ oldRef \in Commit \cup {NoCommit} /\ commits \subseteq Commit
      /\ opID \in 1..Len(ops) /\ ops[opID] \in Views
      /\ status = IF oldRef = newRef THEN "no_remote_change" ELSE "planned"
  BY <1>2, PlannedFacts DEF AdmInv
<1>4. opID \in Nat
  BY <1>3
<1>5. InOrder'
  BY <1>2 DEF InOrder
<1>6. CASE LoadPolicy
  <2>1. AdmTypeOK'
    BY <1>3, <1>6, DefaultPolicyType, PolicyFileType
    DEF LoadPolicy, AdmInv, AdmTypeOK
  <2>2. PolicyOfNew'
    BY <1>3, <1>6, PolicyFileType DEF LoadPolicy, PolicyOfNew, PastPolicy
  <2>3. apc' \in {"move", "failed"}
    BY <1>3, <1>6, PolicyFileType DEF LoadPolicy
  <2> QED BY <1>1, <1>5, <2>1, <2>2, <2>3
    DEF AdmInv, MoveOfPlan, PastMove, PrivateOfView, FactsOfView, ResultOfFacts
<1>7. CASE GatherMove
  <2>1. facts' \in Facts
    BY <1>3, <1>4, <1>7, MoveRelationOf DEF GatherMove, FactsOf, Facts, Moves
  <2>2. AdmTypeOK'
    BY <1>7, <2>1 DEF GatherMove, AdmInv, AdmTypeOK
  <2>3. PolicyOfNew'
    BY <1>7 DEF GatherMove, AdmInv, PolicyOfNew, PastPolicy
  <2>4. MoveOfPlan'
    BY <1>7, <1>3 DEF GatherMove, MoveOfPlan, PastMove, FactsOf
  <2>5. PrivateOfView' /\ FactsOfView' /\ ResultOfFacts'
    BY <1>7 DEF GatherMove, PrivateOfView, FactsOfView, ResultOfFacts, FactsOf
  <2> QED BY <1>1, <1>5, <2>2, <2>3, <2>4, <2>5 DEF AdmInv
<1>8. CASE GatherPrivate
  <2>1. Match(policy.private, ops[opID]) \subseteq Commit
    BY <1>3, AdmissionAssumption DEF AdmInv, AdmTypeOK, Policy
  <2>2. facts' \in Facts
    BY <1>8, <2>1, HitsType DEF GatherPrivate, AdmInv, AdmTypeOK, Facts
  <2>3. AdmTypeOK'
    BY <1>8, <2>2 DEF GatherPrivate, AdmInv, AdmTypeOK
  <2>4. PolicyOfNew' /\ ResultOfFacts' /\ FactsOfView'
    BY <1>8 DEF GatherPrivate, AdmInv, PolicyOfNew, PastPolicy, ResultOfFacts, FactsOfView
  <2>5. MoveOfPlan' /\ PrivateOfView'
    BY <1>8 DEF GatherPrivate, AdmInv, AdmTypeOK, Facts, MoveOfPlan, PastMove,
                PrivateOfView
  <2> QED BY <1>1, <1>5, <2>3, <2>4, <2>5 DEF AdmInv
<1>9. CASE GatherObs
  <2>1. facts' \in Facts
    BY <1>9 DEF GatherObs, AdmInv, AdmTypeOK, Facts
  <2>2. AdmTypeOK'
    BY <1>9, <2>1 DEF GatherObs, AdmInv, AdmTypeOK
  <2>3. PolicyOfNew' /\ ResultOfFacts'
    BY <1>9 DEF GatherObs, AdmInv, PolicyOfNew, PastPolicy, ResultOfFacts
  <2>4. MoveOfPlan' /\ PrivateOfView' /\ FactsOfView'
    BY <1>9, <1>3 DEF GatherObs, AdmInv, AdmTypeOK, Facts, MoveOfPlan, PastMove,
                 PrivateOfView, FactsOfView
  <2> QED BY <1>1, <1>5, <2>2, <2>3, <2>4 DEF AdmInv
<1>10. CASE Evaluate
  <2>1. facts.op # 0 /\ facts \in Facts /\ policy \in Policy
    BY <1>3, <1>10 DEF Evaluate, AdmInv, AdmTypeOK, MoveOfPlan, PastMove
  <2>2. AdmTypeOK'
    BY <1>10, <2>1, EvaluateCases DEF Evaluate, AdmInv, AdmTypeOK
  <2>3. PolicyOfNew' /\ MoveOfPlan' /\ PrivateOfView' /\ FactsOfView' /\ ResultOfFacts'
    BY <1>10 DEF Evaluate, AdmInv, PolicyOfNew, PastPolicy, MoveOfPlan, PastMove,
                 PrivateOfView, FactsOfView, ResultOfFacts
  <2> QED BY <1>1, <1>5, <2>2, <2>3 DEF AdmInv
<1>11. CASE AdmQueryFails \/ RefuseBlank
  <2>1. AdmTypeOK'
    BY <1>11 DEF AdmQueryFails, RefuseBlank, AdmInv, AdmTypeOK
  <2> QED BY <1>1, <1>5, <1>11, <2>1
    DEF AdmQueryFails, RefuseBlank, AdmInv, PolicyOfNew, PastPolicy, MoveOfPlan, PastMove,
        PrivateOfView, FactsOfView, ResultOfFacts
<1> QED BY <1>6, <1>7, <1>8, <1>9, <1>10, <1>11 DEF AdmStep

LEMMA AdmStutter_Inv == AdmInv /\ UNCHANGED <<repoVars, planVars, admVars>> => AdmInv'
<1> SUFFICES ASSUME AdmInv, UNCHANGED <<repoVars, planVars, admVars>> PROVE AdmInv'
  OBVIOUS
<1> USE DEF repoVars, planVars, admVars
<1>1. PlanInv'
  BY DEF AdmInv, PlanInv, TypeOK, RepoTypeOK, PlanTypeOK, Pinned, Loaded, SnapshotOfView,
         EndsOfSnapshot, BaseOfView, Bases, RemoteAncestorHeads, PlanOfSnapshot
<1> QED BY <1>1
  DEF AdmInv, AdmTypeOK, InOrder, PolicyOfNew, PastPolicy, MoveOfPlan, PastMove, PrivateOfView,
      FactsOfView, ResultOfFacts

\* Each step of admission leaves fewer to come.
LEMMA AdmLeftValues ==
  /\ AdmLeft["policy"] = 5 /\ AdmLeft["move"] = 4 /\ AdmLeft["private"] = 3
  /\ AdmLeft["obs"] = 2 /\ AdmLeft["evaluate"] = 1 /\ AdmLeft["decided"] = 0
  /\ AdmLeft["failed"] = 0
BY DEF AdmLeft

LEMMA AdmStep_Counts ==
  ASSUME AdmStep
  PROVE  /\ AdmLeft[apc] \in Nat /\ AdmLeft[apc'] \in Nat
         /\ AdmLeft[apc'] < AdmLeft[apc]
<1>1. \/ apc = "policy" /\ apc' \in {"move", "failed"}
      \/ apc = "move" /\ apc' \in {"evaluate", "private", "failed"}
      \/ apc = "private" /\ apc' \in {"obs", "failed"}
      \/ apc = "obs" /\ apc' \in {"evaluate", "failed"}
      \/ apc = "evaluate" /\ apc' = "decided"
  BY DEF AdmStep, LoadPolicy, GatherMove, GatherPrivate, RefuseBlank, GatherObs, Evaluate,
         AdmQueryFails, AsksJJ
<1> QED BY <1>1, AdmLeftValues

LEMMA StepsLeftType ==
  ASSUME AdmInv
  PROVE  PlanLeft[pc] \in Nat /\ AdmLeft[apc] \in Nat
<1>1. pc \in Queries \cup {"planned", "failed"}
      /\ apc \in {"policy", "move", "private", "obs", "evaluate", "decided", "failed"}
  BY DEF AdmInv, PlanInv, TypeOK, PlanTypeOK, AdmTypeOK
<1> QED BY <1>1, PlanLeftValues, AdmLeftValues DEF Queries

\* Either kind of step leaves fewer in all.
LEMMA StepCounts ==
  ASSUME AdmInv,
         \/ PlanStep /\ UNCHANGED admVars
         \/ AdmStep /\ UNCHANGED planVars
  PROVE  StepsLeft' < StepsLeft
<1>1. CASE PlanStep /\ UNCHANGED admVars
  <2>1. apc' = apc
    BY <1>1 DEF admVars
  <2> QED BY <1>1, <2>1, PlanStep_Counts, StepsLeftType DEF StepsLeft
<1>2. CASE AdmStep /\ UNCHANGED planVars
  <2>1. pc' = pc
    BY <1>2 DEF planVars
  <2> QED BY <1>2, <2>1, AdmStep_Counts, StepsLeftType DEF StepsLeft
<1> QED BY <1>1, <1>2

-----------------------------------------------------------------------------
\* A complete set of facts about a plan that moves the bookmark.
LEMMA DecidedFacts ==
  ASSUME AdmInv, apc \in {"evaluate", "decided"}, oldRef # newRef
  PROVE  /\ facts \in Facts /\ policy \in Policy /\ facts.op # 0
         /\ facts.outgoing = commits /\ facts.move = MoveRelation(oldRef, newRef)
         /\ facts.move # "NO_CHANGE" /\ facts.move # "none"
         /\ facts.conflicted = commits \cap Conflicted
         /\ facts.emptyDesc = commits \cap EmptyDesc
         /\ facts.private = IF commits = {} THEN {}
                             ELSE PrivateHits(commits, Match(policy.private, ops[opID]))
         /\ commits # {} => policy.private # Blank
<1>1. /\ newRef \in Commit /\ oldRef \in Commit \cup {NoCommit} /\ opID \in 1..Len(ops)
      /\ status = "planned"
  BY PlannedFacts DEF AdmInv, InOrder
<1>2. facts.op = opID /\ facts.outgoing = commits /\ facts.move = MoveRelation(oldRef, newRef)
  BY <1>1 DEF AdmInv, MoveOfPlan, PastMove
<1>3. facts.move # "NO_CHANGE" /\ facts.move # "none"
  BY <1>1, <1>2, MoveRelationOf
<1>4. facts \in Facts /\ policy \in Policy /\ facts.op # 0
  BY <1>1, <1>2 DEF AdmInv, AdmTypeOK
<1>5. facts.conflicted = commits \cap Conflicted /\ facts.emptyDesc = commits \cap EmptyDesc
  BY <1>2 DEF AdmInv, FactsOfView
<1>6. /\ facts.private = IF commits = {} THEN {}
                          ELSE PrivateHits(commits, Match(policy.private, ops[opID]))
      /\ commits # {} => policy.private # Blank
  BY <1>2 DEF AdmInv, FactsOfView, PrivateOfView
<1> QED BY <1>2, <1>3, <1>4, <1>5, <1>6

\* Policy outcome f allows the publication of the plan at the pinned view.
AllowedBy(f) ==
  LET p == IF f.outcome = "LOADED" THEN f.policy ELSE DefaultPolicy
  IN  /\ View.local = {newRef} /\ ~IsConflict(View.rem[R]) /\ newRef \notin View.rem[R]
      /\ f.outcome # "MALFORMED"
      /\ View.rem[R] = {} => p.allowNew
      /\ View.rem[R] \subseteq Anc[newRef] \/ p.allowNFF
      /\ commits \cap Match(p.private, View) = {}
      /\ commits # {} => p.private # Blank
      /\ p.requireDesc => commits \cap EmptyDesc = {}
      /\ ~p.allowConflicted => commits \cap Conflicted = {}

\* What a decision to admit guarantees: the policy that was found allows it,
\* from whichever directory the command is run.
LEMMA AdmittedByFound ==
  ASSUME AdmInv, apc = "decided", result.decision = "admit"
  PROVE  AllowedBy(FileFound(newRef))
<1>1. apc = "decided" /\ result.decision = "admit" /\ result = EvaluateFacts(facts, policy)
      /\ pc = "planned" /\ facts.op # 0 /\ facts \in Facts /\ policy \in Policy
  BY PlannedFacts DEF AdmInv, InOrder, ResultOfFacts, MoveOfPlan, PastMove, AdmTypeOK
<1>2. facts.move # "NO_CHANGE" /\ Reasons(facts, policy) = {}
  BY <1>1, EvaluateCases
<1>3. /\ newRef \in Commit /\ oldRef \in Commit \cup {NoCommit}
      /\ oldRef # newRef
  BY <1>1, <1>2, PlannedFacts DEF AdmInv, MoveOfPlan, PastMove
<1>4. /\ View.local = {newRef}
      /\ View.rem[R] = IF oldRef = NoCommit THEN {} ELSE {oldRef}
      /\ ~IsConflict(View.rem[R])
  BY <1>1 DEF AdmInv, PlanInv, SnapshotOfView, EndsOfSnapshot, Loaded, View
<1>5. policy = (IF FileFound(newRef).outcome = "LOADED" THEN FileFound(newRef).policy
                ELSE DefaultPolicy)
      /\ FileFound(newRef).outcome # "MALFORMED"
  BY <1>1 DEF AdmInv, PolicyOfNew, PastPolicy
<1>6. /\ facts.move = "CREATE" => policy.allowNew
      /\ facts.move = "NON_FAST_FORWARD" => policy.allowNFF
      /\ facts.private = {}
      /\ policy.allowConflicted \/ facts.conflicted = {}
      /\ policy.requireDesc => facts.emptyDesc = {}
  BY <1>2 DEF Reasons, ReasonCodes
<1>7. commits \cap Match(policy.private, View) = {}
  BY <1>1, <1>3, <1>6, DecidedFacts, HitsCover DEF View
<1>8. View.rem[R] = {} => policy.allowNew
  BY <1>1, <1>3, <1>4, <1>6, DecidedFacts, MoveRelationOf
<1>9. View.rem[R] \subseteq Anc[newRef] \/ policy.allowNFF
  BY <1>1, <1>3, <1>4, <1>6, DecidedFacts, MoveRelationOf
<1>10. /\ policy.requireDesc => commits \cap EmptyDesc = {}
       /\ ~policy.allowConflicted => commits \cap Conflicted = {}
  BY <1>1, <1>3, <1>6, DecidedFacts
<1>11. newRef \notin View.rem[R]
  BY <1>3, <1>4
<1>12. commits # {} => policy.private # Blank
  BY <1>1, <1>3, DecidedFacts
<1> QED BY <1>4, <1>5, <1>7, <1>8, <1>9, <1>10, <1>11, <1>12 DEF AllowedBy

\* At the root of the workspace that is the policy in the tree of NEW.
LEMMA AdmittedIsAllowed ==
  ASSUME AtRoot, AdmInv, apc = "decided", result.decision = "admit"
  PROVE  Allowed
BY AdmittedByFound DEF AllowedBy, Allowed, FileFound

-----------------------------------------------------------------------------
(* The contract.                                                           *)

\* The reasons of the evaluator in the words of the contract: complete, and
\* each with a cause.
LEMMA ReasonsOfContract ==
  ASSUME AdmInv, apc = "evaluate", oldRef # newRef, NEW c \in Contract!Rules
  PROVE  /\ Contract!Broken(c, ops[opID], newRef, commits, policy) => c \in Reasons(facts, policy)
         /\ c \in Reasons(facts, policy) =>
              Contract!Reportable(c, ops[opID], newRef, commits, policy)
<1> DEFINE v == ops[opID]
           m == Match(policy.private, v)
<1>1. /\ facts.move = MoveRelation(oldRef, newRef)
      /\ facts.conflicted = commits \cap Conflicted
      /\ facts.emptyDesc = commits \cap EmptyDesc
      /\ facts.private = IF commits = {} THEN {} ELSE PrivateHits(commits, m)
  BY DecidedFacts
<1>2. /\ newRef \in Commit /\ oldRef \in Commit \cup {NoCommit} /\ commits \subseteq Nat
      /\ v.rem[R] = IF oldRef = NoCommit THEN {} ELSE {oldRef}
  BY PlannedFacts, CommitAssumption
  DEF AdmInv, InOrder, PlanInv, SnapshotOfView, EndsOfSnapshot, Loaded
<1>3. CASE c = "NEW_BOOKMARK_NOT_ALLOWED"
  BY <1>1, <1>2, <1>3, MoveRelationOf
  DEF Reasons, ReasonCodes, Contract!Broken, Contract!Reportable
<1>4. CASE c = "NON_FAST_FORWARD"
  BY <1>1, <1>2, <1>4, MoveRelationOf
  DEF Reasons, ReasonCodes, Contract!Broken, Contract!Reportable
<1>5. CASE c = "PRIVATE_COMMIT"
  <2>1. c \in Reasons(facts, policy) <=> facts.private # {}
    BY <1>5 DEF Reasons, ReasonCodes
  <2>2. commits \cap m # {} => facts.private # {}
    BY <1>1, HitsCover
  <2>3. facts.private # {} => commits \cap m # {} \/ \E a, b \in commits : a # b
    BY <1>1, <1>2, HitsCause
  <2> QED BY <1>5, <2>1, <2>2, <2>3 DEF Contract!Broken, Contract!Reportable
<1>6. CASE c = "CONFLICTED_COMMIT"
  BY <1>1, <1>6 DEF Reasons, ReasonCodes, Contract!Broken, Contract!Reportable
<1>7. CASE c = "EMPTY_DESCRIPTION"
  BY <1>1, <1>7 DEF Reasons, ReasonCodes, Contract!Broken, Contract!Reportable
<1> QED BY <1>3, <1>4, <1>5, <1>6, <1>7 DEF Contract!Rules

\* The outgoing set of the plan is a subject of the contract.
LEMMA SubjectOfContract ==
  ASSUME AdmInv, pc = "planned"
  PROVE  \E t \in Contract!Subjects(ops[opID], newRef) : commits = t \ {Contract!Root}
<1> DEFINE v == ops[opID]
<1>1. PICK b \in Bases(v, newRef) : commits = Outgoing(b, newRef)
  BY InvPlan DEF AdmInv, PlanOfOneView
<1>2. v.rem[R] \subseteq Commit /\ RemoteBookmarks(v) \subseteq Commit
  BY PlannedFacts, ViewFields DEF AdmInv
<1>3. Heads(Anc[newRef] \cap RemoteBookmarks(v)) \subseteq Commit
  BY <1>2, HeadsSubset
<1> DEFINE near == Heads(Anc[newRef] \cap RemoteBookmarks(v))
           base == IF v.rem[R] # {} THEN v.rem[R] ELSE near
           t == IF b = NoCommit THEN Anc[newRef] ELSE DagRange(b, newRef)
<1>4. base = {} => b = NoCommit
  BY DEF Bases, RemoteAncestorHeads
<1>5. base # {} => b \in base /\ b # NoCommit
  BY <1>2, <1>3, NoCommitIsNone DEF Bases, RemoteAncestorHeads
<1>6. t \in IF base = {} THEN {Anc[newRef]} ELSE {DagRange(d, newRef) : d \in base}
  BY <1>4, <1>5
<1>7. t \in Contract!Subjects(v, newRef)
  BY <1>6 DEF Contract!Subjects, Contract!Heads, Contract!RemoteBookmarks, Contract!DagRange,
              Heads, RemoteBookmarks, DagRange
<1>8. commits = t \ {Contract!Root}
  BY <1>1 DEF Outgoing, Contract!Root, Root
<1> QED BY <1>7, <1>8

\* What the command says when it has evaluated is truthful.
LEMMA DecisionIsTruthful ==
  ASSUME AtRoot, AdmInv, Evaluate, UNCHANGED <<repoVars, planVars>>
  PROVE  Said' \in Contract!Answers /\ Contract!Truthful(Said', ops[opID])
<1> DEFINE v == ops[opID]
<1> USE DEF repoVars, planVars
<1>1. Said' = [decision |-> result'.decision, reasons |-> result'.reasons,
               old |-> oldRef, new |-> newRef]
      /\ pc = "planned" /\ apc = "evaluate" /\ result' = EvaluateFacts(facts, policy)
  BY DEF Evaluate, Said
<1>2. /\ newRef \in Commit /\ oldRef \in Commit \cup {NoCommit} /\ opID \in 1..Len(ops)
      /\ status = IF oldRef = newRef THEN "no_remote_change" ELSE "planned"
  BY <1>1, PlannedFacts DEF AdmInv
<1>3. v.local = {newRef} /\ v.rem[R] = IF oldRef = Contract!NoCommit THEN {} ELSE {oldRef}
  BY <1>1 DEF AdmInv, PlanInv, SnapshotOfView, EndsOfSnapshot, Loaded, Contract!NoCommit, NoCommit
<1>4. policy = Contract!PolicyOf(newRef) /\ PolicyFile[newRef].outcome # "MALFORMED"
  BY <1>1 DEF AdmInv, PolicyOfNew, PastPolicy, Contract!PolicyOf, FileFound
<1>5. facts.op # 0
  BY <1>1, <1>2 DEF AdmInv, MoveOfPlan, PastMove
<1>6. CASE oldRef = newRef
  <2>1. result' = [decision |-> "not_needed", reasons |-> {"NO_REMOTE_CHANGE"}]
    BY <1>1, <1>2, <1>5, <1>6 DEF AdmInv, MoveOfPlan, PastMove, EvaluateFacts
  <2>2. Said' = [decision |-> "not_needed", reasons |-> {"NO_REMOTE_CHANGE"},
                 old |-> oldRef, new |-> newRef]
    BY <1>1, <2>1
  <2> QED BY <1>2, <1>3, <1>4, <1>6, <2>2
    DEF Contract!Answers, Contract!Truthful, Contract!NoCommit, NoCommit
<1>7. CASE oldRef # newRef
  <2>1. facts.move # "NO_CHANGE" /\ facts.move # "none"
    BY <1>1, <1>7, DecidedFacts
  <2> DEFINE rs == Reasons(facts, policy)
  <2>2. rs \subseteq Contract!Rules
    BY <2>1 DEF Reasons, ReasonCodes, Contract!Rules
  <2>3. Said' = [decision |-> IF rs = {} THEN "admit" ELSE "deny", reasons |-> rs,
                 old |-> oldRef, new |-> newRef]
    BY <1>1, <1>5, <2>1 DEF EvaluateFacts
  <2>4. \A c \in Contract!Rules :
          /\ Contract!Broken(c, v, newRef, commits, policy) => c \in rs
          /\ c \in rs => Contract!Reportable(c, v, newRef, commits, policy)
    BY <1>1, <1>7, ReasonsOfContract
  <2>5. PICK t \in Contract!Subjects(v, newRef) : commits = t \ {Contract!Root}
    BY <1>1, SubjectOfContract
  <2>6. Said' \in Contract!Answers
    BY <1>2, <2>2, <2>3 DEF Contract!Answers, Contract!NoCommit, NoCommit
  <2>7. commits # {} => policy.private # Blank
    BY <1>1, <1>7, DecidedFacts
  <2>8. Contract!Truthful(Said', v)
    BY <1>3, <1>4, <1>7, <2>2, <2>3, <2>4, <2>5, <2>7
    DEF Contract!Truthful, Contract!Blank, Blank
  <2> QED BY <2>6, <2>8
<1> QED BY <1>6, <1>7

-----------------------------------------------------------------------------
\* The steps of the contract, over the variables of the command.
LEMMA ContractSteps ==
  /\ opID = 0 /\ Said = Contract!NoAnswer /\ opID' = Len(ops) /\ UNCHANGED <<repoVars, Said>>
       => [Contract!Next]_(Contract!vars)
  /\ Said = Contract!NoAnswer /\ Said' = Contract!GaveUp /\ UNCHANGED <<repoVars, opID>>
       => [Contract!Next]_(Contract!vars)
  /\ opID # 0 /\ Said = Contract!NoAnswer /\ Said' \in Contract!Answers
       /\ Contract!Truthful(Said', ops[opID]) /\ UNCHANGED <<repoVars, opID>>
       => [Contract!Next]_(Contract!vars)
  /\ RepoNext /\ UNCHANGED <<opID, Said>> => [Contract!Next]_(Contract!vars)
  /\ UNCHANGED <<repoVars, opID, Said>> => [Contract!Next]_(Contract!vars)
BY DEF repoVars, RepoNext, Mutate, EditRemotes, Contract!Next, Contract!vars, Contract!repoVars,
       Contract!Look, Contract!GiveUp, Contract!Answer, Contract!RepoNext, Contract!Mutate,
       Contract!EditRemotes

\* A step of the resolver looks, gives up or is not seen.
LEMMA PlanStepMaps ==
  ASSUME AdmInv, PlanStep, UNCHANGED <<repoVars, admVars>>
  PROVE  [Contract!Next]_(Contract!vars)
<1> USE DEF admVars, Said, NoCommit, Contract!NoAnswer, Contract!GaveUp, Contract!NoCommit
<1>1. pc \in Queries /\ apc = "policy" /\ apc' = "policy"
  BY DEF PlanStep, PinOperation, ListRemotes, ListBookmarks, ResolveOldID, ResolveNewID,
         NearestRemoteAncestor, OutgoingCommits, QueryFails, AdmInv, InOrder, Queries
<1>2. Said = Contract!NoAnswer
  BY <1>1 DEF Queries
<1>3. pc' = "failed" => Said' = Contract!GaveUp
  OBVIOUS
<1>4. pc' # "failed" => Said' = Contract!NoAnswer
  BY <1>1
<1>5. CASE PinOperation
  BY <1>2, <1>4, <1>5, ContractSteps DEF PinOperation, AdmInv, PlanInv, Pinned
<1>6. CASE ~PinOperation
  <2>1. opID' = opID
    BY <1>6 DEF PlanStep, ListRemotes, ListBookmarks, ResolveOldID, ResolveNewID,
                NearestRemoteAncestor, OutgoingCommits, QueryFails
  <2> QED BY <1>2, <1>3, <1>4, <2>1, ContractSteps
<1> QED BY <1>5, <1>6

\* A step of admission answers, gives up or is not seen.
LEMMA AdmStepMaps ==
  ASSUME AtRoot, AdmInv, AdmStep, UNCHANGED <<repoVars, planVars>>
  PROVE  [Contract!Next]_(Contract!vars)
<1> USE DEF planVars
<1>1. pc = "planned" /\ pc' = "planned" /\ apc \notin {"failed", "decided"} /\ opID' = opID
  BY DEF AdmStep, LoadPolicy, GatherMove, GatherPrivate, RefuseBlank, GatherObs, Evaluate,
         AdmQueryFails, AsksJJ
<1>2. Said = Contract!NoAnswer
  BY <1>1 DEF Said, NoCommit, Contract!NoAnswer, Contract!NoCommit
<1>3. opID # 0
  BY <1>1, PlannedFacts DEF AdmInv
<1>4. CASE Evaluate
  BY <1>1, <1>2, <1>3, <1>4, DecisionIsTruthful, ContractSteps
<1>5. CASE ~Evaluate
  <2>1. apc' # "decided"
    BY <1>5 DEF AdmStep, LoadPolicy, GatherMove, GatherPrivate, RefuseBlank, GatherObs,
                AdmQueryFails
  <2>2. Said' \in {Contract!NoAnswer, Contract!GaveUp}
    BY <1>1, <2>1 DEF Said, NoCommit, Contract!NoAnswer, Contract!GaveUp, Contract!NoCommit
  <2> QED BY <1>1, <1>2, <2>2, ContractSteps
<1> QED BY <1>4, <1>5
=============================================================================
