------------------------------ MODULE Admission ------------------------------
(***************************************************************************)
(* internal/admission: the policy loader, the fact gatherer and the        *)
(* evaluator.  They run after the resolver of module Plan has returned,    *)
(* read its plan through PlanView, and query jj at the operation the plan  *)
(* was resolved at.  As there, one subprocess is one action.               *)
(***************************************************************************)
EXTENDS Plan

CONSTANTS
  PrivateRevset,    \* the values private_commits may have
  Match(_, _),      \* Match(p, v): the commits revset p selects at view v
  EmptyDesc,        \* commits with an empty first description line
  Conflicted,       \* commits with unresolved content conflicts
  PolicyFile,       \* PolicyFile[c]: .bjj/policy.toml in the tree of c, parsed
  AtRoot            \* the working directory is the root of the workspace

None  == "none()"
Blank == " "         \* white space, which the parser of the policy accepts

Policy == [allowNew : BOOLEAN, allowNFF : BOOLEAN, requireDesc : BOOLEAN,
           allowConflicted : BOOLEAN, private : PrivateRevset]

DefaultPolicy == [allowNew |-> TRUE, allowNFF |-> FALSE, requireDesc |-> TRUE,
                  allowConflicted |-> FALSE, private |-> None]

\* LOADED carries the parsed policy; DEFAULT (no file) and MALFORMED ignore it.
PolicyOutcome == [outcome : {"LOADED", "DEFAULT", "MALFORMED"}, policy : Policy]

ASSUME AdmissionAssumption ==
  /\ None \in PrivateRevset
  /\ \A p \in PrivateRevset, v \in Views : Match(p, v) \subseteq Commit
  /\ \A v \in Views : Match(None, v) = {}
  /\ EmptyDesc \subseteq Commit
  /\ Conflicted \subseteq Commit
  /\ PolicyFile \in [Commit -> PolicyOutcome]
  /\ AtRoot \in BOOLEAN

VARIABLES
  apc,       \* the step that runs next, or "decided" or "failed"
  policy,    \* the frozen policy
  facts,     \* AdmissionFacts
  result,    \* AdmissionResult: the decision and its reason codes
  aerr       \* the code of the typed error

admVars == <<apc, policy, facts, result, aerr>>

Moves == {"CREATE", "FAST_FORWARD", "NON_FAST_FORWARD", "NO_CHANGE", "none"}

Facts == [op : Nat, move : Moves, outgoing : SUBSET Commit, private : SUBSET Commit,
          conflicted : SUBSET Commit, emptyDesc : SUBSET Commit]

\* Facts whose predicates have not been evaluated.
FactsOf(op, move, outgoing) ==
  [op |-> op, move |-> move, outgoing |-> outgoing, private |-> {},
   conflicted |-> {}, emptyDesc |-> {}]

ReasonCodes == {"NO_REMOTE_CHANGE", "NON_FAST_FORWARD", "NEW_BOOKMARK_NOT_ALLOWED",
                "PRIVATE_COMMIT", "CONFLICTED_COMMIT", "EMPTY_DESCRIPTION",
                "FACTS_INCONSISTENT"}

Result == [decision : {"none", "admit", "deny", "not_needed"}, reasons : SUBSET ReasonCodes]

AdmTypeOK ==
  /\ apc \in {"policy", "move", "private", "obs", "evaluate", "decided", "failed"}
  /\ policy \in Policy
  /\ facts \in Facts
  /\ result \in Result
  /\ aerr \in {"none", "JJ_QUERY_FAILED", "JJ_PARSE_FAILED", "POLICY_INVALID"}

AdmInit ==
  /\ apc = "policy"
  /\ policy = DefaultPolicy
  /\ facts = FactsOf(0, "none", {})
  /\ result = [decision |-> "none", reasons |-> {}]
  /\ aerr = "none"

-----------------------------------------------------------------------------
\* What `jj file show -r c .bjj/policy.toml' finds.  jj takes the path for one
\* below the working directory, and a path that is not there for an absent file.
FileFound(c) ==
  IF AtRoot THEN PolicyFile[c] ELSE [outcome |-> "DEFAULT", policy |-> DefaultPolicy]

\* Faulty variant: a malformed policy file counts as an absent one.
FaultyLoadPolicy ==
  /\ pc = "planned" /\ apc = "policy"
  /\ policy' = IF FileFound(newRef).outcome = "LOADED" THEN FileFound(newRef).policy
               ELSE DefaultPolicy
  /\ apc' = "move"
  /\ UNCHANGED <<facts, result, aerr>>

\* LoadPolicyAt: the file is read in the tree of NEW, an immutable commit, so
\* neither the working copy nor a later operation can change the answer.
LoadPolicy ==
  /\ pc = "planned" /\ apc = "policy"
  /\ LET f == FileFound(newRef) IN
       \/ /\ f.outcome = "MALFORMED"
          /\ apc' = "failed" /\ aerr' = "POLICY_INVALID" /\ UNCHANGED policy
       \/ /\ f.outcome # "MALFORMED"
          /\ policy' = IF f.outcome = "LOADED" THEN f.policy ELSE DefaultPolicy
          /\ apc' = "move" /\ UNCHANGED aerr
  /\ UNCHANGED <<facts, result>>

\* classifyMove: the probe is (OLD & ::NEW).
MoveRelation(old, new) ==
  IF old = NoCommit        THEN "CREATE"
  ELSE IF old = new        THEN "NO_CHANGE"
  ELSE IF old \in Anc[new] THEN "FAST_FORWARD"
  ELSE "NON_FAST_FORWARD"

\* Gather up to the move relation.  A no-op plan ends the gathering here, and
\* so does an empty outgoing set.
GatherMove ==
  /\ pc = "planned" /\ apc = "move"
  /\ facts' = IF status = "no_remote_change"
              THEN FactsOf(opID, "NO_CHANGE", {})
              ELSE FactsOf(opID, MoveRelation(oldRef, newRef), commits)
  /\ apc' = IF facts'.outgoing = {} THEN "evaluate" ELSE "private"
  /\ UNCHANGED <<policy, result, aerr>>

\* The last commit of the canonical order.
LastOf(s) == CHOOSE c \in s : \A d \in s : d <= c

\* Faulty variant: the last commit of the subject is left out.
FaultyPrivateHits(s, private) == s \ {LastOf(s)}

\* What jj selects for `(c1 | c2 | ... | cn & (private))', the revset Gather
\* builds: & binds tighter than |, so only cn meets the predicate.
PrivateHits(s, private) == (s \ {LastOf(s)}) \cup ({LastOf(s)} \cap private)

\* Faulty variant: the predicate is evaluated at the newest view.
FaultyGatherPrivate ==
  /\ pc = "planned" /\ apc = "private" /\ policy.private # Blank
  /\ facts' = [facts EXCEPT !.private =
                 PrivateHits(facts.outgoing, Match(policy.private, ops[Len(ops)]))]
  /\ apc' = "obs"
  /\ UNCHANGED <<policy, result, aerr>>

\* The private predicate, evaluated at the pinned view.
GatherPrivate ==
  /\ pc = "planned" /\ apc = "private" /\ policy.private # Blank
  /\ facts' = [facts EXCEPT !.private =
                 PrivateHits(facts.outgoing, Match(policy.private, ops[opID]))]
  /\ apc' = "obs"
  /\ UNCHANGED <<policy, result, aerr>>

\* Gather does not put a blank predicate into a query.
RefuseBlank ==
  /\ pc = "planned" /\ apc = "private" /\ policy.private = Blank
  /\ apc' = "failed" /\ aerr' = "POLICY_INVALID"
  /\ UNCHANGED <<policy, facts, result>>

\* Conflicts and descriptions of exactly the outgoing commits.
GatherObs ==
  /\ pc = "planned" /\ apc = "obs"
  /\ facts' = [facts EXCEPT !.conflicted = facts.outgoing \cap Conflicted,
                            !.emptyDesc  = facts.outgoing \cap EmptyDesc]
  /\ apc' = "evaluate"
  /\ UNCHANGED <<policy, result, aerr>>

\* The policy rules; the canonical order of the reasons is that of their codes.
Reasons(f, p) ==
  {c \in ReasonCodes :
     \/ c = "NEW_BOOKMARK_NOT_ALLOWED" /\ f.move = "CREATE" /\ ~p.allowNew
     \/ c = "NON_FAST_FORWARD" /\ f.move = "NON_FAST_FORWARD" /\ ~p.allowNFF
     \/ c = "FACTS_INCONSISTENT" /\ f.move = "none"
     \/ c = "PRIVATE_COMMIT" /\ f.private # {}
     \/ c = "CONFLICTED_COMMIT" /\ ~p.allowConflicted /\ f.conflicted # {}
     \/ c = "EMPTY_DESCRIPTION" /\ p.requireDesc /\ f.emptyDesc # {}}

EvaluateFacts(f, p) ==
  IF f.op = 0
  THEN [decision |-> "deny", reasons |-> {"FACTS_INCONSISTENT"}]
  ELSE IF f.move = "NO_CHANGE"
  THEN [decision |-> "not_needed", reasons |-> {"NO_REMOTE_CHANGE"}]
  ELSE IF Reasons(f, p) # {}
  THEN [decision |-> "deny", reasons |-> Reasons(f, p)]
  ELSE [decision |-> "admit", reasons |-> {}]

Evaluate ==
  /\ pc = "planned" /\ apc = "evaluate"
  /\ result' = EvaluateFacts(facts, policy)
  /\ apc' = "decided"
  /\ UNCHANGED <<policy, facts, aerr>>

\* The steps that call jj in this state.
AsksJJ ==
  \/ apc \in {"policy", "obs"}
  \/ apc = "private" /\ policy.private # Blank
  \/ apc = "move" /\ status = "planned" /\ oldRef # NoCommit

\* Faulty variant: the error of the jj adapter passes through untyped.
FaultyAdmQueryFails ==
  /\ pc = "planned" /\ AsksJJ
  /\ apc' = "failed"
  /\ aerr' = "jjadapter: jj failed"
  /\ UNCHANGED <<policy, facts, result>>

\* A subprocess of admission fails (private_commits may not even be a revset)
\* or prints what the strict parser refuses.
AdmQueryFails ==
  /\ pc = "planned" /\ AsksJJ
  /\ apc' = "failed"
  /\ aerr' \in IF apc = "policy" THEN {"JJ_QUERY_FAILED"}
               ELSE {"JJ_QUERY_FAILED", "JJ_PARSE_FAILED"}
  /\ UNCHANGED <<policy, facts, result>>

AdmStep ==
  \/ LoadPolicy \/ GatherMove \/ GatherPrivate \/ RefuseBlank \/ GatherObs \/ Evaluate
  \/ AdmQueryFails

\* The steps that admission has before it, and both parts of the pipeline.
AdmLeft == [policy |-> 5, move |-> 4, private |-> 3, obs |-> 2, evaluate |-> 1, decided |-> 0,
            failed |-> 0]

StepsLeft == PlanLeft[pc] + AdmLeft[apc]

-----------------------------------------------------------------------------
\* The operation view the command works at.
View == ops[opID]

\* The policy committed in NEW allows this publication at the pinned view.
Allowed ==
  LET f == PolicyFile[newRef]
      p == IF f.outcome = "LOADED" THEN f.policy ELSE DefaultPolicy
  IN  /\ View.local = {newRef} /\ ~IsConflict(View.rem[R]) /\ newRef \notin View.rem[R]
      /\ f.outcome # "MALFORMED"
      /\ View.rem[R] = {} => p.allowNew
      /\ View.rem[R] \subseteq Anc[newRef] \/ p.allowNFF
      /\ commits \cap Match(p.private, View) = {}
      /\ commits # {} => p.private # Blank
      /\ p.requireDesc => commits \cap EmptyDesc = {}
      /\ ~p.allowConflicted => commits \cap Conflicted = {}

-----------------------------------------------------------------------------
(* The contract of module AdmitContract.                                   *)

\* What a command has to say of the publication so far.
Said ==
  IF pc = "failed" \/ apc = "failed"
  THEN [decision |-> "error", reasons |-> {}, old |-> NoCommit, new |-> NoCommit]
  ELSE IF apc = "decided"
  THEN [decision |-> result.decision, reasons |-> result.reasons, old |-> oldRef, new |-> newRef]
  ELSE [decision |-> "none", reasons |-> {}, old |-> NoCommit, new |-> NoCommit]

Contract == INSTANCE AdmitContract WITH pinned <- opID, answer <- Said
=============================================================================
