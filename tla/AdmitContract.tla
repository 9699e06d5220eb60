---------------------------- MODULE AdmitContract ----------------------------
(***************************************************************************)
(* What `bjj admit' promises, without its subprocesses: it looks at the    *)
(* repository once, at the newest operation, and answers about that view   *)
(* alone, or gives up.  Module Admit is shown to implement it.             *)
(***************************************************************************)
EXTENDS JJRepo

CONSTANTS R, PrivateRevset, Match(_, _), EmptyDesc, Conflicted, PolicyFile,
          DefaultPolicy

VARIABLES
  pinned,   \* the operation the answer is about, 0 before the look
  answer    \* what the command says

vars == <<repoVars, pinned, answer>>

NoAnswer == [decision |-> "none", reasons |-> {}, old |-> NoCommit, new |-> NoCommit]

GaveUp == [NoAnswer EXCEPT !.decision = "error"]

-----------------------------------------------------------------------------
\* The policy a publication of n falls under: the one in n's own tree.
PolicyOf(n) ==
  IF PolicyFile[n].outcome = "LOADED" THEN PolicyFile[n].policy ELSE DefaultPolicy

\* The sets of commits a move of the bookmark to n may be judged by: what R's
\* bookmark does not reach, or for a new bookmark what one of the nearest
\* commits on any remote does not reach, or all of n's history.
Subjects(v, n) ==
  LET near == Heads(Anc[n] \cap RemoteBookmarks(v))
      base == IF v.rem[R] # {} THEN v.rem[R] ELSE near
  IN  (IF base = {} THEN {Anc[n]} ELSE {DagRange(b, n) : b \in base})

\* The rule behind a reason code is broken by subject s under policy p.
Broken(c, v, n, s, p) ==
  \/ c = "NEW_BOOKMARK_NOT_ALLOWED" /\ v.rem[R] = {} /\ ~p.allowNew
  \/ c = "NON_FAST_FORWARD" /\ v.rem[R] # {} /\ ~(v.rem[R] \subseteq Anc[n]) /\ ~p.allowNFF
  \/ c = "PRIVATE_COMMIT" /\ s \cap Match(p.private, v) # {}
  \/ c = "CONFLICTED_COMMIT" /\ s \cap Conflicted # {} /\ ~p.allowConflicted
  \/ c = "EMPTY_DESCRIPTION" /\ s \cap EmptyDesc # {} /\ p.requireDesc

Rules == {"NEW_BOOKMARK_NOT_ALLOWED", "NON_FAST_FORWARD", "PRIVATE_COMMIT",
          "CONFLICTED_COMMIT", "EMPTY_DESCRIPTION"}

\* The command may report this rule of a subject.  The private rule is also
\* reported, against its documentation, for a subject of several commits.
Reportable(c, v, n, s, p) ==
  Broken(c, v, n, s, p) \/ (c = "PRIVATE_COMMIT" /\ \E a, b \in s : a # b)

\* A private set of white space, which is no revset.
Blank == " "

\* An answer a about view v: every broken rule is reported, nothing is
\* reported without cause, only a clean subject is admitted, and none is judged
\* by a private set that cannot be asked for.
Truthful(a, v) ==
  /\ v.local = {a.new}
  /\ v.rem[R] = IF a.old = NoCommit THEN {} ELSE {a.old}
  /\ PolicyFile[a.new].outcome # "MALFORMED"
  /\ \/ /\ a.decision = "not_needed" /\ a.reasons = {"NO_REMOTE_CHANGE"}
        /\ a.old = a.new
     \/ /\ a.decision = IF a.reasons = {} THEN "admit" ELSE "deny"
        /\ a.old # a.new
        /\ a.reasons \subseteq Rules
        /\ \E t \in Subjects(v, a.new) :
             LET s == t \ {Root}
                 p == PolicyOf(a.new)
             IN  /\ s # {} => p.private # Blank
                 /\ \A c \in Rules :
                      /\ Broken(c, v, a.new, s, p) => c \in a.reasons
                      /\ c \in a.reasons => Reportable(c, v, a.new, s, p)

Answers == [decision : {"admit", "deny", "not_needed"},
            reasons : SUBSET (Rules \cup {"NO_REMOTE_CHANGE"}),
            old : Commit \cup {NoCommit}, new : Commit]

-----------------------------------------------------------------------------
Init ==
  /\ RepoInit
  /\ pinned = 0
  /\ answer = NoAnswer

Look ==
  /\ pinned = 0 /\ answer = NoAnswer
  /\ pinned' = Len(ops)
  /\ UNCHANGED <<repoVars, answer>>

Answer ==
  /\ pinned # 0 /\ answer = NoAnswer
  /\ answer' \in Answers /\ Truthful(answer', ops[pinned])
  /\ UNCHANGED <<repoVars, pinned>>

GiveUp ==
  /\ answer = NoAnswer
  /\ answer' = GaveUp
  /\ UNCHANGED <<repoVars, pinned>>

Next ==
  \/ Look \/ Answer \/ GiveUp
  \/ RepoNext /\ UNCHANGED <<pinned, answer>>

Spec == Init /\ [][Next]_vars
=============================================================================
