------------------------------- MODULE JJRepo -------------------------------
(***************************************************************************)
(* The Jujutsu repository that bjj observes.  It is not code of this       *)
(* repository: the module states what internal/jjadapter relies on.        *)
(*                                                                         *)
(*   - Commits are immutable and content addressed, so their ancestry and  *)
(*     everything else bjj asks about one commit are constants.  A commit  *)
(*     id is a natural number, and the order of the numbers is the         *)
(*     lexicographic order of the hex ids.  root() is commit 0.            *)
(*   - Bookmarks live in operation views.  Every jj command that changes   *)
(*     them (by the user, an editor, a background fetch) appends a view to *)
(*     the operation log; --at-op=<n> reads view n whatever came later.    *)
(*   - A bookmark target is the set of its candidate commits: {} is an     *)
(*     absent bookmark, two or more candidates a conflicted one.           *)
(*   - The list of configured remotes is not part of a view: `jj git       *)
(*     remote list` answers from the live configuration at any operation.  *)
(***************************************************************************)
EXTENDS Integers, FiniteSets, Sequences

CONSTANTS
  Commit,   \* commit ids
  Anc,      \* Anc[c] is the revset ::c, c and root() included
  Remote,   \* remote names that a view can mention
  Views,    \* the views an operation of another program may leave behind
  MaxOps    \* bound on the length of the operation log

Root     == 0
NoCommit == -1    \* the empty commit id ""

ViewType == [local : SUBSET Commit,                 \* the bookmark --bookmark names
             rem   : [Remote -> SUBSET Commit],     \* its remote-tracking bookmarks
             other : [Remote -> SUBSET Commit]]     \* targets of all other remote bookmarks

ASSUME CommitAssumption ==
  /\ Commit \subseteq Nat
  /\ Root \in Commit
  /\ Anc \in [Commit -> SUBSET Commit]
  /\ \A c \in Commit : c \in Anc[c] /\ Root \in Anc[c]
  /\ \A c \in Commit : \A d \in Anc[c] : Anc[d] \subseteq Anc[c]

ASSUME ViewsAssumption ==
  /\ Views \subseteq ViewType
  /\ MaxOps \in Nat \ {0}

VARIABLES
  ops,      \* the operation log, oldest view first
  remotes   \* the remotes configured now

repoVars == <<ops, remotes>>

-----------------------------------------------------------------------------
(* The revsets bjj uses.  The definitions called Faulty..., here and in the *)
(* other modules, are variants with a plausible bug: no specification uses *)
(* them, and each one shows that a property notices the bug.               *)

\* Faulty variant: `old::new` in place of `old..new`, which loses the commits
\* that a merge brings in from beside old.
FaultyDagRange(old, new) == {c \in Anc[new] : old \in Anc[c]} \ {old}

\* `old..new`, that is `::new ~ ::old`.
DagRange(old, new) == Anc[new] \ Anc[old]

\* `remote_bookmarks()`: the bookmarks of EVERY remote in the view.
RemoteBookmarks(v) == UNION {v.rem[r] \cup v.other[r] : r \in Remote}

\* `heads(S)`: the commits of S that are not ancestors of others in S.
Heads(S) == {c \in S : \A d \in S \ {c} : c \notin Anc[d]}

IsConflict(targets) == \E c, d \in targets : c # d

TargetOf(targets) == CHOOSE c \in targets : TRUE

-----------------------------------------------------------------------------
RepoInit ==
  /\ \E v \in Views : ops = <<v>>
  /\ remotes \in SUBSET Remote

\* Another program commits an operation.
Mutate ==
  /\ Len(ops) < MaxOps
  /\ \E v \in Views : ops' = Append(ops, v)
  /\ UNCHANGED remotes

\* Another program adds or removes a remote.
EditRemotes ==
  /\ \E r \in Remote :
       remotes' = IF r \in remotes THEN remotes \ {r} ELSE remotes \cup {r}
  /\ UNCHANGED ops

RepoNext == Mutate \/ EditRemotes

RepoTypeOK ==
  /\ ops \in Seq(Views)
  /\ Len(ops) \in 1..MaxOps
  /\ remotes \subseteq Remote
=============================================================================
