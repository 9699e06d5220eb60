-------------------------------- MODULE Plan --------------------------------
(***************************************************************************)
(* internal/plan: the publication resolver behind `bjj plan`.              *)
(*                                                                         *)
(* A resolve is a sequence of jj subprocesses.  Every subprocess is one    *)
(* action, because another program may append an operation or edit the     *)
(* remotes between any two of them; what the Go code computes between two  *)
(* subprocesses belongs to the action of the first.  Each of them may      *)
(* also fail.                                                              *)
(***************************************************************************)
EXTENDS JJRepo

CONSTANT R    \* the --remote argument; the --bookmark argument is the bookmark
              \* that the `local' and `rem' fields of a view describe

ASSUME RemoteAssumption == R \in Remote

VARIABLES
  pc,           \* the subprocess that runs next, or "planned" or "failed"
  opID,         \* the pinned operation, 0 before PinOperation has answered
  snapRemotes,  \* Snapshot.Remotes
  loc,          \* candidates of the local bookmark in the snapshot
  rem,          \* candidates of its remote-tracking bookmark in the snapshot
  oldRef,       \* BookmarkMove.Old, NoCommit when the move creates the bookmark
  newRef,       \* BookmarkMove.New
  effOld,       \* the effective old of a move without Old
  commits,      \* PublishPlan.Commits; the canonical order is that of the ids
  status,       \* PublishPlan.Status
  err           \* the code of the typed error

planVars == <<pc, opID, snapRemotes, loc, rem, oldRef, newRef, effOld, commits,
              status, err>>

Queries == {"pin", "remotes", "bookmarks", "oldid", "newid", "effold", "outgoing"}

PlanErrors == {"JJ_QUERY_FAILED", "REMOTE_NOT_FOUND", "LOCAL_BOOKMARK_NOT_FOUND",
               "LOCAL_BOOKMARK_CONFLICTED", "REMOTE_BOOKMARK_CONFLICTED"}

PlanTypeOK ==
  /\ pc \in Queries \cup {"planned", "failed"}
  /\ opID \in 0..Len(ops)
  /\ snapRemotes \subseteq Remote
  /\ loc \subseteq Commit
  /\ rem \subseteq Commit
  /\ oldRef \in Commit \cup {NoCommit}
  /\ newRef \in Commit \cup {NoCommit}
  /\ effOld \in Commit \cup {NoCommit}
  /\ commits \subseteq Commit
  /\ status \in {"none", "planned", "no_remote_change"}
  /\ err \in PlanErrors \cup {"none"}

PlanInit ==
  /\ pc = "pin"
  /\ opID = 0
  /\ snapRemotes = {}
  /\ loc = {}
  /\ rem = {}
  /\ oldRef = NoCommit
  /\ newRef = NoCommit
  /\ effOld = NoCommit
  /\ commits = {}
  /\ status = "none"
  /\ err = "none"

-----------------------------------------------------------------------------
\* PinOperation: the newest operation becomes the view of this resolve.
PinOperation ==
  /\ pc = "pin"
  /\ opID' = Len(ops)
  /\ pc' = "remotes"
  /\ UNCHANGED <<snapRemotes, loc, rem, oldRef, newRef, effOld, commits, status, err>>

\* Faulty variant: a remote that is missing is looked for in a new snapshot.
FaultyListRemotes ==
  /\ pc = "remotes"
  /\ snapRemotes' = remotes
  /\ pc' = IF R \in remotes THEN "bookmarks" ELSE "pin"
  /\ UNCHANGED <<opID, loc, rem, oldRef, newRef, effOld, commits, status, err>>

\* ListRemotes: carries --at-op, but the remotes are not in the view.
ListRemotes ==
  /\ pc = "remotes"
  /\ snapRemotes' = remotes
  /\ pc' = "bookmarks"
  /\ UNCHANGED <<opID, loc, rem, oldRef, newRef, effOld, commits, status, err>>

\* What resolveInternal refuses in a snapshot, in the order it looks.
SnapshotError(known, l, r) ==
  IF R \notin known     THEN "REMOTE_NOT_FOUND"
  ELSE IF l = {}        THEN "LOCAL_BOOKMARK_NOT_FOUND"
  ELSE IF IsConflict(l) THEN "LOCAL_BOOKMARK_CONFLICTED"
  ELSE IF IsConflict(r) THEN "REMOTE_BOOKMARK_CONFLICTED"
  ELSE "none"

\* ListBookmarks ends the snapshot; resolveInternal validates it at once.
ListBookmarks ==
  /\ pc = "bookmarks"
  /\ loc' = ops[opID].local
  /\ rem' = ops[opID].rem[R]
  /\ err' = SnapshotError(snapRemotes, loc', rem')
  /\ pc' = IF err' # "none" THEN "failed"
           ELSE IF rem' # {} THEN "oldid" ELSE "newid"
  /\ UNCHANGED <<opID, snapRemotes, oldRef, newRef, effOld, commits, status>>

\* resolveChangeID of the remote-tracking target; Old is set once it answers.
ResolveOldID ==
  /\ pc = "oldid"
  /\ oldRef' = TargetOf(rem)
  /\ pc' = "newid"
  /\ UNCHANGED <<opID, snapRemotes, loc, rem, newRef, effOld, commits, status, err>>

\* resolveChangeID of the local target.
ResolveNewID ==
  /\ pc = "newid"
  /\ newRef' = TargetOf(loc)
  /\ pc' = IF oldRef # NoCommit THEN "outgoing" ELSE "effold"
  /\ UNCHANGED <<opID, snapRemotes, loc, rem, oldRef, effOld, commits, status, err>>

\* heads(::NEW & remote_bookmarks()) at the pinned view.
RemoteAncestorHeads(v, new) == Heads(Anc[new] \cap RemoteBookmarks(v))

\* Faulty variant: the query forgets --at-op and reads the newest view.
FaultyNearestRemoteAncestor ==
  /\ pc = "effold"
  /\ LET hs == RemoteAncestorHeads(ops[Len(ops)], newRef) IN
       effOld' \in IF hs = {} THEN {NoCommit} ELSE hs
  /\ pc' = "outgoing"
  /\ UNCHANGED <<opID, snapRemotes, loc, rem, oldRef, newRef, commits, status, err>>

\* nearestRemoteAncestor: the first commit jj prints, which is any of the heads.
NearestRemoteAncestor ==
  /\ pc = "effold"
  /\ LET hs == RemoteAncestorHeads(ops[opID], newRef) IN
       effOld' \in IF hs = {} THEN {NoCommit} ELSE hs
  /\ pc' = "outgoing"
  /\ UNCHANGED <<opID, snapRemotes, loc, rem, oldRef, newRef, commits, status, err>>

\* The outgoing revset for a base, NoCommit standing for the whole chain.
Outgoing(base, new) ==
  (IF base = NoCommit THEN Anc[new] ELSE DagRange(base, new)) \ {Root}

\* outgoingCommits, canonicalise and the status, which end the resolve.
OutgoingCommits ==
  /\ pc = "outgoing"
  /\ commits' = Outgoing(IF oldRef # NoCommit THEN oldRef ELSE effOld, newRef)
  /\ status' = IF oldRef = newRef THEN "no_remote_change" ELSE "planned"
  /\ pc' = "planned"
  /\ UNCHANGED <<opID, snapRemotes, loc, rem, oldRef, newRef, effOld, err>>

\* A subprocess fails, prints what the strict parser refuses, or does not
\* print the commit resolveChangeID asked for: the resolve stops.
QueryFails ==
  /\ pc \in Queries
  /\ err' = "JJ_QUERY_FAILED"
  /\ pc' = "failed"
  /\ UNCHANGED <<opID, snapRemotes, loc, rem, oldRef, newRef, effOld, commits, status>>

PlanStep ==
  \/ PinOperation \/ ListRemotes \/ ListBookmarks \/ ResolveOldID \/ ResolveNewID
  \/ NearestRemoteAncestor \/ OutgoingCommits \/ QueryFails

\* The subprocesses that a resolve may still start.
PlanLeft == [pin |-> 7, remotes |-> 6, bookmarks |-> 5, oldid |-> 4, newid |-> 3, effold |-> 2,
             outgoing |-> 1, planned |-> 0, failed |-> 0]

-----------------------------------------------------------------------------
(* `bjj plan' on its own, beside the programs that change the repository.  *)

Init == RepoInit /\ PlanInit

Next ==
  \/ PlanStep /\ UNCHANGED repoVars
  \/ RepoNext /\ UNCHANGED planVars

vars == <<repoVars, planVars>>

Spec == Init /\ [][Next]_vars

TypeOK == RepoTypeOK /\ PlanTypeOK

-----------------------------------------------------------------------------
(* Safety properties.                                                      *)

\* The bases a plan may start from at view v.
Bases(v, new) ==
  IF v.rem[R] # {} THEN v.rem[R]
  ELSE LET hs == RemoteAncestorHeads(v, new) IN IF hs = {} THEN {NoCommit} ELSE hs

(* A plan is the plan of ONE view, the pinned one, whatever the repository *)
(* became while the seven subprocesses ran: both ends of the move, the     *)
(* status and the outgoing set are those of ops[opID] (the single-view     *)
(* contract of Source, resolve.go:23-31).                                  *)
PlanOfOneView ==
  pc = "planned" =>
    LET v == ops[opID] IN
    /\ v.local = {newRef}
    /\ v.rem[R] = IF oldRef = NoCommit THEN {} ELSE {oldRef}
    /\ status = IF v.rem[R] = v.local THEN "no_remote_change" ELSE "planned"
    /\ \E b \in Bases(v, newRef) : commits = Outgoing(b, newRef)

\* What remote r is known to hold at view v, and so what a push need not send.
Published(v, r) == UNION {Anc[c] : c \in v.rem[r] \cup v.other[r]}

(* Nothing reaches the remote unexamined: every commit that publishing NEW *)
(* to R would send, given what the pinned view knows of R, is in the plan. *)
PlanCoversPublication ==
  pc = "planned" => Anc[newRef] \ (Published(ops[opID], R) \cup {Root}) \subseteq commits
=============================================================================
