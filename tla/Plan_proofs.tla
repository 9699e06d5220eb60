----------------------------- MODULE Plan_proofs -----------------------------
(***************************************************************************)
(* Proofs about module Plan, for every repository, every log of operations *)
(* and every interleaving of the resolver with other programs.             *)
(***************************************************************************)
EXTENDS Plan, TLAPS

(* The strengthening of TypeOK and PlanOfOneView that a step preserves:    *)
(* what the resolver holds in memory after each of its subprocesses is what *)
(* the pinned view says, and the pinned view never changes.                *)

\* From PinOperation on there is a pinned view.
Pinned ==
  /\ pc = "pin" => opID = 0
  /\ pc \notin {"pin", "failed"} => opID \in 1..Len(ops)

Loaded == pc \in {"oldid", "newid", "effold", "outgoing", "planned"}

\* After ListBookmarks the two bookmarks are those of the pinned view.
SnapshotOfView ==
  Loaded =>
    /\ loc = ops[opID].local /\ loc # {} /\ ~IsConflict(loc)
    /\ rem = ops[opID].rem[R] /\ ~IsConflict(rem)
    /\ pc = "oldid" => rem # {}

\* Old and New are set by their own queries, from the snapshot.
EndsOfSnapshot ==
  /\ pc \in {"pin", "remotes", "bookmarks", "oldid"} => oldRef = NoCommit
  /\ Loaded /\ pc # "oldid" => rem = IF oldRef = NoCommit THEN {} ELSE {oldRef}
  /\ pc \in {"effold", "outgoing", "planned"} => loc = {newRef}
  /\ pc = "effold" => oldRef = NoCommit

\* The effective old of a new bookmark is a base of the pinned view.
BaseOfView ==
  pc \in {"outgoing", "planned"} /\ oldRef = NoCommit =>
    effOld \in Bases(ops[opID], newRef)

PlanOfSnapshot ==
  pc = "planned" =>
    /\ commits = Outgoing(IF oldRef # NoCommit THEN oldRef ELSE effOld, newRef)
    /\ status = IF oldRef = newRef THEN "no_remote_change" ELSE "planned"

PlanInv ==
  TypeOK /\ Pinned /\ SnapshotOfView /\ EndsOfSnapshot /\ BaseOfView /\ PlanOfSnapshot

-----------------------------------------------------------------------------
(* Lemmas about the revsets and the snapshot.                              *)

\* TargetOf picks the only candidate of a bookmark that is not conflicted.
LEMMA TargetOfOne ==
  ASSUME NEW T, T # {}, ~IsConflict(T)
  PROVE  T = {TargetOf(T)}
BY DEF IsConflict, TargetOf

\* A commit id is never the empty id.
LEMMA NoCommitIsNone == NoCommit \notin Commit
BY CommitAssumption DEF NoCommit

\* The fields of a view.
LEMMA ViewFields ==
  ASSUME NEW v \in Views
  PROVE  /\ v.local \subseteq Commit
         /\ v.rem[R] \subseteq Commit
         /\ RemoteBookmarks(v) \subseteq Commit
BY ViewsAssumption, RemoteAssumption DEF ViewType, RemoteBookmarks

\* heads() selects from its argument.
LEMMA HeadsSubset == \A S : Heads(S) \subseteq S
BY DEF Heads

\* The log only grows: an operation that another program commits leaves the
\* views already there as they were.
LEMMA AppendKeepsViews ==
  ASSUME RepoTypeOK, RepoNext
  PROVE  /\ RepoTypeOK'
         /\ Len(ops) <= Len(ops')
         /\ \A i \in 1..Len(ops) : ops'[i] = ops[i]
<1>1. CASE Mutate
  BY <1>1, ViewsAssumption DEF RepoTypeOK, Mutate
<1>2. CASE EditRemotes
  BY <1>2 DEF RepoTypeOK, EditRemotes
<1> QED BY <1>1, <1>2 DEF RepoNext

-----------------------------------------------------------------------------
LEMMA PlanInit_Inv == Init => PlanInv
<1> SUFFICES ASSUME Init PROVE PlanInv
  OBVIOUS
<1>1. RepoTypeOK
  BY ViewsAssumption DEF Init, RepoInit, RepoTypeOK
<1>2. PlanTypeOK
  BY <1>1 DEF Init, PlanInit, PlanTypeOK, RepoTypeOK, Queries, PlanErrors
<1> QED BY <1>1, <1>2
  DEF Init, PlanInit, PlanInv, TypeOK, Pinned, Loaded, SnapshotOfView, EndsOfSnapshot,
      BaseOfView, PlanOfSnapshot

\* Other programs do not disturb a resolve.
LEMMA RepoNext_Inv ==
  ASSUME PlanInv, RepoNext, UNCHANGED planVars
  PROVE  PlanInv'
<1> USE DEF planVars
<1>1. RepoTypeOK' /\ Len(ops) <= Len(ops') /\ \A i \in 1..Len(ops) : ops'[i] = ops[i]
  BY AppendKeepsViews DEF PlanInv, TypeOK
<1>2. PlanTypeOK'
  BY <1>1 DEF PlanInv, TypeOK, PlanTypeOK, RepoTypeOK
<1>3. pc \notin {"pin", "failed"} => opID \in 1..Len(ops) /\ ops'[opID] = ops[opID]
  BY <1>1 DEF PlanInv, Pinned
<1>4. Pinned'
  BY <1>1, <1>3 DEF PlanInv, Pinned, TypeOK, RepoTypeOK
<1>5. SnapshotOfView' /\ BaseOfView'
  BY <1>3 DEF PlanInv, SnapshotOfView, BaseOfView, Loaded, Bases, RemoteAncestorHeads,
              RemoteBookmarks
<1>6. EndsOfSnapshot' /\ PlanOfSnapshot'
  BY DEF PlanInv, EndsOfSnapshot, PlanOfSnapshot, Loaded
<1> QED BY <1>1, <1>2, <1>4, <1>5, <1>6 DEF PlanInv, TypeOK

\* Each subprocess of the resolver keeps the invariant.
LEMMA PlanStep_Inv ==
  ASSUME PlanInv, PlanStep, UNCHANGED repoVars
  PROVE  PlanInv'
<1> USE DEF repoVars
<1>1. RepoTypeOK'
  BY DEF PlanInv, TypeOK, RepoTypeOK
<1>2. CASE PinOperation
  BY <1>1, <1>2 DEF PinOperation, PlanInv, TypeOK, RepoTypeOK, PlanTypeOK, Queries, PlanErrors,
     Pinned, Loaded, SnapshotOfView, EndsOfSnapshot, BaseOfView, PlanOfSnapshot
<1>3. CASE ListRemotes
  BY <1>1, <1>3 DEF ListRemotes, PlanInv, TypeOK, RepoTypeOK, PlanTypeOK, Queries, PlanErrors,
     Pinned, Loaded, SnapshotOfView, EndsOfSnapshot, BaseOfView, PlanOfSnapshot
<1>4. CASE ListBookmarks
  <2>1. opID \in 1..Len(ops) /\ ops[opID] \in Views /\ oldRef = NoCommit
    BY <1>4 DEF ListBookmarks, PlanInv, Pinned, TypeOK, RepoTypeOK, EndsOfSnapshot
  <2>2. loc' \subseteq Commit /\ rem' \subseteq Commit
    BY <1>4, <2>1, ViewFields DEF ListBookmarks
  <2>3. /\ err' \in PlanErrors \cup {"none"}
        /\ err' = "none" => loc' # {} /\ ~IsConflict(loc') /\ ~IsConflict(rem')
    BY <1>4 DEF ListBookmarks, SnapshotError, PlanErrors
  <2>4. PlanTypeOK'
    BY <1>4, <2>2, <2>3 DEF ListBookmarks, PlanInv, TypeOK, PlanTypeOK, Queries
  <2>5. Pinned'
    BY <1>4, <2>1 DEF ListBookmarks, Pinned
  <2>6. SnapshotOfView'
    BY <1>4, <2>3 DEF ListBookmarks, SnapshotOfView, Loaded, IsConflict
  <2>7. EndsOfSnapshot' /\ BaseOfView' /\ PlanOfSnapshot'
    BY <1>4, <2>1 DEF ListBookmarks, EndsOfSnapshot, BaseOfView, PlanOfSnapshot, Loaded
  <2> QED BY <1>1, <2>4, <2>5, <2>6, <2>7 DEF PlanInv, TypeOK
<1>5. CASE ResolveOldID
  <2>1. rem # {} /\ ~IsConflict(rem) /\ rem \subseteq Commit
    BY <1>5 DEF ResolveOldID, PlanInv, SnapshotOfView, Loaded, TypeOK, PlanTypeOK
  <2>2. rem = {oldRef'} /\ oldRef' \in Commit /\ oldRef' # NoCommit
    BY <1>5, <2>1, TargetOfOne, NoCommitIsNone DEF ResolveOldID
  <2>3. PlanTypeOK'
    BY <1>5, <2>2 DEF ResolveOldID, PlanInv, TypeOK, PlanTypeOK, Queries
  <2>4. Pinned' /\ SnapshotOfView'
    BY <1>5 DEF ResolveOldID, PlanInv, Pinned, SnapshotOfView, Loaded
  <2>5. EndsOfSnapshot' /\ BaseOfView' /\ PlanOfSnapshot'
    BY <1>5, <2>2 DEF ResolveOldID, EndsOfSnapshot, BaseOfView, PlanOfSnapshot, Loaded
  <2> QED BY <1>1, <2>3, <2>4, <2>5 DEF PlanInv, TypeOK
<1>6. CASE ResolveNewID
  <2>1. loc # {} /\ ~IsConflict(loc) /\ loc \subseteq Commit
    BY <1>6 DEF ResolveNewID, PlanInv, SnapshotOfView, Loaded, TypeOK, PlanTypeOK
  <2>2. loc = {newRef'} /\ newRef' \in Commit
    BY <1>6, <2>1, TargetOfOne DEF ResolveNewID
  <2>3. PlanTypeOK'
    BY <1>6, <2>2 DEF ResolveNewID, PlanInv, TypeOK, PlanTypeOK, Queries
  <2>4. Pinned' /\ SnapshotOfView'
    BY <1>6 DEF ResolveNewID, PlanInv, Pinned, SnapshotOfView, Loaded
  <2>5. EndsOfSnapshot' /\ BaseOfView' /\ PlanOfSnapshot'
    BY <1>6, <2>2 DEF ResolveNewID, PlanInv, EndsOfSnapshot, BaseOfView, PlanOfSnapshot, Loaded
  <2> QED BY <1>1, <2>3, <2>4, <2>5 DEF PlanInv, TypeOK
<1>7. CASE NearestRemoteAncestor
  <2>1. /\ opID \in 1..Len(ops) /\ ops[opID] \in Views /\ oldRef = NoCommit
        /\ ops[opID].rem[R] = {}
    BY <1>7 DEF NearestRemoteAncestor, PlanInv, Pinned, TypeOK, RepoTypeOK, SnapshotOfView,
                EndsOfSnapshot, Loaded
  <2>2. effOld' \in Bases(ops[opID], newRef)
    BY <1>7, <2>1 DEF NearestRemoteAncestor, Bases
  <2>3. effOld' \in Commit \cup {NoCommit}
    BY <2>1, <2>2, ViewFields, HeadsSubset DEF Bases, RemoteAncestorHeads
  <2>4. PlanTypeOK'
    BY <1>7, <2>3 DEF NearestRemoteAncestor, PlanInv, TypeOK, PlanTypeOK, Queries
  <2>5. Pinned' /\ SnapshotOfView' /\ EndsOfSnapshot' /\ PlanOfSnapshot'
    BY <1>7 DEF NearestRemoteAncestor, PlanInv, Pinned, SnapshotOfView, EndsOfSnapshot,
                PlanOfSnapshot, Loaded
  <2>6. BaseOfView'
    BY <1>7, <2>2 DEF NearestRemoteAncestor, BaseOfView, Bases, RemoteAncestorHeads,
                      RemoteBookmarks
  <2> QED BY <1>1, <2>4, <2>5, <2>6 DEF PlanInv, TypeOK
<1>8. CASE OutgoingCommits
  <2>1. newRef \in Commit
    BY <1>8 DEF OutgoingCommits, PlanInv, EndsOfSnapshot, TypeOK, PlanTypeOK
  <2>2. commits' \subseteq Commit
    BY <1>8, <2>1, CommitAssumption DEF OutgoingCommits, Outgoing, DagRange
  <2>3. PlanTypeOK'
    BY <1>8, <2>2 DEF OutgoingCommits, PlanInv, TypeOK, PlanTypeOK, Queries
  <2>4. Pinned' /\ SnapshotOfView' /\ EndsOfSnapshot'
    BY <1>8 DEF OutgoingCommits, PlanInv, Pinned, SnapshotOfView, EndsOfSnapshot, Loaded
  <2>5. BaseOfView' /\ PlanOfSnapshot'
    BY <1>8 DEF OutgoingCommits, PlanInv, BaseOfView, PlanOfSnapshot, Bases,
                RemoteAncestorHeads, RemoteBookmarks
  <2> QED BY <1>1, <2>3, <2>4, <2>5 DEF PlanInv, TypeOK
<1>9. CASE QueryFails
  BY <1>1, <1>9 DEF QueryFails, PlanInv, TypeOK, PlanTypeOK, Queries, PlanErrors,
     Pinned, Loaded, SnapshotOfView, EndsOfSnapshot, BaseOfView, PlanOfSnapshot
<1> QED BY <1>2, <1>3, <1>4, <1>5, <1>6, <1>7, <1>8, <1>9 DEF PlanStep

\* Each subprocess of the resolver leaves fewer to come.
LEMMA PlanLeftValues ==
  /\ PlanLeft["pin"] = 7 /\ PlanLeft["remotes"] = 6 /\ PlanLeft["bookmarks"] = 5
  /\ PlanLeft["oldid"] = 4 /\ PlanLeft["newid"] = 3 /\ PlanLeft["effold"] = 2
  /\ PlanLeft["outgoing"] = 1 /\ PlanLeft["planned"] = 0 /\ PlanLeft["failed"] = 0
BY DEF PlanLeft

LEMMA PlanStep_Counts ==
  ASSUME PlanStep
  PROVE  /\ PlanLeft[pc] \in Nat /\ PlanLeft[pc'] \in Nat
         /\ PlanLeft[pc'] < PlanLeft[pc]
<1>1. \/ pc = "pin" /\ pc' = "remotes"
      \/ pc = "remotes" /\ pc' = "bookmarks"
      \/ pc = "bookmarks" /\ pc' \in {"failed", "oldid", "newid"}
      \/ pc = "oldid" /\ pc' = "newid"
      \/ pc = "newid" /\ pc' \in {"outgoing", "effold"}
      \/ pc = "effold" /\ pc' = "outgoing"
      \/ pc = "outgoing" /\ pc' = "planned"
      \/ pc \in Queries /\ pc' = "failed"
  BY DEF PlanStep, PinOperation, ListRemotes, ListBookmarks, ResolveOldID, ResolveNewID,
         NearestRemoteAncestor, OutgoingCommits, QueryFails
<1> QED BY <1>1, PlanLeftValues DEF Queries

\* PlanInv is an invariant of the resolver beside other programs.
THEOREM PlanInvariant == Spec => []PlanInv
<1>1. Init => PlanInv
  BY PlanInit_Inv
<1>2. PlanInv /\ [Next]_vars => PlanInv'
  <2> SUFFICES ASSUME PlanInv, [Next]_vars PROVE PlanInv'
    OBVIOUS
  <2>1. CASE PlanStep /\ UNCHANGED repoVars
    BY <2>1, PlanStep_Inv
  <2>2. CASE RepoNext /\ UNCHANGED planVars
    BY <2>2, RepoNext_Inv
  <2>3. CASE UNCHANGED vars
    BY <2>3 DEF vars, repoVars, planVars, PlanInv, TypeOK, RepoTypeOK, PlanTypeOK, Pinned,
       Loaded, SnapshotOfView, EndsOfSnapshot, BaseOfView, Bases, RemoteAncestorHeads,
       PlanOfSnapshot
  <2> QED BY <2>1, <2>2, <2>3 DEF Next
<1> QED BY <1>1, <1>2, PTL DEF Spec

-----------------------------------------------------------------------------
\* What the invariant says of a finished plan.
LEMMA InvPlan == PlanInv => PlanOfOneView
<1> SUFFICES ASSUME PlanInv, pc = "planned" PROVE PlanOfOneView
  BY DEF PlanOfOneView
<1> DEFINE v == ops[opID]
<1>1. v.local = {newRef} /\ v.rem[R] = IF oldRef = NoCommit THEN {} ELSE {oldRef}
  BY DEF PlanInv, SnapshotOfView, EndsOfSnapshot, Loaded
<1>2. newRef # NoCommit
  BY NoCommitIsNone DEF PlanInv, EndsOfSnapshot, TypeOK, PlanTypeOK
<1>3. v.rem[R] = v.local <=> oldRef = newRef
  BY <1>1, <1>2
<1>4. \E b \in Bases(v, newRef) : commits = Outgoing(b, newRef)
  <2>1. CASE oldRef = NoCommit
    BY <2>1 DEF PlanInv, BaseOfView, PlanOfSnapshot
  <2>2. CASE oldRef # NoCommit
    BY <1>1, <2>2 DEF PlanInv, PlanOfSnapshot, Bases
  <2> QED BY <2>1, <2>2
<1> QED BY <1>1, <1>3, <1>4 DEF PlanInv, PlanOfSnapshot, PlanOfOneView

\* What some remote is known to hold at view v.
KnownToRemotes(v) == UNION {Published(v, r) : r \in Remote}

\* However many remotes there are, the plan holds every commit that none of
\* them is known to have.
LEMMA InvCoversUnknown ==
  ASSUME PlanInv, pc = "planned"
  PROVE  Anc[newRef] \ (KnownToRemotes(ops[opID]) \cup {Root}) \subseteq commits
<1> DEFINE v == ops[opID]
<1>1. PICK b \in Bases(v, newRef) : commits = Outgoing(b, newRef)
  BY InvPlan DEF PlanOfOneView
<1>2. CASE b = NoCommit
  BY <1>1, <1>2 DEF Outgoing
<1>3. CASE b # NoCommit
  <2>1. PICK r \in Remote : b \in v.rem[r] \cup v.other[r]
    BY <1>3, HeadsSubset, RemoteAssumption DEF Bases, RemoteAncestorHeads, RemoteBookmarks
  <2>2. Anc[b] \subseteq KnownToRemotes(v)
    BY <2>1 DEF Published, KnownToRemotes
  <2> QED BY <1>1, <1>3, <2>2 DEF Outgoing, DagRange
<1> QED BY <1>2, <1>3

\* A plan covers the publication when R is the only remote that views mention.
LEMMA InvCovers ==
  ASSUME Remote = {R}, PlanInv
  PROVE  PlanCoversPublication
<1>1. KnownToRemotes(ops[opID]) = Published(ops[opID], R)
  BY DEF KnownToRemotes
<1> QED BY <1>1, InvCoversUnknown DEF PlanCoversPublication

-----------------------------------------------------------------------------
\* Every variable of the resolver stays in its type.
THEOREM TypeCorrect == Spec => []TypeOK
<1>1. PlanInv => TypeOK
  BY DEF PlanInv
<1> QED BY <1>1, PlanInvariant, PTL

\* A finished plan is the plan of the pinned view, whatever other programs
\* did to the repository while it was resolved.
THEOREM OneView == Spec => []PlanOfOneView
BY InvPlan, PlanInvariant, PTL

\* However many remotes there are, a finished plan holds every commit of NEW
\* that no remote is known to have: heads(::NEW & remote_bookmarks()) may start
\* a plan from the bookmark of another remote, but never from a commit that is
\* on none (resolve.go, nearestRemoteAncestor).
THEOREM CoversWhatIsNowhere ==
  Spec => [](pc = "planned" =>
               Anc[newRef] \ (KnownToRemotes(ops[opID]) \cup {Root}) \subseteq commits)
BY InvCoversUnknown, PlanInvariant, PTL

\* With a single remote, every commit that publication would send is in the
\* plan.
THEOREM CoversPublication ==
  ASSUME Remote = {R}
  PROVE  Spec => []PlanCoversPublication
<1>1. PlanInv => PlanCoversPublication
  BY InvCovers
<1> QED BY <1>1, PlanInvariant, PTL
=============================================================================
