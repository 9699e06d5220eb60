---------------------------- MODULE Orchestrator ----------------------------
(***************************************************************************)
(* internal/check: Orchestrator.Run with the materializer, the pre-exec    *)
(* verifier and the aggregator, over the runner of module Runner.          *)
(*                                                                         *)
(* Every check of the profile gets a workspace of its own: the tree of NEW *)
(* is listed and written file by file, read back and compared, handed to   *)
(* the check, and removed.  What can touch a workspace meanwhile is the    *)
(* check itself and programs that do not know of bjj.                      *)
(***************************************************************************)
EXTENDS Runner, Sequences

CONSTANTS
  Profile,    \* the ids of the profile, in the order they run
  Candidate,  \* commits that may be the subject
  Path,       \* the paths of a workspace, tracked or not
  Tree,       \* Tree[c][p]: the entry of path p in commit c
  Masked,     \* the umask withholds permissions of 0644 (077 or 027, say)
  Meddling,   \* steps at which another program may touch a workspace
  Touched,    \* bound: the paths that it, and checks, write to or remove
  Lingering   \* bound: checks that may leave a descendant in their workspace

NoEntry == [kind |-> "none", exec |-> FALSE, fits |-> TRUE]

\* An entry of a tree; it fits when its body is within DefaultMaxOutputBytes.
Entry == [kind : {"file", "symlink", "git-submodule", "conflict", "tree"},
          exec : BOOLEAN, fits : BOOLEAN]

NoFile == [body |-> "none", mode |-> "none"]

\* A file of a workspace: its body is that of the tree, the beginning of it,
\* or something else.
File == [body : {"exact", "cut", "other"}, mode : {"0644", "0755", "other"}]

ASSUME OrchestratorAssumption ==
  /\ Profile \in Seq(CheckID)
  /\ Tree \in [Candidate -> [Path -> Entry \cup {NoEntry}]]
  /\ Masked \in BOOLEAN
  /\ Touched \subseteq Path
  /\ Lingering \subseteq CheckID

VARIABLES
  opc,        \* where Run is
  subject,    \* the commit that was admitted
  ix,         \* the spec of the profile whose turn it is
  todo,       \* paths that are not written yet
  ws,         \* the files of the current workspace
  manifest,   \* what the materializer recorded of it
  unread,     \* paths the walk of the verifier has not come to
  found,      \* what it has read so far
  dirs,       \* the workspaces that exist
  outcomes,   \* the outcomes so far
  total,      \* the aggregate status
  cerr,       \* the code of the typed error
  stuck,      \* history: workspaces whose removal failed
  late,       \* history: paths of the current workspace that another program
              \* touched after the walk had read them
  input,      \* history: the files processes were started on, and late with them
  meddled,    \* history: another program touched a workspace
  orphans     \* history: the specs whose check left a descendant behind that
              \* holds no pipe of bjj's; nothing ever ends it

walkVars == <<unread, found, late>>

orchVars == <<opc, subject, ix, todo, ws, manifest, walkVars, dirs, outcomes, total, cerr,
              stuck, input, meddled, orphans>>

Empty == [p \in Path |-> NoFile]

Tracked(c) == {p \in Path : Tree[c][p] # NoEntry}

OrchTypeOK ==
  /\ opc \in {"idle", "spec", "files", "walk", "run", "running", "done", "failed"}
  /\ subject \in Candidate
  /\ ix \in 1..Len(Profile) + 1
  /\ todo \subseteq Path
  /\ {ws, manifest, found} \subseteq [Path -> File \cup {NoFile}]
  /\ unread \subseteq Path /\ late \subseteq Path
  /\ dirs \subseteq 1..Len(Profile) /\ stuck \subseteq 1..Len(Profile)
  /\ Len(outcomes) <= Len(Profile) /\ Len(input) <= Len(Profile)
  /\ total \in {"none", "pass", "fail", "error"}
  /\ cerr \in {"none", "CHECK_MATERIALIZATION_FAILED", "CHECK_UNSUPPORTED_TREE_ENTRY",
               "CHECK_MATERIALIZATION_MISMATCH", "CHECK_WORKSPACE_CHANGED"}
  /\ meddled \in BOOLEAN
  /\ orphans \subseteq 1..Len(Profile)

OrchIdle ==
  /\ opc = "idle"
  /\ ix = 1
  /\ todo = {}
  /\ ws = Empty /\ manifest = Empty /\ found = Empty
  /\ unread = {} /\ late = {}
  /\ dirs = {} /\ stuck = {}
  /\ outcomes = <<>> /\ input = <<>>
  /\ total = "none" /\ cerr = "none"
  /\ meddled = FALSE
  /\ orphans = {}

-----------------------------------------------------------------------------
\* Faulty variant: the name is made of the subject.
FaultyDirOf(i) == 1

\* The workspace of spec i: os.MkdirTemp gives every call a fresh name.
DirOf(i) == i

\* RemoveAll of the current workspace; its error is ignored everywhere.
RemoveAll ==
  \/ dirs' = dirs \ {DirOf(ix)} /\ UNCHANGED stuck
  \/ dirs' = dirs /\ stuck' = stuck \cup {DirOf(ix)}

\* Faulty variant: the error path leaves the workspace behind.
FaultyAbort(e) ==
  /\ cerr' = e
  /\ opc' = "failed"
  /\ UNCHANGED <<dirs, stuck>>

\* The run ends without a result; outcomes so far are dropped.
Abort(e) ==
  /\ cerr' = e
  /\ opc' = "failed"
  /\ RemoveAll

\* Faulty variant: one turn too many.
FaultySpecLeft == ix <= Len(Profile) + 1

\* The range over the profile has another spec.
SpecLeft == ix <= Len(Profile)

\* Materialize up to the directory.  A cancelled context, a failed listing, an
\* empty tree or a failed mkdir end the run before there is a workspace.
ListTree ==
  /\ opc = "spec" /\ SpecLeft
  /\ \/ /\ cerr' = "CHECK_MATERIALIZATION_FAILED"
        /\ opc' = "failed"
        /\ UNCHANGED <<todo, ws, manifest, walkVars, dirs>>
     \/ /\ ctx = "nil" /\ Tracked(subject) # {}
        /\ dirs' = dirs \cup {DirOf(ix)}
        /\ ws' = Empty /\ manifest' = Empty /\ found' = Empty
        /\ unread' = Path /\ late' = {}
        /\ todo' = Tracked(subject)
        /\ opc' = "files"
        /\ UNCHANGED cerr
  /\ UNCHANGED <<runnerVars, subject, ix, outcomes, total, stuck, input, meddled, orphans>>

\* What `jj file show' prints of an entry: execx keeps the first MiB and the
\* marker of the cut, and nobody looks for it.
Shown(e) == IF e.fits THEN "exact" ELSE "cut"

ModeOf(e) == IF e.exec THEN "0755" ELSE "0644"

\* Faulty variant: the manifest records every file as 0644.
FaultyRecord(e) == [body |-> Shown(e), mode |-> "0644"]

\* The FileEntry of an entry.
Record(e) == [body |-> Shown(e), mode |-> ModeOf(e)]

\* The file after os.WriteFile of an entry: a new one is made under the umask,
\* one that is there already keeps its mode.
Written(e, old) ==
  [body |-> Shown(e),
   mode |-> IF old # NoFile THEN old.mode ELSE IF Masked THEN "other" ELSE ModeOf(e)]

\* One turn of the loop of Materialize, which takes the entries in the order of
\* their paths; here any order will do.
MaterializeFile ==
  /\ opc = "files"
  /\ \E p \in todo :
       LET e == Tree[subject][p] IN
       \/ /\ ctx = "nil" /\ e.kind # "file"
          /\ Abort("CHECK_UNSUPPORTED_TREE_ENTRY")
          /\ UNCHANGED <<todo, ws, manifest>>
       \/ /\ ctx # "nil" \/ e.kind = "file"    \* cancelled, or show or write failed
          /\ Abort("CHECK_MATERIALIZATION_FAILED")
          /\ UNCHANGED <<todo, ws, manifest>>
       \/ /\ ctx = "nil" /\ e.kind = "file"
          /\ todo' = todo \ {p}
          /\ ws' = [ws EXCEPT ![p] = Written(e, @)]
          /\ manifest' = [manifest EXCEPT ![p] = Record(e)]
          /\ UNCHANGED <<opc, cerr, dirs, stuck>>
  /\ UNCHANGED <<runnerVars, subject, ix, walkVars, outcomes, total, input, meddled, orphans>>

\* Materialize returns, and the orchestrator has the workspace read back.
BeginWalk ==
  /\ opc = "files" /\ todo = {}
  /\ opc' = "walk"
  /\ UNCHANGED <<runnerVars, subject, ix, todo, ws, manifest, walkVars, dirs, outcomes, total,
                 cerr, stuck, input, meddled, orphans>>

\* DefaultReVerifier comes to a path and reads what is there, or the walk ends
\* in an error.  It takes the paths in their order; here any order will do, and
\* one where nothing is counts as read when its directory is listed.
ReadBack ==
  /\ opc = "walk"
  /\ \E p \in unread :
       \/ /\ Abort("CHECK_MATERIALIZATION_MISMATCH")   \* cancelled, or p cannot be read
          /\ UNCHANGED <<unread, found>>
       \/ /\ ctx = "nil"
          /\ unread' = unread \ {p}
          /\ found' = [found EXCEPT ![p] = ws[p]]
          /\ UNCHANGED <<opc, cerr, dirs, stuck>>
  /\ UNCHANGED <<runnerVars, subject, ix, todo, ws, manifest, late, outcomes, total, input,
                 meddled, orphans>>

\* Faulty variant: what was read back is not compared.
FaultyCompare ==
  /\ opc = "walk" /\ unread = {}
  /\ opc' = "run"
  /\ UNCHANGED <<runnerVars, subject, ix, todo, ws, manifest, walkVars, dirs, outcomes, total,
                 cerr, stuck, input, meddled, orphans>>

\* manifestEqual, over the whole workspace.
Compare ==
  /\ opc = "walk" /\ unread = {}
  /\ \/ found # manifest /\ Abort("CHECK_WORKSPACE_CHANGED")
     \/ found = manifest /\ opc' = "run" /\ UNCHANGED <<cerr, dirs, stuck>>
  /\ UNCHANGED <<runnerVars, subject, ix, todo, ws, manifest, walkVars, outcomes, total, input,
                 meddled, orphans>>

\* Runner.Run is called.
StartCheck ==
  /\ opc = "run"
  /\ Begin(Profile[ix])
  /\ opc' = "running"
  /\ UNCHANGED <<subject, ix, todo, ws, manifest, walkVars, dirs, outcomes, total, cerr, stuck,
                 input, meddled, orphans>>

\* The runner works; the history keeps what a process is started on.
RunCheck ==
  /\ opc = "running"
  /\ RunnerStep
  /\ input' = IF proc # "running" /\ proc' = "running"
              THEN Append(input, [files |-> ws, late |-> late]) ELSE input
  /\ UNCHANGED <<opc, subject, ix, todo, ws, manifest, walkVars, dirs, outcomes, total, cerr, stuck,
                 meddled, orphans>>

\* Faulty variant: a check that could not be run is run again.
FaultyCollect ==
  /\ opc = "running" /\ rpc = "returned"
  /\ outcomes' = IF verdict.status = "error" THEN outcomes ELSE Append(outcomes, verdict)
  /\ RemoveAll
  /\ ix' = IF verdict.status = "error" THEN ix ELSE ix + 1
  /\ opc' = "spec"
  /\ rpc' = "idle"
  /\ UNCHANGED <<check, ctx, cctx, proc, code, killed, out, buf, holder, runErr, verdict>>
  /\ UNCHANGED <<subject, todo, ws, manifest, walkVars, total, cerr, input, meddled, orphans>>

\* The outcome is recorded and the workspace removed.
Collect ==
  /\ opc = "running" /\ rpc = "returned"
  /\ outcomes' = Append(outcomes, verdict)
  /\ RemoveAll
  /\ ix' = ix + 1
  /\ opc' = "spec"
  /\ rpc' = "idle"
  /\ UNCHANGED <<check, ctx, cctx, proc, code, killed, out, buf, holder, runErr, verdict>>
  /\ UNCHANGED <<subject, todo, ws, manifest, walkVars, total, cerr, input, meddled, orphans>>

HasStatus(os, s) == \E i \in DOMAIN os : os[i].status = s

\* Faulty variant: the last outcome wins.
FaultyAggregate(os) == os[Len(os)].status

Aggregate(os) ==
  IF HasStatus(os, "error") THEN "error" ELSE IF HasStatus(os, "fail") THEN "fail" ELSE "pass"

Finish ==
  /\ opc = "spec" /\ ~SpecLeft
  /\ total' = Aggregate(outcomes)
  /\ opc' = "done"
  /\ UNCHANGED <<runnerVars, subject, ix, todo, ws, manifest, walkVars, dirs, outcomes, cerr, stuck,
                 input, meddled, orphans>>

OrchStep ==
  \/ ListTree \/ MaterializeFile \/ BeginWalk \/ ReadBack \/ Compare \/ StartCheck \/ RunCheck
  \/ Collect \/ Finish

-----------------------------------------------------------------------------
\* A change to a file of a workspace: it is gone, rewritten, chmoded or new.
Touch(p) ==
  /\ ws' \in {[ws EXCEPT ![p] = NoFile], [ws EXCEPT ![p] = [body |-> "other", mode |-> "0644"]]}
               \cup (IF ws[p] = NoFile THEN {} ELSE {[ws EXCEPT ![p].mode = "other"]})
  /\ ws' # ws

\* Another program (a cleaner of temporary files, an indexer) touches the
\* workspace before the check is started, be it behind the back of the walk;
\* once is enough.
Meddle ==
  /\ opc \in Meddling /\ ~meddled
  /\ opc = "running" => rpc = "start"
  /\ \E p \in Touched : Touch(p) /\ late' = late \cup ({p} \ unread)
  /\ meddled' = TRUE
  /\ UNCHANGED <<runnerVars, opc, subject, ix, todo, manifest, unread, found, dirs, outcomes,
                 total, cerr, stuck, input, orphans>>

\* The check leaves a descendant behind that holds no pipe: nothing waits for
\* it, and neither the end of the check nor the kill at the deadline reaches it.
Detach ==
  /\ opc = "running" /\ proc = "running" /\ check \in Lingering
  /\ orphans' = orphans \cup {ix}
  /\ UNCHANGED <<runnerVars, opc, subject, ix, todo, ws, manifest, walkVars, dirs, outcomes, total,
                 cerr, stuck, input, meddled>>

\* The check writes in its own workspace, and so does what it left there; the
\* first change is enough.
Scribble ==
  /\ opc \in {"files", "walk", "run", "running"} /\ ws = manifest
  /\ \/ opc = "running" /\ proc = "running"
     \/ \E i \in orphans : DirOf(i) = DirOf(ix)
  /\ \E p \in Touched : Touch(p)
  /\ UNCHANGED <<runnerVars, opc, subject, ix, todo, manifest, walkVars, dirs, outcomes, total,
                 cerr, stuck, input, meddled, orphans>>

\* A go command that was left behind makes its build cache again, which lies
\* in the workspace.
Recreate ==
  /\ \E i \in orphans : dirs' = dirs \cup {DirOf(i)}
  /\ UNCHANGED <<runnerVars, opc, subject, ix, todo, ws, manifest, walkVars, outcomes, total,
                 cerr, stuck, input, meddled, orphans>>

Environment ==
  \/ Others /\ UNCHANGED orchVars
  \/ Meddle
  \/ Detach
  \/ Scribble
  \/ Recreate

-----------------------------------------------------------------------------
(* Orchestrator.Run on its own.                                            *)

allVars == <<runnerVars, orchVars>>

Call ==
  /\ opc = "idle"
  /\ opc' = "spec"
  /\ UNCHANGED <<runnerVars, subject, ix, todo, ws, manifest, walkVars, dirs, outcomes, total,
                 cerr, stuck, input, meddled, orphans>>

OrchInit == RunnerIdle /\ OrchIdle /\ subject \in Candidate

OrchNext == Call \/ OrchStep \/ Environment

OrchSpec == OrchInit /\ [][OrchNext]_allVars

\* The orchestrator runs in one goroutine, os/exec in another, the timer
\* fires, and descendants that hold the pipes end at some time.
FairOrchSpec ==
  /\ OrchSpec
  /\ WF_allVars(Call \/ OrchStep)
  /\ WF_allVars(Expire /\ UNCHANGED orchVars)
  /\ WF_allVars(Kill /\ UNCHANGED orchVars)
  /\ WF_allVars(Release /\ UNCHANGED orchVars)

-----------------------------------------------------------------------------
Returned == opc \in {"done", "failed"}

\* The workspace that holds exactly the tree of the subject.
Exact(c) == [p \in Path |-> IF Tree[c][p] = NoEntry THEN NoFile
                            ELSE [body |-> "exact", mode |-> ModeOf(Tree[c][p])]]

\* What a process was started on is the tree of a commit, but for files that
\* another program touched when the walk of the verifier had read them.
IsTreeOf(g, c) == \A p \in Path \ g.late : g.files[p] = Exact(c)[p]

(* INPUT(check) = NEW @ OP_A for every check (orchestrator.go:232-237):     *)
(* each process is started on the tree of the subject, whatever earlier     *)
(* checks wrote or left running, and whatever touched the workspace while   *)
(* it was made or read back; only a file that was touched after the walk    *)
(* had come by it may differ.                                               *)
InputIsNew == \A i \in DOMAIN input : IsTreeOf(input[i], subject)

(* A pass is a pass of the whole profile on NEW: as many processes ran as   *)
(* the profile has specs, each on the tree of the subject, and no outcome   *)
(* is worse than the aggregate says.                                        *)
GreenMeansNewPasses ==
  opc = "done" =>
    /\ Len(outcomes) = Len(Profile)
    /\ total = "pass" =>
         /\ \A i \in DOMAIN outcomes : outcomes[i].status = "pass"
         /\ Len(input) = Len(Profile)
         /\ \A i \in DOMAIN input : IsTreeOf(input[i], subject)
    /\ total = "fail" => ~HasStatus(outcomes, "error")

(* Run cleans up every workspace before it returns (orchestrator.go:259),   *)
(* on all of its error paths too; only a failed removal leaves one, and only *)
(* what a check left running brings its own back.                           *)
WorkspacesRemoved == Returned => dirs \subseteq stuck \cup {DirOf(i) : i \in orphans}

(* CHECK_WORKSPACE_CHANGED means that the workspace changed: errors.go:39-42 *)
(* says "between materialization and the start of check execution, the      *)
(* workspace contents changed".                                             *)
ChangedMeansChanged == cerr = "CHECK_WORKSPACE_CHANGED" => meddled

\* How far a turn is from its end.
RunnerLeft == [idle |-> 5, start |-> 4, wait |-> 3, drain |-> 2, classify |-> 1, returned |-> 0]

Stage ==
  IF opc = "running" THEN 1 + RunnerLeft[rpc]
  ELSE [idle |-> 11, spec |-> 10, files |-> 9, walk |-> 8, run |-> 7, done |-> 0,
        failed |-> 0][opc]

\* The next turn, a later stage of this one, or a file less to write or to read.
Onward ==
  \/ ix' = ix + 1 /\ ix' <= Len(Profile) + 1
  \/ ix' = ix /\ Stage' < Stage
  \/ /\ ix' = ix /\ Stage' = Stage
     /\ todo' \subseteq todo /\ unread' \subseteq unread
     /\ todo' # todo \/ unread' # unread

(* The turns are taken once each, in the order of the profile, and nobody   *)
(* but the orchestrator moves it on: no check is run again for its outcome, *)
(* no file written or read twice, and nothing else reaches the control of a *)
(* run (orchestrator.go:305-375).                                           *)
NoTurnTwice == [][Onward]_<<opc, rpc, ix, todo, unread>>

(* The orchestrator returns, whatever checks do.                            *)
OrchestratorReturns == <>Returned
=============================================================================
