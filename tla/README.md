# A formal model of bjj

`bjj` is a command-line program that decides whether a Jujutsu bookmark may be
published. It never pushes: `bjj plan` says which commits a publication would
move, `bjj admit` judges that plan against a policy committed in the tree being
published, and `bjj check` runs a fixed profile of checks on exactly that tree.
Everything it knows about the repository comes from `jj` subprocesses, and
between any two of them another program (the user in a second terminal, an
editor, a background fetch) may change the repository. During `bjj check` there
are also the check processes, their descendants, a timeout, and whatever else
touches the temporary directory. Beside the commands there is a laboratory that
finds out, against real `git` and `jj`, whether a publication can be observed at
all. These modules model those programs and their surroundings, TLC checks them
on small instances, and TLAPS proves what matters most for every instance.

Contents: [the system](#1-the-system), [the modules](#2-the-modules-and-the-code),
[the runs](#3-what-the-runs-check), [the proofs](#4-what-is-proved),
[disagreements found](#5-disagreements-between-the-code-and-its-documentation),
[what is left out](#6-what-is-not-modelled), [the plan](#7-plan).


## 1. The system

| Part | Code | State it keeps | Operations | Talks to |
|---|---|---|---|---|
| jj repository (external) | used through `internal/jjadapter` | operation log of views (bookmarks, remote bookmarks), live list of remotes, immutable commits | a command of another program appends an operation, adds or removes a remote | everybody |
| jj adapter | `internal/jjadapter` | none | one method per `jj` query; strict parsers of what it prints | `execx`, jj |
| plan | `internal/plan`, `cmd/bjj/plan.go` | snapshot, bookmark move, effective old, outgoing commits, status, typed error; exit code | `Resolve`: pin, list remotes, list bookmarks, validate, resolve both ends, find the base, list outgoing commits | jj adapter |
| admission | `internal/admission` | frozen policy, facts, result | `LoadPolicyAtWithOpID`, `Gather`, `Evaluate` | plan (through `PlanView`), jj adapter |
| policy parser | `internal/admission/policy.go` | keys seen, policy so far | the loop over the lines | none |
| `bjj admit` | `cmd/bjj/admit.go` | exit code | arguments, resolve, load, gather, evaluate, render | plan, admission |
| execx and check runner | `internal/execx`, `internal/check/runner.go` | process, context, bounded buffers | run a process with a timeout, keep the beginning of its output, classify the outcome | the operating system |
| orchestrator | `internal/check/orchestrator.go`, `materialize.go`, `jjsource.go`, `aggregate.go` | workspaces, manifests, outcomes | per check: list the tree, write it, read it back and compare, run, record, remove | jj adapter, runner, file system |
| `bjj check` | `cmd/bjj/check.go` | exit code | arguments, the pipeline of `bjj admit`, the gate, the orchestrator | all of the above |
| laboratory | `internal/lab` | temporary directories, bare remotes, the evidence | `Run`: probe the tools, `Setup`, two controls in labs of their own, `NegativeTransport`, `Cleanup` | git, jj |
| renderers | `render.go` in three packages | none | text and JSON | none |
| version | `internal/version`, `cmd/bjj/version.go` | none | build metadata | none |

What is hard about them, and what makes each correct:

* **the adapter** asks through `execx`, which keeps the first MiB of an output and
  says so only in a marker at its end. No caller looks for the marker; a cut
  listing or policy must be refused all the same, and never be taken for a short one.
* **plan** reads the repository in five to seven subprocesses. All of them but
  the first carry `--at-op`, so the plan must be that of *one* view, the pinned
  one; the list of remotes is live even so. The set of outgoing commits must
  hold everything the push would newly send, or a commit is published that
  nobody examined.
* **admission** adds four more subprocesses. The policy must be the one in the
  tree being published, a failed query must never count as "no violations", and
  `admit` must imply that every rule holds.
* **the policy parser** must not let a typo, a repeated key or a missing version
  weaken a rule without a word.
* **the runner** blocks in `exec.Cmd.Run` while a second goroutine may kill the
  process, the process may end at the same moment, and descendants may keep its
  pipes. A timeout must be an error and not a verdict on the code; a pass must
  have been earned; output that was cut must be flagged, in whatever chunks it came.
* **the orchestrator** must hand the exact tree to *each* check although an
  earlier check wrote in its own copy or left a process running, must notice a
  workspace that changed, must report the worst outcome, and must remove what it
  made on every path.
* **`bjj check`** must run nothing on a commit that was not admitted, its exit
  code 0 must mean that the commit that was admitted is the commit that was
  checked, although the bookmark may have moved on, and it must end.
* **the laboratory** must claim an observation only when it was made, in the lab
  it is about; must be able to make all of them when the tools work; and must
  remove its labs although any of dozens of commands may fail.


## 2. The modules and the code

```
JJRepo -- Plan -- Admission -+- Admit
                             +- CheckCmd -- Orchestrator -- Runner
JJRepo -- AdmitContract -- CheckContract    (INSTANCEd by Admission and CheckCmd)
PolicyParser -- Adapter
Lab
```

A line means EXTENDS towards the left (for `CheckCmd`, also towards
`Orchestrator`, which extends `Runner`). `MC*` modules give the constants small
values; `X_proofs` holds the theorems about `X` (`Adapter_proofs` those about
`PolicyParser` too), and the proof modules extend one another the way the modules they
are about do.

One convention throughout: **a `jj` subprocess is one action**. The Go code
between two subprocesses touches nothing another program can see, so it belongs
to the action of the subprocess before it. Every action that asks `jj` has a
failing counterpart (`QueryFails`, `AdmQueryFails`, or a disjunct of its own).

**JJRepo** (external). `ops` is the operation log; `ops[n]` is what
`--at-op=<n>` reads. A view has the candidates of the bookmark named on the
command line (`local`), of its remote-tracking bookmarks (`rem[r]`), and the
targets of all other bookmarks of each remote (`other[r]`). `remotes` is the
live configuration, not part of a view, because `jj git remote list` answers
from the configuration whatever `--at-op` says. Commits are numbers in the order
of their hex ids, and `Anc` is the ancestry. The revsets of bjj are operators:
`DagRange` (`old..new`), `RemoteBookmarks` (`remote_bookmarks()`), `Heads`.

**Plan** (`internal/plan/resolve.go`, `source.go`). `pc` names the subprocess
that runs next. `PinOperation`, `ListRemotes`, `ListBookmarks` (with the
validation that follows at once, in the order of the code), `ResolveOldID`,
`ResolveNewID`, `NearestRemoteAncestor`, `OutgoingCommits` are the queries of
`resolveInternal`. `NearestRemoteAncestor` takes `raw[0]` of the heads that jj
prints; jj documents no order the code could rely on, so it is any of them.

**Admission** (`internal/admission`). `LoadPolicy`, `GatherMove`,
`GatherPrivate`, `RefuseBlank`, `GatherObs`, `Evaluate`. `PrivateHits` is what
jj selects for the expression that `Gather` really builds, with jj's precedence
of `&` over `|`. `PolicyFile[c]` is the parsed file in the tree of commit `c`:
commits are immutable, so it is a constant. `FileFound(c)` is what the command
gets to see of it: jj takes the relative path of the file below the working
directory, so it is found when the command runs at the root of the workspace
(`AtRoot`) and reads as absent elsewhere. The predicates of a policy may depend on
the view (`remote_bookmarks()` inside `private_commits`), hence `Match(p, v)`.

**Admit** (`cmd/bjj/admit.go`, `plan.go`). The commands `bjj plan` and `bjj
admit` (`cmd`): the refusal of the arguments (`EndUsage`), the composition, the
exit codes (`EndPlan`, `EndPlanError`, `EndAdmissionError`, `EndDecision`), and the
properties of the commands.

**AdmitContract** is the abstract specification of the admission both commands go
through: *look* once at the newest operation, then *answer* truthfully about that view
or *give up*. The refinement mapping, in `Admission`, is `pinned <- opID`,
`answer <- Said`.

**PolicyParser** (`parsePolicyTOML`). One action per kind of line. A line is
what trimming, the split at `=` and the removal of quotes leave of it. The
reference is `WellFormed`, which speaks of the file as a whole and of no order.

**Adapter** (`internal/jjadapter`). One query: `printed` is what jj prints, line
by line, `Captured(printed)` what execx hands over (the whole, or the beginning,
the remains of the line at the cut, which `Cuts` describes, and the `Marker`), and
the answer is read line by line, by `parsePolicyTOML` (`ReadPolicy`, which is the
`Next` of module PolicyParser) or by one of the four strict parsers of listings
(`SkipRow`, `TakeRow`, `RefuseRow`, `EndOfRows`). The module knows of no question
"was it cut?", because the code asks none. Contents of files that are not parsed
are the subject of `Orchestrator` (`Shown`).

**Runner** (`internal/check/runner.go` over `internal/execx`). `rpc` is where
`ExecRunner.Run` is: `start`, `wait`, `drain` (the process is reaped, the copying
goroutines of os/exec still read the pipes), `classify`. `proc`, `code`, `killed`
belong to the process, `ctx` and `cctx` are the errors of the caller's context
and of the one with the timeout, `holder` is a descendant that inherited the
pipes. `Reap` and `Kill` follow `os/exec`: a kill that arrives between the exit
and the reaping does not change the exit code but makes `Wait` return the error
of the context. `out` counts what was printed and `buf` what `boundedBuffer` kept
of it: `WriteOut` prints a chunk and `Capture` keeps what fits of `Limit` units.
`Flagged` is the truncation flag the runner derives from the length of the capture.

**Orchestrator** (`internal/check/orchestrator.go`, `materialize.go`,
`jjsource.go`, `aggregate.go`). `ListTree`, `MaterializeFile` (a turn of the loop
of `Materialize`), `BeginWalk`, `ReadBack` (`DefaultReVerifier` reads one path),
`Compare` (`manifestEqual`), `StartCheck`, `RunCheck`, `Collect`, `Finish`, with `Abort`
on every error path. `ws` is what is on disk, `manifest` what the materializer
believes, `unread` and `found` what the walk has still to read and what it has read;
`DirOf(i)` is the directory of the i-th spec. `Scribble` is the check writing in its
workspace, `Meddle` another program touching a path of `Touched` at the steps named by
the constant `Meddling`. A path that is touched when the walk has read it goes into
`late`: nothing in the code can notice that. A check may leave a descendant behind that
holds no pipe (`Detach`): nothing waits for it or kills it. It goes on writing in
the workspace of its own check, while that is removed and after (`Recreate`: a `go`
command makes its build cache in the workspace). `stuck`, `late`, `input`, `meddled`
and `orphans` are history variables: no action of the code reads them.

**CheckCmd** (`cmd/bjj/check.go`). Admission and the orchestrator in one
specification with the gate between them (`PassGate`), the refusal of the
arguments, the removal of the parent directory, and the exit codes.

**CheckContract** is the abstract specification of `bjj check`. It extends that of
admission: behind an answer to admit, a process may be started on the tree of the
commit *of that answer*, one per check of the profile (`StartProcess`), and the command
ends once, as passed, failed, refused or without a result (`End`). The refinement
mapping adds `given <- Handed` (the files of `input`) and `end <- Ended`, which reads the exit code.

**Lab** (`internal/lab`). `lpc` is the step of `Run` that is next and `cur` the
lab it works in: the one of `Run` or that of a control. `built` counts the commands
of `Setup` that have run in it, in the order of `SetupSteps`; `remote[l]` is the ref
in the bare remote of lab `l` and `seen` what `rev-parse` said of it before a push.
`ev`, `reason` and `lerr` are what `Run` returns. Any command may fail at any step
(`StepFails`, `PushLost`, a `rev-parse` whose error is dropped); a failure removes the
lab in hand and ends the run. The push that must fail may fail with or without git
having been started (`PushNowhere`), or succeed (`PushArrives`), and the ref read after
it may differ (`ReadAfter`); the last two end the run. `dirs` are the temporary
directories that exist. `stuck`, `started` and `trouble` are history variables.

Definitions called `Faulty...` are variants with a plausible bug (a forgotten
`--at-op`, a dropped guard, a swapped order). No specification uses them. Each
property is known to fail when the definition it is about is replaced by one of
them, so that "no error" means something.


## 3. What the runs check

| Run | Property | What it shows |
|---|---|---|
| `admit` | `PlanOfOneView` | ends, status and outgoing set of a finished plan are those of the pinned view, however others moved bookmarks in between |
| | `PlanCoversPublication` | with one remote, whatever the push would newly send is in the plan |
| | `AdmitSound` | exit 0 only if the policy committed in NEW allows the move at the pinned view |
| | `NothingPrivateIsLicensed` | exit 0 only if nothing the push would newly send is private |
| | `ContractSpec` | the command implements `AdmitContract` |
| | `NothingTwice` | no step is taken twice: each uses up one that was left, or gives the exit code, last and once |
| | `Terminates` | every `bjj plan` and every `bjj admit` ends with an exit code |
| `orchestrator` | `VerdictEarned` | a pass needs a process that ended well by itself (and, for gofmt, silence); a run killed at the deadline is `CHECK_TIMEOUT` |
| | `CutIsFlagged` | an outcome without the truncation flag holds everything that was printed, and the flag is set exactly when the bound was reached |
| | `InputIsNew` | each process starts on exactly the tree of NEW, whatever an earlier check wrote or left running and whatever touched the workspace before its walk read it; only a file touched behind the walk may differ |
| | `GreenMeansNewPasses` | the aggregate is the worst outcome and a pass covers the whole profile |
| | `WorkspacesRemoved` | no workspace is left but by a failed removal or by a descendant that brings its own back |
| | `ChangedMeansChanged` | `CHECK_WORKSPACE_CHANGED` is never a false alarm |
| | `NoTurnTwice` | the turns are taken once each, in order; each step is the next turn, a later stage of this one or a file less to write or to read |
| | `OrchestratorReturns` | it returns |
| `check_command` | `GreenIsAdmittedAndChecked` | exit 0 means admitted at the pinned view *and* passed on the tree of the admitted commit |
| | `NothingRunsUnadmitted` | no process and no workspace for a commit that is not allowed |
| | `PromiseSpec` | the command implements `CheckContract` |
| | `NothingAgain` | admission is gone through once, then the turns, then the exit code; neither checks nor other programs move any of it |
| | `CheckEnds` | every `bjj check` ends with an exit code |
| `adapter` | `NothingIsLost` | an answer that is used is all that jj printed: a cut output is refused by every parser |
| | `PolicyIsWhatIsWritten` | a file is loaded exactly when it follows the schema, and nothing in it is lost |
| `lab` | `EvidenceEarned` | a control is claimed only when its commit is in the remote of its own lab, the failed push only when git ran it or something went wrong, and a run short of a claim returns an error with its reason |
| | `EveryObservation` | when every command works, every observation is made: the order of `Setup` and the isolation of the controls make it possible |
| | `LabsRemoved` | no lab outlives `Run` but by a failed removal |

The runs of `admit`, `orchestrator`, `check_command` and `lab` also check the type
invariants of their modules; the types of `adapter` are part of its proof. Seven
more runs show the disagreements of section 5.

### Bounds, and why they are enough

* *Repository* (`MCAdmit`, `MCPlan`, `MCCheckCmd`): five to seven commits with a
  root, a published commit, two branches and their merge (a chain with a side
  branch in `MCCheckCmd`). That is the smallest graph on which fast-forward,
  non-fast-forward, creation, no-op, several heads and a base that is not an
  ancestor of some outgoing commit all occur. `MCViews` is every combination of the
  listed local and remote targets, absent and conflicted bookmarks included, so the
  pinned view and the newest one can differ in any way.
* *`MaxOps = 2`*: the log starts with one operation and another program may
  append one, before or after the pin. A query that used another view than the
  pinned one would be caught with a single later view; more of them add nothing,
  since no query can see two. The proofs of section 4 have no such bound.
* *Policies* (`MCAdmit`): no file, a strict one, a permissive one, one whose
  private set depends on the view, a malformed one and one with a blank private
  set, each in the tree of another commit; the malformed one also where that commit is
  published already, so that it meets a no-op, and the blank one must allow nothing.
* *Checks*: two stand for the four of profile v1, one of them under the rule of
  gofmt, which is the only rule that differs between checks. Two are enough for an
  earlier check to disturb a later one and for every order of two outcomes.
* *`Limit`*: a captured stream holds two units (one in `check_command`), and a chunk
  has one to `Limit + 1`: output below the bound, at it, over it in one chunk and
  over it in several.
* *`Lingering = {"go_test"}`*: the first check of the profile may leave a descendant
  behind, so that it lives through the whole turn of the second. `check_command` has
  none, since nothing of the command depends on it.
* *Trees* (`MCOrchestrator`): a plain and an executable file; a plain file alone; a
  file and a symlink; nothing at all; and, in a run of its own, a file beyond the
  capture bound. `MCCheckCmd` has a tree of one path, a symlink in one of its commits.
* *`Touched`*: the paths that checks and other programs touch. In `MCOrchestrator` it
  is one of the two, which is an executable file of one tree and a stray one in
  another; the other path is there to be read by the walk before it or after it.
* *Once-only meddling*: `Meddle` acts once, in `MCOrchestrator` at any time until the
  process starts, in `MCCheckCmd` while the workspace is written; `Scribble` stops when
  the workspace differs from the manifest. Detection compares two whole workspaces, so
  a first difference is all that matters. The proofs let `Meddle` act once too, at any
  step, on any path.
* *Outputs* (`MCAdapter`): all policy files of up to `MaxLines = 4` lines out of
  thirteen and all listings of up to four lines out of five, of which execx keeps
  `MaxKept = 3`. Four lines hold a version, a rule, its repetition and one more, and
  they are one too many. The proofs have no bound.
* *Lab*: it has no constants. `Run` makes three labs, and the model has all of it.

`admit` visits 1.3 million states, `orchestrator` 1.4 million, `check_command` 2.1
million, `adapter` 0.6 million.

Deadlock is not checked in the runs of `Adapter`, `Runner`, `Orchestrator`,
`CheckCmd` and `Lab`: a command that has ended takes no step.

### Fairness

* `FairAdmitSpec`: weak fairness of `Run`. The command is one goroutine and
  every `jj` subprocess is taken to return (with an answer or an error). Nothing is
  assumed of other programs.
* `TimedRunnerSpec` (run `runner_pipes`): weak fairness of the runner, of the
  goroutine of os/exec that kills, and of the timer. Nothing is assumed of the check
  process, which may run for ever.
* `FairOrchSpec` and `FairCheckSpec` add that descendants that hold the pipes end at
  some time (`Release`). The code does not enforce this; run `runner_pipes` shows
  what happens without it. Other descendants (`orphans`) may live for ever, nothing
  waits for them.


## 4. What is proved

All proofs are checked by TLAPS, for every value of the constants that satisfies
the named assumptions (`CommitAssumption`: ancestry is reflexive, transitive and
contains the root; `ViewsAssumption`, `RemoteAssumption`, `AdmissionAssumption`,
`OrchestratorAssumption`, `RunnerAssumption`, `LineAssumption`,
`AdapterAssumption`: types of the constants; `CandidateAssumption`: any commit may be
handed to the orchestrator). A theorem that needs more says so in its statement;
each of these hypotheses is one without which section 5 has a counterexample, or,
for `Quiet`, one that the comment on TOCTOU at the end of section 5 is about.

Where a property is false in general, there are two theorems about it: one that says
under which hypotheses it holds, and one that says what is left of it without them.

* **Plan_proofs**: `TypeCorrect`, `OneView` (`PlanOfOneView`) and
  `CoversPublication` (`PlanCoversPublication`). `PlanOfOneView` speaks only of a
  finished plan and is not inductive; `PlanInv` adds what the resolver holds
  after each subprocess: a pin that lies in the log (`Pinned`), a snapshot that
  is that of the pinned view (`SnapshotOfView`), ends that are the targets of the
  snapshot (`EndsOfSnapshot`), a base that is one the view permits, and an
  outgoing set computed from it. Another program's operation preserves it because
  the log only grows at its end. `CoversPublication` then follows from a fact
  about graphs: a base is a published commit, so what it reaches is published.
  It assumes `Remote = {R}`; with two remotes it is false (section 5).
  `CoversWhatIsNowhere` is what holds for any number of them: a plan never leaves out
  a commit that no remote is known to have.
* **Admission_proofs** (lemmas only): `AdmInv`, which both commands keep. It extends
  `PlanInv`: at each step the policy is the one found for NEW, the relation and the
  subject are those of the plan, the private hits are those of the pinned view, the
  result is the evaluator's. The key lemma is that the private query, for all its
  precedence, cannot *miss* a private commit of the subject (`HitsCover`): it errs
  on the side of denial. `AdmittedByFound` draws the conclusion: a decision to admit
  is licensed by the policy that was found; `AdmittedIsAllowed` adds that at the root
  of the workspace (`AtRoot`) this is the policy of NEW. `PlanStepMaps` and
  `AdmStepMaps` are the refinement of `AdmitContract`, step by step: `PinOperation` is
  the contract's `Look`, `Evaluate` its `Answer`, failures its `GiveUp`; all other
  steps leave `Said` and `opID` alone. `StepCounts` is about the number of steps left.
* **Admit_proofs**: `AdmitTypeCorrect`, `PlanOfTheCommand` (`PlanOfOneView`, and
  `PlanCoversPublication` with one remote, inside the commands), `AdmitIsSound`
  (`AdmitSound`, assuming `AtRoot`), `NoPrivateLicence` (`NothingPrivateIsLicensed`,
  assuming `AtRoot` and one remote), from `AdmInv` and what the exit code says of the
  decision (`ExitOfDecision`). From any directory there is `AdmitFollowsWhatItFinds`,
  and for any number of remotes `NoSecretLicence`: no private commit is licensed that
  no remote has. `AdmitImplementsContract` (`ContractSpec`, assuming `AtRoot`) is put
  together from the two lemmas above; operations of other programs are the contract's
  own. `NothingIsAskedTwice` (`NothingTwice`) adds `EndsAtRest` to the invariant: a
  command that has ended has nothing left to ask.
* **Adapter_proofs**: for the parser alone `ParserInvariant`, `ParsesTheSchema`
  (`PolicyIsWhatIsWritten`), for files of any length; the invariant says of the lines before `pos` what the property says of the
  whole file. Behind the capture `AdapterInvariant`, `AnswersAreWhole` (`NothingIsLost`)
  and `PolicyOfTheQuery` (`PolicyIsWhatIsWritten`), for outputs of any length and any
  bound. `AdapterInv` puts the parser's invariant inside the query and adds the fact
  the others turn on: an output is whole or its last line is the marker
  (`WholeOrMarked`), which every parser refuses, so that a loop that reached the end
  without a refusal has read a whole output.
* **Runner_proofs**: `RunnerTypeCorrect`, `VerdictIsEarned` (`VerdictEarned`) and
  `CutsAreFlagged` (`CutIsFlagged`), for every `Limit`. `VerdictEarned` speaks of a
  returned run; `RunnerInv` says for each `rpc` where the process can be
  (`ProcessOfWait`), that nobody can write once the pipes are drained
  (`PipesOfWait`), that only a context that is done kills, and that a killed process
  leaves an error behind (`KillOfContext`), that a run without an error is one that
  was reaped with code 0 (`ErrorOfRun`), and how the buffer relates to what was
  written.
* **Orchestrator_proofs**: for profiles of any length, any trees and any checks that
  leave descendants behind. `OrchInv` adds to `RunnerInv`: one outcome per finished
  turn (`TurnOfProfile`), the workspaces that exist are that of the turn, those that
  resisted removal and those of descendants (`DirsOfTurn`), the manifest is the part of
  the tree written so far (`ManifestOfTree`), what the walk has read is what is still
  there but for the paths in `late`, and so what was verified is what the process starts
  on (`WalkOfVerifier`), every process got it (`NewInput`), every pass has its input
  (`InputsCounted`), and only another program sets workspace and manifest apart
  (`UntouchedIsExact`).
  Without hypotheses: `OrchTypeCorrect`; `VerdictsOfTheRun` (the runner's properties,
  although its state is used again for every check); `WorkspacesGo`
  (`WorkspacesRemoved`); `TurnsAreTakenOnce` (`NoTurnTwice`); and `InputsAreShown`: every
  check is started on the same files, those of NEW as far as execx captured each, but
  for a file that another program touched behind the walk. With `AllFit` (no file
  exceeds the capture bound) these files are exactly the tree of NEW: `InputsAreNew`
  (`InputIsNew`) and `GreenIsEarned` (`GreenMeansNewPasses`). With `~Masked` (the umask withholds nothing) `NoFalseAlarm` (`ChangedMeansChanged`).
* **CheckCmd_proofs**: `CheckInv` joins `AdmInv` and `OrchInv` at the gate: before it
  the orchestrator is at rest (`RestBeforeGate`), behind it is the commit that was
  admitted (`AdmittedBehindGate`), exit code 0 belongs to a passing aggregate
  (`ExitOfTotal`), and a command that has ended asks and runs nothing more
  (`EndsAtRest`).
  Without hypotheses: `CheckTypeCorrect`; `PartsInTheWhole` (the properties of the parts
  hold of the command); `NothingIsDoneAgain` (`NothingAgain`); and `GreenRanTheProfile`:
  exit code 0 means that the policy that was found allows the publication, that the
  commit admitted is the commit that was checked, and that every check of the profile
  had a process and passed. At the root of the workspace: `NothingRunsBeforeAdmission`
  (`NothingRunsUnadmitted`), `CheckAnswersAsAdmit` (the command implements
  `AdmitContract`, whatever is in the workspaces) and, with `AllFit`,
  `GreenMeansAdmittedAndChecked` (`GreenIsAdmittedAndChecked`).
  `CheckKeepsItsPromise` (`PromiseSpec`, under `AtRoot`, `AllFit` and `Quiet`: other
  programs touch a workspace only while it is written, so that `late` stays empty,
  which is what `NothingLate` says) is the refinement of `CheckContract`: the steps of admission map as above, `RunCheck` is a
  `StartProcess` when it starts a process (`OrchStepMaps`, where `NewInput` says that
  the process got the tree and `InputsCounted` that there was one left to start), each
  exit code is an `End` (`EndMaps`), and all else stutters.
* **Lab_proofs**: `LabTypeCorrect`, `ClaimsAreEarned` (`EvidenceEarned`),
  `NothingStopsARun` (`EveryObservation`) and `LabsGo` (`LabsRemoved`), none with a
  hypothesis. `LabInv` says, for each step of `Run`, which lab is in hand and how far it
  is built, what has been claimed by then (`ClaimsOfStep`), which remotes hold whose
  commit (`RemotesOfStep`) and which labs exist. It follows that the ref read after the
  failed push never differs: the error return for it (`transport.go:74-76`) is there, but
  out of reach.

### What stays model-checked

`Terminates`, `OrchestratorReturns` and `CheckEnds` are liveness properties, and fairness
and ENABLED are out of the prover's reach. Their safety half is proved: `NothingTwice`,
`NoTurnTwice` and `NothingAgain` say that every step that reaches the control of a program
brings it nearer to its end, by a measure that is a natural number (`StepsLeft`), or
lexicographic over the turns that are left, the stage of the turn and the files that are
left to write or to read, of which a finite tree has finitely many. What TLC adds is that until the
end some such step can be taken and that fairness takes it.

Every other property of the passing runs is proved.


## 5. Disagreements between the code and its documentation

Each of these has a run that ends in a counterexample.

| Run | Code | What happens |
|---|---|---|
| `admit_private` | `admission/facts.go:176` | the subject is spliced into `(c1 \| c2 & (private))` without parentheses of its own; every outgoing commit but the last counts as private, so publications of two or more commits are denied |
| `admit_subdir` | `cmd/bjj/admit.go:104` | run from a subdirectory of the workspace, the command looks for the policy below that directory, finds none, and applies the default policy to a commit that has a policy of its own |
| `plan_two_remotes` | `plan/resolve.go:98` | the base of a new bookmark is looked for among the bookmarks of *all* remotes; commits another remote has are left out of the plan although this push sends them |
| `runner_exit` | `check/runner.go:195` | a process ended by a signal, or not started, is a FAIL with exit code -1, where `types.go` promises ERROR |
| `runner_pipes` | `execx/execx.go:176` | no `WaitDelay`: a descendant that keeps stdout open holds the command past its timeout (`RunnerReturns`) |
| `orchestrator_large` | `jjadapter/jjadapter.go:744` | file bodies are read under the default output bound of 1 MiB; a larger file is checked cut short |
| `orchestrator_umask` | `check/materialize.go:310` | the manifest holds 0644 or 0755, the umask withholds permissions, and an untouched workspace is reported as changed |

More behaviours to know of. The models hold the first group, and no run singles it
out:

* `plan/resolve.go:111` takes the first of possibly several heads. For a new
  bookmark on a merge of two published branches the plan then lists published
  commits too. It errs towards examining too much, and `PlanCoversPublication`
  holds.
* `check/orchestrator.go:320-322` says there is "no TOCTOU window", but a file that
  another program touches when the walk has read it, up to the start of the process, is
  handed to the check as it is. The run `orchestrator` has these behaviours, and
  `InputIsNew` says that nothing else can differ (`late`). With `"walk"` or `"run"` in
  its `Meddling` the command would not implement `CheckContract`, which knows no such
  files.
* `docs/architecture.md:788-795` gives `bjj check` exit code 1 for a failed check and
  4 for wrong usage. The code has it the other way round (`check/types.go:383-394`),
  and so has `CheckCmd`.
* `lab/evidence.go:19` says that a failure "leaves the lab intact"; line 47 defers
  its `Cleanup`, and `LabsRemoved` holds. What the version probes make as a home
  (`lab/exec.go:225-258`) is never removed (`VersionHomes`).
* `NegativeTransport` claims the failed push as attempted even when git could not be
  started (`started`), where the comment on `Attempted` (`lab/transport.go:15`) says
  "true when the subprocess was actually invoked", and an unchanged ref when neither
  `rev-parse` could read it. `EvidenceEarned` allows both only where something went
  wrong (`trouble`).

The second group lies outside of the models:

* A file that the listing of the tree names is read back by a path that jj takes for
  a file-set expression (`jjadapter.go:495`), and relative to the working directory:
  from a subdirectory `bjj check` fails at the first file, which is fail closed.
* A bookmark anywhere in the repository with a `|` in its name makes every plan fail
  closed, because the listing is split at `|`.
* The listing of remotes is parsed leniently; a list of remotes beyond the capture
  bound would be cut in silence, and a remote that is missing makes the plan fail
  closed.
* In JSON mode a failed write to stdout is ignored.
* A `go` check makes `.bjj-go-cache` in its workspace (`runner.go:146-147`), which the
  verifier never sees because it has run before.


## 6. What is not modelled

* The version command and all rendering, which keep no state. A failing write of a
  text renderer *is* modelled where it changes the exit code.
* Of the adapter: the characters of a line. A line is skipped, malformed or a row.
  `ListRemotes`, whose parser is lenient, is an answer or an error in `Plan` and not a
  query of `Adapter`.
* Of the orchestrator: path sanitising, the manifest's hash, the base environment;
  reading one path in the walk of the verifier (its `lstat` and its `read`) is one step,
  and `.bjj-go-cache` is not a file of the workspace.
* `LoadPolicyFromRepo`, which no command calls.
* Where a file is found by jj beyond `AtRoot`, and jj's language of file sets: every
  listed path is taken to select its own file.
* Crashes of bjj. It persists nothing it reads again; an interrupt leaves
  temporary directories behind and that is all.
* Of the laboratory: the `Seed...` helpers and check fixtures, which only its tests
  use, the contents of the repositories, and the local preconditions (URL,
  environment) that hold by the way `Setup` builds a lab.


## 7. Plan

Done, in this order: `JJRepo`, `Plan`, `Admission` and `Admit` with their contract;
`Runner`; `Orchestrator`; `CheckCmd`; `PolicyParser`; the proofs of all of them; the
bounded capture and the descendants that outlive a check; `bjj plan`, the arguments and
the working directory; `Adapter` with its proofs; `Lab`; the liveness of `bjj check`,
its contract and the proof that it is kept; the proofs about `Lab`, what holds without
the hypotheses of the earlier theorems, and the measures behind termination; the walk
of the verifier as a loop, with another program between its steps.

To come, most important first:

1. Determinism: two resolves pinned to the same operation give the same plan,
   unless the base is one of several heads.
2. The lenient parser of remotes as one more query of `Adapter`.
3. The measure of `Lab` and of the loops of `Adapter`.
