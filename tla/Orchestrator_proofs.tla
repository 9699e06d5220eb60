------------------------- MODULE Orchestrator_proofs -------------------------
(***************************************************************************)
(* Proofs about module Orchestrator, for every profile, every tree and     *)
(* every interleaving with the checks and with other programs: the input   *)
(* of each check, what a pass means, and that workspaces go away.          *)
(***************************************************************************)
EXTENDS Orchestrator, Runner_proofs, SequenceTheorems

\* Other programs leave a workspace alone once it has been written.
Quiet == Meddling \subseteq {"files"}

\* Nothing was touched behind the walk: they stay away from a written workspace,
\* or have not come near one.
Undisturbed == Quiet \/ ~meddled

\* No file of a candidate is beyond the capture bound of execx.
AllFit == \A c \in Candidate, p \in Path : Tree[c][p].fits

Workspace == [Path -> File \cup {NoFile}]

OutcomeType == [status : {"pass", "fail", "error"},
                error : {"none", "CHECK_TIMEOUT", "CHECK_EXEC_FAILED"}, exit : {-1, 0, 1},
                flag : BOOLEAN]

\* What a process is started on.
Given == [files : Workspace, late : SUBSET Path]

OrchTyped ==
  /\ opc \in {"idle", "spec", "files", "walk", "run", "running", "done", "failed"}
  /\ subject \in Candidate
  /\ ix \in 1..Len(Profile) + 1
  /\ todo \subseteq Path
  /\ ws \in Workspace /\ manifest \in Workspace /\ found \in Workspace
  /\ unread \in SUBSET Path /\ late \in SUBSET Path
  /\ dirs \subseteq 1..Len(Profile) /\ stuck \subseteq 1..Len(Profile)
  /\ outcomes \in Seq(OutcomeType) /\ input \in Seq(Given)
  /\ total \in {"none", "pass", "fail", "error"}
  /\ cerr \in {"none", "CHECK_MATERIALIZATION_FAILED", "CHECK_UNSUPPORTED_TREE_ENTRY",
               "CHECK_MATERIALIZATION_MISMATCH", "CHECK_WORKSPACE_CHANGED"}
  /\ meddled \in BOOLEAN
  /\ orphans \subseteq 1..Len(Profile)

Working == opc \in {"files", "walk", "run", "running"}

\* One outcome per finished turn, and the runner is called inside a turn only.
TurnOfProfile ==
  /\ Len(outcomes) = ix - 1
  /\ Working => ix <= Len(Profile)
  /\ opc = "done" => ix = Len(Profile) + 1 /\ total = Aggregate(outcomes)
  /\ opc = "running" <=> rpc # "idle"

Started == opc = "running" /\ proc # "none"

\* The workspaces that exist are that of the turn, those that resisted and
\* those that were made again.  What was left behind is of an earlier check, or
\* of the present one if that was started.
DirsOfTurn ==
  /\ dirs \subseteq stuck \cup orphans \cup (IF Working THEN {ix} ELSE {})
  /\ \A i \in orphans : i < ix \/ (i = ix /\ Started)

\* The manifest is the part of the tree that has been written.
ManifestOfTree ==
  Working =>
    /\ todo \subseteq Tracked(subject)
    /\ manifest = [p \in Path |-> IF p \in Tracked(subject) \ todo
                                  THEN Record(Tree[subject][p]) ELSE NoFile]
    /\ opc # "files" => todo = {}

AtStart == opc = "run" \/ (opc = "running" /\ rpc = "start")

\* What the walk has read is what is there, but for files that were touched
\* behind it; and what was verified is there when the process starts.
WalkOfVerifier ==
  /\ opc = "files" => unread = Path /\ late = {}
  /\ opc = "walk" => \A p \in Path \ (unread \cup late) : found[p] = ws[p]
  /\ AtStart => unread = {} /\ \A p \in Path \ late : ws[p] = manifest[p]

\* What is written of a tree: each file as far as the capture goes.
AsShown(c) == [p \in Path |-> IF p \in Tracked(c) THEN Record(Tree[c][p]) ELSE NoFile]

InputIsShown ==
  \A i \in DOMAIN input : \A p \in Path \ input[i].late : input[i].files[p] = AsShown(subject)[p]

NothingLate == Undisturbed => late = {} /\ \A i \in DOMAIN input : input[i].late = {}

NewInput == InputIsShown /\ NothingLate

\* A check that passed had a process, and each process has its input.
InputsCounted ==
  /\ Len(input) <= Len(outcomes) + (IF Started THEN 1 ELSE 0)
  /\ (\A i \in DOMAIN outcomes : outcomes[i].status = "pass") =>
       Len(input) = Len(outcomes) + (IF Started THEN 1 ELSE 0)

\* Nothing but another program sets the workspace apart from the manifest.
UntouchedIsExact ==
  ~Masked =>
    /\ opc \in {"files", "walk"} /\ ~meddled => ws = manifest
    /\ opc = "walk" /\ ~meddled => \A p \in Path \ unread : found[p] = manifest[p]
    /\ cerr = "CHECK_WORKSPACE_CHANGED" => meddled

OrchInv ==
  /\ RunnerInv /\ OrchTyped /\ TurnOfProfile /\ DirsOfTurn /\ ManifestOfTree
  /\ WalkOfVerifier /\ NewInput /\ InputsCounted /\ UntouchedIsExact

-----------------------------------------------------------------------------
(* Lemmas about files, workspaces and sequences.                           *)

LEMMA EmptyType == Empty \in Workspace
BY DEF Empty, Workspace

LEMMA FileTypes ==
  ASSUME NEW e \in Entry \cup {NoEntry}, NEW old \in File \cup {NoFile}
  PROVE  /\ Record(e) \in File /\ Written(e, old) \in File
         /\ ~Masked => Written(e, NoFile) = Record(e)
         /\ e.fits => Record(e) = [body |-> "exact", mode |-> ModeOf(e)]
BY DEF Record, Written, Shown, ModeOf, File

LEMMA TreeEntry ==
  ASSUME NEW c \in Candidate, NEW p \in Path
  PROVE  Tree[c][p] \in Entry \cup {NoEntry}
BY OrchestratorAssumption

LEMMA TouchType ==
  ASSUME ws \in Workspace, NEW p \in Path, Touch(p)
  PROVE  /\ ws' \in Workspace
         /\ \A q \in Path \ {p} : ws'[q] = ws[q]
<1>1. ws' \in {[ws EXCEPT ![p] = NoFile], [ws EXCEPT ![p] = [body |-> "other", mode |-> "0644"]]}
                  \cup (IF ws[p] = NoFile THEN {} ELSE {[ws EXCEPT ![p].mode = "other"]})
  BY DEF Touch
<1>2. NoFile \in File \cup {NoFile} /\ [body |-> "other", mode |-> "0644"] \in File
  BY DEF File
<1>3. ASSUME ws[p] # NoFile PROVE [ws[p] EXCEPT !.mode = "other"] \in File
  BY <1>3 DEF Workspace, File
<1>4. CASE ws' = [ws EXCEPT ![p] = NoFile]
  BY <1>2, <1>4 DEF Workspace
<1>5. CASE ws' = [ws EXCEPT ![p] = [body |-> "other", mode |-> "0644"]]
  BY <1>2, <1>5 DEF Workspace
<1>6. CASE ws[p] # NoFile /\ ws' = [ws EXCEPT ![p].mode = "other"]
  BY <1>3, <1>6 DEF Workspace
<1> QED BY <1>1, <1>4, <1>5, <1>6

\* The complete manifest of a tree without oversized files is that tree.
LEMMA CompleteIsExact ==
  ASSUME NEW c \in Candidate, AllFit
  PROVE  AsShown(c) = Exact(c)
<1>1. ASSUME NEW p \in Path
      PROVE  (IF p \in Tracked(c) THEN Record(Tree[c][p]) ELSE NoFile)
               = (IF Tree[c][p] = NoEntry THEN NoFile
                  ELSE [body |-> "exact", mode |-> ModeOf(Tree[c][p])])
  <2>1. Tree[c][p].fits
    BY DEF AllFit
  <2>2. Record(Tree[c][p]) = [body |-> "exact", mode |-> ModeOf(Tree[c][p])]
    BY <2>1, TreeEntry, FileTypes
  <2> QED BY <2>2 DEF Tracked
<1> QED BY <1>1 DEF Exact, AsShown

\* What may be left between two turns.
Leftovers ==
  /\ dirs \subseteq stuck \cup orphans
  /\ dirs \subseteq 1..Len(Profile) /\ stuck \subseteq 1..Len(Profile)

LEMMA RemoveAllLeaves ==
  ASSUME OrchTyped, TurnOfProfile, DirsOfTurn, Working, RemoveAll, orphans' = orphans
  PROVE  Leftovers'
<1>1. ix \in 1..Len(Profile) /\ dirs \subseteq stuck \cup orphans \cup {ix}
  BY OrchestratorAssumption DEF OrchTyped, TurnOfProfile, DirsOfTurn
<1> QED BY <1>1 DEF RemoveAll, DirOf, OrchTyped, Leftovers

\* A step that leaves the inputs and the outcomes alone.
LEMMA InputsStay ==
  ASSUME NewInput, InputsCounted, UNCHANGED <<subject, input, outcomes, meddled>>,
         late' \in {late, {}}, Started' <=> Started
  PROVE  NewInput' /\ InputsCounted'
<1>1. AsShown(subject)' = AsShown(subject)
  BY DEF AsShown, Tracked
<1>2. InputIsShown'
  BY <1>1 DEF NewInput, InputIsShown
<1>3. NothingLate'
  BY DEF NewInput, NothingLate, Undisturbed
<1>4. InputsCounted'
  BY DEF InputsCounted
<1> QED BY <1>2, <1>3, <1>4 DEF NewInput

LEMMA LenProfile == Len(Profile) \in Nat
BY OrchestratorAssumption, LenProperties

-----------------------------------------------------------------------------
(* The steps.                                                              *)

LEMMA OrchInit_Inv == OrchInit => OrchInv
<1> SUFFICES ASSUME OrchInit PROVE OrchInv
  OBVIOUS
<1>1. RunnerInv /\ rpc = "idle"
  BY RunnerIdle_Inv DEF OrchInit, RunnerIdle
<1>2. OrchTyped
  <2>1. meddled \in BOOLEAN
    BY Zenon DEF OrchInit, OrchIdle
  <2> QED BY <2>1, EmptyType, EmptySeq, LenProfile DEF OrchInit, OrchIdle, OrchTyped
<1>3. TurnOfProfile /\ DirsOfTurn /\ ManifestOfTree /\ WalkOfVerifier /\ UntouchedIsExact
  BY <1>1, EmptySeq
  DEF OrchInit, OrchIdle, TurnOfProfile, DirsOfTurn, Working, Started, ManifestOfTree,
      WalkOfVerifier, AtStart, UntouchedIsExact
<1>4. NewInput /\ InputsCounted
  BY EmptySeq
  DEF OrchInit, OrchIdle, NewInput, InputIsShown, NothingLate, InputsCounted, Started
<1> QED BY <1>1, <1>2, <1>3, <1>4 DEF OrchInv

\* A run ends for an error in a turn, before the check is started.
LEMMA Abort_Inv ==
  ASSUME OrchInv, opc \in {"files", "walk"}, NEW e, Abort(e),
         e \in {"CHECK_MATERIALIZATION_FAILED", "CHECK_UNSUPPORTED_TREE_ENTRY",
                "CHECK_MATERIALIZATION_MISMATCH", "CHECK_WORKSPACE_CHANGED"},
         e = "CHECK_WORKSPACE_CHANGED" /\ ~Masked => meddled,
         UNCHANGED <<runnerVars, subject, ix, todo, ws, manifest, walkVars, outcomes, total,
         input,
                     meddled, orphans>>
  PROVE  OrchInv'
<1> USE DEF OrchInv, walkVars
<1>1. RunnerInv'
  BY RunnerStutter_Inv
<1>2. Working /\ opc' = "failed" /\ cerr' = e /\ RemoveAll
  BY DEF Working, Abort
<1>3. Leftovers'
  BY <1>2, RemoveAllLeaves
<1>4. OrchTyped'
  BY <1>2, <1>3 DEF OrchTyped, Leftovers
<1>5. TurnOfProfile' /\ DirsOfTurn' /\ ManifestOfTree' /\ WalkOfVerifier'
  BY <1>2, <1>3 DEF TurnOfProfile, DirsOfTurn, Working, Started, ManifestOfTree, WalkOfVerifier,
                    AtStart, runnerVars, Leftovers
<1>6. NewInput' /\ InputsCounted'
  BY <1>2, InputsStay DEF Started, runnerVars
<1>7. UntouchedIsExact'
  BY <1>2 DEF UntouchedIsExact
<1> QED BY <1>1, <1>4, <1>5, <1>6, <1>7

LEMMA Call_Inv == ASSUME OrchInv, Call PROVE OrchInv'
<1> USE DEF OrchInv, Call, walkVars
<1>1. RunnerInv'
  BY RunnerStutter_Inv
<1>2. OrchTyped'
  BY DEF OrchTyped
<1>3. TurnOfProfile' /\ DirsOfTurn' /\ ManifestOfTree' /\ WalkOfVerifier'
  BY DEF TurnOfProfile, DirsOfTurn, Working, Started, ManifestOfTree, WalkOfVerifier, AtStart,
      runnerVars
<1>4. NewInput' /\ InputsCounted'
  BY InputsStay DEF Started, runnerVars
<1>5. UntouchedIsExact'
  BY DEF UntouchedIsExact
<1> QED BY <1>1, <1>2, <1>3, <1>4, <1>5

LEMMA ListTree_Inv == ASSUME OrchInv, ListTree PROVE OrchInv'
<1> USE DEF OrchInv, walkVars
<1>1. RunnerInv' /\ UNCHANGED <<runnerVars, subject, ix, outcomes, total, stuck, input, meddled,
                                orphans>>
  BY RunnerStutter_Inv DEF ListTree
<1>2. rpc = "idle" /\ rpc' = "idle" /\ ix \in 1..Len(Profile) /\ opc = "spec"
      /\ dirs \subseteq stuck \cup orphans
  BY <1>1, LenProfile
  DEF ListTree, TurnOfProfile, OrchTyped, SpecLeft, runnerVars, DirsOfTurn, Working
<1>3. NewInput' /\ InputsCounted'
  BY <1>1, <1>2, InputsStay DEF ListTree, Started, runnerVars
<1>4. CASE opc' = "failed" /\ cerr' = "CHECK_MATERIALIZATION_FAILED"
           /\ UNCHANGED <<todo, ws, manifest, walkVars, dirs>>
  <2>1. OrchTyped'
    BY <1>1, <1>4 DEF OrchTyped
  <2>2. TurnOfProfile' /\ DirsOfTurn' /\ ManifestOfTree' /\ WalkOfVerifier' /\ UntouchedIsExact'
    BY <1>1, <1>2, <1>4 DEF TurnOfProfile, DirsOfTurn, Working, Started, ManifestOfTree,
        WalkOfVerifier, AtStart, UntouchedIsExact
  <2> QED BY <1>1, <1>3, <2>1, <2>2
<1>5. CASE /\ opc' = "files" /\ dirs' = dirs \cup {ix}
           /\ ws' = Empty /\ manifest' = Empty /\ found' = Empty
           /\ unread' = Path /\ late' = {}
           /\ todo' = Tracked(subject) /\ UNCHANGED cerr
  <2>1. OrchTyped'
    BY <1>1, <1>2, <1>5, EmptyType DEF OrchTyped, Tracked
  <2>2. TurnOfProfile' /\ DirsOfTurn' /\ WalkOfVerifier' /\ UntouchedIsExact'
    BY <1>1, <1>2, <1>5
    DEF TurnOfProfile, DirsOfTurn, Working, Started, WalkOfVerifier, AtStart,
        UntouchedIsExact
  <2>3. ManifestOfTree'
    BY <1>1, <1>5 DEF ManifestOfTree, Empty, Tracked
  <2> QED BY <1>1, <1>3, <2>1, <2>2, <2>3
<1> QED BY <1>4, <1>5 DEF ListTree, DirOf

LEMMA MaterializeFile_Inv == ASSUME OrchInv, MaterializeFile PROVE OrchInv'
<1> USE DEF OrchInv, walkVars
<1>1. opc = "files"
      /\ UNCHANGED <<runnerVars, subject, ix, walkVars, outcomes, total, input, meddled, orphans>>
  BY DEF MaterializeFile
<1>2. CASE \E e \in {"CHECK_UNSUPPORTED_TREE_ENTRY", "CHECK_MATERIALIZATION_FAILED"} :
             Abort(e) /\ UNCHANGED <<todo, ws, manifest>>
  BY <1>1, <1>2, Abort_Inv
<1>3. CASE \E p \in todo :
             /\ todo' = todo \ {p}
             /\ ws' = [ws EXCEPT ![p] = Written(Tree[subject][p], @)]
             /\ manifest' = [manifest EXCEPT ![p] = Record(Tree[subject][p])]
             /\ UNCHANGED <<opc, cerr, dirs, stuck>>
  <2>1. PICK p \in todo :
             /\ todo' = todo \ {p}
             /\ ws' = [ws EXCEPT ![p] = Written(Tree[subject][p], @)]
             /\ manifest' = [manifest EXCEPT ![p] = Record(Tree[subject][p])]
             /\ UNCHANGED <<opc, cerr, dirs, stuck>>
    BY <1>3
  <2> DEFINE e == Tree[subject][p]
  <2>2. /\ p \in Path /\ subject \in Candidate /\ e \in Entry \cup {NoEntry}
        /\ ws[p] \in File \cup {NoFile}
    BY TreeEntry DEF OrchTyped, Workspace
  <2>3. /\ Record(e) \in File /\ Written(e, ws[p]) \in File
        /\ ~Masked => Written(e, NoFile) = Record(e)
    BY <2>2, FileTypes
  <2>4. OrchTyped'
    <3>1. ws' \in Workspace /\ manifest' \in Workspace
      BY <2>1, <2>2, <2>3 DEF OrchTyped, Workspace
    <3> QED BY <1>1, <2>1, <3>1 DEF OrchTyped
  <2>5. RunnerInv'
    BY <1>1, RunnerStutter_Inv
  <2>6. TurnOfProfile' /\ DirsOfTurn' /\ WalkOfVerifier'
    BY <1>1, <2>1 DEF TurnOfProfile, DirsOfTurn, Working, Started, WalkOfVerifier, AtStart,
        runnerVars
  <2>7. NewInput' /\ InputsCounted'
    BY <1>1, <2>1, InputsStay DEF Started, runnerVars
  <2>8. ManifestOfTree'
    <3> DEFINE m(t) == [q \in Path |-> IF q \in Tracked(subject) \ t
                                      THEN Record(Tree[subject][q]) ELSE NoFile]
    <3>1. todo \subseteq Tracked(subject) /\ manifest = m(todo)
      BY <1>1 DEF ManifestOfTree, Working
    <3>2. [m(todo) EXCEPT ![p] = Record(e)] = m(todo \ {p})
      BY <2>2, <3>1
    <3>3. subject' = subject /\ manifest' = m(todo') /\ todo' \subseteq Tracked(subject)
      BY <1>1, <2>1, <3>1, <3>2
    <3> QED BY <1>1, <2>1, <3>3 DEF ManifestOfTree, Tracked
  <2>9. UntouchedIsExact'
    <3>1. manifest[p] = NoFile
      BY <1>1, <2>1, <2>2 DEF ManifestOfTree, Working
    <3>2. ASSUME ~Masked, ~meddled PROVE ws' = manifest'
      <4>1. ws = manifest
        BY <1>1, <3>2 DEF UntouchedIsExact
      <4> QED BY <2>1, <2>3, <3>1, <3>2, <4>1
    <3> QED BY <1>1, <2>1, <3>2 DEF UntouchedIsExact
  <2> QED BY <2>4, <2>5, <2>6, <2>7, <2>8, <2>9
<1> QED BY <1>2, <1>3 DEF MaterializeFile

LEMMA BeginWalk_Inv == ASSUME OrchInv, BeginWalk PROVE OrchInv'
<1> USE DEF OrchInv, walkVars
<1>1. opc = "files" /\ opc' = "walk" /\ todo = {}
      /\ UNCHANGED <<runnerVars, subject, ix, todo, ws, manifest, walkVars, dirs, outcomes, total,
                     cerr, stuck, input, meddled, orphans>>
  BY DEF BeginWalk
<1>2. RunnerInv' /\ OrchTyped'
  BY <1>1, RunnerStutter_Inv DEF OrchTyped
<1>3. TurnOfProfile' /\ DirsOfTurn' /\ ManifestOfTree' /\ WalkOfVerifier' /\ UntouchedIsExact'
  BY <1>1 DEF TurnOfProfile, DirsOfTurn, Working, Started, ManifestOfTree, WalkOfVerifier,
      AtStart, UntouchedIsExact, Tracked, runnerVars
<1>4. NewInput' /\ InputsCounted'
  BY <1>1, InputsStay DEF Started
<1> QED BY <1>2, <1>3, <1>4

LEMMA ReadBack_Inv == ASSUME OrchInv, ReadBack PROVE OrchInv'
<1> USE DEF OrchInv, walkVars
<1>1. opc = "walk"
      /\ UNCHANGED <<runnerVars, subject, ix, todo, ws, manifest, late, outcomes, total, input,
                     meddled, orphans>>
  BY DEF ReadBack
<1>2. CASE Abort("CHECK_MATERIALIZATION_MISMATCH") /\ UNCHANGED <<unread, found>>
  BY <1>1, <1>2, Abort_Inv
<1>3. ASSUME NEW p \in unread, unread' = unread \ {p}, found' = [found EXCEPT ![p] = ws[p]],
             UNCHANGED <<opc, cerr, dirs, stuck>>
      PROVE  OrchInv'
  <2>1. p \in Path /\ ws[p] \in File \cup {NoFile}
    BY <1>3 DEF OrchTyped, Workspace
  <2>2. found' \in Workspace /\ unread' \in SUBSET Path
    BY <1>3, <2>1 DEF OrchTyped, Workspace
  <2>3. RunnerInv' /\ OrchTyped'
    BY <1>1, <1>3, <2>2, RunnerStutter_Inv DEF OrchTyped
  <2>4. found'[p] = ws[p] /\ \A q \in Path \ {p} : found'[q] = found[q]
    BY <1>3, <2>1 DEF OrchTyped, Workspace
  <2>5. WalkOfVerifier' /\ UntouchedIsExact'
    BY <1>1, <1>3, <2>4 DEF WalkOfVerifier, UntouchedIsExact, AtStart
  <2>6. TurnOfProfile' /\ DirsOfTurn' /\ ManifestOfTree'
    BY <1>1, <1>3 DEF TurnOfProfile, DirsOfTurn, Working, Started, ManifestOfTree, Tracked,
        runnerVars
  <2>7. NewInput' /\ InputsCounted'
    BY <1>1, <1>3, InputsStay DEF Started
  <2> QED BY <2>3, <2>5, <2>6, <2>7
<1> QED BY <1>2, <1>3 DEF ReadBack

LEMMA Compare_Inv == ASSUME OrchInv, Compare PROVE OrchInv'
<1> USE DEF OrchInv, walkVars
<1>1. opc = "walk" /\ unread = {}
      /\ UNCHANGED <<runnerVars, subject, ix, todo, ws, manifest, walkVars, outcomes, total,
      input,
                     meddled, orphans>>
  BY DEF Compare
<1>2. CASE found # manifest /\ Abort("CHECK_WORKSPACE_CHANGED")
  <2>1. PICK p \in Path : found[p] # manifest[p]
    BY <1>2 DEF OrchTyped, Workspace
  <2>2. ~Masked => meddled
    BY <1>1, <2>1 DEF UntouchedIsExact
  <2> QED BY <1>1, <1>2, <2>2, Abort_Inv
<1>3. CASE found = manifest /\ opc' = "run" /\ UNCHANGED <<cerr, dirs, stuck>>
  <2>1. RunnerInv' /\ OrchTyped'
    BY <1>1, <1>3, RunnerStutter_Inv DEF OrchTyped
  <2>2. WalkOfVerifier' /\ UntouchedIsExact'
    BY <1>1, <1>3 DEF WalkOfVerifier, UntouchedIsExact, AtStart
  <2>3. TurnOfProfile' /\ DirsOfTurn' /\ ManifestOfTree'
    BY <1>1, <1>3 DEF TurnOfProfile, DirsOfTurn, Working, Started, ManifestOfTree, Tracked,
        runnerVars
  <2>4. NewInput' /\ InputsCounted'
    BY <1>1, <1>3, InputsStay DEF Started
  <2> QED BY <2>1, <2>2, <2>3, <2>4
<1> QED BY <1>2, <1>3 DEF Compare

LEMMA StartCheck_Inv == ASSUME OrchInv, StartCheck PROVE OrchInv'
<1> USE DEF OrchInv, walkVars
<1>1. opc = "run" /\ opc' = "running" /\ rpc' = "start" /\ proc' = "none" /\ Begin(Profile[ix])
      /\ UNCHANGED <<subject, ix, todo, ws, manifest, walkVars, dirs, outcomes, total, cerr,
      stuck,
                     input, meddled, orphans>>
  BY DEF StartCheck, Begin
<1>2. RunnerInv'
  <2>1. Profile[ix] \in CheckID
    BY <1>1, OrchestratorAssumption, ElementOfSeq, LenProfile
    DEF TurnOfProfile, Working, OrchTyped
  <2> QED BY <1>1, <2>1, Begin_Inv
<1>3. OrchTyped'
  BY <1>1 DEF OrchTyped
<1>4. TurnOfProfile' /\ DirsOfTurn' /\ ManifestOfTree' /\ WalkOfVerifier' /\ UntouchedIsExact'
  BY <1>1 DEF TurnOfProfile, DirsOfTurn, Working, Started, ManifestOfTree, WalkOfVerifier,
              AtStart, UntouchedIsExact, Tracked
<1>5. NewInput' /\ InputsCounted'
  BY <1>1, InputsStay DEF Started, runnerVars
<1> QED BY <1>2, <1>3, <1>4, <1>5

\* No step of the runner but Start makes a process.
LEMMA RunnerKeeps ==
  ASSUME RunnerInv, RunnerStep, RunnerInv'
  PROVE  /\ rpc # "idle" /\ rpc' \notin {"idle", "start"}
         /\ proc' = "running" /\ proc # "running" => rpc = "start" /\ proc = "none"
         /\ ~(proc' = "running" /\ proc # "running") => (proc' = "none" <=> proc = "none")
BY DEF RunnerStep, Start, Reap, Drain, Classify, RunnerInv, ProcessOfWait

LEMMA RunCheck_Inv == ASSUME OrchInv, RunCheck PROVE OrchInv'
<1> USE DEF OrchInv, walkVars
<1>1. RunnerInv'
  BY RunnerStep_Inv DEF RunCheck
<1>2. opc = "running" /\ RunnerStep
      /\ UNCHANGED <<opc, subject, ix, todo, ws, manifest, walkVars, dirs, outcomes, total, cerr,
                     stuck, meddled, orphans>>
  BY DEF RunCheck
<1>3. rpc' \notin {"idle", "start"} /\ rpc # "idle" /\ (proc # "none" => proc' # "none")
  BY <1>1, <1>2, RunnerKeeps
<1>4. TurnOfProfile' /\ DirsOfTurn' /\ ManifestOfTree' /\ WalkOfVerifier' /\ UntouchedIsExact'
  BY <1>2, <1>3 DEF TurnOfProfile, DirsOfTurn, Working, Started, ManifestOfTree, WalkOfVerifier,
                    AtStart, UntouchedIsExact, Tracked
<1>5. CASE proc # "running" /\ proc' = "running"
  <2> DEFINE g == [files |-> ws, late |-> late]
  <2>1. input' = Append(input, g) /\ rpc = "start" /\ proc = "none"
    BY <1>1, <1>2, <1>5, RunnerKeeps DEF RunCheck
  <2>2. g \in Given /\ g.files = ws /\ g.late = late
    BY DEF OrchTyped, Given
  <2> HIDE DEF g
  <2>3. /\ input' \in Seq(Given) /\ Len(input') = Len(input) + 1
        /\ \A i \in DOMAIN input' : (i \in DOMAIN input /\ input'[i] = input[i]) \/ input'[i] = g
    BY <2>1, <2>2, AppendProperties, LenProperties DEF OrchTyped
  <2>4. OrchTyped'
    BY <1>2, <2>3 DEF OrchTyped
  <2>5. InputsCounted'
    BY <1>2, <1>5, <2>1, <2>3, LenProperties DEF InputsCounted, Started, OrchTyped
  <2>6. ASSUME NEW p \in Path \ late PROVE ws[p] = AsShown(subject)[p]
    <3>1. ws[p] = manifest[p]
      BY <1>2, <2>1, <2>6 DEF WalkOfVerifier, AtStart
    <3>2. manifest = AsShown(subject)
      BY <1>2 DEF ManifestOfTree, Working, AsShown
    <3> QED BY <3>1, <3>2
  <2>7. InputIsShown'
    <3>1. AsShown(subject)' = AsShown(subject)
      BY <1>2 DEF AsShown, Tracked
    <3> QED BY <2>2, <2>3, <2>6, <3>1 DEF NewInput, InputIsShown
  <2>8. NothingLate'
    <3>1. Undisturbed' => Undisturbed
      BY <1>2 DEF Undisturbed
    <3> QED BY <1>2, <2>2, <2>3, <3>1 DEF NewInput, NothingLate
  <2> QED BY <1>1, <1>4, <2>4, <2>5, <2>7, <2>8 DEF NewInput
<1>6. CASE ~(proc # "running" /\ proc' = "running")
  <2>1. input' = input /\ (proc' = "none" <=> proc = "none")
    BY <1>1, <1>2, <1>6, RunnerKeeps DEF RunCheck
  <2>2. OrchTyped' /\ NewInput' /\ InputsCounted'
    BY <1>2, <2>1, InputsStay DEF OrchTyped, Started
  <2> QED BY <1>1, <1>4, <2>2
<1> QED BY <1>5, <1>6

LEMMA Collect_Inv == ASSUME OrchInv, Collect PROVE OrchInv'
<1> USE DEF OrchInv, walkVars
<1>1. opc = "running" /\ rpc = "returned" /\ opc' = "spec" /\ rpc' = "idle" /\ ix' = ix + 1
      /\ outcomes' = Append(outcomes, verdict) /\ RemoveAll
      /\ UNCHANGED <<check, ctx, cctx, proc, code, killed, out, buf, holder, runErr, verdict>>
      /\ UNCHANGED <<subject, todo, ws, manifest, walkVars, total, cerr, input, meddled, orphans>>
  BY DEF Collect
<1>2. RunnerInv'
  BY <1>1 DEF RunnerInv, RunnerTypeOK, Active, ProcessOfWait, PipesOfWait, KillOfContext,
              ErrorOfRun, VerdictOfRun, CaptureOfOutput
<1>3. verdict \in OutcomeType
  <2>1. verdict = Verdict
    BY <1>1 DEF RunnerInv, VerdictOfRun
  <2>2. ExitCode \in {-1, 0, 1}
    BY DEF RunnerInv, RunnerTypeOK, ExitCode
  <2> QED BY <2>1, <2>2 DEF Verdict, Outcome, OutcomeType, Flagged
<1>4. /\ outcomes' \in Seq(OutcomeType) /\ Len(outcomes') = Len(outcomes) + 1
      /\ \A i \in DOMAIN outcomes : i \in DOMAIN outcomes' /\ outcomes'[i] = outcomes[i]
      /\ Len(outcomes') \in DOMAIN outcomes' /\ outcomes'[Len(outcomes')] = verdict
  BY <1>1, <1>3, AppendProperties, LenProperties DEF OrchTyped
<1>5. Leftovers'
  BY <1>1, RemoveAllLeaves DEF Working
<1>6. ix \in 1..Len(Profile) /\ ix = Len(outcomes) + 1
  BY <1>1, LenProfile, LenProperties DEF OrchTyped, TurnOfProfile, Working
<1>7. OrchTyped'
  BY <1>1, <1>4, <1>5, <1>6, LenProfile DEF OrchTyped, Leftovers
<1>8. TurnOfProfile' /\ ManifestOfTree' /\ WalkOfVerifier' /\ UntouchedIsExact'
  BY <1>1, <1>4, <1>6 DEF TurnOfProfile, Working, ManifestOfTree, WalkOfVerifier, AtStart,
                          UntouchedIsExact, Tracked
<1>11. DirsOfTurn'
  BY <1>1, <1>5, <1>6 DEF DirsOfTurn, Working, Started, Leftovers, OrchTyped
<1>9. NewInput'
  BY <1>1 DEF NewInput, InputIsShown, NothingLate, AsShown, Tracked, Undisturbed
<1>10. InputsCounted'
  <2>1. Len(input) \in Nat /\ Len(outcomes) \in Nat
    BY LenProperties DEF OrchTyped
  <2>2. Len(input') <= Len(outcomes')
    BY <1>1, <1>4, <2>1 DEF InputsCounted
  <2>3. ASSUME \A i \in DOMAIN outcomes' : outcomes'[i].status = "pass"
        PROVE  Len(input') = Len(outcomes')
    <3>1. \A i \in DOMAIN outcomes : outcomes[i].status = "pass"
      BY <1>4, <2>3
    <3>2. verdict.status = "pass"
      BY <1>4, <2>3
    <3>3. proc = "reaped"
      BY <1>1, <3>2, InvVerdict DEF VerdictEarned
    <3> QED BY <1>1, <1>4, <2>1, <3>1, <3>3 DEF InputsCounted, Started
  <2> QED BY <1>1, <1>4, <2>1, <2>2, <2>3 DEF InputsCounted, Started
<1> QED BY <1>2, <1>7, <1>8, <1>9, <1>10, <1>11

LEMMA Finish_Inv == ASSUME OrchInv, Finish PROVE OrchInv'
<1> USE DEF OrchInv, walkVars
<1>1. opc = "spec" /\ opc' = "done" /\ ~SpecLeft /\ total' = Aggregate(outcomes)
      /\ UNCHANGED <<runnerVars, subject, ix, todo, ws, manifest, walkVars, dirs, outcomes, cerr,
                     stuck, input, meddled, orphans>>
  BY DEF Finish
<1>2. RunnerInv'
  BY <1>1, RunnerStutter_Inv
<1>3. OrchTyped'
  BY <1>1 DEF OrchTyped, Aggregate
<1>4. ix = Len(Profile) + 1
  BY <1>1, LenProfile DEF OrchTyped, SpecLeft
<1>5. TurnOfProfile' /\ DirsOfTurn' /\ ManifestOfTree' /\ WalkOfVerifier' /\ UntouchedIsExact'
  BY <1>1, <1>4 DEF TurnOfProfile, DirsOfTurn, Working, Started, ManifestOfTree, WalkOfVerifier,
                    AtStart, UntouchedIsExact, Aggregate, HasStatus, runnerVars
<1>6. NewInput' /\ InputsCounted'
  BY <1>1, InputsStay DEF Started, runnerVars
<1> QED BY <1>2, <1>3, <1>5, <1>6

LEMMA OrchStep_Inv == OrchInv /\ OrchStep => OrchInv'
BY ListTree_Inv, MaterializeFile_Inv, BeginWalk_Inv, ReadBack_Inv, Compare_Inv, StartCheck_Inv,
   RunCheck_Inv, Collect_Inv, Finish_Inv DEF OrchStep

\* A workspace that somebody touches, and the walk has yet to see it, or had
\* been there before, or the check is running.
LEMMA Touch_Inv ==
  ASSUME OrchInv, NEW p \in Path, Touch(p),
         UNCHANGED <<runnerVars, opc, subject, ix, todo, manifest, unread, found, dirs, outcomes,
                     total, cerr, stuck, input, orphans>>,
         late' \in SUBSET Path, late \subseteq late', NothingLate',
         opc = "files" => late' = {}, opc = "walk" => p \in unread \cup late',
         AtStart => p \in late',
         meddled' \in BOOLEAN, meddled => meddled', opc \in {"files", "walk"} => meddled'
  PROVE  OrchInv'
<1> USE DEF OrchInv
<1>1. RunnerInv' /\ rpc' = rpc /\ proc' = proc
  BY RunnerStutter_Inv DEF runnerVars
<1>2. ws' \in Workspace /\ \A q \in Path \ {p} : ws'[q] = ws[q]
  BY TouchType DEF OrchTyped
<1>3. OrchTyped'
  BY <1>2 DEF OrchTyped
<1>4. TurnOfProfile' /\ DirsOfTurn' /\ ManifestOfTree'
  BY <1>1 DEF TurnOfProfile, DirsOfTurn, Working, Started, ManifestOfTree, Tracked, Aggregate,
      HasStatus
<1>5. WalkOfVerifier'
  <2>1. opc = "files" => unread' = Path /\ late' = {}
    BY DEF WalkOfVerifier
  <2>2. opc = "walk" => \A q \in Path \ (unread \cup late') : found[q] = ws'[q]
    BY <1>2 DEF WalkOfVerifier
  <2>3. AtStart => \A q \in Path \ late' : ws'[q] = manifest[q]
    BY <1>2 DEF WalkOfVerifier
  <2> QED BY <1>1, <2>1, <2>2, <2>3 DEF WalkOfVerifier, AtStart
<1>6. AsShown(subject)' = AsShown(subject)
  BY DEF AsShown, Tracked
<1>7. NewInput' /\ InputsCounted'
  BY <1>1, <1>6 DEF NewInput, InputIsShown, InputsCounted, Started
<1>8. UntouchedIsExact'
  BY DEF UntouchedIsExact
<1> QED BY <1>1, <1>3, <1>4, <1>5, <1>7, <1>8

\* A step that changes nothing but workspaces of earlier turns.
LEMMA Aside_Inv ==
  ASSUME OrchInv, OrchTyped', DirsOfTurn',
         UNCHANGED <<runnerVars, opc, subject, ix, todo, ws, manifest, walkVars, outcomes, total,
                     cerr, input, meddled>>
  PROVE  OrchInv'
<1> USE DEF OrchInv, walkVars
<1>1. RunnerInv' /\ rpc' = rpc /\ proc' = proc
  BY RunnerStutter_Inv DEF runnerVars
<1>2. TurnOfProfile' /\ ManifestOfTree' /\ WalkOfVerifier' /\ UntouchedIsExact'
  BY <1>1 DEF TurnOfProfile, Working, ManifestOfTree, WalkOfVerifier, AtStart,
      UntouchedIsExact,
              Tracked, Aggregate, HasStatus
<1>3. NewInput' /\ InputsCounted'
  BY <1>1, InputsStay DEF Started, runnerVars
<1> QED BY <1>1, <1>2, <1>3

\* Nobody else moves the runner, makes its process or unmakes it.
LEMMA OthersKeep ==
  ASSUME Others
  PROVE  rpc' = rpc /\ (proc' = "none" <=> proc = "none")
BY DEF Others, Expire, Cancel, Kill, Exit, WriteOut, Fork, Release

LEMMA Environment_Inv == OrchInv /\ Environment => OrchInv'
<1> SUFFICES ASSUME OrchInv, Environment PROVE OrchInv'
  OBVIOUS
<1>1. CASE Others /\ UNCHANGED orchVars
  <2> USE DEF OrchInv, orchVars, walkVars
  <2>1. RunnerInv' /\ rpc' = rpc /\ (proc' = "none" <=> proc = "none")
    BY <1>1, Others_Inv, OthersKeep
  <2>2. OrchTyped'
    BY <1>1 DEF OrchTyped
  <2>3. TurnOfProfile' /\ DirsOfTurn' /\ ManifestOfTree' /\ WalkOfVerifier' /\ UntouchedIsExact'
    BY <1>1, <2>1 DEF TurnOfProfile, DirsOfTurn, Working, Started, ManifestOfTree,
        WalkOfVerifier, AtStart,
                      UntouchedIsExact, Tracked, Aggregate, HasStatus
  <2>4. NewInput' /\ InputsCounted'
    BY <1>1, <2>1, InputsStay DEF Started, runnerVars
  <2> QED BY <2>1, <2>2, <2>3, <2>4
<1>2. CASE Meddle
  <2>1. PICK p \in Touched : Touch(p) /\ late' = late \cup ({p} \ unread)
    BY <1>2 DEF Meddle
  <2>2. /\ opc \in Meddling /\ meddled' = TRUE
        /\ UNCHANGED <<runnerVars, opc, subject, ix, todo, manifest, unread, found, dirs, outcomes,
                       total, cerr, stuck, input, orphans>>
    BY <1>2 DEF Meddle
  <2>3. p \in Path /\ late \in SUBSET Path /\ unread \in SUBSET Path
    BY OrchestratorAssumption DEF OrchInv, OrchTyped
  <2>4. opc = "files" => unread = Path /\ late = {}
    BY DEF OrchInv, WalkOfVerifier
  <2>5. AtStart => unread = {}
    BY DEF OrchInv, WalkOfVerifier, AtStart
  <2>6. NothingLate'
    <3>1. Undisturbed' => opc = "files" /\ Undisturbed
      BY <2>2 DEF Undisturbed, Quiet
    <3> QED BY <2>1, <2>2, <2>3, <2>4, <3>1 DEF OrchInv, NewInput, NothingLate
  <2>7. meddled' \in BOOLEAN /\ meddled'
    BY <2>2, Zenon
  <2>8. /\ late' \in SUBSET Path /\ late \subseteq late'
        /\ opc = "files" => late' = {}
        /\ p \in unread \cup late'
        /\ AtStart => p \in late'
    BY <2>1, <2>3, <2>4, <2>5
  <2> QED BY <2>1, <2>2, <2>3, <2>6, <2>7, <2>8, Touch_Inv
<1>3. CASE Scribble
  <2>1. PICK p \in Touched : Touch(p)
    BY <1>3 DEF Scribble
  <2>2. UNCHANGED <<runnerVars, opc, subject, ix, todo, manifest, walkVars, dirs, outcomes, total,
                    cerr, stuck, input, meddled, orphans>>
    BY <1>3 DEF Scribble
  <2>3. opc = "running" /\ proc # "none"
    <3>1. CASE opc = "running" /\ proc = "running"
      BY <3>1
    <3>2. CASE ix \in orphans
      BY <3>2 DEF OrchInv, OrchTyped, DirsOfTurn, Started
    <3> QED BY <1>3, <3>1, <3>2 DEF Scribble, DirOf
  <2>4. ~AtStart
    BY <2>3 DEF AtStart, OrchInv, RunnerInv, ProcessOfWait
  <2>5. /\ p \in Path /\ late' \in SUBSET Path /\ late' = late
        /\ UNCHANGED <<unread, found>>
    BY <2>2, OrchestratorAssumption DEF OrchInv, OrchTyped, walkVars
  <2>6. meddled' \in BOOLEAN
    BY <2>2 DEF OrchInv, OrchTyped
  <2>7. NothingLate'
    BY <2>2, <2>5 DEF OrchInv, NewInput, NothingLate, Undisturbed
  <2> QED BY <2>1, <2>2, <2>3, <2>4, <2>5, <2>6, <2>7, Touch_Inv
<1>4. CASE Detach
  <2>1. opc = "running" /\ proc = "running" /\ orphans' = orphans \cup {ix}
        /\ UNCHANGED <<runnerVars, opc, subject, ix, todo, ws, manifest, walkVars, dirs, outcomes,
                       total, cerr, stuck, input, meddled>>
    BY <1>4 DEF Detach
  <2>2. ix \in 1..Len(Profile)
    BY <2>1, LenProfile DEF OrchInv, OrchTyped, TurnOfProfile, Working
  <2>3. proc' = proc /\ OrchTyped'
    BY <2>1, <2>2 DEF OrchInv, OrchTyped, runnerVars, walkVars
  <2>4. DirsOfTurn'
    BY <2>1, <2>3 DEF OrchInv, DirsOfTurn, Started, Working
  <2> QED BY <2>1, <2>3, <2>4, Aside_Inv
<1>5. CASE Recreate
  <2>1. dirs' \subseteq dirs \cup orphans
        /\ UNCHANGED <<runnerVars, opc, subject, ix, todo, ws, manifest, walkVars, outcomes,
        total,
                       cerr, stuck, input, meddled, orphans>>
    BY <1>5 DEF Recreate, DirOf
  <2>2. proc' = proc /\ OrchTyped'
    BY <2>1 DEF OrchInv, OrchTyped, runnerVars, walkVars
  <2>3. DirsOfTurn'
    BY <2>1, <2>2 DEF OrchInv, DirsOfTurn, Started, Working
  <2> QED BY <2>1, <2>2, <2>3, Aside_Inv
<1> QED BY <1>1, <1>2, <1>3, <1>4, <1>5 DEF Environment

LEMMA OrchStutter_Inv == OrchInv /\ UNCHANGED allVars => OrchInv'
<1> SUFFICES ASSUME OrchInv, UNCHANGED allVars PROVE OrchInv'
  OBVIOUS
<1> USE DEF OrchInv, allVars, orchVars, walkVars
<1>1. RunnerInv' /\ rpc' = rpc /\ proc' = proc
  BY RunnerStutter_Inv DEF runnerVars
<1>2. OrchTyped'
  BY DEF OrchTyped
<1>3. TurnOfProfile' /\ DirsOfTurn' /\ ManifestOfTree' /\ WalkOfVerifier' /\ UntouchedIsExact'
  BY <1>1 DEF TurnOfProfile, DirsOfTurn, Working, Started, ManifestOfTree, WalkOfVerifier,
              AtStart, UntouchedIsExact, Tracked, Aggregate, HasStatus
<1>4. NewInput' /\ InputsCounted'
  BY <1>1, InputsStay DEF Started, runnerVars
<1> QED BY <1>1, <1>2, <1>3, <1>4

(* OrchInv is an invariant of the orchestrator beside its checks and other  *)
(* programs.                                                                *)
THEOREM OrchInvariant == OrchSpec => []OrchInv
<1>1. OrchInv /\ [OrchNext]_allVars => OrchInv'
  BY Call_Inv, OrchStep_Inv, Environment_Inv, OrchStutter_Inv DEF OrchNext
<1> QED BY <1>1, OrchInit_Inv, PTL DEF OrchSpec

-----------------------------------------------------------------------------
LEMMA InvOrchType == OrchInv => OrchTypeOK
<1> SUFFICES ASSUME OrchInv PROVE OrchTypeOK
  OBVIOUS
<1>1. Len(outcomes) \in Nat /\ Len(input) \in Nat /\ Len(Profile) \in Nat
  BY LenProfile, LenProperties DEF OrchInv, OrchTyped
<1>2. Len(outcomes) <= Len(Profile) /\ (Started => Len(outcomes) < Len(Profile))
  BY <1>1 DEF OrchInv, OrchTyped, TurnOfProfile, Started, Working
<1>3. Len(input) <= Len(Profile)
  BY <1>1, <1>2 DEF OrchInv, InputsCounted
<1> QED BY <1>2, <1>3 DEF OrchInv, OrchTyped, OrchTypeOK, Workspace

(* The variables of the orchestrator keep their types.                      *)
THEOREM OrchTypeCorrect == OrchSpec => []OrchTypeOK
BY InvOrchType, OrchInvariant, PTL

(* Every check of a run is started on the same files, whatever the sizes of *)
(* the files, whatever earlier checks wrote or left running and whatever    *)
(* other programs do: the tree of the admitted commit, each file as far as  *)
(* execx captured it (jjsource.go), but for a file that was touched when    *)
(* the walk of the verifier had read it.                                    *)
THEOREM InputsAreShown == OrchSpec => []InputIsShown
<1>1. OrchInv => InputIsShown
  BY DEF OrchInv, NewInput
<1> QED BY <1>1, OrchInvariant, PTL

LEMMA InvInput == AllFit /\ OrchInv => InputIsNew
<1> SUFFICES ASSUME AllFit, OrchInv PROVE InputIsNew
  OBVIOUS
<1>1. subject \in Candidate /\ InputIsShown
  BY DEF OrchInv, OrchTyped, NewInput
<1> QED BY <1>1, CompleteIsExact DEF InputIsShown, InputIsNew, IsTreeOf

(* If no file is beyond the capture bound, that is exactly the tree of the  *)
(* admitted commit (orchestrator.go:232-237).                               *)
THEOREM InputsAreNew ==
  ASSUME AllFit
  PROVE  OrchSpec => []InputIsNew
BY InvInput, OrchInvariant, PTL

\* What the aggregate says of the outcomes, and the inputs behind a pass,
\* whatever was in them.
LEMMA InvTotal ==
  ASSUME OrchInv, opc = "done"
  PROVE  /\ Len(outcomes) = Len(Profile)
         /\ total = "pass" => /\ \A i \in DOMAIN outcomes : outcomes[i].status = "pass"
                              /\ Len(input) = Len(Profile)
         /\ total = "fail" => ~HasStatus(outcomes, "error")
<1>1. Len(outcomes) = Len(Profile) /\ total = Aggregate(outcomes)
  BY LenProfile DEF OrchInv, TurnOfProfile
<1>2. outcomes \in Seq(OutcomeType) /\ Len(outcomes) \in Nat /\ Len(input) \in Nat
  BY LenProperties DEF OrchInv, OrchTyped
<1>3. total = "fail" => ~HasStatus(outcomes, "error")
  BY <1>1 DEF Aggregate
<1>4. ASSUME total = "pass"
      PROVE  (\A i \in DOMAIN outcomes : outcomes[i].status = "pass") /\ Len(input) = Len(Profile)
  <2>1. ASSUME NEW i \in DOMAIN outcomes PROVE outcomes[i].status = "pass"
    <3>1. outcomes[i] \in OutcomeType
      BY <1>2, ElementOfSeq, LenProperties
    <3>2. outcomes[i].status # "error" /\ outcomes[i].status # "fail"
      BY <1>1, <1>4, <2>1 DEF Aggregate, HasStatus
    <3> QED BY <3>1, <3>2 DEF OutcomeType
  <2>2. Len(input) = Len(outcomes)
    BY <1>2, <2>1 DEF OrchInv, InputsCounted, Started
  <2> QED BY <1>1, <2>1, <2>2
<1> QED BY <1>1, <1>3, <1>4

LEMMA InvGreen == AllFit /\ OrchInv => GreenMeansNewPasses
BY InvTotal, InvInput DEF GreenMeansNewPasses, InputIsNew

(* A pass is a pass of the whole profile on the tree of the admitted        *)
(* commit, and no outcome is worse than the aggregate says, under the       *)
(* assumptions of InputsAreNew (aggregate.go:33-60).                        *)
THEOREM GreenIsEarned ==
  ASSUME AllFit
  PROVE  OrchSpec => []GreenMeansNewPasses
BY InvGreen, OrchInvariant, PTL

LEMMA InvWorkspaces == OrchInv => WorkspacesRemoved
BY DEF OrchInv, DirsOfTurn, Working, WorkspacesRemoved, Returned, DirOf

(* When Run returns, on whatever path, no workspace is left but those whose *)
(* removal failed or that a descendant of a check made again                *)
(* (orchestrator.go:259).                                                   *)
THEOREM WorkspacesGo == OrchSpec => []WorkspacesRemoved
BY InvWorkspaces, OrchInvariant, PTL

(* Where the umask withholds nothing, CHECK_WORKSPACE_CHANGED is never a    *)
(* false alarm (errors.go:39-42).                                           *)
THEOREM NoFalseAlarm ==
  ASSUME ~Masked
  PROVE  OrchSpec => []ChangedMeansChanged
<1>1. OrchInv => ChangedMeansChanged
  BY DEF OrchInv, UntouchedIsExact, ChangedMeansChanged
<1> QED BY <1>1, OrchInvariant, PTL

(* Inside the orchestrator a verdict is as well earned as on its own, and   *)
(* no output is cut in silence: the orchestrator starts a runner only when  *)
(* the one before it has returned, and touches none of its state.           *)
THEOREM VerdictsOfTheRun == OrchSpec => [](RunnerTypeOK /\ VerdictEarned /\ CutIsFlagged)
<1>1. OrchInv => RunnerTypeOK /\ VerdictEarned /\ CutIsFlagged
  BY InvVerdict, InvCut DEF OrchInv, RunnerInv
<1> QED BY <1>1, OrchInvariant, PTL
-----------------------------------------------------------------------------
(* Each step onward.                                                       *)

LEMMA RunnerLeftValues ==
  /\ RunnerLeft["idle"] = 5 /\ RunnerLeft["start"] = 4 /\ RunnerLeft["wait"] = 3
  /\ RunnerLeft["drain"] = 2 /\ RunnerLeft["classify"] = 1 /\ RunnerLeft["returned"] = 0
BY DEF RunnerLeft

LEMMA StageValues ==
  /\ opc = "idle" => Stage = 11
  /\ opc = "spec" => Stage = 10
  /\ opc = "files" => Stage = 9
  /\ opc = "walk" => Stage = 8
  /\ opc = "run" => Stage = 7
  /\ opc = "running" => Stage = 1 + RunnerLeft[rpc]
  /\ opc = "done" => Stage = 0
  /\ opc = "failed" => Stage = 0
BY DEF Stage

LEMMA NextStageValues ==
  /\ opc' = "spec" => Stage' = 10
  /\ opc' = "files" => Stage' = 9
  /\ opc' = "walk" => Stage' = 8
  /\ opc' = "run" => Stage' = 7
  /\ opc' = "running" => Stage' = 1 + RunnerLeft[rpc']
  /\ opc' = "done" => Stage' = 0
  /\ opc' = "failed" => Stage' = 0
BY DEF Stage

\* A step of the runner brings it nearer to its return.
LEMMA RunnerStep_Counts ==
  ASSUME RunnerStep
  PROVE  /\ RunnerLeft[rpc] \in 1..4 /\ RunnerLeft[rpc'] \in 0..3
         /\ RunnerLeft[rpc'] < RunnerLeft[rpc]
<1>1. \/ rpc = "start" /\ rpc' \in {"wait", "classify"}
      \/ rpc = "wait" /\ rpc' = "drain"
      \/ rpc = "drain" /\ rpc' = "classify"
      \/ rpc = "classify" /\ rpc' = "returned"
  BY DEF RunnerStep, Start, Reap, Drain, Classify
<1> QED BY <1>1, RunnerLeftValues

LEMMA Call_Onward ==
  ASSUME opc = "idle", opc' = "spec", ix' = ix
  PROVE  Onward
BY StageValues, NextStageValues DEF Onward

LEMMA OrchStep_Onward ==
  ASSUME OrchInv, OrchStep
  PROVE  Onward
<1>1. CASE ListTree
  <2>1. opc = "spec" /\ opc' \in {"failed", "files"} /\ ix' = ix
    BY <1>1 DEF ListTree
  <2> QED BY <2>1, StageValues, NextStageValues DEF Onward
<1>2. CASE MaterializeFile
  <2>1. /\ opc = "files" /\ ix' = ix
        /\ unread' = unread
        /\ opc' = "failed" \/ (opc' = "files" /\ \E p \in todo : todo' = todo \ {p})
    BY <1>2 DEF MaterializeFile, Abort, walkVars
  <2>2. CASE opc' = "failed"
    BY <2>1, <2>2, StageValues, NextStageValues DEF Onward
  <2>3. CASE opc' = "files" /\ \E p \in todo : todo' = todo \ {p}
    <3>1. Stage' = Stage
      BY <2>1, <2>3, StageValues, NextStageValues
    <3>2. todo' \subseteq todo /\ todo' # todo
      BY <2>3
    <3> QED BY <2>1, <3>1, <3>2 DEF Onward
  <2> QED BY <2>1, <2>2, <2>3
<1>3. CASE BeginWalk
  <2>1. opc = "files" /\ opc' = "walk" /\ ix' = ix
    BY <1>3 DEF BeginWalk
  <2> QED BY <2>1, StageValues, NextStageValues DEF Onward
<1>8. CASE ReadBack
  <2>1. /\ opc = "walk" /\ ix' = ix /\ todo' = todo
        /\ opc' = "failed" \/ (opc' = "walk" /\ \E p \in unread : unread' = unread \ {p})
    BY <1>8 DEF ReadBack, Abort
  <2>2. CASE opc' = "failed"
    BY <2>1, <2>2, StageValues, NextStageValues DEF Onward
  <2>3. CASE opc' = "walk" /\ \E p \in unread : unread' = unread \ {p}
    <3>1. Stage' = Stage
      BY <2>1, <2>3, StageValues, NextStageValues
    <3>2. unread' \subseteq unread /\ unread' # unread
      BY <2>3
    <3> QED BY <2>1, <3>1, <3>2 DEF Onward
  <2> QED BY <2>1, <2>2, <2>3
<1>9. CASE Compare
  <2>1. opc = "walk" /\ opc' \in {"failed", "run"} /\ ix' = ix
    BY <1>9 DEF Compare, Abort
  <2> QED BY <2>1, StageValues, NextStageValues DEF Onward
<1>4. CASE StartCheck
  <2>1. opc = "run" /\ opc' = "running" /\ rpc' = "start" /\ ix' = ix
    BY <1>4 DEF StartCheck, Begin
  <2>2. Stage = 7 /\ Stage' = 5
    BY <2>1, StageValues, NextStageValues, RunnerLeftValues
  <2> QED BY <2>1, <2>2 DEF Onward
<1>5. CASE RunCheck
  <2>1. opc = "running" /\ opc' = "running" /\ ix' = ix /\ RunnerStep
    BY <1>5 DEF RunCheck
  <2>2. Stage = 1 + RunnerLeft[rpc] /\ Stage' = 1 + RunnerLeft[rpc']
    BY <2>1, StageValues, NextStageValues
  <2>3. Stage' < Stage
    BY <2>1, <2>2, RunnerStep_Counts
  <2> QED BY <2>1, <2>3 DEF Onward
<1>6. CASE Collect
  <2>1. ix' = ix + 1 /\ opc = "running"
    BY <1>6 DEF Collect
  <2>2. ix \in 1..Len(Profile)
    BY <2>1, LenProfile DEF OrchInv, OrchTyped, TurnOfProfile, Working
  <2> QED BY <2>1, <2>2, LenProfile DEF Onward
<1>7. CASE Finish
  <2>1. opc = "spec" /\ opc' = "done" /\ ix' = ix
    BY <1>7 DEF Finish
  <2> QED BY <2>1, StageValues, NextStageValues DEF Onward
<1> QED BY <1>1, <1>2, <1>3, <1>4, <1>5, <1>6, <1>7, <1>8, <1>9 DEF OrchStep

\* The surroundings do not reach the control of a run.
LEMMA EnvironmentWaits ==
  ASSUME Environment
  PROVE  UNCHANGED <<opc, rpc, ix, todo, unread>>
BY OthersKeep
DEF Environment, Meddle, Detach, Scribble, Recreate, orchVars, runnerVars, walkVars

(* Every step of a run of any profile on any tree takes it onward, and no   *)
(* check, descendant of a check or other program moves it.  With ix bounded *)
(* and todo within the tree that is half of what the return of Run needs;   *)
(* the other half, that a step is possible until then, is left to the runs  *)
(* (orchestrator.go:305-375).                                               *)
THEOREM TurnsAreTakenOnce == OrchSpec => NoTurnTwice
<1>1. OrchInv /\ [OrchNext]_allVars => [Onward]_<<opc, rpc, ix, todo, unread>>
  <2> SUFFICES ASSUME OrchInv, [OrchNext]_allVars, ~UNCHANGED <<opc, rpc, ix, todo, unread>>
               PROVE  Onward
    OBVIOUS
  <2>1. OrchNext
    BY DEF allVars, runnerVars, orchVars, walkVars
  <2>2. CASE Call
    BY <2>2, Call_Onward DEF Call
  <2> QED BY <2>1, <2>2, OrchStep_Onward, EnvironmentWaits DEF OrchNext
<1> QED BY <1>1, OrchInvariant, PTL DEF OrchSpec, NoTurnTwice
=============================================================================
