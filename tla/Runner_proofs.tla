---------------------------- MODULE Runner_proofs ----------------------------
(***************************************************************************)
(* Proofs about module Runner: what a verdict says of the process, for     *)
(* every interleaving of the runner, the process, its descendants, the     *)
(* kill and the clock.                                                     *)
(***************************************************************************)
EXTENDS Runner, TLAPS

\* A process is alive only while the runner waits for it.
ProcessOfWait ==
  /\ rpc = "start" => proc = "none" /\ runErr = "nil"
  /\ rpc = "wait" => proc \in {"running", "zombie"} /\ runErr = "nil"
  /\ rpc = "drain" => proc = "reaped"
  /\ rpc \in {"idle", "classify", "returned"} => proc \in {"none", "reaped"}

\* Once the pipes have been drained nobody can write to them.
PipesOfWait == rpc \notin {"wait", "drain"} => ~holder

\* Only a context that is done kills, and a killed process is never taken for
\* one that ended well.
KillOfContext ==
  /\ killed => cctx # "nil"
  /\ rpc = "start" => ~killed
  /\ killed /\ rpc \in {"drain", "classify", "returned"} => runErr # "nil"

\* A run without an error is that of a process that was reaped with code 0.
ErrorOfRun ==
  /\ runErr = "nil" /\ rpc \in {"drain", "classify", "returned"} => proc = "reaped" /\ code = 0
  /\ runErr = "notfound" /\ rpc \in {"drain", "classify", "returned"} => proc = "none"

VerdictOfRun == rpc = "returned" => verdict = Verdict

\* The capture is the output up to the bound, marked when there was more.
CaptureOfOutput ==
  buf = IF out <= Limit THEN [kept |-> out, truncated |-> FALSE]
                        ELSE [kept |-> Limit, truncated |-> TRUE]

RunnerInv ==
  /\ RunnerTypeOK
  /\ ProcessOfWait /\ PipesOfWait /\ KillOfContext /\ ErrorOfRun /\ VerdictOfRun
  /\ CaptureOfOutput

-----------------------------------------------------------------------------
LEMMA NoOutputCaptured ==
  ASSUME out = 0, buf = NoOutput
  PROVE  /\ out \in 0..Limit + 1 /\ buf \in [kept : 0..Limit, truncated : BOOLEAN]
         /\ CaptureOfOutput
BY RunnerAssumption DEF NoOutput, CaptureOfOutput

\* A step that prints nothing changes nothing about the capture.
LEMMA CaptureKept == CaptureOfOutput /\ UNCHANGED <<out, buf>> => CaptureOfOutput'
BY DEF CaptureOfOutput

LEMMA RunnerIdle_Inv == RunnerIdle => RunnerInv
<1> SUFFICES ASSUME RunnerIdle PROVE RunnerInv
  OBVIOUS
<1>1. /\ out \in 0..Limit + 1 /\ buf \in [kept : 0..Limit, truncated : BOOLEAN]
      /\ CaptureOfOutput
  BY NoOutputCaptured DEF RunnerIdle
<1> USE DEF RunnerIdle
<1>2. RunnerTypeOK
  BY <1>1, RunnerAssumption DEF RunnerTypeOK, Active, NoVerdict
<1>3. ~killed /\ ~holder
  BY Zenon
<1> QED BY <1>1, <1>2, <1>3 DEF RunnerInv, ProcessOfWait, PipesOfWait, KillOfContext,
                               ErrorOfRun, VerdictOfRun

LEMMA Begin_Inv == ASSUME RunnerInv, NEW id \in CheckID, Begin(id) PROVE RunnerInv'
<1>1. /\ out' \in 0..Limit + 1 /\ buf' \in [kept : 0..Limit, truncated : BOOLEAN]
      /\ CaptureOfOutput'
  BY RunnerAssumption DEF Begin, NoOutput, CaptureOfOutput
<1>2. ~killed' /\ ~holder'
  BY Zenon DEF Begin
<1>3. RunnerTypeOK'
  <2>1. killed' \in BOOLEAN /\ holder' \in BOOLEAN
    BY Zenon DEF Begin
  <2>2. /\ rpc' \in Active \cup {"idle", "returned"} /\ check' \in CheckID
        /\ ctx' \in {"nil", "canceled"} /\ cctx' \in {"nil", "canceled", "deadline"}
    BY DEF Begin, RunnerInv, RunnerTypeOK, Active
  <2>3. /\ proc' = "none" /\ code' = 0 /\ runErr' = "nil" /\ verdict' = NoVerdict
    BY DEF Begin
  <2> QED BY <1>1, <2>1, <2>2, <2>3 DEF RunnerTypeOK, NoVerdict
<1>4. rpc' = "start" /\ proc' = "none" /\ runErr' = "nil"
  BY DEF Begin
<1> QED BY <1>1, <1>2, <1>3, <1>4 DEF RunnerInv, ProcessOfWait, PipesOfWait, KillOfContext,
                                    ErrorOfRun, VerdictOfRun

\* The verdict has its type.
LEMMA VerdictType ==
  ASSUME RunnerTypeOK
  PROVE  Verdict \in [status : {"none", "pass", "fail", "error"},
                      error : {"none", "CHECK_TIMEOUT", "CHECK_EXEC_FAILED"},
                      exit : {-1, 0, 1}, flag : BOOLEAN]
<1>1. ExitCode \in {-1, 0, 1}
  BY DEF RunnerTypeOK, ExitCode
<1>2. Flagged \in BOOLEAN
  BY DEF Flagged
<1> QED BY <1>1, <1>2 DEF Verdict, Outcome

LEMMA RunnerStep_Inv == RunnerInv /\ RunnerStep => RunnerInv'
<1> SUFFICES ASSUME RunnerInv, RunnerStep PROVE RunnerInv'
  OBVIOUS
<1> USE DEF RunnerInv
<1>0. CaptureOfOutput'
  BY CaptureKept DEF RunnerStep, Start, Reap, Drain, Classify
<1>1. CASE Start
  <2>1. ~killed /\ ~holder /\ proc = "none"
    BY <1>1 DEF Start, ProcessOfWait, PipesOfWait, KillOfContext
  <2>2. killed' = killed /\ holder' = holder /\ cctx' = cctx
    BY <1>1 DEF Start
  <2>3. RunnerTypeOK'
    BY <1>1, <2>2 DEF Start, RunnerTypeOK, Active
  <2>4. ProcessOfWait' /\ ErrorOfRun' /\ VerdictOfRun'
    BY <1>1, <2>1 DEF Start, RunnerTypeOK, ProcessOfWait, ErrorOfRun, VerdictOfRun
  <2> QED BY <1>0, <2>1, <2>2, <2>3, <2>4 DEF PipesOfWait, KillOfContext
<1>2. CASE Reap
  BY <1>0, <1>2 DEF Reap, RunnerTypeOK, Active, ProcessOfWait, PipesOfWait, KillOfContext,
              ErrorOfRun, VerdictOfRun
<1>3. CASE Drain
  BY <1>0, <1>3 DEF Drain, RunnerTypeOK, Active, ProcessOfWait, PipesOfWait, KillOfContext,
              ErrorOfRun, VerdictOfRun
<1>4. CASE Classify
  <2>1. Verdict' = Verdict
    BY <1>4 DEF Classify, Verdict, Outcome, ExitCode, Flagged, Listing
  <2>2. RunnerTypeOK'
    BY <1>4, VerdictType DEF Classify, RunnerTypeOK, Active
  <2> QED BY <1>0, <1>4, <2>1, <2>2 DEF Classify, ProcessOfWait, PipesOfWait, KillOfContext,
                                  ErrorOfRun, VerdictOfRun
<1> QED BY <1>1, <1>2, <1>3, <1>4 DEF RunnerStep

LEMMA Others_Inv == RunnerInv /\ Others => RunnerInv'
<1> SUFFICES ASSUME RunnerInv, Others PROVE RunnerInv'
  OBVIOUS
<1> USE DEF RunnerInv
<1>0. UNCHANGED <<out, buf>> => CaptureOfOutput'
  BY CaptureKept
<1>1. CASE Expire
  BY <1>0, <1>1 DEF Expire, RunnerTypeOK, Active, ProcessOfWait, PipesOfWait, KillOfContext,
              ErrorOfRun, VerdictOfRun
<1>2. CASE Cancel
  <2>1. rpc = "returned" => Verdict' = Verdict
    BY <1>2 DEF Cancel, Verdict, Outcome, ExitCode, Flagged, Listing
  <2> QED BY <1>0, <1>2, <2>1
          DEF Cancel, RunnerTypeOK, Active, ProcessOfWait, PipesOfWait, KillOfContext,
              ErrorOfRun, VerdictOfRun
<1>3. CASE Kill
  <2>1. killed' /\ cctx # "nil" /\ cctx' = cctx /\ rpc = "wait" /\ rpc' = "wait"
    BY <1>3 DEF Kill
  <2>2. RunnerTypeOK'
    BY <1>3 DEF Kill, RunnerTypeOK, Active
  <2>3. ProcessOfWait'
    BY <1>3 DEF Kill, ProcessOfWait
  <2>4. PipesOfWait' /\ KillOfContext' /\ ErrorOfRun' /\ VerdictOfRun'
    BY <2>1 DEF PipesOfWait, KillOfContext, ErrorOfRun, VerdictOfRun
  <2>5. CaptureOfOutput'
    BY <1>0, <1>3 DEF Kill
  <2> QED BY <2>2, <2>3, <2>4, <2>5
<1>4. CASE Exit
  BY <1>0, <1>4 DEF Exit, RunnerTypeOK, Active, ProcessOfWait, PipesOfWait, KillOfContext,
              ErrorOfRun, VerdictOfRun
<1>5. CASE WriteOut
  <2>1. PICK n \in 1..Limit + 1 - out : out' = out + n /\ buf' = Capture(n)
    BY <1>5 DEF WriteOut
  <2>2. /\ out' \in 0..Limit + 1 /\ buf' \in [kept : 0..Limit, truncated : BOOLEAN]
        /\ CaptureOfOutput'
    <3>1. out \in 0..Limit + 1 /\ out + n \in 0..Limit + 1 /\ Limit \in Nat /\ n \in Nat
      BY RunnerAssumption DEF RunnerTypeOK
    <3>2. CASE out > Limit
      BY <3>1, <3>2, <2>1
    <3>3. CASE out <= Limit
      <4>1. buf = [kept |-> out, truncated |-> FALSE] /\ out \in 0..Limit
        BY <3>1, <3>3 DEF CaptureOfOutput
      <4>2. CASE n <= Limit - out
        <5>1. buf' = [kept |-> out + n, truncated |-> FALSE]
          BY <2>1, <4>1, <4>2 DEF Capture
        <5> QED BY <2>1, <3>1, <4>2, <5>1 DEF CaptureOfOutput
      <4>3. CASE ~(n <= Limit - out)
        <5>1. buf' = [kept |-> Limit, truncated |-> TRUE]
          BY <2>1, <4>1, <4>3 DEF Capture
        <5> QED BY <2>1, <3>1, <4>3, <5>1 DEF CaptureOfOutput
      <4> QED BY <4>2, <4>3
    <3> QED BY <3>1, <3>2, <3>3
  <2>3. UNCHANGED <<rpc, check, ctx, cctx, proc, code, killed, holder, runErr, verdict>>
    BY <1>5 DEF WriteOut
  <2>4. RunnerTypeOK'
    BY <2>2, <2>3 DEF RunnerTypeOK, Active
  <2>5. rpc \in {"wait", "drain"}
    BY <1>5 DEF WriteOut, RunnerTypeOK, Active, ProcessOfWait, PipesOfWait
  <2> QED BY <2>2, <2>3, <2>4, <2>5
          DEF ProcessOfWait, PipesOfWait, KillOfContext, ErrorOfRun, VerdictOfRun
<1>6. CASE Fork
  <2>1. RunnerTypeOK' /\ rpc = "wait" /\ rpc' = rpc
    BY <1>6 DEF Fork, RunnerTypeOK, Active, ProcessOfWait
  <2> QED BY <1>0, <1>6, <2>1 DEF Fork, ProcessOfWait, PipesOfWait, KillOfContext, ErrorOfRun,
                            VerdictOfRun
<1>7. CASE Release
  <2>0. holder' \in BOOLEAN
    BY <1>7, Zenon DEF Release
  <2>1. RunnerTypeOK'
    <3>1. UNCHANGED <<rpc, check, ctx, cctx, proc, code, killed, out, buf, runErr, verdict>>
      BY <1>7 DEF Release
    <3> QED BY <2>0, <3>1 DEF RunnerTypeOK, Active
  <2>2. ~holder'
    BY <1>7, Zenon DEF Release
  <2>3. rpc \in {"wait", "drain"} /\ rpc' = rpc
    BY <1>7 DEF Release, RunnerTypeOK, Active, PipesOfWait
  <2>4. ProcessOfWait' /\ KillOfContext' /\ ErrorOfRun' /\ VerdictOfRun'
    BY <1>7, <2>3 DEF Release, ProcessOfWait, KillOfContext, ErrorOfRun, VerdictOfRun
  <2>5. CaptureOfOutput'
    BY <1>0, <1>7 DEF Release
  <2> QED BY <2>1, <2>2, <2>4, <2>5 DEF PipesOfWait
<1> QED BY <1>1, <1>2, <1>3, <1>4, <1>5, <1>6, <1>7 DEF Others

LEMMA RunnerStutter_Inv == RunnerInv /\ UNCHANGED runnerVars => RunnerInv'
BY DEF runnerVars, RunnerInv, RunnerTypeOK, Active, ProcessOfWait, PipesOfWait,
       KillOfContext, ErrorOfRun, VerdictOfRun, Verdict, Outcome, ExitCode, Flagged, Listing,
       CaptureOfOutput

(* The invariant behind the verdict holds in every behaviour of a run.      *)
THEOREM RunnerInvariant == RunnerSpec => []RunnerInv
<1>1. RunnerInit => RunnerInv
  BY RunnerIdle_Inv DEF RunnerInit
<1>2. RunnerInv /\ [RunnerNext]_runnerVars => RunnerInv'
  BY Begin_Inv, RunnerStep_Inv, Others_Inv, RunnerStutter_Inv DEF RunnerNext
<1> QED BY <1>1, <1>2, PTL DEF RunnerSpec

-----------------------------------------------------------------------------
LEMMA InvVerdict == RunnerInv => VerdictEarned
<1> SUFFICES ASSUME RunnerInv, rpc = "returned"
             PROVE  /\ verdict.status = "pass" =>
                         proc = "reaped" /\ code = 0 /\ ~killed /\ (check = Gofmt => out = 0)
                    /\ killed /\ cctx = "deadline" =>
                         verdict.status = "error" /\ verdict.error = "CHECK_TIMEOUT"
                    /\ proc = "none" /\ runErr = "notfound" => verdict.status = "error"
  BY DEF VerdictEarned
<1>1. verdict = Verdict
  BY DEF RunnerInv, VerdictOfRun
<1>2. verdict.status = "pass" => runErr = "nil" /\ ~Listing
  BY <1>1 DEF Verdict, Outcome
<1>6. check = Gofmt /\ ~Listing => out = 0
  BY RunnerAssumption DEF Listing, NoOutput, RunnerInv, RunnerTypeOK, CaptureOfOutput
<1>3. runErr = "nil" => proc = "reaped" /\ code = 0 /\ ~killed
  BY DEF RunnerInv, ErrorOfRun, KillOfContext
<1>4. killed /\ cctx = "deadline" =>
        verdict.status = "error" /\ verdict.error = "CHECK_TIMEOUT"
  BY <1>1, <1>3 DEF Verdict, Outcome
<1>5. runErr = "notfound" => verdict.status = "error"
  BY <1>1 DEF Verdict, Outcome
<1> QED BY <1>2, <1>3, <1>4, <1>5, <1>6

LEMMA InvCut == RunnerInv => CutIsFlagged
<1> SUFFICES ASSUME RunnerInv, rpc = "returned"
             PROVE  /\ verdict.flag <=> out >= Limit
                    /\ ~verdict.flag => buf.kept = out
  BY DEF CutIsFlagged
<1>1. verdict.flag = Flagged
  BY DEF RunnerInv, VerdictOfRun, Verdict, Outcome
<1>2. /\ Flagged <=> out >= Limit
      /\ ~Flagged => buf.kept = out
  BY RunnerAssumption DEF Flagged, RunnerInv, RunnerTypeOK, CaptureOfOutput
<1> QED BY <1>1, <1>2

(* The variables of a run keep their types.                                 *)
THEOREM RunnerTypeCorrect == RunnerSpec => []RunnerTypeOK
<1>1. RunnerInv => RunnerTypeOK
  BY DEF RunnerInv
<1> QED BY <1>1, RunnerInvariant, PTL

(* A pass is earned by a process that ended well on its own, and a process  *)
(* killed at the deadline is an error and never a fail, at whatever moment  *)
(* the kill, the exit and the classification meet (runner.go:174-221).      *)
THEOREM VerdictIsEarned == RunnerSpec => []VerdictEarned
BY InvVerdict, RunnerInvariant, PTL

(* Whatever the bound and the chunks, an outcome without the truncation     *)
(* flag holds the whole output (runner.go:169-172, execx.go:234-258).       *)
THEOREM CutsAreFlagged == RunnerSpec => []CutIsFlagged
BY InvCut, RunnerInvariant, PTL
=============================================================================
