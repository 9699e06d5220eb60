------------------------------- MODULE Runner -------------------------------
(***************************************************************************)
(* internal/check ExecRunner over internal/execx: one check process, the   *)
(* deadline that may kill it, the pipes it shares with its descendants and *)
(* the verdict the runner derives from what is left.                       *)
(*                                                                         *)
(* The runner blocks in exec.Cmd.Run.  Beside it run a goroutine of        *)
(* os/exec that kills the process once the context is done, the process,   *)
(* its descendants, and the clock.                                         *)
(***************************************************************************)
EXTENDS Integers

CONSTANTS
  CheckID,    \* the ids of checks
  Gofmt,      \* the check whose listing on stdout is a failure
  Limit       \* the bound on a captured stream, in units of output

ASSUME RunnerAssumption == Gofmt \in CheckID /\ Limit \in Nat \ {0}

VARIABLES
  rpc,        \* where ExecRunner.Run is
  check,      \* the id of the spec it runs
  ctx,        \* what the err method of the caller's context returns
  cctx,       \* the same of the context with the timeout of the spec
  proc,       \* the check process
  code,       \* its exit code; -1 when a signal ended it
  killed,     \* the kill of the context reached the process
  out,        \* units written to stdout; Limit + 1 stands for all that is more
  buf,        \* what boundedBuffer kept of it
  holder,     \* a descendant holds stdout or stderr open
  runErr,     \* the error of exec.Cmd.Run
  verdict     \* status, error code, exit code and truncation flag of the CheckOutcome

runnerVars == <<rpc, check, ctx, cctx, proc, code, killed, out, buf, holder, runErr, verdict>>

Active == {"start", "wait", "drain", "classify"}

NoVerdict == [status |-> "none", error |-> "none", exit |-> 0, flag |-> FALSE]

NoOutput == [kept |-> 0, truncated |-> FALSE]

RunnerTypeOK ==
  /\ rpc \in Active \cup {"idle", "returned"}
  /\ check \in CheckID
  /\ ctx \in {"nil", "canceled"}
  /\ cctx \in {"nil", "canceled", "deadline"}
  /\ proc \in {"none", "running", "zombie", "reaped"}
  /\ code \in {-1, 0, 1}
  /\ killed \in BOOLEAN /\ holder \in BOOLEAN
  /\ out \in 0..Limit + 1
  /\ buf \in [kept : 0..Limit, truncated : BOOLEAN]
  /\ runErr \in {"nil", "exit", "context", "notfound", "nostart", "relative"}
  /\ verdict \in [status : {"none", "pass", "fail", "error"},
                  error : {"none", "CHECK_TIMEOUT", "CHECK_EXEC_FAILED"}, exit : {-1, 0, 1},
                  flag : BOOLEAN]

RunnerIdle ==
  /\ rpc = "idle"
  /\ check = Gofmt
  /\ ctx = "nil" /\ cctx = "nil"
  /\ proc = "none" /\ code = 0 /\ killed = FALSE
  /\ out = 0 /\ buf = NoOutput /\ holder = FALSE
  /\ runErr = "nil"
  /\ verdict = NoVerdict

-----------------------------------------------------------------------------
(* The runner.                                                             *)

\* Run is called for spec id: a context with the timeout of the spec.
Begin(id) ==
  /\ rpc = "idle"
  /\ rpc' = "start"
  /\ check' = id
  /\ cctx' = ctx
  /\ proc' = "none" /\ code' = 0 /\ killed' = FALSE
  /\ out' = 0 /\ buf' = NoOutput /\ holder' = FALSE
  /\ runErr' = "nil"
  /\ verdict' = NoVerdict
  /\ UNCHANGED ctx

\* Start of a process: refused by a context that is already done, or it fails
\* before there is a process (no executable, the fork or exec fails, execx
\* refuses a relative workspace), or there is a process.
Start ==
  /\ rpc = "start"
  /\ \/ /\ cctx # "nil"
        /\ runErr' = "context" /\ rpc' = "classify" /\ UNCHANGED proc
     \/ /\ cctx = "nil"
        /\ runErr' \in {"notfound", "nostart", "relative"}
        /\ rpc' = "classify" /\ UNCHANGED proc
     \/ /\ cctx = "nil"
        /\ proc' = "running" /\ rpc' = "wait" /\ UNCHANGED runErr
  /\ UNCHANGED <<check, ctx, cctx, code, killed, out, buf, holder, verdict>>

\* Faulty variant: the error of the context replaces that of Wait.
FaultyReap ==
  /\ rpc = "wait" /\ proc = "zombie"
  /\ proc' = "reaped"
  /\ runErr' = IF killed THEN cctx ELSE IF code # 0 THEN "exit" ELSE "nil"
  /\ rpc' = "drain"
  /\ UNCHANGED <<check, ctx, cctx, code, killed, out, buf, holder, verdict>>

\* Wait reaps the process.  A kill that arrived before counts as its end even
\* when the process had ended well.
Reap ==
  /\ rpc = "wait" /\ proc = "zombie"
  /\ proc' = "reaped"
  /\ runErr' = IF code # 0 THEN "exit" ELSE IF killed THEN "context" ELSE "nil"
  /\ rpc' = "drain"
  /\ UNCHANGED <<check, ctx, cctx, code, killed, out, buf, holder, verdict>>

\* Wait then waits for the end of both pipes, with no WaitDelay.
Drain ==
  /\ rpc = "drain" /\ ~holder
  /\ rpc' = "classify"
  /\ UNCHANGED <<check, ctx, cctx, proc, code, killed, out, buf, holder, runErr, verdict>>

\* Result.ExitCode of execx.
ExitCode ==
  CASE runErr = "exit"                -> code
    [] runErr \in {"nil", "relative"} -> 0
    [] OTHER                          -> -1

\* The capture, marker included, is as long as the bound.
Flagged == buf.truncated \/ buf.kept >= Limit

Outcome(s, e) == [status |-> s, error |-> e, exit |-> ExitCode, flag |-> Flagged]

\* gofmt has listed a file.
Listing == check = Gofmt /\ buf # NoOutput

\* Faulty variant: the exit code is looked at before the deadline.
FaultyVerdict ==
  IF runErr # "nil"
  THEN IF runErr = "notfound"     THEN Outcome("error", "CHECK_EXEC_FAILED")
       ELSE IF ExitCode # 0       THEN Outcome("fail", "none")
       ELSE Outcome("error", "CHECK_EXEC_FAILED")
  ELSE IF Listing THEN Outcome("fail", "none")
  ELSE Outcome("pass", "none")

\* The order of the classification matters: deadline, missing executable,
\* exit code, other errors; then the listing of gofmt.
Verdict ==
  IF runErr # "nil"
  THEN IF cctx = "deadline"       THEN Outcome("error", "CHECK_TIMEOUT")
       ELSE IF runErr = "notfound" THEN Outcome("error", "CHECK_EXEC_FAILED")
       ELSE IF ExitCode # 0       THEN Outcome("fail", "none")
       ELSE Outcome("error", "CHECK_EXEC_FAILED")
  ELSE IF Listing THEN Outcome("fail", "none")
  ELSE Outcome("pass", "none")

Classify ==
  /\ rpc = "classify"
  /\ verdict' = Verdict
  /\ rpc' = "returned"
  /\ UNCHANGED <<check, ctx, cctx, proc, code, killed, out, buf, holder, runErr>>

-----------------------------------------------------------------------------
(* The others.                                                             *)

\* The timeout of the spec passes.
Expire ==
  /\ rpc \in Active /\ cctx = "nil"
  /\ cctx' = "deadline"
  /\ UNCHANGED <<rpc, check, ctx, proc, code, killed, out, buf, holder, runErr, verdict>>

\* The caller cancels its context (the command line never does).
Cancel ==
  /\ ctx = "nil"
  /\ ctx' = "canceled"
  /\ cctx' = IF rpc \in Active /\ cctx = "nil" THEN "canceled" ELSE cctx
  /\ UNCHANGED <<rpc, check, proc, code, killed, out, buf, holder, runErr, verdict>>

\* Faulty variant: exec.Command in place of exec.CommandContext.
FaultyKill == FALSE /\ UNCHANGED runnerVars

\* The goroutine of CommandContext kills the process that Wait still holds.
\* A process that has ended but is not reaped takes the signal and keeps its
\* exit code; its descendants are not signalled.
Kill ==
  /\ rpc = "wait" /\ cctx # "nil" /\ ~killed
  /\ killed' = TRUE
  /\ IF proc = "running" THEN proc' = "zombie" /\ code' = -1 ELSE UNCHANGED <<proc, code>>
  /\ UNCHANGED <<rpc, check, ctx, cctx, out, buf, holder, runErr, verdict>>

\* The process ends: well, with a failure, or by somebody's signal.
Exit ==
  /\ proc = "running"
  /\ code' \in {-1, 0, 1}
  /\ proc' = "zombie"
  /\ UNCHANGED <<rpc, check, ctx, cctx, killed, out, buf, holder, runErr, verdict>>

\* Faulty variant: a chunk that does not fit is dropped.
FaultyCapture(n) == IF n <= Limit - buf.kept THEN [buf EXCEPT !.kept = @ + n] ELSE buf

\* Write of boundedBuffer: what fits is kept, and a chunk that does not marks
\* the buffer for good.
Capture(n) ==
  IF buf.truncated THEN buf
  ELSE IF n <= Limit - buf.kept THEN [buf EXCEPT !.kept = @ + n]
  ELSE [kept |-> Limit, truncated |-> TRUE]

\* It, or a descendant, prints a chunk.
WriteOut ==
  /\ proc = "running" \/ holder
  /\ \E n \in 1..Limit + 1 - out :
       /\ out' = out + n
       /\ buf' = Capture(n)
  /\ UNCHANGED <<rpc, check, ctx, cctx, proc, code, killed, holder, runErr, verdict>>

\* It leaves a descendant behind that has inherited the pipes.
Fork ==
  /\ proc = "running" /\ ~holder
  /\ holder' = TRUE
  /\ UNCHANGED <<rpc, check, ctx, cctx, proc, code, killed, out, buf, runErr, verdict>>

\* The descendants end.
Release ==
  /\ holder
  /\ holder' = FALSE
  /\ UNCHANGED <<rpc, check, ctx, cctx, proc, code, killed, out, buf, runErr, verdict>>

RunnerStep == Start \/ Reap \/ Drain \/ Classify

Others == Expire \/ Cancel \/ Kill \/ Exit \/ WriteOut \/ Fork \/ Release

-----------------------------------------------------------------------------
(* One run of one check, on its own.                                       *)

RunnerInit == RunnerIdle

RunnerNext ==
  \/ \E id \in CheckID : Begin(id)
  \/ RunnerStep
  \/ Others

RunnerSpec == RunnerInit /\ [][RunnerNext]_runnerVars

\* The runner and the goroutine of CommandContext are scheduled, and the
\* timer fires.  Nothing is assumed of the process.
TimedRunnerSpec ==
  /\ RunnerSpec
  /\ WF_runnerVars(\E id \in CheckID : Begin(id))
  /\ WF_runnerVars(RunnerStep)
  /\ WF_runnerVars(Expire)
  /\ WF_runnerVars(Kill)

-----------------------------------------------------------------------------
(* A verdict on the code is earned: a pass by a process that ended well on *)
(* its own and, for gofmt, in silence; and a run that the deadline cut     *)
(* short is an error with its own code, never a fail, whatever the process *)
(* did at the moment it was killed (runner.go:61-66, :174-221).            *)
VerdictEarned ==
  rpc = "returned" =>
    /\ verdict.status = "pass" =>
         proc = "reaped" /\ code = 0 /\ ~killed /\ (check = Gofmt => out = 0)
    /\ killed /\ cctx = "deadline" =>
         verdict.status = "error" /\ verdict.error = "CHECK_TIMEOUT"
    /\ proc = "none" /\ runErr = "notfound" => verdict.status = "error"

(* No output is lost in silence: an outcome without the flag holds all      *)
(* that was printed, in whatever chunks it came, and the flag is set just    *)
(* when "the underlying buffer hit its cap" (types.go:229-232).             *)
CutIsFlagged ==
  rpc = "returned" =>
    /\ verdict.flag <=> out >= Limit
    /\ ~verdict.flag => buf.kept = out

(* A fail is a verdict of the check itself: types.go:193-196 says of exit   *)
(* code -1, "the process could not be started at all", that "in that case  *)
(* Status is ERROR and ErrorCode is populated".                            *)
FailIsAVerdict ==
  rpc = "returned" /\ verdict.exit = -1 => verdict.status = "error"

(* The runner returns, whatever the process does (runner.go:59, "honour    *)
(* spec.TimeoutMillis"); the descendants must let go of the pipes.         *)
RunnerReturns == <>(rpc = "returned")
=============================================================================
