---------------------------- MODULE RunPipeline ----------------------------
(***************************************************************************)
(* runner.Run from the start of the session to its return: the drain of    *)
(* Events with the two callbacks that may kill the session meanwhile (the  *)
(* watchdog, at the task's deadline, and the watcher of the command        *)
(* context), Wait, the capture of the change set, the hidden tests, the    *)
(* validators, the verdict, the record and the removal of the worktree.    *)
(***************************************************************************)
EXTENDS Session

CONSTANT NumValidators      \* validators of the task

ASSUME PipelineAssumption ==
    /\ NumValidators \in Nat
    /\ Killers = {"watchdog", "watcher", "runner"}

Guards == {"watchdog", "watcher"}

VARIABLES
    run,            \* where Run is
    reqCtx,         \* the command context: "live" or "canceled"
    guard,          \* where each callback is: "unset" until Start has succeeded
    flag,           \* timedOut (watchdog) and cancelled (watcher)
    drainDone,      \* the events have been drained
    cancelledRun,   \* the local variable of Run
    tree,           \* kinds of files in the worktree beyond the baseline
    changed,        \* those in ChangedFiles' list
    diff,           \* those in the diff
    counted,        \* those that changeCounts counts
    running,        \* a validator is running
    results,        \* what the validators said
    status,         \* Result.Status
    recorded,       \* the status in the store, or "none"
    err             \* why Run returned an error, or "none"

guardVars == <<guard, flag>>
captureVars == <<changed, diff, counted>>
verdictVars == <<cancelledRun, running, results, status>>
outVars == <<recorded, err>>
runVars == <<run, reqCtx, guardVars, drainDone, tree, captureVars,
             verdictVars, outVars>>
pipelineVars == <<sessionVars, runVars>>

RunPCs == {"starting", "draining", "giving up", "reaping", "drained",
           "waiting", "capturing", "diffing", "rechecking", "hidden tests",
           "validating", "rechecking again", "judging", "counting",
           "recording", "leaving", "returned"}
Files == {"edit", "own test", "hidden test", "validator file"}

Init ==
    /\ SessionInit
    /\ run = "starting"
    /\ reqCtx = "live"
    /\ guard = [g \in Guards |-> "unset"]
    /\ flag = [g \in Guards |-> FALSE]
    /\ drainDone = FALSE /\ cancelledRun = FALSE
    /\ tree = {} /\ changed = {} /\ diff = {} /\ counted = {}
    /\ running = FALSE /\ results = <<>>
    /\ status = "none" /\ recorded = "none" /\ err = "none"

(* Start has returned a session: the watchdog is set next.                 *)
HasSession == guard["watchdog"] # "unset"

(***************************************************************************)
(* The environment                                                         *)
(***************************************************************************)

(* Ctrl-C: the command context ends and the session's, derived from it,    *)
(* with it.                                                                *)
Cancel ==
    /\ reqCtx = "live" /\ run # "returned"
    /\ reqCtx' = "canceled"
    /\ ctx' = IF ctx = "live" THEN "canceled" ELSE ctx
    /\ UNCHANGED <<childVars, reapVars, tailVars, consVars, killVars, waitVars,
                   run, guardVars, drainDone, tree, captureVars, verdictVars,
                   outVars>>

(* The deadline that Start puts on the session's context passes.           *)
Deadline == HasSession /\ CtxDone("deadline") /\ UNCHANGED runVars

(* The agent, or a helper that outlives it, edits the worktree.            *)
Edit ==
    /\ HasSession /\ alive # {} /\ run # "returned"
    /\ \E f \in {"edit"} \cup (IF "clash" \in Faults THEN {"own test"} ELSE {}) :
         tree' = tree \cup {f}
    /\ UNCHANGED <<sessionVars, run, reqCtx, guardVars, drainDone, captureVars,
                   verdictVars, outVars>>

(***************************************************************************)
(* The watchdog and the watcher                                            *)
(***************************************************************************)

Guard(g, from, to) ==
    /\ HasSession /\ guard[g] = from
    /\ guard' = [guard EXCEPT ![g] = to]
    /\ UNCHANGED <<sessionVars, run, reqCtx, drainDone, tree, captureVars,
                   verdictVars, outVars>>

(* The timer of the watchdog may fire whenever it is armed.                *)
GuardChecks(g) ==
    /\ g = "watcher" => reqCtx = "canceled"
    /\ Guard(g, "armed", IF drainDone THEN "ended" ELSE "checked")
    /\ UNCHANGED flag

GuardFlags(g) ==
    /\ Guard(g, "checked", "flagged")
    /\ flag' = [flag EXCEPT ![g] = TRUE]

(* Mutant: the watchdog only sets its flag.                                *)
GuardKills_WatcherOnly(g) ==
    /\ g = "watcher"
    /\ guard[g] = "flagged" /\ KillEnter(g) /\ UNCHANGED runVars

GuardKills(g) ==
    /\ guard[g] = "flagged" /\ KillEnter(g) /\ UNCHANGED runVars

(* Stop: a callback that has begun goes on.                                *)
Stopped(gs) == [g \in Guards |->
                  IF g \in gs /\ guard[g] = "armed" THEN "ended" ELSE guard[g]]

(***************************************************************************)
(* Run                                                                     *)
(***************************************************************************)

(* A session, and both callbacks for it.                                   *)
Start ==
    /\ run = "starting" /\ reqCtx = "live"
    /\ run' = "draining"
    /\ guard' = [g \in Guards |-> "armed"]
    /\ UNCHANGED <<sessionVars, reqCtx, flag, drainDone, tree, captureVars,
                   verdictVars, outVars>>

(* No session: the context has ended, or the program cannot be run.        *)
StartFails ==
    /\ run = "starting"
    /\ run' = "recording"
    /\ status' = "error"
    /\ UNCHANGED <<sessionVars, reqCtx, guardVars, drainDone, tree,
                   captureVars, cancelledRun, running, results, outVars>>

(* A failure of the runner's own work: Run returns an error.               *)
Fail(pc, why) ==
    /\ run = pc
    /\ run' = "leaving" /\ err' = why
    /\ UNCHANGED <<sessionVars, reqCtx, guardVars, drainDone, tree,
                   captureVars, verdictVars, recorded>>

WorkFails ==
    /\ "io" \in Faults
    /\ ~running
    /\ \E pc \in {"capturing", "diffing", "hidden tests", "validating",
                  "counting", "recording"} :
         Fail(pc, "io")

(* drainEvents cannot create or write events.jsonl, or, when it has        *)
(* drained every line, close it.                                           *)
DrainIsLost ==
    /\ run = "draining" /\ "io" \in Faults
    /\ \/ Abandon
       \/ consumer = "finished" /\ UNCHANGED sessionVars

(* Mutant: Run returns the drain's error at once.                          *)
DrainFails_ReturnsAtOnce ==
    /\ DrainIsLost
    /\ run' = "leaving" /\ err' = "io"
    /\ UNCHANGED <<reqCtx, guardVars, drainDone, tree, captureVars,
                   verdictVars, recorded>>

(* The session is killed and reaped before Run returns the error.          *)
DrainFails ==
    /\ DrainIsLost
    /\ run' = "giving up"
    /\ UNCHANGED <<reqCtx, guardVars, drainDone, tree, captureVars,
                   verdictVars, outVars>>

RunnerKills ==
    /\ run = "giving up" /\ KillEnter("runner") /\ UNCHANGED runVars

ReapAfterFailure ==
    /\ run = "giving up" /\ killer["runner"] = "done"
    /\ WaitStart
    /\ run' = "reaping"
    /\ UNCHANGED <<reqCtx, guardVars, drainDone, tree, captureVars,
                   verdictVars, outVars>>

DrainError == wait = "done" /\ Fail("reaping", "io")

Drained ==
    /\ run = "draining" /\ consumer = "finished"
    /\ drainDone' = TRUE
    /\ run' = "drained"
    /\ UNCHANGED <<sessionVars, reqCtx, guardVars, tree, captureVars,
                   verdictVars, outVars>>

StopWatcher ==
    /\ run = "drained"
    /\ guard' = Stopped({"watcher"})
    /\ WaitStart
    /\ run' = "waiting"
    /\ UNCHANGED <<reqCtx, flag, drainDone, tree, captureVars, verdictVars,
                   outVars>>

Waited ==
    /\ run = "waiting" /\ wait = "done"
    /\ guard' = Stopped({"watchdog"})
    /\ cancelledRun' = (flag["watcher"] \/ WaitErr = "canceled")
    /\ run' = "capturing"
    /\ UNCHANGED <<sessionVars, reqCtx, flag, drainDone, tree, captureVars,
                   running, results, status, outVars>>

(* A step of Run alone.                                                    *)
Step(from, to) ==
    /\ run = from /\ run' = to
    /\ UNCHANGED <<sessionVars, reqCtx, guardVars, drainDone, outVars>>

(* Mutant: the hidden tests are copied before the diff is taken.           *)
CaptureChanges_CopiesFirst ==
    /\ Step("capturing", "diffing")
    /\ changed' = tree
    /\ tree' = tree \cup {"hidden test"}
    /\ UNCHANGED <<diff, counted, verdictVars>>

CaptureChanges ==
    /\ Step("capturing", "diffing")
    /\ changed' = tree
    /\ UNCHANGED <<tree, diff, counted, verdictVars>>

CaptureDiff ==
    /\ Step("diffing", "rechecking")
    /\ diff' = tree
    /\ UNCHANGED <<tree, changed, counted, verdictVars>>

Canceled == cancelledRun \/ reqCtx = "canceled"

(* Validators, and the hidden tests they need, are skipped after           *)
(* cancellation.                                                           *)
Recheck ==
    /\ Step("rechecking", IF Canceled THEN "rechecking again" ELSE "hidden tests")
    /\ cancelledRun' = Canceled
    /\ UNCHANGED <<tree, captureVars, running, results, status>>

CopyHiddenTests ==
    /\ Step("hidden tests", "validating")
    /\ "own test" \notin tree
    /\ tree' = tree \cup {"hidden test"}
    /\ UNCHANGED <<captureVars, verdictVars>>

(* A hidden test would overwrite an existing file.                         *)
HiddenTestClash == "own test" \in tree /\ Fail("hidden tests", "clash")

(* runValidators, one at a time: skipped when the task's requirements are  *)
(* missing or the run has been cancelled, else run; one that runs when the *)
(* cancellation comes is killed.                                           *)
Said(r) == \E i \in DOMAIN results : results[i] = r

(* Mutant: one validator too many.                                         *)
StartValidator_OffByOne ==
    /\ Step("validating", "validating")
    /\ ~running /\ Len(results) <= NumValidators
    /\ running' = TRUE
    /\ UNCHANGED <<results, tree, captureVars, cancelledRun, status>>

StartValidator ==
    /\ Step("validating", "validating")
    /\ ~running /\ Len(results) < NumValidators
    /\ \/ /\ "missing" \in Faults
          /\ results = <<>> \/ Said("skipped")
          /\ results' = Append(results, "skipped") /\ running' = FALSE
       \/ /\ ~Said("skipped")
          /\ IF reqCtx = "canceled"
             THEN results' = Append(results, "cancelled") /\ running' = FALSE
             ELSE results' = results /\ running' = TRUE
    /\ UNCHANGED <<tree, captureVars, cancelledRun, status>>

ValidatorEnds ==
    /\ Step("validating", "validating")
    /\ running /\ running' = FALSE
    /\ \E r \in {"passed", "failed"} \cup
                (IF reqCtx = "canceled" THEN {"interrupted"} ELSE {}) :
         results' = Append(results, r)
    /\ \/ tree' = tree
       \/ tree' = tree \cup {"validator file"}
    /\ UNCHANGED <<captureVars, cancelledRun, status>>

Validated ==
    /\ Step("validating", "rechecking again")
    /\ ~running /\ Len(results) = NumValidators
    /\ UNCHANGED <<tree, captureVars, verdictVars>>

(* Mutant: the request context is not checked after the validators.        *)
RecheckAgain_Skipped ==
    /\ Step("rechecking again", "judging")
    /\ UNCHANGED <<tree, captureVars, verdictVars>>

RecheckAgain ==
    /\ Step("rechecking again", "judging")
    /\ cancelledRun' = Canceled
    /\ UNCHANGED <<tree, captureVars, running, results, status>>

(* "cancelled" is a skip, "interrupted" an error or a timeout.              *)
ValidatorsFailed == Said("failed") \/ Said("interrupted")

(* Mutant: the exit code is not looked at.                                 *)
Verdict_IgnoresExit ==
    IF flag["watchdog"] \/ WaitErr = "deadline" THEN "timeout"
    ELSE IF cancelledRun \/ WaitErr # "none" THEN "error"
    ELSE IF ValidatorsFailed THEN "failed" ELSE "passed"

(* Mutant: the watchdog's flag is not looked at, its kill is thought to    *)
(* show in the exit.                                                       *)
Verdict_IgnoresWatchdog ==
    IF WaitErr = "deadline" THEN "timeout"
    ELSE IF cancelledRun \/ WaitErr # "none" \/ ExitCode # "0" THEN "error"
    ELSE IF ValidatorsFailed THEN "failed" ELSE "passed"

(* The cases of the switch, the first that holds.                          *)
Verdict ==
    IF flag["watchdog"] \/ WaitErr = "deadline" THEN "timeout"
    ELSE IF cancelledRun \/ WaitErr # "none" \/ ExitCode # "0" THEN "error"
    ELSE IF ValidatorsFailed THEN "failed" ELSE "passed"

Judge ==
    /\ Step("judging", "counting")
    /\ status' = Verdict
    /\ UNCHANGED <<tree, captureVars, cancelledRun, running, results>>

ChangeCounts ==
    /\ Step("counting", "recording")
    /\ counted' = tree
    /\ UNCHANGED <<tree, changed, diff, verdictVars>>

(* Mutant: the record is written on the command's context.                 *)
Record_OnRequestContext ==
    /\ run = "recording" /\ run' = "leaving"
    /\ recorded' = IF reqCtx = "live" THEN status ELSE recorded
    /\ UNCHANGED <<sessionVars, reqCtx, guardVars, drainDone, tree,
                   captureVars, verdictVars, err>>

(* writeResult and persist, on a context that cancellation does not end.   *)
Record ==
    /\ run = "recording" /\ run' = "leaving"
    /\ recorded' = status
    /\ UNCHANGED <<sessionVars, reqCtx, guardVars, drainDone, tree,
                   captureVars, verdictVars, err>>

(* The deferred calls: both callbacks stopped, the worktree removed.       *)
Leave ==
    /\ run = "leaving" /\ run' = "returned"
    /\ guard' = Stopped(Guards)
    /\ tree' = {}
    /\ UNCHANGED <<sessionVars, reqCtx, flag, drainDone, captureVars,
                   verdictVars, outVars>>

RunStep ==
    \/ Start \/ StartFails \/ WorkFails \/ DrainFails \/ RunnerKills
    \/ ReapAfterFailure \/ DrainError \/ Drained \/ StopWatcher \/ Waited
    \/ CaptureChanges \/ CaptureDiff \/ Recheck \/ CopyHiddenTests
    \/ HiddenTestClash \/ StartValidator \/ ValidatorEnds \/ Validated
    \/ RecheckAgain \/ Judge \/ ChangeCounts \/ Record \/ Leave

(* What the goroutines of the session, its process and its consumer do.    *)
SessionStep ==
    /\ HasSession
    /\ \/ Write \/ Reap \/ CloseProcDone \/ \E m \in Members : Exits(m)
       \/ Tailer \/ Receive \/ SeeClose
       \/ \E k \in Callers : KillSteps(k)
       \/ GraceOver \/ GraceKill \/ Waiting
    /\ UNCHANGED runVars

Next ==
    \/ SessionStep
    \/ Cancel \/ Deadline \/ Edit
    \/ \E g \in Guards : GuardChecks(g) \/ GuardFlags(g) \/ GuardKills(g)
    \/ RunStep

(* Fair: every goroutine; the timers of the deadline, of the watchdog and  *)
(* of the grace period; a validator, whose own deadline ends it; a process *)
(* told to terminate that does not ignore it.  Not fair: the process's own *)
(* end, Ctrl-C, the helpers.                                               *)
InSession(A) == HasSession /\ A /\ UNCHANGED runVars

Fairness ==
    /\ WF_pipelineVars(InSession(Reap))
    /\ WF_pipelineVars(InSession(CloseProcDone))
    /\ WF_pipelineVars(InSession(Tailer))
    /\ WF_pipelineVars(InSession(Receive \/ SeeClose))
    /\ \A k \in Callers : WF_pipelineVars(InSession(KillSteps(k)))
    /\ WF_pipelineVars(InSession(GraceOver \/ GraceKill))
    /\ WF_pipelineVars(InSession(Waiting))
    /\ WF_pipelineVars(InSession(Child \in doomed /\ Exits(Child)))
    /\ \A g \in Guards : WF_pipelineVars(GuardChecks(g) \/ GuardFlags(g)
                                        \/ GuardKills(g))
    /\ WF_pipelineVars(RunStep) /\ WF_pipelineVars(Deadline)

Spec == Init /\ [][Next]_pipelineVars
FairSpec == Spec /\ Fairness

(***************************************************************************)
(* Properties                                                              *)
(***************************************************************************)

(* Every variable has its type.                                            *)
TypeOK ==
    /\ SessionTypeOK
    /\ run \in RunPCs
    /\ reqCtx \in {"live", "canceled"}
    /\ guard \in [Guards -> {"unset", "armed", "checked", "flagged", "ended"}]
    /\ flag \in [Guards -> BOOLEAN]
    /\ {drainDone, cancelledRun, running} \subseteq BOOLEAN
    /\ {tree, changed, diff, counted} \subseteq SUBSET Files
    /\ results \in Seq({"passed", "failed", "skipped", "cancelled", "interrupted"})
    /\ Len(results) <= NumValidators
    /\ {status, recorded} \subseteq {"none", "passed", "failed", "error", "timeout"}
    /\ err \in {"none", "io", "clash"}

(* A run whose process was terminated by the watchdog, by the watcher or   *)
(* by Wait is never scored: even when the process answers SIGTERM with a   *)
(* clean exit, its verdict is timeout or error.                            *)
KilledNeverScored ==
    onceBy # "nobody" => status \in {"none", "timeout", "error"}

(* Cancellation is authoritative: when it interrupted a validator, or kept *)
(* one from starting, the run is not scored by what the validators say.    *)
InterruptedNotScored ==
    status \in {"passed", "failed"} =>
        \A i \in DOMAIN results : results[i] \notin {"cancelled", "interrupted"}

(* A scored run ended cleanly and was read in full: exit code zero, no     *)
(* error from Wait, and every line of the process drained.                 *)
ScoredRunIsWhole ==
    status \in {"passed", "failed"} =>
        /\ exit = "zero" /\ ctxErr = "none"
        /\ received = Received((written + 1) \div 2)
        /\ Len(results) = NumValidators

(* The change set and the diff are taken when the agent has finished and   *)
(* before the hidden tests and the validators write: they agree, they miss *)
(* none of the agent's edits, and they blame it for nothing else.          *)
ChangeSetIsTheAgents ==
    run \in {"rechecking", "hidden tests", "validating", "rechecking again",
             "judging", "counting"} =>
        /\ changed = diff
        /\ changed = tree \cap {"edit", "own test"}

(* When Run returns from a session that was started, with or without an    *)
(* error of its own, the process has ended and been reaped, and the tailer *)
(* has ended.                                                              *)
NoOrphan ==
    run = "returned" /\ HasSession =>
        procDone /\ Child \notin alive /\ tail = "done"

(* Run returns, though the process may never end by itself and may ignore  *)
(* SIGTERM, and though the command context may end at any time.            *)
RunReturns == run # "starting" ~> run = "returned"

(* A run that returned without an infrastructure failure is recorded with  *)
(* its verdict, cancelled or timed out as it may be.                       *)
OutcomeRecorded ==
    run = "returned" => recorded = status /\ recorded # "none"

(* The watchdog "records a timeout only when it actually kills a live      *)
(* process: a process that finishes just before the deadline must not be   *)
(* misclassified" (the comment above it).                                  *)
TimeoutKilledLive ==
    status = "timeout" /\ ctxErr = "none" /\ reqCtx = "live" => hit
=============================================================================
