-------------------------- MODULE RunPipelineProofs ---------------------------
(***************************************************************************)
(* A run for any group of processes, any file and buffer, any number of    *)
(* validators and any faults: a run that was killed, cancelled or cut      *)
(* short is not scored, and Run leaves nothing of its session behind.      *)
(*                                                                         *)
(* Every step of a run is a step of its session or leaves it alone, so     *)
(* that the theorems about the session are theorems about the run.         *)
(***************************************************************************)
EXTENDS RunPipeline, SessionProofs

(***************************************************************************)
(* A run is a client of its session                                        *)
(***************************************************************************)

LEMMA SessionMoves ==
    ASSUME Next
    PROVE  [SessionNext]_sessionVars
<1> USE PipelineAssumption
<1>1. CASE SessionStep
  <2>1. \A k \in Callers : k \in Killers \/ k = Waiter
    BY DEF Callers
  <2> QED
    BY <1>1, <2>1 DEF SessionStep, SessionNext, Waiting
<1>2. CASE Cancel
  <2>1. CASE ctx = "live"
    <3>1. CtxDone("canceled")
      BY <1>2, <2>1 DEF Cancel, CtxDone
    <3> QED
      BY <3>1 DEF SessionNext
  <2>2. CASE ctx # "live"
    BY <1>2, <2>2 DEF Cancel, sessionVars
  <2> QED
    BY <2>1, <2>2
<1>3. CASE Deadline
  BY <1>3 DEF Deadline, SessionNext
<1>4. CASE Edit
  BY <1>4 DEF Edit
<1>5. ASSUME NEW g \in Guards, GuardChecks(g) \/ GuardFlags(g)
      PROVE  UNCHANGED sessionVars
  BY <1>5 DEF GuardChecks, GuardFlags, Guard
<1>6. ASSUME NEW g \in Guards, GuardKills(g)
      PROVE  SessionNext
  BY <1>6 DEF GuardKills, SessionNext, Guards
<1>7. CASE RunStep
  <2>1. CASE Start \/ StartFails \/ Drained \/ Waited \/ Record \/ Leave
    BY <2>1 DEF Start, StartFails, Drained, Waited, Record, Leave
  <2>2. CASE WorkFails \/ DrainError \/ HiddenTestClash
    BY <2>2 DEF WorkFails, DrainError, HiddenTestClash, Fail
  <2>3. CASE DrainFails
    BY <2>3 DEF DrainFails, DrainIsLost, SessionNext
  <2>4. CASE RunnerKills
    BY <2>4 DEF RunnerKills, SessionNext
  <2>5. CASE ReapAfterFailure \/ StopWatcher
    BY <2>5 DEF ReapAfterFailure, StopWatcher, SessionNext
  <2>6. CASE \/ CaptureChanges \/ CaptureDiff \/ Recheck \/ CopyHiddenTests \/ StartValidator
             \/ ValidatorEnds \/ Validated \/ RecheckAgain \/ Judge \/ ChangeCounts
    BY <2>6 DEF CaptureChanges, CaptureDiff, Recheck, CopyHiddenTests, StartValidator,
                ValidatorEnds, Validated, RecheckAgain, Judge, ChangeCounts, Step
  <2> QED
    BY <1>7, <2>1, <2>2, <2>3, <2>4, <2>5, <2>6 DEF RunStep
<1> QED
  BY <1>1, <1>2, <1>3, <1>4, <1>5, <1>6, <1>7 DEF Next

(* The session of a run is a session: every theorem about sessions holds   *)
(* of it, with the run's own watchdog, watcher and runner as its callers.  *)
THEOREM RunUsesASession == Spec => SessionSpec
<1>1. Init => SessionInit
  BY DEF Init
<1>2. [Next]_pipelineVars => [SessionNext]_sessionVars
  BY SessionMoves DEF pipelineVars
<1> QED
  BY <1>1, <1>2, PTL DEF Spec, SessionSpec

(***************************************************************************)
(* What a step of the session can no longer do                             *)
(***************************************************************************)

(* k has sent, or is about to send, the signal that ends the process.      *)
Kills(k) == killer[k] \in {"once", "started"} \/ onceBy = k

(* Once the end of the process is known, it does not write, end again or   *)
(* get killed; once Wait has returned, it has; a consumer that has seen    *)
(* the close takes no more lines.                                          *)
Settled ==
    /\ procDone => /\ procDone' /\ exit' = exit /\ written' = written /\ alive' \subseteq alive
                   /\ \A k \in Callers : Kills(k)' => Kills(k)
    /\ wait = "done" => wait' = "done" /\ ctxErr' = ctxErr
    /\ ctxErr # "none" => ctxErr' # "none"
    /\ consumer = "finished" => consumer' = "finished" /\ received' = received

(* Kills start at the top of Kill.                                         *)
NoNewKill ==
    \A k \in Callers : Kills(k)' => Kills(k) \/ (k = Waiter /\ ctxErr' # "none")

LEMMA OnlyWaitEnters ==
    ASSUME SessionTypeOK, NEW k \in Callers, KillSteps(k)
    PROVE  \A c \in Callers : Kills(c)' => Kills(c)
<1>1. CASE KillTerminate(k)
  BY <1>1 DEF KillTerminate, Kills, SessionTypeOK
<1>2. CASE KillStartGrace(k) \/ KillAgain(k)
  BY <1>2 DEF KillStartGrace, KillAgain, Kills, SessionTypeOK
<1> QED
  BY <1>1, <1>2 DEF KillSteps

LEMMA WaitEnters ==
    ASSUME SessionTypeOK, WaitCtxDone
    PROVE  /\ NoNewKill /\ ctxErr' # "none"
           /\ procDone => \A c \in Callers : Kills(c)' => Kills(c)
<1> Waiter \in Callers
  BY DEF Callers
<1>1. ctxErr' # "none"
  BY DEF WaitCtxDone, SessionTypeOK
<1>2. /\ \A c \in Callers \ {Waiter} : killer'[c] = killer[c]
      /\ procDone => killer'[Waiter] = "done"
      /\ onceBy' = onceBy
  BY DEF WaitCtxDone, SessionTypeOK
<1> QED
  BY <1>1, <1>2 DEF NoNewKill, Kills

LEMMA EntersOnce ==
    ASSUME SessionTypeOK, NEW k \in Callers, KillEnter(k)
    PROVE  /\ \A c \in Callers \ {k} : Kills(c)' => Kills(c)
           /\ procDone => \A c \in Callers : Kills(c)' => Kills(c)
<1>1. /\ \A c \in Callers \ {k} : killer'[c] = killer[c]
      /\ procDone => killer'[k] = "done"
      /\ onceBy' = onceBy
  BY DEF KillEnter, SessionTypeOK
<1> QED
  BY <1>1 DEF Kills

LEMMA Settles ==
    ASSUME SessionInv, [SessionNext]_sessionVars
    PROVE  Settled
<1> SessionTypeOK /\ Exited
  BY DEF SessionInv
<1> Waiter \in Callers
  BY DEF Callers
<1> DEFINE NoKill == \A c \in Callers : Kills(c)' => Kills(c)
<1>1. procDone => procDone' /\ Child \notin alive
  <2>1. procDone => procDone'
    BY WaitAlone DEF sessionVars, reapVars
  <2> QED
    BY <2>1 DEF Exited
<1>2. procDone => exit' = exit /\ written' = written /\ alive' \subseteq alive
  <2> SUFFICES ASSUME Child \notin alive PROVE exit' = exit /\ written' = written /\ alive' \subseteq alive
    BY <1>1
  <2>1. CASE Tailer
    BY <2>1, TailerFrame DEF childVars
  <2>2. CASE Write \/ Reap \/ CloseProcDone \/ \E m \in Members : Exits(m)
    BY <2>2 DEF Write, Reap, CloseProcDone, Exits, childVars
  <2>3. CASE Receive \/ SeeClose \/ Abandon \/ WaitStart \/ GraceOver
    BY <2>3 DEF Receive, SeeClose, Abandon, WaitStart, GraceOver, childVars
  <2>4. ASSUME NEW k \in Callers, KillEnter(k) \/ KillSteps(k)
        PROVE  exit' = exit /\ written' = written /\ alive' \subseteq alive
    BY <2>4 DEF KillEnter, KillSteps, KillTerminate, KillStartGrace, KillAgain, Signal, childVars
  <2>5. CASE GraceKill
    BY <2>5 DEF GraceKill, Signal
  <2>6. CASE Waiting
    BY <2>4, <2>6, WaitingFrame DEF childVars
  <2>7. CASE \E why \in {"canceled", "deadline"} : CtxDone(why)
    BY <2>7 DEF CtxDone, childVars
  <2>8. CASE UNCHANGED sessionVars
    BY <2>8 DEF sessionVars, childVars
  <2> QED
    BY <2>1, <2>2, <2>3, <2>4, <2>5, <2>6, <2>7, <2>8 DEF SessionNext, Callers
<1>3. procDone => NoKill
  <2>1. CASE UNCHANGED <<killer, onceBy>>
    BY <2>1 DEF Kills
  <2>2. CASE Tailer
    BY <2>1, <2>2, TailerFrame DEF killVars
  <2>3. CASE Write \/ Reap \/ CloseProcDone \/ \E m \in Members : Exits(m)
    BY <2>1, <2>3 DEF Write, Reap, CloseProcDone, Exits, killVars
  <2>4. CASE Receive \/ SeeClose \/ Abandon \/ WaitStart \/ GraceOver \/ GraceKill
    BY <2>1, <2>4 DEF Receive, SeeClose, Abandon, WaitStart, GraceOver, GraceKill, killVars
  <2>5. CASE \E k \in Callers : KillEnter(k) \/ KillSteps(k)
    BY <2>5, EntersOnce, OnlyWaitEnters
  <2>6. CASE WaitCtxDone
    BY <2>6, WaitEnters
  <2>7. CASE WaitExited \/ WaitReaped \/ WaitDiscard \/ WaitJoinTail \/ WaitJoinKill
    BY <2>1, <2>7 DEF WaitExited, WaitReaped, WaitDiscard, WaitJoinTail, WaitJoinKill, killVars
  <2>8. CASE \E why \in {"canceled", "deadline"} : CtxDone(why)
    BY <2>1, <2>8 DEF CtxDone, killVars
  <2>9. CASE UNCHANGED sessionVars
    BY <2>1, <2>9 DEF sessionVars, killVars
  <2> HIDE DEF NoKill
  <2> QED
    BY <2>2, <2>3, <2>4, <2>5, <2>6, <2>7, <2>8, <2>9 DEF SessionNext, Waiting, Callers
<1>4. (wait = "done" => wait' = "done" /\ ctxErr' = ctxErr) /\ (ctxErr # "none" => ctxErr' # "none")
  <2>1. CASE UNCHANGED waitVars
    BY <2>1 DEF waitVars
  <2>2. CASE WaitStart \/ WaitExited \/ WaitReaped \/ WaitDiscard \/ WaitJoinTail \/ WaitJoinKill
    BY <2>2 DEF WaitStart, WaitExited, WaitReaped, WaitDiscard, WaitJoinTail, WaitJoinKill
  <2>3. CASE WaitCtxDone
    BY <2>3 DEF WaitCtxDone, SessionTypeOK
  <2>4. CASE Write \/ Reap \/ CloseProcDone \/ \E m \in Members : Exits(m)
    BY <2>1, <2>4 DEF Write, Reap, CloseProcDone, Exits
  <2>5. CASE Receive \/ SeeClose \/ Abandon \/ GraceOver \/ GraceKill
    BY <2>1, <2>5 DEF Receive, SeeClose, Abandon, GraceOver, GraceKill
  <2>6. CASE \E k \in Callers : KillEnter(k) \/ KillSteps(k)
    BY <2>1, <2>6 DEF KillEnter, KillSteps, KillTerminate, KillStartGrace, KillAgain
  <2>7. CASE Tailer
    BY <2>1, <2>7, TailerFrame
  <2>8. CASE \E why \in {"canceled", "deadline"} : CtxDone(why)
    BY <2>1, <2>8 DEF CtxDone
  <2>9. CASE UNCHANGED sessionVars
    BY <2>1, <2>9 DEF sessionVars
  <2> QED
    BY <2>2, <2>3, <2>4, <2>5, <2>6, <2>7, <2>8, <2>9 DEF SessionNext, Waiting, Callers
<1>5. consumer = "finished" => consumer' = "finished" /\ received' = received
  <2>1. CASE UNCHANGED <<sent, chan, closed, received, consumer>>
    BY <2>1
  <2>2. CASE Tailer
    BY <2>2, TailerFrame DEF consVars
  <2>3. CASE Receive \/ SeeClose \/ Abandon
    BY <2>3 DEF Receive, SeeClose, Abandon
  <2>4. CASE UNCHANGED sessionVars
    BY <2>4 DEF sessionVars, consVars
  <2> QED
    BY <2>1, <2>2, <2>3, <2>4, EventsAlone
<1> HIDE DEF NoKill
<1>6. procDone => \A k \in Callers : Kills(k)' => Kills(k)
  BY <1>3 DEF NoKill
<1> QED
  BY <1>1, <1>2, <1>4, <1>5, <1>6 DEF Settled

(***************************************************************************)
(* The invariant of a run                                                  *)
(***************************************************************************)

After == {"capturing", "diffing", "rechecking", "hidden tests", "validating",
          "rechecking again", "judging", "counting"}
Scored == status \in {"passed", "failed"}
Cut == \E i \in DOMAIN results : results[i] \in {"cancelled", "interrupted"}

(* How far Wait and the verdict are.                                       *)
WaitAtRun ==
    /\ run \in {"starting", "draining", "giving up", "drained"} => wait = "idle"
    /\ run \in After \/ Scored => wait = "done"
    /\ run \in {"recording", "leaving", "returned"} => wait \in {"idle", "done"}

(* At the end of a run its session, if it had one, is over.                *)
SessionAtRun ==
    /\ run = "starting" => ~HasSession
    /\ run \in {"recording", "leaving", "returned"} /\ HasSession => wait = "done"

StatusAtRun ==
    status # "none" => run \in {"counting", "recording", "leaving", "returned"}

(* The events have been read in full before Wait is called.                *)
ReadInFull ==
    run \in {"drained", "waiting"} \cup After \/ Scored =>
        consumer = "finished" /\ received = Received((written + 1) \div 2)

(* A callback that kills has set its flag, Wait one that kills its error.  *)
FlaggedKills ==
    /\ \A g \in Guards : guard[g] = "flagged" \/ Kills(g) => flag[g] = TRUE
    /\ Kills(Waiter) => ctxErr # "none"
    /\ Kills("runner") => run \in {"giving up", "reaping", "leaving", "returned"}
    /\ Kills("runner") => status = "none"
    /\ run \in After /\ Kills("watcher") => cancelledRun = TRUE

ScoredIsClean ==
    Scored => exit = "zero" /\ ctxErr = "none" /\ \A k \in Callers : ~Kills(k)

(* The validators run one at a time, and all of them unless the run was    *)
(* cancelled; those that cancellation cut short show that it came.         *)
ValidatorsInTurn ==
    /\ running = TRUE => run = "validating" /\ Len(results) < NumValidators
    /\ run \in {"rechecking again", "judging"} => cancelledRun = TRUE \/ Len(results) = NumValidators
    /\ Scored => Len(results) = NumValidators

CutShort ==
    /\ Cut => reqCtx = "canceled"
    /\ run = "judging" /\ Cut => cancelledRun = TRUE
    /\ Scored => ~Cut

RunInv ==
    /\ TypeOK /\ SessionInv /\ WaitAtRun /\ SessionAtRun /\ StatusAtRun /\ ReadInFull
    /\ FlaggedKills /\ ScoredIsClean /\ ValidatorsInTurn /\ CutShort

(* The kinds of steps: those of the session, its deadline and Ctrl-C leave *)
(* the run alone and begin no kill but Wait's.                             *)
Background ==
    /\ UNCHANGED <<run, guardVars, drainDone, tree, captureVars, verdictVars, outVars>>
    /\ reqCtx' \in {reqCtx, "canceled"}
    /\ NoNewKill
    /\ wait = "idle" => wait' = "idle"

LEMMA SessionKillsNobodyNew ==
    ASSUME SessionTypeOK, SessionStep
    PROVE  NoNewKill /\ (wait = "idle" => wait' = "idle")
<1> Waiter \in Callers
  BY DEF Callers
<1>1. ASSUME UNCHANGED <<killer, onceBy>> PROVE NoNewKill
  BY <1>1 DEF NoNewKill, Kills
<1>2. CASE Tailer
  BY <1>1, <1>2, TailerFrame DEF killVars, waitVars
<1>3. CASE Write \/ Reap \/ CloseProcDone \/ \E m \in Members : Exits(m)
  BY <1>1, <1>3 DEF Write, Reap, CloseProcDone, Exits, killVars, waitVars
<1>4. CASE Receive \/ SeeClose \/ GraceOver \/ GraceKill
  BY <1>1, <1>4 DEF Receive, SeeClose, GraceOver, GraceKill, killVars, waitVars
<1>5. ASSUME NEW k \in Callers, KillSteps(k) PROVE NoNewKill /\ (wait = "idle" => wait' = "idle")
  <2>1. NoNewKill
    BY <1>5, OnlyWaitEnters DEF NoNewKill
  <2>2. wait' = wait
    BY <1>5 DEF KillSteps, KillTerminate, KillStartGrace, KillAgain, waitVars
  <2> QED
    BY <2>1, <2>2
<1>6. CASE WaitCtxDone
  BY <1>6, WaitEnters DEF WaitCtxDone
<1>7. CASE WaitExited \/ WaitReaped \/ WaitDiscard \/ WaitJoinTail \/ WaitJoinKill
  BY <1>1, <1>7 DEF WaitExited, WaitReaped, WaitDiscard, WaitJoinTail, WaitJoinKill, killVars
<1> QED
  BY <1>2, <1>3, <1>4, <1>5, <1>6, <1>7 DEF SessionStep, Waiting

LEMMA Kinds ==
    ASSUME SessionInv, Next
    PROVE  \/ Background \/ Edit \/ RunStep
           \/ \E g \in Guards : GuardChecks(g) \/ GuardFlags(g) \/ GuardKills(g)
<1>1. CASE SessionStep
  BY <1>1, SessionKillsNobodyNew DEF SessionInv, SessionStep, runVars, Background
<1>2. CASE Cancel
  <2>1. UNCHANGED <<killer, onceBy, wait>>
    BY <1>2 DEF Cancel, killVars, waitVars
  <2>2. NoNewKill
    BY <2>1 DEF NoNewKill, Kills
  <2> QED
    BY <1>2, <2>1, <2>2 DEF Cancel, Background
<1>3. CASE Deadline
  <2>1. UNCHANGED <<killer, onceBy, wait>>
    BY <1>3 DEF Deadline, CtxDone, killVars, waitVars
  <2>2. NoNewKill
    BY <2>1 DEF NoNewKill, Kills
  <2> QED
    BY <1>3, <2>1, <2>2 DEF Deadline, runVars, Background
<1> QED
  BY <1>1, <1>2, <1>3 DEF Next

LEMMA InitRun == Init => RunInv
<1> SUFFICES ASSUME Init PROVE RunInv
  OBVIOUS
<1>1. SessionInv
  BY InvInit DEF Init
<1>2. TypeOK
  <2>1. SessionTypeOK
    BY <1>1 DEF SessionInv
  <2>2. <<>> \in Seq({"passed", "failed", "skipped", "cancelled", "interrupted"}) /\ Len(<<>>) = 0
    OBVIOUS
  <2>3. 0 <= NumValidators
    BY PipelineAssumption
  <2>4. guard \in [Guards -> {"unset", "armed", "checked", "flagged", "ended"}] /\ flag \in [Guards -> BOOLEAN]
    BY DEF Init
  <2>5. {drainDone, cancelledRun, running} \subseteq BOOLEAN
    BY DEF Init
  <2> QED
    BY <2>1, <2>2, <2>3, <2>4, <2>5 DEF Init, TypeOK, RunPCs
<1>3. \A k \in Callers : ~Kills(k)
  <2>1. killer = [k \in Callers |-> "idle"] /\ onceBy = "nobody" /\ "nobody" \notin Callers
    BY PipelineAssumption DEF Init, SessionInit, Callers, Waiter
  <2> QED
    BY <2>1 DEF Kills
<1>4. WaitAtRun /\ SessionAtRun /\ StatusAtRun /\ ReadInFull /\ ScoredIsClean
  BY DEF Init, SessionInit, WaitAtRun, SessionAtRun, HasSession, Guards, StatusAtRun, ReadInFull, ScoredIsClean, Scored, After
<1>5. FlaggedKills
  <2>1. Guards \subseteq Callers /\ Waiter \in Callers /\ "runner" \in Callers
    BY PipelineAssumption DEF Guards, Callers
  <2>2. \A g \in Guards : guard[g] # "flagged"
    BY DEF Init
  <2>3. run \notin After
    BY DEF Init, After
  <2> QED
    BY <1>3, <2>1, <2>2, <2>3 DEF FlaggedKills
<1>6. ~Cut
  BY DEF Init, Cut
<1>7. ValidatorsInTurn /\ CutShort
  BY <1>6 DEF Init, ValidatorsInTurn, CutShort, Scored
<1> QED
  BY <1>1, <1>2, <1>4, <1>5, <1>7 DEF RunInv

(***************************************************************************)
(* Every step keeps it                                                     *)
(***************************************************************************)

(* What the steps of Run itself do to Run's place and to its session.      *)
LEMMA RunAdvances ==
    ASSUME RunStep
    PROVE  \/ run = "starting" /\ run' = "draining" /\ UNCHANGED <<sessionVars, status>>
           \/ run = "starting" /\ run' = "recording" /\ status' = "error" /\ UNCHANGED sessionVars
           \/ run \in After \cup {"recording"} /\ run' = "leaving" /\ UNCHANGED <<sessionVars, status>>
           \/ run = "draining" /\ run' = "giving up" /\ (Abandon \/ UNCHANGED sessionVars)
                /\ UNCHANGED status
           \/ run = "giving up" /\ KillEnter("runner") /\ UNCHANGED runVars
           \/ run = "giving up" /\ run' = "reaping" /\ WaitStart /\ UNCHANGED status
           \/ run = "reaping" /\ wait = "done" /\ run' = "leaving" /\ UNCHANGED <<sessionVars, status>>
           \/ run = "draining" /\ run' = "drained" /\ consumer = "finished" /\ UNCHANGED <<sessionVars, status>>
           \/ run = "drained" /\ run' = "waiting" /\ WaitStart /\ UNCHANGED status
           \/ run = "waiting" /\ wait = "done" /\ run' = "capturing" /\ UNCHANGED <<sessionVars, status>>
           \/ run \in After \ {"counting"} /\ run' \in After /\ UNCHANGED <<sessionVars, status>>
           \/ run = "counting" /\ run' = "recording" /\ UNCHANGED <<sessionVars, status>>
           \/ Judge /\ UNCHANGED sessionVars
           \/ run = "leaving" /\ run' = "returned" /\ UNCHANGED <<sessionVars, status>>
<1>1. CASE Start \/ StartFails \/ Record \/ Leave
  BY <1>1 DEF Start, StartFails, Record, Leave, verdictVars
<1>2. CASE WorkFails \/ HiddenTestClash
  BY <1>2 DEF WorkFails, HiddenTestClash, Fail, verdictVars, After
<1>3. CASE DrainFails \/ RunnerKills \/ ReapAfterFailure \/ DrainError
  BY <1>3 DEF DrainFails, DrainIsLost, RunnerKills, ReapAfterFailure, DrainError, Fail, verdictVars
<1>4. CASE Drained \/ StopWatcher \/ Waited
  BY <1>4 DEF Drained, StopWatcher, Waited, verdictVars
<1>5. CASE \/ CaptureChanges \/ CaptureDiff \/ Recheck \/ CopyHiddenTests \/ StartValidator
           \/ ValidatorEnds \/ Validated \/ RecheckAgain \/ ChangeCounts
  BY <1>5 DEF CaptureChanges, CaptureDiff, Recheck, CopyHiddenTests, StartValidator,
              ValidatorEnds, Validated, RecheckAgain, ChangeCounts, Step, verdictVars, After
<1>6. CASE Judge
  BY <1>6 DEF Judge, Step
<1> QED
  BY <1>1, <1>2, <1>3, <1>4, <1>5, <1>6 DEF RunStep

(* The steps of the others leave Run where it is.                          *)
LEMMA OthersWait ==
    ASSUME \/ Background \/ Edit
           \/ \E g \in Guards : GuardChecks(g) \/ GuardFlags(g) \/ GuardKills(g)
    PROVE  /\ UNCHANGED <<run, cancelledRun, running, results, status>>
           /\ wait = "idle" => wait' = "idle"
           /\ reqCtx' \in {reqCtx, "canceled"}
<1>1. CASE Background
  BY <1>1 DEF Background, verdictVars
<1>2. CASE Edit
  BY <1>2 DEF Edit, sessionVars, waitVars, verdictVars
<1>3. ASSUME NEW g \in Guards, GuardChecks(g) \/ GuardFlags(g)
      PROVE  /\ UNCHANGED <<run, cancelledRun, running, results, status, reqCtx>>
             /\ wait = "idle" => wait' = "idle"
  BY <1>3 DEF GuardChecks, GuardFlags, Guard, sessionVars, waitVars, verdictVars
<1>4. ASSUME NEW g \in Guards, GuardKills(g)
      PROVE  /\ UNCHANGED <<run, cancelledRun, running, results, status, reqCtx>>
             /\ wait = "idle" => wait' = "idle"
  BY <1>4 DEF GuardKills, KillEnter, runVars, waitVars, verdictVars
<1> QED
  BY <1>1, <1>2, <1>3, <1>4

LEMMA WaitAtRunKept ==
    ASSUME RunInv, Next
    PROVE  WaitAtRun' /\ StatusAtRun'
<1> SessionInv /\ WaitAtRun /\ StatusAtRun
  BY DEF RunInv
<1>1. wait = "done" => wait' = "done"
  BY SessionMoves, Settles DEF Settled
<1>2. CASE \/ Background \/ Edit
           \/ \E g \in Guards : GuardChecks(g) \/ GuardFlags(g) \/ GuardKills(g)
  BY <1>1, <1>2, OthersWait DEF WaitAtRun, StatusAtRun, Scored
<1>3. CASE RunStep
  <2>1. Judge => /\ run = "judging" /\ run' = "counting"
                 /\ UNCHANGED sessionVars
    BY DEF Judge, Step
  <2>2. UNCHANGED sessionVars => UNCHANGED wait
    BY DEF sessionVars, waitVars
  <2>3. Abandon \/ KillEnter("runner") => UNCHANGED wait
    BY DEF Abandon, KillEnter, waitVars
  <2>4. UNCHANGED runVars => UNCHANGED <<run, status>>
    BY DEF runVars, verdictVars
  <2>5. StatusAtRun'
    BY <1>3, <2>1, <2>4, RunAdvances DEF StatusAtRun, After
  <2>6. WaitAtRun'
    BY <1>1, <1>3, <2>1, <2>2, <2>3, <2>4, RunAdvances DEF WaitAtRun, StatusAtRun, Scored, After
  <2> QED
    BY <2>5, <2>6
<1> QED
  BY <1>2, <1>3, Kinds

(* Only Start begins a session.                                            *)
LEMMA OnlyStartBegins ==
    ASSUME SessionInv, TypeOK, Next, ~Start, HasSession'
    PROVE  HasSession
<1>1. CASE UNCHANGED guard
  BY <1>1 DEF HasSession
<1>2. CASE Background \/ Edit
  BY <1>1, <1>2 DEF Background, Edit, guardVars
<1>3. ASSUME NEW g \in Guards, GuardChecks(g) \/ GuardFlags(g)
      PROVE  HasSession
  BY <1>3 DEF GuardChecks, GuardFlags, Guard
<1>4. ASSUME NEW g \in Guards, GuardKills(g)
      PROVE  HasSession
  BY <1>1, <1>4 DEF GuardKills, runVars, guardVars
<1>5. CASE \E S : guard' = Stopped(S)
  BY <1>5 DEF HasSession, Stopped, Guards
<1>6. CASE StopWatcher \/ Waited \/ Leave
  BY <1>5, <1>6 DEF StopWatcher, Waited, Leave
<1>7. CASE StartFails \/ Record \/ Drained
  BY <1>1, <1>7 DEF StartFails, Record, Drained, guardVars
<1>8. CASE WorkFails \/ HiddenTestClash \/ DrainFails \/ RunnerKills \/ ReapAfterFailure \/ DrainError
  BY <1>1, <1>8 DEF WorkFails, HiddenTestClash, Fail, DrainFails, RunnerKills, ReapAfterFailure,
                    DrainError, runVars, guardVars
<1>9. CASE \/ CaptureChanges \/ CaptureDiff \/ Recheck \/ CopyHiddenTests \/ StartValidator
           \/ ValidatorEnds \/ Validated \/ RecheckAgain \/ ChangeCounts \/ Judge
  BY <1>1, <1>9 DEF CaptureChanges, CaptureDiff, Recheck, CopyHiddenTests, StartValidator,
              ValidatorEnds, Validated, RecheckAgain, ChangeCounts, Judge, Step, guardVars
<1> QED
  BY <1>2, <1>3, <1>4, <1>6, <1>7, <1>8, <1>9, Kinds DEF RunStep

LEMMA SessionAtRunKept ==
    ASSUME RunInv, Next
    PROVE  SessionAtRun'
<1> SessionInv /\ TypeOK /\ WaitAtRun /\ SessionAtRun
  BY DEF RunInv
<1>1. wait = "done" => wait' = "done"
  BY SessionMoves, Settles DEF Settled
<1>2. CASE Start
  BY <1>2 DEF Start, SessionAtRun
<1>3. CASE ~Start /\ ~RunStep
  <2>1. run' = run /\ (HasSession' => HasSession)
    BY <1>3, Kinds, OthersWait, OnlyStartBegins
  <2> HIDE DEF HasSession
  <2> QED
    BY <1>1, <2>1 DEF SessionAtRun
<1>4. CASE ~Start /\ RunStep
  <2>1. HasSession' => HasSession
    BY <1>4, OnlyStartBegins
  <2>2. UNCHANGED runVars => run' = run
    BY DEF runVars
  <2>3. Judge => run' = "counting"
    BY DEF Judge, Step
  <2>4. run' # "starting"
    BY <1>4, <2>2, <2>3, RunAdvances DEF After
  <2>5. ASSUME run' \in {"recording", "leaving", "returned"}, HasSession
        PROVE  wait = "done"
    BY <1>4, <2>2, <2>3, <2>5, RunAdvances DEF SessionAtRun, WaitAtRun, After
  <2> QED
    BY <1>1, <2>1, <2>4, <2>5 DEF SessionAtRun
<1> QED
  BY <1>2, <1>3, <1>4

LEMMA ReadInFullKept ==
    ASSUME RunInv, Next
    PROVE  ReadInFull'
<1> SessionInv /\ WaitAtRun /\ StatusAtRun /\ ReadInFull
  BY DEF RunInv
<1>1. Settled
  BY SessionMoves, Settles
<1>2. consumer = "finished" => procDone
  <2>1. consumer = "finished" => closed
    BY DEF SessionInv, NothingAfterClose
  <2>2. closed => procDone
    BY DEF SessionInv, TailStages, ClosedLast, SeenExit
  <2> QED
    BY <2>1, <2>2
<1>3. ASSUME consumer = "finished", received = Received((written + 1) \div 2)
      PROVE  (consumer = "finished" /\ received = Received((written + 1) \div 2))'
  <2>1. consumer' = "finished" /\ received' = received /\ written' = written
    BY <1>1, <1>2, <1>3 DEF Settled
  <2> QED
    BY <1>3, <2>1 DEF Received
<1>4. CASE \/ Background \/ Edit
           \/ \E g \in Guards : GuardChecks(g) \/ GuardFlags(g) \/ GuardKills(g)
  BY <1>3, <1>4, OthersWait DEF ReadInFull, Scored
<1>5. CASE RunStep /\ run \in {"drained", "waiting"} \cup After
  BY <1>3, <1>5 DEF ReadInFull
<1>6. CASE RunStep /\ run \notin {"drained", "waiting"} \cup After
  <2>1. CASE Scored
    BY <1>3, <2>1 DEF ReadInFull
  <2>2. CASE ~Scored /\ run' = "drained"
    <3>1. run = "draining" /\ consumer = "finished"
      BY <1>6, <2>2, RunAdvances DEF After, runVars, Judge, Step
    <3>2. ~discard
      BY <3>1 DEF WaitAtRun, SessionInv, WaitStages
    <3>3. received = Received((written + 1) \div 2)
      BY <3>1, <3>2, DrainedHasAll DEF DrainedIsComplete
    <3> QED
      BY <1>3, <3>1, <3>3 DEF ReadInFull
  <2>3. CASE ~Scored /\ run' # "drained"
    <3>1. run' \notin {"drained", "waiting"} \cup After /\ ~Scored'
      BY <1>6, <2>3, RunAdvances DEF After, Scored, runVars, verdictVars, Judge, Step
    <3> QED
      BY <3>1 DEF ReadInFull
  <2> QED
    BY <2>1, <2>2, <2>3
<1> QED
  BY <1>4, <1>5, <1>6, Kinds

(* Run itself kills only when it gives up.                                 *)
LEMMA RunKillsWhenGivingUp ==
    ASSUME SessionTypeOK, RunStep
    PROVE  \A k \in Callers :
              Kills(k)' => Kills(k) \/ (k = "runner" /\ run = "giving up" /\ UNCHANGED runVars)
<1>1. CASE UNCHANGED <<killer, onceBy>>
  BY <1>1 DEF Kills
<1>2. CASE KillEnter("runner") /\ run = "giving up" /\ UNCHANGED runVars
  <2>1. "runner" \in Callers
    BY PipelineAssumption DEF Callers
  <2>2. \A c \in Callers \ {"runner"} : Kills(c)' => Kills(c)
    BY <1>2, <2>1, EntersOnce
  <2> QED
    BY <1>2, <2>2
<1>3. UNCHANGED sessionVars \/ Abandon \/ WaitStart => UNCHANGED <<killer, onceBy>>
  BY DEF sessionVars, killVars, Abandon, WaitStart
<1> QED
  BY <1>1, <1>2, <1>3, RunAdvances

(* Stopping a callback does not stop one that has begun.                   *)
LEMMA RunStopsTheArmed ==
    ASSUME RunStep
    PROVE  flag' = flag /\ \A g \in Guards : guard'[g] = "flagged" => guard[g] = "flagged"
<1>1. \A S : \A g \in Guards : Stopped(S)[g] = "flagged" => guard[g] = "flagged"
  BY DEF Stopped
<1>2. CASE Start \/ StartFails \/ Record \/ Drained
  BY <1>2 DEF Start, StartFails, Record, Drained, guardVars, Guards
<1>3. CASE WorkFails \/ HiddenTestClash \/ DrainFails \/ RunnerKills \/ ReapAfterFailure \/ DrainError
  BY <1>3 DEF WorkFails, HiddenTestClash, Fail, DrainFails, RunnerKills, ReapAfterFailure, DrainError,
              runVars, guardVars
<1>4. CASE StopWatcher \/ Waited \/ Leave
  BY <1>1, <1>4 DEF StopWatcher, Waited, Leave
<1>5. CASE \/ CaptureChanges \/ CaptureDiff \/ Recheck \/ CopyHiddenTests \/ StartValidator
           \/ ValidatorEnds \/ Validated \/ RecheckAgain \/ ChangeCounts \/ Judge
  BY <1>5 DEF CaptureChanges, CaptureDiff, Recheck, CopyHiddenTests, StartValidator,
              ValidatorEnds, Validated, RecheckAgain, ChangeCounts, Judge, Step, guardVars
<1> QED
  BY <1>2, <1>3, <1>4, <1>5 DEF RunStep

(* Nothing un-cancels a run.                                               *)
LEMMA RunStaysCancelled ==
    ASSUME RunStep, run # "waiting", cancelledRun = TRUE
    PROVE  cancelledRun' = TRUE
<1>1. CASE UNCHANGED cancelledRun
  BY <1>1
<1>2. CASE Start \/ StartFails \/ Record \/ Leave \/ Drained \/ StopWatcher
  BY <1>1, <1>2 DEF Start, StartFails, Record, Leave, Drained, StopWatcher, verdictVars
<1>3. CASE WorkFails \/ HiddenTestClash \/ DrainFails \/ RunnerKills \/ ReapAfterFailure \/ DrainError
  BY <1>1, <1>3 DEF WorkFails, HiddenTestClash, Fail, DrainFails, RunnerKills, ReapAfterFailure,
                    DrainError, runVars, verdictVars
<1>4. CASE Recheck \/ RecheckAgain
  <2>1. cancelledRun' = Canceled
    BY <1>4 DEF Recheck, RecheckAgain
  <2>2. Canceled = TRUE
    BY DEF Canceled
  <2> QED
    BY <2>1, <2>2
<1>5. CASE \/ CaptureChanges \/ CaptureDiff \/ CopyHiddenTests \/ StartValidator
           \/ ValidatorEnds \/ Validated \/ ChangeCounts \/ Judge
  BY <1>1, <1>5 DEF CaptureChanges, CaptureDiff, CopyHiddenTests, StartValidator,
              ValidatorEnds, Validated, ChangeCounts, Judge, verdictVars
<1>6. ~Waited
  BY DEF Waited
<1> QED
  BY <1>2, <1>3, <1>4, <1>5, <1>6 DEF RunStep

LEMMA FlaggedKillsKept ==
    ASSUME RunInv, Next
    PROVE  FlaggedKills'
<1> SessionInv /\ TypeOK /\ SessionTypeOK /\ WaitAtRun /\ StatusAtRun /\ FlaggedKills
  BY DEF RunInv, SessionInv
<1>a. /\ Guards \subseteq Callers /\ Waiter \in Callers /\ "runner" \in Callers
      /\ Waiter \notin Guards /\ "runner" \notin Guards /\ Waiter # "runner"
      /\ "watcher" \in Guards
  BY PipelineAssumption, SessionAssumption DEF Guards, Callers, Waiter
<1>b. Settled
  BY SessionMoves, Settles
<1>c. run \in After => procDone
  BY DEF WaitAtRun, SessionInv, WaitStages
<1>1. ASSUME UNCHANGED <<guard, flag, run, status, cancelledRun>>, NoNewKill
      PROVE  FlaggedKills'
  <2>1. \A k \in Callers \ {Waiter} : Kills(k)' => Kills(k)
    BY <1>1 DEF NoNewKill
  <2>2. \A g \in Guards : guard'[g] = "flagged" \/ Kills(g)' => flag'[g] = TRUE
    BY <1>1, <1>a, <2>1 DEF FlaggedKills
  <2>3. Kills(Waiter)' => ctxErr' # "none"
    BY <1>1, <1>a, <1>b DEF FlaggedKills, NoNewKill, Settled
  <2>4. /\ Kills("runner")' => Kills("runner")
        /\ Kills("watcher")' => Kills("watcher")
    BY <1>a, <2>1
  <2>5. run' = run /\ status' = status /\ cancelledRun' = cancelledRun
    BY <1>1
  <2>6. /\ Kills("runner")' => run' \in {"giving up", "reaping", "leaving", "returned"} /\ status' = "none"
        /\ run' \in After /\ Kills("watcher")' => cancelledRun' = TRUE
    BY <2>4, <2>5 DEF FlaggedKills
  <2> QED
    BY <2>2, <2>3, <2>6 DEF FlaggedKills
<1>2. CASE Background
  BY <1>1, <1>2 DEF Background, guardVars, verdictVars
<1>3. CASE Edit
  <2>1. UNCHANGED <<killer, onceBy>>
    BY <1>3 DEF Edit, sessionVars, killVars
  <2>2. NoNewKill
    BY <2>1 DEF NoNewKill, Kills
  <2> QED
    BY <1>1, <1>3, <2>2 DEF Edit, guardVars, verdictVars
<1>4. ASSUME NEW g \in Guards, GuardChecks(g) \/ GuardFlags(g)
      PROVE  FlaggedKills'
  <2>1. UNCHANGED <<killer, onceBy, ctxErr, run, status, cancelledRun>>
    BY <1>4 DEF GuardChecks, GuardFlags, Guard, sessionVars, killVars, waitVars, verdictVars
  <2>2. \A k \in Callers : Kills(k)' <=> Kills(k)
    BY <2>1 DEF Kills
  <2>3. CASE GuardChecks(g)
    <3>1. flag' = flag /\ \A h \in Guards : guard'[h] = "flagged" => guard[h] = "flagged"
      BY <2>3 DEF GuardChecks, Guard, TypeOK
    <3>2. \A h \in Guards : guard'[h] = "flagged" \/ Kills(h)' => flag'[h] = TRUE
      BY <1>a, <2>2, <3>1 DEF FlaggedKills
    <3> QED
      BY <1>a, <2>1, <2>2, <3>2 DEF FlaggedKills
  <2>4. CASE GuardFlags(g)
    <3>1. /\ flag'[g] = TRUE
          /\ \A h \in Guards \ {g} : flag'[h] = flag[h] /\ guard'[h] = guard[h]
      BY <2>4 DEF GuardFlags, Guard, TypeOK
    <3>2. \A h \in Guards : guard'[h] = "flagged" \/ Kills(h)' => flag'[h] = TRUE
      BY <1>a, <2>2, <3>1 DEF FlaggedKills
    <3> QED
      BY <1>a, <2>1, <2>2, <3>2 DEF FlaggedKills
  <2> QED
    BY <1>4, <2>3, <2>4
<1>5. ASSUME NEW g \in Guards, GuardKills(g)
      PROVE  FlaggedKills'
  <2>1. /\ guard[g] = "flagged" /\ KillEnter(g)
        /\ UNCHANGED <<guard, flag, run, status, cancelledRun, ctxErr>>
    BY <1>5 DEF GuardKills, KillEnter, runVars, guardVars, verdictVars, waitVars
  <2>2. /\ \A c \in Callers \ {g} : Kills(c)' => Kills(c)
        /\ procDone => \A c \in Callers : Kills(c)' => Kills(c)
    BY <1>a, <2>1, EntersOnce
  <2>3. \A h \in Guards : guard'[h] = "flagged" \/ Kills(h)' => flag'[h] = TRUE
    BY <1>a, <2>1, <2>2 DEF FlaggedKills
  <2>4. /\ Kills(Waiter)' => ctxErr' # "none"
        /\ Kills("runner")' => run' \in {"giving up", "reaping", "leaving", "returned"}
        /\ Kills("runner")' => status' = "none"
    BY <1>a, <2>1, <2>2 DEF FlaggedKills
  <2>5. run' \in After /\ Kills("watcher")' => cancelledRun' = TRUE
    BY <1>a, <1>c, <2>1, <2>2 DEF FlaggedKills
  <2> QED
    BY <2>3, <2>4, <2>5 DEF FlaggedKills
<1>6. CASE RunStep
  <2>1. \A k \in Callers :
           Kills(k)' => Kills(k) \/ (k = "runner" /\ run = "giving up" /\ UNCHANGED runVars)
    BY <1>6, RunKillsWhenGivingUp
  <2>2. \A g \in Guards : guard'[g] = "flagged" \/ Kills(g)' => flag'[g] = TRUE
    BY <1>6, <1>a, <2>1, RunStopsTheArmed DEF FlaggedKills
  <2>3. Kills(Waiter)' => ctxErr' # "none"
    BY <1>a, <1>b, <2>1 DEF FlaggedKills, Settled
  <2>4. UNCHANGED runVars => UNCHANGED <<run, status>>
    BY DEF runVars, verdictVars
  <2>5. Judge => run = "judging"
    BY DEF Judge, Step
  <2>6. Kills("runner")' => run' \in {"giving up", "reaping", "leaving", "returned"} /\ status' = "none"
    <3>1. CASE Kills("runner")
      <4>1. run \in {"giving up", "reaping", "leaving", "returned"} /\ status = "none"
        BY <3>1 DEF FlaggedKills
      <4> QED
        BY <1>6, <2>4, <2>5, <4>1, RunAdvances DEF After
    <3>2. CASE run = "giving up" /\ UNCHANGED runVars
      BY <2>4, <3>2 DEF StatusAtRun
    <3> QED
      BY <1>a, <2>1, <3>1, <3>2
  <2>7. run' \in After /\ Kills("watcher")' => cancelledRun' = TRUE
    <3> SUFFICES ASSUME run' \in After, Kills("watcher")' PROVE cancelledRun' = TRUE
      OBVIOUS
    <3>1. Kills("watcher") /\ flag["watcher"] = TRUE
      BY <1>a, <2>1 DEF FlaggedKills
    <3>2. run = "waiting" \/ run \in After
      BY <1>6, <2>4, RunAdvances DEF After, Judge, Step
    <3>3. CASE run \in After
      <4>1. cancelledRun = TRUE /\ run # "waiting"
        BY <3>1, <3>3 DEF FlaggedKills, After
      <4> QED
        BY <1>6, <4>1, RunStaysCancelled
    <3>4. CASE run = "waiting"
      <4>1. Waited
        BY <1>6, <3>4 DEF RunStep, Start, StartFails, WorkFails, Fail, DrainFails, DrainIsLost, RunnerKills,
            ReapAfterFailure, DrainError, Drained, StopWatcher, CaptureChanges, CaptureDiff, Recheck,
            CopyHiddenTests, HiddenTestClash, StartValidator, ValidatorEnds, Validated, RecheckAgain,
            Judge, ChangeCounts, Record, Leave, Step
      <4>2. cancelledRun' = (flag["watcher"] \/ WaitErr = "canceled")
        BY <4>1 DEF Waited
      <4>3. (flag["watcher"] \/ WaitErr = "canceled") = TRUE
        BY <3>1
      <4> QED
        BY <4>2, <4>3
    <3> QED
      BY <3>2, <3>3, <3>4
  <2> QED
    BY <2>2, <2>3, <2>6, <2>7 DEF FlaggedKills
<1> QED
  BY <1>2, <1>3, <1>4, <1>5, <1>6, Kinds

(* Only the verdict scores a run, and then the run was clean.              *)
LEMMA OnlyJudgeScores ==
    ASSUME SessionInv, Next, ~Judge, Scored'
    PROVE  Scored /\ UNCHANGED status
<1>1. CASE RunStep
  <2>1. UNCHANGED runVars => UNCHANGED status
    BY DEF runVars, verdictVars
  <2> QED
    BY <1>1, <2>1, RunAdvances DEF Scored
<1>2. CASE ~RunStep
  BY <1>2, Kinds, OthersWait DEF Scored
<1> QED
  BY <1>1, <1>2

LEMMA VerdictIsClean ==
    ASSUME RunInv, run = "judging", Verdict \in {"passed", "failed"}
    PROVE  /\ exit = "zero" /\ ctxErr = "none" /\ cancelledRun # TRUE
           /\ \A k \in Callers : ~Kills(k)
<1> FlaggedKills
  BY DEF RunInv
<1>1. ~flag["watchdog"] /\ ctxErr = "none" /\ ~cancelledRun /\ ExitCode = "0"
  BY DEF Verdict, WaitErr
<1>2. exit = "zero"
  BY <1>1 DEF ExitCode
<1>3. cancelledRun # TRUE /\ flag["watchdog"] # TRUE
  BY <1>1
<1>4. run \in After
  BY DEF After
<1>5. ~Kills("watchdog") /\ ~Kills("watcher") /\ ~Kills("runner") /\ ~Kills(Waiter)
  BY <1>1, <1>3, <1>4 DEF FlaggedKills, Guards
<1>6. \A k \in Callers : k \in {"watchdog", "watcher", "runner", Waiter}
  BY PipelineAssumption DEF Callers
<1> QED
  BY <1>1, <1>2, <1>3, <1>5, <1>6

LEMMA ScoredIsCleanKept ==
    ASSUME RunInv, Next
    PROVE  ScoredIsClean'
<1> SessionInv /\ WaitAtRun /\ ScoredIsClean
  BY DEF RunInv
<1>1. CASE Judge
  <2>1. run = "judging" /\ status' = Verdict /\ UNCHANGED sessionVars
    BY <1>1 DEF Judge, Step
  <2>2. UNCHANGED <<exit, ctxErr, killer, onceBy>>
    BY <2>1 DEF sessionVars, childVars, waitVars, killVars
  <2>3. ASSUME Verdict \in {"passed", "failed"}
        PROVE  exit' = "zero" /\ ctxErr' = "none" /\ \A k \in Callers : ~Kills(k)'
    BY <2>1, <2>2, <2>3, VerdictIsClean DEF Kills
  <2> QED
    BY <2>1, <2>3 DEF ScoredIsClean, Scored
<1>2. CASE ~Judge /\ Scored'
  <2>1. Scored
    BY <1>2, OnlyJudgeScores
  <2>2. wait = "done" /\ procDone
    BY <2>1 DEF WaitAtRun, SessionInv, WaitStages
  <2>3. Settled
    BY SessionMoves, Settles
  <2>4. exit' = "zero" /\ ctxErr' = "none" /\ \A k \in Callers : ~Kills(k)'
    BY <2>1, <2>2, <2>3 DEF Settled, ScoredIsClean
  <2> QED
    BY <2>4 DEF ScoredIsClean
<1>3. CASE ~Scored'
  BY <1>3 DEF ScoredIsClean
<1> QED
  BY <1>1, <1>2, <1>3

(* Validators run at their place only, and no verdict is without them.     *)
Results == {"passed", "failed", "skipped", "cancelled", "interrupted"}

LEMMA OneMoreResult ==
    ASSUME results \in Seq(Results), NEW r \in Results
    PROVE  /\ Append(results, r) \in Seq(Results) /\ Len(Append(results, r)) = Len(results) + 1
           /\ Len(results) \in Nat
           /\ (\E i \in DOMAIN Append(results, r) : Append(results, r)[i] \in {"cancelled", "interrupted"})
                 => Cut \/ r \in {"cancelled", "interrupted"}
BY DEF Cut

LEMMA MostValidateNothing ==
    ASSUME Next, SessionInv, ~StartValidator, ~ValidatorEnds
    PROVE  UNCHANGED <<running, results>>
<1>1. CASE ~RunStep
  BY <1>1, Kinds, OthersWait
<1>2. CASE Start \/ StartFails \/ Record \/ Leave \/ Drained \/ StopWatcher \/ Waited
  BY <1>2 DEF Start, StartFails, Record, Leave, Drained, StopWatcher, Waited, verdictVars
<1>3. CASE WorkFails \/ HiddenTestClash \/ DrainFails \/ RunnerKills \/ ReapAfterFailure \/ DrainError
  BY <1>3 DEF WorkFails, HiddenTestClash, Fail, DrainFails, RunnerKills, ReapAfterFailure,
              DrainError, runVars, verdictVars
<1>4. CASE \/ CaptureChanges \/ CaptureDiff \/ Recheck \/ CopyHiddenTests
           \/ Validated \/ RecheckAgain \/ ChangeCounts \/ Judge
  BY <1>4 DEF CaptureChanges, CaptureDiff, Recheck, CopyHiddenTests, Validated, RecheckAgain,
              ChangeCounts, Judge, verdictVars
<1> QED
  BY <1>1, <1>2, <1>3, <1>4 DEF RunStep

LEMMA TypesKept ==
    ASSUME RunInv, Next
    PROVE  TypeOK'
<1> SessionInv /\ TypeOK /\ ValidatorsInTurn
  BY DEF RunInv
<1>1. SessionTypeOK'
  BY SessionMoves, InvKept DEF SessionInv
<1>2. results \in Seq(Results) /\ Len(results) <= NumValidators /\ NumValidators \in Nat
  BY PipelineAssumption DEF TypeOK, Results
<1>3. results' \in Seq(Results) /\ Len(results') <= NumValidators
  <2>1. CASE UNCHANGED results
    BY <1>2, <2>1
  <2>2. CASE StartValidator \/ ValidatorEnds
    <3>1. Len(results) < NumValidators
      BY <2>2 DEF StartValidator, ValidatorEnds, ValidatorsInTurn
    <3>2. results' = results \/ \E r \in Results : results' = Append(results, r)
      BY <2>2 DEF StartValidator, ValidatorEnds, Results
    <3> QED
      BY <1>2, <3>1, <3>2, OneMoreResult
  <2> QED
    BY <2>1, <2>2, MostValidateNothing
<1>4. run' \in RunPCs
  <2>1. After \subseteq RunPCs /\ run \in RunPCs
    BY DEF After, RunPCs, TypeOK
  <2>2. UNCHANGED runVars => run' = run
    BY DEF runVars
  <2>3. Judge => run' = "counting"
    BY DEF Judge, Step
  <2> QED
    BY <2>1, <2>2, <2>3, Kinds, OthersWait, RunAdvances DEF RunPCs
<1> DEFINE Plain ==
      /\ reqCtx \in {"live", "canceled"}
      /\ guard \in [Guards -> {"unset", "armed", "checked", "flagged", "ended"}]
      /\ flag \in [Guards -> BOOLEAN]
      /\ drainDone \in BOOLEAN /\ cancelledRun \in BOOLEAN /\ running \in BOOLEAN
      /\ tree \subseteq Files /\ changed \subseteq Files /\ diff \subseteq Files
      /\ counted \subseteq Files
      /\ status \in {"none", "passed", "failed", "error", "timeout"}
      /\ recorded \in {"none", "passed", "failed", "error", "timeout"}
      /\ err \in {"none", "io", "clash"}
<1>5. Plain
  BY DEF TypeOK
<1>6. \A S : Stopped(S) \in [Guards -> {"unset", "armed", "checked", "flagged", "ended"}]
  BY <1>5 DEF Stopped
<1>7. Plain'
  <2>1. CASE Background
    BY <1>5, <2>1 DEF Background, guardVars, captureVars, verdictVars, outVars
  <2>2. CASE Edit
    BY <1>5, <2>2 DEF Edit, guardVars, captureVars, verdictVars, outVars, Files
  <2>3. ASSUME NEW g \in Guards, GuardChecks(g) \/ GuardFlags(g) PROVE Plain'
    <3>1. /\ guard' \in [Guards -> {"unset", "armed", "checked", "flagged", "ended"}]
          /\ flag' \in [Guards -> BOOLEAN]
      <4>1. CASE GuardChecks(g)
        BY <1>5, <4>1 DEF GuardChecks, Guard
      <4>2. CASE GuardFlags(g)
        BY <1>5, <4>2 DEF GuardFlags, Guard
      <4> QED
        BY <2>3, <4>1, <4>2
    <3>2. UNCHANGED <<reqCtx, drainDone, tree, captureVars, verdictVars, outVars>>
      BY <2>3 DEF GuardChecks, GuardFlags, Guard
    <3> QED
      BY <1>5, <3>1, <3>2 DEF captureVars, verdictVars, outVars
  <2>4. ASSUME NEW g \in Guards, GuardKills(g) PROVE Plain'
    BY <1>5, <2>4 DEF GuardKills, runVars, guardVars, captureVars, verdictVars, outVars
  <2>5. CASE Start \/ StartFails \/ Drained
    BY <1>5, <2>5 DEF Start, StartFails, Drained, guardVars, captureVars, verdictVars, outVars
  <2>6. CASE Record \/ Leave \/ StopWatcher
    BY <1>5, <1>6, <2>6 DEF Record, Leave, StopWatcher, guardVars, captureVars, verdictVars, outVars
  <2>7. CASE Waited
    <3>1. cancelledRun' \in BOOLEAN
      BY <1>5, <2>7 DEF Waited, WaitErr
    <3> QED
      BY <1>5, <1>6, <2>7, <3>1 DEF Waited, captureVars, outVars
  <2>8. CASE WorkFails \/ HiddenTestClash \/ DrainError
    <3>1. /\ UNCHANGED <<reqCtx, guardVars, drainDone, tree, captureVars, verdictVars, recorded>>
          /\ err' \in {"io", "clash"}
      BY <2>8 DEF WorkFails, HiddenTestClash, DrainError, Fail
    <3>2. UNCHANGED <<guard, flag, changed, diff, counted, cancelledRun, running, status>>
      BY <3>1 DEF guardVars, captureVars, verdictVars
    <3> QED
      BY <1>5, <3>1, <3>2
  <2>9. CASE DrainFails \/ RunnerKills \/ ReapAfterFailure
    <3>1. UNCHANGED <<reqCtx, guardVars, drainDone, tree, captureVars, verdictVars, outVars>>
      BY <2>9 DEF DrainFails, RunnerKills, ReapAfterFailure, runVars
    <3>2. UNCHANGED <<guard, flag, changed, diff, counted, cancelledRun, running, status,
                      recorded, err>>
      BY <3>1 DEF guardVars, captureVars, verdictVars, outVars
    <3> QED
      BY <1>5, <3>1, <3>2
  <2>10. CASE CaptureChanges \/ CaptureDiff \/ CopyHiddenTests \/ Validated \/ ChangeCounts
    <3>1. UNCHANGED <<reqCtx, guardVars, drainDone, verdictVars, outVars>>
      BY <2>10 DEF CaptureChanges, CaptureDiff, CopyHiddenTests, Validated, ChangeCounts, Step
    <3>2. /\ tree' \subseteq Files /\ changed' \subseteq Files /\ diff' \subseteq Files
          /\ counted' \subseteq Files
      BY <1>5, <2>10 DEF CaptureChanges, CaptureDiff, CopyHiddenTests, Validated, ChangeCounts, Step,
                         captureVars, Files
    <3> QED
      BY <1>5, <3>1, <3>2 DEF guardVars, verdictVars, outVars
  <2>11. CASE Recheck \/ RecheckAgain
    <3>1. cancelledRun' \in BOOLEAN
      BY <1>5, <2>11 DEF Recheck, RecheckAgain, Canceled
    <3> QED
      BY <1>5, <2>11, <3>1 DEF Recheck, RecheckAgain, Step, guardVars, captureVars, outVars
  <2>12. CASE StartValidator \/ ValidatorEnds
    <3>1. running' \in BOOLEAN
      BY <1>5, <2>12 DEF StartValidator, ValidatorEnds
    <3>2. tree' \subseteq Files
      BY <1>5, <2>12 DEF StartValidator, ValidatorEnds, Files
    <3> QED
      BY <1>5, <2>12, <3>1, <3>2 DEF StartValidator, ValidatorEnds, Step, guardVars, captureVars, outVars
  <2>13. CASE Judge
    <3>1. status' \in {"none", "passed", "failed", "error", "timeout"}
      BY <2>13 DEF Judge, Verdict
    <3> QED
      BY <1>5, <2>13, <3>1 DEF Judge, Step, guardVars, captureVars, outVars
  <2> HIDE DEF Plain
  <2> QED
    BY <2>1, <2>2, <2>3, <2>4, <2>5, <2>6, <2>7, <2>8, <2>9, <2>10, <2>11, <2>12, <2>13, Kinds DEF RunStep
<1> QED
  BY <1>1, <1>3, <1>4, <1>7 DEF TypeOK, Results

(* The ways into the last steps before the verdict, and out of validating. *)
LEMMA WaysIn ==
    ASSUME RunStep
    PROVE  /\ run' = "judging" => RecheckAgain
           /\ run' = "rechecking again" => Validated \/ Recheck
           /\ run = "validating" => StartValidator \/ ValidatorEnds \/ ~running
<1>1. CASE Start \/ StartFails \/ Record \/ Leave \/ Drained \/ StopWatcher \/ Waited
  BY <1>1 DEF Start, StartFails, Record, Leave, Drained, StopWatcher, Waited
<1>2. CASE WorkFails
  BY <1>2 DEF WorkFails, Fail
<1>3. CASE HiddenTestClash \/ DrainFails \/ ReapAfterFailure \/ DrainError
  BY <1>3 DEF HiddenTestClash, Fail, DrainFails, DrainIsLost, ReapAfterFailure, DrainError
<1>4. CASE RunnerKills
  BY <1>4 DEF RunnerKills, runVars
<1>5. CASE CaptureChanges \/ CaptureDiff \/ CopyHiddenTests \/ ChangeCounts \/ Judge
  BY <1>5 DEF CaptureChanges, CaptureDiff, CopyHiddenTests, ChangeCounts, Judge, Step
<1>6. CASE StartValidator \/ ValidatorEnds
  BY <1>6 DEF StartValidator, ValidatorEnds, Step
<1>7. CASE Validated \/ Recheck \/ RecheckAgain
  BY <1>7 DEF Validated, Recheck, RecheckAgain, Step
<1> QED
  BY <1>1, <1>2, <1>3, <1>4, <1>5, <1>6, <1>7 DEF RunStep

LEMMA ValidatorsInTurnKept ==
    ASSUME RunInv, Next
    PROVE  ValidatorsInTurn'
<1> SessionInv /\ TypeOK /\ StatusAtRun /\ ValidatorsInTurn
  BY DEF RunInv
<1>1. running' = TRUE => run' = "validating" /\ Len(results') < NumValidators
  <2>1. CASE StartValidator
    <3>1. run' = "validating" /\ (running' = FALSE \/ (Len(results) < NumValidators /\ results' = results))
      BY <2>1 DEF StartValidator, Step
    <3> QED
      BY <3>1
  <2>2. CASE ValidatorEnds
    <3>1. running' = FALSE
      BY <2>2 DEF ValidatorEnds
    <3> QED
      BY <3>1
  <2>3. CASE ~StartValidator /\ ~ValidatorEnds
    <3> SUFFICES ASSUME running' = TRUE PROVE run' = "validating" /\ Len(results') < NumValidators
      OBVIOUS
    <3>1. running' = running /\ results' = results
      BY <2>3, MostValidateNothing
    <3>2. running = TRUE /\ run = "validating" /\ Len(results) < NumValidators
      BY <3>1 DEF ValidatorsInTurn
    <3>3. ~RunStep
      BY <2>3, <3>2, WaysIn
    <3>4. run' = run
      BY <3>3, Kinds, OthersWait
    <3> QED
      BY <3>1, <3>2, <3>4
  <2> QED
    BY <2>1, <2>2, <2>3
<1>2. run' \in {"rechecking again", "judging"} => cancelledRun' = TRUE \/ Len(results') = NumValidators
  <2>1. CASE ~RunStep
    <3>1. run' = run /\ results' = results /\ cancelledRun' = cancelledRun
      BY <2>1, Kinds, OthersWait
    <3> QED
      BY <3>1 DEF ValidatorsInTurn
  <2>2. CASE Validated
    BY <2>2 DEF Validated, verdictVars
  <2>3. CASE Recheck /\ run' = "rechecking again"
    <3>1. run' = IF Canceled THEN "rechecking again" ELSE "hidden tests"
      BY <2>3 DEF Recheck, Step
    <3>2. Canceled = TRUE
      <4>1. Canceled \in BOOLEAN
        BY DEF Canceled, TypeOK
      <4> QED
        BY <2>3, <3>1, <4>1
    <3>3. cancelledRun' = Canceled
      BY <2>3 DEF Recheck
    <3> QED
      BY <3>2, <3>3
  <2>4. CASE RecheckAgain
    <3>1. run = "rechecking again" /\ results' = results
      BY <2>4 DEF RecheckAgain, Step
    <3>2. CASE cancelledRun = TRUE
      <4>1. RunStep
        BY <2>4 DEF RunStep
      <4> QED
        BY <3>1, <3>2, <4>1, RunStaysCancelled
    <3>3. CASE Len(results) = NumValidators
      BY <3>1, <3>3
    <3> QED
      BY <3>1, <3>2, <3>3 DEF ValidatorsInTurn
  <2> QED
    BY <2>1, <2>2, <2>3, <2>4, WaysIn
<1>3. Scored' => Len(results') = NumValidators
  <2>1. CASE Judge
    <3>1. run = "judging" /\ status' = Verdict /\ results' = results
      BY <2>1 DEF Judge, Step
    <3>2. ASSUME Verdict \in {"passed", "failed"} PROVE Len(results) = NumValidators
      BY <3>1, <3>2, VerdictIsClean DEF ValidatorsInTurn
    <3> QED
      BY <3>1, <3>2 DEF Scored
  <2>2. CASE ~Judge /\ Scored'
    <3>1. Scored /\ run \notin {"validating"}
      BY <2>2, OnlyJudgeScores DEF StatusAtRun, Scored
    <3>2. ~StartValidator /\ ~ValidatorEnds
      BY <3>1 DEF StartValidator, ValidatorEnds, Step
    <3>3. results' = results
      BY <3>2, MostValidateNothing
    <3> QED
      BY <3>1, <3>3 DEF ValidatorsInTurn
  <2> QED
    BY <2>1, <2>2
<1> QED
  BY <1>1, <1>2, <1>3 DEF ValidatorsInTurn

LEMMA CutShortKept ==
    ASSUME RunInv, Next
    PROVE  CutShort'
<1> SessionInv /\ TypeOK /\ StatusAtRun /\ CutShort
  BY DEF RunInv
<1>0. results \in Seq(Results)
  BY DEF TypeOK, Results
<1>1. reqCtx = "canceled" => reqCtx' = "canceled"
  <2>1. CASE RunStep
    <3>1. CASE Start \/ StartFails \/ Record \/ Leave \/ Drained \/ StopWatcher \/ Waited
      BY <3>1 DEF Start, StartFails, Record, Leave, Drained, StopWatcher, Waited
    <3>2. CASE WorkFails \/ HiddenTestClash \/ DrainFails \/ RunnerKills \/ ReapAfterFailure \/ DrainError
      BY <3>2 DEF WorkFails, HiddenTestClash, Fail, DrainFails, RunnerKills, ReapAfterFailure,
                  DrainError, runVars
    <3>3. CASE \/ CaptureChanges \/ CaptureDiff \/ Recheck \/ CopyHiddenTests \/ StartValidator
               \/ ValidatorEnds \/ Validated \/ RecheckAgain \/ ChangeCounts \/ Judge
      BY <3>3 DEF CaptureChanges, CaptureDiff, Recheck, CopyHiddenTests, StartValidator,
              ValidatorEnds, Validated, RecheckAgain, ChangeCounts, Judge, Step
    <3> QED
      BY <2>1, <3>1, <3>2, <3>3 DEF RunStep
  <2>2. CASE ~RunStep
    BY <2>2, Kinds, OthersWait
  <2> QED
    BY <2>1, <2>2
<1>2. Cut' => Cut \/ (reqCtx = "canceled" /\ run = "validating" /\ run' = "validating")
  <2>1. CASE ~StartValidator /\ ~ValidatorEnds
    <3>1. results' = results
      BY <2>1, MostValidateNothing
    <3> QED
      BY <3>1 DEF Cut
  <2>2. CASE StartValidator
    <3>1. run = "validating" /\ run' = "validating"
      BY <2>2 DEF StartValidator, Step
    <3>2. \/ results' = results
          \/ results' = Append(results, "skipped")
          \/ results' = Append(results, "cancelled") /\ reqCtx = "canceled"
      BY <2>2 DEF StartValidator
    <3>3. "skipped" \in Results /\ "cancelled" \in Results
      BY DEF Results
    <3>4. results' = results => (Cut' => Cut)
      BY DEF Cut
    <3>5. results' = Append(results, "skipped") => (Cut' => Cut)
      BY <1>0, <3>3, OneMoreResult DEF Cut
    <3> QED
      BY <3>1, <3>2, <3>4, <3>5
  <2>3. CASE ValidatorEnds
    <3>1. run = "validating" /\ run' = "validating"
      BY <2>3 DEF ValidatorEnds, Step
    <3>2. \E r \in {"passed", "failed"} : results' = Append(results, r) \/ reqCtx = "canceled"
      BY <2>3 DEF ValidatorEnds
    <3>3. ASSUME NEW r \in {"passed", "failed"}, results' = Append(results, r)
          PROVE  Cut' => Cut
      <4>1. r \in Results /\ r \notin {"cancelled", "interrupted"}
        BY <3>3 DEF Results
      <4> QED
        BY <1>0, <3>3, <4>1, OneMoreResult DEF Cut
    <3> QED
      BY <3>1, <3>2, <3>3
  <2> QED
    BY <2>1, <2>2, <2>3
<1>3. Cut' => reqCtx' = "canceled"
  BY <1>1, <1>2 DEF CutShort
<1>4. run' = "judging" /\ Cut' => cancelledRun' = TRUE
  <2> SUFFICES ASSUME run' = "judging", Cut' PROVE cancelledRun' = TRUE
    OBVIOUS
  <2>1. Cut /\ reqCtx = "canceled"
    BY <1>2 DEF CutShort
  <2>2. CASE RunStep
    <3>1. cancelledRun' = Canceled
      BY <2>2, WaysIn DEF RecheckAgain
    <3>2. Canceled = TRUE
      BY <2>1 DEF Canceled
    <3> QED
      BY <3>1, <3>2
  <2>3. CASE ~RunStep
    <3>1. run' = run /\ cancelledRun' = cancelledRun
      BY <2>3, Kinds, OthersWait
    <3> QED
      BY <2>1, <3>1 DEF CutShort
  <2> QED
    BY <2>2, <2>3
<1>5. Scored' => ~Cut'
  <2>1. CASE Judge
    <3>1. run = "judging" /\ status' = Verdict /\ results' = results
      BY <2>1 DEF Judge, Step
    <3>2. ASSUME Verdict \in {"passed", "failed"} PROVE ~Cut
      BY <3>1, <3>2, VerdictIsClean DEF CutShort
    <3>3. Cut' => Cut
      BY <3>1 DEF Cut
    <3> QED
      BY <3>1, <3>2, <3>3 DEF Scored
  <2>2. CASE ~Judge /\ Scored'
    <3>1. Scored /\ run # "validating"
      BY <2>2, OnlyJudgeScores DEF StatusAtRun, Scored
    <3> QED
      BY <1>2, <3>1 DEF CutShort
  <2> QED
    BY <2>1, <2>2
<1> QED
  BY <1>3, <1>4, <1>5 DEF CutShort

(* Nothing changes when nothing happens.                                   *)
LEMMA RunRests ==
    ASSUME RunInv, UNCHANGED pipelineVars
    PROVE  RunInv'
<1>1. SessionInv'
  BY InvKept DEF RunInv, pipelineVars
<1>2. UNCHANGED <<sessionVars, runVars>>
  BY DEF pipelineVars
<1>3. UNCHANGED <<run, reqCtx, guard, flag, results, status, tree, changed, diff, counted, recorded, err>>
  BY <1>2 DEF runVars, guardVars, verdictVars, captureVars, outVars
<1>4. cancelledRun' = cancelledRun /\ running' = running /\ drainDone' = drainDone
  BY <1>2 DEF runVars, verdictVars
<1>5. UNCHANGED <<wait, ctxErr, consumer, received, written, exit, killer, onceBy>>
  BY <1>2 DEF sessionVars, waitVars, consVars, childVars, killVars
<1>6. TypeOK'
  BY <1>1, <1>3, <1>4 DEF RunInv, TypeOK, SessionInv
<1>7. WaitAtRun' /\ SessionAtRun' /\ StatusAtRun' /\ ReadInFull'
  BY <1>3, <1>5 DEF RunInv, WaitAtRun, SessionAtRun, HasSession, StatusAtRun, ReadInFull, Scored, Received
<1>8. \A k : Kills(k)' <=> Kills(k)
  BY <1>5 DEF Kills
<1>9. FlaggedKills' /\ ScoredIsClean'
  BY <1>3, <1>4, <1>5, <1>8 DEF RunInv, FlaggedKills, ScoredIsClean, Scored
<1>10. ValidatorsInTurn'
  BY <1>3, <1>4 DEF RunInv, ValidatorsInTurn, Scored
<1>11. CutShort'
  BY <1>3, <1>4 DEF RunInv, CutShort, Scored, Cut
<1> QED
  BY <1>1, <1>6, <1>7, <1>9, <1>10, <1>11 DEF RunInv

LEMMA RunInvHolds == Spec => []RunInv
<1>1. RunInv /\ [Next]_pipelineVars => RunInv'
  <2> SUFFICES ASSUME RunInv, [Next]_pipelineVars PROVE RunInv'
    OBVIOUS
  <2>1. CASE Next
    <3>1. SessionInv'
      BY <2>1, SessionMoves, InvKept DEF RunInv
    <3> QED
      BY <2>1, <3>1, TypesKept, WaitAtRunKept, SessionAtRunKept, ReadInFullKept, FlaggedKillsKept, ScoredIsCleanKept,
         ValidatorsInTurnKept, CutShortKept DEF RunInv
  <2> QED
    BY <2>1, RunRests
<1> QED
  BY <1>1, InitRun, PTL DEF Spec

(***************************************************************************)
(* The theorems                                                            *)
(***************************************************************************)

(* Every variable of a run keeps its type.                                 *)
THEOREM RunTypeCorrect == Spec => []TypeOK
BY RunInvHolds, PTL DEF RunInv

(* A run that the watchdog, the watcher, Wait or Run itself killed is      *)
(* never scored, even when the process answers SIGTERM with a clean exit:  *)
(* whoever kills has said so where the verdict looks.                      *)
THEOREM KilledIsNeverScored == Spec => []KilledNeverScored
<1>1. RunInv => KilledNeverScored
  <2> SUFFICES ASSUME RunInv, onceBy # "nobody" PROVE status \in {"none", "timeout", "error"}
    BY DEF KilledNeverScored
  <2>1. onceBy \in Callers /\ status \in {"none", "passed", "failed", "error", "timeout"}
    BY DEF RunInv, TypeOK, SessionTypeOK
  <2>2. Kills(onceBy)
    BY DEF Kills
  <2>3. ~Scored
    BY <2>1, <2>2 DEF RunInv, ScoredIsClean
  <2> QED
    BY <2>1, <2>3 DEF Scored
<1> QED
  BY <1>1, RunInvHolds, PTL

(* A run whose validators were cut short by cancellation is not scored.    *)
THEOREM InterruptedIsNotScored == Spec => []InterruptedNotScored
<1>1. RunInv => InterruptedNotScored
  BY DEF RunInv, CutShort, Cut, Scored, InterruptedNotScored
<1> QED
  BY <1>1, RunInvHolds, PTL

(* A scored run ended cleanly, was read in full and was fully validated.   *)
THEOREM ScoredIsWhole == Spec => []ScoredRunIsWhole
<1>1. RunInv => ScoredRunIsWhole
  BY DEF RunInv, ScoredIsClean, ReadInFull, ValidatorsInTurn, Scored, ScoredRunIsWhole
<1> QED
  BY <1>1, RunInvHolds, PTL

(* However Run ends a session that was started (scored, timed out,         *)
(* cancelled, with an error of the drain or of a later step), the process  *)
(* has ended and been reaped and the tailer has ended.                     *)
THEOREM NothingIsLeftBehind == Spec => []NoOrphan
<1>1. RunInv => NoOrphan
  <2> SUFFICES ASSUME RunInv, run = "returned", HasSession
               PROVE  procDone /\ Child \notin alive /\ tail = "done"
    BY DEF NoOrphan
  <2>1. wait = "done"
    BY DEF RunInv, SessionAtRun
  <2>2. procDone /\ tail = "done"
    BY <2>1 DEF RunInv, SessionInv, WaitStages
  <2>3. Child \notin alive
    BY <2>2 DEF RunInv, SessionInv, Exited
  <2> QED
    BY <2>2, <2>3
<1> QED
  BY <1>1, RunInvHolds, PTL

(***************************************************************************)
(* The change set, when the agent leaves no helper behind                  *)
(***************************************************************************)
Agents == {"edit", "own test"}
Before == {"starting", "draining", "giving up", "reaping", "drained", "waiting",
           "capturing", "diffing", "rechecking", "hidden tests"}
Captured == After \ {"capturing", "diffing"}

ChangeInv ==
    /\ run \in Before => tree \subseteq Agents
    /\ run = "diffing" => changed = tree
    /\ run \in Captured => changed = diff /\ changed = tree \cap Agents

LEMMA NobodyEditsAfter ==
    ASSUME Helpers = {}, RunInv, Edit
    PROVE  run \notin After
<1> SUFFICES ASSUME run \in After PROVE FALSE
  OBVIOUS
<1>1. wait = "done"
  BY DEF RunInv, WaitAtRun
<1>2. procDone /\ Child \notin alive
  BY <1>1 DEF RunInv, SessionInv, WaitStages, Exited
<1>3. alive \subseteq {Child}
  BY DEF RunInv, SessionInv, SessionTypeOK, Members
<1> QED
  BY <1>2, <1>3 DEF Edit

LEMMA ChangeInvKept ==
    ASSUME Helpers = {}, RunInv, ChangeInv, [Next]_pipelineVars
    PROVE  ChangeInv'
<1> SessionInv
  BY DEF RunInv
<1>1. ASSUME UNCHANGED <<run, tree, changed, diff>> PROVE ChangeInv'
  BY <1>1 DEF ChangeInv
<1>2. CASE Background
  BY <1>1, <1>2 DEF Background, captureVars
<1>3. CASE Edit
  <2>1. run' = run /\ run \notin After /\ \E f \in Agents : tree' = tree \cup {f}
    BY <1>3, NobodyEditsAfter DEF Edit, Agents
  <2> QED
    BY <2>1 DEF ChangeInv, Captured, After
<1>4. ASSUME NEW g \in Guards, GuardChecks(g) \/ GuardFlags(g) \/ GuardKills(g) PROVE ChangeInv'
  BY <1>1, <1>4 DEF GuardChecks, GuardFlags, Guard, GuardKills, runVars, captureVars
<1>5. CASE Start \/ StartFails \/ Drained \/ StopWatcher \/ Waited \/ Record
  <2>1. /\ UNCHANGED tree
        /\ run \in Before => run' \in Before \/ run' = "recording"
        /\ run' \notin Captured \cup {"diffing"}
        /\ run' \in Before => run \in Before
    BY <1>5 DEF Start, StartFails, Drained, StopWatcher, Waited, Record, Before, Captured, After
  <2> QED
    BY <2>1 DEF ChangeInv
<1>6. CASE WorkFails \/ HiddenTestClash \/ DrainError \/ Leave
  <2>1. run' \in {"leaving", "returned"}
    BY <1>6 DEF WorkFails, HiddenTestClash, DrainError, Leave, Fail
  <2> QED
    BY <2>1 DEF ChangeInv, Before, Captured, After
<1>7. CASE DrainFails \/ ReapAfterFailure
  <2>1. run \in Before /\ run' \in {"giving up", "reaping"} /\ UNCHANGED tree
    BY <1>7 DEF DrainFails, DrainIsLost, ReapAfterFailure, Before
  <2> QED
    BY <2>1 DEF ChangeInv, Before, Captured, After
<1>8. CASE RunnerKills
  BY <1>1, <1>8 DEF RunnerKills, runVars, captureVars
<1>9. CASE CaptureChanges
  BY <1>9 DEF CaptureChanges, Step, ChangeInv, Before, Captured, After
<1>10. CASE CaptureDiff
  <2>1. tree \subseteq Agents /\ changed = tree
    BY <1>10 DEF CaptureDiff, Step, ChangeInv, Before
  <2> QED
    BY <1>10, <2>1 DEF CaptureDiff, Step, ChangeInv, Before, Captured, After
<1>11. CASE Recheck \/ Validated \/ RecheckAgain \/ Judge
  <2>1. /\ run \in Captured /\ run' \in Captured /\ UNCHANGED <<tree, changed, diff>>
        /\ run' \in Before => run \in Before
    BY <1>11 DEF Recheck, Validated, RecheckAgain, Judge, Step, Captured, After, Before, captureVars
  <2> QED
    BY <2>1 DEF ChangeInv, Captured
<1>12. CASE CopyHiddenTests \/ StartValidator \/ ValidatorEnds
  <2>1. /\ run \in Captured /\ run' = "validating" /\ UNCHANGED <<changed, diff>>
        /\ tree' \in {tree, tree \cup {"hidden test"}, tree \cup {"validator file"}}
    BY <1>12 DEF CopyHiddenTests, StartValidator, ValidatorEnds, Step, Captured, After, captureVars
  <2>2. tree' \cap Agents = tree \cap Agents
    BY <2>1 DEF Agents
  <2> QED
    BY <2>1, <2>2 DEF ChangeInv, Before
<1>13. CASE ChangeCounts
  BY <1>13 DEF ChangeCounts, Step, ChangeInv, Before, Captured, After
<1>14. CASE UNCHANGED pipelineVars
  BY <1>1, <1>14 DEF pipelineVars, runVars, captureVars
<1> QED
  BY <1>2, <1>3, <1>4, <1>5, <1>6, <1>7, <1>8, <1>9, <1>10, <1>11, <1>12, <1>13, <1>14, Kinds DEF RunStep

(* With no process of the agent left in the worktree, the change set and   *)
(* the diff agree, miss none of the agent's edits and blame it for no file *)
(* of the hidden tests or the validators.  (A helper that outlives the     *)
(* agent can write between the two captures.)                              *)
THEOREM ChangeSetOfTheAgent ==
    ASSUME Helpers = {}
    PROVE  Spec => []ChangeSetIsTheAgents
<1>1. Init => ChangeInv
  BY DEF Init, ChangeInv, Captured, After
<1>2. RunInv /\ ChangeInv /\ [Next]_pipelineVars => ChangeInv'
  BY ChangeInvKept
<1>3. ChangeInv => ChangeSetIsTheAgents
  BY DEF ChangeInv, ChangeSetIsTheAgents, Captured, After, Agents
<1> QED
  BY <1>1, <1>2, <1>3, RunInvHolds, PTL DEF Spec

(***************************************************************************)
(* The outcome, when the runner's own work does not fail                   *)
(***************************************************************************)
OutcomeInv ==
    /\ "own test" \notin tree
    /\ run \notin {"giving up", "reaping"}
    /\ run \in {"counting", "recording", "leaving", "returned"} => status # "none"
    /\ run \in {"leaving", "returned"} => recorded = status

LEMMA OutcomeInvKept ==
    ASSUME "io" \notin Faults, "clash" \notin Faults, RunInv, OutcomeInv, [Next]_pipelineVars
    PROVE  OutcomeInv'
<1> SessionInv
  BY DEF RunInv
<1>1. ASSUME UNCHANGED <<run, status, recorded>>, "own test" \notin tree' PROVE OutcomeInv'
  BY <1>1 DEF OutcomeInv
<1>2. CASE Background
  BY <1>1, <1>2 DEF Background, verdictVars, outVars, OutcomeInv
<1>3. CASE Edit
  <2>1. tree' = tree \cup {"edit"}
    BY <1>3 DEF Edit
  <2> QED
    BY <1>1, <1>3, <2>1 DEF Edit, verdictVars, outVars, OutcomeInv
<1>4. ASSUME NEW g \in Guards, GuardChecks(g) \/ GuardFlags(g) \/ GuardKills(g) PROVE OutcomeInv'
  BY <1>1, <1>4 DEF GuardChecks, GuardFlags, Guard, GuardKills, runVars, verdictVars, outVars, OutcomeInv
<1>5. CASE Start \/ StartFails \/ Drained \/ StopWatcher \/ Waited
  <2>1. /\ tree' = tree
        /\ run' \in {"draining", "drained", "waiting", "capturing"} \/ (run' = "recording" /\ status' = "error")
    BY <1>5 DEF Start, StartFails, Drained, StopWatcher, Waited
  <2> QED
    BY <2>1 DEF OutcomeInv
<1>6. ~(WorkFails \/ HiddenTestClash \/ DrainError \/ DrainFails \/ ReapAfterFailure \/ RunnerKills)
  BY DEF WorkFails, HiddenTestClash, DrainError, DrainFails, DrainIsLost, ReapAfterFailure, RunnerKills, Fail, OutcomeInv
<1>7. CASE Record
  BY <1>7 DEF Record, OutcomeInv, verdictVars
<1>8. CASE Leave
  BY <1>8 DEF Leave, OutcomeInv, verdictVars, outVars
<1>9. CASE ChangeCounts
  BY <1>9 DEF ChangeCounts, Step, OutcomeInv, verdictVars, outVars
<1>10. CASE Judge
  <2>1. run' = "counting" /\ status' # "none" /\ tree' = tree
    BY <1>10 DEF Judge, Step, Verdict
  <2> QED
    BY <2>1 DEF OutcomeInv
<1>11. CASE \/ CaptureChanges \/ CaptureDiff \/ Recheck \/ CopyHiddenTests \/ StartValidator
            \/ ValidatorEnds \/ Validated \/ RecheckAgain
  <2>1. /\ run' \in After \ {"counting"}
        /\ tree' \in {tree, tree \cup {"hidden test"}, tree \cup {"validator file"}}
    BY <1>11 DEF CaptureChanges, CaptureDiff, Recheck, CopyHiddenTests, StartValidator,
              ValidatorEnds, Validated, RecheckAgain, Step, After
  <2> QED
    BY <2>1 DEF OutcomeInv, After
<1>12. CASE UNCHANGED pipelineVars
  BY <1>1, <1>12 DEF pipelineVars, runVars, verdictVars, outVars, OutcomeInv
<1> QED
  BY <1>2, <1>3, <1>4, <1>5, <1>6, <1>7, <1>8, <1>9, <1>10, <1>11, <1>12, Kinds DEF RunStep

(* A run whose own work does not fail is recorded with its verdict when it *)
(* returns, cancelled or timed out as it may be.                           *)
THEOREM OutcomeIsRecorded ==
    ASSUME "io" \notin Faults, "clash" \notin Faults
    PROVE  Spec => []OutcomeRecorded
<1>1. Init => OutcomeInv
  BY DEF Init, OutcomeInv
<1>2. RunInv /\ OutcomeInv /\ [Next]_pipelineVars => OutcomeInv'
  BY OutcomeInvKept
<1>3. OutcomeInv => OutcomeRecorded
  BY DEF OutcomeInv, OutcomeRecorded
<1> QED
  BY <1>1, <1>2, <1>3, RunInvHolds, PTL DEF Spec
===============================================================================
