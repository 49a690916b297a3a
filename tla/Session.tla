------------------------------ MODULE Session ------------------------------
(***************************************************************************)
(* One streaming `opencode run` (internal/opencode, type Session): a child *)
(* process in a process group of its own that writes JSONL lines to a      *)
(* regular file, the goroutine that reaps it, the tailer that copies the   *)
(* file to the Events channel, Kill with its grace period, and Wait.       *)
(*                                                                         *)
(* A line is two bytes (a body and a newline), so that the file can end in *)
(* a line without its newline.  Time is abstract: a deadline, a poll tick  *)
(* and the five seconds of grace may elapse at any moment.                 *)
(***************************************************************************)
EXTENDS Integers, Sequences, FiniteSets

CONSTANTS
    Helpers,        \* other processes of the child's group (MCP servers...)
    Killers,        \* goroutines that may call Kill, besides Wait
    MaxLines,       \* bound: lines the child writes
    EventBuffer,    \* capacity of Events (eventBuffer, 256 in the code)
    Faults          \* what may happen, a subset of AllFaults

(* Faults of the session's client: "io": a write, a git command or the     *)
(* store fails; "clash": the agent writes a file with the name of a hidden *)
(* test; "missing": this machine lacks what the task's validators require. *)
AllFaults == {"io", "clash", "missing"}

Child == "child"
Waiter == "wait"

ASSUME SessionAssumption ==
    /\ MaxLines \in Nat /\ EventBuffer \in Nat \ {0}
    /\ Faults \subseteq AllFaults
    /\ Child \notin Helpers /\ Waiter \notin Killers

Members == Helpers \cup {Child}
Callers == Killers \cup {Waiter}

VARIABLES
    alive,      \* members of the process group that have not exited
    stubborn,   \* members that ignore SIGTERM
    doomed,     \* members that have been told to terminate and will
    exit,       \* how the child ended
    reaped,     \* cmd.Wait has returned: the kernel has freed the child's pid
    procDone,   \* channel procDone is closed
    written,    \* bytes in the stdout file
    tail,       \* where the tailer is
    offset,     \* bytes the tailer has read
    sent,       \* lines the tailer has emitted
    chan,       \* buffered lines of Events
    closed,     \* Events is closed
    received,   \* lines the consumer has taken from Events
    consumer,   \* "draining", "abandoned", or "finished" (it saw the close)
    discard,    \* channel discard is closed
    killer,     \* where each caller of Kill is
    onceBy,     \* the caller that runs killOnce, or "nobody"
    grace,      \* the goroutine that escalates to SIGKILL
    ctx,        \* the session context
    wait,       \* where Wait is
    ctxErr,     \* Session.ctxErr
    hit         \* history: a signal has found the child alive

childVars == <<alive, stubborn, doomed, exit, written>>
reapVars == <<reaped, procDone>>
tailVars == <<tail, offset, sent, chan, closed>>
consVars == <<received, consumer>>
killVars == <<killer, onceBy, grace, hit>>
waitVars == <<wait, ctxErr, discard>>
sessionVars ==
    <<childVars, reapVars, tailVars, consVars, killVars, waitVars, ctx>>

ExitKinds == {"none", "zero", "nonzero", "signal"}
TailPCs == {"read", "emit", "check", "last read", "last emit", "close",
            "closed", "done"}
KillPCs == {"idle", "once", "started", "done"}
WaitPCs == {"idle", "select", "kill", "reap", "discard", "join tail",
            "join kill", "done"}

SessionInit ==
    /\ alive \in {S \in SUBSET Members : Child \in S}
    /\ stubborn \in SUBSET Members
    /\ doomed = {}
    /\ exit = "none"
    /\ reaped = FALSE /\ procDone = FALSE
    /\ written = 0 /\ offset = 0 /\ sent = 0
    /\ tail = "read"
    /\ chan = <<>> /\ closed = FALSE
    /\ received = <<>> /\ consumer = "draining"
    /\ discard = FALSE
    /\ killer = [k \in Callers |-> "idle"]
    /\ onceBy = "nobody" /\ grace = "none" /\ hit = FALSE
    /\ ctx = "live"
    /\ wait = "idle" /\ ctxErr = "none"

(***************************************************************************)
(* The process group                                                       *)
(***************************************************************************)

(* The child appends to its stdout file.                                   *)
Write ==
    /\ Child \in alive
    /\ written < 2 * MaxLines
    /\ written' = written + 1
    /\ UNCHANGED <<alive, stubborn, doomed, exit, reapVars, tailVars,
                   consVars, killVars, waitVars, ctx>>

(* A member ends: by itself, or because it was told to, which a program    *)
(* may answer with any exit code.                                          *)
Exits(m) ==
    /\ m \in alive
    /\ alive' = alive \ {m}
    /\ IF m = Child
       THEN exit' \in {"zero", "nonzero"} \cup
                      (IF Child \in doomed THEN {"signal"} ELSE {})
       ELSE exit' = exit
    /\ UNCHANGED <<stubborn, doomed, written, reapVars, tailVars, consVars,
                   killVars, waitVars, ctx>>

(* reap: cmd.Wait returns, and only then is procDone closed.               *)
Reap ==
    /\ Child \notin alive /\ ~reaped
    /\ reaped' = TRUE
    /\ UNCHANGED <<childVars, procDone, tailVars, consVars, killVars,
                   waitVars, ctx>>

CloseProcDone ==
    /\ reaped /\ ~procDone
    /\ procDone' = TRUE
    /\ UNCHANGED <<childVars, reaped, tailVars, consVars, killVars, waitVars,
                   ctx>>

(* signalProcessGroup: every member that is left gets the signal; a group  *)
(* without members is no error.                                            *)
Signal(sig) ==
    /\ hit' = (hit \/ Child \in alive)
    /\ IF sig = "KILL"
       THEN /\ alive' = {} /\ doomed' = doomed
            /\ exit' = IF Child \in alive THEN "signal" ELSE exit
       ELSE /\ doomed' = doomed \cup (alive \ stubborn)
            /\ UNCHANGED <<alive, exit>>
    /\ UNCHANGED <<stubborn, written>>

(***************************************************************************)
(* The tailer                                                              *)
(***************************************************************************)

Lines(bytes) == bytes \div 2

(* Mutant: a queue without a capacity.                                     *)
Emit_Unbounded == sent' = sent + 1 /\ chan' = Append(chan, sent + 1)

(* Mutant: a line that finds the channel full is dropped.                  *)
Emit_DropsWhenFull ==
    /\ sent' = sent + 1
    /\ chan' = IF Len(chan) < EventBuffer THEN Append(chan, sent + 1) ELSE chan

(* emit: hand the line over, or drop it once Wait has closed discard; with *)
(* both possible, select takes either.                                     *)
Emit ==
    /\ sent' = sent + 1
    /\ \/ Len(chan) < EventBuffer /\ chan' = Append(chan, sent + 1)
       \/ discard /\ chan' = chan

Read(from, to) ==
    /\ tail = from /\ tail' = to
    /\ offset' = written
    /\ UNCHANGED <<sent, chan, closed, childVars, reapVars, consVars,
                   killVars, waitVars, ctx>>

TailRead == Read("read", "emit")

TailEmit ==
    /\ tail \in {"emit", "last emit"}
    /\ sent < Lines(offset)
    /\ Emit
    /\ UNCHANGED <<tail, offset, closed, childVars, reapVars, consVars,
                   killVars, waitVars, ctx>>

TailEmitted ==
    /\ tail = "emit" /\ sent = Lines(offset)
    /\ tail' = "check"
    /\ UNCHANGED <<offset, sent, chan, closed, childVars, reapVars, consVars,
                   killVars, waitVars, ctx>>

(* Mutant: no read after the exit has been seen.                           *)
TailCheck_NoLastRead ==
    /\ tail = "check"
    /\ tail' = IF procDone THEN "last emit" ELSE "read"
    /\ UNCHANGED <<offset, sent, chan, closed, childVars, reapVars, consVars,
                   killVars, waitVars, ctx>>

TailCheck ==
    /\ tail = "check"
    /\ tail' = IF procDone THEN "last read" ELSE "read"
    /\ UNCHANGED <<offset, sent, chan, closed, childVars, reapVars, consVars,
                   killVars, waitVars, ctx>>

TailLastRead == Read("last read", "last emit")

(* Mutant: an unterminated last line is left in the buffer.                *)
TailLastEmit_CompleteOnly ==
    /\ tail = "last emit" /\ sent = Lines(offset)
    /\ tail' = "close"
    /\ UNCHANGED <<offset, sent, chan, closed, childVars, reapVars, consVars,
                   killVars, waitVars, ctx>>

(* A final line that lacks its newline is emitted too.                     *)
TailLastEmit ==
    /\ tail = "last emit" /\ sent = Lines(offset)
    /\ tail' = "close"
    /\ IF offset % 2 = 1 THEN Emit ELSE UNCHANGED <<sent, chan>>
    /\ UNCHANGED <<offset, closed, childVars, reapVars, consVars, killVars,
                   waitVars, ctx>>

(* The deferred closes, in LIFO order: Events, then tailDone.              *)
TailClose ==
    /\ \/ tail = "close" /\ tail' = "closed" /\ closed' = TRUE
       \/ tail = "closed" /\ tail' = "done" /\ closed' = closed
    /\ UNCHANGED <<offset, sent, chan, childVars, reapVars, consVars,
                   killVars, waitVars, ctx>>

Tailer ==
    \/ TailRead \/ TailEmit \/ TailEmitted \/ TailCheck \/ TailLastRead
    \/ TailLastEmit \/ TailClose

(***************************************************************************)
(* The consumer of Events                                                  *)
(***************************************************************************)

Receive ==
    /\ consumer = "draining" /\ chan # <<>>
    /\ received' = Append(received, Head(chan))
    /\ chan' = Tail(chan)
    /\ UNCHANGED <<consumer, tail, offset, sent, closed, childVars, reapVars,
                   killVars, waitVars, ctx>>

SeeClose ==
    /\ consumer = "draining" /\ chan = <<>> /\ closed
    /\ consumer' = "finished"
    /\ UNCHANGED <<received, childVars, reapVars, tailVars, killVars,
                   waitVars, ctx>>

(* The consumer fails (it cannot write a line) and never looks again.      *)
Abandon ==
    /\ consumer = "draining"
    /\ consumer' = "abandoned"
    /\ UNCHANGED <<received, childVars, reapVars, tailVars, killVars,
                   waitVars, ctx>>

(***************************************************************************)
(* Kill                                                                    *)
(***************************************************************************)

(* The guard at the top of Kill.                                           *)
KillEnter(k) ==
    /\ killer[k] = "idle"
    /\ killer' = [killer EXCEPT ![k] = IF procDone THEN "done" ELSE "once"]
    /\ UNCHANGED <<onceBy, grace, hit, childVars, reapVars, tailVars,
                   consVars, waitVars, ctx>>

(* killOnce.Do: the first caller sends SIGTERM ...                         *)
KillTerminate(k) ==
    /\ killer[k] = "once" /\ onceBy = "nobody"
    /\ onceBy' = k
    /\ Signal("TERM")
    /\ killer' = [killer EXCEPT ![k] = "started"]
    /\ UNCHANGED <<grace, reapVars, tailVars, consVars, waitVars, ctx>>

(* ... then publishes killDone and starts the grace goroutine; ...         *)
KillStartGrace(k) ==
    /\ killer[k] = "started"
    /\ grace' = "waiting"
    /\ killer' = [killer EXCEPT ![k] = "done"]
    /\ UNCHANGED <<onceBy, hit, childVars, reapVars, tailVars, consVars,
                   waitVars, ctx>>

(* ... the others wait for it and return.                                  *)
KillAgain(k) ==
    /\ killer[k] = "once" /\ grace # "none"
    /\ killer' = [killer EXCEPT ![k] = "done"]
    /\ UNCHANGED <<onceBy, grace, hit, childVars, reapVars, tailVars,
                   consVars, waitVars, ctx>>

KillSteps(k) == KillTerminate(k) \/ KillStartGrace(k) \/ KillAgain(k)

(* The grace goroutine: whichever comes first, and either when both have.  *)
GraceOver ==
    /\ grace = "waiting" /\ procDone
    /\ grace' = "done"
    /\ UNCHANGED <<killer, onceBy, hit, childVars, reapVars, tailVars,
                   consVars, waitVars, ctx>>

(* Mutant: the escalation sends SIGTERM again.                             *)
GraceKill_TermAgain ==
    /\ grace = "waiting"
    /\ Signal("TERM")
    /\ grace' = "done"
    /\ UNCHANGED <<killer, onceBy, reapVars, tailVars, consVars, waitVars, ctx>>

GraceKill ==
    /\ grace = "waiting"
    /\ Signal("KILL")
    /\ grace' = "done"
    /\ UNCHANGED <<killer, onceBy, reapVars, tailVars, consVars, waitVars, ctx>>

(***************************************************************************)
(* Wait                                                                    *)
(***************************************************************************)

WaitStart ==
    /\ wait = "idle" /\ wait' = "select"
    /\ UNCHANGED <<ctxErr, discard, childVars, reapVars, tailVars, consVars,
                   killVars, ctx>>

(* select on procDone and ctx.Done; either when both are ready.            *)
WaitExited ==
    /\ wait = "select" /\ procDone
    /\ wait' = "discard"
    /\ UNCHANGED <<ctxErr, discard, childVars, reapVars, tailVars, consVars,
                   killVars, ctx>>

WaitCtxDone ==
    /\ wait = "select" /\ ctx # "live"
    /\ ctxErr' = ctx
    /\ wait' = "kill"
    /\ killer[Waiter] = "idle"
    /\ killer' = [killer EXCEPT ![Waiter] = IF procDone THEN "done" ELSE "once"]
    /\ UNCHANGED <<onceBy, grace, hit, discard, childVars, reapVars,
                   tailVars, consVars, ctx>>

(* Mutant: after Kill, Wait does not wait for the process to be reaped.    *)
WaitReaped_AtOnce ==
    /\ wait = "kill" /\ killer[Waiter] = "done"
    /\ wait' = "done"
    /\ UNCHANGED <<ctxErr, discard, childVars, reapVars, tailVars, consVars,
                   killVars, ctx>>

WaitReaped ==
    /\ wait = "kill" /\ killer[Waiter] = "done" /\ procDone
    /\ wait' = "discard"
    /\ UNCHANGED <<ctxErr, discard, childVars, reapVars, tailVars, consVars,
                   killVars, ctx>>

(* Mutant: discard stays open.                                             *)
WaitDiscard_Open ==
    /\ wait = "discard" /\ wait' = "join tail"
    /\ UNCHANGED <<ctxErr, discard, childVars, reapVars, tailVars, consVars,
                   killVars, ctx>>

WaitDiscard ==
    /\ wait = "discard" /\ wait' = "join tail"
    /\ discard' = TRUE
    /\ UNCHANGED <<ctxErr, childVars, reapVars, tailVars, consVars, killVars,
                   ctx>>

WaitJoinTail ==
    /\ wait = "join tail" /\ tail = "done"
    /\ wait' = "join kill"
    /\ UNCHANGED <<ctxErr, discard, childVars, reapVars, tailVars, consVars,
                   killVars, ctx>>

(* joinKill: nothing to join when Kill has not published killDone (yet).   *)
WaitJoinKill ==
    /\ wait = "join kill" /\ grace \in {"none", "done"}
    /\ wait' = "done"
    /\ UNCHANGED <<ctxErr, discard, childVars, reapVars, tailVars, consVars,
                   killVars, ctx>>

Waiting ==
    \/ WaitExited \/ WaitCtxDone \/ WaitReaped \/ WaitDiscard
    \/ WaitJoinTail \/ WaitJoinKill \/ KillSteps(Waiter)

(* What Wait returns.                                                      *)
WaitErr == ctxErr

ExitCode ==
    IF ctxErr # "none" THEN "-1"
    ELSE IF exit = "zero" THEN "0"
    ELSE IF exit = "nonzero" THEN "n" ELSE "-1"

(* The command context ends, or the session's own deadline passes.         *)
CtxDone(why) ==
    /\ ctx = "live"
    /\ ctx' = why
    /\ UNCHANGED <<childVars, reapVars, tailVars, consVars, killVars, waitVars>>
(***************************************************************************)
(* A client: it drains Events, or gives up, and calls Wait at any moment;  *)
(* other goroutines may call Kill.                                         *)
(***************************************************************************)

SessionNext ==
    \/ Write \/ Reap \/ CloseProcDone \/ \E m \in Members : Exits(m)
    \/ Tailer
    \/ Receive \/ SeeClose \/ Abandon
    \/ \E k \in Killers : KillEnter(k) \/ KillSteps(k)
    \/ GraceOver \/ GraceKill
    \/ WaitStart \/ Waiting
    \/ \E why \in {"canceled", "deadline"} : CtxDone(why)

(* Goroutines are scheduled, the timer of the grace period fires, the      *)
(* kernel reports an exit, and a process that was told to terminate and    *)
(* does not ignore it ends.  Nothing makes the child end by itself, the    *)
(* context end, or the client read on or call Wait.                        *)
SessionFairness ==
    /\ WF_sessionVars(Reap) /\ WF_sessionVars(CloseProcDone)
    /\ WF_sessionVars(Tailer)
    /\ \A k \in Killers : WF_sessionVars(KillSteps(k))
    /\ WF_sessionVars(GraceOver \/ GraceKill)
    /\ WF_sessionVars(Waiting)
    /\ WF_sessionVars(Child \in doomed /\ Exits(Child))

SessionSpec == SessionInit /\ [][SessionNext]_sessionVars
FairSessionSpec == SessionSpec /\ SessionFairness

(***************************************************************************)
(* Properties                                                              *)
(***************************************************************************)

(* Every variable has its type.                                            *)
SessionTypeOK ==
    /\ alive \subseteq Members /\ stubborn \subseteq Members
    /\ doomed \subseteq Members
    /\ exit \in ExitKinds /\ (exit = "none") = (Child \in alive)
    /\ reaped \in BOOLEAN /\ procDone \in BOOLEAN
    /\ written \in 0 .. 2 * MaxLines
    /\ offset \in 0 .. written /\ sent \in 0 .. (MaxLines + 1)
    /\ tail \in TailPCs
    /\ chan \in Seq(1 .. MaxLines + 1) /\ Len(chan) <= EventBuffer
    /\ received \in Seq(1 .. MaxLines + 1)
    /\ closed \in BOOLEAN /\ discard \in BOOLEAN
    /\ consumer \in {"draining", "abandoned", "finished"}
    /\ killer \in [Callers -> KillPCs]
    /\ onceBy \in Callers \cup {"nobody"}
    /\ grace \in {"none", "waiting", "done"}
    /\ ctx \in {"live", "canceled", "deadline"}
    /\ wait \in WaitPCs
    /\ ctxErr \in {"none", "canceled", "deadline"}
    /\ hit \in BOOLEAN

(* Until Wait gives up on the events, the lines the consumer has taken and *)
(* those in the channel are exactly the lines the tailer has cut from the  *)
(* file, in file order and without a gap, however the buffer fills.        *)
Received(n) == [i \in 1 .. n |-> i]

DeliveredInOrder == ~discard => received \o chan = Received(sent)

(* A consumer that reads Events to its close before Wait is called has     *)
(* every line of the file, a last one without its newline included: the    *)
(* bytes the child wrote between the tailer's last poll and its exit are   *)
(* not lost.                                                               *)
DrainedIsComplete ==
    consumer = "finished" /\ ~discard =>
        received = Received((written + 1) \div 2)

(* Events is closed only when the child has been reaped, and when Wait     *)
(* returns the child is gone and the tailer has ended: nobody will write   *)
(* to the files Wait removes or send on the channel.                       *)
WaitLeavesNothing ==
    /\ closed => procDone
    /\ wait = "done" => Child \notin alive /\ tail = "done" /\ closed

(* A Kill that finds the child running ends it, even one that ignores      *)
(* SIGTERM, and the end is noticed.                                        *)
KillEnds == \A k \in Killers : killer[k] = "once" ~> procDone

(* Once the context has ended Wait returns, whatever the child does with   *)
(* SIGTERM and even if nobody reads Events any more.                       *)
WaitReturns == wait = "select" /\ ctx # "live" ~> wait = "done"

(* Killing the group reaches the grandchildren too (proc_unix.go): once    *)
(* the escalation is over and Wait has returned, every member is dead or   *)
(* has been told to die and will.                                          *)
KillReachesAll == grace = "done" /\ wait = "done" => alive \subseteq doomed

(***************************************************************************)
(* A session implements an event stream: a line counts as written as soon  *)
(* as its first byte is in the file.                                       *)
(***************************************************************************)
Stream == INSTANCE EventStream WITH
    lines <- (written + 1) \div 2,
    running <- ~procDone,
    lossy <- discard,
    delivered <- received,
    ended <- consumer = "finished"

(* Every step of a session is a step of the event stream, or none.         *)
ImplementsEventStream == Stream!EventStreamSpec
=============================================================================
