---------------------------- MODULE SessionProofs -----------------------------
(***************************************************************************)
(* A session for any group of processes, any callers of Kill, any number   *)
(* of lines and any buffer: its events arrive whole and in order, nothing  *)
(* is left behind by Wait, and it is an event stream.                      *)
(*                                                                         *)
(* None of the properties is inductive.  That the last lines are not lost  *)
(* rests on what the tailer knows at each of its steps (TailStages): from  *)
(* the moment it has seen the exit, the file does not grow.  That Wait     *)
(* leaves nothing rests on what it has waited for (WaitStages).            *)
(***************************************************************************)
EXTENDS Session, SequenceTheorems, TLAPS

(* The end of the child is seen in this order.                             *)
Exited == (reaped => Child \notin alive) /\ (procDone => reaped)

(* What the tailer knows.                                                  *)
SeenExit == tail \in {"last read", "last emit", "close", "closed", "done"} => procDone
ReadAll == tail \in {"last emit", "close", "closed", "done"} => offset = written
SentSoFar == /\ tail \in {"close", "closed", "done"} => sent = (offset + 1) \div 2
             /\ tail \notin {"close", "closed", "done"} => sent <= Lines(offset)
ClosedLast == closed <=> tail \in {"closed", "done"}

TailStages == SeenExit /\ ReadAll /\ SentSoFar /\ ClosedLast

(* What Wait has waited for.                                               *)
WaitStages ==
    /\ wait \in {"discard", "join tail", "join kill", "done"} => procDone
    /\ wait \in {"join kill", "done"} => tail = "done"
    /\ discard => wait \in {"join tail", "join kill", "done"}

(* Nothing comes after the close.                                          *)
NothingAfterClose == consumer = "finished" => closed /\ chan = <<>>

SessionInv ==
    /\ SessionTypeOK /\ Exited /\ TailStages /\ WaitStages
    /\ DeliveredInOrder /\ NothingAfterClose

Stages == Exited /\ TailStages /\ WaitStages

Numbers == 1 .. MaxLines + 1

(***************************************************************************)
(* Halves and sequences                                                    *)
(***************************************************************************)

LEMMA Halves ==
    ASSUME NEW n \in 0 .. 2 * MaxLines
    PROVE  /\ Lines(n) \in 0 .. MaxLines
           /\ n % 2 \in {0, 1}
           /\ n % 2 = 0 => (n + 1) \div 2 = Lines(n)
           /\ n % 2 = 1 => (n + 1) \div 2 = Lines(n) + 1 /\ Lines(n) < MaxLines
           /\ \A m \in 0 .. n : Lines(m) <= Lines(n)
<1>1. MaxLines \in Nat /\ n \in Int
  BY SessionAssumption
<1>2. PICK h \in Int : n = 2 * h \/ n = 2 * h + 1
  <2>1. n = 2 * (n \div 2) \/ n = 2 * (n \div 2) + 1
    BY <1>1
  <2>2. n \div 2 \in Int
    BY <1>1
  <2> QED
    BY <2>1, <2>2
<1>3. \A m \in 0 .. n : Lines(m) <= Lines(n)
  BY <1>1 DEF Lines
<1>4. CASE n = 2 * h
  <2>1. n \div 2 = h /\ n % 2 = 0 /\ (n + 1) \div 2 = h
    BY <1>1, <1>4
  <2> QED
    BY <1>1, <1>3, <1>4, <2>1 DEF Lines
<1>5. CASE n = 2 * h + 1
  <2>1. n \div 2 = h /\ n % 2 = 1 /\ (n + 1) \div 2 = h + 1
    BY <1>1, <1>5
  <2> QED
    BY <1>1, <1>3, <1>5, <2>1 DEF Lines
<1> QED
  BY <1>2, <1>4, <1>5

LEMMA ReceivedGrows ==
    ASSUME NEW n \in 0 .. MaxLines
    PROVE  /\ Received(n) \in Seq(Numbers)
           /\ Append(Received(n), n + 1) = Received(n + 1)
<1>1. MaxLines \in Nat
  BY SessionAssumption
<1>2. Received(n) \in Seq(Numbers) /\ Received(n + 1) \in Seq(Numbers)
  BY <1>1 DEF Received, Numbers
<1>3. Append(Received(n), n + 1) = Received(n + 1)
  BY <1>1, <1>2 DEF Received, Numbers
<1> QED
  BY <1>2, <1>3

LEMMA HandOver ==
    ASSUME NEW s \in Seq(Numbers), NEW t \in Seq(Numbers), NEW n \in Numbers
    PROVE  s \o Append(t, n) = Append(s \o t, n)
OBVIOUS

LEMMA TakeOver ==
    ASSUME NEW s \in Seq(Numbers), NEW t \in Seq(Numbers), t # <<>>
    PROVE  /\ Append(s, Head(t)) \o Tail(t) = s \o t
           /\ Append(s, Head(t)) \in Seq(Numbers) /\ Tail(t) \in Seq(Numbers)
           /\ Len(Tail(t)) = Len(t) - 1
OBVIOUS

(***************************************************************************)
(* Types                                                                   *)
(***************************************************************************)

LEMMA InitTypes == SessionInit => SessionTypeOK
<1>1. <<>> \in Seq(1 .. MaxLines + 1) /\ Len(<<>>) = 0
  OBVIOUS
<1>2. 0 \in 0 .. 2 * MaxLines /\ 0 \in 0 .. MaxLines + 1 /\ 0 <= EventBuffer /\ 0 \in 0 .. 0
  BY SessionAssumption
<1> QED
  BY <1>1, <1>2
     DEF SessionInit, SessionTypeOK, Members, Callers, ExitKinds, TailPCs, KillPCs, WaitPCs

LEMMA SignalTypes ==
    ASSUME SessionTypeOK, NEW sig \in {"TERM", "KILL"}, Signal(sig)
    PROVE  /\ alive' \subseteq Members /\ stubborn' \subseteq Members /\ doomed' \subseteq Members
           /\ exit' \in ExitKinds /\ (exit' = "none") = (Child \in alive')
           /\ written' = written /\ hit' \in BOOLEAN
BY DEF SessionTypeOK, Signal, ExitKinds

LEMMA EmitTypes ==
    ASSUME SessionTypeOK, Emit, sent < MaxLines
    PROVE  /\ sent' \in 0 .. MaxLines + 1
           /\ chan' \in Seq(1 .. MaxLines + 1) /\ Len(chan') <= EventBuffer
<1>1. sent + 1 \in 1 .. MaxLines + 1 /\ EventBuffer \in Nat
  BY SessionAssumption DEF SessionTypeOK
<1>2. chan \in Seq(1 .. MaxLines + 1) /\ Len(chan) \in Nat /\ Len(chan) <= EventBuffer
  BY DEF SessionTypeOK
<1>3. /\ Append(chan, sent + 1) \in Seq(1 .. MaxLines + 1)
      /\ Len(Append(chan, sent + 1)) = Len(chan) + 1
  BY <1>1, <1>2, AppendProperties
<1>4. sent' = sent + 1 /\ (chan' = chan \/ (Len(chan) < EventBuffer /\ chan' = Append(chan, sent + 1)))
  BY DEF Emit
<1>5. sent' \in 0 .. MaxLines + 1
  BY <1>1, <1>4
<1>6. CASE chan' = chan
  BY <1>2, <1>5, <1>6
<1>7. CASE Len(chan) < EventBuffer /\ chan' = Append(chan, sent + 1)
  BY <1>1, <1>2, <1>3, <1>5, <1>7
<1> QED
  BY <1>4, <1>6, <1>7

(* A step that is the tailer's alone, or Wait's, leaves the others' types. *)
LEMMA TailerTypes ==
    ASSUME SessionTypeOK, UNCHANGED <<childVars, reapVars, consVars, killVars, waitVars, ctx>>,
           tail' \in TailPCs, offset' \in 0 .. written, sent' \in 0 .. MaxLines + 1,
           chan' \in Seq(1 .. MaxLines + 1), Len(chan') <= EventBuffer, closed' \in BOOLEAN
    PROVE  SessionTypeOK'
<1>1. /\ alive' = alive /\ stubborn' = stubborn /\ doomed' = doomed /\ exit' = exit
      /\ written' = written
  BY DEF childVars
<1>2. reaped' = reaped /\ procDone' = procDone /\ received' = received /\ consumer' = consumer
  BY DEF reapVars, consVars
<1>3. killer' = killer /\ onceBy' = onceBy /\ grace' = grace /\ hit' = hit
  BY DEF killVars
<1>4. wait' = wait /\ ctxErr' = ctxErr /\ discard' = discard /\ ctx' = ctx
  BY DEF waitVars
<1>5. (/\ alive \subseteq Members /\ stubborn \subseteq Members
       /\ doomed \subseteq Members
       /\ exit \in ExitKinds /\ (exit = "none") = (Child \in alive)
       /\ reaped \in BOOLEAN /\ procDone \in BOOLEAN
       /\ written \in 0 .. 2 * MaxLines)'
  BY <1>1, <1>2 DEF SessionTypeOK
<1>6. (/\ received \in Seq(1 .. MaxLines + 1)
       /\ consumer \in {"draining", "abandoned", "finished"})'
  BY <1>2 DEF SessionTypeOK
<1>7. (/\ killer \in [Callers -> KillPCs] /\ onceBy \in Callers \cup {"nobody"}
       /\ grace \in {"none", "waiting", "done"} /\ hit \in BOOLEAN)'
  BY <1>3 DEF SessionTypeOK
<1>8. (/\ wait \in WaitPCs /\ ctxErr \in {"none", "canceled", "deadline"}
       /\ discard \in BOOLEAN /\ ctx \in {"live", "canceled", "deadline"})'
  BY <1>4 DEF SessionTypeOK
<1>9. offset' \in 0 .. written'
  BY <1>1
<1> QED
  BY <1>5, <1>6, <1>7, <1>8, <1>9, Zenon DEF SessionTypeOK

LEMMA WaitTypes ==
    ASSUME SessionTypeOK, UNCHANGED <<childVars, reapVars, tailVars, consVars, killVars, ctx>>,
           wait' \in WaitPCs, ctxErr' \in {"none", "canceled", "deadline"}, discard' \in BOOLEAN
    PROVE  SessionTypeOK'
<1>1. /\ alive' = alive /\ stubborn' = stubborn /\ doomed' = doomed /\ exit' = exit
      /\ written' = written
  BY DEF childVars
<1>2. reaped' = reaped /\ procDone' = procDone /\ received' = received /\ consumer' = consumer
  BY DEF reapVars, consVars
<1>3. killer' = killer /\ onceBy' = onceBy /\ grace' = grace /\ hit' = hit /\ ctx' = ctx
  BY DEF killVars
<1>4. /\ tail' = tail /\ offset' = offset /\ sent' = sent /\ chan' = chan
      /\ closed' = closed
  BY DEF tailVars
<1> QED
  BY <1>1, <1>2, <1>3, <1>4, Zenon DEF SessionTypeOK

(* What the steps of the tailer, of the child and of its end keep.         *)
LEMMA StreamTypes ==
    ASSUME SessionInv, Write \/ Reap \/ CloseProcDone \/ Tailer
    PROVE  SessionTypeOK'
<1> SessionTypeOK /\ TailStages
  BY DEF SessionInv
<1>1. CASE Write
  BY <1>1, SessionAssumption
     DEF Write, SessionTypeOK, reapVars, tailVars, consVars, killVars, waitVars
<1>2. CASE Reap
  BY <1>2 DEF Reap, SessionTypeOK, childVars, tailVars, consVars, killVars, waitVars
<1>3. CASE CloseProcDone
  BY <1>3 DEF CloseProcDone, SessionTypeOK, childVars, tailVars, consVars, killVars, waitVars
<1>4. ASSUME NEW from \in TailPCs, NEW to \in TailPCs, Read(from, to) PROVE SessionTypeOK'
  BY <1>4, SessionAssumption
     DEF Read, SessionTypeOK, childVars, reapVars, consVars, killVars, waitVars
<1>5. offset \in 0 .. 2 * MaxLines /\ MaxLines \in Nat /\ sent \in Nat
  BY SessionAssumption DEF SessionTypeOK
<1>6. CASE TailEmit
  <2>1. Lines(offset) \in 0 .. MaxLines
    BY <1>5, Halves
  <2>2. sent < Lines(offset) /\ Emit
    BY <1>6 DEF TailEmit
  <2>3. sent < MaxLines
    BY <1>5, <2>1, <2>2
  <2>4. /\ sent' \in 0 .. MaxLines + 1
        /\ chan' \in Seq(1 .. MaxLines + 1) /\ Len(chan') <= EventBuffer
    BY <2>2, <2>3, EmitTypes
  <2>5. /\ UNCHANGED <<childVars, reapVars, consVars, killVars, waitVars, ctx>>
        /\ tail' = tail /\ offset' = offset /\ closed' = closed
    BY <1>6 DEF TailEmit
  <2>6. tail \in TailPCs /\ offset \in 0 .. written /\ closed \in BOOLEAN
    BY DEF SessionTypeOK
  <2> QED
    BY <2>4, <2>5, <2>6, TailerTypes
<1>7. CASE TailEmitted
  <2>1. /\ UNCHANGED <<childVars, reapVars, consVars, killVars, waitVars, ctx>>
        /\ UNCHANGED <<offset, sent, chan, closed>> /\ tail' \in TailPCs
    BY <1>7 DEF TailEmitted, TailPCs
  <2>2. /\ offset \in 0 .. written /\ sent \in 0 .. MaxLines + 1 /\ closed \in BOOLEAN
        /\ chan \in Seq(1 .. MaxLines + 1) /\ Len(chan) <= EventBuffer
    BY DEF SessionTypeOK
  <2> QED
    BY <2>1, <2>2, TailerTypes
<1>8. CASE TailCheck
  <2>1. /\ UNCHANGED <<childVars, reapVars, consVars, killVars, waitVars, ctx>>
        /\ UNCHANGED <<offset, sent, chan, closed>> /\ tail' \in TailPCs
    BY <1>8 DEF TailCheck, TailPCs
  <2>2. /\ offset \in 0 .. written /\ sent \in 0 .. MaxLines + 1 /\ closed \in BOOLEAN
        /\ chan \in Seq(1 .. MaxLines + 1) /\ Len(chan) <= EventBuffer
    BY DEF SessionTypeOK
  <2> QED
    BY <2>1, <2>2, TailerTypes
<1>9. CASE TailLastEmit
  <2>1. offset % 2 = 1 => sent < MaxLines
    BY <1>5, <1>9, Halves DEF TailLastEmit
  <2>2. /\ sent' \in 0 .. MaxLines + 1
        /\ chan' \in Seq(1 .. MaxLines + 1) /\ Len(chan') <= EventBuffer
    BY <1>9, <2>1, EmitTypes DEF TailLastEmit, SessionTypeOK
  <2>3. /\ UNCHANGED <<childVars, reapVars, consVars, killVars, waitVars, ctx>>
        /\ UNCHANGED <<offset, closed>> /\ tail' \in TailPCs
    BY <1>9 DEF TailLastEmit, TailPCs
  <2>4. offset \in 0 .. written /\ closed \in BOOLEAN
    BY DEF SessionTypeOK
  <2> QED
    BY <2>2, <2>3, <2>4, TailerTypes
<1>10. CASE TailClose
  <2>1. tail' \in TailPCs /\ closed' \in BOOLEAN
    BY <1>10 DEF TailClose, TailPCs, SessionTypeOK
  <2>2. /\ UNCHANGED <<childVars, reapVars, consVars, killVars, waitVars, ctx>>
        /\ UNCHANGED <<offset, sent, chan>>
    BY <1>10 DEF TailClose
  <2>3. /\ offset \in 0 .. written /\ sent \in 0 .. MaxLines + 1
        /\ chan \in Seq(1 .. MaxLines + 1) /\ Len(chan) <= EventBuffer
    BY DEF SessionTypeOK
  <2> QED
    BY <2>1, <2>2, <2>3, TailerTypes
<1> QED
  BY <1>1, <1>2, <1>3, <1>4, <1>6, <1>7, <1>8, <1>9, <1>10
     DEF Tailer, TailRead, TailLastRead, TailPCs

(* What the consumer, Kill and Wait keep.                                  *)
LEMMA ClientTypes ==
    ASSUME SessionInv,
           \/ \E m \in Members : Exits(m)
           \/ Receive \/ SeeClose \/ Abandon
           \/ \E k \in Callers : KillEnter(k) \/ KillSteps(k)
           \/ GraceOver \/ GraceKill \/ WaitStart \/ Waiting
           \/ \E why \in {"canceled", "deadline"} : CtxDone(why)
    PROVE  SessionTypeOK'
<1> SessionTypeOK /\ Waiter \in Callers
  BY DEF SessionInv, Callers
<1>1. ASSUME NEW m \in Members, Exits(m) PROVE SessionTypeOK'
  BY <1>1 DEF Exits, SessionTypeOK, ExitKinds, reapVars, tailVars, consVars, killVars, waitVars
<1>2. CASE Receive
  BY <1>2, TakeOver, SessionAssumption
     DEF Receive, SessionTypeOK, Numbers, childVars, reapVars, killVars, waitVars
<1>3. CASE SeeClose \/ Abandon
  BY <1>3 DEF SeeClose, Abandon, SessionTypeOK, childVars, reapVars, tailVars, killVars, waitVars
<1>4. ASSUME NEW k \in Callers, KillEnter(k) \/ KillStartGrace(k) \/ KillAgain(k) PROVE SessionTypeOK'
  BY <1>4 DEF KillEnter, KillStartGrace, KillAgain, SessionTypeOK, KillPCs,
              childVars, reapVars, tailVars, consVars, waitVars
<1>5. ASSUME NEW k \in Callers, KillTerminate(k) PROVE SessionTypeOK'
  BY <1>5, SignalTypes, SMTT(30) DEF KillTerminate, SessionTypeOK, KillPCs, reapVars, tailVars, consVars, waitVars
<1>6. CASE GraceOver
  BY <1>6 DEF GraceOver, SessionTypeOK, childVars, reapVars, tailVars, consVars, waitVars
<1>7. CASE GraceKill
  BY <1>7, SignalTypes DEF GraceKill, SessionTypeOK, reapVars, tailVars, consVars, waitVars
<1>8. CASE WaitStart \/ WaitExited \/ WaitReaped \/ WaitDiscard \/ WaitJoinTail \/ WaitJoinKill
  <2>1. wait' \in WaitPCs /\ discard' \in BOOLEAN
    BY <1>8 DEF WaitStart, WaitExited, WaitReaped, WaitDiscard, WaitJoinTail, WaitJoinKill,
                WaitPCs, SessionTypeOK
  <2>2. /\ UNCHANGED <<childVars, reapVars, tailVars, consVars, killVars, ctx>>
        /\ ctxErr' = ctxErr
    BY <1>8 DEF WaitStart, WaitExited, WaitReaped, WaitDiscard, WaitJoinTail, WaitJoinKill
  <2>3. ctxErr \in {"none", "canceled", "deadline"}
    BY DEF SessionTypeOK
  <2> QED
    BY <2>1, <2>2, <2>3, WaitTypes
<1>9. CASE WaitCtxDone
  BY <1>9 DEF WaitCtxDone, SessionTypeOK, WaitPCs, KillPCs, childVars, reapVars, tailVars, consVars
<1>10. ASSUME NEW why \in {"canceled", "deadline"}, CtxDone(why) PROVE SessionTypeOK'
  BY <1>10 DEF CtxDone, SessionTypeOK, childVars, reapVars, tailVars, consVars, killVars, waitVars
<1> QED
  BY <1>1, <1>2, <1>3, <1>4, <1>5, <1>6, <1>7, <1>8, <1>9, <1>10 DEF KillSteps, Waiting

(***************************************************************************)
(* Stages                                                                  *)
(***************************************************************************)

LEMMA InitStages == SessionInit => Stages /\ DeliveredInOrder /\ NothingAfterClose
<1> SUFFICES ASSUME SessionInit PROVE Stages /\ DeliveredInOrder /\ NothingAfterClose
  OBVIOUS
<1>1. <<>> \o <<>> = Received(0)
  BY DEF Received
<1>2. Lines(0) = 0
  BY DEF Lines
<1>3. DeliveredInOrder /\ NothingAfterClose
  BY <1>1 DEF SessionInit, DeliveredInOrder, NothingAfterClose
<1>4. Exited /\ WaitStages /\ SeenExit /\ ReadAll /\ ClosedLast
  BY DEF SessionInit, Exited, WaitStages, SeenExit, ReadAll, ClosedLast
<1>5. SentSoFar
  BY <1>2 DEF SessionInit, SentSoFar
<1> QED
  BY <1>3, <1>4, <1>5 DEF Stages, TailStages

LEMMA TailerFrame ==
    ASSUME Tailer
    PROVE  UNCHANGED <<childVars, reapVars, consVars, killVars, waitVars, ctx>>
BY DEF Tailer, TailRead, TailEmit, TailEmitted, TailCheck, TailLastRead, TailLastEmit, TailClose, Read

LEMMA WaitingFrame ==
    ASSUME Waiting
    PROVE  \/ KillSteps(Waiter)
           \/ UNCHANGED <<childVars, reapVars, tailVars, consVars, onceBy, grace, hit, ctx>>
BY DEF Waiting, WaitExited, WaitCtxDone, WaitReaped, WaitDiscard, WaitJoinTail, WaitJoinKill, killVars

(* The child ends, by itself or killed; nobody forgets that it has.        *)
LEMMA ExitedKept ==
    ASSUME Exited, SessionNext
    PROVE  Exited'
<1> Waiter \in Callers
  BY DEF Callers
<1>1. CASE Write
  BY <1>1 DEF Exited, Write, reapVars
<1>2. CASE Reap
  BY <1>2 DEF Exited, Reap, childVars
<1>3. CASE CloseProcDone
  BY <1>3 DEF Exited, CloseProcDone, childVars
<1>4. ASSUME NEW m \in Members, Exits(m) PROVE Exited'
  BY <1>4 DEF Exited, Exits, reapVars
<1>5. CASE Tailer
  BY <1>5, TailerFrame DEF Exited, childVars, reapVars
<1>6. CASE Receive \/ SeeClose \/ Abandon \/ WaitStart \/ GraceOver
  BY <1>6 DEF Exited, Receive, SeeClose, Abandon, WaitStart, GraceOver, childVars, reapVars
<1>7. ASSUME NEW k \in Callers, KillEnter(k) \/ KillSteps(k) PROVE Exited'
  BY <1>7 DEF Exited, KillEnter, KillSteps, KillTerminate, KillStartGrace, KillAgain, Signal,
              childVars, reapVars
<1>8. CASE GraceKill
  BY <1>8 DEF Exited, GraceKill, Signal, reapVars
<1>9. CASE Waiting
  BY <1>7, <1>9, WaitingFrame DEF Exited, childVars, reapVars
<1>10. ASSUME NEW why \in {"canceled", "deadline"}, CtxDone(why) PROVE Exited'
  BY <1>10 DEF Exited, CtxDone, childVars, reapVars
<1> QED
  BY <1>1, <1>2, <1>3, <1>4, <1>5, <1>6, <1>7, <1>8, <1>9, <1>10 DEF SessionNext, Callers

(* The steps of neither the child nor the tailer leave both stages alone,  *)
(* but what is known to have ended stays so.                               *)
Elsewhere ==
    /\ UNCHANGED <<written, tail, offset, sent, closed>>
    /\ procDone => procDone'

LEMMA ElsewhereKeeps ==
    ASSUME TailStages, Elsewhere
    PROVE  TailStages'
<1>1. SeenExit'
  BY DEF TailStages, SeenExit, Elsewhere
<1>2. ReadAll' /\ SentSoFar' /\ ClosedLast'
  BY DEF TailStages, ReadAll, SentSoFar, ClosedLast, Elsewhere, Lines
<1> QED
  BY <1>1, <1>2 DEF TailStages

LEMMA MostIsElsewhere ==
    ASSUME \/ Reap \/ CloseProcDone \/ \E m \in Members : Exits(m)
           \/ Receive \/ SeeClose \/ Abandon
           \/ \E k \in Callers : KillEnter(k) \/ KillSteps(k)
           \/ GraceOver \/ GraceKill \/ WaitStart \/ Waiting
           \/ \E why \in {"canceled", "deadline"} : CtxDone(why)
    PROVE  Elsewhere
<1> Waiter \in Callers
  BY DEF Callers
<1>1. CASE Reap \/ CloseProcDone \/ \E m \in Members : Exits(m)
  BY <1>1 DEF Elsewhere, Reap, CloseProcDone, Exits, childVars, reapVars, tailVars
<1>2. CASE Receive \/ SeeClose \/ Abandon \/ WaitStart \/ GraceOver
  BY <1>2 DEF Elsewhere, Receive, SeeClose, Abandon, WaitStart, GraceOver, childVars, reapVars, tailVars
<1>3. ASSUME NEW k \in Callers, KillEnter(k) \/ KillSteps(k) PROVE Elsewhere
  BY <1>3 DEF Elsewhere, KillEnter, KillSteps, KillTerminate, KillStartGrace, KillAgain, Signal,
              childVars, reapVars, tailVars
<1>4. CASE GraceKill
  BY <1>4 DEF Elsewhere, GraceKill, Signal, reapVars, tailVars
<1>5. CASE Waiting
  BY <1>3, <1>5, WaitingFrame DEF Elsewhere, childVars, reapVars, tailVars
<1>6. ASSUME NEW why \in {"canceled", "deadline"}, CtxDone(why) PROVE Elsewhere
  BY <1>6 DEF Elsewhere, CtxDone, childVars, reapVars, tailVars
<1> QED
  BY <1>1, <1>2, <1>3, <1>4, <1>5, <1>6

LEMMA TailStagesKept ==
    ASSUME SessionInv, SessionNext
    PROVE  TailStages'
<1> SessionTypeOK /\ Exited /\ SeenExit /\ ReadAll /\ SentSoFar /\ ClosedLast
  BY DEF SessionInv, TailStages
<1>1. /\ offset \in 0 .. 2 * MaxLines /\ written \in 0 .. 2 * MaxLines
      /\ offset \in 0 .. written /\ sent \in Nat /\ MaxLines \in Nat
  BY SessionAssumption DEF SessionTypeOK
<1>2. Lines(offset) \in Nat /\ Lines(written) \in Nat /\ Lines(offset) <= Lines(written)
  BY <1>1, Halves
<1>3. CASE Write
  <2>1. ~procDone
    BY <1>3 DEF Exited, Write
  <2>2. UNCHANGED <<tail, offset, sent, closed, procDone>>
    BY <1>3 DEF Write, tailVars, reapVars
  <2>3. SeenExit' /\ ReadAll' /\ ClosedLast'
    BY <2>1, <2>2 DEF SeenExit, ReadAll, ClosedLast
  <2>4. SentSoFar'
    BY <2>2 DEF SentSoFar, Lines
  <2> QED
    BY <2>3, <2>4 DEF TailStages
<1>4. CASE TailRead
  <2>1. tail = "read" /\ tail' = "emit" /\ offset' = written /\ UNCHANGED <<sent, closed>>
    BY <1>4 DEF TailRead, Read
  <2>2. SeenExit' /\ ReadAll' /\ ClosedLast'
    BY <2>1 DEF SeenExit, ReadAll, ClosedLast
  <2>3. sent <= Lines(written)
    <3>1. sent <= Lines(offset)
      BY <2>1 DEF SentSoFar
    <3> QED
      BY <1>1, <1>2, <3>1
  <2>4. SentSoFar'
    BY <2>1, <2>3 DEF SentSoFar, Lines
  <2> QED
    BY <2>2, <2>4 DEF TailStages
<1>5. CASE TailLastRead
  <2>1. /\ tail = "last read" /\ tail' = "last emit" /\ offset' = written
        /\ UNCHANGED <<sent, closed, procDone, written>>
    BY <1>5 DEF TailLastRead, Read, childVars, reapVars
  <2>2. SeenExit' /\ ReadAll' /\ ClosedLast'
    BY <2>1 DEF SeenExit, ReadAll, ClosedLast
  <2>3. sent <= Lines(written)
    <3>1. sent <= Lines(offset)
      BY <2>1 DEF SentSoFar
    <3> QED
      BY <1>1, <1>2, <3>1
  <2>4. SentSoFar'
    BY <2>1, <2>3 DEF SentSoFar, Lines
  <2> QED
    BY <2>2, <2>4 DEF TailStages
<1>6. CASE TailEmit
  <2>1. /\ tail \in {"emit", "last emit"} /\ sent < Lines(offset) /\ sent' = sent + 1
        /\ UNCHANGED <<tail, offset, closed, written, procDone>>
    BY <1>6 DEF TailEmit, Emit, childVars, reapVars
  <2>2. SeenExit' /\ ReadAll' /\ ClosedLast'
    BY <2>1 DEF SeenExit, ReadAll, ClosedLast
  <2>3. sent + 1 <= Lines(offset)
    <3>1. \A i, n \in Nat : i < n => i + 1 <= n
      OBVIOUS
    <3>2. sent \in Nat /\ Lines(offset) \in Nat /\ sent < Lines(offset)
      BY <1>1, <1>2, <2>1
    <3> QED
      BY <3>1, <3>2
  <2>4. sent' <= Lines(offset')
    BY <2>1, <2>3
  <2>5. SentSoFar'
    BY <2>1, <2>4 DEF SentSoFar
  <2> QED
    BY <2>2, <2>5 DEF TailStages
<1>7. CASE TailEmitted
  <2>1. /\ tail = "emit" /\ tail' = "check"
        /\ UNCHANGED <<offset, sent, closed, written, procDone>>
    BY <1>7 DEF TailEmitted, childVars, reapVars
  <2>2. SeenExit' /\ ReadAll' /\ ClosedLast'
    BY <2>1 DEF SeenExit, ReadAll, ClosedLast
  <2>3. SentSoFar'
    BY <2>1 DEF SentSoFar, Lines
  <2> QED
    BY <2>2, <2>3 DEF TailStages
<1>8. CASE TailCheck
  <2>1. tail = "check" /\ UNCHANGED <<offset, sent, closed, written, procDone>>
    BY <1>8 DEF TailCheck, childVars, reapVars
  <2>2. tail' = IF procDone THEN "last read" ELSE "read"
    BY <1>8 DEF TailCheck
  <2>3. tail' \in {"last read", "read"} /\ (tail' = "last read" => procDone)
    BY <2>2
  <2>4. SeenExit'
    BY <2>1, <2>3 DEF SeenExit
  <2>5. ReadAll' /\ ClosedLast'
    BY <2>1, <2>3 DEF ReadAll, ClosedLast
  <2>6. SentSoFar'
    BY <2>1, <2>3 DEF SentSoFar, Lines
  <2> QED
    BY <2>4, <2>5, <2>6 DEF TailStages
<1>9. CASE TailLastEmit
  <2>1. /\ tail = "last emit" /\ tail' = "close" /\ sent = Lines(offset)
        /\ UNCHANGED <<offset, closed, written, procDone>>
    BY <1>9 DEF TailLastEmit, childVars, reapVars
  <2>2. sent' = IF offset % 2 = 1 THEN sent + 1 ELSE sent
    BY <1>9 DEF TailLastEmit, Emit
  <2>3. sent' = (offset + 1) \div 2
    BY <1>1, <2>1, <2>2, Halves
  <2>4. SeenExit' /\ ReadAll' /\ ClosedLast'
    BY <2>1 DEF SeenExit, ReadAll, ClosedLast
  <2>5. SentSoFar'
    BY <2>1, <2>3 DEF SentSoFar
  <2> QED
    BY <2>4, <2>5 DEF TailStages
<1>10. CASE TailClose
  <2>1. tail \in {"close", "closed"} /\ tail' \in {"closed", "done"}
    BY <1>10 DEF TailClose
  <2>2. UNCHANGED <<offset, sent, written, procDone>>
    BY <1>10 DEF TailClose, childVars, reapVars
  <2>3. closed'
    BY <1>10 DEF TailClose, ClosedLast
  <2>4. SeenExit' /\ ReadAll' /\ ClosedLast'
    BY <2>1, <2>2, <2>3 DEF SeenExit, ReadAll, ClosedLast
  <2>5. SentSoFar'
    BY <2>1, <2>2 DEF SentSoFar
  <2> QED
    BY <2>4, <2>5 DEF TailStages
<1>11. CASE ~(Write \/ Tailer)
  <2>1. Elsewhere
    BY <1>11, MostIsElsewhere DEF SessionNext, Callers
  <2> QED
    BY <2>1, ElsewhereKeeps DEF TailStages
<1> QED
  BY <1>3, <1>4, <1>5, <1>6, <1>7, <1>8, <1>9, <1>10, <1>11 DEF Tailer

(* Only Wait moves Wait; what it has waited for stays.                     *)
LEMMA WaitAlone ==
    ASSUME SessionNext
    PROVE  /\ procDone => procDone'
           /\ tail = "done" => tail' = "done"
           /\ \/ UNCHANGED <<wait, discard>>
              \/ WaitStart \/ Waiting
<1> Waiter \in Callers
  BY DEF Callers
<1>1. CASE Tailer
  <2>1. tail # "done"
    BY <1>1 DEF Tailer, TailRead, TailEmit, TailEmitted, TailCheck, TailLastRead, TailLastEmit,
                TailClose, Read
  <2> QED
    BY <1>1, <2>1, TailerFrame DEF reapVars, waitVars
<1>2. CASE Write
  BY <1>2 DEF Write, reapVars, tailVars, waitVars
<1>3. CASE ~(Write \/ Tailer)
  <2>1. Elsewhere
    BY <1>3, MostIsElsewhere DEF SessionNext, Callers
  <2>2. CASE Reap \/ CloseProcDone \/ \E m \in Members : Exits(m)
    BY <2>1, <2>2 DEF Elsewhere, Reap, CloseProcDone, Exits, waitVars
  <2>3. CASE Receive \/ SeeClose \/ Abandon \/ GraceOver \/ GraceKill
    BY <2>1, <2>3 DEF Elsewhere, Receive, SeeClose, Abandon, GraceOver, GraceKill, waitVars
  <2>4. CASE \E k \in Killers : KillEnter(k) \/ KillSteps(k)
    BY <2>1, <2>4 DEF Elsewhere, KillEnter, KillSteps, KillTerminate, KillStartGrace, KillAgain, waitVars
  <2>5. CASE \E why \in {"canceled", "deadline"} : CtxDone(why)
    BY <2>1, <2>5 DEF Elsewhere, CtxDone, waitVars
  <2>6. CASE WaitStart \/ Waiting
    BY <2>1, <2>6 DEF Elsewhere
  <2> QED
    BY <1>3, <2>2, <2>3, <2>4, <2>5, <2>6 DEF SessionNext
<1> QED
  BY <1>1, <1>2, <1>3

LEMMA WaitStagesKept ==
    ASSUME SessionInv, SessionNext
    PROVE  WaitStages'
<1> WaitStages
  BY DEF SessionInv
<1> Waiter \in Callers
  BY DEF Callers
<1>0. (procDone => procDone') /\ (tail = "done" => tail' = "done")
  BY WaitAlone
<1>1. CASE UNCHANGED <<wait, discard>>
  <2>1. wait' = wait /\ (discard' <=> discard)
    BY <1>1
  <2> QED
    BY <1>0, <2>1 DEF WaitStages
<1>2. CASE WaitStart
  <2>1. wait = "idle" /\ wait' = "select" /\ (discard' <=> discard)
    BY <1>2 DEF WaitStart
  <2>2. ~discard
    BY <2>1 DEF WaitStages
  <2> QED
    BY <2>1, <2>2 DEF WaitStages
<1>3. CASE WaitExited \/ WaitReaped
  <2>1. wait \in {"select", "kill"} /\ wait' = "discard" /\ procDone /\ (discard' <=> discard)
    BY <1>3 DEF WaitExited, WaitReaped
  <2>2. ~discard
    BY <2>1 DEF WaitStages
  <2> QED
    BY <1>0, <2>1, <2>2 DEF WaitStages
<1>4. CASE WaitCtxDone
  <2>1. wait = "select" /\ wait' = "kill" /\ (discard' <=> discard)
    BY <1>4 DEF WaitCtxDone
  <2>2. ~discard
    BY <2>1 DEF WaitStages
  <2> QED
    BY <2>1, <2>2 DEF WaitStages
<1>5. CASE WaitDiscard
  <2>1. wait = "discard" /\ wait' = "join tail"
    BY <1>5 DEF WaitDiscard
  <2> QED
    BY <1>0, <2>1 DEF WaitStages
<1>6. CASE WaitJoinTail
  <2>1. wait = "join tail" /\ wait' = "join kill" /\ tail = "done"
    BY <1>6 DEF WaitJoinTail
  <2> QED
    BY <1>0, <2>1 DEF WaitStages
<1>7. CASE WaitJoinKill
  <2>1. wait = "join kill" /\ wait' = "done"
    BY <1>7 DEF WaitJoinKill
  <2> QED
    BY <1>0, <2>1 DEF WaitStages
<1>8. CASE KillSteps(Waiter)
  <2>1. UNCHANGED <<wait, discard>>
    BY <1>8 DEF KillSteps, KillTerminate, KillStartGrace, KillAgain, waitVars
  <2> QED
    BY <1>1, <2>1
<1> QED
  BY <1>1, <1>2, <1>3, <1>4, <1>5, <1>6, <1>7, <1>8, WaitAlone DEF Waiting

(***************************************************************************)
(* Order                                                                   *)
(***************************************************************************)

(* Only the tailer and the consumer touch the events.                      *)
LEMMA EventsAlone ==
    ASSUME SessionNext
    PROVE  \/ UNCHANGED <<sent, chan, closed, received, consumer>>
           \/ Tailer \/ Receive \/ SeeClose \/ Abandon
<1> Waiter \in Callers
  BY DEF Callers
<1> DEFINE Untouched == UNCHANGED <<sent, chan, closed, received, consumer>>
<1>1. CASE Write \/ Reap \/ CloseProcDone \/ \E m \in Members : Exits(m)
  BY <1>1 DEF Write, Reap, CloseProcDone, Exits, tailVars, consVars
<1>2. ASSUME NEW k \in Callers, KillEnter(k) \/ KillSteps(k) PROVE Untouched
  BY <1>2 DEF KillEnter, KillSteps, KillTerminate, KillStartGrace, KillAgain, tailVars, consVars
<1>3. CASE GraceOver \/ GraceKill \/ WaitStart
  BY <1>3 DEF GraceOver, GraceKill, WaitStart, tailVars, consVars
<1>4. CASE Waiting
  BY <1>2, <1>4, WaitingFrame DEF tailVars, consVars
<1>5. CASE \E why \in {"canceled", "deadline"} : CtxDone(why)
  BY <1>5 DEF CtxDone, tailVars, consVars
<1> QED
  BY <1>1, <1>2, <1>3, <1>4, <1>5 DEF SessionNext, Callers

(* What the tailer does to the events.                                     *)
LEMMA TailerHandsOver ==
    ASSUME SessionInv, Tailer
    PROVE  \/ UNCHANGED <<sent, chan>>
           \/ Emit /\ sent \in 0 .. MaxLines /\ ~closed
<1> SessionTypeOK /\ ClosedLast /\ MaxLines \in Nat
  BY SessionAssumption DEF SessionInv, TailStages
<1>1. offset \in 0 .. 2 * MaxLines /\ sent \in Nat
  BY DEF SessionTypeOK
<1>2. Lines(offset) \in 0 .. MaxLines
  BY <1>1, Halves
<1>3. CASE TailEmit
  <2>1. tail \in {"emit", "last emit"} /\ sent < Lines(offset) /\ Emit
    BY <1>3 DEF TailEmit
  <2>2. sent \in 0 .. MaxLines
    <3>1. \A i \in Nat, n \in 0 .. MaxLines : i < n => i \in 0 .. MaxLines
      OBVIOUS
    <3>2. sent \in Nat /\ sent < Lines(offset)
      BY <1>1, <2>1
    <3> QED
      BY <1>2, <3>1, <3>2
  <2>3. ~closed
    BY <2>1 DEF ClosedLast
  <2> QED
    BY <2>1, <2>2, <2>3
<1>4. CASE TailLastEmit
  <2>1. tail = "last emit" /\ sent = Lines(offset) /\ (Emit \/ UNCHANGED <<sent, chan>>)
    BY <1>4 DEF TailLastEmit
  <2>2. sent \in 0 .. MaxLines
    BY <1>2, <2>1
  <2>3. ~closed
    BY <2>1 DEF ClosedLast
  <2> QED
    BY <2>1, <2>2, <2>3
<1>5. CASE TailRead \/ TailEmitted \/ TailCheck \/ TailLastRead \/ TailClose
  BY <1>5 DEF TailRead, TailEmitted, TailCheck, TailLastRead, TailClose, Read
<1> QED
  BY <1>3, <1>4, <1>5 DEF Tailer

LEMMA OrderKept ==
    ASSUME SessionInv, SessionNext
    PROVE  DeliveredInOrder'
<1> DeliveredInOrder /\ WaitStages
  BY DEF SessionInv
<1>1. received \in Seq(Numbers) /\ chan \in Seq(Numbers)
  BY DEF SessionInv, SessionTypeOK, Numbers
<1> SUFFICES ASSUME ~discard' PROVE (received \o chan = Received(sent))'
  BY DEF DeliveredInOrder
<1>2. ~discard
  <2>1. CASE UNCHANGED <<wait, discard>>
    BY <2>1
  <2>2. CASE WaitStart \/ Waiting
    BY <2>2 DEF WaitStart, Waiting, WaitExited, WaitCtxDone, WaitReaped, WaitDiscard, WaitJoinTail,
                WaitJoinKill, KillSteps, KillTerminate, KillStartGrace, KillAgain, waitVars
  <2> QED
    BY <2>1, <2>2, WaitAlone
<1>3. received \o chan = Received(sent)
  BY <1>2 DEF DeliveredInOrder
<1>4. CASE Tailer
  <2>1. received' = received
    BY <1>4, TailerFrame DEF consVars
  <2>2. CASE UNCHANGED <<sent, chan>>
    BY <1>3, <2>1, <2>2 DEF Received
  <2>3. CASE Emit /\ sent \in 0 .. MaxLines
    <3>1. sent' = sent + 1 /\ chan' = Append(chan, sent + 1)
      BY <1>2, <2>3 DEF Emit
    <3>2. sent + 1 \in Numbers
      BY <2>3, SessionAssumption DEF Numbers
    <3>3. received \o Append(chan, sent + 1) = Append(received \o chan, sent + 1)
      BY <1>1, <3>2, HandOver
    <3>4. Append(Received(sent), sent + 1) = Received(sent + 1)
      BY <2>3, ReceivedGrows
    <3> QED
      BY <1>3, <2>1, <3>1, <3>3, <3>4 DEF Received
  <2> QED
    BY <1>4, <2>2, <2>3, TailerHandsOver
<1>5. CASE Receive
  <2>1. /\ chan # <<>> /\ received' = Append(received, Head(chan)) /\ chan' = Tail(chan)
        /\ sent' = sent
    BY <1>5 DEF Receive
  <2>2. Append(received, Head(chan)) \o Tail(chan) = received \o chan
    BY <1>1, <2>1, TakeOver
  <2> QED
    BY <1>3, <2>1, <2>2 DEF Received
<1>6. CASE SeeClose \/ Abandon \/ UNCHANGED <<sent, chan, closed, received, consumer>>
  <2>1. UNCHANGED <<sent, chan, received>>
    BY <1>6 DEF SeeClose, Abandon, tailVars
  <2> QED
    BY <1>3, <2>1 DEF Received
<1> QED
  BY <1>4, <1>5, <1>6, EventsAlone

LEMMA NothingComesAfter ==
    ASSUME SessionInv, SessionNext
    PROVE  NothingAfterClose'
<1> NothingAfterClose /\ ClosedLast
  BY DEF SessionInv, TailStages
<1>1. CASE Tailer
  <2>1. consumer' = consumer
    BY <1>1, TailerFrame DEF consVars
  <2>2. ASSUME consumer = "finished" PROVE closed' /\ chan' = <<>>
    <3>1. closed /\ chan = <<>> /\ tail \in {"closed", "done"}
      BY <2>2 DEF NothingAfterClose, ClosedLast
    <3>2. chan' = chan
      BY <1>1, <3>1, TailerHandsOver
    <3>3. TailClose
      BY <1>1, <3>1 DEF Tailer, TailRead, TailEmit, TailEmitted, TailCheck, TailLastRead,
                        TailLastEmit, Read
    <3>4. closed'
      BY <3>1, <3>3 DEF TailClose
    <3> QED
      BY <3>1, <3>2, <3>4
  <2> QED
    BY <2>1, <2>2 DEF NothingAfterClose
<1>2. CASE Receive \/ Abandon
  <2>1. consumer' # "finished"
    BY <1>2 DEF Receive, Abandon
  <2> QED
    BY <2>1 DEF NothingAfterClose
<1>3. CASE SeeClose
  <2>1. closed /\ chan = <<>> /\ UNCHANGED <<closed, chan>>
    BY <1>3 DEF SeeClose, tailVars
  <2> QED
    BY <2>1 DEF NothingAfterClose
<1>4. CASE UNCHANGED <<sent, chan, closed, received, consumer>>
  <2>1. consumer' = consumer /\ chan' = chan /\ (closed' <=> closed)
    BY <1>4
  <2> QED
    BY <2>1 DEF NothingAfterClose
<1> QED
  BY <1>1, <1>2, <1>3, <1>4, EventsAlone

(***************************************************************************)
(* The theorems                                                            *)
(***************************************************************************)

LEMMA InvInit == SessionInit => SessionInv
BY InitTypes, InitStages DEF SessionInv, Stages

LEMMA InvKept ==
    ASSUME SessionInv, [SessionNext]_sessionVars
    PROVE  SessionInv'
<1> Waiter \in Callers
  BY DEF Callers
<1>1. CASE SessionNext
  <2>1. SessionTypeOK'
    BY <1>1, StreamTypes, ClientTypes DEF SessionNext, Callers
  <2>2. Exited'
    BY <1>1, ExitedKept DEF SessionInv
  <2> QED
    BY <1>1, <2>1, <2>2, TailStagesKept, WaitStagesKept, OrderKept, NothingComesAfter DEF SessionInv
<1>2. CASE UNCHANGED sessionVars
  <2>1. SessionTypeOK'
    BY <1>2 DEF SessionInv, SessionTypeOK, sessionVars, childVars, reapVars, tailVars, consVars,
                killVars, waitVars
  <2>2. Elsewhere /\ UNCHANGED <<alive, reaped, procDone, wait, discard, chan, received, consumer>>
    BY <1>2 DEF Elsewhere, sessionVars, childVars, reapVars, tailVars, consVars, killVars, waitVars
  <2>3. TailStages'
    BY <2>2, ElsewhereKeeps DEF SessionInv
  <2>4. Exited'
    BY <2>2 DEF SessionInv, Exited
  <2>5. WaitStages'
    BY <2>2 DEF SessionInv, WaitStages, Elsewhere
  <2>6. DeliveredInOrder' /\ NothingAfterClose'
    BY <2>2 DEF SessionInv, DeliveredInOrder, NothingAfterClose, Elsewhere, Received
  <2> QED
    BY <2>1, <2>3, <2>4, <2>5, <2>6 DEF SessionInv
<1> QED
  BY <1>1, <1>2

LEMMA InvHolds == SessionSpec => []SessionInv
BY InvInit, InvKept, PTL DEF SessionSpec

(* Every variable keeps its type: the tailer never reads beyond the end of *)
(* the file, cuts no line that is not in it, and the channel holds no more *)
(* than its capacity.                                                      *)
THEOREM SessionTypeCorrect == SessionSpec => []SessionTypeOK
BY InvHolds, PTL DEF SessionInv

(* Until Wait gives up on the events, the consumer and the channel hold    *)
(* exactly the lines the tailer has cut, in file order and without a gap.  *)
THEOREM LinesInOrder == SessionSpec => []DeliveredInOrder
BY InvHolds, PTL DEF SessionInv

LEMMA DrainedHasAll == SessionInv => DrainedIsComplete
<1> SUFFICES ASSUME SessionInv, consumer = "finished", ~discard
             PROVE  received = Received((written + 1) \div 2)
  BY DEF DrainedIsComplete
<1>1. closed /\ chan = <<>>
  BY DEF SessionInv, NothingAfterClose
<1>2. tail \in {"closed", "done"}
  BY <1>1 DEF SessionInv, TailStages, ClosedLast
<1>3. offset = written /\ sent = (offset + 1) \div 2
  BY <1>2 DEF SessionInv, TailStages, ReadAll, SentSoFar
<1>4. received \in Seq(Numbers) /\ received \o chan = Received(sent)
  BY DEF SessionInv, SessionTypeOK, DeliveredInOrder, Numbers
<1>5. received \o <<>> = received
  BY <1>4
<1> QED
  BY <1>1, <1>3, <1>4, <1>5

(* A consumer that saw Events close before Wait has every line of the      *)
(* file, a last one without its newline included.                          *)
THEOREM DrainIsComplete == SessionSpec => []DrainedIsComplete
BY DrainedHasAll, InvHolds, PTL

(* Events is closed only when the child has been reaped, and when Wait     *)
(* returns the child is gone, the tailer has ended and Events is closed.   *)
THEOREM WaitIsClean == SessionSpec => []WaitLeavesNothing
<1>1. SessionInv /\ closed => procDone
  BY DEF SessionInv, TailStages, ClosedLast, SeenExit
<1>2. ASSUME SessionInv, wait = "done"
      PROVE  Child \notin alive /\ tail = "done" /\ closed
  <2>1. procDone /\ tail = "done"
    BY <1>2 DEF SessionInv, WaitStages
  <2>2. Child \notin alive
    BY <1>2, <2>1 DEF SessionInv, Exited
  <2>3. closed
    BY <1>2, <2>1 DEF SessionInv, TailStages, ClosedLast
  <2> QED
    BY <2>1, <2>2, <2>3
<1>3. SessionInv => WaitLeavesNothing
  BY <1>1, <1>2 DEF WaitLeavesNothing
<1> QED
  BY <1>3, InvHolds, PTL

(***************************************************************************)
(* A session is an event stream                                            *)
(*                                                                         *)
(* Once Wait gives lines up, the events are no longer all the lines, but   *)
(* they still ascend: what is in the channel comes after what was taken.   *)
(***************************************************************************)
LastTaken == IF received = <<>> THEN 0 ELSE received[Len(received)]

Ascending ==
    /\ LastTaken \in 0 .. sent
    /\ \A i \in 1 .. Len(chan) : chan[i] \in LastTaken + 1 .. sent
    /\ \A i, j \in 1 .. Len(chan) : i < j => chan[i] < chan[j]

LEMMA InitAscends == SessionInit => Ascending
BY DEF SessionInit, Ascending, LastTaken

LEMMA AscendingKept ==
    ASSUME SessionInv, Ascending, SessionNext
    PROVE  Ascending'
<1>1. /\ received \in Seq(Numbers) /\ chan \in Seq(Numbers)
      /\ sent \in Nat /\ Numbers \subseteq Nat
  BY SessionAssumption DEF SessionInv, SessionTypeOK, Numbers
<1>2. CASE UNCHANGED <<sent, chan, received>>
  BY <1>2 DEF Ascending, LastTaken
<1>3. CASE Tailer
  <2>1. received' = received
    BY <1>3, TailerFrame DEF consVars
  <2>2. CASE Emit /\ sent \in 0 .. MaxLines
    <3>1. sent' = sent + 1 /\ (chan' = chan \/ chan' = Append(chan, sent + 1))
      BY <2>2 DEF Emit
    <3>2. LastTaken' = LastTaken /\ LastTaken \in Nat /\ LastTaken \in 0 .. sent + 1
      BY <1>1, <2>1 DEF Ascending, LastTaken
    <3>3. \A i \in 1 .. Len(chan) : chan[i] \in LastTaken + 1 .. sent /\ chan[i] \in LastTaken + 1 .. sent + 1
      BY <1>1, <3>2 DEF Ascending
    <3>4. CASE chan' = chan
      BY <3>1, <3>2, <3>3, <3>4 DEF Ascending
    <3>5. CASE chan' = Append(chan, sent + 1)
      <4>1. /\ Len(chan') = Len(chan) + 1 /\ Len(chan) \in Nat
            /\ \A i \in 1 .. Len(chan) : chan'[i] = chan[i]
            /\ chan'[Len(chan) + 1] = sent + 1
        BY <1>1, <3>5
      <4>2. sent + 1 \in LastTaken + 1 .. sent + 1
        BY <1>1, <3>2 DEF Ascending
      <4>3. \A i \in 1 .. Len(chan') : i \in 1 .. Len(chan) \/ i = Len(chan) + 1
        BY <4>1
      <4>4. \A i \in 1 .. Len(chan') : chan'[i] \in LastTaken + 1 .. sent + 1
        BY <3>3, <4>1, <4>2, <4>3
      <4>5. \A i, j \in 1 .. Len(chan') : i < j => chan'[i] < chan'[j]
        <5> SUFFICES ASSUME NEW i \in 1 .. Len(chan'), NEW j \in 1 .. Len(chan'), i < j
                     PROVE  chan'[i] < chan'[j]
          OBVIOUS
        <5>1. i \in 1 .. Len(chan)
          BY <4>1
        <5>2. CASE j \in 1 .. Len(chan)
          BY <4>1, <5>1, <5>2 DEF Ascending
        <5>3. CASE j = Len(chan) + 1
          <6>1. chan'[i] = chan[i] /\ chan'[j] = sent + 1
            BY <4>1, <5>1, <5>3
          <6>2. chan[i] \in LastTaken + 1 .. sent
            BY <3>3, <5>1
          <6>3. chan[i] < sent + 1
            BY <1>1, <3>2, <6>2
          <6> QED
            BY <6>1, <6>3
        <5> QED
          BY <4>3, <5>2, <5>3
      <4> QED
        BY <3>1, <3>2, <4>4, <4>5 DEF Ascending
    <3> QED
      BY <3>1, <3>4, <3>5
  <2> QED
    BY <1>2, <1>3, <2>1, <2>2, TailerHandsOver
<1>4. CASE Receive
  <2>1. /\ chan # <<>> /\ received' = Append(received, Head(chan)) /\ chan' = Tail(chan)
        /\ sent' = sent
    BY <1>4 DEF Receive
  <2>2. /\ Len(chan) \in Nat \ {0} /\ Len(chan') = Len(chan) - 1
        /\ \A i \in 1 .. Len(chan') : chan'[i] = chan[i + 1]
        /\ received' # <<>> /\ received'[Len(received')] = chan[1]
    BY <1>1, <2>1
  <2>3. LastTaken' = chan[1]
    BY <2>2 DEF LastTaken
  <2>4. LastTaken \in 0 .. sent /\ chan[1] \in LastTaken + 1 .. sent
    BY <2>2 DEF Ascending
  <2>5. \A i \in 1 .. Len(chan') : i + 1 \in 1 .. Len(chan) /\ 1 < i + 1
    BY <2>2
  <2>6. \A i \in 1 .. Len(chan') : chan'[i] \in chan[1] + 1 .. sent
    <3> SUFFICES ASSUME NEW i \in 1 .. Len(chan') PROVE chan'[i] \in chan[1] + 1 .. sent
      OBVIOUS
    <3>1. chan[1] < chan[i + 1] /\ chan[i + 1] \in LastTaken + 1 .. sent
      BY <2>2, <2>5 DEF Ascending
    <3> QED
      BY <1>1, <2>2, <2>4, <3>1
  <2>7. \A i, j \in 1 .. Len(chan') : i < j => chan'[i] < chan'[j]
    <3> SUFFICES ASSUME NEW i \in 1 .. Len(chan'), NEW j \in 1 .. Len(chan'), i < j
                 PROVE  chan'[i] < chan'[j]
      OBVIOUS
    <3>1. i + 1 \in 1 .. Len(chan) /\ j + 1 \in 1 .. Len(chan) /\ i + 1 < j + 1
      BY <2>2
    <3>2. chan[i + 1] < chan[j + 1]
      BY <3>1 DEF Ascending
    <3> QED
      BY <2>2, <3>2
  <2> QED
    BY <1>1, <2>1, <2>3, <2>4, <2>6, <2>7 DEF Ascending
<1>5. CASE SeeClose \/ Abandon
  BY <1>2, <1>5 DEF SeeClose, Abandon, tailVars
<1> QED
  BY <1>2, <1>3, <1>4, <1>5, EventsAlone

(* The first byte of a line is a line for the consumer, its second is not. *)
LEMMA HalvesUp ==
    ASSUME NEW n \in 0 .. 2 * MaxLines, n < 2 * MaxLines
    PROVE  \/ (n + 1 + 1) \div 2 = (n + 1) \div 2
           \/ (n + 1 + 1) \div 2 = (n + 1) \div 2 + 1 /\ (n + 1) \div 2 < MaxLines
<1>1. MaxLines \in Nat /\ n \in Int
  BY SessionAssumption
<1>2. PICK h \in Int : n = 2 * h \/ n = 2 * h + 1
  <2>1. n = 2 * (n \div 2) \/ n = 2 * (n \div 2) + 1
    BY <1>1
  <2>2. n \div 2 \in Int
    BY <1>1
  <2> QED
    BY <2>1, <2>2
<1>3. CASE n = 2 * h
  <2>1. (n + 1) \div 2 = h /\ (n + 1 + 1) \div 2 = h + 1 /\ h < MaxLines
    BY <1>1, <1>3
  <2> QED
    BY <2>1
<1>4. CASE n = 2 * h + 1
  <2>1. (n + 1) \div 2 = h + 1 /\ (n + 1 + 1) \div 2 = h + 1
    BY <1>1, <1>4
  <2> QED
    BY <2>1
<1> QED
  BY <1>2, <1>3, <1>4

(* No line is handed over before it is in the file.                        *)
LEMMA SentIsWritten ==
    ASSUME SessionInv
    PROVE  /\ (written + 1) \div 2 \in Nat
           /\ sent \in 0 .. (written + 1) \div 2
<1>1. /\ offset \in 0 .. written /\ written \in 0 .. 2 * MaxLines /\ offset \in 0 .. 2 * MaxLines
      /\ sent \in Nat /\ SentSoFar /\ MaxLines \in Nat
  BY SessionAssumption DEF SessionInv, SessionTypeOK, TailStages
<1>2. (offset + 1) \div 2 <= (written + 1) \div 2 /\ (written + 1) \div 2 \in Nat /\ (offset + 1) \div 2 \in Nat
  BY <1>1
<1>3. Lines(offset) <= (offset + 1) \div 2 /\ Lines(offset) \in Nat
  BY <1>1 DEF Lines
<1>4. sent = (offset + 1) \div 2 \/ sent <= Lines(offset)
  BY <1>1 DEF SentSoFar
<1> QED
  BY <1>1, <1>2, <1>3, <1>4

(* The line the consumer takes is the next one, or a later one if lines    *)
(* are being given up.                                                     *)
LEMMA TakesTheNext ==
    ASSUME SessionInv, Ascending, chan # <<>>
    PROVE  /\ Head(chan) \in LastTaken + 1 .. (written + 1) \div 2
           /\ discard \/ Head(chan) = LastTaken + 1
<1>1. /\ received \in Seq(Numbers) /\ chan \in Seq(Numbers)
      /\ sent \in Nat /\ Numbers \subseteq Nat
  BY SessionAssumption DEF SessionInv, SessionTypeOK, Numbers
<1>2. Len(chan) \in Nat \ {0} /\ Head(chan) = chan[1] /\ 1 \in 1 .. Len(chan)
  BY <1>1
<1>3. LastTaken \in 0 .. sent /\ chan[1] \in LastTaken + 1 .. sent
  BY <1>2 DEF Ascending
<1>4. Head(chan) \in LastTaken + 1 .. (written + 1) \div 2
  BY <1>1, <1>2, <1>3, SentIsWritten
<1>5. ASSUME ~discard PROVE Head(chan) = LastTaken + 1
  <2> DEFINE all == received \o chan
             n == Len(received)
  <2>1. all = Received(sent)
    BY <1>5 DEF SessionInv, DeliveredInOrder
  <2>2. /\ n \in Nat /\ Len(all) = n + Len(chan) /\ all[n + 1] = chan[1]
        /\ n > 0 => all[n] = received[n]
    BY <1>1, <1>2
  <2>3. Len(all) = sent /\ \A i \in 1 .. sent : all[i] = i
    BY <1>1, <2>1 DEF Received
  <2>4. chan[1] = n + 1 /\ (n > 0 => received[n] = n)
    <3>1. n + 1 \in 1 .. sent /\ (n > 0 => n \in 1 .. sent)
      BY <1>1, <1>2, <2>2, <2>3
    <3> HIDE DEF all, n
    <3> QED
      BY <2>2, <2>3, <3>1
  <2>5. LastTaken = n
    BY <1>1, <2>4 DEF LastTaken
  <2> QED
    BY <1>2, <2>4, <2>5
<1> QED
  BY <1>4, <1>5

(* At the close the last line taken is the last line of the file.          *)
LEMMA EndsAtTheLast ==
    ASSUME SessionInv, chan = <<>>, closed
    PROVE  procDone /\ (discard \/ LastTaken = (written + 1) \div 2)
<1>1. received \in Seq(Numbers) /\ sent \in Nat
  BY SessionAssumption DEF SessionInv, SessionTypeOK, Numbers
<1>2. tail \in {"closed", "done"}
  BY DEF SessionInv, TailStages, ClosedLast
<1>3. procDone
  BY <1>2 DEF SessionInv, TailStages, SeenExit
<1>4. sent = (written + 1) \div 2
  BY <1>2 DEF SessionInv, TailStages, ReadAll, SentSoFar
<1>5. ASSUME ~discard PROVE LastTaken = sent
  <2>1. received \o <<>> = Received(sent)
    BY <1>5 DEF SessionInv, DeliveredInOrder
  <2>2. received = Received(sent)
    BY <1>1, <2>1
  <2> QED
    BY <1>1, <2>2 DEF LastTaken, Received
<1> QED
  BY <1>3, <1>4, <1>5

LEMMA StreamStarts == SessionInit => Stream!StreamInit
<1>1. (0 + 1) \div 2 = 0
  OBVIOUS
<1>2. SessionInit => (consumer = "finished") = FALSE /\ (~procDone) = TRUE
  BY DEF SessionInit
<1> QED
  BY <1>1, <1>2 DEF SessionInit, Stream!StreamInit

(* A step that leaves alone what the stream shows is a stutter.            *)
LEMMA Stutters ==
    ASSUME UNCHANGED <<written, received>>,
           procDone' <=> procDone, discard' <=> discard,
           (consumer' = "finished") <=> (consumer = "finished")
    PROVE  UNCHANGED Stream!streamVars
BY DEF Stream!streamVars

LEMMA ShowsNothing ==
    ASSUME \/ Reap \/ \E m \in Members : Exits(m)
           \/ Tailer \/ Abandon
           \/ \E k \in Callers : KillEnter(k) \/ KillSteps(k)
           \/ GraceOver \/ GraceKill \/ WaitStart
           \/ WaitExited \/ WaitCtxDone \/ WaitReaped \/ WaitJoinTail \/ WaitJoinKill
           \/ \E why \in {"canceled", "deadline"} : CtxDone(why)
    PROVE  UNCHANGED Stream!streamVars
<1>1. CASE Reap \/ \E m \in Members : Exits(m)
  BY <1>1, Stutters DEF Reap, Exits, childVars, reapVars, consVars, waitVars
<1>2. CASE Tailer
  BY <1>2, TailerFrame, Stutters DEF childVars, reapVars, consVars, waitVars
<1>3. CASE Abandon
  <2>1. consumer = "draining" /\ consumer' = "abandoned"
    BY <1>3 DEF Abandon
  <2> QED
    BY <1>3, <2>1, Stutters DEF Abandon, childVars, reapVars, waitVars
<1>4. CASE \E k \in Callers : KillEnter(k) \/ KillSteps(k)
  BY <1>4, Stutters DEF KillEnter, KillSteps, KillTerminate, KillStartGrace, KillAgain, Signal,
                        childVars, reapVars, consVars, waitVars
<1>5. CASE GraceOver \/ GraceKill
  <2>1. UNCHANGED <<written, received, procDone, discard, consumer>>
    BY <1>5 DEF GraceOver, GraceKill, Signal, childVars, reapVars, consVars, waitVars
  <2> QED
    BY <2>1, Stutters
<1>6. CASE WaitStart \/ WaitExited \/ WaitCtxDone \/ WaitReaped \/ WaitJoinTail \/ WaitJoinKill
  <2>1. UNCHANGED <<written, received, procDone, discard, consumer>>
    BY <1>6 DEF WaitStart, WaitExited, WaitCtxDone, WaitReaped, WaitJoinTail, WaitJoinKill,
                childVars, reapVars, consVars
  <2> QED
    BY <2>1, Stutters
<1>7. CASE \E why \in {"canceled", "deadline"} : CtxDone(why)
  BY <1>7, Stutters DEF CtxDone, childVars, reapVars, consVars, waitVars
<1> QED
  BY <1>1, <1>2, <1>3, <1>4, <1>5, <1>6, <1>7

LEMMA StreamStep ==
    ASSUME SessionInv, Ascending, SessionNext
    PROVE  Stream!StreamNext \/ UNCHANGED Stream!streamVars
<1> Waiter \in Callers
  BY DEF Callers
<1>1. CASE Write
  <2>1. /\ written' = written + 1 /\ written < 2 * MaxLines /\ Child \in alive
        /\ UNCHANGED <<procDone, discard, received, consumer>>
    BY <1>1 DEF Write, reapVars, consVars, waitVars
  <2>2. written \in 0 .. 2 * MaxLines
    BY DEF SessionInv, SessionTypeOK
  <2>3. ~procDone
    BY <2>1 DEF SessionInv, Exited
  <2>4. CASE (written + 1 + 1) \div 2 = (written + 1) \div 2
    <3>1. (written' + 1) \div 2 = (written + 1) \div 2
      BY <2>1, <2>4
    <3> QED
      BY <2>1, <3>1 DEF Stream!streamVars
  <2>5. CASE /\ (written + 1 + 1) \div 2 = (written + 1) \div 2 + 1
             /\ (written + 1) \div 2 < MaxLines
    <3>1. (written' + 1) \div 2 = (written + 1) \div 2 + 1
      BY <2>1, <2>5
    <3>2. Stream!Produce
      BY <2>1, <2>3, <2>5, <3>1 DEF Stream!Produce
    <3> QED
      BY <3>2 DEF Stream!StreamNext
  <2> QED
    BY <2>1, <2>2, <2>4, <2>5, HalvesUp
<1>2. CASE CloseProcDone
  <2>1. /\ ~procDone /\ procDone' = TRUE
        /\ UNCHANGED <<written, discard, received, consumer>>
    BY <1>2 DEF CloseProcDone, childVars, consVars, waitVars
  <2>2. Stream!Stop
    BY <2>1 DEF Stream!Stop
  <2> QED
    BY <2>2 DEF Stream!StreamNext
<1>3. CASE WaitDiscard
  <2>1. /\ discard' = TRUE /\ wait = "discard"
        /\ UNCHANGED <<written, procDone, received, consumer>>
    BY <1>3 DEF WaitDiscard, childVars, reapVars, consVars
  <2>2. procDone
    BY <2>1 DEF SessionInv, WaitStages
  <2>3. Stream!GiveUp
    BY <2>1, <2>2 DEF Stream!GiveUp
  <2> QED
    BY <2>3 DEF Stream!StreamNext
<1>4. CASE Receive
  <2>1. /\ consumer = "draining" /\ chan # <<>> /\ received' = Append(received, Head(chan))
        /\ UNCHANGED <<written, procDone, discard, consumer>>
    BY <1>4 DEF Receive, childVars, reapVars, waitVars
  <2>2. /\ Head(chan) \in LastTaken + 1 .. (written + 1) \div 2
        /\ discard \/ Head(chan) = LastTaken + 1
    BY <2>1, TakesTheNext
  <2>3. LastTaken = Stream!Last
    BY DEF LastTaken, Stream!Last
  <2>4. Stream!Deliver
    BY <2>1, <2>2, <2>3 DEF Stream!Deliver
  <2> QED
    BY <2>4 DEF Stream!StreamNext
<1>5. CASE SeeClose
  <2>1. /\ chan = <<>> /\ closed /\ consumer' = "finished"
        /\ UNCHANGED <<written, procDone, discard, received>>
    BY <1>5 DEF SeeClose, childVars, reapVars, waitVars
  <2>2. procDone /\ (discard \/ LastTaken = (written + 1) \div 2)
    BY <2>1, EndsAtTheLast
  <2>3. LastTaken = Stream!Last
    BY DEF LastTaken, Stream!Last
  <2>4. Stream!End
    BY <2>1, <2>2, <2>3 DEF Stream!End
  <2> QED
    BY <2>4 DEF Stream!StreamNext
<1> QED
  BY <1>1, <1>2, <1>3, <1>4, <1>5, ShowsNothing DEF SessionNext, Waiting, Callers

(* Every step of a session is a step of the event stream, or none: the     *)
(* consumer sees the lines in order and at most once, all of them unless   *)
(* Wait gave some up after the process's end, and the end after that end.  *)
THEOREM SessionIsAnEventStream == SessionSpec => ImplementsEventStream
<1> DEFINE Both == SessionInv /\ Ascending
<1>1. SessionInit => Both
  BY InvInit, InitAscends
<1>2. Both /\ [SessionNext]_sessionVars => Both'
  <2> SUFFICES ASSUME Both, [SessionNext]_sessionVars PROVE Both'
    OBVIOUS
  <2>1. SessionInv'
    BY InvKept
  <2>2. CASE SessionNext
    BY <2>1, <2>2, AscendingKept
  <2>3. CASE UNCHANGED sessionVars
    <3>1. UNCHANGED <<sent, chan, received>>
      BY <2>3 DEF sessionVars, tailVars, consVars
    <3>2. Ascending'
      BY <3>1 DEF Ascending, LastTaken
    <3> QED
      BY <2>1, <3>2
  <2> QED
    BY <2>2, <2>3
<1>3. Both /\ [SessionNext]_sessionVars => [Stream!StreamNext]_(Stream!streamVars)
  <2> SUFFICES ASSUME Both, [SessionNext]_sessionVars
               PROVE  Stream!StreamNext \/ UNCHANGED Stream!streamVars
    OBVIOUS
  <2>1. CASE SessionNext
    BY <2>1, StreamStep
  <2>2. CASE UNCHANGED sessionVars
    BY <2>2, Stutters DEF sessionVars, childVars, reapVars, consVars, waitVars
  <2> QED
    BY <2>1, <2>2
<1> HIDE DEF Both
<1> QED
  BY <1>1, <1>2, <1>3, StreamStarts, PTL DEF SessionSpec, ImplementsEventStream, Stream!EventStreamSpec
===============================================================================
