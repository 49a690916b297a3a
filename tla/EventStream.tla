---------------------------- MODULE EventStream ----------------------------
(***************************************************************************)
(* What a Session promises the consumer of Events, without its goroutines, *)
(* polls, buffer and signals: the lines of a process, in order, each at    *)
(* most once; all of them unless Wait has been called before the stream    *)
(* was drained; and the end of the stream only after the process's end.    *)
(***************************************************************************)
EXTENDS Integers, Sequences

CONSTANT MaxLines       \* bound: lines the process writes

VARIABLES
    lines,      \* lines the process has written
    running,    \* the process has not been reaped
    lossy,      \* Wait has been called and gives up undelivered lines
    delivered,  \* numbers of the lines the consumer has taken
    ended       \* the consumer has seen the end of the stream

streamVars == <<lines, running, lossy, delivered, ended>>

StreamInit ==
    /\ lines = 0 /\ running = TRUE /\ lossy = FALSE
    /\ delivered = <<>> /\ ended = FALSE

Last == IF delivered = <<>> THEN 0 ELSE delivered[Len(delivered)]

Produce ==
    /\ running /\ lines < MaxLines
    /\ lines' = lines + 1
    /\ UNCHANGED <<running, lossy, delivered, ended>>

Stop ==
    /\ running /\ running' = FALSE
    /\ UNCHANGED <<lines, lossy, delivered, ended>>

(* Wait gives up only when the process has ended.                          *)
GiveUp ==
    /\ ~running /\ lossy' = TRUE
    /\ UNCHANGED <<lines, running, delivered, ended>>

(* The next line; a later one only when lines are being given up.          *)
Deliver ==
    /\ ~ended
    /\ \E n \in Last + 1 .. lines :
         /\ lossy \/ n = Last + 1
         /\ delivered' = Append(delivered, n)
    /\ UNCHANGED <<lines, running, lossy, ended>>

End ==
    /\ ~running /\ (lossy \/ Last = lines)
    /\ ended' = TRUE
    /\ UNCHANGED <<lines, running, lossy, delivered>>

StreamNext == Produce \/ Stop \/ GiveUp \/ Deliver \/ End

EventStreamSpec ==
    StreamInit /\ [][StreamNext]_streamVars
=============================================================================
