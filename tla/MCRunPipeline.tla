--------------------------- MODULE MCRunPipeline ---------------------------
(* Instances of RunPipeline for TLC: at most one helper process, one or    *)
(* two lines through a buffer of one, one or two validators.               *)
EXTENDS RunPipeline

NoHelper == {}
RunKillers == {"watchdog", "watcher", "runner"}
NoFaults == {}
Clash == {"clash"}
IoOrClash == {"io", "clash"}
Missing == {"missing"}
=============================================================================
