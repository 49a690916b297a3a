----------------------------- MODULE MCSession -----------------------------
(* Instances of Session for TLC: at most one helper process, one goroutine *)
(* that may call Kill, two lines through a buffer of one.                  *)
EXTENDS Session

OneHelper == {"mcp"}
NoHelper == {}
OneKiller == {"watchdog"}
NoFaults == {}
=============================================================================
