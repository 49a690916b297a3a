---------------------------- MODULE MCExperiment ----------------------------
(* Instances of Experiment for TLC: an experiment of two arms beside a     *)
(* `run` of the profile of one of them, or two such runs.                  *)
EXTENDS Experiment

Both == {"exp", "run"}
BothKind == [c \in Both |-> IF c = "exp" THEN "experiment" ELSE "run"]
BothArms == [c \in Both |-> IF c = "exp" THEN <<"base", "new">> ELSE <<"only">>]
BothHash == [c \in Both |-> IF c = "exp"
                            THEN [l \in {"base", "new"} |-> l]
                            ELSE [l \in {"only"} |-> "base"]]
BothTasks == [c \in Both |-> IF c = "exp" THEN <<"t1">> ELSE <<"t2">>]
BothRepeat == [c \in Both |-> IF c = "exp" THEN 2 ELSE 1]

TwoRuns == {"run1", "run2"}
RunKind == [c \in TwoRuns |-> "run"]
RunArms == [c \in TwoRuns |-> <<"only">>]
RunHash == [c \in TwoRuns |-> [l \in {"only"} |-> "base"]]
RunTasks == [c \in TwoRuns |-> <<"t1">>]
RunRepeat == [c \in TwoRuns |-> 1]
NoFaults == [c \in TwoRuns |-> {}]
BothFaults == [c \in Both |-> IF c = "exp" THEN AllFaults ELSE {"cancel"}]
BothOutcomes == [c \in Both |-> IF c = "run" THEN AllOutcomes
                                ELSE AllOutcomes \ {"failed"}]
AnyOutcome == [c \in TwoRuns |-> AllOutcomes]
=============================================================================
