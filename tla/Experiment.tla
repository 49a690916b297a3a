----------------------------- MODULE Experiment -----------------------------
(***************************************************************************)
(* The commands that drive runs, `ocbench experiment run` (package         *)
(* experiment, Run) and `ocbench run` (internal/cli/run.go, runSuite), and *)
(* the store they share: each command registers its experiment, its        *)
(* profiles and its arms, then runs every step of its plan; the runner     *)
(* records a run in five transactions.  Commands run as processes of their *)
(* own on one SQLite database, which makes each transaction atomic.        *)
(*                                                                         *)
(* A run itself is one step here (RunPipeline shows its inside): it yields *)
(* a status, or an infrastructure error.                                   *)
(***************************************************************************)
EXTENDS Integers, Sequences, FiniteSets, SequencesExt

CONSTANTS
    Commands,       \* processes, each one command
    Kind,           \* Kind[c]: "run" or "experiment"
    Arms,           \* Arms[c]: the labels of c's arms, in order
    Hash,           \* Hash[c]: the fingerprint of each arm's profile
    Tasks,          \* Tasks[c]: the selected tasks, in suite order
    Repeat,         \* Repeat[c]: how often each task runs per arm
    Outcomes,       \* Outcomes[c]: how its runs may end, see AllOutcomes
    Faults          \* Faults[c]: what may happen to c, a subset of AllFaults

(* "cancel": Ctrl-C; "crash": the process dies; "busy": a transaction      *)
(* fails; "run error": runner.Run fails before it records anything.        *)
AllFaults == {"cancel", "crash", "busy", "run error"}

(* "failed": a validator failed or the process did (a run interrupted      *)
(* after a validator failed leaves the same rows but for its status);      *)
(* "interrupted": a timeout or an error although the validators that ran   *)
(* passed; "not started": the session did not start, nothing was measured. *)
AllOutcomes == {"passed", "failed", "interrupted", "not started"}

ASSUME ExperimentAssumption ==
    /\ \A c \in Commands :
         /\ Faults[c] \subseteq AllFaults /\ Outcomes[c] \subseteq AllOutcomes
         /\ Kind[c] \in {"run", "experiment"}
         /\ Arms[c] \in Seq(ToSet(Arms[c])) /\ Arms[c] # <<>>
         /\ IsInjective(Arms[c])
         /\ DOMAIN Hash[c] = ToSet(Arms[c])
         /\ Tasks[c] \in Seq(ToSet(Tasks[c])) /\ Tasks[c] # <<>>
         /\ IsInjective(Tasks[c])
         /\ Repeat[c] \in Nat \ {0}

VARIABLES
    experiments,    \* table experiments: commands (an experiment has their id)
    profiles,       \* table profiles: records [id, hash]
    arms,           \* table experiment_arms: records [cmd, label, profile]
    suites,         \* table suites: the suite's row is there
    tasks,          \* table tasks
    runs,           \* table runs: records [cmd, step, profile, status]
    metrics,        \* table run_metrics: records [cmd, step, success]
    validations,    \* table run_validations: records [cmd, step, failed]
    pc,             \* where each command is
    arm,            \* the arm a command is registering
    identity,       \* Profile.ID of each arm, <<>> at first
    step,           \* the step of the plan a command is at
    outcome,        \* how the run a command is recording ended
    ctx,            \* the command's context
    atCancel        \* history: the steps started when the context was cancelled

tables == <<experiments, profiles, arms, suites, tasks, runs, metrics,
            validations>>
locals == <<pc, arm, identity, step, outcome, ctx, atCancel>>
vars == <<tables, locals>>

PCs == {"experiment", "look up", "insert profile", "insert arm", "next step",
        "running", "suite row", "task row", "run row", "metrics rows",
        "validations rows", "recorded", "done", "error", "dead"}
Registering == {"experiment", "look up", "insert profile", "insert arm",
                "next step"}
Stopped == {"done", "error", "dead"}

(***************************************************************************)
(* BuildPlan: task-major, the arms alternating inside each repeat.         *)
(***************************************************************************)

(* Mutant: each arm runs all its repeats before the next one starts.       *)
PlanStep_ArmMajor(c, n) ==
    LET a == Len(Arms[c])
        r == Repeat[c]
    IN [task   |-> Tasks[c][((n - 1) \div (a * r)) + 1],
        arm    |-> Arms[c][(((n - 1) \div r) % a) + 1],
        repeat |-> (n - 1) % r]

PlanStep(c, n) ==
    LET a == Len(Arms[c])
    IN [task   |-> Tasks[c][((n - 1) \div (a * Repeat[c])) + 1],
        arm    |-> Arms[c][((n - 1) % a) + 1],
        repeat |-> ((n - 1) \div a) % Repeat[c]]

PlanLen(c) == Len(Tasks[c]) * Len(Arms[c]) * Repeat[c]

FreshId(c, label) == <<c, label>>

Init ==
    /\ experiments = {} /\ profiles = {} /\ arms = {} /\ suites = FALSE
    /\ tasks = {} /\ runs = {} /\ metrics = {} /\ validations = {}
    /\ pc = [c \in Commands |->
               IF Kind[c] = "run" THEN "look up" ELSE "experiment"]
    /\ arm = [c \in Commands |-> 1]
    /\ identity = [c \in Commands |-> [l \in ToSet(Arms[c]) |-> <<>>]]
    /\ step = [c \in Commands |-> 1]
    /\ outcome = [c \in Commands |-> "none"]
    /\ ctx = [c \in Commands |-> "live"]
    /\ atCancel = [c \in Commands |-> 0]

(***************************************************************************)
(* The environment                                                         *)
(***************************************************************************)

Cancel(c) ==
    /\ "cancel" \in Faults[c]
    /\ pc[c] \notin Stopped /\ ctx[c] = "live"
    /\ ctx' = [ctx EXCEPT ![c] = "cancelled"]
    /\ atCancel' = [atCancel EXCEPT
                      ![c] = IF pc[c] \in Registering THEN step[c] - 1 ELSE step[c]]
    /\ UNCHANGED <<tables, pc, arm, identity, step, outcome>>

Goto(c, to) == pc' = [pc EXCEPT ![c] = to]

Crash(c) ==
    /\ "crash" \in Faults[c]
    /\ pc[c] \notin Stopped
    /\ Goto(c, "dead")
    /\ UNCHANGED <<tables, arm, identity, step, outcome, ctx, atCancel>>

(* A transaction or a query that fails ends the command: the database is   *)
(* locked, or the context the call was given has ended.  The five          *)
(* transactions of a run are made on a context that does not end with the  *)
(* command's.                                                              *)
OnCommandContext == Registering \ {"next step"}
OnOwnContext == {"suite row", "task row", "run row", "metrics rows",
                 "validations rows"}

StoreFails(c) ==
    /\ \/ "busy" \in Faults[c] /\ pc[c] \in OnCommandContext \cup OnOwnContext
       \/ ctx[c] = "cancelled" /\ pc[c] \in OnCommandContext
    /\ Goto(c, "error")
    /\ UNCHANGED <<tables, arm, identity, step, outcome, ctx, atCancel>>

(***************************************************************************)
(* Registration                                                            *)
(***************************************************************************)

Label(c) == Arms[c][arm[c]]
Live(c) == ctx[c] = "live"

InsertExperiment(c) ==
    /\ pc[c] = "experiment" /\ Live(c)
    /\ experiments' = experiments \cup {c}
    /\ Goto(c, IF Kind[c] = "run" THEN "next step" ELSE "look up")
    /\ UNCHANGED <<profiles, arms, suites, tasks, runs, metrics, validations,
                   arm, identity, step, outcome, ctx, atCancel>>

(* What follows a profile: the arm's row, or for `run` the experiment's.   *)
AfterProfile(c) == IF Kind[c] = "run" THEN "experiment" ELSE "insert arm"

(* profile.Persist: the id of the profile that has the hash already ...    *)
LookUp(c) ==
    /\ pc[c] = "look up" /\ Live(c)
    /\ IF \E p \in profiles : p.hash = Hash[c][Label(c)]
       THEN /\ \E p \in profiles :
                 /\ p.hash = Hash[c][Label(c)]
                 /\ identity' = [identity EXCEPT ![c][Label(c)] = p.id]
            /\ Goto(c, AfterProfile(c))
       ELSE /\ identity' = [identity EXCEPT ![c][Label(c)] = FreshId(c, Label(c))]
            /\ Goto(c, "insert profile")
    /\ UNCHANGED <<tables, arm, step, outcome, ctx, atCancel>>

(* ... or a fresh one.  InsertProfile leaves the table alone when the hash *)
(* has been inserted in between, and says nothing.                         *)
InsertProfile(c) ==
    /\ pc[c] = "insert profile" /\ Live(c)
    /\ profiles' = IF \E p \in profiles : p.hash = Hash[c][Label(c)]
                   THEN profiles
                   ELSE profiles \cup {[id |-> identity[c][Label(c)],
                                        hash |-> Hash[c][Label(c)]]}
    /\ Goto(c, AfterProfile(c))
    /\ UNCHANGED <<experiments, arms, suites, tasks, runs, metrics, validations,
                   arm, identity, step, outcome, ctx, atCancel>>

ProfileIds == {p.id : p \in profiles}

(* Mutant: the loop over the arms goes one too far.                        *)
InsertArm_OffByOne(c) ==
    /\ pc[c] = "insert arm" /\ Live(c)
    /\ arms' = arms \cup {[cmd |-> c, label |-> Label(c),
                           profile |-> identity[c][Label(c)]]}
    /\ Goto(c, IF arm[c] <= Len(Arms[c]) THEN "look up" ELSE "next step")
    /\ arm' = [arm EXCEPT ![c] = arm[c] + 1]
    /\ UNCHANGED <<experiments, profiles, suites, tasks, runs, metrics,
                   validations, identity, step, outcome, ctx, atCancel>>

(* The foreign keys of the new row must exist.                             *)
InsertArm(c) ==
    /\ pc[c] = "insert arm" /\ Live(c)
    /\ LET id == identity[c][Label(c)] IN
       IF c \in experiments /\ id \in ProfileIds
       THEN /\ arms' = arms \cup {[cmd |-> c, label |-> Label(c), profile |-> id]}
            /\ IF arm[c] < Len(Arms[c])
               THEN Goto(c, "look up") /\ arm' = [arm EXCEPT ![c] = arm[c] + 1]
               ELSE Goto(c, "next step") /\ arm' = arm
       ELSE arms' = arms /\ arm' = arm /\ Goto(c, "error")
    /\ UNCHANGED <<experiments, profiles, suites, tasks, runs, metrics,
                   validations, identity, step, outcome, ctx, atCancel>>

(***************************************************************************)
(* Execution                                                               *)
(***************************************************************************)

(* Mutant: nothing notices the context before the next step.               *)
NextStep_IgnoresContext(c) ==
    /\ pc[c] = "next step"
    /\ Goto(c, IF step[c] > PlanLen(c) THEN "done" ELSE "running")
    /\ UNCHANGED <<tables, arm, identity, step, outcome, ctx, atCancel>>

(* The end of the plan, or its next step.  `run` looks at its context      *)
(* after a step, `experiment run` does not: there runner.Run itself fails  *)
(* on a context that has ended (MaterializeFixture runs git with it).      *)
NextStep(c) ==
    /\ pc[c] = "next step"
    /\ Goto(c, IF step[c] > PlanLen(c) THEN "done"
               ELSE IF Live(c) THEN "running" ELSE "error")
    /\ UNCHANGED <<tables, arm, identity, step, outcome, ctx, atCancel>>

(* runner.Run: a run that was interrupted, or that could not start for it, *)
(* does not pass and does not fail.                                        *)
Execute(c) ==
    /\ pc[c] = "running"
    /\ \E o \in Outcomes[c] :
         /\ Live(c) \/ o \in {"interrupted", "not started"}
         /\ outcome' = [outcome EXCEPT ![c] = o]
    /\ Goto(c, "suite row")
    /\ UNCHANGED <<tables, arm, identity, step, ctx, atCancel>>

RunError(c) ==
    /\ pc[c] = "running"
    /\ "run error" \in Faults[c] \/ ~Live(c)
    /\ Goto(c, "error")
    /\ UNCHANGED <<tables, arm, identity, step, outcome, ctx, atCancel>>

(* persist, transaction by transaction.                                    *)
InsertSuite(c) ==
    /\ pc[c] = "suite row"
    /\ suites' = TRUE
    /\ Goto(c, "task row")
    /\ UNCHANGED <<experiments, profiles, arms, tasks, runs, metrics,
                   validations, arm, identity, step, outcome, ctx,
                   atCancel>>

InsertTask(c) ==
    /\ pc[c] = "task row"
    /\ tasks' = tasks \cup {PlanStep(c, step[c]).task}
    /\ Goto(c, "run row")
    /\ UNCHANGED <<experiments, profiles, arms, suites, runs, metrics,
                   validations, arm, identity, step, outcome, ctx,
                   atCancel>>

Status(c) == IF outcome[c] \in {"passed", "failed"} THEN outcome[c] ELSE "error"

(* Mutant: every run is given the profile of the first arm.                *)
InsertRun_FirstProfile(c) ==
    /\ pc[c] = "run row"
    /\ runs' = runs \cup {[cmd |-> c, step |-> step[c],
                           profile |-> identity[c][Arms[c][1]],
                           status |-> Status(c)]}
    /\ Goto(c, "metrics rows")
    /\ UNCHANGED <<experiments, profiles, arms, suites, tasks, metrics,
                   validations, arm, identity, step, outcome, ctx,
                   atCancel>>

(* The foreign keys of the run's row must exist.                           *)
InsertRun(c) ==
    /\ pc[c] = "run row"
    /\ LET l  == PlanStep(c, step[c]).arm
           id == identity[c][l]
       IN IF /\ c \in experiments /\ suites /\ id \in ProfileIds
             /\ Kind[c] = "run" \/ \E a \in arms : a.cmd = c /\ a.label = l
          THEN /\ runs' = runs \cup {[cmd |-> c, step |-> step[c],
                                      profile |-> id, status |-> Status(c)]}
               /\ Goto(c, "metrics rows")
          ELSE runs' = runs /\ Goto(c, "error")
    /\ UNCHANGED <<experiments, profiles, arms, suites, tasks, metrics,
                   validations, arm, identity, step, outcome, ctx,
                   atCancel>>

(* Mutant: success says whether the validators passed.                     *)
Success_ByValidators(c) == outcome[c] # "failed"

(* derivedMetrics: success follows the status of the run.                  *)
Success(c) == Status(c) = "passed"

(* Mutant: the metrics' transaction is left out.                           *)
InsertRunMetrics_Skipped(c) ==
    /\ pc[c] = "metrics rows"
    /\ Goto(c, "validations rows")
    /\ UNCHANGED <<tables, arm, identity, step, outcome, ctx, atCancel>>

(* A run whose session did not start has no metrics and no validations.    *)
InsertRunMetrics(c) ==
    /\ pc[c] = "metrics rows"
    /\ metrics' = IF outcome[c] = "not started" THEN metrics
                  ELSE metrics \cup {[cmd |-> c, step |-> step[c],
                                      success |-> Success(c)]}
    /\ Goto(c, "validations rows")
    /\ UNCHANGED <<experiments, profiles, arms, suites, tasks, runs,
                   validations, arm, identity, step, outcome, ctx,
                   atCancel>>

InsertRunValidations(c) ==
    /\ pc[c] = "validations rows"
    /\ validations' = IF outcome[c] = "not started" THEN validations
                      ELSE validations \cup {[cmd |-> c, step |-> step[c],
                                              failed |-> outcome[c] = "failed"]}
    /\ Goto(c, "recorded")
    /\ UNCHANGED <<experiments, profiles, arms, suites, tasks, runs, metrics,
                   arm, identity, step, outcome, ctx, atCancel>>

Recorded(c) ==
    /\ pc[c] = "recorded"
    /\ step' = [step EXCEPT ![c] = step[c] + 1]
    /\ outcome' = [outcome EXCEPT ![c] = "none"]
    /\ Goto(c, IF Kind[c] = "run" /\ ~Live(c) THEN "error" ELSE "next step")
    /\ UNCHANGED <<tables, arm, identity, ctx, atCancel>>

(* A command's own steps.                                                  *)
Advance(c) ==
    \/ InsertExperiment(c) \/ LookUp(c) \/ InsertProfile(c) \/ InsertArm(c)
    \/ NextStep(c) \/ Execute(c) \/ RunError(c)
    \/ InsertSuite(c) \/ InsertTask(c) \/ InsertRun(c)
    \/ InsertRunMetrics(c) \/ InsertRunValidations(c) \/ Recorded(c)

Next == \E c \in Commands : Advance(c) \/ StoreFails(c) \/ Cancel(c) \/ Crash(c)

Spec == Init /\ [][Next]_vars

(***************************************************************************)
(* The readers                                                             *)
(***************************************************************************)

Of(rows, r) == {x \in rows : x.cmd = r.cmd /\ x.step = r.step}

(* store.RunSucceeded: the success metric, or the status without it.       *)
RunSucceeded(r) ==
    IF Of(metrics, r) = {} THEN r.status = "passed"
                           ELSE \E m \in Of(metrics, r) : m.success

(* aggregate.go, runSucceeded: a validation that failed vetoes.            *)
AggregateSucceeded(r) ==
    (\A v \in Of(validations, r) : ~v.failed) /\ RunSucceeded(r)

(***************************************************************************)
(* Properties                                                              *)
(***************************************************************************)

Ids == {FreshId(c, l) : c \in Commands,
                        l \in UNION {ToSet(Arms[k]) : k \in Commands}}
Steps(c) == 1 .. PlanLen(c)

(* Every variable has its type.                                            *)
TypeOK ==
    /\ experiments \subseteq Commands
    /\ profiles \subseteq [id : Ids, hash : UNION {Range(Hash[c]) : c \in Commands}]
    /\ \A a \in arms : /\ a.cmd \in Commands /\ a.label \in ToSet(Arms[a.cmd])
                       /\ a.profile \in Ids
    /\ suites \in BOOLEAN
    /\ tasks \subseteq UNION {ToSet(Tasks[c]) : c \in Commands}
    /\ \A r \in runs : /\ r.cmd \in Commands /\ r.step \in Steps(r.cmd)
                       /\ r.profile \in Ids /\ r.status \in {"passed", "failed", "error"}
    /\ \A m \in metrics \cup validations :
         m.cmd \in Commands /\ m.step \in Steps(m.cmd)
    /\ pc \in [Commands -> PCs]
    /\ arm \in [Commands -> Nat] /\ step \in [Commands -> Nat]
    /\ DOMAIN identity = Commands
    /\ \A c \in Commands :
         /\ arm[c] \in 1 .. Len(Arms[c])
         /\ identity[c] \in [ToSet(Arms[c]) -> Ids \cup {<<>>}]
         /\ step[c] \in 1 .. PlanLen(c) + 1
    /\ outcome \in [Commands -> AllOutcomes \cup {"none"}]
    /\ ctx \in [Commands -> {"live", "cancelled"}]
    /\ atCancel \in [Commands -> Nat]

RunsOf(c) == {r \in runs : r.cmd = c}
Planned(c) == {PlanStep(c, r.step) : r \in RunsOf(c)}

(* However a command ends, the arms of an experiment have been compared on *)
(* equal terms: no arm has two runs more than another, in the whole        *)
(* experiment or on one task.                                              *)
Interleaved ==
    \A c \in Commands : \A T \in SUBSET ToSet(Tasks[c]) :
        LET With(l) == {p \in Planned(c) : p.arm = l /\ p.task \in T}
        IN \A l, k \in ToSet(Arms[c]) :
             Cardinality(With(l)) <= Cardinality(With(k)) + 1

(* A command that completes has run every task as often as asked with      *)
(* every arm, and recorded each run in full.                               *)
DoneIsComplete ==
    \A c \in Commands : pc[c] = "done" =>
        /\ Planned(c) = [task : ToSet(Tasks[c]), arm : ToSet(Arms[c]),
                         repeat : 0 .. Repeat[c] - 1]
        /\ \A r \in RunsOf(c) :
             r.status # "error" => Of(metrics, r) # {} /\ Of(validations, r) # {}

(* The row of a run names a stored profile with the fingerprint of the     *)
(* step's arm, whoever stored it first; in an experiment the arm's row     *)
(* names the same one.                                                     *)
AttributedToItsArm ==
    \A r \in runs :
        LET l == PlanStep(r.cmd, r.step).arm IN
        /\ [id |-> r.profile, hash |-> Hash[r.cmd][l]] \in profiles
        /\ Kind[r.cmd] = "experiment" =>
             [cmd |-> r.cmd, label |-> l, profile |-> r.profile] \in arms

(* A run whose recording was cut short reads as what it was, for both      *)
(* readers of the store: history (RunSucceeded) and the experiment's       *)
(* aggregate, with its veto, agree with the recorded status.               *)
TruncatedReadsAlike ==
    \A r \in runs : /\ RunSucceeded(r) <=> r.status = "passed"
                    /\ AggregateSucceeded(r) <=> r.status = "passed"

(* Ctrl-C lets the run in progress be recorded and starts no other.        *)
CancelStops ==
    \A c \in Commands : ctx[c] = "cancelled" =>
        \A r \in RunsOf(c) : r.step <= atCancel[c]

(* persist.go: a snapshot of an already-known hash still returns a usable  *)
(* identity; so the row of a finished run finds its profile.               *)
IdentityUsable ==
    \A c \in Commands : pc[c] = "run row" =>
        identity[c][PlanStep(c, step[c]).arm] \in ProfileIds
=============================================================================
