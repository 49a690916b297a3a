# ocbench in TLA+

ocbench measures how well an OpenCode configuration solves coding tasks. It takes a snapshot of the
configuration (a *profile*), runs the tasks of a *suite* in disposable git worktrees by driving
`opencode run`, judges the result with validators, and keeps every run in a SQLite store, from which
experiments, histories and reports are computed. This directory holds a model of it in two halves: what
happens between the command line and the row in the store, with the processes, goroutines, signals,
deadlines, crashes and transactions in between; and what is computed before and after, from loading a suite
to ranking the arms of an experiment. TLC checks the model on small instances, TLAPS proves part of it for
every instance.

Run from this directory: `tlc -workers 2 -config MCSession_all.cfg MCSession`, `tlapm FixtureCacheProofs.tla`.
PROJECT.json lists every run with its properties, the mutants that show each property can fail, the
source lines of every definition, the hazards, the findings and the theorems.

## 1. Inventory

| Component | State | Operations | Interacts with |
| --- | --- | --- | --- |
| Fixture cache (`internal/runner/gitsource.go`, `worktree.go`) | one repository per fixture hash, its lock file, the registered worktrees; all on disk, shared by processes | MaterializeFixture, acquireLock, CreateWorktree, RemoveWorktree | git processes run with the command's context; other ocbench processes through the disk |
| OpenCode session (`internal/opencode/session.go`, `proc_unix.go`, `real.go`) | the child and its process group, the stdout file, the channels Events, procDone, tailDone, discard, two `sync.Once` | Start, the reaper, the tailer, Kill with its escalation, Wait | the child by signals and by the file; its consumer by Events |
| Run pipeline (`internal/runner/runner.go`) | locals of Run, two callbacks (`time.AfterFunc`, `context.AfterFunc`) with their flags, the worktree, the run's directory | start, drain, kill, wait, capture, hidden tests, validators, verdict, metrics, record, clean up | session, fixture cache, validators, store |
| Validators (`internal/evaluation`) | one process group per command validator, a bounded output buffer | RunValidator, diff, grep, answer and process checks | worktree, events |
| Recording (`persist`, `internal/store/run.go`) | tables suites, tasks, runs, run_metrics, run_validations | five transactions per run | SQLite (WAL, one connection, 5 s busy timeout, foreign keys) |
| Profile (`internal/profile`, `internal/canon`) | tables profiles and profile_components, raw captures on disk | Discover, Fingerprint, Persist, Diff, the view of a profile | opencode's one-shot commands, store |
| Experiment (`internal/experiment`, `internal/cli/run.go`) | tables experiments and experiment_arms, the plan | registration, BuildPlan, the loop; Summarize, DecideRegression and SummarizeCohort read the store | profile, pipeline, store |
| Change set (`internal/runner/worktree.go`, `artifacts.go`) | the worktree and its index, at the end of the session | ChangedFiles, DiffAgainstBaseline, captureUntracked, changeCounts, unexpectedFiles | git |
| Child session capture (`runner.go`, `internal/session`, `internal/trace`) | the tree of exported sessions | breadth-first export to depth 5, roll-up, spans | `opencode export` |
| Store schema (`internal/store/migrate.go`) | schema_migrations | Migrate at the start of every command | other processes |
| Suites (`internal/suite`) | suite.yaml, the tasks, their hashes | Resolve, Load, Export, EffectiveTimeout | file system |
| Read models (`internal/history`, `internal/stats`, `internal/web`) | none | list, detail, compare, leaderboard, calibration, variance | store |
| Report, configuration, doctor, harvest | files read at start | rendering, look-ups, mining of task candidates | file system, git |

What is hard in it, and what has to be right:

* **Several processes share a cache entry**, and any of them can be interrupted, can crash, can give up
  waiting for the lock. A worktree must hold exactly the fixture of its task: a wrong baseline falsifies
  every later comparison without any error. A run's worktree must stay in place until the run removes it.
* **A session has six goroutines, a process group and a file.** Lines must arrive in order, none lost and
  none twice, through a bounded channel; the end of the stream must mean the end of the process; Kill may
  come from three places at once; Wait must return even when the child ignores SIGTERM or nobody reads.
* **A run can be ended by its process, by its deadline and by Ctrl-C**, at any moment, in any order. A run
  that was interrupted must never be scored; one that completed must not be lost; what is attributed to
  the agent must be the agent's.
* **A run is recorded in five transactions** by processes that can die between any two, on a database that
  can be busy. Readers must still judge what is there as it happened. An experiment that stops half way
  must have treated its arms alike.
* **The agent owns its worktree, index and all**, while the change set is read from git afterwards, with
  several git commands that each see a part of it. No change may be missed, however it was staged.
* **Processes of several releases open one database.** Each applies the migrations it knows. None may be
  skipped or applied twice, and one of the processes that race has to get through.
* **One fact is computed in several places**: a path glob by two matchers, the use of tokens by the events,
  the trace and the exported sessions, the cost of a solved task by the experiment and the leaderboard, a
  score and a verdict from one list of validators. They have to agree.
* **Rows arrive in another order than the one they are read in**: a run is inserted when it ends and ordered
  by when it started. An experiment has holes: missing cells, vetoes, costs some executions lack.

The hazards, each at its line, are in PROJECT.json.

## 2. Modules

| Module | Models | Depends on |
| --- | --- | --- |
| `FixtureCache` | MaterializeFixture, the lock file, worktrees, several processes on one cache entry | |
| `FixtureCacheProofs` | the theorems about it | `FixtureCache`, TLAPS |
| `EventStream` | what a session promises the consumer of its events (abstract) | |
| `Session` | process group, reaper, tailer, Kill, Wait; implements `EventStream` | `EventStream` |
| `SessionProofs` | the theorems about it, the refinement among them | `Session`, TLAPS |
| `RunPipeline` | runner.Run from the start of the session to its return | extends `Session` |
| `RunPipelineProofs` | the theorems about it | `RunPipeline`, `SessionProofs` |
| `Experiment` | `ocbench run` and `ocbench experiment run`, persist, the store's tables | |
| `ExperimentProofs` | the theorems about it: types, attribution, cancellation, truncated records, the plan | `Experiment`, TLAPS |
| `ChangeSet` | a worktree, its index and HEAD under the agent's hands; what git reports of it | |
| `ChangeSetProofs` | that no change goes unreported | `ChangeSet`, TLAPS |
| `Patterns` | expressions that compile or not, both matchers of path globs | |
| `Evaluation` | the five kinds of validator, RunValidators, score, verdict; the fold of the events | extends `Patterns` |
| `SessionTree` | captureSessions, ParseExport, Rollup, sessionMetrics, trace.Build | extends `Evaluation` |
| `Suites` | Resolve, Load with its checks, hashes, timeouts, Export | extends `Patterns` |
| `Migrations` | Store.Migrate by several processes of several releases | |
| `MigrationsProofs` | the theorems about it | `Migrations`, TLAPS |
| `Store` | the read queries | |
| `Statistics` | means, medians, pass@k and pass^k, permutation test, in fractions | |
| `History` | list, detail, compare, leaderboard, calibration, variance, profile difference | extends `Store`, `Statistics` |
| `Cohort` | Summarize, DecideRegression, SummarizeCohort, overlays | extends `History` |
| `Canon` | redaction, rewriting of paths, what a hash distinguishes | |
| `Profiles` | Discover, Fingerprint, the architecture and captures of a profile | extends `Canon` |
| `Offline` | the commands that use all of these | extends `Migrations` and `ChangeSet`, instantiates the others |
| `DataProofs` | lemmas about the data: folds, globs, sequences, the order of the store's rows, sums | `Patterns`, `Store`, TLAPS |
| `OfflineProofs` | the theorems about the commands of `Offline` | `Offline`, `DataProofs` |
| `MC*` | instances for TLC | |

### FixtureCache

`repo` is the directory `fixtures/<hash>` with its repository (is there a `.git`, files, index, HEAD, the
objects of its commit, registered worktrees), `lock` the lock file. `pc[p]` follows one call of MaterializeFixture: `FastPath`
looks for the finished repository without the lock, `AcquireLock` creates the lock file (`O_EXCL`),
`Recheck` looks again, `ClearPart` (any part of the directory goes before the rest), `ClearDir`, `InitRepo`, `WriteFile`, `AddAll`, `Commit`, `ReadHead` build it,
`Unlock` removes the lock file. A commit is identified with its tree, as message, identity, date and
modes are pinned. `CreateWorktree` and `RemoveWorktree` add and remove a run's own entry. The
environment interrupts (`cancel`), kills (`crash`), exhausts the waiting time (`timeout`) and fails
what touches the disk: the lock file, the clearing, writes, git commands (`io`). A git command with a cancelled context fails without doing anything; that is also what
makes the finished repository look unfinished. `MaterializeRepo` is not modelled: nothing calls it. The `git worktree prune` at the end of RemoveWorktree is not a
step: it removes registrations without a directory, of which there are none here. That the lock file cannot be
removed again (the error is ignored) is left out; it is the lock of a dead holder.

### Session and EventStream

`written` counts half lines of the stdout file, so that the file can end without a newline. `Reap` and
`CloseProcDone` are the two steps of `reap`; between them the pid is free and nobody knows. The tailer
is `tail`, step by step: read, emit (a select between the channel and `discard`), check for the exit, the
last read, the close. `KillSteps(k)` is `killOnce`: whoever comes first signals the group, the others wait
for it; `GraceOver` and `GraceKill` are the escalation. `Waiting` is Wait: select, kill if the context
ended, join the reaper, discard, join the tailer, join the escalation. Time is abstract: a deadline, a
tick and the grace period may elapse at any moment.

### RunPipeline

The main line of Run is `run`, one step per call that can fail, block or be seen by others. The two
callbacks are `guard["watchdog"]` and `guard["watcher"]`: check whether the drain is over, set the flag,
call Kill; both are armed once Start has succeeded, which is what `HasSession` says. The drain is lost
(`DrainIsLost`) when a write fails, and also when closing the file fails after the last line. `tree` holds the kinds of files in the worktree beyond the baseline: the agent's edits, a file
of the agent with the name of a hidden test, hidden tests, files left by validators; `changed`, `diff` and
`counted` are what the three looks at the worktree saw. `recorded` is the store. The steps of the session
interleave with all of it.

### Experiment

Each command of `Commands` is a process: it registers its experiment, its profiles (`LookUp` and
`InsertProfile` are the two transactions of profile.Persist) and its arms, then takes the steps of its
plan. A run is one step, `Execute`, with any outcome of RunPipeline; its record is five, one per
transaction, on a context that does not end with the command's. The tables are sets of rows; inserts
respect foreign keys and `ON CONFLICT DO NOTHING`. `RunSucceeded` and `AggregateSucceeded` are the two
readers of a run. `run` differs from `experiment run` in the order of registration, in having no arms and
in looking at its context after each run.

### Migrations

`versions` is the table schema_migrations, `executed` counts for every migration how often its statements took
effect, `current[p]` is the version a process has read. A process knows the migrations of its release,
`Known[p]`; it applies those after what it read, each in one transaction, which fails if the statements were
executed already: that is how a process that lost the race finds out. `Disturb` is everything else that may
end it (a busy database, a crash). A process of an older release takes a newer database for up to date, as
the code does.

### ChangeSet

`head`, `index` and `work` give every path a content or none. The agent edits, deletes, stages, unstages and
commits in any order; whenever it stops, ChangedFiles, the diff against the baseline, the untracked files
and the counts are operators over these three maps. git's part (status, diff with renames, ls-files) is
external, modelled from the arguments the code calls it with. Line contents are not modelled.

### Offline

A behaviour is one command: `command` says which, `input` grows a step at a time (a line of the stream, a
message of an export, a recorded run, a filled cell of an experiment, a segment of a glob, a
snapshot) and the command may be given at any point; `out` is its answer, after which the behaviour ends. So the inputs are
all sequences and sets up to a bound, and every prefix is judged too. Three commands have steps of their
own: `changes` (ChangeSet), `capture` (the queue, the level and the visited set of captureSessions) and `migrate`.
`validate` is loading a suite, then judging a worktree by the validators of its task; `snapshot` takes
profiles one after the other, in a table of its own. Profiles of the cohort and of the history are given.

The operators are named after the functions. A row that a query does not find is `<<>>`, an error is a record
with `ok = FALSE`; numbers that are float64 in Go are fractions [n, d], compared by cross-multiplication. An
object of JSON is a function, so the order of its keys is gone before it is hashed, and a hash is what it
digests. Text is a set of words, an expression is a sequence of words and parentheses: enough to tell one
that compiles from one that does not and a match from none.

## 3. Runs

| Run | Instance | Shows |
| --- | --- | --- |
| fixture_faults | 3 processes, 2 files, 1 run each, every fault, symmetry | `MutualExclusion`: one builder at a time; `BaselineExact`: only the whole fixture is committed or handed out |
| fixture_worktrees | 2 processes, 2 files, 2 runs each, no cancellation, fair | `WorktreeIntact`, `OnlyOwnerRemoves`: a worktree stays until its own run removes it; `CallsReturn`: every call comes back, even behind a dead holder of the lock |
| fixture_cancel_clears | 2 processes, cancellation only | finding, see below |
| session | 1 killer beside Wait, 2 lines (4 halves), a buffer of 1, fair | `DeliveredInOrder`, `DrainedIsComplete`, `WaitLeavesNothing`, refinement of `EventStream`, `KillEnds`, `WaitReturns` |
| session_helpers | 1 helper process in the group | finding |
| pipeline_safe | watchdog, watcher and Run's own kill, 1 line, 1 validator, failing writes, clashing names | `ChangeSetIsTheAgents`; `NoOrphan`: when Run has returned, a session that was started is reaped and its tailer has ended, whichever way Run took, a drain that failed included |
| pipeline_outcome | the same, requirements may be missing, no failures, fair | `KilledNeverScored`, `InterruptedNotScored`, `ScoredRunIsWhole`: only a whole, uninterrupted run is scored; `RunReturns`; `OutcomeRecorded`: every run ends up in the store with its verdict |
| pipeline_near_deadline, pipeline_clash | the same | findings |
| experiment | an experiment (2 arms, 1 task, 2 repeats) with every fault beside a `run` of one of its profiles | `Interleaved`, `DoneIsComplete`, `AttributedToItsArm`, `TruncatedReadsAlike`, `CancelStops` |
| experiment_profile_race | two `run` commands, no faults | finding |
| offline | every command on every small input | see the next table |

The properties of `offline`, each about one command:

| Property | Shows |
| --- | --- |
| `NothingMissed` | whatever the agent staged, committed, removed or left untracked, a path that differs from the baseline and is not ignored is reported, and in the diff or the untracked files |
| `CaptureExact` | every session within reach is captured or counted as failed, exactly once, whatever circles the delegations make |
| `SchemaExact`, `OneGetsThrough` | no migration skipped or executed twice; undisturbed, at least one of the processes that race gets through (it may be one of the older release: when that one applies the next migration, all those of the newest may fail) |
| `TraceMatchesMetrics` | the trace tells the tool calls that the metrics count, in their order, as many failures but for those whose state one of the two cannot decode, no more retries, and the same tokens if every step ended once |
| `UsageAddsUp` | the agents' shares add up to what the sessions used, also after a trip through the store's metric names |
| `ScoredOnItsWork` | a mistake in a suite is found when it is loaded, never held against the agent; full marks and a pass come together |
| `OneChangeOneDiff` | a change of the configuration is one change of the profile; a secret, a home directory or an order is none. A path in the prompt opencode reports of an agent is hashed as it is: another home directory in it is another prompt |
| `RepeatShowsTheSame` | a snapshot repeated at once is stored once and shows the changes it showed before, whichever profile is the latest by then |
| `CompareIsOrdered` | "previous" is the last comparable run that started before, in whatever order runs were recorded |
| `RankedIsEarned` | arms are ranked by cost only if every arm ran every task often enough, on one fixture, and passed; no arm is left out, none stands above a cheaper one |
| `CostAgrees` | the experiment and the leaderboard find one cost per solved task |
| `GlobsAgree` | both matchers find what a glob means |

Bounds. *FixtureCache*: two files are needed for a partial tree and a third process for a waiter behind a
waiter; the second run of a process meets its own finished repository. The proofs remove both bounds.
*Session*: a buffer of one is full after one line, so the second line exercises a blocked tailer, and a
final half line the missing newline; a third line would only repeat the second. The proofs remove these bounds
for the safety properties, here and in *RunPipeline*. *RunPipeline*: one line
and one validator already give every order of drain, exit, deadline, Ctrl-C and kill; the three callers of
Kill are those of the code. *Experiment*: its safety is proved without bounds; for the rest, repeat 2 and two arms are the smallest plan in which an order
can be unfair; the `run` shares the profile of one arm, so both may store it first. Runs of the
experiment's plan may pass, be interrupted or not start; the `run` also fails.
*Offline*: three paths (one in the baseline, one not, one ignored) and two contents, as a rename needs one
content in two paths; five sessions and a depth of two instead of five, so that a chain is longer than the
depth and a circle shorter; two processes of the newest release, so that two race, and one of the one before,
four migrations, databases that are new or at version 2; four lines, as two steps have, each with a call
and an end; four messages over three sessions; five runs, enough for a comparable run to start
before, at the same time and after another; two arms, two tasks and eight kinds of cells (of which some are not full, or vetoed, or lack a
cost); three segments, so that `**` spans none, one and two; three snapshots, the third of which repeats the
second or the first.

Deadlock is not checked in the runs of Session, RunPipeline, Experiment and Offline, where commands and
processes end; it is in those of FixtureCache.

Fairness. Every process of FixtureCache takes its next step if it can, unless it crashed: these are
straight-line system calls. In Session and RunPipeline every goroutine is fair (the Go scheduler), the
timers of the grace period, of the watchdog and of the context fire, a validator ends (its own timeout
kills it) and a process told to terminate ends unless it ignores SIGTERM. Nothing is assumed of the
process's own end, of Ctrl-C, or of helpers. `CallsReturn` also relies on the 30-second limit of the lock
(`timeout`), which is in the code. A fault (a cancellation, a crash, an error of the file system) may
strike at any step and is never obliged to.

## 4. Findings

* **fixture_cancel_clears** (`CommitKept`): MaterializeFixture with a cancelled context takes the finished
  repository for an unfinished one, since `git rev-parse` fails, and removes the directory with the
  worktrees' administrative files of other processes' runs. If the removal is cut short in its turn (a crash, an error), HEAD
  may be left without its objects: the fast path hands out that commit from then on and every
  worktree of it fails.
* **session_helpers** (`KillReachesAll`): the escalation to SIGKILL is called off when the child has ended
  within the grace period; members of its group that ignore SIGTERM survive Kill and Wait.
* **pipeline_near_deadline** (`TimeoutKilledLive`): the watchdog takes the end of the drain for the end of
  the process, so a run that ended by itself just before the deadline is recorded as a timeout.
* **pipeline_clash** (`OutcomeRecorded`): an agent that creates a file with the path of a hidden test makes
  Run return an infrastructure error; the finished run is not recorded.
* **experiment_profile_race** (`IdentityUsable`): two processes that snapshot the same new profile at once;
  the second keeps an id that was never stored, and its first finished run fails its foreign key.

Other oddities met on the way, not run; the first ones are hazards of PROJECT.json:

* A signal may be sent to a group id after the leader was reaped (docs/roadmap.md:286). A helper that
  inherited stdout may append after the last read, against the comment at session.go:228. A lock file left
  by a crash blocks every later call until its limit, until someone removes it.
* `changeCounts` runs after the hidden tests and asks git for the status, that is for the difference from
  HEAD and the index, not from the baseline: what the agent committed is in the change set and not in the
  counts.
* The cost of an arm is the median over the tasks whose executions all recorded one
  (aggregate.go:223). docs/decisions.md:294 says of another figure that it is "shown only when every execution of
  every selected task recorded one, exactly like cost", and docs/plans/2026-09-28-deep-scan-remediation.md
  "Cost absence must mean 'ineligible', not zero". So two arms may be ranked on medians over different tasks.
  The page of a profile compares with zero when the other profile has no cost (web/profiles.go:715).
* Metrics and trace decode the state of a tool call into structs of their own (metrics.go:50, trace.go:58), all or nothing. A
  failed call whose `input` is a string, or whose `input.command` is none, is an error in the trace and is not counted in
  `tool_calls_failed`; one whose `title` is no string or whose `time` is no integer is counted and has no status in
  the trace. No document says that the two agree; `TraceMatchesMetrics` states what they owe each other.
* DiffLineCounts skips a content line that begins with `-- ` or `++ ` as if it were a header of the diff.
  Grep reads the file `.git` of a worktree along with the agent's.
* The hash of a validator does not cover what a diff, grep or process validator looks for, nor the weight:
  two suites that judge differently may have one hash.
* The patterns of a grep are compiled one by one when a suite is loaded, joined by `|` when it is run; those
  of an answer not at all when it is loaded. `ScoredOnItsWork` says so.
* Export follows the symlinks of a fixture, the hash skips them. A broken suite in the home directory is an
  error and hides the embedded one of that name.
* Two profiles made within one second are told apart by a random id, so "latest" is either.
* Permission rules are sorted before they are hashed, though opencode lets the last one that matches decide: two configurations
  that differ in their order only are one profile. opencode's version makes another profile whose
  difference is empty. NormalizePaths rewrites values, not keys.

## 5. Proofs

What is proved, module by module.

`FixtureCacheProofs` proves, for any set of processes, any fixture, any number of runs:

* `TypeCorrect`: `Spec => []TypeOK`.
* `LockExcludes`, `BaselineAlwaysExact`: under every fault. `BaselineExact` alone is not inductive: that
  the commit is whole depends on what the builder has written, which depends on nobody else being in the
  directory. The inductive invariant `IInv` is `TypeOK`, `HolderInside` (whoever is in the critical section
  holds the lock), `Stages` (what the directory contains at each stage of the builder) and `BaselineExact`.
  `HolderInside` is shown first; the lemma `Alone` turns it into mutual exclusion, and `Stages` and
  `BaselineExact` follow from it action by action.
* `WorktreesStayIntact`, `WorktreesRemovedByOwner`: without cancellation (`"cancel" \notin Faults`), from
  `CalmInv`: a repository with a commit is never cleared, since the look that precedes the clearing
  cannot miss it. What is left of a directory that is being cleared holds no commit that was not there (`RestOf`).

`ExperimentProofs` proves, for any commands of either kind, any arms, tasks,
repeats, outcomes and faults:

* `TypeCorrect`, from `TInv`: the types, and where a command is: a fresh id reaches "insert profile" only
  as the one made for that arm, and a step under way is one of the plan's (`ArmOfStep` and `TaskOfStep`
  say that the plan names only the command's arms and tasks).
* `RunsAttributed`: `Spec => []AttributedToItsArm`, from `AInv`. A stored profile was made by some command
  for one of its arms; an arm's identity is unknown, fresh, or that of a stored profile with its hash; so
  an identity that passes the foreign key has the right hash (`KnownIsStored`). The row of an arm keeps
  naming the arm's identity because only earlier arms have rows while a later one is looked up.
* `CancelledStops` and `TruncatedReads`, from `SInv`: a command has no row of the step it is at before it
  inserts that run (`Behind`), the details are recorded with the outcome the run's row has (`Recording`),
  and a cancelled context lets no other step start (`Cancelled`).
* `CompletesInFull`: `Spec => []DoneIsComplete`, from `RInv`: a command has the runs of all the steps before
  the one it is at (`Filled`), each run that was measured has its details once its step is over (`Measured`),
  and "done" is past the plan (`Ended`). That the plan is the whole product of tasks, arms and repeats is a
  statement about dividing a step's number twice: quotients and remainders are unique (`Unique`), so a step
  has coordinates (`Coordinates`, `PlanAt`) and is in the plan exactly when its task is one (`InPlan`).
* `EqualTerms`: `Spec => []Interleaved`, from the same invariant. The steps of an earlier round are all before
  the one the command is at (`EarlierRounds`), so whatever ran with one arm has run with every other except for
  one step of the last round (`RoundsAreFull`); the map that swaps the arm is one to one, hence the count.

Each rests on the frame lemma `Others`: the step of one command leaves the others' locals alone, and
`Adds`: it adds rows of its own current step only.

`MigrationsProofs` proves, for any number of processes of any releases and any number of migrations:

* `MigrationsTypeCorrect`; `SchemaIsExact`: each recorded migration was executed once, and none that is not
  recorded; `MigratedDatabaseIsWhole`: when Migrate succeeds every table its release needs is there;
  `RaceHasAWinner`: `Spec => []OneGetsThrough`.
* `SchemaExact` is not inductive: that no version is skipped rests on what each process believes the version to be
  (`Believed`), and that a version can be read as a maximum on there being no gap (`Prefix`). A process
  fails undisturbed only because another is ahead of it; `AheadAlive` says that the one furthest ahead
  has not failed. The inductive invariant `MigrationsInv` is these with the types.

`SessionProofs` proves, for any group of processes, any callers of Kill, any number of lines and any buffer:

* `SessionTypeCorrect`, `LinesInOrder`, `DrainIsComplete`, `WaitIsClean`. None of these is
  inductive. That no last line is lost rests on what the tailer knows at each of its steps (`TailStages`):
  from its check on the process has ended (`Exited`), so what it reads next is all there will be, and what it
  has emitted at the close is every half line rounded up. What Wait leaves behind rests on what it has waited
  for (`WaitStages`). The inductive invariant `SessionInv` is these with the types, the order and
  `NothingAfterClose`.
* `SessionIsAnEventStream`: `SessionSpec => ImplementsEventStream`. Once Wait gives lines up, the events are no
  longer all the lines; they still ascend (`Ascending`), which is what the abstract stream asks then. The first
  byte of a line maps to its production, the second to a stutter (`HalvesUp`).

`RunPipelineProofs` proves, for any such session and any number of validators:

* `RunUsesASession`: `Spec => SessionSpec`. Every step of Run, Ctrl-C and the callbacks included, is a step of a
  client of the session or leaves it alone, so what holds of sessions holds of a run's (`SessionInv` is a
  conjunct of the invariant here).
* `KilledIsNeverScored`: whoever kills has said so where the verdict looks: a callback in its flag, Wait in its
  error, Run by giving up (`FlaggedKills`). The watcher's flag counts only if it was set before Run read it,
  and it was: a later Kill finds procDone closed and does nothing (`Settled`), since Wait has returned by then
  (`WaitAtRun`).
* `ScoredIsWhole`: the events were complete when the drain ended, before Wait could give any up (`ReadInFull`,
  from `DrainedHasAll`), and nothing was written since. `InterruptedIsNotScored`: a validator that was cut
  short shows that the command's context has ended, which Run looks at once more before the verdict
  (`CutShort`). `NothingIsLeftBehind`: a session is started by one step only (`OnlyStartBegins`) and Run, if it
  had one, records and returns only when its Wait is done (`SessionAtRun`, `WaitAtRun`).
* `ChangeSetOfTheAgent` assumes that there are no helpers: one that outlives the agent can write between
  the two captures. `OutcomeIsRecorded` assumes that the runner's own work does not fail and no name clashes;
  the run `pipeline_clash` shows the latter is needed.

`ChangeSetProofs` proves `ChangesAreReported`, `ChangeSpec => []NothingMissed`, for any set of paths, any
baseline and any contents. No invariant beyond the types is needed; the argument is about the operators.
A path whose tracked contents differ from the baseline is named by the difference (`DiffNames`), a file that is
not tracked by the status (`StatusNamesUntracked`). A rename hides neither of its paths, since both are
reported (`RenamesMove`), and there is a largest pairing of removed with added paths because there are
finitely many (`LargestExists`).

`DataProofs` is about functions of data, so it needs induction. The library's theorems of induction take an
operator as a parameter and cannot be instantiated here; `Induction` states the principle for a set of numbers
instead, and every argument below names the set of the numbers (or of the sets) of which the claim holds.
A fold over a finite set is the function of its subsets that its recursion describes: `FoldExists` shows that there is one,
`FoldInduction` goes through its steps; if the fold takes the largest number each time it is a walk from left to
right, with a state after each step (`LastFold`, `FoldStates`).

* Globs: `Means` is what a glob means, by the ways its segments can be laid over those of the path. `MatchIsMeant`:
  the recursion of matchSegments finds it. `SqueezeKeepsMeaning`: two `**` in a row mean what one does.
  `CleanIsKept`: a clean path is cleaned to itself.
* Rows: inserting a row at the place its age gives keeps the rest in order (`InsertKeepsOrder`), hence
  `OldestFirstSorts`: every row is there once, each older than the next. Ids have to tell rows apart; they need
  not for `OldestFirstHolds`, that every row is there and nothing else.
* Sorted lists: the places of a stable sort are taken once each (`PlacesAreTaken`), so `PlacesSort`: the sorted
  list has the elements of the old one, none before one that is less. `StableRanks` is this for `StableSort`, for any
  order that is a weak one, as equal keys may be the rule.
* Sums: what a sum over a finite set comes to does not depend on the order in which its elements are taken
  (`SumsRemove`), sums over sets that do not meet add up (`SumsOfUnion`), and a sum of positive numbers grows
  with its set (`SumIsLess`). Sums of parts add up to the whole (`SumOfParts`); shares that grow one element at a time
  add up to their total all along (`SharesAddUp`).
* Lists that grow at their end: a fold takes one step more (`FoldMore`), and what is joined, summed or counted
  over the list changes by its last element (`FlattenAppend`, `SumAppend`, `CountAppend`).

`OfflineProofs` proves, for any inputs of the commands:

* `MatchersAgree`: `Spec => []GlobsAgree`, from the lemmas about globs.
* `CapturedExactly`: `Spec => []CaptureExact`. `Levels` is the reach of the run's own session, level by level, through the sessions that were
  captured; it is what `Within` comes to (`ReachIsLevels`). The inductive invariant
  `CaptureInv` has the types, `MarkedOnce` (a session is marked when its export succeeds or fails, and never
  twice) and `MarkedInReach` (what is marked is in reach at this depth, and what is in reach is marked or waits in
  this level or the next). A capture adds to the reach only below the depth that is being exported (`LevelsKept`,
  `LevelsGrow`), and an empty level ends it (`LevelsEnd`).
* `ComparedInOrder`: `Spec => []CompareIsOrdered`. The invariant is that the rows are some of those that may be
  recorded (`Rows`); the rest is that the run of an id is the only one (`RunOfId`), the newest of the candidates is the
  last one that started before (`RunBefore`), and both orders of the arguments name one pair (`PairOf`).
* `ScoredFairly`: `Spec => []ScoredOnItsWork`. The property looks at an answered command only; the inductive
  invariant `JudgedInv` also says what was loaded before: every validator of every task `Judges`, that is, has
  the fields its kind needs and patterns that compile (`LoadedTasksJudge`, through `resolveValidator`). Of such a
  validator `Verdict` tells which verdicts it may come to, whatever the worktree and the end of its command.
  The weight of a validator counts as one if it is not positive, so each validator that did not pass costs a
  run part of its score (`FullMarks`, by `SumIsLess`); the status and the success metric follow the same
  set of failures (`SuccessIsPassing`).
* `UsageIsKept`: `Spec => []UsageAddsUp`. The invariant is that the sessions are lists of messages (`UsageInv`), each of
  which parses to figures (`ParsedSession`). The roll-up of a session is the sum over its messages, agent by agent
  (`UsageSteps`, `TotalSteps`). Merging keeps the sums, also where two agents get one sanitized
  name (`AgentsAddUp`, `MergeSums`, `NamesAddUp`), and what is stored under a metric's name is found
  under the agent's (`ReadBack`).
* `TraceIsMeasured`: `Spec => []TraceMatchesMetrics`. The invariant is that the lines printed are lines (`TraceInv`). The
  trace and the metrics read the same stream in two different ways, and `Match` says how they stand after any part of it:
  calls, failures (with those that only one of them can decode, `OnlyMeasured` and `OnlyTold`) and retries as the property has them; and, as long as every end of a step told its tokens, at most as
  many steps with tokens as ends seen, and the same total if there are as many. The property alone is not
  kept from line to line: two ends in one step, of which the trace keeps the last, make the totals differ, and
  what shows that they may is the count, which can only fall further behind. `BuildsOn` and `BuildTells` say what an
  event adds to the steps and to what they tell, `ObservesEvent` what it adds to the metrics; `EventMatches` and `LineMatches` that
  `Match` is kept, and `StreamMatches` that it holds after any list of lines.
* `RepeatedSnapshots`: `Spec => []RepeatShowsTheSame`. What a snapshot shows depends on the profiles stored before it,
  and its own profile may be among them. `SnapshotInv` keeps, of every snapshot taken, that its changes are those from
  the comparison profile among the rows stored by the earlier snapshots, and that it created a row if and only if none of
  the earlier ones had its hash (`TakenLater`: later snapshots do not touch that). A repetition finds the rows it left. Either the latest
  profile is another one, and was before (`ComparedAlike`), or it is the repeated one, and its predecessor is taken;
  a profile does not differ from itself (`SameIsNoDiff`).
* `StandingsAreEarned`: `Spec => []RankedIsEarned`, for any number of arms, tasks and runs. The invariant `CohortInv` is that the cells are filled in
  one after the other, so the runs are finitely many with integer metrics (`RunsAreMeasured`). From there: the costs of the
  summary are rationals (`CostsAreRational`); a gate that is open has counted every execution of every task under
  every arm and found it passed (`GateOpens`, through `ArmTask` and `ArmOfCohort`); no drift means one fixture and one suite
  (`NothingDrifts`); and the ranks are a stable sort by cost (`StandsByCost`). That sort is right since comparing fractions by
  cross-multiplication is a weak order (`LessIsWeak`, `LessRanks`). `StandingIsEarned` puts this together.
* `CostsAgree`: `Spec => []CostAgrees`. The two read models divide by different counts of different sets of runs. If
  all runs are of one task and no validation overrules their metric, a run counts as solved in one if and only if it does in
  the other (`ScoredAlike`); the cost of the profile
  (`CostOfProfile`) is then that of the task, of which the arm's cost is the median (`CostOfArm`, `MedianOfOne`).

Leaves were tried with a fraction of the prover's default time: none depends on a fast machine.

The assumptions are those named in the modules: `ConstantsAssumption` of `FixtureCache`,
`SessionAssumption` and `PipelineAssumption` (a buffer of at least one; the callers of Kill are those of the
code), `ExperimentAssumption` of `Experiment` (labels and task ids are distinct, lists not empty, repeats
positive), `MigrationsAssumption` of `Migrations`, `ChangeSetAssumption` of `ChangeSet`, and of `Offline`
`OfflineAssumption` (bounds are numbers, a session delegates to a list of sessions, a segment of a clean path is not empty and not a dot
or two), `TreesAssumption` (what the YAML of a suite decodes to: lists are lists, a weight is an integer),
`MessagesAssumption` (what the JSON of an exported session decodes to: figures are numbers, a total may be missing),
`LinesAssumption` (what a line of the stream decodes to: names are strings, tokens and cost may be missing),
`RecordedAssumption` (ids tell runs apart, a primary key), `FiledAssumption` (a run's profile is stored, a foreign
key) and `CellsAssumption` (the arms are a list, tasks are finitely many, and so are the runs of a cell, whose metrics are
integers).

Model-checked only: liveness, which rests on ENABLED, and `OneChangeOneDiff` of Offline: how many components
two configurations differ in is declared with the configurations, so there is nothing to prove it from that is not the
list itself. Nothing but the nesting of JSON values in `Canon` bounds a model by more than its
constants: eight levels.

## 6. Not modelled

PROJECT.json lists every component with the reason. In short:

* **Rendering** (reports, the pages and links of the web dashboard, the CLI's tables) and **parsing of text**
  (opencode's one-shot commands, YAML, options): layout and wording, on which no property here rests.
* **Real-valued statistics** (Wilson and bootstrap intervals, Fisher's test, power): TLC has no real numbers. Their
  conditions (when there is a result at all) are kept in `Statistics`; the permutation test shuffles to
  three fixed orders.
* **The child's environment** (`environment.go`): three filters by name over a list, without state.
* **Harvest**: mines a database of opencode's and the history of a repository once, by hand; heuristics on
  strings and the writing of files.
* **Configuration, ids, version, doctor**: read or printed once.
* The variance and calibration reports and parts of the leaderboard (suites, medians, order) are modelled without a property
  that depends on them: they are read from the same rows, and TLC shows that they can be computed for all of them.
* Of the modelled components: dry runs, the plan file, the bytes of the artifacts, the clocks of the trace, the ceilings on untracked
  files, option parsing and exit codes, `MaterializeRepo`, which nothing calls. A session whose stdout file
  cannot be opened is left out, too.

## 7. What could come next

* Harvest's windows of commits, and its verification that a check fails before a commit and passes after.
* The tailer that cannot open the stdout file, which closes Events while the process runs.
