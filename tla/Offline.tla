------------------------------- MODULE Offline --------------------------------
(***************************************************************************)
(* Everything around the execution of a run, put to work: what is loaded   *)
(* before it (Suites), what its output is made into (ChangeSet,            *)
(* SessionTree, Evaluation), the profile it is filed under (Profiles), the *)
(* database it is filed in (Migrations, Store) and the commands that read  *)
(* the recorded runs (History, Cohort).                                    *)
(*                                                                         *)
(* A behaviour is about one command.  Its input grows a step at a time and *)
(* the command may be given at any point; out is what it answers.          *)
(***************************************************************************)
EXTENDS Integers, Sequences, FiniteSets, SequencesExt, ChangeSet, Migrations

CONSTANTS
    Ids, Primary, MaxSessionDepth, Escaping, Delegations,   \* SessionTree
    SensitiveKeys                                           \* Canon

CONSTANTS
    Commands,       \* the commands behaviours are about
    Trees,          \* suite.yaml and tasks, as Suites has them
    Worktrees,      \* what a validator is given of a finished run
    Ends,           \* how the child of a validator ends
    Lines,          \* lines opencode may print
    MaxLines,
    Messages,       \* messages of an exported session
    MaxMessages,
    Sanitize,       \* agent names, made fit for a metric's name
    Recorded,       \* runs that may be recorded
    MaxRuns,
    Selected,       \* the experiment: id, baseline, tasks
    Arms,
    Overlays,       \* what the path of an overlay may be
    Cells,          \* what the runs of one task under one arm come to
    CellRuns(_, _, _),
    StoredProfiles,
    Names,          \* segments of clean paths and globs
    MaxSegments,
    Snapshots,      \* what opencode and the disk say of a configuration; same:
                    \* the first has the same identity; differences: in how many
                    \* components it differs from the first
    MaxSnapshots,
    Options, Disk

ASSUME OfflineAssumption ==
    /\ Primary \in Ids /\ MaxSessionDepth \in Nat /\ Escaping \subseteq Ids
    /\ MaxLines \in Nat /\ MaxMessages \in Nat /\ MaxRuns \in Nat /\ MaxSnapshots \in Nat /\ MaxSegments \in Nat
    /\ Delegations \subseteq [Ids -> Seq(Ids)]
    /\ \A n \in Names : n # "" /\ n # "." /\ n # ".."
    /\ Commands \subseteq {"changes", "capture", "migrate", "validate", "trace", "usage",
                           "history", "cohort", "globs", "snapshot"}

(* Lists are lists, and a weight is a number: what the YAML decodes to.     *)
ASSUME TreesAssumption ==
    \A source \in Trees :
       LET trees == source.flag \o source.home \o source.embedded
       IN /\ trees \in Seq(ToSet(trees))
          /\ \A tree \in ToSet(trees) : \A task \in ToSet(tree.tasks) :
                /\ task.validators \in Seq(ToSet(task.validators))
                /\ \A v \in ToSet(task.validators) :
                      v.weight \in Int /\ v.present \in Seq(STRING) /\ v.absent \in Seq(STRING)

(* The runs of the nth cell of the experiment.                             *)
CellOf(n, cell) ==
    CellRuns(Arms[((n - 1) % Len(Arms)) + 1].label,
             SetToSeq(Selected.tasks)[((n - 1) \div Len(Arms)) + 1], cell)
NumCells == Len(Arms) * Cardinality(Selected.tasks)

(* A cell has so many runs, and what is measured is a number.              *)
ASSUME CellsAssumption ==
    /\ Arms \in Seq(ToSet(Arms)) /\ IsFiniteSet(Selected.tasks)
    /\ \A n \in 1 .. NumCells, cell \in Cells :
         /\ IsFiniteSet(CellOf(n, cell))
         /\ \A r \in CellOf(n, cell) : \A m \in DOMAIN r.metrics : r.metrics[m] \in Int

(* Ids tell runs apart, and none is one of the words that select a run.    *)
ASSUME RecordedAssumption ==
    /\ \A r \in Recorded : r.id \in Nat \ {0} /\ r.started \in Int
    /\ \A r, s \in Recorded : r.id = s.id => r = s

(* A run names no profile or one that is stored: a foreign key.            *)
ASSUME FiledAssumption ==
    \A r \in Recorded : r.profile = "" \/ \E p \in StoredProfiles : p.hash = r.profile

VARIABLES
    command,
    input,
    out,
    done,           \* has the command answered?
    refs, level, next, depth, visited, children, failures

capture == <<refs, level, next, depth, visited, children, failures>>
vars == <<command, input, out, done, changes, capture, migrationVars>>

T == INSTANCE SessionTree
Su == INSTANCE Suites
H == INSTANCE Cohort
P == INSTANCE Profiles

(* What the JSON of an exported session decodes to; a total may be missing. *)
ASSUME MessagesAssumption ==
    \A m \in Messages :
       /\ DOMAIN m = {"agent", "cost", "tokens", "tools"}
       /\ m.agent \in STRING /\ m.cost \in Int /\ m.tools \in Seq(STRING)
       /\ \A f \in T!TokenFields : m.tokens[f] \in IF f = "total" THEN Seq(Int) ELSE Int

(* What an event of the stream decodes to; tokens and cost may be missing. *)
ASSUME LinesAssumption ==
    \A l \in Lines :
       /\ l.json \in BOOLEAN
       /\ l.json =>
            LET p == l.event.part
            IN /\ l.event.type \in STRING /\ l.event.ts \in Int
               /\ {p.ok, p.verifies} \subseteq BOOLEAN /\ p.state \subseteq T!StateFields
               /\ {p.type, p.tool, p.status, p.file, p.session, p.text} \subseteq STRING
               /\ p.tokens \in Seq([T!TokenFields -> Int]) /\ p.cost \in Seq(Int)

EmptyInput ==
    [changes |-> {<<>>}, capture |-> {<<>>}, migrate |-> {<<>>}, validate |-> Trees,
     trace |-> {<<>>}, usage |-> {[primary |-> <<>>, sessions |-> <<<<>>, <<>>>>]},
     history |-> {{}}, cohort |-> {<<>>}, globs |-> {[glob |-> <<>>, path |-> <<>>]},
     snapshot |-> {<<>>}]

Init ==
    /\ command \in Commands
    /\ input \in EmptyInput[command]
    /\ out = <<>> /\ done = FALSE
    /\ ChangeInit
    /\ refs \in IF command = "capture" THEN Delegations ELSE {[s \in Ids |-> <<>>]}
    /\ T!TreeInit
    /\ MigrateInit
    /\ command # "migrate" => versions = {}

Given(c) == command = c /\ ~done /\ UNCHANGED <<command, changes, capture, migrationVars>>
Growing(c) == Given(c) /\ UNCHANGED <<out, done>>
Answer(c) == Given(c) /\ done' = TRUE /\ UNCHANGED input

(***************************************************************************)
(* A run: its worktree, its child sessions, its events, its verdict        *)
(***************************************************************************)

Change == /\ command = "changes" /\ ~done /\ ChangeNext
          /\ UNCHANGED <<command, input, out, done, capture, migrationVars>>

(* What is reported of the change set once the agent is done.              *)
ReportChanges ==
    /\ Answer("changes")
    /\ \E allow \in {{}, {<<"a">>}, {<<"**">>}} :
         out' = [unexpected |-> Su!UnexpectedFiles(allow, {<<p>> : p \in ChangedFiles}),
                 counts |-> ChangeCounts]

Capture == /\ command = "capture" /\ T!CaptureSessions
           /\ UNCHANGED <<command, input, out, done, changes, migrationVars>>

OpenDatabase == /\ command = "migrate" /\ MigrateNext
                /\ UNCHANGED <<command, input, out, done, changes, capture>>

PrintLine ==
    /\ Growing("trace") /\ Len(input) < MaxLines
    /\ \E l \in Lines : input' = Append(input, l)

(* ocbench trace, of a run of whose children some were captured.           *)
Trace ==
    /\ Answer("trace")
    /\ LET events == T!StoredEvents(input)
       IN \E captured \in SUBSET ToSet(T!DiscoverChildren(events)) :
            out' = T!Build(events, captured)

SayMessage ==
    /\ Growing("usage")
    /\ Len(input.primary) + Len(input.sessions[1]) + Len(input.sessions[2]) < MaxMessages
    /\ \E m \in Messages :
         \/ input' = [input EXCEPT !.primary = Append(@, m)]
         \/ \E i \in 1 .. 2 : input' = [input EXCEPT !.sessions[i] = Append(@, m)]

SessionOf(messages) ==
    T!ParseExport([tokens |-> [T!NoTokens EXCEPT !.total = <<>>], messages |-> messages])

(* The names and values the roll-up is recorded under.                     *)
AgentMetrics(agents) ==
    LET fields == [messages |-> "messages", tool_calls |-> "calls",
                   tokens_total |-> "tokens", cost |-> "cost"]
        value(a, f) == IF f = "tokens_total" THEN agents[a].tokens.total ELSE agents[a][fields[f]]
    IN [m \in {<<"agent", a, f>> : a \in DOMAIN agents, f \in DOMAIN fields} |-> value(m[2], m[3])]

(* The suite is loaded; then, the agent done and the hidden tests in       *)
(* place, the validators of a task judge.  A cancellation ends the run     *)
(* once some have started.                                                 *)
Load ==
    /\ Given("validate") /\ out = <<>>
    /\ LET s == Su!Resolve(input.flag, input.home, input.embedded)
       IN /\ out' = IF s.ok
                    THEN [ok |-> TRUE, suite |-> s.value, hash |-> Su!SuiteHash(s.value),
                          timeouts |-> {Su!EffectiveTimeout(t, s.value) : t \in ToSet(s.value.tasks)}]
                    ELSE s
          /\ done' = ~s.ok
    /\ UNCHANGED input

Validate ==
    /\ Answer("validate") /\ out # <<>>
    /\ \E task \in ToSet(out.suite.tasks), ctx \in Worktrees, end \in Ends, onPath \in {{}, {"go"}} :
         \E started \in 0 .. Len(task.validators) :
            LET vs == task.validators
                results == T!RunValidators(vs, ctx, [i \in DOMAIN vs |-> end],
                                           T!Requirements(task.requires, onPath), started)
                cancelled == started < Len(vs)
                status == IF cancelled THEN "error"
                          ELSE IF T!ValidatorsFailed(results) THEN "failed" ELSE "passed"
                metrics == T!DerivedMetrics(status, ctx, [created |-> 0, deleted |-> 0],
                              Su!UnexpectedFiles(task.allow, ctx.changed), results)
            IN out' = [ok |-> TRUE, validators |-> vs, end |-> end, cancelled |-> cancelled,
                       results |-> results, metrics |-> metrics]

(***************************************************************************)
(* Snapshots                                                               *)
(***************************************************************************)

(* Mutant: what is repeated is compared with itself.                       *)
ComparisonProfile_Latest(rows, hash) == H!LatestProfile(rows)

(* The profile a new one is compared with: the latest, or the last that    *)
(* differs from it, if there is one.                                       *)
ComparisonProfile(rows, hash) ==
    IF rows = {} THEN <<>>
    ELSE IF H!LatestProfile(rows)[1].hash = hash /\ H!PreviousProfile(rows, hash) # <<>>
         THEN H!PreviousProfile(rows, hash) ELSE H!LatestProfile(rows)

(* ocbench snapshot, taken again and again as the configuration changes.   *)
(* All within a second, so that the last profile is told by a random id.   *)
(* The rows of the changes are inserted if the profile is created.         *)
Snapshot ==
    /\ Given("snapshot") /\ Len(input) < MaxSnapshots
    /\ \E c \in Snapshots :
         LET sources == P!Discover(c.version, c.config, c.skills, c.agents, c.origins,
                                   c.files, c.dir, c.home)
             p == P!Fingerprint(sources, Options, Disk)
             rows == {input[i].row : i \in {j \in DOMAIN input : input[j].created}}
             previous == ComparisonProfile(rows, P!Hash(p))
         IN /\ input = <<>> => c.same
            /\ \E id \in {Len(input), -Len(input)} :
                 input' = Append(input,
                   [same |-> c.same, differences |-> c.differences,
                    created |-> \A r \in rows : r.hash # P!Hash(p),
                    row |-> [id |-> id, started |-> 0, hash |-> P!Hash(p)],
                    changes |-> IF previous = <<>> THEN {} ELSE H!Diff(previous[1].hash, p),
                    capture |-> P!ConfigCapture(P!AnyMap(P!Canonicalize(sources.config, c.home))),
                    primary |-> P!PrimaryAgent(p), architecture |-> P!Architecture(p)])
    /\ UNCHANGED <<out, done>>

(* The page of a profile: its captures may be missing or unreadable.       *)
ShowCaptures ==
    /\ Answer("snapshot") /\ Len(input) = 1
    /\ \E files \in UNION {[S -> {"whole", "corrupt"}] : S \in SUBSET {"config", "agents"}} :
         out' = P!ReadCaptures(files)

(***************************************************************************)
(* Reading what was recorded                                               *)
(***************************************************************************)

(* Runs are recorded as they end, in whatever order they started.          *)
RecordRun ==
    /\ Growing("history") /\ Cardinality(input) < MaxRuns
    /\ \E r \in Recorded \ input : input' = input \cup {r}

History ==
    /\ Answer("history")
    /\ \E limit \in 1 .. 2 : out' = H!List(input, StoredProfiles, "", limit)

ShowRun ==
    /\ Answer("history")
    /\ \E r \in Recorded : out' = H!Get(input, StoredProfiles, r.id)

Compare ==
    /\ Answer("history")
    /\ \E r \in Recorded, other \in {H!Latest, H!Previous} :
         out' = H!Compare(input, StoredProfiles, other, r.id)

Leaderboard ==
    /\ Answer("history")
    /\ \E scope \in {"all"} \cup {r.suite : r \in input} :
         out' = H!Overview(input, StoredProfiles, scope)

Calibrate ==
    /\ Answer("history")
    /\ \E suite \in {""} \cup {r.suite : r \in input} : out' = H!Calibration(input, suite)

Variance ==
    /\ Answer("history")
    /\ \E suite \in {""} \cup {r.suite : r \in input} : out' = H!Variance(input, suite, {})

(* What is laid over the configuration of an arm, before anything runs.    *)
ResolveArm ==
    /\ Answer("cohort") /\ input = <<>>
    /\ \E path \in Overlays : out' = H!ResolveOverlay(path)

(* The cells of the experiment are filled one after the other.             *)
RecordCell ==
    /\ Growing("cohort") /\ Len(input) < NumCells
    /\ \E cell \in Cells : input' = Append(input, cell)

ExperimentRuns == UNION {CellOf(i, input[i]) : i \in DOMAIN input}

(* The page of the cohorts: the experiments of several arms.               *)
ShowCohorts ==
    /\ Answer("cohort")
    /\ LET counts == H!ExperimentArmCounts({[experiment |-> Selected.id, arm |-> Arms[i].label] :
                                            i \in DOMAIN Arms})
       IN out' = [e \in {f \in DOMAIN counts : counts[f] >= 2} |->
                    H!SummarizeCohort(Selected, Arms, ExperimentRuns,
                                      {p.hash : p \in StoredProfiles}).gate]

ExperimentShow ==
    /\ Answer("cohort")
    /\ out' = H!DecideRegression(H!Summarize(Selected, Arms, ExperimentRuns, ""), H!Ratio(1, 2))

Report ==
    /\ Answer("cohort")
    /\ out' = H!SummarizeCohort(Selected, Arms, ExperimentRuns,
                                {p.hash : p \in StoredProfiles})

ExportRuns ==
    /\ Answer("cohort") /\ out' = H!ExportedRuns(Selected, Arms, ExperimentRuns)

(* The page of a profile beside another one.                               *)
ShowProfile ==
    /\ Answer("cohort")
    /\ \E p, q \in StoredProfiles :
         out' = H!ArchStats(p.hash, q.hash, Selected, Arms, ExperimentRuns)

AddSegment ==
    /\ Growing("globs")
    /\ \/ /\ Len(input.path) < MaxSegments /\ input.glob = <<>>
          /\ \E n \in Names \ {"*", "**", "["} : input' = [input EXCEPT !.path = Append(@, n)]
       \/ /\ Len(input.glob) < MaxSegments
          /\ \E n \in Names : input' = [input EXCEPT !.glob = Append(@, n)]

Next ==
    \/ Change \/ ReportChanges \/ Capture \/ OpenDatabase
    \/ PrintLine \/ Trace \/ SayMessage \/ Load \/ Validate
    \/ Snapshot \/ ShowCaptures
    \/ RecordRun \/ History \/ ShowRun \/ Compare \/ Leaderboard \/ Calibrate \/ Variance
    \/ ResolveArm \/ RecordCell \/ ShowCohorts \/ ExperimentShow \/ Report
    \/ ExportRuns \/ ShowProfile
    \/ AddSegment

Spec == Init /\ [][Next]_vars

(***************************************************************************)
(* Properties.  Each is about one of the commands; the modules state them. *)
(* NothingMissed of ChangeSet and SchemaExact and OneGetsThrough of         *)
(* Migrations are checked as they are.                                     *)
(***************************************************************************)

(* Every session within reach is captured or counted as failed, once:      *)
(* captureSessions.                                                        *)
CaptureExact == command = "capture" => T!CaptureExact

(* The trace and the metrics tell the same of one stream: trace.Build,     *)
(* Metrics.Observe.                                                        *)
TraceMatchesMetrics == command = "trace" => T!TraceMatchesMetrics(input)

(* What agents used adds up to what their sessions used, and is read back  *)
(* as it was recorded: sessionMetrics, AgentUsages.                        *)
UsageAddsUp ==
    command = "usage" =>
       LET primary == IF input.primary = <<>> THEN <<>> ELSE <<SessionOf(input.primary)>>
           sessions == [i \in 1 .. 2 |-> SessionOf(input.sessions[i])]
           agents == T!SessionMetrics(primary, sessions, 0, 0, Sanitize).agents
           stored == H!UpsertMetrics(<<>>, 1, AgentMetrics(agents))
           usages == H!AgentUsages(H!GetRunMetrics(stored, 1))
       IN /\ T!UsageAddsUp(primary, sessions, Sanitize)
          /\ \A a \in DOMAIN agents :
               /\ usages[<<a>>].tokens = agents[a].tokens.total
               /\ usages[<<a>>].messages = agents[a].messages

(* What a run is scored on is the agent's work.  A mistake in what a       *)
(* validator looks for is found when the suite is loaded, not held against *)
(* the agent (but not a mistake in the patterns of an answer, which are    *)
(* not compiled then, nor in one of several of a grep, which are compiled  *)
(* as one); and the verdict and the score of a run that was not cancelled  *)
(* agree: a pass has full marks or none at all.  resolveValidator,         *)
(* RunValidatorContext, scoreOf.                                           *)
ScoredOnItsWork ==
    command = "validate" /\ done /\ out.ok =>
       /\ \A i \in DOMAIN out.validators :
            LET v == out.validators[i]
                checked == \/ v.kind \in {"diff", "process"}
                           \/ v.kind = "grep" /\ Len(v.present \o v.absent) = 1
                           \/ v.kind = "command" /\ out.end.how = "exit"
            IN checked => out.results[i].status # "error"
       /\ LET score == T!Score(out.results)
          IN ~out.cancelled /\ score # <<>> =>
                (out.metrics.success = 1 <=> score[1] = score[2])

(* A change of the configuration is one change of the profile, and what is *)
(* not configuration (a secret, a home directory, the order of the rules)  *)
(* is none; opencode's version makes another profile of the same           *)
(* components: Fingerprint, Diff.                                          *)
OneChangeOneDiff ==
    command = "snapshot" /\ Len(input) >= 2 =>
       /\ Cardinality(input[2].changes) = input[2].differences
       /\ input[2].created = ~input[2].same

(* A snapshot repeated at once is not stored again and shows the changes   *)
(* it showed the first time, though it is its own latest profile by then   *)
(* (or not, as ids have it): runSnapshot, comparisonProfile.               *)
RepeatShowsTheSame ==
    command = "snapshot" =>
       \A i \in 2 .. Len(input) :
          input[i].row.hash = input[i - 1].row.hash =>
             input[i].changes = input[i - 1].changes /\ ~input[i].created

(* "previous" is the last comparable run that started before, whatever the *)
(* order in which the two were recorded or named: Compare.                 *)
CompareIsOrdered == command = "history" => H!CompareIsOrdered(input, StoredProfiles)

(* Arms are ranked only on passes they all have earned: SummarizeCohort.   *)
RankedIsEarned ==
    command = "cohort" => H!RankedIsEarned(Selected, Arms, ExperimentRuns,
                                           {p.hash : p \in StoredProfiles})

(* The experiment and the leaderboard find one cost per solved task:       *)
(* Summarize, ScoreProfile.                                                *)
CostAgrees == command = "cohort" => H!CostAgrees(Selected, Arms, ExperimentRuns)

(* Both matchers of path globs find what a glob means, in patterns that    *)
(* are well formed: evaluation.matchGlob, runner.matchGlob.                *)
GlobsAgree ==
    command = "globs" =>
       LET meant == Su!GlobMeans(input.glob, input.path)
       IN /\ Su!RunnerMatchGlob(input.glob, input.path) = meant
          /\ input.glob # <<>> /\ input.path # <<>>
             => Su!EvaluationMatchGlob(input.glob, input.path) = meant
===============================================================================
