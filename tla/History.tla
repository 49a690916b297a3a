-------------------------------- MODULE History -------------------------------
(***************************************************************************)
(* Package history: the read models over all recorded runs.  Nothing they  *)
(* compute is stored.                                                      *)
(*                                                                         *)
(* A run is a row of the store with the values of its metrics: [id,        *)
(* started, dry, suite, hash, task, fixture, experiment, arm, profile,     *)
(* status, metrics, vetoed].  vetoed: one of its validations did not pass. *)
(***************************************************************************)
EXTENDS Store, Statistics

Has(r, metric) == metric \in DOMAIN r.metrics
Value(r, metric) == IF Has(r, metric) THEN r.metrics[metric] ELSE 0
Values(runs, metric) ==
    FlattenSeq([i \in DOMAIN runs |->
        IF Has(runs[i], metric) THEN <<Ratio(runs[i].metrics[metric], 1)>> ELSE <<>>])

(* success is in percent here: half credit or better.                      *)
RunSucceeded(r) == IF Has(r, "success") THEN r.metrics["success"] >= 50 ELSE r.status = "passed"

ScoreOf(r) == Ratio(IF Has(r, "score") THEN r.metrics["score"] ELSE Value(r, "success"), 1)

NotDry(runs) == {r \in runs : ~r.dry}

(***************************************************************************)
(* Details and comparison                                                  *)
(***************************************************************************)

NotFound == [ok |-> FALSE]
NoProfile == [version |-> "", components |-> <<>>]

(* A run names no profile, or one that is stored.                          *)
LoadDetail(r, profiles) ==
    IF r.profile = "" THEN [ok |-> TRUE, run |-> r, profile |-> NoProfile]
    ELSE IF \E p \in profiles : p.hash = r.profile
         THEN [ok |-> TRUE, run |-> r, profile |-> CHOOSE p \in profiles : p.hash = r.profile]
    ELSE NotFound

(* components: [<<kind, name>> -> hash]                                    *)
Diff(from, to) ==
    LET before == from.components
        after == to.components
    IN {[key |-> k, change |-> "added"] : k \in DOMAIN after \ DOMAIN before}
       \cup {[key |-> k, change |-> "removed"] : k \in DOMAIN before \ DOMAIN after}
       \cup {[key |-> k, change |-> "changed"] :
                k \in {m \in DOMAIN before \cap DOMAIN after : before[m] # after[m]}}

List(runs, profiles, task, limit) ==
    LET details == [i \in DOMAIN ListRuns(runs, limit, task) |->
                       LoadDetail(ListRuns(runs, limit, task)[i], profiles)]
    IN IF \E i \in DOMAIN details : ~details[i].ok THEN NotFound
       ELSE [ok |-> TRUE, runs |-> details]

Get(runs, profiles, id) ==
    IF GetRun(runs, id) = <<>> THEN NotFound ELSE LoadDetail(GetRun(runs, id)[1], profiles)

(* A selector is the id of a run, or one of two words that no id equals.   *)
Latest == 0
Previous == -1

ResolveOne(runs, selector) ==
    IF selector = Latest THEN LatestRun(runs) ELSE GetRun(runs, selector)

(* The pair, older first if one is "previous"; shorter if one is missing.  *)
ResolvePair(runs, left, right) ==
    LET anchor == ResolveOne(runs, IF left = Previous THEN right ELSE left)
    IN IF Previous \notin {left, right}
       THEN ResolveOne(runs, left) \o ResolveOne(runs, right)
       ELSE IF anchor = <<>> THEN <<>>
       ELSE PreviousCompatibleRun(runs, anchor[1]) \o anchor

Compatible(a, b) ==
    /\ ~a.dry /\ ~b.dry /\ a.suite = b.suite /\ a.hash = b.hash
    /\ a.task = b.task /\ a.fixture = b.fixture

(* A missing value is zero.                                                *)
MetricDeltas(before, after) ==
    [m \in DOMAIN before.metrics \cup DOMAIN after.metrics |->
        [delta |-> Value(after, m) - Value(before, m), percent |-> Value(before, m) # 0]]

ControlledRunWarning(changes) == changes > 1

Compare(runs, profiles, left, right) ==
    LET pair == ResolvePair(runs, left, right)
        details == [i \in DOMAIN pair |-> LoadDetail(pair[i], profiles)]
        changes == Diff(details[1].profile, details[2].profile)
    IN IF \/ left = Previous /\ right = Previous
          \/ Len(pair) < 2
          \/ pair[1].dry \/ pair[2].dry
          \/ Previous \notin {left, right} /\ ~Compatible(pair[1], pair[2])
          \/ \E i \in 1 .. 2 : ~details[i].ok
       THEN NotFound
       ELSE [ok |-> TRUE, before |-> pair[1], after |-> pair[2],
             deltas |-> MetricDeltas(pair[1], pair[2]),
             changes |-> changes,
             warning |-> ControlledRunWarning(Cardinality(changes))]

(* agent.<name>.<metric>, the metric after the last dot; a name is cut at  *)
(* its dots here.                                                          *)
AgentUsages(metrics) ==
    LET ofAgents == {m \in DOMAIN metrics : m[1] = "agent" /\ Len(m) > 2}
        usage(a, word) == LET m == Append(<<"agent">> \o a, word)
                          IN IF m \in ofAgents THEN metrics[m] ELSE 0
    IN [a \in {Front(Tail(m)) : m \in ofAgents} |->
          [messages |-> usage(a, "messages"), calls |-> usage(a, "tool_calls"),
           tokens |-> usage(a, "tokens_total"), cost |-> usage(a, "cost")]]

CacheHitRate(read, input) == IF read + input <= 0 THEN <<>> ELSE <<Ratio(read, read + input)>>

(***************************************************************************)
(* The leaderboard                                                         *)
(***************************************************************************)

(* Mutant: a run without a cost costs nothing.                             *)
TaskScore_MissingIsFree(suite, task, runs) ==
    [suite |-> suite, task |-> task, runs |-> Len(runs),
     solved |-> Cardinality({i \in DOMAIN runs : RunSucceeded(runs[i])}),
     score |-> Mean([i \in DOMAIN runs |-> ScoreOf(runs[i])]),
     cost |-> Total(Values(runs, "cost")), costComplete |-> TRUE,
     tokens |-> Values(runs, "tokens_total")]

TaskScore(suite, task, runs) ==
    [suite |-> suite, task |-> task, runs |-> Len(runs),
     solved |-> Cardinality({i \in DOMAIN runs : RunSucceeded(runs[i])}),
     score |-> Mean([i \in DOMAIN runs |-> ScoreOf(runs[i])]),
     cost |-> Total(Values(runs, "cost")),
     costComplete |-> Len(Values(runs, "cost")) = Len(runs),
     tokens |-> Values(runs, "tokens_total")]

ScoreProfile(runs) ==
    LET all == OldestFirst(runs)
        at(k) == OldestFirst({r \in runs : <<r.suite, r.task>> = k})
        tasks == {TaskScore(k[1], k[2], at(k)) : k \in {<<r.suite, r.task>> : r \in runs}}
        suites == {t.suite : t \in tasks}
        scores(of) == SetToSeq({<<t.suite, t.task, t.score>> : t \in of})
        mean(of) == Mean([i \in DOMAIN scores(of) |-> scores(of)[i][3]])
        paid == {t \in tasks : t.costComplete /\ t.solved > 0}
        cost == FoldSet(LAMBDA t, sum : Plus(sum, t.cost), Zero, paid)
        solved(of) == MapThenSumSet(LAMBDA t : t.solved, of)
        medians == {<<t.suite, t.task, Median(t.tokens)>> : t \in {u \in tasks : u.tokens # <<>>}}
        tokens == [i \in 1 .. Cardinality(medians) |-> SetToSeq(medians)[i][3]]
    IN [runs |-> Cardinality(runs), tasks |-> tasks,
        perSuite |-> [s \in suites |-> mean({t \in tasks : t.suite = s})],
        \* by suite, weighted with its tasks: the mean over the tasks
        score |-> Mean([i \in 1 .. Cardinality(tasks) |-> SetToSeq(tasks)[i].score]),
        passRate |-> IF runs = {} THEN <<>> ELSE <<Ratio(solved(tasks), Cardinality(runs))>>,
        costPerSolved |-> IF paid = {} THEN <<>> ELSE <<Over(cost, solved(paid))>>,
        medianTokens |-> IF tokens = <<>> THEN <<>> ELSE <<Median(tokens)>>,
        cacheHitRate |-> CacheHitRate(Total(Values(all, "tokens_cache_read")).n,
                                      Total(Values(all, "tokens_input")).n),
        mde |-> HasMDE(scores(tasks), Cardinality(tasks)),
        last |-> IF runs = {} THEN 0 ELSE Last(all).started]

ProfileScoreForRuns(profile, runs) ==
    ScoreProfile({r \in NotDry(runs) : r.profile = profile})

(* The hash of the newest run of each suite: the first of the rows, newest *)
(* first, that no other is later than.                                     *)
LatestSuiteHashes(runs) ==
    [s \in {r.suite : r \in NotDry(runs)} |->
        NewestFirst({r \in NotDry(runs) : r.suite = s})[1].hash]

Overview(runs, profiles, scope) ==
    LET inScope == {r \in NotDry(runs) : scope \in {"all", r.suite}}
        scored == {r \in inScope : r.hash = LatestSuiteHashes(runs)[r.suite]}
        \* of equals the lesser hash goes first: some order of the hashes
        hashes == SetToSeq({p.hash : p \in profiles})
        row(h) == [hash |-> h, score |-> ScoreProfile({r \in scored : r.profile = h})]
        before(a, b) == \/ a.score.runs > 0 /\ b.score.runs = 0
                        \/ /\ a.score.runs > 0 /\ b.score.runs > 0
                           /\ Less(b.score.score, a.score.score)
    IN [total |-> Cardinality(inScope), excluded |-> Cardinality(inScope \ scored),
        suites |-> {r.suite : r \in NotDry(runs)},
        profiles |-> StableSort([i \in DOMAIN hashes |-> row(hashes[i])], before),
        last |-> IF inScope = {} THEN 0 ELSE NewestFirst(inScope)[1].started]

(***************************************************************************)
(* Calibration                                                             *)
(***************************************************************************)

ProcessMetrics == {"tool_calls_total", "subagent_calls", "retries", "compactions"}

(* What a run recorded of how it worked.                                   *)
ProcessSignature(r) == [m \in ProcessMetrics \cap DOMAIN r.metrics |-> r.metrics[m]]
RecordsNoMore(s, other) == \A m \in DOMAIN s : m \in DOMAIN other /\ other[m] = s[m]

DistinctSignatures(sigs) ==
    Cardinality({s \in sigs : ~\E o \in sigs : RecordsNoMore(s, o) /\ ~RecordsNoMore(o, s)})

(* In percent.  A single run establishes no rate.                          *)
Classify(passRate, runs) ==
    IF runs < 2 THEN "unknown"
    ELSE IF ~Less(passRate, Ratio(90, 1)) THEN "saturated"
    ELSE IF ~Less(Ratio(20, 1), passRate) THEN "always-fails"
    ELSE "informative"

(* The pass rate is the mean of the success metric, a missing one zero.    *)
Calibration(runs, suite) ==
    LET counted == {r \in NotDry(runs) : suite \in {"", r.suite}}
        task(k) ==
            LET of == OldestFirst({r \in counted : <<r.suite, r.task>> = k})
                sigs == {ProcessSignature(r) : r \in ToSet(of)} \ {<<>>}
                rate == Mean([i \in DOMAIN of |-> Ratio(Value(of[i], "success"), 1)])
            IN [key |-> k, runs |-> Len(of), profiles |-> {r.profile : r \in ToSet(of)},
                passRate |-> rate, verdict |-> Classify(rate, Len(of)),
                score |-> Mean([i \in DOMAIN of |-> ScoreOf(of[i])]),
                signatures |-> DistinctSignatures(sigs), process |-> sigs # {}]
        tasks == {task(k) : k \in {<<r.suite, r.task>> : r \in counted}}
    IN [tasks |-> tasks,
        verdicts |-> [v \in {"informative", "saturated", "always-fails", "unknown"} |->
                         Cardinality({t \in tasks : t.verdict = v})],
        noProcessVariance |-> Cardinality({t \in tasks :
            t.process /\ Cardinality(t.profiles) >= 2 /\ t.signatures = 1})]

(***************************************************************************)
(* Variance                                                                *)
(***************************************************************************)

VarianceAxes == {"tokens_total", "tokens_cache_read", "tool_calls_total", "duration_ms", "score"}
IndicativeDOF == 4

(* Within the runs of one profile on one task; groups with a mean of zero  *)
(* have no relative spread.                                                *)
AxisVariance(groups, axis) ==
    LET sample(g) == Values(OldestFirst(g), axis)
        usable == {g \in groups : HasStdDev(sample(g)) /\ Total(sample(g)).n # 0}
        dof == MapThenSumSet(LAMBDA g : Len(sample(g)) - 1, usable)
        spread == FoldSet(LAMBDA g, t : Plus(t, RelativeSpread(sample(g))), Zero, usable)
    IN [groups |-> Cardinality(usable), samples |-> dof + Cardinality(usable),
        spread |-> spread, indicative |-> dof < IndicativeDOF, repeats |-> HasRepeats(spread)]

Variance(runs, suite, tasks) ==
    LET counted == {r \in NotDry(runs) : suite \in {"", r.suite} /\ (tasks = {} \/ r.task \in tasks)}
        of(k) == {r \in counted : <<r.suite, r.task>> = k}
        groups(k) == {{r \in of(k) : r.profile = p} : p \in {r.profile : r \in of(k)}}
        repeated(k) == {g \in groups(k) : Cardinality(g) >= 2}
        keys == {<<r.suite, r.task>> : r \in counted}
    IN [tasks |-> [k \in keys |->
            [runs |-> Cardinality(of(k)), profiles |-> Cardinality(groups(k)),
             repeated |-> Cardinality(repeated(k)),
             axes |-> [a \in {b \in VarianceAxes : AxisVariance(groups(k), b).groups > 0} |->
                          AxisVariance(groups(k), a)]]],
        total |-> Cardinality(counted),
        single |-> Cardinality({k \in keys : Cardinality(of(k)) = 1}),
        repeatedTasks |-> Cardinality({k \in keys : repeated(k) # {}})]

(***************************************************************************)
(* Properties                                                              *)
(***************************************************************************)

(* A run is compared with its predecessor, whichever is named first: the   *)
(* last comparable run that started before, runs of one second told apart  *)
(* by their ids, and there is none to find only if there is none, though   *)
(* rows arrive out of the order the runs started in: Compare,              *)
(* resolvePair, PreviousCompatibleRun.                                     *)
Ordered(c, reversed, r, runs) ==
    LET before(q, s) == q.started < s.started \/ (q.started = s.started /\ q.id < s.id)
        candidates == {q \in runs : Compatible(q, r) /\ before(q, r)}
    IN /\ reversed = c
       /\ c.ok <=> candidates # {}
       /\ c.ok => /\ c.after = r /\ c.before \in candidates
                  /\ \A q \in candidates \ {c.before} : before(q, c.before)
CompareIsOrdered(runs, profiles) ==
    \A r \in NotDry(runs) :
       Ordered(Compare(runs, profiles, r.id, Previous), Compare(runs, profiles, Previous, r.id),
               r, runs)
===============================================================================
