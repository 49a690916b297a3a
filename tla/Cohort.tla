-------------------------------- MODULE Cohort --------------------------------
(***************************************************************************)
(* Package experiment, once the runs are recorded: Summarize derives the   *)
(* statistics of every arm and task, DecideRegression interprets them, and *)
(* SummarizeCohort decides whether the arms may be ranked by cost.         *)
(*                                                                         *)
(* An arm is [label, profile]; the arms are in the order of their labels.  *)
(* An experiment is [id, baseline, tasks]: what its spec declares.         *)
(***************************************************************************)
EXTENDS History

RankableRepeats == 3

(***************************************************************************)
(* Overlays                                                                *)
(***************************************************************************)

(* A path is nothing, a regular file, a directory or something else.  The  *)
(* digest of a directory is of its regular files, links left out.          *)
ResolveOverlay(path) ==
    CASE path.type = "none" -> [ok |-> TRUE, kind |-> "none", env |-> "", sha |-> {}]
      [] path.type = "regular" ->
           [ok |-> TRUE, kind |-> "file", env |-> "OPENCODE_CONFIG", sha |-> path.content]
      [] path.type = "directory" ->
           [ok |-> TRUE, kind |-> "dir", env |-> "OPENCODE_CONFIG_DIR",
            sha |-> {<<f.path, f.content>> : f \in {g \in path.files : g.type = "regular"}}]
      [] OTHER -> [ok |-> FALSE]

(***************************************************************************)
(* Summarize                                                               *)
(***************************************************************************)

(* A failed validation vetoes what the metric says.                        *)
Solved(r) == ~r.vetoed /\ RunSucceeded(r)

SummarizeArmTask(runs) ==
    LET all == OldestFirst(runs)
        n == Len(all)
        outcomes == [i \in 1 .. n |-> Solved(all[i])]
        has(metric) == Len(Values(all, metric)) = n
    IN [executions |-> n, successes |-> Cardinality({i \in 1 .. n : Solved(all[i])}),
        passAtK |-> PassAtK(outcomes), passAllK |-> PassAllK(outcomes),
        tokens |-> Median(Values(all, "tokens_total")), hasTokens |-> has("tokens_total"),
        score |-> Mean(Values(all, "score")), hasScore |-> has("score"),
        cost |-> Total(Values(all, "cost")), hasCost |-> has("cost")]

Nobody == SummarizeArmTask({})

(* Of the inputs that must not differ, those a row has here.               *)
DriftFields == {"hash", "fixture"}
DriftWarnings(tasks, runs) ==
    {d \in tasks \X DriftFields :
        Cardinality({r[d[2]] : r \in {q \in runs : q.task = d[1]}}) > 1}

InsufficientData(arms, tasks, perArm) ==
    \/ arms # <<>> /\ tasks = {}
    \/ \E t \in tasks, i \in DOMAIN arms : perArm[<<t, arms[i].label>>].executions < 3

(* The request, the spec, or the first arm.                                *)
BaselineLabel(requested, exp, arms) ==
    IF requested # "" THEN requested
    ELSE IF exp.baseline # "" THEN exp.baseline
    ELSE IF arms = <<>> THEN "" ELSE arms[1].label

PassRateSample(tasks, perArm, label) ==
    FlattenSeq([i \in 1 .. Cardinality(tasks) |->
        LET s == perArm[<<SetToSeq(tasks)[i], label>>]
        IN [k \in 1 .. s.executions |-> IF k <= s.successes THEN One ELSE Zero]])

(* Of the tasks both arms solved at a known cost.                          *)
SharedCosts(costs, one, other) ==
    LET shared == SetToSeq(DOMAIN costs[one] \cap DOMAIN costs[other])
    IN [i \in DOMAIN shared |-> costs[one][shared[i]]]

StatTest(base, arm, stat, worse) ==
    LET b == StatOf(stat, base)
        a == StatOf(stat, arm)
    IN [observed |-> IF worse THEN Minus(a, b) ELSE Minus(b, a),
        p |-> PermutationP(base, arm, stat), applicable |-> base # <<>> /\ arm # <<>>,
        base |-> b, arm |-> a]

(* The cost of a task solved: of the tasks that were solved and whose      *)
(* executions all recorded a cost; an arm's is the median of its tasks'.   *)
CostByTask(tasks, perArm, label) ==
    [t \in {u \in tasks : perArm[<<u, label>>].successes > 0 /\ perArm[<<u, label>>].hasCost} |->
        Over(perArm[<<t, label>>].cost, perArm[<<t, label>>].successes)]

CostPerSolved(costs) ==
    IF DOMAIN costs = {} THEN <<>>
    ELSE <<Median([i \in 1 .. Cardinality(DOMAIN costs) |-> costs[SetToSeq(DOMAIN costs)[i]]])>>

(* perArm and costs: by task and arm, and by arm.                          *)
SummaryOf(arms, runs, tasks, perArm, costs, baseline) ==
    LET labels == DOMAIN costs
        sample(a) == IF a \in labels THEN PassRateSample(tasks, perArm, a) ELSE <<>>
        cost(a, b) == IF baseline \in labels THEN SharedCosts(costs, a, b) ELSE <<>>
    IN [ok |-> TRUE, arms |-> arms, tasks |-> tasks, perArm |-> perArm, costs |-> costs,
        costPerSolved |-> [a \in labels |-> CostPerSolved(costs[a])],
        drift |-> DriftWarnings(tasks, runs),
        insufficient |-> InsufficientData(arms, tasks, perArm),
        passTests |-> [a \in labels \ {baseline} |->
                          StatTest(sample(baseline), sample(a), "mean", FALSE)],
        costTests |-> [a \in labels \ {baseline} |->
                          StatTest(cost(baseline, a), cost(a, baseline), "median", TRUE)]]

SummaryOfTasks(arms, runs, tasks, perArm, baseline) ==
    SummaryOf(arms, runs, tasks, perArm,
              [i \in {arms[k].label : k \in DOMAIN arms} |-> CostByTask(tasks, perArm, i)], baseline)

Summarize(exp, arms, runs, requested) ==
    LET labels == {arms[i].label : i \in DOMAIN arms}
        ours == {r \in NotDry(ToSet(RunsForExperiment(runs, exp.id))) : r.arm \in labels}
        tasks == {r.task : r \in ours}
    IN IF requested \notin labels \cup {""} THEN NotFound
       ELSE SummaryOfTasks(arms, ours, tasks,
              [k \in tasks \X labels |->
                  SummarizeArmTask({r \in ours : r.task = k[1] /\ r.arm = k[2]})],
              BaselineLabel(requested, exp, arms))

(***************************************************************************)
(* DecideRegression                                                        *)
(***************************************************************************)

(* By more than a quarter; zero is exceeded by anything.                   *)
ExceedsBy25(base, arm) ==
    IF Less(Zero, base) THEN Less(Ratio(5 * base.n, 4 * base.d), arm) ELSE Less(Zero, arm)

(* The p-value that tells an arm regressed, if it did.                     *)
DecideArm(s, a, alpha) ==
    LET pass == s.passTests[a]
        cost == s.costTests[a]
        significant(t) == t.applicable /\ Less(t.p, alpha)
    IN IF significant(pass) /\ Less(Zero, pass.observed) THEN <<pass.p>>
       ELSE IF ~significant(pass) /\ significant(cost) /\ ExceedsBy25(cost.base, cost.arm)
       THEN <<cost.p>> ELSE <<>>

(* The arm with the strongest evidence, the first if there are several.    *)
DecideRegression(s, alpha) ==
    LET arms == SelectSeq(s.arms, LAMBDA a : a.label \in DOMAIN s.passTests)
        p(i) == DecideArm(s, arms[i].label, alpha)
        regressed == {i \in DOMAIN arms : p(i) # <<>>}
        worst == {i \in regressed : \A j \in regressed :
                     /\ ~Less(p(j)[1], p(i)[1])
                     /\ j < i => Less(p(i)[1], p(j)[1])}
    IN IF s.insufficient \/ s.drift # {} THEN {} ELSE {arms[i].label : i \in worst}

(***************************************************************************)
(* SummarizeCohort                                                         *)
(***************************************************************************)

(* The tasks the experiment selected, or those that were observed.         *)
CohortTaskIDs(exp, s) == IF exp.tasks \ {""} = {} THEN s.tasks ELSE exp.tasks \ {""}
CohortBaseline(exp) == exp.baseline

(* Stored and decodable.                                                   *)
ArmProfile(label, arms, readable) ==
    \E i \in DOMAIN arms : arms[i].label = label /\ arms[i].profile \in readable

(* Mutant: one success is enough.                                          *)
AllPassed_Once(of) == of.successes > 0

AllPassed(of) == of.executions > 0 /\ of.successes = of.executions

CohortArm(a, exp, s, readable) ==
    LET selected == CohortTaskIDs(exp, s)
        of(t) == IF t \in s.tasks THEN s.perArm[<<t, a.label>>] ELSE Nobody
        has == {t \in selected : of(t).executions > 0}
        sum(f(_)) == MapThenSumSet(f, selected)
        runs == sum(LAMBDA t : of(t).executions)
        scores == FoldSet(LAMBDA t, x : Plus(x, Ratio(of(t).score.n * of(t).executions,
                                                      of(t).score.d)), Zero, has)
        every(yes(_)) == has = selected /\ \A t \in selected : yes(t)
        tokens == [i \in 1 .. Cardinality(has) |-> of(SetToSeq(has)[i]).tokens]
    IN [label |-> a.label, runs |-> runs,
        unavailable |-> /\ a.label # CohortBaseline(exp)
                        /\ \/ ~ArmProfile(CohortBaseline(exp), s.arms, readable)
                           \/ ~ArmProfile(a.label, s.arms, readable),
        passRate |-> IF runs = 0 THEN Zero ELSE Ratio(sum(LAMBDA t : of(t).successes), runs),
        score |-> IF runs > 0 /\ every(LAMBDA t : of(t).hasScore) THEN <<Over(scores, runs)>>
                  ELSE <<>>,
        tokens |-> IF has # {} /\ every(LAMBDA t : of(t).hasTokens) THEN <<Median(tokens)>>
                   ELSE <<>>,
        costPerSolved |-> s.costPerSolved[a.label],
        eligible |-> /\ every(LAMBDA t : of(t).executions >= RankableRepeats /\ AllPassed(of(t)))
                     /\ s.costPerSolved[a.label] # <<>>]

(* The gate names the first reason not to rank.                            *)
Gate(exp, s, cohort) ==
    IF Len(s.arms) < 2 THEN "arms"
    ELSE IF s.tasks = {} THEN "runs"
    ELSE IF ~(CohortTaskIDs(exp, s) \subseteq s.tasks) THEN "task"
    ELSE IF s.drift # {} THEN "inputs"
    ELSE IF s.insufficient THEN "repeats"
    ELSE IF \E i \in DOMAIN cohort : cohort[i].costPerSolved = <<>> THEN "cost"
    ELSE IF \E i \in DOMAIN cohort : ~cohort[i].eligible THEN "validation"
    ELSE "eligible"

Standing(gate, cohort) ==
    LET before(a, b) == \/ a.eligible /\ ~b.eligible
                        \/ /\ a.eligible /\ b.eligible
                           /\ Less(a.costPerSolved[1], b.costPerSolved[1])
    IN [gate |-> gate, ranked |-> gate = "eligible", arms |-> StableSort(cohort, before)]

CohortOf(exp, s, cohort) == Standing(Gate(exp, s, cohort), cohort)

CohortOfSummary(exp, s, readable) ==
    CohortOf(exp, s, [i \in DOMAIN s.arms |-> CohortArm(s.arms[i], exp, s, readable)])

SummarizeCohort(exp, arms, runs, readable) ==
    CohortOfSummary(exp, Summarize(exp, arms, runs, ""), readable)

(***************************************************************************)
(* The export, and the page of a profile                                   *)
(***************************************************************************)

(* A line for each run of an arm; dry runs are among them.                 *)
ExportedRuns(exp, arms, runs) ==
    SelectSeq(RunsForExperiment(runs, exp.id), LAMBDA r : \E i \in DOMAIN arms : arms[i].label = r.arm)

(* What a profile did in an experiment of several arms, and by how much    *)
(* another did better.  A figure the other has none of counts as zero.     *)
ArchStats(hash, other, exp, arms, runs) ==
    LET ofExperiment == ToSet(RunsForExperiment(runs, exp.id))
        mine == ProfileScoreForRuns(hash, ofExperiment)
        theirs == ProfileScoreForRuns(other, ofExperiment)
        minus(x, y) == IF theirs.runs = 0 \/ x = <<>> THEN <<>>
                       ELSE <<Minus(x[1], IF y = <<>> THEN Zero ELSE y[1])>>
    IN IF Len(arms) < 2 \/ mine.runs = 0 THEN NotFound
       ELSE [ok |-> TRUE,
             passRate |-> mine.passRate, passDelta |-> minus(mine.passRate, theirs.passRate),
             cost |-> mine.costPerSolved,
             costDelta |-> minus(mine.costPerSolved, theirs.costPerSolved),
             tokens |-> mine.medianTokens,
             tokensDelta |-> minus(mine.medianTokens, theirs.medianTokens)]

(***************************************************************************)
(* Properties                                                              *)
(***************************************************************************)

Executions(exp, arms, runs, t, i) ==
    {r \in NotDry(runs) : r.experiment = exp.id /\ r.arm = arms[i].label /\ r.task = t}

(* A standing is earned: every arm ran every selected task three times at  *)
(* least and passed each time, on one fixture and one suite; no arm is     *)
(* left out, and none is ranked above a cheaper one: SummarizeCohort.      *)
Earned(c, exp, arms, runs) ==
    LET observed == UNION {{r.task : r \in {q \in NotDry(runs) :
                              q.experiment = exp.id /\ q.arm = arms[i].label}} : i \in DOMAIN arms}
        selected == IF exp.tasks \ {""} = {} THEN observed ELSE exp.tasks \ {""}
    IN
    c.ranked =>
      /\ Len(arms) >= 2
      /\ \A t \in selected, i \in DOMAIN arms :
           LET of == Executions(exp, arms, runs, t, i)
           IN /\ Cardinality(of) >= 3 /\ \A r \in of : ~r.vetoed /\ RunSucceeded(r)
              /\ \A j \in DOMAIN arms : \A r \in of, q \in Executions(exp, arms, runs, t, j) :
                    r.hash = q.hash /\ r.fixture = q.fixture
      /\ Len(c.arms) = Len(arms)
      /\ \A i \in DOMAIN arms : \E j \in DOMAIN c.arms : c.arms[j].label = arms[i].label
      /\ \A i \in DOMAIN c.arms : c.arms[i].costPerSolved # <<>>
      /\ \A i, j \in DOMAIN c.arms :
           i < j => ~Less(c.arms[j].costPerSolved[1], c.arms[i].costPerSolved[1])
RankedIsEarned(exp, arms, runs, readable) ==
    Earned(SummarizeCohort(exp, arms, runs, readable), exp, arms, runs)

(* The two read models find the same cost for what an arm solved, if it    *)
(* worked on one task and no validation overrules the metric: "the same    *)
(* corpus produces two different cost-per-solved figures" otherwise        *)
(* (store.RunSucceeded): Summarize and ScoreProfile.                       *)
SameCost(one, other) ==
    (one = <<>>) = (other = <<>>) /\ (one # <<>> => Same(one[1], other[1]))
CostAgrees(exp, arms, runs) ==
    \A i \in DOMAIN arms :
       LET of == {r \in NotDry(runs) : r.experiment = exp.id /\ r.arm = arms[i].label}
       IN (/\ Cardinality({<<r.suite, r.task>> : r \in of}) = 1
           /\ \A r \in of : r.vetoed => ~RunSucceeded(r))
          => SameCost(ScoreProfile(of).costPerSolved,
                      Summarize(exp, arms, runs, "").costPerSolved[arms[i].label])
===============================================================================
