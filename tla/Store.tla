-------------------------------- MODULE Store ---------------------------------
(***************************************************************************)
(* The store's read queries.  Rows are inserted when a run is over but     *)
(* ordered by when it started, to the second, then by id; so a row may     *)
(* come before rows that readers have already seen.                        *)
(*                                                                         *)
(* A run has at least [id, started, dry, suite, hash, task, fixture,       *)
(* experiment]: hash stands for the suite's version and hash, task for id  *)
(* and version.  A query that finds nothing (sql.ErrNoRows) gives <<>>.    *)
(***************************************************************************)
EXTENDS Integers, Sequences, FiniteSets, SequencesExt

(* Mutant: runs of the same second are not told apart.                     *)
Older_BySecond(a, b) == a.started < b.started

(* (started_at, id) < (?, ?)                                               *)
Older(a, b) == a.started < b.started \/ (a.started = b.started /\ a.id < b.id)

OldestFirst(runs) ==
    LET insert(r, seq) == InsertAt(seq, 1 + Cardinality({i \in DOMAIN seq : Older(seq[i], r)}), r)
    IN FoldSet(insert, <<>>, runs)
NewestFirst(runs) == Reverse(OldestFirst(runs))
FirstOf(seq) == SubSeq(seq, 1, IF seq = <<>> THEN 0 ELSE 1)

RunsForExperiment(runs, e) == OldestFirst({r \in runs : r.experiment = e})

(* No limit if it is not positive.                                         *)
ListRuns(runs, limit, task) ==
    LET all == NewestFirst({r \in runs : task \in {"", r.task}})
    IN IF limit <= 0 \/ limit > Len(all) THEN all ELSE SubSeq(all, 1, limit)

ExperimentArmCounts(arms) ==
    [e \in {a.experiment : a \in arms} |-> Cardinality({a \in arms : a.experiment = e})]

GetRun(runs, id) == FirstOf(OldestFirst({r \in runs : r.id = id}))

LatestRun(runs) == FirstOf(NewestFirst({r \in runs : ~r.dry}))

PreviousCompatibleRun(runs, anchor) ==
    FirstOf(NewestFirst({r \in runs :
        /\ ~r.dry /\ r.suite = anchor.suite /\ r.hash = anchor.hash
        /\ r.task = anchor.task /\ r.fixture = anchor.fixture /\ Older(r, anchor)}))

(* Metrics and validations are upserts: a later value replaces the first.  *)
UpsertMetrics(table, run, metrics) ==
    [k \in DOMAIN table \cup ({run} \X DOMAIN metrics) |->
        IF k \in {run} \X DOMAIN metrics THEN metrics[k[2]] ELSE table[k]]
GetRunMetrics(table, run) ==
    [m \in {k[2] : k \in {j \in DOMAIN table : j[1] = run}} |-> table[<<run, m>>]]

(* The newest profile; the newest that is not the given one.               *)
LatestProfile(profiles) == FirstOf(NewestFirst(profiles))
PreviousProfile(profiles, hash) ==
    FirstOf(NewestFirst({p \in profiles : p.hash # hash}))

===============================================================================
