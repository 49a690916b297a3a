------------------------------ MODULE Evaluation ------------------------------
(***************************************************************************)
(* Package evaluation: what a validator says of a run, and the metrics     *)
(* folded from the stream of events.                                       *)
(*                                                                         *)
(* A worktree is a set of files [path, type, size, binary, readable,       *)
(* words], a diff a sequence of lines [sign, text], an event a record      *)
(* [type, ts, part].  A part that is missing is NoPart.                    *)
(***************************************************************************)
EXTENDS Patterns

MaxGrepFileBytes == 1048576

(***************************************************************************)
(* Validators.  A result is its status and its exit code.                  *)
(***************************************************************************)

Passed == [status |-> "passed", exit |-> 0]
Fails == [status |-> "failed", exit |-> 1]
Error == [status |-> "error", exit |-> -1]
If(good) == IF good THEN Passed ELSE Fails
Count(yes) == IF yes THEN 1 ELSE 0

(* end is how the child came to its end: it did not start, the deadline    *)
(* passed, the context was cancelled, a signal ended it, or it exited.     *)
RunCommandValidator(spec, end) ==
    IF spec.command = <<>> THEN Error
    ELSE CASE end.how = "deadline" -> [status |-> "timeout", exit |-> -1]
           [] end.how \in {"not started", "cancelled", "signal"} -> Error
           [] OTHER -> [If(end.code = 0) EXCEPT !.exit = end.code]

RunAnswerValidator(spec, answer) ==
    LET mode == IF spec.mode = "" THEN "all" ELSE spec.mode
        patterns == ToSet(spec.patterns)
        unmatched == {p \in patterns : ~Found(p, answer)}
    IN IF mode \notin {"all", "any"} \/ spec.patterns = <<>> \/ \E p \in patterns : ~Compiles(p)
       THEN Error
       ELSE If(unmatched = {} \/ (mode = "any" /\ unmatched # patterns))

(* Lines that read like the two header forms are skipped; so is a removed  *)
(* line "-- ..." and an added line "++ ...".                               *)
DiffLineCounts(diff) ==
    LET lines(s) == {i \in DOMAIN diff : diff[i].sign = s /\ diff[i].text # s \o s \o " "}
    IN [added |-> Cardinality(lines("+")), removed |-> Cardinality(lines("-"))]

RunDiffValidator(spec, ctx) ==
    LET hits(glob) == {p \in ctx.changed : EvaluationMatchGlob(glob, p)}
        count == DiffLineCounts(ctx.diff)
    IN If(/\ \A g \in ToSet(spec.required) : hits(g) # {}
          /\ \A g \in ToSet(spec.forbidden) : hits(g) = {}
          /\ spec.maxLines > 0 => count.added + count.removed <= spec.maxLines)

(* Outside directories named .git, regular, readable, no larger than the   *)
(* ceiling, text.  In a worktree of git's, .git is a file: it is read.     *)
WorktreeFiles(files) ==
    {f \in files : /\ ".git" \notin ToSet(Front(f.path)) /\ f.type = "regular"
                   /\ f.size <= MaxGrepFileBytes /\ f.readable /\ ~f.binary}

RunGrepValidator(spec, files) ==
    LET somewhere(p) == \E f \in WorktreeFiles(files) : Found(p, f.words)
    IN IF \E p \in ToSet(spec.present) \cup ToSet(spec.absent) : ~Compiles(p) THEN Error
       ELSE If(/\ \A p \in ToSet(spec.present) : somewhere(p)
               /\ \A p \in ToSet(spec.absent) : ~somewhere(p))

(* A call is labelled with its tool, command, description and file path.   *)
ToolCallLabels(events) ==
    {events[i].part.words : i \in {j \in DOMAIN events :
        events[j].part.ok /\ events[j].part.tool # ""}}

RunProcessValidator(spec, events) ==
    IF spec.tool = "" \/ ~Compiles(spec.tool) THEN Error
    ELSE If(\E label \in ToolCallLabels(events) : Found(spec.tool, label))

RunValidatorContext(spec, ctx, end) ==
    CASE spec.kind = "command" -> RunCommandValidator(spec, end)
      [] spec.kind = "answer" -> RunAnswerValidator(spec, ctx.answer)
      [] spec.kind = "diff" -> RunDiffValidator(spec, ctx)
      [] spec.kind = "grep" -> RunGrepValidator(spec, ctx.files)
      [] spec.kind = "process" -> RunProcessValidator(spec, ctx.events)
      [] OTHER -> Error

(***************************************************************************)
(* The validators of a task, and what a run is scored                      *)
(***************************************************************************)

(* The programs a task asks for that are not on the PATH.                  *)
Requirements(requires, onPath) == {r \in requires : r \notin onPath}

Skipped == [status |-> "skipped", exit |-> -1, weight |-> 0]

(* Without the programs all are skipped; those after the started ones are  *)
(* if the run is cancelled.  ends: how the child of each comes to its end. *)
RunValidators(vs, ctx, ends, missing, started) ==
    LET run(i) == RunValidatorContext(vs[i], ctx, ends[i])
    IN [i \in DOMAIN vs |->
          IF missing # {} \/ i > started THEN Skipped
          ELSE [status |-> run(i).status, exit |-> run(i).exit, weight |-> vs[i].weight]]

Failures(results) == {i \in DOMAIN results : results[i].status \in {"failed", "error", "timeout"}}
ValidatorsFailed(results) == Failures(results) # {}

(* <<passed, counted>>, by weight, 1 if it is not positive; nothing if     *)
(* every validator was skipped.                                            *)
Score(results) ==
    LET weight == [i \in DOMAIN results |-> IF results[i].weight <= 0 THEN 1 ELSE results[i].weight]
        of(statuses) == SumFunctionOnSet(weight, {i \in DOMAIN results : results[i].status \in statuses})
        counted == of({"passed", "failed", "error", "timeout"})
    IN IF counted = 0 THEN <<>> ELSE <<of({"passed"}), counted>>

(* The metrics of a run that do not come from its events or sessions.      *)
DerivedMetrics(status, ctx, counts, unexpected, results) ==
    LET lines == DiffLineCounts(ctx.diff)
        failures == Cardinality(Failures(results))
        always == [files_changed |-> Cardinality(ctx.changed), files_created |-> counts.created,
                   files_deleted |-> counts.deleted, files_unexpected |-> Cardinality(unexpected),
                   diff_lines_added |-> lines.added, diff_lines_removed |-> lines.removed,
                   validator_failures |-> failures, success |-> Count(status = "passed"),
                   first_shot_success |-> Count(status = "passed" /\ failures = 0)]
    IN IF Score(results) = <<>> THEN always
       ELSE [m \in DOMAIN always \cup {"score"} |->
               IF m = "score" THEN Score(results) ELSE always[m]]

(***************************************************************************)
(* Events and metrics                                                      *)
(***************************************************************************)

(* part.ok: the part can be decoded; a missing one decodes to NoPart.      *)
(* part.state: which fields of a call's state have the type that is        *)
(* expected of them, none if there is no state.  Whoever reads it decodes  *)
(* the fields it needs, all or nothing.                                    *)
StateFields == {"status", "input", "title", "time", "session", "parent"}
Decodes(p, fields) == fields \subseteq p.state
MetricsState == {"status", "input"}

NoPart == [ok |-> TRUE, type |-> "", tool |-> "", state |-> {}, status |-> "",
           file |-> "", verifies |-> FALSE, session |-> "", tokens |-> <<>>, cost |-> <<>>,
           text |-> "", words |-> {}]

(* A line is an event if it is JSON and has a type.                        *)
ParseLine(line) == IF line.json /\ line.event.type # "" THEN <<line.event>> ELSE <<>>

EditTools == {"edit", "write", "patch"}

(* Tokens are [total, input, output, reasoning, read, write].              *)
TokenFields == {"total", "input", "output", "reasoning", "read", "write"}
NoTokens == [f \in TokenFields |-> 0]
AddTokens(a, b) == [f \in TokenFields |-> a[f] + b[f]]

NewMetrics ==
    [steps |-> 0, calls |-> 0, failed |-> 0, subagents |-> 0, skills |-> 0, mcp |-> <<>>,
     retries |-> 0, compactions |-> 0, errors |-> 0, byName |-> <<>>, tokens |-> NoTokens,
     cost |-> 0, texts |-> <<>>, answer |-> "", firstEdit |-> 0, beforeEdit |-> 0,
     reads |-> {}, redundant |-> 0, verifications |-> 0]

(* byName and mcp list the names in the order they were seen.  A tool is   *)
(* of the first configured server whose name and "_" begin its own; prefix *)
(* is that relation.  An edit at time zero is taken for none.              *)
ObserveTool(m, p, ts, servers, prefix) ==
    LET of == {i \in DOMAIN servers : <<servers[i], p.tool>> \in prefix}
        edits == m.firstEdit = 0 /\ p.tool \in EditTools
        known == Decodes(p, MetricsState)
        reads == p.tool = "read" /\ known /\ p.file # ""
    IN [m EXCEPT !.calls = @ + 1,
                 !.byName = Append(@, p.tool),
                 !.firstEdit = IF edits THEN ts ELSE @,
                 !.beforeEdit = @ + Count(m.firstEdit = 0 /\ ~edits),
                 !.redundant = @ + Count(reads /\ p.file \in m.reads),
                 !.reads = IF reads THEN @ \cup {p.file} ELSE @,
                 !.verifications = @ + Count(p.tool \in {"bash", "shell"} /\ known /\ p.verifies),
                 !.failed = @ + Count(known /\ p.status = "error"),
                 !.subagents = @ + Count(p.tool = "task"),
                 !.skills = @ + Count(p.tool = "skill"),
                 !.mcp = IF of = {} THEN @ ELSE Append(@, servers[Min(of)])]

(* The cost counts even if there are no tokens, or a total of zero.        *)
ObserveStepFinish(m, p) ==
    LET counted == p.tokens # <<>> /\ p.tokens[1].total # 0
    IN [m EXCEPT !.cost = IF p.cost = <<>> THEN @ ELSE @ + p.cost[1],
                 !.tokens = IF counted THEN AddTokens(@, p.tokens[1]) ELSE @]

ObserveText(m, p) == [m EXCEPT !.texts = Append(@, p.text), !.answer = p.text]

Observe(m, e, servers, prefix) ==
    LET p == e.part
        seen == CASE e.type = "step_start" -> [m EXCEPT !.steps = @ + 1]
                  [] e.type = "tool_use" -> ObserveTool(m, p, e.ts, servers, prefix)
                  [] e.type = "step_finish" -> ObserveStepFinish(m, p)
                  [] e.type = "text" -> ObserveText(m, p)
                  [] OTHER -> m
    IN IF ~p.ok THEN [m EXCEPT !.errors = @ + 1]
       ELSE [seen EXCEPT !.retries = @ + Count(p.type = "retry"),
                         !.compactions = @ + Count(p.type = "compaction")]

ObserveLine(m, line, servers, prefix) ==
    LET e == ParseLine(line)
    IN IF e = <<>> THEN [m EXCEPT !.errors = @ + 1] ELSE Observe(m, e[1], servers, prefix)

Metrics(lines, servers, prefix) ==
    FoldLeft(LAMBDA m, line : ObserveLine(m, line, servers, prefix), NewMetrics, lines)
===============================================================================
