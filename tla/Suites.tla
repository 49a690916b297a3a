-------------------------------- MODULE Suites --------------------------------
(***************************************************************************)
(* Package suite: loading a suite from a directory tree, its hashes, where *)
(* a suite of a given name is found, and its export.                       *)
(*                                                                         *)
(* A tree is a record: the values of suite.yaml and, in the order of their *)
(* directories, of every tasks/<id>.  A file is a record [path, type,      *)
(* content].  What is missing is <<>>.  A hash is what it digests.         *)
(***************************************************************************)
EXTENDS Patterns

Difficulties == {"", "easy", "medium", "hard"}
Tiers == {"", "smoke", "standard", "hard"}
CapabilityVocabulary == {"delegation", "planning", "tool-use", "context",
    "skill-use", "instruction-following", "restraint", "debugging",
    "multi-file", "search"}
DefaultTimeoutSeconds == 900

Failed == [ok |-> FALSE]
Loaded(v) == [ok |-> TRUE, value |-> v]

(***************************************************************************)
(* Validators                                                              *)
(***************************************************************************)

(* What a kind does not use is dropped.                                    *)
Blank == [kind |-> "", name |-> "", command |-> <<>>, patterns |-> <<>>, mode |-> "",
          required |-> <<>>, forbidden |-> <<>>, maxLines |-> 0,
          present |-> <<>>, absent |-> <<>>, tool |-> "", weight |-> 0]
Keep(raw, fields) ==
    [f \in DOMAIN Blank |-> IF f \in fields \cup {"kind", "name", "weight"} THEN raw[f]
                                                                           ELSE Blank[f]]

(* evaluator/answer.json stands in for missing patterns, and then for a    *)
(* missing mode.                                                           *)
ResolveAnswer(raw, answer) ==
    LET inline   == raw.patterns # <<>>
        patterns == IF inline \/ answer = <<>> THEN raw.patterns ELSE answer[1].patterns
        declared == IF inline \/ answer = <<>> \/ raw.mode # "" THEN raw.mode
                                                                ELSE answer[1].mode
        mode     == IF declared = "" THEN "all" ELSE declared
    IN IF (~inline /\ answer # <<>> /\ ~answer[1].parses) \/ patterns = <<>>
          \/ mode \notin {"all", "any"}
       THEN Failed
       ELSE Loaded([Keep(raw, {}) EXCEPT !.patterns = patterns, !.mode = mode])

(* Mutant: the patterns of a grep validator are not compiled.              *)
GrepResolves_NotCompiled(raw) == raw.present \o raw.absent # <<>>

GrepResolves(raw) ==
    raw.present \o raw.absent # <<>> /\ JoinCompiles(raw.present \o raw.absent)

ResolveValidator(raw, answer) ==
    LET If(good, fields) == IF good THEN Loaded(Keep(raw, fields)) ELSE Failed
    IN CASE raw.kind = "command" -> If(raw.command # <<>>, {"command"})
         [] raw.kind = "diff" ->
              If(/\ raw.required # <<>> \/ raw.forbidden # <<>> \/ raw.maxLines > 0
                 /\ raw.maxLines >= 0, {"required", "forbidden", "maxLines"})
         [] raw.kind = "grep" -> If(GrepResolves(raw), {"present", "absent"})
         [] raw.kind = "process" -> If(raw.tool # "" /\ Compiles(raw.tool), {"tool"})
         [] raw.kind = "answer" -> ResolveAnswer(raw, answer)
         [] OTHER -> Failed

(***************************************************************************)
(* Tasks and suites                                                        *)
(***************************************************************************)

Regular(files) == {f \in files : f.type = "regular"}
ManifestHash(files) == {<<f.path, f.content>> : f \in files}

ResolveTimeout(task, suiteDefault) ==
    IF task > 0 THEN task ELSE IF suiteDefault > 0 THEN suiteDefault
                               ELSE DefaultTimeoutSeconds

(* A destination is its segments, the first one empty when it is absolute. *)
DestStaysInside(dest) == dest = <<>> \/ (dest[1] # "" /\ ".." \notin ToSet(dest))

ValidatorSpecs(vs) ==
    [i \in DOMAIN vs |-> [kind |-> vs[i].kind, name |-> vs[i].name,
                          command |-> vs[i].command, patterns |-> vs[i].patterns,
                          mode |-> vs[i].mode]]

(* What is hashed of a task.  evaluator/tests and evaluator/reference are  *)
(* part of the evaluator's files.  Of a validator, what diff, grep and     *)
(* process validators look for is not, nor any weight.                     *)
TaskSpecOf(t) ==
    [id |-> t.id, version |-> t.version, difficulty |-> t.difficulty,
     capabilities |-> t.capabilities, timeout |-> t.timeout, requires |-> t.requires,
     allow |-> t.allow, validators |-> ValidatorSpecs(t.validators),
     prompt |-> t.prompt, fixture |-> t.fixtureHash,
     evaluator |-> ManifestHash(t.evaluator)]
HashTasks(tasks) == {TaskSpecOf(t) : t \in tasks}
SuiteHash(s) == [name |-> s.name, version |-> s.version, tasks |-> HashTasks(ToSet(s.tasks))]

(* vs: what came of its validators.                                        *)
TaskWith(vs, raw, suiteDefault) ==
    IF /\ raw.id # "" /\ raw.version # "" /\ raw.name # "" /\ raw.id = raw.dir
       /\ DestStaysInside(raw.dest)
       /\ raw.difficulty \in Difficulties
       /\ ToSet(raw.capabilities) \subseteq CapabilityVocabulary
       /\ raw.expected >= 0
       /\ raw.prompt # "" /\ raw.hasFixture
       /\ \A i \in DOMAIN vs : vs[i].ok
    THEN Loaded([id |-> raw.id, version |-> raw.version, difficulty |-> raw.difficulty,
                 capabilities |-> raw.capabilities,
                 timeout |-> ResolveTimeout(raw.timeout, suiteDefault),
                 requires |-> raw.requires, allow |-> raw.allow, prompt |-> raw.prompt,
                 dest |-> IF raw.dest = <<>> THEN <<"tests">> ELSE raw.dest,
                 fixtureHash |-> ManifestHash(Regular(raw.fixture)),
                 evaluator |-> Regular(raw.evaluator),
                 validators |-> [i \in DOMAIN vs |-> vs[i].value]])
    ELSE Failed

LoadTask(raw, suiteDefault) ==
    TaskWith([i \in DOMAIN raw.validators |-> ResolveValidator(raw.validators[i], raw.answer)],
             raw, suiteDefault)

SuiteWith(ts, tree) ==
    IF /\ tree.name # "" /\ tree.version # "" /\ tree.tier \in Tiers
       /\ \A i \in DOMAIN ts : ts[i].ok
    THEN Loaded([name |-> tree.name, version |-> tree.version, timeout |-> tree.timeout,
                 tasks |-> [i \in DOMAIN ts |-> ts[i].value]])
    ELSE Failed

(* The first task that cannot be loaded fails the suite.                   *)
LoadSuite(tree) ==
    SuiteWith([i \in DOMAIN tree.tasks |-> LoadTask(tree.tasks[i], tree.timeout)], tree)

EffectiveTimeout(t, s) == ResolveTimeout(t.timeout, s.timeout)

(***************************************************************************)
(* Where a suite comes from, and where it goes                             *)
(***************************************************************************)

(* --suite-dir, then $OCBENCH_HOME/suites, then the embedded suites: the   *)
(* first that is there is the one, even if it does not load.               *)
Resolve(flag, home, embedded) ==
    LET sources == flag \o home \o embedded
    IN IF sources = <<>> THEN Failed ELSE LoadSuite(sources[1])

(* Export copies every file, reading through symbolic links.               *)
ExportedFiles(files) == {[f EXCEPT !.type = "regular"] : f \in files}
Export(tree, destIsEmpty) ==
    IF destIsEmpty
    THEN Loaded([tree EXCEPT !.tasks =
           [i \in DOMAIN tree.tasks |->
              [tree.tasks[i] EXCEPT !.fixture = ExportedFiles(@), !.evaluator = ExportedFiles(@)]]])
    ELSE Failed
===============================================================================
