------------------------------ MODULE MCOffline -------------------------------
(* Small inputs for every command.                                          *)
EXTENDS Offline

MCBase == [p \in Paths |-> IF p = "a" THEN "c1" ELSE None]

\* Sessions named twice, in a circle, too deep, or with an id that escapes.
MCDelegations ==
    {[s \in Ids |-> CASE s = "s0" -> a [] s = "s1" -> b [] s = "s2" -> c [] s = "s3" -> d
                      [] OTHER -> <<>>] :
     a \in {<<>>, <<"s1", "s1", "s2">>, <<"s4", "s3">>, <<"s2">>},
     b \in {<<>>, <<"s2", "s0">>, <<"s3", "s4">>, <<"s1", "s3">>},
     c \in {<<>>, <<"s1">>, <<"s3", "s3">>, <<"s0", "s4">>},
     d \in {<<>>, <<"s4">>, <<"s1", "s2">>}}

MCKnown == [p \in Openers |-> IF p = "old" THEN 3 ELSE 4]

(***************************************************************************)
(* Suites and validators                                                   *)
(***************************************************************************)

Raw(kind) == [Su!Blank EXCEPT !.kind = kind, !.name = kind, !.weight = 1]
Raws ==
    {[Raw("command") EXCEPT !.command = c] : c \in {<<>>, <<"make">>}}
    \cup {[Raw("diff") EXCEPT !.required = r, !.forbidden = f, !.maxLines = n] :
            r \in {<<>>, <<<<"**", "a">>>>}, f \in {<<>>, <<<<"*", "b">>>>}, n \in {-1, 0, 1}}
    \cup {[Raw("grep") EXCEPT !.present = p, !.absent = a] :
            p \in {<<>>, <<"x">>, <<"(">>}, a \in {<<>>, <<"y">>, <<")">>}}
    \cup {[Raw("process") EXCEPT !.tool = t] : t \in {"", "x", ")"}}
    \cup {[Raw("answer") EXCEPT !.patterns = p, !.mode = m] :
            p \in {<<>>, <<"x">>, <<"x", "y">>, <<"(">>}, m \in {"", "any", "most"}}

File(type, content) == [path |-> "f", type |-> type, content |-> content]
Task(raw, answer) ==
    [id |-> "t1", dir |-> "t1", version |-> "1", name |-> "Task", dest |-> <<>>,
     difficulty |-> "easy", capabilities |-> <<"search">>, expected |-> 1, timeout |-> 0,
     requires |-> {"go"}, allow |-> {<<"**">>}, prompt |-> "Do it.", hasFixture |-> TRUE,
     fixture |-> {File("regular", "1"), File("symlink", "2")}, evaluator |-> {},
     validators |-> <<raw>>, answer |-> answer]
Tree(raw, answer) ==
    [name |-> "core", version |-> "1", tier |-> "smoke", timeout |-> 60,
     tasks |-> <<Task(raw, answer)>>]
Whole == Tree([Raw("command") EXCEPT !.command = <<"make">>], <<>>)
Weighed == [Whole EXCEPT !.tasks[1].validators =
               <<[Raw("process") EXCEPT !.tool = "x", !.weight = 3],
                 [Raw("command") EXCEPT !.command = <<"make">>, !.weight = 0]>>]
Broken == [Whole EXCEPT !.tasks[1].dest = <<"..", "out">>]
Source(flag, home, embedded) == [flag |-> flag, home |-> home, embedded |-> embedded]

MCTrees ==
    {Source(<<Tree(raw, a)>>, <<>>, <<Whole>>) : raw \in Raws,
        a \in {<<>>, <<[parses |-> TRUE, patterns |-> <<"y">>, mode |-> "any"]>>,
               <<[parses |-> FALSE, patterns |-> <<>>, mode |-> ""]>>}}
    \cup {Source(<<Weighed>>, <<>>, <<>>), Source(<<>>, <<Broken>>, <<Whole>>), Source(<<>>, <<>>, <<>>),
          Source(<<>>, <<>>, <<Su!Export(Whole, TRUE).value>>)}

(***************************************************************************)
(* Events                                                                  *)
(***************************************************************************)

Event(type, ts, part) == [json |-> TRUE, event |-> [type |-> type, ts |-> ts, part |-> part]]
Tokens(n) == [T!NoTokens EXCEPT !.total = n, !.input = 2]
Call(tool, status, file, session) ==
    [T!NoPart EXCEPT !.type = "tool", !.tool = tool, !.state = T!StateFields, !.status = status,
                     !.file = file, !.session = session, !.words = {tool, "x"}]
MCLines ==
    {[json |-> FALSE],
     Event("step_start", 1, T!NoPart),
     Event("tool_use", 2, [T!NoPart EXCEPT !.ok = FALSE]),
     Event("tool_use", 2, Call("edit", "completed", "", "")),
     Event("tool_use", 3, Call("read", "error", "f", "")),
     Event("tool_use", 3, [Call("read", "error", "f", "") EXCEPT !.state = @ \ {"input"}]),
     Event("tool_use", 3, [Call("task", "error", "", "s1") EXCEPT !.state = @ \ {"time"}]),
     Event("tool_use", 3, Call("task", "completed", "", "s1")),
     Event("step_finish", 4, [T!NoPart EXCEPT !.tokens = <<Tokens(3)>>, !.cost = <<1>>]),
     Event("step_finish", 4, [T!NoPart EXCEPT !.tokens = <<Tokens(0)>>]),
     Event("text", 5, [T!NoPart EXCEPT !.type = "retry", !.text = "hm"])}

\* What has changed, which of it is there, and what was said and done.
MCWorktrees ==
    {[changed |-> c, diff |-> d, answer |-> a, files |-> f, events |-> e] :
        c \in {{<<"a">>}, {<<"d", "b">>}},
        d \in {<<[sign |-> "+", text |-> "x"], [sign |-> "+", text |-> "++ "]>>},
        a \in {{"x"}, {"y"}},
        f \in {{[path |-> <<"a">>, type |-> "regular", size |-> s, readable |-> TRUE,
                 binary |-> FALSE, words |-> {"x"}]} : s \in {1, T!MaxGrepFileBytes + 1}},
        e \in {<<>>, T!StoredEvents(<<Event("tool_use", 2, Call("edit", "completed", "", ""))>>)}}

MCEnds == {[how |-> "exit", code |-> 0], [how |-> "exit", code |-> 2],
           [how |-> "deadline", code |-> -1], [how |-> "signal", code |-> -1]}

Said(agent, tokens, tools) ==
    [agent |-> agent, cost |-> 1, tools |-> tools, tokens |-> [Tokens(0) EXCEPT !.total = tokens]]
MCMessages == {Said("a.b", <<5>>, <<"error">>), Said("a_b", <<>>, <<>>), Said("", <<-1>>, <<"ok">>)}
MCSanitize == [a \in {"a.b", "a_b", ""} |-> IF a = "" THEN "" ELSE "a_b"]

(***************************************************************************)
(* Recorded runs                                                           *)
(***************************************************************************)

Stored(id, model, theme) ==
    [id |-> id, started |-> id, hash |-> <<"p1", "p2">>[id], version |-> "1",
     components |-> [k \in {<<"primary", <<"primary">>>>, <<"config", <<"config">>>>} |->
                        IF k[1] = "primary" THEN model ELSE theme]]
MCStoredProfiles == {Stored(1, "m1", "dark"), Stored(2, "m2", "light")}

Run(id, started, hash, task, profile, metrics) ==
    [id |-> id, started |-> started, dry |-> FALSE, suite |-> "core", hash |-> hash,
     task |-> task, fixture |-> "f", experiment |-> "", arm |-> "", profile |-> profile,
     status |-> "passed", metrics |-> metrics, vetoed |-> FALSE]
Good(n) == [success |-> 100, tokens_total |-> n, tool_calls_total |-> n, cost |-> n]
MCRecorded ==
    {Run(1, 5, "h1", "t1", "p1", Good(4)),
     Run(2, 5, "h1", "t1", "p2", [success |-> 0, retries |-> 1]),
     Run(3, 4, "h1", "t1", "p1", [Good(6) EXCEPT !.success = 60]),
     Run(4, 6, "h2", "t1", "p1", Good(2)),
     Run(5, 4, "h1", "t2", "p2", [score |-> 30]),
     [Run(6, 7, "h1", "t1", "", Good(1)) EXCEPT !.dry = TRUE],
     [Run(7, 3, "h3", "t1", "p1", Good(3)) EXCEPT !.suite = "local"]}

MCSelected == [id |-> "e", baseline |-> "", tasks |-> {"t1", "t2"}]
MCArms == <<[label |-> "a", profile |-> "p1"], [label |-> "b", profile |-> "p2"]>>

MCOverlays ==
    {[type |-> "none"], [type |-> "regular", content |-> "1"], [type |-> "socket"],
     [type |-> "directory", files |-> {File("regular", "1"), File("symlink", "2")}]}

\* Each cell is the list of its runs.
Cell(metrics) == [m \in DOMAIN metrics |-> [metrics |-> metrics[m], vetoed |-> FALSE, fixture |-> "f"]]
Thrice(x) == <<x, x, x>>
Paid(n) == [success |-> 100, cost |-> n, tokens_total |-> n]
MCCells ==
    {<<>>, Cell(<<Paid(1), Paid(1)>>), Cell(Thrice(Paid(1))), Cell(Thrice(Paid(4))),
     Cell(<<Paid(1), [success |-> 100], Paid(2)>>), Cell(<<Paid(1), [Paid(1) EXCEPT !.success = 0], Paid(1)>>),
     [Cell(Thrice(Paid(2))) EXCEPT ![2].vetoed = TRUE],
     [Cell(Thrice(Paid(2))) EXCEPT ![3].fixture = "g"]}
MCCellRuns(arm, task, cell) ==
    {[Run(i + (IF task = "t1" THEN 0 ELSE 10) + (IF arm = "a" THEN 0 ELSE 20), i, "h1", task,
          IF arm = "a" THEN "p1" ELSE "p2", cell[i].metrics) EXCEPT
         !.experiment = "e", !.arm = arm, !.vetoed = cell[i].vetoed, !.fixture = cell[i].fixture] :
     i \in DOMAIN cell}

(***************************************************************************)
(* Configurations                                                          *)
(***************************************************************************)

Home(user) == <<"", "home", user>>
Rule(pattern, action) ==
    P!Obj([permission |-> P!Word("task"), pattern |-> P!Word(pattern), action |-> P!Word(action)])
Rules == P!Arr(<<Rule("*", "deny"), Rule("helper", "allow")>>)
Backwards == P!Arr(<<Rule("helper", "allow"), Rule("*", "deny")>>)
Agent(name, mode, permission) ==
    [name |-> name, fields |-> [mode |-> P!Word(mode)], prompt |-> P!Word("Be brief."),
     permission |-> permission]

Config(user) ==
    [model |-> P!Word("m1"), share |-> P!Word("auto"), theme |-> P!Word("dark"),
     agent |-> P!Obj([build |-> P!Obj([mode |-> P!Word("primary")]), helper |-> P!Obj([mode |-> P!Word("subagent")])]),
     mcp |-> P!Obj([docs |-> P!Obj([command |-> P!Str(Home(user) \o <<"docs">>),
                                    environment |-> P!Obj([LANG |-> P!Word("C")])])]),
     provider |-> P!Obj([acme |-> P!Obj([api_key |-> P!Word("k1")])]),
     command |-> P!Obj([fix |-> P!Word("Fix it.")]),
     plugin |-> P!Arr(<<P!Str(<<"file:", "">> \o Home(user) \o <<"plugin">>)>>)]
AgentsOf(rules) == [n \in {"build", "helper"} |->
    IF n = "build" THEN Agent(n, "primary", rules) ELSE Agent(n, "subagent", P!Null)]

Machine(user, config, rules) ==
    [same |-> TRUE, differences |-> 0, version |-> "1", config |-> P!Obj(config), agents |-> AgentsOf(rules),
     skills |-> {[name |-> "review", description |-> P!Word("Reviews."), content |-> P!Word("Look."), dir |-> Home(user) \o <<"skills">>,
                  readable |-> TRUE, files |-> {[rel |-> "a", bytes |-> P!Word("1")]}]},
     origins |-> <<>>, files |-> [d \in {Home(user) \o <<"AGENTS.md">>} |-> P!Word("Rules.")],
     dir |-> Home(user) \o <<"AGENTS.md", "p">>, home |-> Home(user)]
First == Machine("ann", Config("ann"), Rules)
Edited(key, v) == [First EXCEPT !.config.o[key] = v, !.same = FALSE, !.differences = 1]

MCSnapshots ==
    {First, Machine("bob", Config("bob"), Rules), Machine("ann", Config("ann"), Backwards),
     [First EXCEPT !.config.o["provider"].o["acme"].o["api_key"] = P!Word("k2")],
     [First EXCEPT !.config.o["mcp"].o["docs"].o["environment"].o["LANG"] = P!Word("de")],
     Edited("model", P!Word("m2")), Edited("share", P!Word("off")), Edited("theme", P!Word("light")),
     Edited("command", P!Obj([fix |-> P!Word("Fix it now.")])),
     Edited("provider", P!Obj([acme |-> P!Obj([url |-> P!Word("u")])])),
     [First EXCEPT !.agents["helper"].prompt = P!Str(Home("ann") \o <<"notes">>), !.same = FALSE, !.differences = 1],
     [Machine("bob", Config("bob"), Rules) EXCEPT !.agents["helper"].prompt = P!Str(Home("bob") \o <<"notes">>),
                                                  !.same = FALSE, !.differences = 1],
     [First EXCEPT !.version = "2", !.same = FALSE],
     [First EXCEPT !.skills = {}, !.same = FALSE, !.differences = 1],
     [First EXCEPT !.config.o["mcp"].o["docs"].o["environment"] = P!Obj([TERM |-> P!Word("C")]),
                   !.same = FALSE, !.differences = 1],
     [First EXCEPT !.files = <<>>, !.same = FALSE, !.differences = 1],
     [First EXCEPT !.agents["build"].permission = P!Arr(<<Rule("*", "allow")>>), !.same = FALSE, !.differences = 1]}
MCOptions == [agent |-> "", model |-> "", variant |-> "", sandbox |-> "", env |-> <<>>,
              auto |-> "false", pure |-> "false"]
MCDisk == [p \in {Home("ann") \o <<"plugin">>, Home("bob") \o <<"plugin">>} |-> P!Word("js")]
===============================================================================
