-------------------------------- MODULE Profiles ------------------------------
(***************************************************************************)
(* Package profile: what is observed of a configuration (Discover), the    *)
(* components and the hash it is known by (Fingerprint), the difference of *)
(* two profiles, and the view that is drawn from one.                      *)
(*                                                                         *)
(* Sources are [version, config, skills, agents, origins, instructions,    *)
(* home]; origins, plugin_origins of the configuration, is by plugin.  A   *)
(* digest is what it digests.  A component's key is <<kind, name>>, the    *)
(* name a sequence as a string is.                                         *)
(***************************************************************************)
EXTENDS Canon

ConsumedKeys == {"$schema", "agent", "default_agent", "mcp", "model", "permission", "plugin",
                 "plugin_origins", "skills", "small_model", "username"}
SplitMapConfigKeys == {"command", "formatter", "lsp", "mode", "provider"}
SingletonConfigKeys == {"autoupdate", "compaction", "share", "tools"}

Pick(o, keys) == [k \in DOMAIN o \cap keys |-> o[k]]
Without(o, keys) == [k \in DOMAIN o \ keys |-> o[k]]
Overlaid(o, over) == [k \in DOMAIN o \cup DOMAIN over |-> IF k \in DOMAIN over THEN over[k] ELSE o[k]]
Named(kind, o) == [k \in {<<kind, <<n>>>> : n \in DOMAIN o} |-> o[k[2][1]]]
Union(fs) == FoldSet(LAMBDA f, all : Overlaid(all, f), <<>>, fs)

(***************************************************************************)
(* Discover                                                                *)
(***************************************************************************)

AgentNames(config) == DOMAIN AnyMap(At(AnyMap(config), "agent"))

(* files: the AGENTS.md that exist, by directory.  The project's is the    *)
(* one nearest above dir.                                                  *)
ReadInstructions(files, global, dir) ==
    LET above == {n \in 0 .. Len(dir) : SubSeq(dir, 1, n) \in DOMAIN files}
        nearest == SubSeq(dir, 1, CHOOSE n \in above : \A m \in above : m <= n)
        found == (IF global \in DOMAIN files THEN {<<"global", global>>} ELSE {})
                 \cup (IF above # {} THEN {<<"project", nearest>>} ELSE {})
    IN [scope \in {f[1] : f \in found} |->
          LET path == (CHOOSE f \in found : f[1] = scope)[2]
          IN [path |-> path, content |-> files[path]]]

(* agent(n) is what `opencode debug agent n` says.                         *)
Discover(version, config, skills, agents, origins, files, dir, home) ==
    [version |-> version, config |-> config, skills |-> skills, origins |-> origins,
     agents |-> {agents[n] : n \in AgentNames(config)},
     instructions |-> ReadInstructions(files, home \o <<".config", "opencode">>, dir),
     home |-> home]

(***************************************************************************)
(* Fingerprint                                                             *)
(***************************************************************************)

(* An override takes the place of what the configuration says, and is      *)
(* echoed.  "" is none.                                                    *)
BuildPrimary(cfg, opts) ==
    LET chosen(flag, key) == IF flag # "" THEN Word(flag) ELSE At(cfg, key)
        primary == [default_agent |-> chosen(opts.agent, "default_agent"),
                    model |-> chosen(opts.model, "model"), small_model |-> At(cfg, "small_model")]
        variant == IF opts.variant = "" THEN <<>> ELSE [variant |-> Word(opts.variant)]
    IN [k \in {<<"primary", <<"primary">>>>, <<"environment", <<"environment">>>>} |->
          IF k[1] = "primary" THEN Obj(Overlaid(primary, variant))
          ELSE Obj([sandbox |-> Word(IF opts.sandbox = "" THEN "default" ELSE opts.sandbox),
                    env_names |-> Arr(Sorted(opts.env)), auto |-> Word(opts.auto), pure |-> Word(opts.pure),
                    agent |-> Word(opts.agent), model |-> Word(opts.model),
                    variant |-> Word(opts.variant)])]

(* An agent is [name, fields, prompt, permission]; the last of a name      *)
(* counts.  What opencode says of it goes before what the file says; its   *)
(* prompt is hashed as it is, paths of the home directory included.        *)
BuildAgent(name, entry, info, home) ==
    LET prompt == IF info.prompt # Null THEN info.prompt ELSE At(entry, "prompt")
        sub == Overlaid(Overlaid([options |-> Obj(<<>>)], Without(entry, {"permission", "prompt"})),
                        info.fields)
        clean == Canonicalize(Obj(sub), home)
    IN IF prompt = Null THEN clean ELSE Obj(Overlaid(clean.o, [prompt_sha256 |-> prompt]))

AgentPermission(entry, info) ==
    IF info.permission # Null THEN info.permission ELSE At(entry, "permission")

(* Mutant: the rules are hashed in the order opencode gives them in.       *)
CanonicalizePermission_AsGiven(v, home) == Canonicalize(v, home)

(* opencode gives permission rules in any order.                           *)
CanonicalizePermission(v, home) == SortPermissionArrays(Canonicalize(v, home))

Silent == [name |-> "", fields |-> <<>>, prompt |-> Null, permission |-> Null]
InfoOf(agents, name) ==
    IF \E a \in agents : a.name = name THEN CHOOSE a \in agents : a.name = name ELSE Silent

BuildAgents(cfg, agents, home) ==
    LET declared == AnyMap(At(cfg, "agent"))
        entry(n) == AnyMap(declared[n])
        global == CanonicalizePermission(At(cfg, "permission"), home)
    IN Overlaid(Named("agent", [n \in DOMAIN declared |->
                    BuildAgent(n, entry(n), InfoOf(agents, n), home)]),
                Named("permissions", [permissions |->
                    Obj([global |-> IF global = Null THEN Obj(<<>>) ELSE global,
                         by_agent |-> Obj([n \in DOMAIN declared |-> CanonicalizePermission(
                             AgentPermission(entry(n), InfoOf(agents, n)), home)])])]))

(* A skill is [name, description, content, dir, readable, files]: can its  *)
(* directory be read, and the [rel, bytes] that are there.                 *)
BuildSkill(skill, home) ==
    Obj([description |-> skill.description, content |-> skill.content,
         source |-> Str(NormalizeString(skill.dir, home)),
         files |-> IF ~skill.readable THEN skill.content
                   ELSE Obj([f \in {g.rel : g \in skill.files} |->
                          (CHOOSE g \in skill.files : g.rel = f).bytes]),
         source_error |-> Word(IF skill.readable THEN "" ELSE "true")])

(* Of the environment only the names.                                      *)
EnvironmentKeyNames(env) == Arr(Sorted([i \in 1 .. Cardinality(DOMAIN env) |->
                                           Word(SetToSeq(DOMAIN env)[i])]))
BuildMCP(entry) ==
    Obj(Overlaid(Without(entry, {"environment"}),
                 [environment_keys |-> EnvironmentKeyNames(AnyMap(At(entry, "environment")))]))

(* disk: what a local plugin consists of, by its path.                     *)
BuildPlugin(spec, origin, disk, home) ==
    LET path == SubSeq(spec, 3, Len(spec))
        isLocal == IsPrefix(<<"file:", "">>, spec)
    IN Obj([origin |-> Str(NormalizeString(origin.s, home)),
            local |-> IF ~isLocal THEN Null ELSE IF path \in DOMAIN disk THEN disk[path]
                      ELSE Word("local_error")])

(* A collection is one component for each entry, a setting is one; what is *)
(* left is one together, if anything is.                                   *)
ConfigComponents(cfg) ==
    LET free == Without(cfg, ConsumedKeys)
        split == {k \in DOMAIN free \cap SplitMapConfigKeys : free[k].t = "obj"}
        single == (DOMAIN free \cap (SplitMapConfigKeys \cup SingletonConfigKeys)) \ split
        rest == Without(free, split \cup single)
    IN Union({Named(k, free[k].o) : k \in split}
        \cup {Named(k, Pick(free, {k})) : k \in single}
        \cup {IF rest = <<>> THEN <<>> ELSE Named("config", [config |-> Obj(rest)])})

Fingerprint(s, opts, disk) ==
    LET raw == AnyMap(Redact(s.config))
        cfg == AnyMap(Canonicalize(s.config, s.home))
        plugins == At(raw, "plugin").a
        skill(k) == CHOOSE x \in s.skills : x.name = k
        origin(spec) == IF spec \in DOMAIN s.origins THEN s.origins[spec] ELSE Null
        pluginKey(spec) == <<"plugin", NormalizeString(spec, s.home)>>
    IN [version |-> s.version,
        components |-> Union({
          BuildPrimary(cfg, opts),
          BuildAgents(cfg, s.agents, s.home),
          Named("skill", [k \in {x.name : x \in s.skills} |-> BuildSkill(skill(k), s.home)]),
          Named("mcp", [n \in DOMAIN AnyMap(At(cfg, "mcp")) |-> BuildMCP(AnyMap(At(cfg, "mcp").o[n]))]),
          [k \in {pluginKey(plugins[i].s) : i \in DOMAIN plugins} |->
             LET i == CHOOSE j \in DOMAIN plugins : pluginKey(plugins[j].s) = k
             IN BuildPlugin(plugins[i].s, origin(plugins[i].s), disk, s.home)],
          Named("instructions", [scope \in DOMAIN s.instructions |->
             Obj([path |-> Str(NormalizeString(s.instructions[scope].path, s.home)),
                  sha256 |-> s.instructions[scope].content])]),
          ConfigComponents(cfg)})]

(* The capture of the configuration has no environment values either.      *)
ConfigCapture(cfg) ==
    LET entry(e) == IF "environment" \notin DOMAIN AnyMap(e) THEN e
                    ELSE Obj(Overlaid(e.o, [environment |->
                            EnvironmentKeyNames(AnyMap(e.o["environment"]))]))
    IN IF At(cfg, "mcp").t # "obj" THEN cfg
       ELSE [cfg EXCEPT !["mcp"] = Obj([n \in DOMAIN @.o |-> entry(@.o[n])])]

(* The hash is of everything.                                              *)
Hash(p) == p

(***************************************************************************)
(* The view of a profile                                                   *)
(***************************************************************************)

(* The rules of the task permission of an agent: of two for one pattern    *)
(* the last counts, and they are sorted, "allow" < "ask" < "deny".  One    *)
(* agent whose permission is no list leaves no rules to any.               *)
TaskRules(p) ==
    LET byAgent == AnyMap(At(AnyMap(At(p.components, <<"permissions", <<"permissions">>>>)),
                             "by_agent"))
        rules(n) == {AnyMap(r) : r \in ToSet(byAgent[n].a)}
        action(n, pattern) ==
            LET of == {r["action"].s[1] : r \in {q \in rules(n) :
                          At(q, "permission") = Word("task") /\ At(q, "pattern") = Word(pattern)}}
            IN IF "deny" \in of THEN "deny" ELSE IF "ask" \in of THEN "ask"
               ELSE IF "allow" \in of THEN "allow" ELSE ""
    IN [n \in DOMAIN byAgent, pattern \in {"*"} \cup DOMAIN byAgent |->
          IF \E m \in DOMAIN byAgent : byAgent[m].t = "obj" THEN "" ELSE action(n, pattern)]

AgentsOfMode(p, mode) ==
    {k[2][1] : k \in {c \in DOMAIN p.components :
        c[1] = "agent" /\ At(p.components[c].o, "mode") = Word(mode)}}

(* A rule that names the subagent goes before "*".                         *)
AllowedTargets(rules, agent, subagents) ==
    {s \in subagents : "allow" = (IF rules[agent, s] # "" THEN rules[agent, s] ELSE rules[agent, "*"])}

Architecture(p) ==
    {e \in AgentsOfMode(p, "primary") \X AgentsOfMode(p, "subagent") :
        e[2] \in AllowedTargets(TaskRules(p), e[1], AgentsOfMode(p, "subagent"))}

PrimaryAgent(p) ==
    LET named == At(p.components[<<"primary", <<"primary">>>>].o, "default_agent")
        agents == {k[2][1] : k \in {c \in DOMAIN p.components : c[1] = "agent"}}
    IN IF \E a \in agents : named = Word(a) THEN {named.s[1]} ELSE AgentsOfMode(p, "primary")

(* What is read back of the captures beside a profile: nothing if none is  *)
(* there, an error if one cannot be parsed.                                *)
ReadCaptures(files) ==
    IF \E f \in DOMAIN files : files[f] = "corrupt" THEN [ok |-> FALSE]
    ELSE [ok |-> TRUE, available |-> DOMAIN files # {}, files |-> DOMAIN files]
===============================================================================
