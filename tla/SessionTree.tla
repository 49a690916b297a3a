------------------------------ MODULE SessionTree -----------------------------
(***************************************************************************)
(* Child sessions.  After a run, captureSessions exports every session the *)
(* `task` tool delegated to, level by level; Rollup and sessionMetrics add *)
(* up what the captured sessions used; trace.Build later tells the run's   *)
(* steps from the stored events and the captured exports.                  *)
(***************************************************************************)
EXTENDS Evaluation

CONSTANTS
    Ids,                \* session ids
    Primary,            \* the run's own session
    MaxSessionDepth,    \* 5 in the code
    Escaping            \* ids with "/" or "..", never exported

VARIABLES
    refs,       \* refs[s]: the sessions that the task calls of s name, in order
    level,      \* what is left of the level that is being exported
    next,       \* the sessions named by this level's exports
    depth,
    visited,
    children,   \* the captured sessions
    failures

treeVars == <<refs, level, next, depth, visited, children, failures>>

TreeInit ==
    /\ level = refs[Primary] /\ next = <<>> /\ depth = 0
    /\ visited = {Primary} /\ children = <<>> /\ failures = 0

(***************************************************************************)
(* Discovery and capture                                                   *)
(***************************************************************************)

(* What of a call's state discovery decodes.                               *)
TaskState == {"title", "session", "parent"}

(* The sessions the task parts of a stream name, once each, in order.      *)
DiscoverChildren(events) ==
    LET parts == SelectSeq(events, LAMBDA e :
                    /\ e.part.ok /\ e.part.tool = "task"
                    /\ Decodes(e.part, TaskState) /\ e.part.session # "")
    IN FoldLeft(LAMBDA seen, e : IF e.part.session \in ToSet(seen) THEN seen
                                 ELSE Append(seen, e.part.session), <<>>, parts)

Seen ==
    /\ depth < MaxSessionDepth /\ level # <<>> /\ level[1] \in visited
    /\ level' = Tail(level)
    /\ UNCHANGED <<refs, next, depth, visited, children, failures>>

(* Mutant: a session is marked only once its export has succeeded.         *)
ExportFails_NotMarked ==
    /\ depth < MaxSessionDepth /\ level # <<>> /\ level[1] \notin visited
    /\ level' = Tail(level) /\ failures' = failures + 1
    /\ UNCHANGED <<refs, next, depth, visited, children>>

(* The export, its parsing or one of the writes fails.                     *)
ExportFails ==
    /\ depth < MaxSessionDepth /\ level # <<>> /\ level[1] \notin visited
    /\ level' = Tail(level) /\ failures' = failures + 1
    /\ visited' = visited \cup {level[1]}
    /\ UNCHANGED <<refs, next, depth, children>>

Exported ==
    /\ depth < MaxSessionDepth /\ level # <<>> /\ level[1] \notin visited \cup Escaping
    /\ level' = Tail(level)
    /\ visited' = visited \cup {level[1]}
    /\ children' = Append(children, level[1])
    /\ next' = next \o refs[level[1]]
    /\ UNCHANGED <<refs, depth, failures>>

NextLevel ==
    /\ depth < MaxSessionDepth /\ level = <<>> /\ next # <<>>
    /\ depth' = depth + 1 /\ level' = next /\ next' = <<>>
    /\ UNCHANGED <<refs, visited, children, failures>>

CaptureSessions == Seen \/ ExportFails \/ Exported \/ NextLevel

CaptureDone == depth = MaxSessionDepth \/ (level = <<>> /\ next = <<>>)

(***************************************************************************)
(* Usage of the captured sessions.  A session is [agent, tokens, messages],*)
(* a message [agent, cost, tokens, tools], a tool its status.              *)
(***************************************************************************)

NonNegative(n) == IF n < 0 THEN 0 ELSE n

(* No total is not a total of zero: it is computed.                        *)
ToTokens(raw) ==
    LET t == [f \in TokenFields |-> IF f = "total" THEN 0 ELSE NonNegative(raw[f])]
    IN [t EXCEPT !.total = IF raw.total # <<>> THEN NonNegative(raw.total[1])
                           ELSE t.input + t.output + t.reasoning + t.read]

ParseExport(raw) ==
    [tokens |-> ToTokens(raw.tokens),
     messages |-> [i \in DOMAIN raw.messages |->
                     [raw.messages[i] EXCEPT !.tokens = ToTokens(@)]]]

EmptyRollup == [messages |-> 0, calls |-> 0, failed |-> 0, cost |-> 0, tokens |-> NoTokens]

AddRollups(a, b) ==
    [messages |-> a.messages + b.messages, calls |-> a.calls + b.calls,
     failed |-> a.failed + b.failed, cost |-> a.cost + b.cost,
     tokens |-> AddTokens(a.tokens, b.tokens)]

RollupOf(m) ==
    [messages |-> 1, calls |-> Len(m.tools),
     failed |-> Cardinality({i \in DOMAIN m.tools : m.tools[i] = "error"}),
     cost |-> m.cost, tokens |-> m.tokens]

MessagesIn(sessions) == FlattenSeq([i \in DOMAIN sessions |-> sessions[i].messages])

Rollup(sessions) ==
    LET all == MessagesIn(sessions)
    IN [agent \in {all[i].agent : i \in DOMAIN all} |->
          FoldLeft(LAMBDA r, m : IF m.agent = agent THEN AddRollups(r, RollupOf(m)) ELSE r,
                   EmptyRollup, all)]

(* Mutant: of the agents with one sanitised name, one is kept.             *)
Merge_Overwrites(rollups, names) == rollups[CHOOSE a \in names : TRUE]

(* Agents whose names are the same once sanitised are added up.            *)
Merge(rollups, names) ==
    FoldSet(LAMBDA a, r : AddRollups(r, rollups[a]), EmptyRollup, names)

(* sanitize[a] is the name made of letters, digits and "_".                *)
SessionMetrics(primary, sessions, failed, eventTokens, sanitize) ==
    LET rollups == Rollup(primary \o sessions)
        key(a) == IF sanitize[a] = "" THEN "unknown" ELSE sanitize[a]
        keys == {key(a) : a \in DOMAIN rollups}
        tokens == [i \in DOMAIN sessions |-> sessions[i].tokens.total]
    IN [sessions |-> Len(sessions), failures |-> failed,
        agents |-> [k \in keys |-> Merge(rollups, {a \in DOMAIN rollups : key(a) = k})],
        collisions |-> Cardinality(DOMAIN rollups) - Cardinality(keys),
        tokens |-> FoldLeft(LAMBDA x, y : x + y, 0, tokens),
        delta |-> IF primary = <<>> THEN <<>>
                  ELSE <<NonNegative(eventTokens - primary[1].tokens.total)
                         + NonNegative(primary[1].tokens.total - eventTokens)>>]

(***************************************************************************)
(* The trace                                                               *)
(***************************************************************************)

NewStep(ts) == [tokens |-> NoTokens, cost |-> 0, retries |-> 0, compactions |-> 0,
                tools |-> <<>>, first |-> ts, last |-> ts]

(* A total of zero is recomputed.                                          *)
ToSessionTokens(tokens) ==
    IF tokens = <<>> THEN NoTokens
    ELSE LET t == tokens[1]
         IN [t EXCEPT !.total = IF @ = 0 THEN t.input + t.output + t.reasoning + t.read ELSE @]

(* What of a call's state the trace decodes, apart from a child's id.      *)
TraceState == {"status", "title", "time"}

(* A task call shows its child, with its usage if it was captured.         *)
BuildTool(p) ==
    LET names == p.tool = "task" /\ Decodes(p, TraceState \cup {"session"})
    IN [tool |-> p.tool, status |-> IF Decodes(p, TraceState) THEN p.status ELSE "",
        child |-> IF names THEN p.session ELSE ""]

(* Mutant: a call before the first step_start is left out.                 *)
Ensure_NoSyntheticStep(steps, ts) == steps

Ensure(steps, ts) == IF steps = <<>> THEN <<NewStep(ts)>> ELSE steps

(* A step stays open until the next one starts.                            *)
BuildStep(steps, e) ==
    LET p == e.part
        open == Ensure(steps, e.ts)
        n == Len(open)
        at == [open EXCEPT ![n].first = IF e.ts < @ THEN e.ts ELSE @,
                           ![n].last = IF e.ts > @ THEN e.ts ELSE @]
    IN IF ~p.ok THEN steps
       ELSE CASE e.type = "step_start" -> Append(steps, NewStep(e.ts))
              [] e.type = "tool_use" -> [at EXCEPT ![n].tools = Append(@, BuildTool(p))]
              [] e.type = "step_finish" ->
                   [at EXCEPT ![n].tokens = ToSessionTokens(p.tokens),
                              ![n].cost = IF p.cost = <<>> THEN @ ELSE p.cost[1]]
              [] OTHER -> IF p.type \notin {"retry", "compaction"} THEN steps
                          ELSE [at EXCEPT ![n].retries = @ + Count(p.type = "retry"),
                                          ![n].compactions = @ + Count(p.type = "compaction")]

Build(events, captured) ==
    LET steps == FoldLeft(BuildStep, <<>>, events)
        named == FlattenSeq([i \in DOMAIN steps |->
            SelectSeq(steps[i].tools, LAMBDA t : t.child \in captured)])
    IN [steps |-> steps,
        subagents |-> FoldLeft(LAMBDA seen, t : IF t.child \in ToSet(seen) THEN seen
                                                ELSE Append(seen, t.child), <<>>, named)]

StoredEvents(lines) == FlattenSeq([i \in DOMAIN lines |-> ParseLine(lines[i])])

(***************************************************************************)
(* Properties                                                              *)
(***************************************************************************)

(* Within[d]: the sessions at most d levels below the run's own, through   *)
(* sessions that were captured.                                            *)
Within == LET w[d \in 0 .. MaxSessionDepth] ==
                IF d = 0 THEN {Primary}
                ELSE w[d - 1] \cup UNION {ToSet(refs[s]) :
                       s \in w[d - 1] \cap ({Primary} \cup ToSet(children))}
          IN w

(* However sessions name one another, in circles or twice, and whichever   *)
(* export fails: every session within reach is captured once or has failed *)
(* once, no other is, and the run's own never: captureSessions.            *)
CaptureExact ==
    CaptureDone =>
       /\ visited = Within[MaxSessionDepth]
       /\ Cardinality(visited) = 1 + Len(children) + failures
       /\ IsInjective(children) /\ ToSet(children) \subseteq visited \ {Primary}

(* The failed calls of a stream whose state can be decoded to one of two   *)
(* lists of fields and not to the other.                                   *)
FailedFor(events, one, other) ==
    {i \in DOMAIN events :
        /\ events[i].type = "tool_use" /\ events[i].part.ok /\ events[i].part.status = "error"
        /\ Decodes(events[i].part, one) /\ ~Decodes(events[i].part, other)}

(* Two readers of one stream, trace.Build and Metrics.Observe: the trace   *)
(* tells the calls the metrics count, in the same order; as many failures, *)
(* but for those whose state only one of the two can decode; and all their *)
(* tokens if each step finished once, with a total.                        *)
TraceMatchesMetrics(lines) ==
    LET m == Metrics(lines, <<>>, {})
        events == StoredEvents(lines)
        steps == Build(events, {}).steps
        tools == FlattenSeq([i \in DOMAIN steps |-> steps[i].tools])
        finished == {i \in DOMAIN events : events[i].type = "step_finish" /\ events[i].part.ok}
    IN /\ [i \in DOMAIN tools |-> tools[i].tool] = m.byName
       /\ Cardinality({i \in DOMAIN tools : tools[i].status = "error"})
            + Cardinality(FailedFor(events, MetricsState, TraceState))
          = m.failed + Cardinality(FailedFor(events, TraceState, MetricsState))
       /\ SumFunction([i \in DOMAIN steps |-> steps[i].retries]) <= m.retries
       /\ (/\ Cardinality(finished) = Cardinality({i \in DOMAIN steps : steps[i].tokens.total > 0})
           /\ \A i \in finished : /\ events[i].part.tokens # <<>>
                                   /\ events[i].part.tokens[1].total > 0)
          => SumFunction([i \in DOMAIN steps |-> steps[i].tokens.total]) = m.tokens.total

(* Nothing an agent used is lost or counted twice when agents share a      *)
(* sanitised name: sessionMetrics.                                         *)
UsageAddsUp(primary, sessions, sanitize) ==
    LET agents == SessionMetrics(primary, sessions, 0, 0, sanitize).agents
        all == MessagesIn(primary \o sessions)
    IN /\ SumFunction([k \in DOMAIN agents |-> agents[k].messages]) = Len(all)
       /\ SumFunction([k \in DOMAIN agents |-> agents[k].tokens.total])
          = FoldLeft(LAMBDA n, m : n + m.tokens.total, 0, all)
===============================================================================
