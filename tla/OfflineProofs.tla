----------------------------- MODULE OfflineProofs ----------------------------
(***************************************************************************)
(* Proofs about the commands of Offline, for any of their inputs: that the *)
(* two matchers of path globs find what a glob means, that every child     *)
(* session within reach is captured or counted as failed, that runs are    *)
(* compared in the order in which they started, that a run is scored on    *)
(* the agent's work, that what agents used adds up, that the trace and the *)
(* metrics tell the same of one stream, that a repeated snapshot shows     *)
(* what it showed before, that a standing is earned, and that there is one *)
(* cost of a solved task.                                                  *)
(***************************************************************************)
EXTENDS Offline, DataProofs

(***************************************************************************)
(* Steps                                                                   *)
(***************************************************************************)

(* A behaviour is about one command, and only that command's steps change  *)
(* its input.                                                              *)
LEMMA InputSteps ==
    ASSUME [Next]_vars
    PROVE  /\ command' = command
           /\ \/ input' = input
              \/ PrintLine \/ SayMessage \/ Snapshot \/ RecordRun \/ RecordCell \/ AddSegment
<1>1. CASE UNCHANGED vars
  BY <1>1 DEF vars
<1>2. CASE Change \/ Capture \/ OpenDatabase
  BY <1>2 DEF Change, Capture, OpenDatabase
<1>3. CASE ReportChanges \/ Trace \/ Validate \/ ShowCaptures \/ History \/ ShowRun \/ Compare
  BY <1>3 DEF ReportChanges, Trace, Validate, ShowCaptures, History, ShowRun, Compare, Answer, Given
<1>4. CASE Leaderboard \/ Calibrate \/ Variance \/ ResolveArm \/ ShowCohorts \/ ExperimentShow
           \/ Report \/ ExportRuns \/ ShowProfile
  BY <1>4 DEF Leaderboard, Calibrate, Variance, ResolveArm, ShowCohorts, ExperimentShow, Report,
     ExportRuns, ShowProfile, Answer, Given
<1>5. CASE PrintLine \/ SayMessage \/ RecordRun \/ RecordCell \/ AddSegment
  BY <1>5 DEF PrintLine, SayMessage, RecordRun, RecordCell, AddSegment, Growing, Given
<1>6. CASE Snapshot \/ Load
  BY <1>6 DEF Snapshot, Load, Given
<1> QED
  BY <1>1, <1>2, <1>3, <1>4, <1>5, <1>6 DEF Next

(***************************************************************************)
(* Globs                                                                   *)
(***************************************************************************)

GlobInput ==
    command = "globs" => input \in [glob : Seq(Names), path : Seq(Names)]

LEMMA GlobInputAlways == Spec => []GlobInput
<1>1. Init => GlobInput
  <2> SUFFICES ASSUME Init, command = "globs" PROVE GlobInput
    BY DEF GlobInput
  <2>1. input = [glob |-> <<>>, path |-> <<>>]
    <3>1. EmptyInput["globs"] = {[glob |-> <<>>, path |-> <<>>]}
      BY DEF EmptyInput
    <3>2. input \in EmptyInput["globs"]
      BY DEF Init
    <3> QED
      BY <3>1, <3>2
  <2> QED
    BY <2>1 DEF GlobInput
<1>2. GlobInput /\ [Next]_vars => GlobInput'
  <2> SUFFICES ASSUME GlobInput, [Next]_vars, command' = "globs"
               PROVE  input' \in [glob : Seq(Names), path : Seq(Names)]
    BY DEF GlobInput
  <2>1. command = "globs" /\ (input' = input \/ AddSegment)
    <3>1. \A c : Growing(c) \/ Given(c) => command = c
      BY DEF Growing, Given
    <3>2. PrintLine => command = "trace"
      BY <3>1 DEF PrintLine
    <3>3. SayMessage => command = "usage"
      BY <3>1 DEF SayMessage
    <3>4. Snapshot => command = "snapshot"
      BY <3>1 DEF Snapshot
    <3>5. RecordRun => command = "history"
      BY <3>1 DEF RecordRun
    <3>6. RecordCell => command = "cohort"
      BY <3>1 DEF RecordCell
    <3> QED
      BY <3>2, <3>3, <3>4, <3>5, <3>6, InputSteps
  <2>2. CASE AddSegment
    <3>1. input \in [glob : Seq(Names), path : Seq(Names)]
      BY <2>1 DEF GlobInput
    <3>2. PICK n \in Names : \/ input' = [input EXCEPT !.path = Append(@, n)]
                             \/ input' = [input EXCEPT !.glob = Append(@, n)]
      BY <2>2 DEF AddSegment
    <3>3. /\ Append(input.path, n) \in Seq(Names) /\ Append(input.glob, n) \in Seq(Names)
          /\ input.path \in Seq(Names) /\ input.glob \in Seq(Names)
      BY <3>1
    <3> QED
      BY <3>1, <3>2, <3>3
  <2> QED
    BY <2>1, <2>2 DEF GlobInput
<1> QED
  BY <1>1, <1>2, PTL DEF Spec

(* Whatever the glob and the path, both matchers find what the glob means: *)
(* evaluation.matchGlob, runner.matchGlob.                                 *)
THEOREM MatchersAgree == Spec => []GlobsAgree
<1>1. GlobInput => GlobsAgree
  <2> SUFFICES ASSUME NEW glob \in Seq(Names), NEW path \in Seq(Names)
               PROVE  /\ Su!RunnerMatchGlob(glob, path) = Su!GlobMeans(glob, path)
                      /\ glob # <<>> /\ path # <<>>
                         => Su!EvaluationMatchGlob(glob, path) = Su!GlobMeans(glob, path)
    BY DEF GlobInput, GlobsAgree
  <2>1. Su!GlobMeans(glob, path) = GlobMeans(glob, path)
    BY DEF GlobMeans, SegmentMatches, Su!GlobMeans, Su!SegmentMatches
  <2>2. Su!RunnerMatchGlob(glob, path) = RunnerMatchGlob(glob, path)
    <3>1. Su!Squeeze(glob) = Squeeze(glob)
      BY DEF Squeeze, FoldLeft, MapThenFoldSet, Max, Last,
         Su!Squeeze, Su!FoldLeft, Su!MapThenFoldSet, Su!Max, Su!Last
    <3>2. Su!MatchSegments(Squeeze(glob), path) = MatchSegments(Squeeze(glob), path)
      BY DEF MatchSegments, MatchFrom, SegmentMatches,
         Su!MatchSegments, Su!MatchFrom, Su!SegmentMatches
    <3> QED
      BY <3>1, <3>2 DEF RunnerMatchGlob, Su!RunnerMatchGlob
  <2>3. Su!EvaluationMatchGlob(glob, path) = EvaluationMatchGlob(glob, path)
    <3>1. \A segs : Su!CleanPath(segs) = CleanPath(segs)
      BY DEF CleanPath, FoldLeft, MapThenFoldSet, Max, Last, Front,
         Su!CleanPath, Su!FoldLeft, Su!MapThenFoldSet, Su!Max, Su!Last, Su!Front
    <3>2. Su!MatchSegments(CleanPath(glob), CleanPath(path))
            = MatchSegments(CleanPath(glob), CleanPath(path))
      BY DEF MatchSegments, MatchFrom, SegmentMatches,
         Su!MatchSegments, Su!MatchFrom, Su!SegmentMatches
    <3> QED
      BY <3>1, <3>2 DEF EvaluationMatchGlob, Su!EvaluationMatchGlob
  <2>4. Plain(Names)
    BY OfflineAssumption DEF Plain
  <2>5. Len(path) \in Nat
    OBVIOUS
  <2>6. RunnerMatchGlob(glob, path) = GlobMeans(glob, path)
    BY <2>5, RunnerFindsTheMeaning
  <2>7. glob # <<>> /\ path # <<>> => EvaluationMatchGlob(glob, path) = GlobMeans(glob, path)
    BY <2>4, EvaluationFindsTheMeaning
  <2> QED
    BY <2>1, <2>2, <2>3, <2>6, <2>7
<1> QED
  BY <1>1, GlobInputAlways, PTL

(***************************************************************************)
(* Child sessions                                                          *)
(***************************************************************************)

(* The sessions that the sessions ss name, and those within reach, level   *)
(* by level, if caps were captured.                                        *)
Named(r, ss) == UNION {ToSet(r[s]) : s \in ss}
Levels(r, caps) ==
    LET w[d \in 0 .. MaxSessionDepth] ==
          IF d = 0 THEN {Primary} ELSE w[d - 1] \cup Named(r, w[d - 1] \cap caps)
    IN w

AreLevels(w, r, caps) ==
    /\ w[0] = {Primary}
    /\ \A d \in 1 .. MaxSessionDepth : w[d] = w[d - 1] \cup Named(r, w[d - 1] \cap caps)

LEMMA DepthIsNat == MaxSessionDepth \in Nat /\ Primary \in Ids
BY OfflineAssumption

LEMMA NamedAreIds ==
    ASSUME NEW r \in [Ids -> Seq(Ids)], NEW ss \in SUBSET Ids PROVE Named(r, ss) \in SUBSET Ids
<1>1. \A s \in ss : r[s] \in Seq(Ids)
  OBVIOUS
<1>2. \A q \in Seq(Ids) : ToSet(q) \subseteq Ids
  BY DEF ToSet
<1> QED
  BY <1>1, <1>2 DEF Named

LEMMA LevelsExist ==
    ASSUME NEW r \in [Ids -> Seq(Ids)], NEW caps
    PROVE  AreLevels(Levels(r, caps), r, caps)
<1> DEFINE n == MaxSessionDepth
           R == SUBSET Ids
           step == [p \in (1 .. n) \X R |-> p[2] \cup Named(r, p[2] \cap caps)]
           Eq(w) == w = [d \in 0 .. n |-> IF d = 0 THEN {Primary}
                                          ELSE w[d - 1] \cup Named(r, w[d - 1] \cap caps)]
           it == CHOOSE w : Eq(w)
<1>1. n \in Nat /\ {Primary} \in R
  BY DepthIsNat
<1>2. \A x \in R : x \cup Named(r, x \cap caps) \in R
  <2> SUFFICES ASSUME NEW x \in R PROVE x \cup Named(r, x \cap caps) \in R
    OBVIOUS
  <2>1. x \cap caps \in SUBSET Ids
    OBVIOUS
  <2>2. Named(r, x \cap caps) \in SUBSET Ids
    BY <2>1, NamedAreIds
  <2> QED
    BY <2>2
<1>3. step \in [(1 .. n) \X R -> R]
  BY <1>2
<1>4. \A d \in 1 .. n, x \in R : step[<<d, x>>] = x \cup Named(r, x \cap caps)
  OBVIOUS
<1> HIDE DEF step, R
<1>5. PICK f \in [SUBSET (1 .. n) -> R] : LastFold(f, n, R, {Primary}, step)
  BY <1>1, <1>3, PrefixFold
<1>6. PICK F : States(F, n, R, {Primary}, step, f[1 .. n])
  BY <1>1, <1>3, <1>5, FoldStates
<1>7. ASSUME NEW d \in 1 .. n PROVE F[d] = F[d - 1] \cup Named(r, F[d - 1] \cap caps)
  <2>1. d - 1 \in 0 .. n
    BY <1>1
  <2>2. F[d - 1] \in R /\ F[d] = step[<<d, F[d - 1]>>]
    BY <1>6, <2>1 DEF States
  <2> QED
    BY <1>4, <2>2
<1>8. Eq(F)
  <2>1. F = [d \in 0 .. n |-> F[d]] /\ F[0] = {Primary}
    BY <1>6 DEF States
  <2>2. \A d \in 0 .. n : F[d] = IF d = 0 THEN {Primary}
                                ELSE F[d - 1] \cup Named(r, F[d - 1] \cap caps)
    <3> TAKE d \in 0 .. n
    <3>1. d = 0 \/ d \in 1 .. n
      BY <1>1
    <3> QED
      BY <1>7, <2>1, <3>1
  <2> QED
    BY <2>1, <2>2
<1>9. Eq(it)
  BY <1>8
<1> HIDE DEF it
<1>10. AreLevels(it, r, caps)
  <2>1. it[0] = {Primary}
    <3>1. 0 \in 0 .. n
      BY <1>1
    <3> QED
      BY <1>9, <3>1
  <2>2. ASSUME NEW d \in 1 .. n PROVE it[d] = it[d - 1] \cup Named(r, it[d - 1] \cap caps)
    <3>1. d \in 0 .. n /\ d # 0
      BY <1>1
    <3> QED
      BY <1>9, <3>1
  <2> QED
    BY <2>1, <2>2 DEF AreLevels
<1> QED
  BY <1>10 DEF Levels, it

LEMMA LevelsGrow ==
    ASSUME NEW w, NEW r, NEW caps, AreLevels(w, r, caps), NEW k \in 0 .. MaxSessionDepth
    PROVE  \A j \in 0 .. k : w[j] \subseteq w[k]
<1> DEFINE n == MaxSessionDepth
           S == {i \in 0 .. n : \A j \in 0 .. i : w[j] \subseteq w[i]}
<1>1. n \in Nat
  BY DepthIsNat
<1>2. 0 \in S
  BY <1>1
<1>3. ASSUME NEW i \in 1 .. n, i - 1 \in S PROVE i \in S
  <2>1. w[i - 1] \subseteq w[i]
    BY DEF AreLevels
  <2>2. \A j \in 0 .. i : w[j] \subseteq w[i]
    BY <1>3, <2>1
  <2> QED
    BY <1>1, <2>2
<1>4. k \in S
  <2>1. \A i \in 1 .. n : i - 1 \in S => i \in S
    BY <1>3
  <2> HIDE DEF S
  <2> QED
    BY <1>1, <1>2, <2>1, Upwards
<1> QED
  BY <1>4

(* A session captured below a level changes nothing above it.              *)
LEMMA LevelsKept ==
    ASSUME NEW w, NEW v, NEW r, NEW caps, NEW c,
           AreLevels(w, r, caps), AreLevels(v, r, caps \cup {c}),
           NEW d \in 0 .. MaxSessionDepth, d < MaxSessionDepth, c \notin w[d]
    PROVE  \A k \in 0 .. d + 1 : v[k] = w[k]
<1> DEFINE S == {k \in 0 .. d + 1 : v[k] = w[k]}
<1>1. MaxSessionDepth \in Nat /\ d + 1 \in Nat
  BY DepthIsNat
<1>2. 0 \in S
  <2>1. v[0] = w[0]
    BY DEF AreLevels
  <2> QED
    BY <1>1, <2>1
<1>3. ASSUME NEW k \in 1 .. d + 1, k - 1 \in S PROVE k \in S
  <2>1. k \in 1 .. MaxSessionDepth /\ k - 1 \in 0 .. d
    BY <1>1
  <2>2. w[k - 1] \subseteq w[d]
    BY <2>1, LevelsGrow
  <2>3. v[k - 1] = w[k - 1] /\ w[k - 1] \cap (caps \cup {c}) = w[k - 1] \cap caps
    BY <1>3, <2>2
  <2>4. /\ v[k] = v[k - 1] \cup Named(r, v[k - 1] \cap (caps \cup {c}))
        /\ w[k] = w[k - 1] \cup Named(r, w[k - 1] \cap caps)
    BY <2>1 DEF AreLevels
  <2>5. v[k] = w[k]
    BY <2>3, <2>4
  <2> QED
    BY <2>5
<1>4. \A k \in 0 .. d + 1 : k \in S
  <2>1. \A k \in 1 .. d + 1 : k - 1 \in S => k \in S
    BY <1>3
  <2> HIDE DEF S
  <2> QED
    BY <1>1, <1>2, <2>1, Upwards
<1> QED
  BY <1>4

(* A level that has all that the captured sessions name is the last.       *)
LEMMA LevelsEnd ==
    ASSUME NEW w, NEW r, NEW caps, AreLevels(w, r, caps),
           NEW d \in 0 .. MaxSessionDepth, Named(r, caps) \subseteq w[d]
    PROVE  w[MaxSessionDepth] = w[d]
<1> DEFINE n == MaxSessionDepth
           S == {k \in 0 .. n : k >= d => w[k] = w[d]}
<1>1. n \in Nat
  BY DepthIsNat
<1>2. 0 \in S
  BY <1>1
<1>3. ASSUME NEW k \in 1 .. n, k - 1 \in S PROVE k \in S
  <2>1. CASE k > d
    <3>1. w[k - 1] = w[d]
      BY <1>3, <2>1
    <3>2. Named(r, w[k - 1] \cap caps) \subseteq Named(r, caps)
      BY DEF Named
    <3>3. w[k] = w[d]
      BY <3>1, <3>2 DEF AreLevels
    <3> QED
      BY <3>3
  <2> QED
    BY <2>1
<1>4. n \in S
  <2>1. \A k \in 1 .. n : k - 1 \in S => k \in S
    BY <1>3
  <2> HIDE DEF S
  <2>2. \A k \in 0 .. n : k \in S
    BY <1>1, <1>2, <2>1, Upwards
  <2> QED
    BY <1>1, <2>2
<1> QED
  BY <1>4

Captured == {Primary} \cup ToSet(children)
Reach == Levels(refs, Captured)

CaptureTypes ==
    /\ refs \in [Ids -> Seq(Ids)] /\ level \in Seq(Ids) /\ next \in Seq(Ids)
    /\ depth \in 0 .. MaxSessionDepth /\ visited \in SUBSET Ids /\ IsFiniteSet(visited)
    /\ children \in Seq(Ids) /\ failures \in Nat

(* A session that was marked was captured or has failed, once.             *)
MarkedOnce ==
    /\ Primary \in visited /\ ToSet(children) \subseteq visited \ {Primary}
    /\ IsInjective(children)
    /\ Cardinality(visited) = 1 + Len(children) + failures

(* Marked so far, or left of this level, is what is in reach of it; left   *)
(* of the next is what the captured sessions name that is not.             *)
MarkedInReach ==
    /\ Reach[depth] \subseteq visited
    /\ IF depth < MaxSessionDepth
       THEN /\ visited \cup ToSet(level) = Reach[depth + 1]
            /\ Reach[depth + 1] \cup ToSet(next) = Reach[depth + 1] \cup Named(refs, Captured)
       ELSE visited = Reach[depth]

CaptureInv == CaptureTypes /\ MarkedOnce /\ MarkedInReach

LEMMA ReachIsLevels ==
    ASSUME CaptureTypes PROVE AreLevels(Reach, refs, Captured)
BY LevelsExist DEF CaptureTypes, Reach

LEMMA CaptureStarts ==
    ASSUME refs \in [Ids -> Seq(Ids)], T!TreeInit PROVE CaptureInv
<1>1. /\ level = refs[Primary] /\ next = <<>> /\ depth = 0
      /\ visited = {Primary} /\ children = <<>> /\ failures = 0
  BY DEF T!TreeInit
<1>2. CaptureTypes
  <2>1. refs[Primary] \in Seq(Ids) /\ {Primary} \in SUBSET Ids /\ 0 \in 0 .. MaxSessionDepth
    BY DepthIsNat
  <2>2. IsFiniteSet({Primary})
    BY FS_Singleton
  <2>3. <<>> \in Seq(Ids)
    OBVIOUS
  <2> QED
    BY <1>1, <2>1, <2>2, <2>3 DEF CaptureTypes
<1>3. MarkedOnce
  <2>1. ToSet(children) = {}
    BY <1>1, ToSetOfNone
  <2>2. Cardinality(visited) = 1
    BY <1>1, FS_Singleton
  <2>3. Len(children) = 0
    BY <1>1
  <2>4. IsInjective(children)
    BY <1>1 DEF IsInjective
  <2> QED
    BY <1>1, <2>1, <2>2, <2>3, <2>4 DEF MarkedOnce
<1>4. MarkedInReach
  <2>1. Captured = {Primary} /\ ToSet(next) = {}
    BY <1>1, ToSetOfNone DEF Captured
  <2>2. Reach[0] = {Primary}
    BY <1>2, ReachIsLevels DEF AreLevels
  <2>3. Named(refs, {Primary}) = ToSet(level)
    BY <1>1 DEF Named
  <2>4. ASSUME 0 < MaxSessionDepth PROVE Reach[1] = {Primary} \cup ToSet(level)
    <3>1. 1 \in 1 .. MaxSessionDepth /\ 1 - 1 = 0
      BY <2>4, DepthIsNat
    <3>2. Reach[1] = Reach[0] \cup Named(refs, Reach[0] \cap Captured)
      BY <1>2, <3>1, ReachIsLevels DEF AreLevels
    <3> QED
      BY <2>1, <2>2, <2>3, <3>2
  <2>5. depth + 1 = 1 /\ Reach[depth] = {Primary}
    BY <1>1, <2>2
  <2> QED
    BY <1>1, <2>1, <2>3, <2>4, <2>5 DEF MarkedInReach
<1> QED
  BY <1>2, <1>3, <1>4 DEF CaptureInv

LEMMA SeenKeeps ==
    ASSUME CaptureInv, T!Seen PROVE CaptureInv'
<1>1. /\ level # <<>> /\ level[1] \in visited /\ level' = Tail(level)
      /\ UNCHANGED <<refs, next, depth, visited, children, failures>>
  BY DEF T!Seen
<1>2. /\ level[1] \in Ids /\ Tail(level) \in Seq(Ids)
      /\ ToSet(level) = {level[1]} \cup ToSet(Tail(level))
  BY <1>1, ToSetOfTail DEF CaptureInv, CaptureTypes
<1>3. visited' \cup ToSet(level') = visited \cup ToSet(level)
  BY <1>1, <1>2
<1>4. Captured' = Captured /\ Reach' = Reach
  BY <1>1 DEF Captured, Reach
<1>5. CaptureTypes'
  BY <1>1, <1>2 DEF CaptureInv, CaptureTypes
<1>6. MarkedOnce'
  BY <1>1 DEF CaptureInv, MarkedOnce
<1>7. MarkedInReach'
  BY <1>1, <1>3, <1>4 DEF CaptureInv, MarkedInReach
<1> QED
  BY <1>5, <1>6, <1>7 DEF CaptureInv

LEMMA FailureKeeps ==
    ASSUME CaptureInv, T!ExportFails PROVE CaptureInv'
<1>1. /\ depth < MaxSessionDepth /\ level # <<>> /\ level[1] \notin visited /\ level' = Tail(level)
      /\ visited' = visited \cup {level[1]} /\ failures' = failures + 1
      /\ UNCHANGED <<refs, next, depth, children>>
  BY DEF T!ExportFails
<1>2. /\ level[1] \in Ids /\ Tail(level) \in Seq(Ids)
      /\ ToSet(level) = {level[1]} \cup ToSet(Tail(level))
  BY <1>1, ToSetOfTail DEF CaptureInv, CaptureTypes
<1>3. visited' \cup ToSet(level') = visited \cup ToSet(level)
  BY <1>1, <1>2
<1>4. Captured' = Captured /\ Reach' = Reach
  BY <1>1 DEF Captured, Reach
<1>5. IsFiniteSet(visited') /\ Cardinality(visited') = Cardinality(visited) + 1
  BY <1>1, FS_AddElement DEF CaptureInv, CaptureTypes
<1>6. CaptureTypes'
  BY <1>1, <1>2, <1>5 DEF CaptureInv, CaptureTypes
<1>7. MarkedOnce'
  <2>1. Len(children) \in Nat /\ failures \in Nat
    BY DEF CaptureInv, CaptureTypes
  <2>2. Cardinality(visited') = 1 + Len(children') + failures'
    BY <1>1, <1>5, <2>1 DEF CaptureInv, MarkedOnce
  <2> QED
    BY <1>1, <2>2 DEF CaptureInv, MarkedOnce
<1>8. MarkedInReach'
  BY <1>1, <1>3, <1>4 DEF CaptureInv, MarkedInReach
<1> QED
  BY <1>6, <1>7, <1>8 DEF CaptureInv

LEMMA ExportKeeps ==
    ASSUME CaptureInv, T!Exported PROVE CaptureInv'
<1> DEFINE c == level[1]
<1>1. /\ depth < MaxSessionDepth /\ level # <<>> /\ c \notin visited /\ level' = Tail(level)
      /\ visited' = visited \cup {c} /\ children' = Append(children, c)
      /\ next' = next \o refs[c]
      /\ UNCHANGED <<refs, depth, failures>>
  BY DEF T!Exported
<1>2. /\ c \in Ids /\ Tail(level) \in Seq(Ids)
      /\ ToSet(level) = {c} \cup ToSet(Tail(level))
  BY <1>1, ToSetOfTail DEF CaptureInv, CaptureTypes
<1> HIDE DEF c
<1>3. visited' \cup ToSet(level') = visited \cup ToSet(level)
  BY <1>1, <1>2
<1>4. children' \in Seq(Ids) /\ ToSet(children') = ToSet(children) \cup {c}
      /\ Len(children') = Len(children) + 1 /\ Len(children) \in Nat
  <2>1. children \in Seq(Ids)
    BY DEF CaptureInv, CaptureTypes
  <2> QED
    BY <1>1, <1>2, <2>1, ToSetOfAppend
<1>5. refs[c] \in Seq(Ids) /\ next' \in Seq(Ids) /\ ToSet(next') = ToSet(next) \cup ToSet(refs[c])
  <2>1. next \in Seq(Ids) /\ refs[c] \in Seq(Ids)
    BY <1>2 DEF CaptureInv, CaptureTypes
  <2> QED
    BY <1>1, <2>1, ToSetOfBoth
<1>6. IsFiniteSet(visited') /\ Cardinality(visited') = Cardinality(visited) + 1
  BY <1>1, FS_AddElement DEF CaptureInv, CaptureTypes
<1>7. CaptureTypes'
  BY <1>1, <1>2, <1>4, <1>5, <1>6 DEF CaptureInv, CaptureTypes
<1>8. MarkedOnce'
  <2>1. c # Primary /\ c \notin ToSet(children)
    BY <1>1 DEF CaptureInv, MarkedOnce
  <2>2. IsInjective(children')
    BY <1>1, <1>2, <2>1, InjectiveAppend DEF CaptureInv, CaptureTypes, MarkedOnce
  <2>3. failures \in Nat
    BY DEF CaptureInv, CaptureTypes
  <2>4. Cardinality(visited') = 1 + Len(children') + failures'
    BY <1>1, <1>4, <1>6, <2>3 DEF CaptureInv, MarkedOnce
  <2> QED
    BY <1>1, <1>4, <2>1, <2>2, <2>4 DEF CaptureInv, MarkedOnce
<1>9. MarkedInReach'
  <2>1. Captured' = Captured \cup {c}
    BY <1>4 DEF Captured
  <2>2. AreLevels(Reach, refs, Captured) /\ AreLevels(Reach', refs, Captured \cup {c})
    <3>1. AreLevels(Reach', refs', Captured')
      <4>1. refs' \in [Ids -> Seq(Ids)]
        BY <1>7 DEF CaptureTypes
      <4> QED
        BY <4>1, LevelsExist DEF Reach
    <3> QED
      BY <1>1, <2>1, <3>1, ReachIsLevels DEF CaptureInv
  <2>3. c \notin Reach[depth] /\ depth \in 0 .. MaxSessionDepth
    BY <1>1 DEF CaptureInv, MarkedInReach, CaptureTypes
  <2>4. \A k \in 0 .. depth + 1 : Reach'[k] = Reach[k]
    <3>1. PICK v, w, r, caps, d : /\ v = Reach' /\ w = Reach /\ r = refs
                                  /\ caps = Captured /\ d = depth
      OBVIOUS
    <3>2. AreLevels(w, r, caps) /\ AreLevels(v, r, caps \cup {c})
      BY <2>2, <3>1
    <3>3. d \in 0 .. MaxSessionDepth /\ d < MaxSessionDepth /\ c \notin w[d]
      BY <1>1, <2>3, <3>1
    <3>4. \A k \in 0 .. d + 1 : v[k] = w[k]
      BY <3>2, <3>3, LevelsKept
    <3> QED
      BY <3>1, <3>4
  <2>5. Reach'[depth] = Reach[depth] /\ Reach'[depth + 1] = Reach[depth + 1]
    <3>1. depth \in 0 .. depth + 1 /\ depth + 1 \in 0 .. depth + 1
      BY <2>3
    <3> QED
      BY <2>4, <3>1
  <2>6. Named(refs, Captured') = Named(refs, Captured) \cup ToSet(refs[c])
    BY <2>1 DEF Named
  <2>7. Reach[depth] \subseteq visited'
    BY <1>1 DEF CaptureInv, MarkedInReach
  <2>8. visited' \cup ToSet(level') = Reach[depth + 1]
    BY <1>1, <1>3 DEF CaptureInv, MarkedInReach
  <2>9. Reach[depth + 1] \cup ToSet(next) = Reach[depth + 1] \cup Named(refs, Captured)
    BY <1>1 DEF CaptureInv, MarkedInReach
  <2>10. Reach[depth + 1] \cup ToSet(next') = Reach[depth + 1] \cup Named(refs, Captured')
    BY <1>5, <2>6, <2>9
  <2> QED
    BY <1>1, <2>5, <2>7, <2>8, <2>10 DEF MarkedInReach
<1> QED
  BY <1>7, <1>8, <1>9 DEF CaptureInv

LEMMA NextLevelKeeps ==
    ASSUME CaptureInv, T!NextLevel PROVE CaptureInv'
<1>1. /\ depth < MaxSessionDepth /\ level = <<>>
      /\ depth' = depth + 1 /\ level' = next /\ next' = <<>>
      /\ UNCHANGED <<refs, visited, children, failures>>
  BY DEF T!NextLevel
<1>2. Captured' = Captured /\ Reach' = Reach
  BY <1>1 DEF Captured, Reach
<1>3. depth \in 0 .. MaxSessionDepth /\ depth + 1 \in 0 .. MaxSessionDepth
  BY <1>1, DepthIsNat DEF CaptureInv, CaptureTypes
<1>4. CaptureTypes'
  BY <1>1, <1>3 DEF CaptureInv, CaptureTypes
<1>5. MarkedOnce'
  BY <1>1 DEF CaptureInv, MarkedOnce
<1>6. visited = Reach[depth + 1]
  BY <1>1, ToSetOfNone DEF CaptureInv, MarkedInReach
<1>7. Reach[depth + 1] \cup ToSet(next) = Reach[depth + 1] \cup Named(refs, Captured)
  BY <1>1 DEF CaptureInv, MarkedInReach
<1>8. MarkedInReach'
  <2>1. CASE depth + 1 < MaxSessionDepth
    <3>1. Captured \subseteq Reach[depth + 1]
      BY <1>6 DEF CaptureInv, MarkedOnce, Captured
    <3>2. (depth + 1) + 1 \in 1 .. MaxSessionDepth /\ ((depth + 1) + 1) - 1 = depth + 1
      BY <1>3, <2>1, DepthIsNat
    <3>3. Reach[(depth + 1) + 1] = Reach[depth + 1] \cup Named(refs, Reach[depth + 1] \cap Captured)
      BY <3>2, ReachIsLevels DEF AreLevels, CaptureInv
    <3>4. Reach[depth + 1] \cap Captured = Captured
      BY <3>1
    <3>5. Reach[(depth + 1) + 1] = Reach[depth + 1] \cup Named(refs, Captured)
      BY <3>3, <3>4
    <3>6. visited \cup ToSet(next) = Reach[(depth + 1) + 1]
      BY <1>6, <1>7, <3>5
    <3>7. Reach[(depth + 1) + 1] \cup {} = Reach[(depth + 1) + 1] \cup Named(refs, Captured)
      BY <3>5
    <3> QED
      BY <1>1, <1>2, <1>6, <2>1, <3>6, <3>7, ToSetOfNone DEF MarkedInReach
  <2>2. CASE ~(depth + 1 < MaxSessionDepth)
    BY <1>1, <1>2, <1>6, <2>2 DEF MarkedInReach
  <2> QED
    BY <2>1, <2>2
<1> QED
  BY <1>4, <1>5, <1>8 DEF CaptureInv

(* The other commands leave the capture alone.                             *)
LEMMA CaptureSteps ==
    ASSUME [Next]_vars PROVE UNCHANGED capture \/ Capture
<1>1. CASE UNCHANGED vars
  BY <1>1 DEF vars
<1>2. CASE Change \/ OpenDatabase \/ Snapshot \/ Load
  BY <1>2 DEF Change, OpenDatabase, Snapshot, Load, Given
<1>3. CASE ReportChanges \/ Trace \/ Validate \/ ShowCaptures \/ History \/ ShowRun \/ Compare
  BY <1>3 DEF ReportChanges, Trace, Validate, ShowCaptures, History, ShowRun, Compare, Answer, Given
<1>4. CASE Leaderboard \/ Calibrate \/ Variance \/ ResolveArm \/ ShowCohorts \/ ExperimentShow
           \/ Report \/ ExportRuns \/ ShowProfile
  BY <1>4 DEF Leaderboard, Calibrate, Variance, ResolveArm, ShowCohorts, ExperimentShow, Report,
     ExportRuns, ShowProfile, Answer, Given
<1>5. CASE PrintLine \/ SayMessage \/ RecordRun \/ RecordCell \/ AddSegment
  BY <1>5 DEF PrintLine, SayMessage, RecordRun, RecordCell, AddSegment, Growing, Given
<1> QED
  BY <1>1, <1>2, <1>3, <1>4, <1>5 DEF Next

LEMMA CaptureInvAlways == Spec => [](command = "capture" => CaptureInv)
<1> DEFINE Inv == command = "capture" => CaptureInv
<1>1. Init => Inv
  <2> SUFFICES ASSUME Init, command = "capture" PROVE CaptureInv
    OBVIOUS
  <2>1. refs \in Delegations /\ T!TreeInit
    BY DEF Init
  <2>2. refs \in [Ids -> Seq(Ids)]
    BY <2>1, OfflineAssumption
  <2> QED
    BY <2>1, <2>2, CaptureStarts
<1>2. Inv /\ [Next]_vars => Inv'
  <2> SUFFICES ASSUME Inv, [Next]_vars, command' = "capture" PROVE CaptureInv'
    OBVIOUS
  <2>1. CaptureInv
    BY InputSteps
  <2>2. CASE UNCHANGED capture
    BY <2>1, <2>2 DEF capture, CaptureInv, CaptureTypes, MarkedOnce, MarkedInReach, Captured, Reach
  <2>3. CASE Capture
    BY <2>1, <2>3, SeenKeeps, FailureKeeps, ExportKeeps, NextLevelKeeps DEF Capture, T!CaptureSessions
  <2> QED
    BY <2>2, <2>3, CaptureSteps
<1> QED
  BY <1>1, <1>2, PTL DEF Spec

(* However sessions name one another, whichever exports fail and however   *)
(* deep it goes: every session within reach is captured once or has failed *)
(* once, and no other: captureSessions.                                    *)
THEOREM CapturedExactly == Spec => []CaptureExact
<1>1. (command = "capture" => CaptureInv) => CaptureExact
  <2> SUFFICES ASSUME CaptureInv, T!CaptureDone
               PROVE  /\ visited = T!Within[MaxSessionDepth]
                      /\ T!Cardinality(visited) = 1 + Len(children) + failures
                      /\ T!IsInjective(children) /\ T!ToSet(children) \subseteq visited \ {Primary}
    BY DEF CaptureExact, T!CaptureExact
  <2>1. T!Cardinality(visited) = Cardinality(visited)
    BY DEF Cardinality, T!Cardinality
  <2>2. \A s : T!ToSet(s) = ToSet(s) /\ T!IsInjective(s) = IsInjective(s)
    BY DEF ToSet, IsInjective, T!ToSet, T!IsInjective
  <2>3. T!Within = Reach
    BY <2>2 DEF T!Within, Reach, Levels, Named, Captured, ToSet, T!ToSet
  <2>4. visited = Reach[MaxSessionDepth]
    <3>1. CASE depth = MaxSessionDepth
      BY <3>1, DepthIsNat DEF CaptureInv, MarkedInReach
    <3>2. CASE depth # MaxSessionDepth
      <4>1. depth \in 0 .. MaxSessionDepth /\ depth < MaxSessionDepth
        BY <3>2, DepthIsNat DEF CaptureInv, CaptureTypes
      <4>2. level = <<>> /\ next = <<>>
        BY <3>2 DEF T!CaptureDone
      <4>3. visited = Reach[depth + 1] /\ Named(refs, Captured) \subseteq Reach[depth + 1]
        BY <4>1, <4>2, ToSetOfNone DEF CaptureInv, MarkedInReach
      <4>4. AreLevels(Reach, refs, Captured)
        BY ReachIsLevels DEF CaptureInv
      <4>5. depth + 1 \in 0 .. MaxSessionDepth
        BY <4>1, DepthIsNat
      <4>6. Reach[MaxSessionDepth] = Reach[depth + 1]
        BY <4>3, <4>4, <4>5, LevelsEnd
      <4> QED
        BY <4>3, <4>6
    <3> QED
      BY <3>1, <3>2
  <2> QED
    BY <2>1, <2>2, <2>3, <2>4 DEF CaptureInv, MarkedOnce
<1> QED
  BY <1>1, CaptureInvAlways, PTL

(***************************************************************************)
(* Comparison                                                              *)
(***************************************************************************)

Rows == command = "history" => input \subseteq Recorded /\ IsFiniteSet(input)

LEMMA RowsAlways == Spec => []Rows
<1>1. Init => Rows
  <2> SUFFICES ASSUME Init, command = "history" PROVE input = {}
    BY FS_EmptySet DEF Rows
  <2>1. EmptyInput["history"] = {{}}
    BY DEF EmptyInput
  <2>2. input \in EmptyInput["history"]
    BY DEF Init
  <2> QED
    BY <2>1, <2>2
<1>2. Rows /\ [Next]_vars => Rows'
  <2> SUFFICES ASSUME Rows, [Next]_vars, command' = "history"
               PROVE  input' \subseteq Recorded /\ IsFiniteSet(input')
    BY DEF Rows
  <2>1. command = "history" /\ (input' = input \/ RecordRun)
    <3>1. \A c : Growing(c) \/ Given(c) => command = c
      BY DEF Growing, Given
    <3>2. PrintLine => command = "trace"
      BY <3>1 DEF PrintLine
    <3>3. SayMessage => command = "usage"
      BY <3>1 DEF SayMessage
    <3>4. Snapshot => command = "snapshot"
      BY <3>1 DEF Snapshot
    <3>5. AddSegment => command = "globs"
      BY <3>1 DEF AddSegment
    <3>6. RecordCell => command = "cohort"
      BY <3>1 DEF RecordCell
    <3> QED
      BY <3>2, <3>3, <3>4, <3>5, <3>6, InputSteps
  <2>2. CASE RecordRun
    <3>1. PICK r \in Recorded : input' = input \cup {r}
      BY <2>2 DEF RecordRun
    <3> QED
      BY <2>1, <3>1, FS_AddElement DEF Rows
  <2> QED
    BY <2>1, <2>2 DEF Rows
<1> QED
  BY <1>1, <1>2, PTL DEF Spec

LEMMA SameOrder == ASSUME NEW S PROVE H!OldestFirst(S) = OldestFirst(S)
BY DEF OldestFirst, FoldSet, MapThenFoldSet, InsertAt, Older,
     H!OldestFirst, H!FoldSet, H!MapThenFoldSet, H!InsertAt, H!Older, Cardinality, H!Cardinality

LEMMA SameQueries ==
    ASSUME NEW S
    PROVE  /\ H!FirstOf(H!OldestFirst(S)) = FirstOf(OldestFirst(S))
           /\ H!FirstOf(H!NewestFirst(S)) = FirstOf(NewestFirst(S))
<1>1. H!OldestFirst(S) = OldestFirst(S)
  BY SameOrder
<1>2. H!NewestFirst(S) = NewestFirst(S)
  BY <1>1 DEF NewestFirst, H!NewestFirst, Reverse, H!Reverse
<1> QED
  BY <1>1, <1>2 DEF FirstOf, H!FirstOf

LEMMA Told == \A runs \in SUBSET Recorded : ToldApart(runs)
  BY RecordedAssumption DEF ToldApart

(* The run of an id, and the run before it.                                *)
LEMMA RunOfId ==
    ASSUME NEW runs \in SUBSET Recorded, NEW r \in runs
    PROVE  H!ResolveOne(runs, r.id) = <<r>>
<1>1. r.id # 0 /\ r.started \in Int /\ r.id \in Int
  BY RecordedAssumption
<1>2. {q \in runs : q.id = r.id} = {r}
  BY RecordedAssumption
<1>3. H!GetRun(runs, r.id) = FirstOf(OldestFirst({r}))
  BY <1>2, SameQueries DEF H!GetRun
<1>4. H!GetRun(runs, r.id) = <<r>>
  BY <1>1, <1>3, OnlyIsFirst
<1> QED
  BY <1>1, <1>4 DEF H!ResolveOne, H!Latest

(* The runs that a run may be compared with.                               *)
Candidates(runs, r) == {q \in runs : H!Compatible(q, r) /\ Older(q, r)}

LEMMA RunBefore ==
    ASSUME NEW runs \in SUBSET Recorded, IsFiniteSet(runs), NEW r \in runs, ~r.dry
    PROVE  /\ Candidates(runs, r) = {} => H!PreviousCompatibleRun(runs, r) = <<>>
           /\ Candidates(runs, r) # {} =>
                \E q \in Candidates(runs, r) :
                   /\ H!PreviousCompatibleRun(runs, r) = <<q>>
                   /\ \A s \in Candidates(runs, r) \ {q} : Older(s, q)
<1> DEFINE S == Candidates(runs, r)
<1>1. H!PreviousCompatibleRun(runs, r) = H!FirstOf(H!NewestFirst(S))
  <2>1. S = {q \in runs : /\ ~q.dry /\ q.suite = r.suite /\ q.hash = r.hash
                          /\ q.task = r.task /\ q.fixture = r.fixture /\ H!Older(q, r)}
    BY DEF Candidates, H!Compatible, Older, H!Older
  <2> QED
    BY <2>1 DEF H!PreviousCompatibleRun
<1>2. S \in SUBSET runs /\ S \in SUBSET Recorded
  BY DEF Candidates
<1> HIDE DEF S
<1>3. IsFiniteSet(S) /\ ToldApart(S)
  BY <1>2, FS_Subset, Told
<1>4. /\ S = {} => FirstOf(NewestFirst(S)) = <<>>
      /\ S # {} => \E x \in S : /\ FirstOf(NewestFirst(S)) = <<x>>
                                /\ \A q \in S \ {x} : Older(q, x)
  BY <1>3, NewestOfAll
<1>5. H!PreviousCompatibleRun(runs, r) = FirstOf(NewestFirst(S))
  BY <1>1, SameQueries
<1> QED
  BY <1>4, <1>5 DEF S

(* The pair of a run and its predecessor, whichever is named first.        *)
LEMMA PairOf ==
    ASSUME NEW runs \in SUBSET Recorded, NEW r \in runs
    PROVE  /\ r.id # -1
           /\ H!ResolvePair(runs, r.id, -1) = H!PreviousCompatibleRun(runs, r) \o <<r>>
           /\ H!ResolvePair(runs, -1, r.id) = H!PreviousCompatibleRun(runs, r) \o <<r>>
<1>1. r.id # -1
  BY RecordedAssumption
<1>2. H!ResolveOne(runs, r.id) = <<r>> /\ <<r>> # <<>> /\ <<r>>[1] = r
  BY RunOfId
<1> QED
  BY <1>1, <1>2 DEF H!ResolvePair, H!Previous

LEMMA DetailsLoad ==
    ASSUME NEW r \in Recorded
    PROVE  H!LoadDetail(r, StoredProfiles).ok = TRUE
<1>1. r.profile = "" \/ \E p \in StoredProfiles : p.hash = r.profile
  BY FiledAssumption
<1> QED
  BY <1>1 DEF H!LoadDetail

Comparison(q, r) ==
    LET diff == H!Diff(H!LoadDetail(q, StoredProfiles).profile,
                       H!LoadDetail(r, StoredProfiles).profile)
    IN [ok |-> TRUE, before |-> q, after |-> r,
        deltas |-> H!MetricDeltas(q, r),
        changes |-> diff,
        warning |-> H!ControlledRunWarning(Cardinality(diff))]

LEMMA ComparedPair ==
    ASSUME NEW runs, NEW left, NEW right, NEW r \in Recorded, ~r.dry,
           left = -1 \/ right = -1, ~(left = -1 /\ right = -1)
    PROVE  /\ H!ResolvePair(runs, left, right) = <<r>>
              => H!Compare(runs, StoredProfiles, left, right) = [ok |-> FALSE]
           /\ \A q \in Recorded :
                ~q.dry /\ H!ResolvePair(runs, left, right) = <<q, r>>
                => H!Compare(runs, StoredProfiles, left, right) = Comparison(q, r)
<1>1. ASSUME H!ResolvePair(runs, left, right) = <<r>>
      PROVE  H!Compare(runs, StoredProfiles, left, right) = [ok |-> FALSE]
  <2>1. Len(<<r>>) < 2
    OBVIOUS
  <2> QED
    BY <1>1, <2>1 DEF H!Compare, H!NotFound
<1>2. ASSUME NEW q \in Recorded, ~q.dry, H!ResolvePair(runs, left, right) = <<q, r>>
      PROVE  H!Compare(runs, StoredProfiles, left, right) = Comparison(q, r)
  <2> DEFINE pair == <<q, r>>
             details == [i \in DOMAIN pair |-> H!LoadDetail(pair[i], StoredProfiles)]
  <2>1. pair[1] = q /\ pair[2] = r /\ ~(Len(pair) < 2) /\ DOMAIN pair = 1 .. 2
    OBVIOUS
  <2>2. /\ details[1] = H!LoadDetail(q, StoredProfiles)
        /\ details[2] = H!LoadDetail(r, StoredProfiles)
    BY <2>1
  <2>3. \A i \in 1 .. 2 : details[i].ok
    <3>1. details[1].ok /\ details[2].ok
      BY <2>2, DetailsLoad
    <3> QED
      BY <3>1
  <2> DEFINE diff == H!Diff(details[1].profile, details[2].profile)
  <2>4. H!Compare(runs, StoredProfiles, left, right)
           = [ok |-> TRUE, before |-> pair[1], after |-> pair[2],
              deltas |-> H!MetricDeltas(pair[1], pair[2]), changes |-> diff,
              warning |-> H!ControlledRunWarning(H!Cardinality(diff))]
    <3>1. ~ \/ left = H!Previous /\ right = H!Previous
            \/ Len(pair) < 2
            \/ pair[1].dry \/ pair[2].dry
            \/ H!Previous \notin {left, right} /\ ~H!Compatible(pair[1], pair[2])
            \/ \E i \in 1 .. 2 : ~details[i].ok
      BY <1>2, <2>1, <2>3 DEF H!Previous
    <3>2. H!ResolvePair(runs, left, right) = pair
      BY <1>2
    <3> HIDE DEF pair
    <3> QED
      BY <3>1, <3>2 DEF H!Compare
  <2> QED
    BY <2>1, <2>2, <2>4 DEF Comparison, Cardinality, H!Cardinality
<1> QED
  BY <1>1, <1>2

(* A run is compared with the last comparable run that started before it,  *)
(* if there is one, whatever was recorded and in whatever order, and       *)
(* whichever of the two is named first: Compare, PreviousCompatibleRun.    *)
THEOREM ComparedInOrder == Spec => []CompareIsOrdered
<1>1. Rows => CompareIsOrdered
  <2> SUFFICES ASSUME NEW runs \in SUBSET Recorded, IsFiniteSet(runs),
                      NEW r \in runs, ~r.dry
               PROVE  H!Ordered(H!Compare(runs, StoredProfiles, r.id, H!Previous),
                                H!Compare(runs, StoredProfiles, H!Previous, r.id), r, runs)
    BY DEF Rows, CompareIsOrdered, H!CompareIsOrdered, H!NotDry
  <2> DEFINE S == Candidates(runs, r)
             c == H!Compare(runs, StoredProfiles, r.id, -1)
             d == H!Compare(runs, StoredProfiles, -1, r.id)
             p == H!PreviousCompatibleRun(runs, r)
  <2>1. /\ r.id # -1 /\ r \in Recorded /\ S \subseteq Recorded
        /\ H!ResolvePair(runs, r.id, -1) = p \o <<r>>
        /\ H!ResolvePair(runs, -1, r.id) = p \o <<r>>
    BY PairOf DEF Candidates
  <2>2. /\ S = {} => p = <<>>
        /\ S # {} => \E q \in S : p = <<q>> /\ \A s \in S \ {q} : Older(s, q)
    BY RunBefore
  <2>3. S = {q \in runs : /\ H!Compatible(q, r)
                          /\ q.started < r.started \/ (q.started = r.started /\ q.id < r.id)}
    BY DEF Candidates, Older
  <2>4. CASE S = {}
    <3>1. p \o <<r>> = <<r>>
      BY <2>2, <2>4
    <3>2. c = [ok |-> FALSE] /\ d = [ok |-> FALSE]
      BY <2>1, <3>1, ComparedPair
    <3> HIDE DEF S, c, d
    <3> QED
      BY <2>3, <2>4, <3>2 DEF H!Ordered, H!Previous, c, d
  <2>5. CASE S # {}
    <3>1. PICK q \in S : p = <<q>> /\ \A s \in S \ {q} : Older(s, q)
      BY <2>2, <2>5
    <3>2. p \o <<r>> = <<q, r>>
      BY <3>1, OneAndOne
    <3>3. q \in Recorded /\ ~q.dry
      BY <2>1 DEF Candidates, H!Compatible
    <3>4. c = Comparison(q, r) /\ d = Comparison(q, r)
      <4>1. /\ H!ResolvePair(runs, r.id, -1) = <<q, r>>
            /\ H!ResolvePair(runs, -1, r.id) = <<q, r>>
        BY <2>1, <3>2
      <4> HIDE DEF S, p
      <4> QED
        BY <2>1, <3>3, <4>1, ComparedPair
    <3>5. c.ok /\ c.after = r /\ c.before = q /\ d = c
      BY <3>4 DEF Comparison
    <3> HIDE DEF S, c, d
    <3>6. \A s \in S \ {q} : s.started < q.started \/ (s.started = q.started /\ s.id < q.id)
      BY <3>1 DEF Older
    <3> QED
      BY <2>3, <2>5, <3>5, <3>6 DEF H!Ordered, H!Previous, c, d
  <2> QED
    BY <2>4, <2>5
<1> QED
  BY <1>1, RowsAlways, PTL

(***************************************************************************)
(* Verdict and score                                                       *)
(***************************************************************************)

Verdicts == {"passed", "failed", "error", "timeout"}

IsRaw(v) == v.weight \in Int /\ v.present \in Seq(STRING) /\ v.absent \in Seq(STRING)

(* What a loaded validator can be relied on for.                           *)
Judges(v) ==
    /\ v.weight \in Int
    /\ v.kind = "grep" => /\ v.present \in Seq(STRING) /\ v.absent \in Seq(STRING)
                          /\ T!JoinCompiles(v.present \o v.absent)
    /\ v.kind = "process" => v.tool # "" /\ T!Compiles(v.tool)
    /\ v.kind = "command" => v.command # <<>>

LEMMA KeptFields ==
    ASSUME NEW raw, NEW fields
    PROVE  /\ Su!Keep(raw, fields).kind = raw.kind /\ Su!Keep(raw, fields).weight = raw.weight
           /\ "command" \in fields => Su!Keep(raw, fields).command = raw.command
           /\ "present" \in fields => Su!Keep(raw, fields).present = raw.present
           /\ "absent" \in fields => Su!Keep(raw, fields).absent = raw.absent
           /\ "tool" \in fields => Su!Keep(raw, fields).tool = raw.tool
  BY DEF Su!Keep, Su!Blank

LEMMA SameCompile ==
    ASSUME NEW ps
    PROVE  Su!JoinCompiles(ps) = T!JoinCompiles(ps) /\ Su!Compiles(ps) = T!Compiles(ps)
<1>1. \A qs : Su!Depth(qs) = T!Depth(qs)
  BY DEF Su!Depth, Su!FoldSeq, Su!FoldFunction, Su!FoldFunctionOnSet, Su!MapThenFoldSet,
     T!Depth, T!FoldSeq, T!FoldFunction, T!FoldFunctionOnSet, T!MapThenFoldSet
<1>2. \A qs : Su!JoinCompiles(qs) = T!JoinCompiles(qs)
  BY <1>1 DEF Su!JoinCompiles, T!JoinCompiles
<1> QED
  BY <1>2 DEF Su!Compiles, T!Compiles

LEMMA LoadedJudges ==
    ASSUME NEW raw, IsRaw(raw), NEW answer, Su!ResolveValidator(raw, answer).ok
    PROVE  Judges(Su!ResolveValidator(raw, answer).value)
<1> DEFINE res == Su!ResolveValidator(raw, answer)
           v == res.value
<1>1. CASE raw.kind = "command"
  <2>1. raw.command # <<>> /\ v = Su!Keep(raw, {"command"})
    BY <1>1 DEF Su!ResolveValidator, Su!Loaded, Su!Failed
  <2>2. v.kind = "command" /\ v.command = raw.command /\ v.weight = raw.weight
    BY <1>1, <2>1, KeptFields
  <2> QED
    BY <2>1, <2>2 DEF Judges, IsRaw
<1>2. CASE raw.kind = "diff"
  <2>1. v = Su!Keep(raw, {"required", "forbidden", "maxLines"})
    BY <1>2 DEF Su!ResolveValidator, Su!Loaded, Su!Failed
  <2>2. v.kind = "diff" /\ v.weight = raw.weight
    BY <1>2, <2>1, KeptFields
  <2> QED
    BY <2>2 DEF Judges, IsRaw
<1>3. CASE raw.kind = "grep"
  <2>1. Su!GrepResolves(raw) /\ v = Su!Keep(raw, {"present", "absent"})
    BY <1>3 DEF Su!ResolveValidator, Su!Loaded, Su!Failed
  <2>2. v.kind = "grep" /\ v.present = raw.present /\ v.absent = raw.absent /\ v.weight = raw.weight
    BY <1>3, <2>1, KeptFields
  <2>3. T!JoinCompiles(v.present \o v.absent)
    BY <2>1, <2>2, SameCompile DEF Su!GrepResolves
  <2> QED
    BY <2>2, <2>3 DEF Judges, IsRaw
<1>4. CASE raw.kind = "process"
  <2>1. raw.tool # "" /\ Su!Compiles(raw.tool) /\ v = Su!Keep(raw, {"tool"})
    BY <1>4 DEF Su!ResolveValidator, Su!Loaded, Su!Failed
  <2>2. v.kind = "process" /\ v.tool = raw.tool /\ v.weight = raw.weight
    <3>1. "tool" \in {"tool"}
      OBVIOUS
    <3> DEFINE fields == {"tool"}
    <3> HIDE DEF fields
    <3>2. v = Su!Keep(raw, fields) /\ "tool" \in fields
      BY <2>1, <3>1 DEF fields
    <3> QED
      BY <1>4, <3>2, KeptFields
  <2> QED
    BY <2>1, <2>2, SameCompile DEF Judges, IsRaw
<1>5. CASE raw.kind = "answer"
  <2>1. res = Su!ResolveAnswer(raw, answer)
    BY <1>5 DEF Su!ResolveValidator
  <2> DEFINE inline   == raw.patterns # <<>>
             patterns == IF inline \/ answer = <<>> THEN raw.patterns ELSE answer[1].patterns
             declared == IF inline \/ answer = <<>> \/ raw.mode # "" THEN raw.mode ELSE answer[1].mode
             mode     == IF declared = "" THEN "all" ELSE declared
             bad      == \/ ~inline /\ answer # <<>> /\ ~answer[1].parses
                         \/ patterns = <<>> \/ mode \notin {"all", "any"}
  <2>2. v = [Su!Keep(raw, {}) EXCEPT !.patterns = patterns, !.mode = mode]
    <3>1. res = IF bad THEN Su!Failed
                ELSE Su!Loaded([Su!Keep(raw, {}) EXCEPT !.patterns = patterns, !.mode = mode])
      BY <2>1 DEF Su!ResolveAnswer
    <3> HIDE DEF bad, patterns, mode
    <3> QED
      BY <3>1 DEF Su!Loaded, Su!Failed
  <2>3. v.kind = "answer" /\ v.weight = raw.weight
    <3>1. v.kind = Su!Keep(raw, {}).kind /\ v.weight = Su!Keep(raw, {}).weight
      BY <2>2 DEF Su!Keep, Su!Blank
    <3> QED
      BY <1>5, <3>1, KeptFields
  <2> QED
    BY <2>3 DEF Judges, IsRaw
<1>6. CASE raw.kind \notin {"command", "diff", "grep", "process", "answer"}
  BY <1>6 DEF Su!ResolveValidator, Su!Failed
<1> QED
  BY <1>1, <1>2, <1>3, <1>4, <1>5, <1>6

(* Whatever a validator is given, it comes to one of four verdicts; and it *)
(* comes to an error only over a mistake that loading cannot find.         *)
Checked(v, end) ==
    \/ v.kind \in {"diff", "process"}
    \/ v.kind = "grep" /\ Len(v.present \o v.absent) = 1
    \/ v.kind = "command" /\ end.how = "exit"

LEMMA IfVerdict ==
    ASSUME NEW good
    PROVE  T!If(good).status \in {"passed", "failed"} /\ T!Error.status = "error"
  BY DEF T!If, T!Passed, T!Fails, T!Error

LEMMA CommandVerdict ==
    ASSUME NEW v, NEW end
    PROVE  /\ T!RunCommandValidator(v, end).status \in Verdicts
           /\ v.command # <<>> /\ end.how = "exit"
              => T!RunCommandValidator(v, end).status # "error"
<1> DEFINE r == T!RunCommandValidator(v, end)
           x == [T!If(end.code = 0) EXCEPT !.exit = end.code]
<1>1. x.status \in {"passed", "failed"}
  BY DEF T!If, T!Passed, T!Fails
<1>2. T!Error.status = "error"
  BY DEF T!Error
<1> HIDE DEF x
<1>3. r = IF v.command = <<>> THEN T!Error
          ELSE CASE end.how = "deadline" -> [status |-> "timeout", exit |-> -1]
                 [] end.how \in {"not started", "cancelled", "signal"} -> T!Error
                 [] OTHER -> x
  BY DEF T!RunCommandValidator, x
<1>4. r \in {T!Error, [status |-> "timeout", exit |-> -1], x}
  BY <1>3
<1>5. v.command # <<>> /\ end.how = "exit" => r = x
  BY <1>3
<1> HIDE DEF r
<1>6. r.status \in Verdicts /\ (v.command # <<>> /\ end.how = "exit" => r.status # "error")
  BY <1>1, <1>2, <1>4, <1>5 DEF Verdicts
<1> QED
  BY <1>6 DEF r

LEMMA GrepVerdict ==
    ASSUME NEW v, NEW files
    PROVE  /\ T!RunGrepValidator(v, files).status \in Verdicts
           /\ (\A p \in T!ToSet(v.present) \cup T!ToSet(v.absent) : T!Compiles(p))
              => T!RunGrepValidator(v, files).status # "error"
<1> DEFINE somewhere(p) == \E f \in T!WorktreeFiles(files) : T!Found(p, f.words)
           good == /\ \A p \in T!ToSet(v.present) : somewhere(p)
                   /\ \A p \in T!ToSet(v.absent) : ~somewhere(p)
           bad == \E p \in T!ToSet(v.present) \cup T!ToSet(v.absent) : ~T!Compiles(p)
<1>1. T!RunGrepValidator(v, files) = IF bad THEN T!Error ELSE T!If(good)
  BY DEF T!RunGrepValidator
<1>2. (\A p \in T!ToSet(v.present) \cup T!ToSet(v.absent) : T!Compiles(p)) => ~bad
  OBVIOUS
<1> HIDE DEF bad, good
<1> QED
  BY <1>1, <1>2, IfVerdict DEF Verdicts

LEMMA OnePattern ==
    ASSUME NEW X, NEW s \in Seq(X), NEW t \in Seq(X), Len(s \o t) = 1
    PROVE  \A p \in T!ToSet(s) \cup T!ToSet(t) : s \o t = <<p>>
<1> SUFFICES ASSUME NEW p \in T!ToSet(s) \cup T!ToSet(t) PROVE s \o t = <<p>>
  OBVIOUS
<1>1. s \o t \in Seq(X) /\ ToSet(s \o t) = ToSet(s) \cup ToSet(t)
  BY ToSetOfBoth
<1>2. p \in ToSet(s \o t)
  BY <1>1 DEF ToSet, T!ToSet
<1> DEFINE q == s \o t
<1> HIDE DEF q
<1>3. q \in Seq(X) /\ Len(q) = 1 /\ p \in ToSet(q)
  BY <1>1, <1>2 DEF q
<1>4. q[1] = p
  BY <1>3 DEF ToSet
<1>5. q = <<p>>
  BY <1>3, <1>4
<1> QED
  BY <1>5 DEF q

LEMMA Verdict ==
    ASSUME NEW v, Judges(v), NEW ctx, NEW end
    PROVE  /\ T!RunValidatorContext(v, ctx, end).status \in Verdicts
           /\ Checked(v, end) => T!RunValidatorContext(v, ctx, end).status # "error"
<1> DEFINE r == T!RunValidatorContext(v, ctx, end)
<1>1. CASE v.kind = "command"
  <2>1. r = T!RunCommandValidator(v, end)
    BY <1>1 DEF T!RunValidatorContext
  <2>2. v.command # <<>> /\ (Checked(v, end) => end.how = "exit")
    BY <1>1 DEF Judges, Checked
  <2> QED
    BY <2>1, <2>2, CommandVerdict
<1>2. CASE v.kind = "answer"
  <2>1. r = T!RunAnswerValidator(v, ctx.answer)
    BY <1>2 DEF T!RunValidatorContext
  <2>2. ~Checked(v, end)
    BY <1>2 DEF Checked
  <2>3. T!RunAnswerValidator(v, ctx.answer).status \in Verdicts
    BY IfVerdict DEF T!RunAnswerValidator, Verdicts
  <2> QED
    BY <2>1, <2>2, <2>3
<1>3. CASE v.kind = "diff"
  <2>1. r = T!RunDiffValidator(v, ctx)
    BY <1>3 DEF T!RunValidatorContext
  <2> QED
    BY <2>1, IfVerdict DEF T!RunDiffValidator, Verdicts
<1>4. CASE v.kind = "grep"
  <2>1. r = T!RunGrepValidator(v, ctx.files)
    BY <1>4 DEF T!RunValidatorContext
  <2>2. Checked(v, end) => Len(v.present \o v.absent) = 1
    BY <1>4 DEF Checked
  <2>3. /\ v.present \in Seq(STRING) /\ v.absent \in Seq(STRING)
        /\ T!JoinCompiles(v.present \o v.absent)
    BY <1>4 DEF Judges
  <2>4. ASSUME Checked(v, end)
        PROVE  \A p \in T!ToSet(v.present) \cup T!ToSet(v.absent) : T!Compiles(p)
    <3>1. \A p \in T!ToSet(v.present) \cup T!ToSet(v.absent) : v.present \o v.absent = <<p>>
      <4> DEFINE s == v.present
                 t == v.absent
      <4>1. s \in Seq(STRING) /\ t \in Seq(STRING) /\ Len(s \o t) = 1
        BY <2>2, <2>3, <2>4
      <4> HIDE DEF s, t
      <4>2. \A p \in T!ToSet(s) \cup T!ToSet(t) : s \o t = <<p>>
        BY <4>1, OnePattern
      <4> QED
        BY <4>2 DEF s, t
    <3>2. \A p : T!Compiles(p) <=> T!JoinCompiles(<<p>>)
      BY DEF T!Compiles
    <3> QED
      BY <2>3, <3>1, <3>2, Zenon
  <2> QED
    BY <2>1, <2>4, GrepVerdict
<1>5. CASE v.kind = "process"
  <2>1. r = T!RunProcessValidator(v, ctx.events)
    BY <1>5 DEF T!RunValidatorContext
  <2>2. v.tool # "" /\ T!Compiles(v.tool)
    BY <1>5 DEF Judges
  <2>3. r = T!If(\E label \in T!ToolCallLabels(ctx.events) : T!Found(v.tool, label))
    BY <2>1, <2>2 DEF T!RunProcessValidator
  <2> QED
    BY <2>3, IfVerdict DEF Verdicts
<1>6. CASE v.kind \notin {"command", "answer", "diff", "grep", "process"}
  <2>1. r = T!Error
    BY <1>6 DEF T!RunValidatorContext
  <2>2. ~Checked(v, end)
    BY <1>6 DEF Checked
  <2> QED
    BY <2>1, <2>2, IfVerdict DEF Verdicts
<1> QED
  BY <1>1, <1>2, <1>3, <1>4, <1>5, <1>6

(* Results of a list of validators: each has a verdict, or was skipped.    *)
AreResults(rs) ==
    /\ IsFiniteSet(DOMAIN rs)
    /\ \A i \in DOMAIN rs : rs[i].weight \in Int /\ rs[i].status \in Verdicts \cup {"skipped"}

(* Full marks are for those whose validators all passed.                   *)
LEMMA FullMarks ==
    ASSUME NEW rs, AreResults(rs), T!Score(rs) # <<>>
    PROVE  T!Score(rs)[1] = T!Score(rs)[2] <=> ~T!ValidatorsFailed(rs)
<1> DEFINE S == DOMAIN rs
           w == [i \in S |-> IF rs[i].weight <= 0 THEN 1 ELSE rs[i].weight]
           good == {i \in S : rs[i].status \in {"passed"}}
           all == {i \in S : rs[i].status \in {"passed", "failed", "error", "timeout"}}
           bad == T!Failures(rs)
           one == SumFunctionOnSet(w, good)
           other == SumFunctionOnSet(w, all)
<1>1. T!Score(rs) = IF other = 0 THEN <<>> ELSE <<one, other>>
  BY DEF T!Score, T!SumFunctionOnSet, T!FoldFunctionOnSet, T!MapThenFoldSet,
     SumFunctionOnSet, FoldFunctionOnSet, MapThenFoldSet
<1>2. /\ good \in SUBSET S /\ bad \in SUBSET S /\ good \cap bad = {} /\ all = good \cup bad
      /\ T!ValidatorsFailed(rs) <=> bad # {}
  BY DEF T!Failures, T!ValidatorsFailed
<1>3. IsFiniteSet(S) /\ w \in [S -> Int] /\ \A i \in S : w[i] > 0
  BY DEF AreResults
<1> HIDE DEF S, w, good, all, bad
<1>4. CASE bad = {}
  <2>1. all = good
    BY <1>2, <1>4
  <2> QED
    BY <1>1, <1>2, <1>4, <2>1
<1>5. CASE bad # {}
  <2>1. one < SumFunctionOnSet(w, good \cup bad)
    BY <1>2, <1>3, <1>5, SumIsLess
  <2>2. one < other
    BY <1>2, <2>1
  <2>3. one # other
    <3>1. one \in Int
      BY <1>2, <1>3, SumIsInt
    <3>2. other \in Int
      <4>1. all \in SUBSET S
        BY <1>2
      <4> QED
        BY <1>3, <4>1, SumIsInt
    <3> HIDE DEF one, other
    <3> QED
      BY <2>2, <3>1, <3>2
  <2> HIDE DEF one, other
  <2>4. T!Score(rs)[1] = one /\ T!Score(rs)[2] = other
    BY <1>1
  <2> QED
    BY <1>2, <1>5, <2>3, <2>4
<1> QED
  BY <1>4, <1>5

LEMMA SuccessIsPassing ==
    ASSUME NEW status, NEW ctx, NEW counts, NEW unexpected, NEW rs
    PROVE  T!DerivedMetrics(status, ctx, counts, unexpected, rs).success = 1 <=> status = "passed"
<1> DEFINE lines == T!DiffLineCounts(ctx.diff)
           failing == Cardinality(T!Failures(rs))
           always == [files_changed |-> Cardinality(ctx.changed), files_created |-> counts.created,
                      files_deleted |-> counts.deleted, files_unexpected |-> Cardinality(unexpected),
                      diff_lines_added |-> lines.added, diff_lines_removed |-> lines.removed,
                      validator_failures |-> failing, success |-> T!Count(status = "passed"),
                      first_shot_success |-> T!Count(status = "passed" /\ failing = 0)]
           m == T!DerivedMetrics(status, ctx, counts, unexpected, rs)
<1>1. m = IF T!Score(rs) = <<>> THEN always
          ELSE [k \in DOMAIN always \cup {"score"} |-> IF k = "score" THEN T!Score(rs) ELSE always[k]]
  BY DEF T!DerivedMetrics, Cardinality, T!Cardinality
<1>2. "success" \in DOMAIN always /\ always.success = T!Count(status = "passed")
  OBVIOUS
<1> HIDE DEF always
<1>3. m.success = T!Count(status = "passed")
  BY <1>1, <1>2
<1> QED
  BY <1>3 DEF T!Count

(* What the commands of a suite's loading and judging hold on to.          *)
Judged(vs) == /\ Len(vs) \in Nat /\ DOMAIN vs = 1 .. Len(vs)
              /\ \A i \in DOMAIN vs : Judges(vs[i])

Fair(o) ==
    /\ \A i \in DOMAIN o.validators : Checked(o.validators[i], o.end) => o.results[i].status # "error"
    /\ ~o.cancelled /\ T!Score(o.results) # <<>> =>
          (o.metrics.success = 1 <=> T!Score(o.results)[1] = T!Score(o.results)[2])

JudgedInv ==
    command = "validate" =>
       /\ input \in Trees
       /\ ~done /\ out # <<>> => \A task \in ToSet(out.suite.tasks) : Judged(task.validators)
       /\ done /\ out.ok => Fair(out)

LEMMA ResultsAreFair ==
    ASSUME NEW vs, Judged(vs), NEW ctx, NEW end, NEW missing, NEW started \in 0 .. Len(vs),
           NEW counts, NEW unexpected
    PROVE  LET results == T!RunValidators(vs, ctx, [i \in DOMAIN vs |-> end], missing, started)
               cancelled == started < Len(vs)
               status == IF cancelled THEN "error"
                         ELSE IF T!ValidatorsFailed(results) THEN "failed" ELSE "passed"
           IN Fair([ok |-> TRUE, validators |-> vs, end |-> end, cancelled |-> cancelled,
                    results |-> results,
                    metrics |-> T!DerivedMetrics(status, ctx, counts, unexpected, results)])
<1> DEFINE results == T!RunValidators(vs, ctx, [i \in DOMAIN vs |-> end], missing, started)
           cancelled == started < Len(vs)
           status == IF cancelled THEN "error"
                     ELSE IF T!ValidatorsFailed(results) THEN "failed" ELSE "passed"
           metrics == T!DerivedMetrics(status, ctx, counts, unexpected, results)
           judgement(i) == T!RunValidatorContext(vs[i], ctx, end)
<1>1. /\ DOMAIN results = DOMAIN vs
      /\ \A i \in DOMAIN vs :
           results[i] = IF missing # {} \/ i > started THEN T!Skipped
                        ELSE [status |-> judgement(i).status, exit |-> judgement(i).exit,
                              weight |-> vs[i].weight]
  BY DEF T!RunValidators
<1>2. \A i \in DOMAIN vs : /\ judgement(i).status \in Verdicts /\ vs[i].weight \in Int
                           /\ Checked(vs[i], end) => judgement(i).status # "error"
  BY Verdict DEF Judged, Judges
<1> HIDE DEF judgement, results
<1>3. \A i \in DOMAIN vs : /\ results[i].status \in Verdicts \cup {"skipped"} /\ results[i].weight \in Int
                           /\ Checked(vs[i], end) => results[i].status # "error"
  <2> TAKE i \in DOMAIN vs
  <2>1. CASE missing # {} \/ i > started
    <3>1. results[i] = T!Skipped
      BY <1>1, <2>1
    <3> QED
      BY <3>1 DEF T!Skipped
  <2>2. CASE ~(missing # {} \/ i > started)
    <3>1. results[i].status = judgement(i).status /\ results[i].weight = vs[i].weight
      BY <1>1, <2>2
    <3> QED
      BY <1>2, <3>1
  <2> QED
    BY <2>1, <2>2
<1>4. AreResults(results)
  <2>1. IsFiniteSet(DOMAIN results)
    BY <1>1, FS_Interval DEF Judged
  <2> QED
    BY <1>1, <1>3, <2>1 DEF AreResults
<1>5. metrics.success = 1 <=> status = "passed"
  BY SuccessIsPassing
<1> HIDE DEF metrics
<1>6. ASSUME ~cancelled, T!Score(results) # <<>>
      PROVE  metrics.success = 1 <=> T!Score(results)[1] = T!Score(results)[2]
  <2>1. status = "passed" <=> ~T!ValidatorsFailed(results)
    BY <1>6
  <2> QED
    BY <1>4, <1>5, <1>6, <2>1, FullMarks
<1> DEFINE o == [ok |-> TRUE, validators |-> vs, end |-> end, cancelled |-> cancelled,
                 results |-> results, metrics |-> metrics]
<1>7. /\ o.validators = vs /\ o.end = end /\ o.cancelled = cancelled /\ o.results = results
      /\ o.metrics = metrics
  OBVIOUS
<1> HIDE DEF o
<1>8. Fair(o)
  BY <1>3, <1>6, <1>7 DEF Fair
<1> QED
  BY <1>8 DEF o, metrics, results

LEMMA SuiteLoaded ==
    ASSUME NEW ts, NEW tree, Su!SuiteWith(ts, tree).ok
    PROVE  /\ Su!SuiteWith(ts, tree).value.tasks = [i \in DOMAIN ts |-> ts[i].value]
           /\ \A i \in DOMAIN ts : ts[i].ok
<1> DEFINE named == tree.name # "" /\ tree.version # "" /\ tree.tier \in Su!Tiers
           whole == \A i \in DOMAIN ts : ts[i].ok
           s == [name |-> tree.name, version |-> tree.version, timeout |-> tree.timeout,
                 tasks |-> [i \in DOMAIN ts |-> ts[i].value]]
<1>1. Su!SuiteWith(ts, tree) = IF named /\ whole THEN [ok |-> TRUE, value |-> s] ELSE [ok |-> FALSE]
  BY DEF Su!SuiteWith, Su!Failed, Su!Loaded
<1>2. s.tasks = [i \in DOMAIN ts |-> ts[i].value]
  OBVIOUS
<1> HIDE DEF named, whole, s
<1>3. whole /\ Su!SuiteWith(ts, tree).value = s
  BY <1>1
<1> QED
  BY <1>2, <1>3 DEF whole

LEMMA TaskLoaded ==
    ASSUME NEW vs, NEW raw, NEW suiteDefault, Su!TaskWith(vs, raw, suiteDefault).ok
    PROVE  /\ Su!TaskWith(vs, raw, suiteDefault).value.validators = [i \in DOMAIN vs |-> vs[i].value]
           /\ \A i \in DOMAIN vs : vs[i].ok
<1> DEFINE named == raw.id # "" /\ raw.version # "" /\ raw.name # "" /\ raw.id = raw.dir
           sound == /\ Su!DestStaysInside(raw.dest) /\ raw.difficulty \in Su!Difficulties
                    /\ Su!ToSet(raw.capabilities) \subseteq Su!CapabilityVocabulary
                    /\ raw.expected >= 0 /\ raw.prompt # "" /\ raw.hasFixture
           whole == \A i \in DOMAIN vs : vs[i].ok
           t == [id |-> raw.id, version |-> raw.version, difficulty |-> raw.difficulty,
                 capabilities |-> raw.capabilities,
                 timeout |-> Su!ResolveTimeout(raw.timeout, suiteDefault),
                 requires |-> raw.requires, allow |-> raw.allow, prompt |-> raw.prompt,
                 dest |-> IF raw.dest = <<>> THEN <<"tests">> ELSE raw.dest,
                 fixtureHash |-> Su!ManifestHash(Su!Regular(raw.fixture)),
                 evaluator |-> Su!Regular(raw.evaluator),
                 validators |-> [i \in DOMAIN vs |-> vs[i].value]]
<1>1. Su!TaskWith(vs, raw, suiteDefault)
         = IF named /\ sound /\ whole THEN [ok |-> TRUE, value |-> t] ELSE [ok |-> FALSE]
  BY DEF Su!TaskWith, Su!Failed, Su!Loaded
<1>2. t.validators = [i \in DOMAIN vs |-> vs[i].value]
  OBVIOUS
<1> HIDE DEF named, sound, whole, t
<1>3. whole /\ Su!TaskWith(vs, raw, suiteDefault).value = t
  BY <1>1
<1> QED
  BY <1>2, <1>3 DEF whole

LEMMA LoadedTasksJudge ==
    ASSUME NEW source \in Trees, Su!Resolve(source.flag, source.home, source.embedded).ok
    PROVE  \A task \in ToSet(Su!Resolve(source.flag, source.home, source.embedded).value.tasks) :
              Judged(task.validators)
<1> DEFINE trees == source.flag \o source.home \o source.embedded
           s == Su!Resolve(source.flag, source.home, source.embedded)
<1>1. trees \in Seq(ToSet(trees)) /\ s = IF trees = <<>> THEN Su!Failed ELSE Su!LoadSuite(trees[1])
  BY TreesAssumption DEF Su!Resolve
<1>2. trees # <<>>
  <2>1. s.ok /\ ~Su!Failed.ok
    BY DEF Su!Failed
  <2> HIDE DEF s, trees
  <2> QED
    BY <1>1, <2>1
<1> HIDE DEF trees
<1> DEFINE tree == trees[1]
<1>3. tree \in ToSet(trees)
  BY <1>1, <1>2 DEF ToSet
<1>4. \A task \in ToSet(tree.tasks) : /\ task.validators \in Seq(ToSet(task.validators))
                                      /\ \A v \in ToSet(task.validators) : IsRaw(v)
  BY <1>3, TreesAssumption DEF IsRaw, trees
<1> HIDE DEF tree
<1> DEFINE ts == [i \in DOMAIN tree.tasks |-> Su!LoadTask(tree.tasks[i], tree.timeout)]
<1>5. s = Su!SuiteWith(ts, tree)
  BY <1>1, <1>2 DEF Su!LoadSuite, tree
<1> HIDE DEF ts
<1>6. s.value.tasks = [i \in DOMAIN ts |-> ts[i].value] /\ \A i \in DOMAIN ts : ts[i].ok
  <2>1. s.ok
    OBVIOUS
  <2> HIDE DEF s
  <2> QED
    BY <1>5, <2>1, SuiteLoaded
<1> SUFFICES ASSUME NEW task \in ToSet(s.value.tasks) PROVE Judged(task.validators)
  OBVIOUS
<1>7. PICK i \in DOMAIN tree.tasks : task = Su!LoadTask(tree.tasks[i], tree.timeout).value
                                     /\ Su!LoadTask(tree.tasks[i], tree.timeout).ok
  <2>1. PICK i \in DOMAIN ts : task = ts[i].value
    BY <1>6 DEF ToSet
  <2> QED
    BY <1>6, <2>1 DEF ts
<1> DEFINE raw == tree.tasks[i]
           rvs == raw.validators
           vs == [k \in DOMAIN rvs |-> Su!ResolveValidator(rvs[k], raw.answer)]
<1>8. rvs \in Seq(ToSet(rvs)) /\ \A v \in ToSet(rvs) : IsRaw(v)
  BY <1>4, <1>7 DEF ToSet
<1>9. task.validators = [k \in DOMAIN vs |-> vs[k].value] /\ \A k \in DOMAIN vs : vs[k].ok
  <2>1. Su!LoadTask(raw, tree.timeout) = Su!TaskWith(vs, raw, tree.timeout)
    BY DEF Su!LoadTask
  <2>2. task = Su!TaskWith(vs, raw, tree.timeout).value /\ Su!TaskWith(vs, raw, tree.timeout).ok
    BY <1>7, <2>1
  <2> HIDE DEF vs, raw
  <2> QED
    BY <2>2, TaskLoaded
<1>10. ASSUME NEW k \in DOMAIN rvs PROVE Judges(task.validators[k])
  <2>1. IsRaw(rvs[k])
    BY <1>8 DEF ToSet
  <2>2. Su!ResolveValidator(rvs[k], raw.answer).ok
        /\ task.validators[k] = Su!ResolveValidator(rvs[k], raw.answer).value
    BY <1>9
  <2> QED
    BY <2>1, <2>2, LoadedJudges
<1>11. DOMAIN task.validators = DOMAIN rvs
  BY <1>9
<1>12. DOMAIN rvs = 1 .. Len(rvs) /\ Len(rvs) \in Nat
  BY <1>8
<1>13. Len(task.validators) = Len(rvs)
  <2>1. task.validators = [k \in 1 .. Len(rvs) |-> vs[k].value]
    BY <1>9, <1>12
  <2> HIDE DEF rvs, vs
  <2> QED
    BY <1>12, <2>1
<1> QED
  BY <1>10, <1>11, <1>12, <1>13 DEF Judged

LEMMA JudgedSteps ==
    ASSUME [Next]_vars, command' = "validate"
    PROVE  command = "validate" /\ (UNCHANGED <<input, out, done>> \/ Load \/ Validate)
<1>1. \A c : Growing(c) \/ Given(c) \/ Answer(c) => command = c
  BY DEF Growing, Given, Answer
<1>2. UNCHANGED vars => UNCHANGED <<command, input, out, done>>
  BY DEF vars
<1>3. Load \/ Validate => command = "validate"
  BY <1>1 DEF Load, Validate
<1>4. ASSUME Change \/ Capture \/ OpenDatabase
      PROVE  UNCHANGED command /\ command \in {"changes", "capture", "migrate"}
  BY <1>4 DEF Change, Capture, OpenDatabase
<1>5. ASSUME ReportChanges \/ PrintLine \/ Trace \/ SayMessage \/ Snapshot \/ ShowCaptures
      PROVE  command \in {"changes", "trace", "usage", "snapshot"}
  BY <1>1, <1>5 DEF ReportChanges, PrintLine, Trace, SayMessage, Snapshot, ShowCaptures
<1>6. ASSUME \/ RecordRun \/ History \/ ShowRun \/ Compare \/ Leaderboard \/ Calibrate \/ Variance
      PROVE  command = "history"
  BY <1>1, <1>6 DEF RecordRun, History, ShowRun, Compare, Leaderboard, Calibrate, Variance
<1>7. ASSUME \/ ResolveArm \/ RecordCell \/ ShowCohorts \/ ExperimentShow \/ Report
             \/ ExportRuns \/ ShowProfile \/ AddSegment
      PROVE  command \in {"cohort", "globs"}
  BY <1>1, <1>7 DEF ResolveArm, RecordCell, ShowCohorts, ExperimentShow, Report,
     ExportRuns, ShowProfile, AddSegment
<1>8. ASSUME Next PROVE UNCHANGED command
  <2>1. \A c : Growing(c) \/ Given(c) \/ Answer(c) => UNCHANGED command
    BY DEF Growing, Given, Answer
  <2>2. CASE ReportChanges \/ PrintLine \/ Trace \/ SayMessage \/ Snapshot \/ ShowCaptures
    BY <2>1, <2>2 DEF ReportChanges, PrintLine, Trace, SayMessage, Snapshot, ShowCaptures
  <2>3. CASE RecordRun \/ History \/ ShowRun \/ Compare \/ Leaderboard \/ Calibrate \/ Variance
    BY <2>1, <2>3 DEF RecordRun, History, ShowRun, Compare, Leaderboard, Calibrate, Variance
  <2>4. CASE \/ ResolveArm \/ RecordCell \/ ShowCohorts \/ ExperimentShow \/ Report
             \/ ExportRuns \/ ShowProfile \/ AddSegment
    BY <2>1, <2>4 DEF ResolveArm, RecordCell, ShowCohorts, ExperimentShow, Report,
       ExportRuns, ShowProfile, AddSegment
  <2>5. CASE Load \/ Validate
    BY <2>1, <2>5 DEF Load, Validate
  <2>6. CASE Change \/ Capture \/ OpenDatabase
    BY <1>4, <2>6
  <2> QED
    BY <1>8, <2>2, <2>3, <2>4, <2>5, <2>6 DEF Next
<1>9. command = "validate"
  <2>1. UNCHANGED vars => UNCHANGED command
    BY <1>2
  <2> QED
    BY <1>8, <2>1
<1> QED
  BY <1>2, <1>4, <1>5, <1>6, <1>7, <1>9 DEF Next

LEMMA Loading ==
    ASSUME JudgedInv, command = "validate", Load
    PROVE  /\ input' \in Trees
           /\ ~done' /\ out' # <<>> => \A task \in ToSet(out'.suite.tasks) : Judged(task.validators)
           /\ ~(done' /\ out'.ok)
<1> DEFINE s == Su!Resolve(input.flag, input.home, input.embedded)
           loaded == [ok |-> TRUE, suite |-> s.value, hash |-> Su!SuiteHash(s.value),
                      timeouts |-> {Su!EffectiveTimeout(t, s.value) : t \in ToSet(s.value.tasks)}]
<1>1. input' \in Trees /\ input \in Trees
  BY DEF JudgedInv, Load
<1>2. loaded.suite = s.value
  OBVIOUS
<1>3. out' = (IF s.ok THEN loaded ELSE s) /\ done' = ~s.ok
  BY DEF Load
<1>4. s.ok => \A task \in ToSet(s.value.tasks) : Judged(task.validators)
  BY <1>1, LoadedTasksJudge
<1> HIDE DEF s, loaded
<1> QED
  BY <1>1, <1>2, <1>3, <1>4

LEMMA Judging ==
    ASSUME JudgedInv, command = "validate", Validate
    PROVE  input' \in Trees /\ done' /\ Fair(out')
<1>1. input' \in Trees /\ done' /\ ~done /\ out # <<>>
  BY DEF JudgedInv, Validate, Answer, Given
<1>2. PICK task \in ToSet(out.suite.tasks), ctx \in Worktrees, end \in Ends, onPath \in {{}, {"go"}} :
        \E started \in 0 .. Len(task.validators) :
           LET vs == task.validators
               results == T!RunValidators(vs, ctx, [i \in DOMAIN vs |-> end],
                                          T!Requirements(task.requires, onPath), started)
               cancelled == started < Len(vs)
               status == IF cancelled THEN "error"
                         ELSE IF T!ValidatorsFailed(results) THEN "failed" ELSE "passed"
               metrics == T!DerivedMetrics(status, ctx, [created |-> 0, deleted |-> 0],
                             Su!UnexpectedFiles(task.allow, ctx.changed), results)
           IN out' = [ok |-> TRUE, validators |-> vs, end |-> end, cancelled |-> cancelled,
                      results |-> results, metrics |-> metrics]
  BY DEF Validate
<1> DEFINE vs == task.validators
           missing == T!Requirements(task.requires, onPath)
           counts == [created |-> 0, deleted |-> 0]
           unexpected == Su!UnexpectedFiles(task.allow, ctx.changed)
<1>3. PICK started \in 0 .. Len(vs) :
        LET results == T!RunValidators(vs, ctx, [i \in DOMAIN vs |-> end], missing, started)
            cancelled == started < Len(vs)
            status == IF cancelled THEN "error"
                      ELSE IF T!ValidatorsFailed(results) THEN "failed" ELSE "passed"
        IN out' = [ok |-> TRUE, validators |-> vs, end |-> end, cancelled |-> cancelled,
                   results |-> results,
                   metrics |-> T!DerivedMetrics(status, ctx, counts, unexpected, results)]
  BY <1>2
<1>4. Judged(vs)
  BY <1>1, <1>2 DEF JudgedInv
<1> HIDE DEF vs, missing, counts, unexpected
<1>5. Fair(out')
  BY <1>3, <1>4, ResultsAreFair
<1> QED
  BY <1>1, <1>5

LEMMA JudgedAlways == Spec => []JudgedInv
<1>1. Init => JudgedInv
  <2> SUFFICES ASSUME Init, command = "validate" PROVE input \in Trees /\ out = <<>> /\ ~done
    BY DEF JudgedInv
  <2>1. EmptyInput["validate"] = Trees
    BY DEF EmptyInput
  <2>2. input \in EmptyInput["validate"] /\ out = <<>> /\ done = FALSE
    BY DEF Init
  <2> QED
    BY <2>1, <2>2
<1>2. JudgedInv /\ [Next]_vars => JudgedInv'
  <2> SUFFICES ASSUME JudgedInv, [Next]_vars, command' = "validate" PROVE JudgedInv'
    BY DEF JudgedInv
  <2>1. command = "validate" /\ (UNCHANGED <<input, out, done>> \/ Load \/ Validate)
    BY JudgedSteps
  <2>2. CASE UNCHANGED <<input, out, done>>
    BY <2>1, <2>2 DEF JudgedInv, Fair
  <2>3. CASE Load
    BY <2>1, <2>3, Loading DEF JudgedInv
  <2>4. CASE Validate
    BY <2>1, <2>4, Judging DEF JudgedInv
  <2> QED
    BY <2>1, <2>2, <2>3, <2>4
<1> QED
  BY <1>1, <1>2, PTL DEF Spec

(* What a run is scored on is the agent's work, whatever the suite, the    *)
(* worktree and the ends of the validators' commands: no mistake that      *)
(* loading finds is held against the agent, and a run that was not         *)
(* cancelled passes exactly if it has full marks, or none are given.       *)
THEOREM ScoredFairly == Spec => []ScoredOnItsWork
<1>1. JudgedInv => ScoredOnItsWork
  BY DEF JudgedInv, ScoredOnItsWork, Fair, Checked
<1> QED
  BY <1>1, JudgedAlways, PTL

(***************************************************************************)
(* Usage                                                                   *)
(***************************************************************************)

Usage == [messages : Int, calls : Int, failed : Int, cost : Int, tokens : [T!TokenFields -> Int]]

(* A message as it is added up.                                            *)
IsMessage(m) == m.cost \in Int /\ m.tools \in Seq(STRING) /\ m.tokens \in [T!TokenFields -> Int]

(* The usage of agent a, and with one more message.                        *)
Counted(a, r, m) == IF m.agent = a THEN T!AddRollups(r, T!RollupOf(m)) ELSE r

LEMMA AddIsUsage ==
    ASSUME NEW r \in Usage, NEW q \in Usage
    PROVE  /\ T!AddRollups(r, q) \in Usage
           /\ T!AddRollups(r, q).messages = r.messages + q.messages
           /\ T!AddRollups(r, q).tokens["total"] = r.tokens["total"] + q.tokens["total"]
<1>1. T!AddTokens(r.tokens, q.tokens) \in [T!TokenFields -> Int]
  BY DEF T!AddTokens, Usage
<1>2. T!AddTokens(r.tokens, q.tokens)["total"] = r.tokens["total"] + q.tokens["total"]
  BY DEF T!AddTokens, T!TokenFields
<1> QED
  BY <1>1, <1>2 DEF T!AddRollups, Usage

LEMMA NoUsage ==
    /\ T!EmptyRollup \in Usage
    /\ T!EmptyRollup.messages = 0 /\ T!EmptyRollup.tokens["total"] = 0
  BY DEF T!EmptyRollup, T!NoTokens, T!TokenFields, Usage

LEMMA OneIsUsage ==
    ASSUME NEW m, IsMessage(m)
    PROVE  /\ T!RollupOf(m) \in Usage
           /\ T!RollupOf(m).messages = 1 /\ T!RollupOf(m).tokens = m.tokens
<1> DEFINE bad == {i \in DOMAIN m.tools : m.tools[i] = "error"}
<1>1. DOMAIN m.tools = 1 .. Len(m.tools) /\ Len(m.tools) \in Nat
  BY DEF IsMessage
<1>2. Cardinality(bad) \in Nat
  <2>1. IsFiniteSet(1 .. Len(m.tools)) /\ bad \subseteq 1 .. Len(m.tools)
    BY <1>1, FS_Interval
  <2> HIDE DEF bad
  <2> QED
    BY <2>1, FS_Subset, FS_CardinalityType
<1>3. T!RollupOf(m) = [messages |-> 1, calls |-> Len(m.tools), failed |-> Cardinality(bad),
                       cost |-> m.cost, tokens |-> m.tokens]
  BY DEF T!RollupOf, Cardinality, T!Cardinality
<1> HIDE DEF bad
<1> QED
  BY <1>1, <1>2, <1>3 DEF Usage, IsMessage

LEMMA CountedIsUsage ==
    ASSUME NEW a, NEW r \in Usage, NEW m, IsMessage(m)
    PROVE  /\ Counted(a, r, m) \in Usage
           /\ Counted(a, r, m).messages = IF m.agent = a THEN r.messages + 1 ELSE r.messages
           /\ Counted(a, r, m).tokens["total"] = IF m.agent = a THEN r.tokens["total"] + m.tokens["total"]
                                                 ELSE r.tokens["total"]
<1>1. CASE m.agent = a
  <2>1. Counted(a, r, m) = T!AddRollups(r, T!RollupOf(m))
    BY <1>1 DEF Counted
  <2> QED
    BY <1>1, <2>1, AddIsUsage, OneIsUsage
<1>2. CASE m.agent # a
  BY <1>2 DEF Counted
<1> QED
  BY <1>1, <1>2

UsageOf(a, all) ==
    T!FoldLeft(LAMBDA r, m : IF m.agent = a THEN T!AddRollups(r, T!RollupOf(m)) ELSE r, T!EmptyRollup, all)

(* The usage of an agent, one message at a time.                           *)
LEMMA UsageSteps ==
    ASSUME NEW X, \A m \in X : IsMessage(m), NEW all \in Seq(X), NEW a
    PROVE  \E f \in [0 .. Len(all) -> Usage] :
             /\ f[0] = T!EmptyRollup /\ f[Len(all)] = UsageOf(a, all)
             /\ \A k \in 1 .. Len(all) : f[k] = Counted(a, f[k - 1], all[k])
<1> DEFINE n == Len(all)
           R == Usage
           base == T!EmptyRollup
           step == [p \in (1 .. n) \X R |-> Counted(a, p[2], all[p[1]])]
           Eq(g) == g = [s \in SUBSET (1 .. n) |->
                          IF s = {} THEN base ELSE Counted(a, g[s \ {Max(s)}], all[Max(s)])]
           it == CHOOSE g : Eq(g)
<1>1. n \in Nat /\ DOMAIN all = 1 .. n /\ \A i \in 1 .. n : IsMessage(all[i])
  <2>1. \A i \in 1 .. n : all[i] \in X
    OBVIOUS
  <2> QED
    BY <2>1
<1>2. UsageOf(a, all) = it[1 .. n]
  BY <1>1 DEF UsageOf, T!FoldLeft, T!MapThenFoldSet, Counted, T!Max, Max
<1>3. \A r \in R, k \in 1 .. n : Counted(a, r, all[k]) \in R
  BY <1>1, CountedIsUsage
<1>3a. base \in R
  BY NoUsage
<1> HIDE DEF base, R
<1>4. step \in [(1 .. n) \X R -> R]
  BY <1>1, <1>3
<1>6. \A k \in 1 .. n, r \in R : step[<<k, r>>] = Counted(a, r, all[k])
  OBVIOUS
<1>5. PICK f \in [SUBSET (1 .. n) -> R] : LastFold(f, n, R, base, step)
  <2> HIDE DEF step
  <2> QED
    BY <1>1, <1>3a, <1>4, PrefixFold
<1>7. ASSUME NEW s \in SUBSET (1 .. n), s # {}
      PROVE  f[s] = Counted(a, f[s \ {Max(s)}], all[Max(s)])
  <2>1. Max(s) \in 1 .. n /\ f[s \ {Max(s)}] \in R
    BY <1>1, <1>5, <1>7, MaxIsIn
  <2> QED
    BY <1>5, <1>6, <1>7, <2>1 DEF LastFold
<1>8. Eq(it)
  <2>1. Eq(f)
    BY <1>5, <1>7 DEF LastFold
  <2> QED
    BY <2>1
<1> HIDE DEF it, step
<1>9. LastFold(it, n, R, base, step)
  <2>1. ASSUME NEW s \in SUBSET (1 .. n), s # {}, it[s \ {Max(s)}] \in R
        PROVE  it[s] = step[<<Max(s), it[s \ {Max(s)}]>>]
    <3>1. Max(s) \in 1 .. n
      BY <1>1, <2>1, MaxIsIn
    <3>2. it[s] = Counted(a, it[s \ {Max(s)}], all[Max(s)])
      BY <1>8, <2>1
    <3> QED
      BY <1>6, <2>1, <3>1, <3>2
  <2>2. it[{}] = base
    BY <1>8
  <2> QED
    BY <2>1, <2>2 DEF LastFold
<1>10. PICK F : States(F, n, R, base, step, it[1 .. n])
  BY <1>1, <1>3a, <1>4, <1>9, FoldStates
<1>11. ASSUME NEW k \in 1 .. n PROVE F[k] = Counted(a, F[k - 1], all[k])
  <2>1. k - 1 \in 0 .. n
    BY <1>1
  <2> QED
    BY <1>6, <1>10, <2>1 DEF States
<1> QED
  BY <1>2, <1>10, <1>11 DEF R, States, base

TotalOf(all) == T!FoldLeft(LAMBDA n, m : n + m.tokens.total, 0, all)

(* The total, one message at a time.                                       *)
LEMMA TotalSteps ==
    ASSUME NEW X, \A m \in X : IsMessage(m), NEW all \in Seq(X)
    PROVE  \E f \in [0 .. Len(all) -> Int] :
             /\ f[0] = 0 /\ f[Len(all)] = TotalOf(all)
             /\ \A k \in 1 .. Len(all) : f[k] = f[k - 1] + all[k].tokens.total
<1> DEFINE n == Len(all)
           R == Int
           d(k) == all[k].tokens.total
           step == [p \in (1 .. n) \X R |-> p[2] + d(p[1])]
           Eq(g) == g = [s \in SUBSET (1 .. n) |-> IF s = {} THEN 0 ELSE g[s \ {Max(s)}] + d(Max(s))]
           it == CHOOSE g : Eq(g)
<1>1. n \in Nat /\ DOMAIN all = 1 .. n /\ \A i \in 1 .. n : d(i) \in Int
  <2>1. \A i \in 1 .. n : IsMessage(all[i])
    <3>1. \A i \in 1 .. n : all[i] \in X
      OBVIOUS
    <3> QED
      BY <3>1
  <2>2. \A m : IsMessage(m) => m.tokens.total \in Int
    BY DEF IsMessage, T!TokenFields
  <2> QED
    BY <2>1, <2>2
<1>2. TotalOf(all) = it[1 .. n]
  BY <1>1 DEF TotalOf, T!FoldLeft, T!MapThenFoldSet, T!Max, Max
<1> HIDE DEF d
<1>3. \A r \in R, k \in 1 .. n : r + d(k) \in R
  BY <1>1
<1>3a. 0 \in R
  OBVIOUS
<1> HIDE DEF R
<1>4. step \in [(1 .. n) \X R -> R]
  BY <1>1, <1>3
<1>6. \A k \in 1 .. n, r \in R : step[<<k, r>>] = r + d(k)
  OBVIOUS
<1>5. PICK f \in [SUBSET (1 .. n) -> R] : LastFold(f, n, R, 0, step)
  <2> HIDE DEF step
  <2> QED
    BY <1>1, <1>3a, <1>4, PrefixFold
<1>7. ASSUME NEW s \in SUBSET (1 .. n), s # {}
      PROVE  f[s] = f[s \ {Max(s)}] + d(Max(s))
  <2>1. Max(s) \in 1 .. n /\ f[s \ {Max(s)}] \in R
    BY <1>1, <1>5, <1>7, MaxIsIn
  <2> QED
    BY <1>5, <1>6, <1>7, <2>1 DEF LastFold
<1>8. Eq(it)
  <2>1. Eq(f)
    BY <1>5, <1>7 DEF LastFold
  <2> QED
    BY <2>1
<1> HIDE DEF it, step
<1>9. LastFold(it, n, R, 0, step)
  <2>1. ASSUME NEW s \in SUBSET (1 .. n), s # {}, it[s \ {Max(s)}] \in R
        PROVE  it[s] = step[<<Max(s), it[s \ {Max(s)}]>>]
    <3>1. Max(s) \in 1 .. n
      BY <1>1, <2>1, MaxIsIn
    <3>2. it[s] = it[s \ {Max(s)}] + d(Max(s))
      BY <1>8, <2>1
    <3> QED
      BY <1>6, <2>1, <3>1, <3>2
  <2>2. it[{}] = 0
    BY <1>8
  <2> QED
    BY <2>1, <2>2 DEF LastFold
<1>10. PICK F : States(F, n, R, 0, step, it[1 .. n])
  BY <1>1, <1>3a, <1>4, <1>9, FoldStates
<1>11. ASSUME NEW k \in 1 .. n PROVE F[k] = F[k - 1] + d(k)
  <2>1. k - 1 \in 0 .. n
    BY <1>1
  <2> QED
    BY <1>6, <1>10, <2>1 DEF States
<1> QED
  BY <1>2, <1>10, <1>11 DEF R, States, d

(* What agents of one name used is what each of them used.                 *)
MergesTo(A, rollups, names) ==
    /\ T!Merge(rollups, names).messages
         = SumFunctionOnSet([a \in A |-> rollups[a].messages], names)
    /\ T!Merge(rollups, names).tokens.total
         = SumFunctionOnSet([a \in A |-> rollups[a].tokens.total], names)

LEMMA MergeSums ==
    ASSUME NEW A, IsFiniteSet(A), NEW rollups, \A a \in A : rollups[a] \in Usage,
           NEW names \in SUBSET A
    PROVE  MergesTo(A, rollups, names)
<1> DEFINE v == [a \in A |-> rollups[a].messages]
           w == [a \in A |-> rollups[a].tokens.total]
           R == Usage
           base == T!EmptyRollup
           ch == [s \in SUBSET names |-> AnyOf(s)]
           step == [p \in names \X R |-> T!AddRollups(p[2], rollups[p[1]])]
           Eq(g) == g = [s \in SUBSET names |->
                          IF s = {} THEN base ELSE T!AddRollups(g[s \ {AnyOf(s)}], rollups[AnyOf(s)])]
           it == CHOOSE g : Eq(g)
<1>1. v \in [A -> Int] /\ w \in [A -> Int]
  <2>1. \A a \in A : rollups[a].messages \in Int /\ rollups[a].tokens.total \in Int
    BY DEF Usage, T!TokenFields
  <2> QED
    BY <2>1
<1>2. T!Merge(rollups, names) = it[names]
  BY DEF T!Merge, T!FoldSet, T!MapThenFoldSet, AnyOf
<1>3. Chooses(ch, names) /\ IsFiniteSet(names)
  BY FS_Subset DEF Chooses, AnyOf
<1>4. \A s \in SUBSET names : ch[s] = AnyOf(s)
  OBVIOUS
<1>5. \A r \in R, a \in names : T!AddRollups(r, rollups[a]) \in R
  BY AddIsUsage
<1>6. base \in R
  BY NoUsage
<1> HIDE DEF base, R, ch
<1>7. step \in [names \X R -> R]
  BY <1>5
<1>8. \A a \in names, r \in R : step[<<a, r>>] = T!AddRollups(r, rollups[a])
  OBVIOUS
<1> HIDE DEF step
<1>9. PICK f \in [SUBSET names -> R] : IsFold(f, names, base, step, ch)
  BY <1>3, <1>6, <1>7, FoldExists
<1>10. ASSUME NEW s \in SUBSET names, s # {}
       PROVE  f[s] = T!AddRollups(f[s \ {AnyOf(s)}], rollups[AnyOf(s)])
  <2>1. AnyOf(s) \in names /\ s \ {AnyOf(s)} \in SUBSET names
    BY <1>3, <1>4, <1>10 DEF Chooses
  <2>2. f[s] = step[<<AnyOf(s), f[s \ {AnyOf(s)}]>>]
    BY <1>4, <1>9, <1>10 DEF IsFold
  <2>3. f[s \ {AnyOf(s)}] \in R
    BY <1>9, <2>1
  <2> QED
    BY <1>8, <2>1, <2>2, <2>3
<1>11. f[{}] = base
  BY <1>9 DEF IsFold
<1>12. Eq(it)
  <2>1. Eq(f)
    BY <1>9, <1>10, <1>11
  <2> QED
    BY <2>1
<1> HIDE DEF it
<1>13. PICK V : IsSum(V, v, A)
  BY <1>1, SumOfAll
<1>14. PICK W : IsSum(W, w, A)
  BY <1>1, SumOfAll
<1> DEFINE Good == {s \in SUBSET names :
                      it[s] \in Usage /\ it[s].messages = V[s] /\ it[s].tokens["total"] = W[s]}
<1>15. {} \in Good
  <2>1. it[{}] = base
    BY <1>12
  <2>2. V[{}] = 0 /\ W[{}] = 0
    BY <1>13, <1>14 DEF IsSum, Sums
  <2> QED
    BY <2>1, <2>2, NoUsage DEF base
<1>16. ASSUME NEW s \in SUBSET names, s # {}, s \ {ch[s]} \in Good PROVE s \in Good
  <2> DEFINE a == AnyOf(s)
             q == it[s \ {a}]
  <2>1. a \in names /\ a \in A /\ ch[s] = a
    BY <1>3, <1>4, <1>16 DEF Chooses
  <2>2. it[s] = T!AddRollups(q, rollups[a])
    BY <1>12, <1>16
  <2>3. q \in Usage /\ q.messages = V[s \ {a}] /\ q.tokens["total"] = W[s \ {a}]
    BY <1>16, <2>1
  <2>4. V[s] = v[a] + V[s \ {a}] /\ W[s] = w[a] + W[s \ {a}]
    BY <1>13, <1>14, <1>16 DEF IsSum, Sums
  <2>5. v[a] = rollups[a].messages /\ w[a] = rollups[a].tokens["total"] /\ rollups[a] \in Usage
    BY <2>1
  <2>6. q.messages \in Int /\ q.tokens["total"] \in Int /\ v[a] \in Int /\ w[a] \in Int
    BY <1>1, <2>1, <2>3 DEF Usage, T!TokenFields
  <2> HIDE DEF a, q, v, w
  <2>7. /\ it[s] \in Usage /\ it[s].messages = q.messages + rollups[a].messages
        /\ it[s].tokens["total"] = q.tokens["total"] + rollups[a].tokens["total"]
    BY <2>2, <2>3, <2>5, AddIsUsage
  <2>8. it[s].messages = V[s] /\ it[s].tokens["total"] = W[s]
    BY <2>3, <2>4, <2>5, <2>6, <2>7
  <2> QED
    BY <1>16, <2>7, <2>8
<1>17. names \in Good
  <2>1. \A s \in SUBSET names : s # {} /\ s \ {ch[s]} \in Good => s \in Good
    BY <1>16
  <2> HIDE DEF Good
  <2> QED
    BY <1>3, <1>15, <2>1, FoldInduction
<1>18. SumFunctionOnSet(v, names) = V[names] /\ SumFunctionOnSet(w, names) = W[names]
  BY <1>13, <1>14 DEF IsSum
<1>19. it[names].messages = V[names] /\ it[names].tokens.total = W[names]
  BY <1>17
<1> HIDE DEF v, w, Good
<1>20. /\ T!Merge(rollups, names).messages = SumFunctionOnSet(v, names)
       /\ T!Merge(rollups, names).tokens.total = SumFunctionOnSet(w, names)
  BY <1>2, <1>18, <1>19
<1> QED
  BY <1>20 DEF v, w, MergesTo

(* The agents of a list of messages, and what each of them used.           *)
AgentsOf(all) == {all[i].agent : i \in DOMAIN all}
StepsOf(f, a, all) ==
    /\ f \in [0 .. Len(all) -> Usage] /\ f[0] = T!EmptyRollup /\ f[Len(all)] = UsageOf(a, all)
    /\ \A k \in 1 .. Len(all) : f[k] = Counted(a, f[k - 1], all[k])

LEMMA AgentsAddUp ==
    ASSUME NEW X, \A m \in X : IsMessage(m), NEW all \in Seq(X)
    PROVE  /\ IsFiniteSet(AgentsOf(all))
           /\ \A a \in AgentsOf(all) : UsageOf(a, all) \in Usage
           /\ SumFunctionOnSet([a \in AgentsOf(all) |-> UsageOf(a, all).messages], AgentsOf(all)) = Len(all)
           /\ SumFunctionOnSet([a \in AgentsOf(all) |-> UsageOf(a, all).tokens.total], AgentsOf(all))
                = TotalOf(all)
<1> DEFINE n == Len(all)
           A == AgentsOf(all)
           G == [a \in A |-> CHOOSE f : StepsOf(f, a, all)]
           of == [k \in 1 .. n |-> all[k].agent]
<1>1. n \in Nat /\ DOMAIN all = 1 .. n /\ \A i \in 1 .. n : IsMessage(all[i])
  <2>1. \A i \in 1 .. n : all[i] \in X
    OBVIOUS
  <2> QED
    BY <2>1
<1>2. of \in [1 .. n -> A] /\ \A k \in 1 .. n : of[k] = all[k].agent
  BY <1>1 DEF AgentsOf
<1>3. IsFiniteSet(A)
  <2> DEFINE I == 1 .. n
  <2>1. of \in Surjection(I, A)
    BY <1>1, <1>2 DEF AgentsOf, Surjection
  <2>2. IsFiniteSet(I)
    BY <1>1, FS_Interval
  <2> HIDE DEF I, A, of
  <2> QED
    BY <2>1, <2>2, FS_Surjection
<1>4. ASSUME NEW a \in A PROVE StepsOf(G[a], a, all)
  <2>1. PICK f \in [0 .. Len(all) -> Usage] :
             /\ f[0] = T!EmptyRollup /\ f[Len(all)] = UsageOf(a, all)
             /\ \A k \in 1 .. Len(all) : f[k] = Counted(a, f[k - 1], all[k])
    BY UsageSteps
  <2>2. StepsOf(f, a, all)
    BY <2>1 DEF StepsOf
  <2> QED
    BY <2>2
<1> HIDE DEF G, of
<1>5. \A a \in A : UsageOf(a, all) = G[a][n] /\ \A k \in 0 .. n : G[a][k] \in Usage
  BY <1>1, <1>4 DEF StepsOf
<1>6. ASSUME NEW a \in A
      PROVE  /\ G[a][0].messages = 0 /\ G[a][0].tokens["total"] = 0
             /\ \A k \in 1 .. n :
                  /\ G[a][k].messages = IF of[k] = a THEN G[a][k - 1].messages + 1 ELSE G[a][k - 1].messages
                  /\ G[a][k].tokens["total"] = IF of[k] = a THEN G[a][k - 1].tokens["total"] + all[k].tokens["total"]
                                               ELSE G[a][k - 1].tokens["total"]
  <2>1. G[a][0] = T!EmptyRollup
    BY <1>4 DEF StepsOf
  <2>2. ASSUME NEW k \in 1 .. n
        PROVE  /\ G[a][k] = Counted(a, G[a][k - 1], all[k]) /\ IsMessage(all[k])
               /\ G[a][k - 1] \in Usage /\ of[k] = all[k].agent
    <3>1. k - 1 \in 0 .. n
      BY <1>1
    <3> QED
      BY <1>1, <1>2, <1>4, <1>5, <3>1 DEF StepsOf
  <2>3. ASSUME NEW k \in 1 .. n
        PROVE  /\ G[a][k].messages = IF of[k] = a THEN G[a][k - 1].messages + 1 ELSE G[a][k - 1].messages
               /\ G[a][k].tokens["total"] = IF of[k] = a THEN G[a][k - 1].tokens["total"] + all[k].tokens["total"]
                                            ELSE G[a][k - 1].tokens["total"]
    <3> DEFINE r == G[a][k - 1]
               m == all[k]
    <3>1. G[a][k] = Counted(a, r, m) /\ IsMessage(m) /\ r \in Usage /\ of[k] = m.agent
      BY <2>2
    <3> HIDE DEF r, m
    <3>2. /\ G[a][k].messages = IF of[k] = a THEN r.messages + 1 ELSE r.messages
          /\ G[a][k].tokens["total"] = IF of[k] = a THEN r.tokens["total"] + m.tokens["total"]
                                       ELSE r.tokens["total"]
      BY <3>1, CountedIsUsage
    <3> QED
      BY <3>2 DEF r, m
  <2> QED
    BY <2>1, <2>3, NoUsage
<1>7. SumFunctionOnSet([a \in A |-> UsageOf(a, all).messages], A) = n
  <2> DEFINE share == [a \in A |-> [k \in 0 .. n |-> G[a][k].messages]]
             total == [k \in 0 .. n |-> k]
             d == [k \in 1 .. n |-> 1]
  <2>1. \A r \in Usage : r.messages \in Int
    BY DEF Usage
  <2>2. /\ \A k \in 1 .. n : of[k] \in A /\ d[k] \in Int
        /\ \A k \in 0 .. n : total[k] \in Int /\ \A a \in A : share[a][k] \in Int
    BY <1>2, <1>5, <2>1
  <2>3. Shares(share, total, n, of, d, A)
    <3>1. total[0] = 0 /\ \A a \in A : share[a][0] = 0
      BY <1>1, <1>6
    <3>2. ASSUME NEW k \in 1 .. n
          PROVE  /\ total[k] = total[k - 1] + d[k]
                 /\ \A a \in A : share[a][k] = IF of[k] = a THEN share[a][k - 1] + d[k] ELSE share[a][k - 1]
      <4>1. k - 1 \in 0 .. n /\ k \in 0 .. n
        BY <1>1
      <4> QED
        BY <1>6, <4>1
    <3> QED
      BY <1>1, <2>2, <3>1, <3>2 DEF Shares
  <2>4. \A a \in A : share[a][n] = UsageOf(a, all).messages
    BY <1>1, <1>5
  <2>5. total[n] = n
    BY <1>1
  <2> HIDE DEF share, total, d, n
  <2>6. SumFunctionOnSet([a \in A |-> share[a][n]], A) = total[n]
    BY <1>3, <2>3, SharesAddUp
  <2>7. [a \in A |-> share[a][n]] = [a \in A |-> UsageOf(a, all).messages]
    BY <2>4
  <2> QED
    BY <2>5, <2>6, <2>7
<1>8. SumFunctionOnSet([a \in A |-> UsageOf(a, all).tokens.total], A) = TotalOf(all)
  <2>1. PICK total :
          /\ total \in [0 .. n -> Int] /\ total[0] = 0 /\ total[n] = TotalOf(all)
          /\ \A k \in 1 .. n : total[k] = total[k - 1] + all[k].tokens.total
    BY TotalSteps
  <2> DEFINE share == [a \in A |-> [k \in 0 .. n |-> G[a][k].tokens["total"]]]
             d == [k \in 1 .. n |-> all[k].tokens["total"]]
  <2>2. \A r \in Usage : r.tokens["total"] \in Int
    BY DEF Usage, T!TokenFields
  <2>3. /\ \A k \in 1 .. n : of[k] \in A /\ d[k] \in Int
        /\ \A k \in 0 .. n : total[k] \in Int /\ \A a \in A : share[a][k] \in Int
    <3>1. \A k \in 1 .. n : d[k] \in Int
      BY <1>1 DEF IsMessage, T!TokenFields
    <3> QED
      BY <1>2, <1>5, <2>1, <2>2, <3>1
  <2>4. Shares(share, total, n, of, d, A)
    <3>1. total[0] = 0 /\ \A a \in A : share[a][0] = 0
      BY <1>1, <1>6, <2>1
    <3>2. ASSUME NEW k \in 1 .. n
          PROVE  /\ total[k] = total[k - 1] + d[k]
                 /\ \A a \in A : share[a][k] = IF of[k] = a THEN share[a][k - 1] + d[k] ELSE share[a][k - 1]
      <4>1. k - 1 \in 0 .. n /\ k \in 0 .. n
        BY <1>1
      <4>2. total[k] = total[k - 1] + d[k]
        BY <2>1
      <4> QED
        BY <1>6, <4>1, <4>2
    <3> QED
      BY <1>1, <2>3, <3>1, <3>2 DEF Shares
  <2>5. \A a \in A : share[a][n] = UsageOf(a, all).tokens.total
    BY <1>1, <1>5
  <2> HIDE DEF share, d, n
  <2>6. SumFunctionOnSet([a \in A |-> share[a][n]], A) = total[n]
    BY <1>3, <2>4, SharesAddUp
  <2>7. [a \in A |-> share[a][n]] = [a \in A |-> UsageOf(a, all).tokens.total]
    BY <2>5
  <2> QED
    BY <2>1, <2>6, <2>7
<1>9. \A a \in A : UsageOf(a, all) \in Usage
  <2>1. n \in 0 .. n
    BY <1>1
  <2> QED
    BY <1>5, <2>1
<1> QED
  BY <1>3, <1>7, <1>8, <1>9

(* The agents' usage adds up under their sanitised names as well.          *)
LEMMA NamesAddUp ==
    ASSUME NEW X, \A m \in X : IsMessage(m), NEW primary, NEW sessions, NEW sanitize,
           T!MessagesIn(primary \o sessions) \in Seq(X)
    PROVE  T!UsageAddsUp(primary, sessions, sanitize)
<1> DEFINE all == T!MessagesIn(primary \o sessions)
           A == AgentsOf(all)
           rollups == [a \in A |-> UsageOf(a, all)]
           key(a) == IF sanitize[a] = "" THEN "unknown" ELSE sanitize[a]
           K == {key(a) : a \in A}
           agents == T!SessionMetrics(primary, sessions, 0, 0, sanitize).agents
           keys == [a \in A |-> key(a)]
<1>1. T!Rollup(primary \o sessions) = rollups
  BY DEF T!Rollup, UsageOf, AgentsOf
<1>2. agents = [k \in K |-> T!Merge(rollups, {a \in A : key(a) = k})]
  <2> DEFINE ru == T!Rollup(primary \o sessions)
  <2>1. agents = [k \in {key(a) : a \in DOMAIN ru} |-> T!Merge(ru, {a \in DOMAIN ru : key(a) = k})]
    BY DEF T!SessionMetrics
  <2>2. ru = rollups /\ DOMAIN rollups = A
    BY <1>1
  <2> HIDE DEF agents, ru, rollups, key, A
  <2> QED
    BY <2>1, <2>2
<1>3. \A a \in A : keys[a] = key(a)
  OBVIOUS
<1> HIDE DEF agents, key
<1>4. keys \in Surjection(A, K)
  BY DEF Surjection
<1>5. /\ IsFiniteSet(A) /\ \A a \in A : UsageOf(a, all) \in Usage
      /\ SumFunctionOnSet([a \in A |-> UsageOf(a, all).messages], A) = Len(all)
      /\ SumFunctionOnSet([a \in A |-> UsageOf(a, all).tokens.total], A) = TotalOf(all)
  <2> DEFINE q == all
  <2>1. q \in Seq(X)
    OBVIOUS
  <2> HIDE DEF q
  <2>2. /\ IsFiniteSet(AgentsOf(q))
        /\ \A a \in AgentsOf(q) : UsageOf(a, q) \in Usage
        /\ SumFunctionOnSet([a \in AgentsOf(q) |-> UsageOf(a, q).messages], AgentsOf(q)) = Len(q)
        /\ SumFunctionOnSet([a \in AgentsOf(q) |-> UsageOf(a, q).tokens.total], AgentsOf(q)) = TotalOf(q)
    BY <2>1, AgentsAddUp
  <2> QED
    BY <2>2 DEF q
<1> HIDE DEF keys, K, A, all
<1>6. IsFiniteSet(K)
  BY <1>4, <1>5, FS_Surjection
<1> DEFINE w == [a \in A |-> rollups[a].messages]
           t == [a \in A |-> rollups[a].tokens.total]
           v == [k \in K |-> agents[k].messages]
           u == [k \in K |-> agents[k].tokens.total]
           named(k) == {a \in A : keys[a] = k}
<1>7. \A a \in A : rollups[a] = UsageOf(a, all) /\ rollups[a] \in Usage
  BY <1>5
<1>8. SumFunctionOnSet(w, A) = Len(all) /\ SumFunctionOnSet(t, A) = TotalOf(all)
  <2>1. w = [a \in A |-> UsageOf(a, all).messages] /\ t = [a \in A |-> UsageOf(a, all).tokens.total]
    BY <1>7
  <2> QED
    BY <1>5, <2>1
<1>9. w \in [A -> Int] /\ t \in [A -> Int]
  <2>1. \A r \in Usage : r.messages \in Int /\ r.tokens.total \in Int
    BY DEF Usage, T!TokenFields
  <2> QED
    BY <1>7, <2>1
<1> HIDE DEF rollups
<1>10. ASSUME NEW k \in K
       PROVE  v[k] = SumFunctionOnSet(w, named(k)) /\ u[k] = SumFunctionOnSet(t, named(k))
  <2> DEFINE names == {a \in A : key(a) = k}
  <2>1. agents[k] = T!Merge(rollups, names) /\ names = named(k) /\ names \in SUBSET A
    BY <1>2, <1>3
  <2> HIDE DEF names, named
  <2>a. IsFiniteSet(A) /\ (\A a \in A : rollups[a] \in Usage) /\ names \in SUBSET A
    BY <1>5, <1>7, <2>1
  <2>b. MergesTo(A, rollups, names)
    BY <2>a, MergeSums
  <2>2. /\ T!Merge(rollups, names).messages = SumFunctionOnSet(w, names)
        /\ T!Merge(rollups, names).tokens.total = SumFunctionOnSet(t, names)
    BY <2>b DEF MergesTo
  <2>3. v[k] = agents[k].messages /\ u[k] = agents[k].tokens.total
    OBVIOUS
  <2> HIDE DEF v, u, w, t
  <2> QED
    BY <2>1, <2>2, <2>3
<1>11. SumsParts(v, w, A, K, keys) /\ SumsParts(u, t, A, K, keys)
  <2>1. \A a \in A : keys[a] \in K
    BY <1>4 DEF Surjection
  <2> HIDE DEF v, u, w, t
  <2> QED
    BY <1>10, <2>1 DEF SumsParts
<1>12. v \in [K -> Int] /\ u \in [K -> Int]
  <2>1. ASSUME NEW k \in K PROVE agents[k].messages \in Int /\ agents[k].tokens.total \in Int
    <3>1. agents[k].messages = SumFunctionOnSet(w, named(k)) /\ agents[k].tokens.total = SumFunctionOnSet(t, named(k))
      BY <1>10
    <3>2. named(k) \in SUBSET A
      OBVIOUS
    <3> HIDE DEF w, t, named
    <3>3. SumFunctionOnSet(w, named(k)) \in Int
      BY <1>5, <1>9, <3>2, SumIsInt
    <3>4. SumFunctionOnSet(t, named(k)) \in Int
      BY <1>5, <1>9, <3>2, SumIsInt
    <3> QED
      BY <3>1, <3>3, <3>4
  <2> QED
    BY <2>1
<1>13. SumFunctionOnSet(v, K) = Len(all) /\ SumFunctionOnSet(u, K) = TotalOf(all)
  <2> HIDE DEF v, u, w, t
  <2>a. IsFiniteSet(A) /\ IsFiniteSet(K) /\ w \in [A -> Int] /\ v \in [K -> Int] /\ SumsParts(v, w, A, K, keys)
    BY <1>5, <1>6, <1>9, <1>11, <1>12
  <2>b. t \in [A -> Int] /\ u \in [K -> Int] /\ SumsParts(u, t, A, K, keys)
    BY <1>9, <1>11, <1>12
  <2>1. SumFunctionOnSet(v, K) = SumFunctionOnSet(w, A)
    BY <2>a, SumOfParts
  <2>2. SumFunctionOnSet(u, K) = SumFunctionOnSet(t, A)
    BY <2>a, <2>b, SumOfParts
  <2> QED
    BY <1>8, <2>1, <2>2
<1>14. DOMAIN agents = K
  BY <1>2
<1>15. /\ T!SumFunction([k \in DOMAIN agents |-> agents[k].messages]) = SumFunctionOnSet(v, K)
       /\ T!SumFunction([k \in DOMAIN agents |-> agents[k].tokens.total]) = SumFunctionOnSet(u, K)
  <2>1. \A f : T!SumFunction(f) = SumFunctionOnSet(f, DOMAIN f)
    BY DEF T!SumFunction, T!SumFunctionOnSet, T!FoldFunctionOnSet, T!MapThenFoldSet,
       SumFunctionOnSet, FoldFunctionOnSet, MapThenFoldSet
  <2>2. /\ DOMAIN v = K /\ DOMAIN u = K
        /\ [k \in DOMAIN agents |-> agents[k].messages] = v
        /\ [k \in DOMAIN agents |-> agents[k].tokens.total] = u
    BY <1>14
  <2> HIDE DEF v, u
  <2> QED
    BY <2>1, <2>2
<1>16. /\ T!SumFunction([k \in DOMAIN agents |-> agents[k].messages]) = Len(all)
       /\ T!SumFunction([k \in DOMAIN agents |-> agents[k].tokens.total]) = TotalOf(all)
  <2> HIDE DEF v, u
  <2> QED
    BY <1>13, <1>15
<1> QED
  BY <1>16 DEF T!UsageAddsUp, agents, all, TotalOf

(* Usage is read back under the name it was recorded for.                  *)
LEMMA ReadBack ==
    ASSUME NEW agents, NEW a \in DOMAIN agents
    PROVE  LET usages == H!AgentUsages(H!GetRunMetrics(H!UpsertMetrics(<<>>, 1, AgentMetrics(agents)), 1))
           IN /\ usages[<<a>>].tokens = agents[a].tokens.total
              /\ usages[<<a>>].messages = agents[a].messages
<1> DEFINE M == AgentMetrics(agents)
           N(f) == <<"agent", a, f>>
           fields == [messages |-> "messages", tool_calls |-> "calls",
                      tokens_total |-> "tokens", cost |-> "cost"]
           table == H!UpsertMetrics(<<>>, 1, M)
           back == H!GetRunMetrics(table, 1)
           usages == H!AgentUsages(back)
<1>1. /\ N("tokens_total") \in DOMAIN M /\ M[N("tokens_total")] = agents[a].tokens.total
      /\ N("messages") \in DOMAIN M /\ M[N("messages")] = agents[a].messages
  <2>1. "tokens_total" \in DOMAIN fields /\ "messages" \in DOMAIN fields /\ fields["messages"] = "messages"
    OBVIOUS
  <2> DEFINE D == {<<"agent", b, f>> : b \in DOMAIN agents, f \in DOMAIN fields}
             value(b, f) == IF f = "tokens_total" THEN agents[b].tokens.total ELSE agents[b][fields[f]]
  <2>2. M = [m \in D |-> value(m[2], m[3])]
    BY DEF AgentMetrics
  <2>3. N("tokens_total") \in D /\ N("messages") \in D
    BY <2>1
  <2>4. N("tokens_total")[2] = a /\ N("tokens_total")[3] = "tokens_total"
        /\ N("messages")[2] = a /\ N("messages")[3] = "messages"
    OBVIOUS
  <2>5. value(a, "tokens_total") = agents[a].tokens.total /\ value(a, "messages") = agents[a].messages
    BY <2>1
  <2> HIDE DEF D, value, M, N, fields
  <2> QED
    BY <2>2, <2>3, <2>4, <2>5
<1> HIDE DEF M, fields
<1>2. DOMAIN back = DOMAIN M /\ \A m \in DOMAIN M : back[m] = M[m]
  <2> DEFINE E == {1} \X DOMAIN M
  <2>1. DOMAIN <<>> = {}
    OBVIOUS
  <2>2. table = [k \in E |-> M[k[2]]]
    BY <2>1 DEF H!UpsertMetrics
  <2>3. back = [m \in {k[2] : k \in {j \in DOMAIN table : j[1] = 1}} |-> table[<<1, m>>]]
    BY DEF H!GetRunMetrics
  <2>4. DOMAIN table = E /\ \A m \in DOMAIN M : <<1, m>> \in E /\ table[<<1, m>>] = M[m]
    BY <2>2
  <2> HIDE DEF table
  <2>5. {k[2] : k \in {j \in DOMAIN table : j[1] = 1}} = DOMAIN M
    <3>1. {j \in DOMAIN table : j[1] = 1} = E
      BY <2>4
    <3>2. {k[2] : k \in E} = DOMAIN M
      <4>1. \A m \in DOMAIN M : <<1, m>> \in E /\ <<1, m>>[2] = m
        OBVIOUS
      <4>2. \A k \in E : k[2] \in DOMAIN M
        OBVIOUS
      <4> HIDE DEF E
      <4> QED
        BY <4>1, <4>2
    <3> QED
      BY <3>1, <3>2
  <2> HIDE DEF E, back
  <2> QED
    BY <2>3, <2>4, <2>5
<1> HIDE DEF back
<1>3. ASSUME NEW f
      PROVE  /\ N(f)[1] = "agent" /\ Len(N(f)) = 3 /\ H!Front(Tail(N(f))) = <<a>>
             /\ Append(<<"agent">> \o <<a>>, f) = N(f)
  <2>1. H!Front(<<a, f>>) = <<a>>
    <3>1. \A s : H!Front(s) = SubSeq(s, 1, Len(s) - 1)
      BY DEF H!Front
    <3>2. Len(<<a, f>>) = 2 /\ SubSeq(<<a, f>>, 1, 1) = <<a>>
      BY Triple
    <3> DEFINE q == <<a, f>>
    <3> HIDE DEF q
    <3>3. Len(q) - 1 = 1
      BY <3>2 DEF q
    <3>4. H!Front(q) = SubSeq(q, 1, 1)
      BY <3>1, <3>3
    <3> QED
      BY <3>2, <3>4 DEF q
  <2> QED
    BY <2>1, Triple
<1> DEFINE ofAgents == {m \in DOMAIN back : m[1] = "agent" /\ Len(m) > 2}
           usage(b, word) == LET m == Append(<<"agent">> \o b, word)
                             IN IF m \in ofAgents THEN back[m] ELSE 0
           B == {H!Front(Tail(m)) : m \in ofAgents}
<1>4. usages = [b \in B |-> [messages |-> usage(b, "messages"), calls |-> usage(b, "tool_calls"),
                             tokens |-> usage(b, "tokens_total"), cost |-> usage(b, "cost")]]
  BY DEF H!AgentUsages
<1>5. N("tokens_total") \in ofAgents /\ N("messages") \in ofAgents
  <2>1. N("tokens_total")[1] = "agent" /\ Len(N("tokens_total")) = 3
        /\ N("messages")[1] = "agent" /\ Len(N("messages")) = 3
    BY <1>3
  <2> HIDE DEF N
  <2>2. N("tokens_total") \in DOMAIN back /\ N("messages") \in DOMAIN back
    BY <1>1, <1>2
  <2>3. Len(N("tokens_total")) > 2 /\ Len(N("messages")) > 2
    BY <2>1
  <2> QED
    BY <2>1, <2>2, <2>3
<1>6. <<a>> \in B
  <2> HIDE DEF N, ofAgents
  <2>1. H!Front(Tail(N("messages"))) = <<a>>
    BY <1>3
  <2> QED
    BY <1>5, <2>1
<1>7. usage(<<a>>, "tokens_total") = agents[a].tokens.total /\ usage(<<a>>, "messages") = agents[a].messages
  <2>1. Append(<<"agent">> \o <<a>>, "tokens_total") = N("tokens_total")
        /\ Append(<<"agent">> \o <<a>>, "messages") = N("messages")
    <3> HIDE DEF N
    <3> QED
      BY <1>3
  <2> HIDE DEF N, ofAgents
  <2> QED
    BY <1>1, <1>2, <1>5, <2>1
<1> HIDE DEF usage, B, usages
<1>8. usages[<<a>>].tokens = agents[a].tokens.total /\ usages[<<a>>].messages = agents[a].messages
  BY <1>4, <1>6, <1>7
<1> QED
  BY <1>8 DEF usages, back, table, M

LEMMA ParsedTokens ==
    ASSUME NEW raw,
           \A f \in T!TokenFields : raw[f] \in IF f = "total" THEN Seq(Int) ELSE Int
    PROVE  T!ToTokens(raw) \in [T!TokenFields -> Int]
<1> DEFINE t == [f \in T!TokenFields |-> IF f = "total" THEN 0 ELSE T!NonNegative(raw[f])]
           sum == t["input"] + t["output"] + t["reasoning"] + t["read"]
           total == IF raw["total"] # <<>> THEN T!NonNegative(raw["total"][1]) ELSE sum
<1>1. t \in [T!TokenFields -> Int]
  BY DEF T!NonNegative
<1>2. sum \in Int
  BY <1>1 DEF T!TokenFields
<1>3. total \in Int
  <2>1. CASE raw["total"] # <<>>
    <3>1. raw["total"] \in Seq(Int)
      BY DEF T!TokenFields
    <3>2. raw["total"][1] \in Int
      BY <2>1, <3>1
    <3> QED
      BY <2>1, <3>2 DEF T!NonNegative
  <2>2. CASE raw["total"] = <<>>
    <3> HIDE DEF sum
    <3> QED
      BY <1>2, <2>2
  <2> QED
    BY <2>1, <2>2
<1>4. T!ToTokens(raw) = [t EXCEPT !.total = total]
  BY DEF T!ToTokens
<1> HIDE DEF t, total
<1> QED
  BY <1>1, <1>3, <1>4

ParsedMessage(m) == [m EXCEPT !.tokens = T!ToTokens(@)]
ParsedMessages == {ParsedMessage(m) : m \in Messages}

LEMMA ParsedAreMessages == \A m \in ParsedMessages : IsMessage(m)
<1> SUFFICES ASSUME NEW m \in Messages PROVE IsMessage(ParsedMessage(m))
  BY DEF ParsedMessages
<1> DEFINE t == T!ToTokens(m.tokens)
<1>1. /\ DOMAIN m = {"agent", "cost", "tokens", "tools"} /\ m.cost \in Int /\ m.tools \in Seq(STRING)
      /\ \A f \in T!TokenFields : m.tokens[f] \in IF f = "total" THEN Seq(Int) ELSE Int
  BY MessagesAssumption
<1>2. t \in [T!TokenFields -> Int]
  BY <1>1, ParsedTokens
<1>3. ParsedMessage(m) = [m EXCEPT !.tokens = t]
  BY DEF ParsedMessage
<1> HIDE DEF t
<1>4. ParsedMessage(m).cost = m.cost /\ ParsedMessage(m).tools = m.tools /\ ParsedMessage(m).tokens = t
  BY <1>1, <1>3
<1> QED
  BY <1>1, <1>2, <1>4 DEF IsMessage

LEMMA ParsedSession ==
    ASSUME NEW q \in Seq(Messages)
    PROVE  SessionOf(q).messages \in Seq(ParsedMessages)
<1> DEFINE all == [i \in DOMAIN q |-> ParsedMessage(q[i])]
           raw == [tokens |-> [T!NoTokens EXCEPT !.total = <<>>], messages |-> q]
<1>1. SessionOf(q) = T!ParseExport(raw)
  BY DEF SessionOf
<1>2. raw.messages = q
  OBVIOUS
<1> HIDE DEF raw
<1>3. T!ParseExport(raw).messages = [i \in DOMAIN raw.messages |-> ParsedMessage(raw.messages[i])]
  BY DEF T!ParseExport, ParsedMessage
<1>4. SessionOf(q).messages = all
  BY <1>1, <1>2, <1>3
<1>5. all \in Seq(ParsedMessages)
  BY DEF ParsedMessages
<1> QED
  BY <1>4, <1>5

(* The sessions of a usage are lists of messages.                          *)
UsageInv ==
    command = "usage" =>
       /\ input.primary \in Seq(Messages)
       /\ DOMAIN input = {"primary", "sessions"} /\ DOMAIN input.sessions = 1 .. 2
       /\ \A i \in 1 .. 2 : input.sessions[i] \in Seq(Messages)

LEMMA SaysMore ==
    ASSUME UsageInv, SayMessage
    PROVE  UsageInv'
<1>1. command = "usage" /\ command' = command
  BY DEF SayMessage, Growing, Given
<1>2. PICK m \in Messages :
        \/ input' = [input EXCEPT !.primary = Append(@, m)]
        \/ \E i \in 1 .. 2 : input' = [input EXCEPT !.sessions[i] = Append(@, m)]
  BY DEF SayMessage
<1>3. /\ input.primary \in Seq(Messages)
      /\ DOMAIN input = {"primary", "sessions"} /\ DOMAIN input.sessions = 1 .. 2
      /\ \A i \in 1 .. 2 : input.sessions[i] \in Seq(Messages)
  BY <1>1 DEF UsageInv
<1>4. CASE input' = [input EXCEPT !.primary = Append(@, m)]
  <2>1. /\ input'.primary = Append(input.primary, m) /\ input'.sessions = input.sessions
        /\ DOMAIN input' = DOMAIN input
    BY <1>3, <1>4
  <2>2. Append(input.primary, m) \in Seq(Messages)
    BY <1>3
  <2> QED
    BY <1>3, <2>1, <2>2 DEF UsageInv
<1>5. ASSUME NEW i \in 1 .. 2, input' = [input EXCEPT !.sessions[i] = Append(@, m)] PROVE UsageInv'
  <2>1. /\ input'.primary = input.primary /\ DOMAIN input' = DOMAIN input
        /\ input'.sessions = [input.sessions EXCEPT ![i] = Append(@, m)]
    BY <1>3, <1>5
  <2>2. Append(input.sessions[i], m) \in Seq(Messages)
    BY <1>3
  <2>3. /\ DOMAIN input'.sessions = 1 .. 2
        /\ \A j \in 1 .. 2 : input'.sessions[j] \in Seq(Messages)
    BY <1>3, <2>1, <2>2
  <2> QED
    BY <1>3, <2>1, <2>3 DEF UsageInv
<1> QED
  BY <1>2, <1>4, <1>5

LEMMA UsageAlways == Spec => []UsageInv
<1>1. Init => UsageInv
  <2> SUFFICES ASSUME Init, command = "usage"
               PROVE  input = [primary |-> <<>>, sessions |-> <<<<>>, <<>>>>]
    <3> DEFINE none == <<<<>>, <<>>>>
    <3>1. DOMAIN none = 1 .. 2 /\ \A i \in 1 .. 2 : none[i] = <<>>
      OBVIOUS
    <3>2. <<>> \in Seq(Messages)
      OBVIOUS
    <3> DEFINE in == [primary |-> <<>>, sessions |-> none]
    <3>3. in.primary = <<>> /\ in.sessions = none /\ DOMAIN in = {"primary", "sessions"}
      OBVIOUS
    <3> SUFFICES ASSUME command = "usage" => input = in PROVE command = "usage" => UsageInv
      BY DEF UsageInv
    <3> HIDE DEF in, none
    <3> QED
      BY <3>1, <3>2, <3>3 DEF UsageInv
  <2>1. EmptyInput["usage"] = {[primary |-> <<>>, sessions |-> <<<<>>, <<>>>>]}
    BY DEF EmptyInput
  <2> QED
    BY <2>1 DEF Init
<1>2. UsageInv /\ [Next]_vars => UsageInv'
  <2> SUFFICES ASSUME UsageInv, [Next]_vars, command' = "usage" PROVE UsageInv'
    BY DEF UsageInv
  <2>1. command = "usage" /\ (input' = input \/ SayMessage)
    <3>1. \A c : Growing(c) \/ Given(c) => command = c
      BY DEF Growing, Given
    <3>2. PrintLine => command = "trace"
      BY <3>1 DEF PrintLine
    <3>3. RecordRun => command = "history"
      BY <3>1 DEF RecordRun
    <3>4. Snapshot => command = "snapshot"
      BY <3>1 DEF Snapshot
    <3>5. AddSegment => command = "globs"
      BY <3>1 DEF AddSegment
    <3>6. RecordCell => command = "cohort"
      BY <3>1 DEF RecordCell
    <3> QED
      BY <3>2, <3>3, <3>4, <3>5, <3>6, InputSteps
  <2>2. CASE input' = input
    BY <2>1, <2>2 DEF UsageInv
  <2>3. CASE SayMessage
    BY <2>3, SaysMore
  <2> QED
    BY <2>1, <2>2, <2>3
<1> QED
  BY <1>1, <1>2, PTL DEF Spec

(* Nothing an agent used is lost, counted twice or read back under another *)
(* name, whatever was said in the sessions and however names are made fit. *)
THEOREM UsageIsKept == Spec => []UsageAddsUp
<1>1. UsageInv => UsageAddsUp
  <2> SUFFICES ASSUME UsageInv, command = "usage" PROVE UsageAddsUp
    BY DEF UsageAddsUp
  <2> DEFINE primary == IF input.primary = <<>> THEN <<>> ELSE <<SessionOf(input.primary)>>
             sessions == [i \in 1 .. 2 |-> SessionOf(input.sessions[i])]
             Y == {SessionOf(q) : q \in Seq(Messages)}
             ss == primary \o sessions
             agents == T!SessionMetrics(primary, sessions, 0, 0, Sanitize).agents
  <2>1. input.primary \in Seq(Messages) /\ \A i \in 1 .. 2 : input.sessions[i] \in Seq(Messages)
    BY DEF UsageInv
  <2>2. \A s \in Y : s.messages \in Seq(ParsedMessages)
    BY ParsedSession
  <2>3. primary \in Seq(Y) /\ sessions \in Seq(Y)
    <3>1. SessionOf(input.primary) \in Y /\ \A i \in 1 .. 2 : SessionOf(input.sessions[i]) \in Y
      BY <2>1
    <3> HIDE DEF Y
    <3> QED
      BY <3>1
  <2> HIDE DEF Y, primary, sessions
  <2>4. ss \in Seq(Y)
    BY <2>3
  <2>5. T!MessagesIn(ss) \in Seq(ParsedMessages)
    <3> DEFINE q == [i \in DOMAIN ss |-> ss[i].messages]
    <3> HIDE DEF ss
    <3>1. q \in Seq(Seq(ParsedMessages))
      BY <2>2, <2>4
    <3>2. T!MessagesIn(ss) = T!FlattenSeq(q)
      BY DEF T!MessagesIn
    <3> HIDE DEF q
    <3>3. T!FlattenSeq(q) = FlattenSeq(q)
      BY DEF T!FlattenSeq, FlattenSeq
    <3> QED
      BY <3>1, <3>2, <3>3, FlattenTyped
  <2>6. T!UsageAddsUp(primary, sessions, Sanitize)
    BY <2>5, ParsedAreMessages, NamesAddUp
  <2> HIDE DEF agents
  <2>7. ASSUME NEW a \in DOMAIN agents
        PROVE  LET usages == H!AgentUsages(H!GetRunMetrics(H!UpsertMetrics(<<>>, 1, AgentMetrics(agents)), 1))
               IN /\ usages[<<a>>].tokens = agents[a].tokens.total
                  /\ usages[<<a>>].messages = agents[a].messages
    BY ReadBack
  <2> QED
    BY <2>6, <2>7 DEF UsageAddsUp, agents, primary, sessions
<1> QED
  BY <1>1, UsageAlways, PTL

(***************************************************************************)
(* The trace and the metrics                                               *)
(***************************************************************************)

Tokens == [T!TokenFields -> Int]
IsEvent(e) ==
    LET p == e.part
    IN /\ e.type \in STRING /\ e.ts \in Int
       /\ p.ok \in BOOLEAN /\ p.verifies \in BOOLEAN
       /\ p.type \in STRING /\ p.tool \in STRING /\ p.status \in STRING
       /\ p.file \in STRING /\ p.session \in STRING /\ p.text \in STRING
       /\ p.tokens \in Seq(Tokens) /\ p.cost \in Seq(Int)
Events == {l.event : l \in {k \in Lines : k.json}}

LEMMA EventsAreEvents == \A e \in Events : IsEvent(e)
BY LinesAssumption DEF Events, IsEvent, Tokens

Text == STRING \cup {""}
ToolCall == [tool : STRING, status : Text, child : Text]
Step == [tokens : Tokens, cost : Int, retries : Nat, compactions : Int,
         tools : Seq(ToolCall), first : Int, last : Int]

LEMMA NewIsStep ==
    ASSUME NEW ts \in Int
    PROVE  LET s == T!NewStep(ts)
           IN s \in Step /\ s.tools = <<>> /\ s.retries = 0 /\ s.tokens.total = 0
<1>1. T!NoTokens \in Tokens /\ T!NoTokens.total = 0
  BY DEF T!NoTokens, Tokens, T!TokenFields
<1>2. <<>> \in Seq(ToolCall)
  OBVIOUS
<1> QED
  BY <1>1, <1>2 DEF T!NewStep, Step

LEMMA StepTokens ==
    ASSUME NEW tokens \in Seq(Tokens)
    PROVE  /\ T!ToSessionTokens(tokens) \in Tokens
           /\ tokens # <<>> /\ tokens[1].total > 0
              => T!ToSessionTokens(tokens).total = tokens[1].total
<1>1. CASE tokens = <<>>
  BY <1>1 DEF T!ToSessionTokens, T!NoTokens, Tokens
<1>2. CASE tokens # <<>>
  <2> DEFINE t == tokens[1]
  <2>1. t \in Tokens
    BY <1>2
  <2> HIDE DEF t
  <2>2. t.total \in Int /\ t.input + t.output + t.reasoning + t.read \in Int
    BY <2>1 DEF Tokens, T!TokenFields
  <2>3. T!ToSessionTokens(tokens)
          = [t EXCEPT !.total = IF @ = 0 THEN t.input + t.output + t.reasoning + t.read ELSE @]
    BY <1>2 DEF T!ToSessionTokens, t
  <2>4. T!ToSessionTokens(tokens) \in Tokens
    BY <2>1, <2>2, <2>3 DEF Tokens, T!TokenFields
  <2>5. t.total > 0 => T!ToSessionTokens(tokens).total = t.total
    BY <2>1, <2>2, <2>3 DEF Tokens, T!TokenFields
  <2> QED
    BY <2>4, <2>5 DEF t
<1> QED
  BY <1>1, <1>2

(* What an event makes of the step it falls into.                          *)
StepTo(e, s, t) ==
    /\ t.tools = IF e.type = "tool_use" THEN Append(s.tools, T!BuildTool(e.part)) ELSE s.tools
    /\ t.retries = s.retries
         + (IF e.type \notin {"tool_use", "step_finish"} /\ e.part.type = "retry" THEN 1 ELSE 0)
    /\ t.tokens = IF e.type = "step_finish" THEN T!ToSessionTokens(e.part.tokens) ELSE s.tokens

LEMMA ToolIsCall ==
    ASSUME NEW e, IsEvent(e)
    PROVE  T!BuildTool(e.part) \in ToolCall
<1> DEFINE p == e.part
           st == IF T!Decodes(p, T!TraceState) THEN p.status ELSE ""
           names == p.tool = "task" /\ T!Decodes(p, T!TraceState \cup {"session"})
           ch == IF names THEN p.session ELSE ""
<1>1. p.tool \in STRING /\ p.status \in STRING /\ p.session \in STRING
  BY DEF IsEvent
<1>2. st \in Text /\ ch \in Text
  BY <1>1 DEF Text
<1>3. T!BuildTool(p) = [tool |-> p.tool, status |-> st, child |-> ch]
  BY DEF T!BuildTool
<1> HIDE DEF st, ch
<1> QED
  BY <1>1, <1>2, <1>3 DEF ToolCall

LEMMA PutLast ==
    ASSUME NEW X, NEW q \in Seq(X), NEW s \in X, NEW t \in X
    PROVE  [Append(q, s) EXCEPT ![Len(q) + 1] = t] = Append(q, t)
<1> DEFINE n == Len(q) + 1
           a == Append(q, s)
           c == [a EXCEPT ![n] = t]
           d == Append(q, t)
<1>1. /\ a \in Seq(X) /\ Len(a) = n /\ \A i \in 1 .. n : i # n => a[i] = q[i]
      /\ d \in Seq(X) /\ Len(d) = n /\ d[n] = t /\ \A i \in 1 .. n : i # n => d[i] = q[i]
      /\ n \in Nat
  OBVIOUS
<1> HIDE DEF a, d, n
<1>2. DOMAIN a = 1 .. n /\ d = [i \in 1 .. n |-> d[i]]
  BY <1>1
<1>3. c = [i \in 1 .. n |-> IF i = n THEN t ELSE a[i]]
  BY <1>1, <1>2
<1> HIDE DEF c
<1>4. c = d
  BY <1>1, <1>2, <1>3
<1> QED
  BY <1>4 DEF a, c, d, n

(* An event leaves the steps alone, begins a new one or falls into the     *)
(* last.                                                                   *)
LEMMA BuildsOn ==
    ASSUME NEW steps \in Seq(Step), NEW e, IsEvent(e)
    PROVE  LET b == T!BuildStep(steps, e)
           IN \/ /\ b = steps
                 /\ ~e.part.ok \/ e.type \notin {"step_start", "tool_use", "step_finish"}
              \/ e.part.ok /\ e.type = "step_start" /\ b = Append(steps, T!NewStep(e.ts))
              \/ /\ e.part.ok /\ e.type # "step_start"
                 /\ \E front \in Seq(Step), s, t \in Step :
                      /\ T!Ensure(steps, e.ts) = Append(front, s)
                      /\ b = Append(front, t) /\ StepTo(e, s, t)
<1> DEFINE p == e.part
           open == T!Ensure(steps, e.ts)
           n == Len(open)
           at == [open EXCEPT ![n].first = IF e.ts < @ THEN e.ts ELSE @,
                              ![n].last = IF e.ts > @ THEN e.ts ELSE @]
           b == T!BuildStep(steps, e)
           front == SubSeq(open, 1, n - 1)
           s == open[n]
<1>1. e.ts \in Int /\ p.ok \in BOOLEAN
  BY DEF IsEvent
<1>2. open \in Seq(Step) /\ n \in Nat /\ n # 0
  <2>1. CASE steps = <<>>
    BY <1>1, <2>1, NewIsStep DEF T!Ensure
  <2>2. CASE steps # <<>>
    BY <2>2 DEF T!Ensure
  <2> QED
    BY <2>1, <2>2
<1>3. b = IF ~p.ok THEN steps
          ELSE CASE e.type = "step_start" -> Append(steps, T!NewStep(e.ts))
                 [] e.type = "tool_use" -> [at EXCEPT ![n].tools = Append(@, T!BuildTool(p))]
                 [] e.type = "step_finish" ->
                      [at EXCEPT ![n].tokens = T!ToSessionTokens(p.tokens),
                                 ![n].cost = IF p.cost = <<>> THEN @ ELSE p.cost[1]]
                 [] OTHER -> IF p.type \notin {"retry", "compaction"} THEN steps
                             ELSE [at EXCEPT ![n].retries = @ + T!Count(p.type = "retry"),
                                             ![n].compactions = @ + T!Count(p.type = "compaction")]
  BY DEF T!BuildStep
<1> DEFINE u == [s EXCEPT !.first = IF e.ts < @ THEN e.ts ELSE @,
                          !.last = IF e.ts > @ THEN e.ts ELSE @]
<1>4. s \in Step /\ front \in Seq(Step) /\ Len(front) = n - 1 /\ open = Append(front, s)
  BY <1>2
<1>5. u \in Step /\ u.tools = s.tools /\ u.retries = s.retries /\ u.tokens = s.tokens
  BY <1>1, <1>4 DEF Step
<1>6. at = [open EXCEPT ![n] = u]
  BY <1>2
<1>7. ASSUME NEW t PROVE [open EXCEPT ![n] = t] = Append(front, t)
  BY <1>2, <1>4
<1>8. at = Append(front, u) /\ Len(at) = n /\ at[n] = u
  <2>1. at = Append(front, u)
    BY <1>6, <1>7
  <2> HIDE DEF at, front, s, u
  <2>2. Len(Append(front, u)) = Len(front) + 1 /\ Append(front, u)[Len(front) + 1] = u
    BY <1>4, <1>5
  <2> QED
    BY <1>2, <1>4, <2>1, <2>2
<1>9a. n = Len(front) + 1
  BY <1>2, <1>4
<1> HIDE DEF open, n, at, front, s, u, b
<1>9. ASSUME NEW t \in Step PROVE [at EXCEPT ![n] = t] = Append(front, t)
  BY <1>4, <1>5, <1>8, <1>9, <1>9a, PutLast
<1>10. ASSUME ~p.ok PROVE b = steps
  BY <1>3, <1>10
<1>11. ASSUME p.ok /\ e.type = "step_start" PROVE b = Append(steps, T!NewStep(e.ts))
  BY <1>3, <1>11
<1> DEFINE Falls == \E f \in Seq(Step), x, t \in Step :
                      open = Append(f, x) /\ b = Append(f, t) /\ StepTo(e, x, t)
<1>12. ASSUME NEW t \in Step, b = Append(front, t), StepTo(e, s, t) PROVE Falls
  BY <1>4, <1>12
<1>13. ASSUME p.ok /\ e.type = "tool_use" PROVE Falls
  <2> DEFINE t == [u EXCEPT !.tools = Append(@, T!BuildTool(p))]
  <2>1. b = [at EXCEPT ![n] = t]
    <3>1. b = [at EXCEPT ![n].tools = Append(@, T!BuildTool(p))]
      BY <1>3, <1>13
    <3>2. at = Append(front, u) /\ at[n] = u /\ n = Len(front) + 1 /\ front \in Seq(Step)
      BY <1>4, <1>8, <1>9a
    <3> HIDE DEF p
    <3> QED
      BY <3>1, <3>2
  <2>2. t \in Step
    <3>1. T!BuildTool(p) \in ToolCall
      BY ToolIsCall
    <3>2. u.tools \in Seq(ToolCall)
      BY <1>5 DEF Step
    <3>3. Append(u.tools, T!BuildTool(p)) \in Seq(ToolCall)
      BY <3>1, <3>2
    <3> QED
      BY <1>5, <3>3 DEF Step
  <2>3. StepTo(e, s, t)
    <3>1. /\ t.tools = Append(u.tools, T!BuildTool(p))
          /\ t.retries = u.retries /\ t.tokens = u.tokens /\ s.retries \in Nat
      BY <1>4, <1>5 DEF Step
    <3>2. u.tools = s.tools /\ u.retries = s.retries /\ u.tokens = s.tokens
      BY <1>5
    <3>3. e.type = "tool_use" /\ p = e.part
      BY <1>13
    <3> HIDE DEF t, p
    <3> QED
      BY <3>1, <3>2, <3>3 DEF StepTo
  <2>4. b = Append(front, t)
    BY <1>9, <2>1, <2>2
  <2> HIDE DEF t, Falls
  <2> QED
    BY <1>12, <2>2, <2>3, <2>4
<1>14. ASSUME p.ok /\ e.type = "step_finish" PROVE Falls
  <2> DEFINE t == [u EXCEPT !.tokens = T!ToSessionTokens(p.tokens),
                            !.cost = IF p.cost = <<>> THEN @ ELSE p.cost[1]]
  <2>1. b = [at EXCEPT ![n] = t]
    <3>1. b = [at EXCEPT ![n].tokens = T!ToSessionTokens(p.tokens),
                         ![n].cost = IF p.cost = <<>> THEN @ ELSE p.cost[1]]
      BY <1>3, <1>14
    <3>2. at = Append(front, u) /\ at[n] = u /\ n = Len(front) + 1 /\ front \in Seq(Step)
      BY <1>4, <1>8, <1>9a
    <3> HIDE DEF p
    <3> QED
      BY <3>1, <3>2
  <2>2. t \in Step
    <3>1. p.tokens \in Seq(Tokens) /\ p.cost \in Seq(Int)
      BY DEF IsEvent
    <3>2. T!ToSessionTokens(p.tokens) \in Tokens
      BY <3>1, StepTokens
    <3>3. p.cost # <<>> => p.cost[1] \in Int
      BY <3>1
    <3> HIDE DEF p
    <3> QED
      BY <1>5, <3>2, <3>3 DEF Step
  <2>3. StepTo(e, s, t)
    <3>1. /\ t.tokens = T!ToSessionTokens(p.tokens)
          /\ t.retries = u.retries /\ t.tools = u.tools /\ s.retries \in Nat
      BY <1>4, <1>5 DEF Step
    <3> HIDE DEF t
    <3> QED
      BY <1>5, <1>14, <3>1 DEF StepTo
  <2>4. b = Append(front, t)
    BY <1>9, <2>1, <2>2
  <2> HIDE DEF t, Falls
  <2> QED
    BY <1>12, <2>2, <2>3, <2>4
<1>15. ASSUME p.ok /\ e.type \notin {"step_start", "tool_use", "step_finish"},
              p.type \in {"retry", "compaction"}
       PROVE  Falls
  <2> DEFINE t == [u EXCEPT !.retries = @ + T!Count(p.type = "retry"),
                            !.compactions = @ + T!Count(p.type = "compaction")]
  <2>1. b = [at EXCEPT ![n] = t]
    <3>1. b = [at EXCEPT ![n].retries = @ + T!Count(p.type = "retry"),
                         ![n].compactions = @ + T!Count(p.type = "compaction")]
      BY <1>3, <1>15
    <3>2. at = Append(front, u) /\ at[n] = u /\ n = Len(front) + 1 /\ front \in Seq(Step)
      BY <1>4, <1>8, <1>9a
    <3> HIDE DEF p
    <3> QED
      BY <3>1, <3>2
  <2>2. t \in Step
    <3>1. T!Count(p.type = "retry") \in Nat /\ T!Count(p.type = "compaction") \in Nat
      BY DEF T!Count
    <3>2. u.retries \in Nat /\ u.compactions \in Int
      BY <1>5 DEF Step
    <3>3. /\ u.retries + T!Count(p.type = "retry") \in Nat
          /\ u.compactions + T!Count(p.type = "compaction") \in Int
      BY <3>1, <3>2
    <3> HIDE DEF p
    <3> QED
      BY <1>5, <3>3 DEF Step
  <2>3. StepTo(e, s, t)
    <3>1. /\ t.retries = u.retries + T!Count(p.type = "retry")
          /\ t.tokens = u.tokens /\ t.tools = u.tools
      BY <1>5 DEF Step
    <3> HIDE DEF t
    <3> QED
      BY <1>5, <1>15, <3>1 DEF StepTo, T!Count
  <2>4. b = Append(front, t)
    BY <1>9, <2>1, <2>2
  <2> HIDE DEF t, Falls
  <2> QED
    BY <1>12, <2>2, <2>3, <2>4
<1>16. ASSUME p.ok /\ e.type \notin {"step_start", "tool_use", "step_finish"},
              p.type \notin {"retry", "compaction"}
       PROVE  b = steps
  BY <1>3, <1>16
<1> HIDE DEF p, Falls
<1>17. \/ b = steps /\ (~p.ok \/ e.type \notin {"step_start", "tool_use", "step_finish"})
       \/ p.ok /\ e.type = "step_start" /\ b = Append(steps, T!NewStep(e.ts))
       \/ p.ok /\ e.type # "step_start" /\ Falls
  BY <1>10, <1>11, <1>13, <1>14, <1>15, <1>16
<1> QED
  BY <1>17 DEF Falls, b, open, p

LEMMA JoinAppend ==
    ASSUME NEW X, NEW c \in Seq(X), NEW d \in Seq(X), NEW x \in X
    PROVE  c \o Append(d, x) = Append(c \o d, x)
OBVIOUS

(* What the steps tell.                                                    *)
Calls(steps) == T!FlattenSeq([i \in DOMAIN steps |-> steps[i].tools])
Retries(steps) == T!SumFunction([i \in DOMAIN steps |-> steps[i].retries])
Total(steps) == T!SumFunction([i \in DOMAIN steps |-> steps[i].tokens.total])
Ended(steps) == {i \in DOMAIN steps : steps[i].tokens.total > 0}

LEMMA OneFlatten == \A q : T!FlattenSeq(q) = FlattenSeq(q)
BY DEF T!FlattenSeq, FlattenSeq

LEMMA OneSum == \A f : T!SumFunction(f) = SumFunctionOnSet(f, DOMAIN f)
BY DEF T!SumFunction, T!SumFunctionOnSet, SumFunctionOnSet, T!FoldFunctionOnSet, FoldFunctionOnSet,
       T!MapThenFoldSet, MapThenFoldSet

LEMMA CallsOfNone == Calls(<<>>) = <<>>
<1>1. DOMAIN <<>> = {}
  OBVIOUS
<1>2. [i \in DOMAIN <<>> |-> <<>>[i].tools] = <<>>
  BY <1>1
<1> QED
  BY <1>2, OneFlatten, FlattenNone DEF Calls

LEMMA NoneTold == Retries(<<>>) = 0 /\ Total(<<>>) = 0 /\ Cardinality(Ended(<<>>)) = 0
<1>1. DOMAIN <<>> = {} /\ 1 .. 0 = {}
  OBVIOUS
<1> DEFINE w == [i \in DOMAIN <<>> |-> <<>>[i].retries]
           v == [i \in DOMAIN <<>> |-> <<>>[i].tokens.total]
<1>2. w \in [1 .. 0 -> Int] /\ v \in [1 .. 0 -> Int] /\ DOMAIN w = 1 .. 0 /\ DOMAIN v = 1 .. 0
  BY <1>1
<1>3. Ended(<<>>) = {}
  BY <1>1 DEF Ended
<1>4. Retries(<<>>) = SumFunctionOnSet(w, DOMAIN w) /\ Total(<<>>) = SumFunctionOnSet(v, DOMAIN v)
  BY OneSum DEF Retries, Total
<1> HIDE DEF w, v
<1>5. Retries(<<>>) = 0 /\ Total(<<>>) = 0
  BY <1>2, <1>4, SumOfNone
<1> QED
  BY <1>3, <1>5, FS_EmptySet

(* The calls, after a step more and after a change of the last step.       *)
LEMMA CallsGrow ==
    ASSUME NEW steps \in Seq(Step), NEW s \in Step
    PROVE  /\ Calls(steps) \in Seq(ToolCall)
           /\ Calls(Append(steps, s)) = Calls(steps) \o s.tools
<1> DEFINE q == [i \in DOMAIN steps |-> steps[i].tools]
           c == Append(steps, s)
           d == [i \in DOMAIN c |-> c[i].tools]
           n == Len(steps)
           X == Seq(ToolCall)
<1>1. \A x \in Step : x.tools \in X
  BY DEF Step
<1>2. /\ n \in Nat /\ DOMAIN steps = 1 .. n /\ \A i \in 1 .. n : steps[i] \in Step
      /\ DOMAIN c = 1 .. n + 1 /\ c[n + 1] = s /\ \A i \in 1 .. n : c[i] = steps[i]
  OBVIOUS
<1> HIDE DEF X, c, n
<1>3. q \in Seq(X) /\ Len(q) = n /\ \A i \in 1 .. n : q[i] = steps[i].tools
  BY <1>1, <1>2
<1>4. s.tools \in X
  BY <1>1
<1>5. d \in Seq(X) /\ Len(d) = n + 1 /\ \A i \in 1 .. n + 1 : d[i] = c[i].tools
  <2>1. \A i \in 1 .. n + 1 : c[i] \in Step
    BY <1>2
  <2> QED
    BY <1>1, <1>2, <2>1
<1> HIDE DEF q, d
<1>6. d = Append(q, s.tools)
  BY <1>2, <1>3, <1>4, <1>5
<1>7. FlattenSeq(Append(q, s.tools)) = FlattenSeq(q) \o s.tools
  BY <1>3, <1>4, FlattenAppend DEF X
<1>8. FlattenSeq(q) \in Seq(ToolCall)
  BY <1>3, FlattenTyped DEF X
<1>9. Calls(steps) = FlattenSeq(q) /\ Calls(c) = FlattenSeq(d)
  BY OneFlatten DEF Calls, q, d
<1> QED
  BY <1>6, <1>7, <1>8, <1>9 DEF c

(* The retries and the tokens, likewise.                                   *)
LEMMA SumsGrow ==
    ASSUME NEW steps \in Seq(Step), NEW s \in Step
    PROVE  /\ Retries(steps) \in Int /\ Total(steps) \in Int
           /\ Retries(Append(steps, s)) = Retries(steps) + s.retries
           /\ Total(Append(steps, s)) = Total(steps) + s.tokens.total
<1> DEFINE c == Append(steps, s)
           n == Len(steps)
           r == [i \in DOMAIN steps |-> steps[i].retries]
           t == [i \in DOMAIN steps |-> steps[i].tokens.total]
           rr == [i \in DOMAIN c |-> c[i].retries]
           tt == [i \in DOMAIN c |-> c[i].tokens.total]
<1>1. \A x \in Step : x.retries \in Int /\ x.tokens.total \in Int
  BY DEF Step, Tokens, T!TokenFields
<1>2. /\ n \in Nat /\ DOMAIN steps = 1 .. n /\ \A i \in 1 .. n : steps[i] \in Step
      /\ DOMAIN c = 1 .. n + 1 /\ c[n + 1] = s /\ \A i \in 1 .. n : c[i] = steps[i]
  OBVIOUS
<1>2a. \A i \in 1 .. n + 1 : i \in 1 .. n \/ i = n + 1
  BY <1>2
<1> HIDE DEF c, n
<1>3. \A i \in 1 .. n + 1 : c[i] \in Step
  BY <1>2, <1>2a
<1>4. r \in [1 .. n -> Int] /\ t \in [1 .. n -> Int] /\ rr \in [1 .. n + 1 -> Int] /\ tt \in [1 .. n + 1 -> Int]
  BY <1>1, <1>2, <1>3
<1>5. n + 1 \in 1 .. n + 1 /\ \A i \in 1 .. n : i \in 1 .. n + 1
  BY <1>2
<1>6. /\ \A i \in 1 .. n : rr[i] = r[i] /\ tt[i] = t[i]
      /\ rr[n + 1] = s.retries /\ tt[n + 1] = s.tokens.total
  BY <1>2, <1>5
<1>7. /\ Retries(steps) = SumFunctionOnSet(r, 1 .. n) /\ Total(steps) = SumFunctionOnSet(t, 1 .. n)
      /\ Retries(c) = SumFunctionOnSet(rr, 1 .. n + 1) /\ Total(c) = SumFunctionOnSet(tt, 1 .. n + 1)
  BY <1>2, OneSum DEF Retries, Total
<1> HIDE DEF r, t, rr, tt
<1>8. SumFunctionOnSet(rr, 1 .. n + 1) = SumFunctionOnSet(r, 1 .. n) + rr[n + 1]
  BY <1>2, <1>4, <1>6, SumAppend
<1>9. SumFunctionOnSet(tt, 1 .. n + 1) = SumFunctionOnSet(t, 1 .. n) + tt[n + 1]
  BY <1>2, <1>4, <1>6, SumAppend
<1>10. SumFunctionOnSet(r, 1 .. n) \in Int /\ SumFunctionOnSet(t, 1 .. n) \in Int
  <2> DEFINE S == 1 .. n
  <2>a. n \in Nat
    BY <1>2
  <2>b. IsFiniteSet(S)
    BY <2>a, FS_Interval
  <2>c. r \in [S -> Int] /\ t \in [S -> Int]
    BY <1>4
  <2> HIDE DEF S
  <2>1. IsFiniteSet(S) /\ S \in SUBSET S /\ r \in [S -> Int] /\ t \in [S -> Int]
    BY <2>b, <2>c
  <2>2. SumFunctionOnSet(r, S) \in Int
    BY <2>1, SumIsInt
  <2>3. SumFunctionOnSet(t, S) \in Int
    BY <2>1, SumIsInt
  <2> QED
    BY <2>2, <2>3 DEF S
<1> QED
  BY <1>6, <1>7, <1>8, <1>9, <1>10 DEF c

(* The steps with tokens, likewise.                                        *)
LEMMA EndedGrow ==
    ASSUME NEW steps \in Seq(Step), NEW s \in Step
    PROVE  /\ Cardinality(Ended(steps)) \in Nat
           /\ Cardinality(Ended(Append(steps, s)))
                = Cardinality(Ended(steps)) + (IF s.tokens.total > 0 THEN 1 ELSE 0)
<1> DEFINE c == Append(steps, s)
           n == Len(steps)
           A == Ended(steps)
           B == Ended(c)
<1>1. /\ n \in Nat /\ DOMAIN steps = 1 .. n
      /\ DOMAIN c = 1 .. n + 1 /\ c[n + 1] = s /\ \A i \in 1 .. n : c[i] = steps[i]
  OBVIOUS
<1> HIDE DEF c, n
<1>2. A \in SUBSET (1 .. n) /\ B \in SUBSET (1 .. n + 1)
  BY <1>1 DEF Ended
<1>3. B \cap (1 .. n) = A
  BY <1>1 DEF Ended
<1>4. n + 1 \in B <=> s.tokens.total > 0
  BY <1>1 DEF Ended
<1> HIDE DEF A, B
<1>5. /\ Cardinality(A) \in Nat
      /\ Cardinality(B) = Cardinality(A) + (IF n + 1 \in B THEN 1 ELSE 0)
  BY <1>1, <1>2, <1>3, CountAppend
<1> QED
  BY <1>4, <1>5 DEF A, B, c

NameLists == Seq(STRING)
Files == SUBSET STRING
Observed ==
    [steps : Int, calls : Int, failed : Int, subagents : Int, skills : Int, mcp : NameLists,
     retries : Int, compactions : Int, errors : Int, byName : NameLists, tokens : Tokens,
     cost : Int, texts : NameLists, answer : Text, firstEdit : Int, beforeEdit : Int,
     reads : Files, redundant : Int, verifications : Int]

LEMMA NewIsObserved ==
    /\ T!NewMetrics \in Observed
    /\ T!NewMetrics.byName = <<>> /\ T!NewMetrics.failed = 0 /\ T!NewMetrics.retries = 0
    /\ T!NewMetrics.tokens.total = 0
<1>1. T!NoTokens \in Tokens /\ T!NoTokens.total = 0
  BY DEF T!NoTokens, Tokens, T!TokenFields
<1>2. <<>> \in NameLists /\ {} \in Files /\ "" \in Text
  BY DEF Text, NameLists, Files
<1>3. T!NewMetrics \in Observed
  <2> DEFINE empty(none, text, files, tokens) ==
               [steps |-> 0, calls |-> 0, failed |-> 0, subagents |-> 0, skills |-> 0, mcp |-> none,
                retries |-> 0, compactions |-> 0, errors |-> 0, byName |-> none, tokens |-> tokens,
                cost |-> 0, texts |-> none, answer |-> text, firstEdit |-> 0, beforeEdit |-> 0,
                reads |-> files, redundant |-> 0, verifications |-> 0]
  <2>1. ASSUME NEW none \in NameLists, NEW text \in Text, NEW files \in Files, NEW tokens \in Tokens
        PROVE  empty(none, text, files, tokens) \in Observed
    BY DEF Observed
  <2>2. T!NewMetrics = empty(<<>>, "", {}, T!NoTokens)
    BY DEF T!NewMetrics
  <2> HIDE DEF empty
  <2> QED
    BY <1>1, <1>2, <2>1, <2>2
<1>4. /\ T!NewMetrics.byName = <<>> /\ T!NewMetrics.failed = 0 /\ T!NewMetrics.retries = 0
      /\ T!NewMetrics.tokens = T!NoTokens
  BY DEF T!NewMetrics
<1> QED
  BY <1>1, <1>3, <1>4

LEMMA CountIsInt == ASSUME NEW yes PROVE T!Count(yes) \in Int
BY DEF T!Count

(* The metrics can decode the state of a call, the trace can.              *)
MetricsDecode(p) == T!Decodes(p, T!MetricsState)
TraceDecodes(p) == T!Decodes(p, T!TraceState)

(* A call of a tool, in the metrics.                                       *)
LEMMA ObservesTool ==
    ASSUME NEW m \in Observed, NEW e, IsEvent(e)
    PROVE  LET p == e.part
               b == T!ObserveTool(m, p, e.ts, <<>>, {})
           IN /\ b \in Observed
              /\ b.byName = Append(m.byName, p.tool)
              /\ b.failed = m.failed + T!Count(MetricsDecode(p) /\ p.status = "error")
              /\ b.retries = m.retries /\ b.tokens = m.tokens
<1> DEFINE p == e.part
           b == T!ObserveTool(m, p, e.ts, <<>>, {})
           edits == m.firstEdit = 0 /\ p.tool \in T!EditTools
           reads == p.tool = "read" /\ MetricsDecode(p) /\ p.file # ""
           names == Append(m.byName, p.tool)
           first == IF edits THEN e.ts ELSE m.firstEdit
           before == m.beforeEdit + T!Count(m.firstEdit = 0 /\ ~edits)
           again == m.redundant + T!Count(reads /\ p.file \in m.reads)
           files == IF reads THEN m.reads \cup {p.file} ELSE m.reads
           checks == m.verifications + T!Count(p.tool \in {"bash", "shell"} /\ MetricsDecode(p) /\ p.verifies)
           failed == m.failed + T!Count(MetricsDecode(p) /\ p.status = "error")
           subs == m.subagents + T!Count(p.tool = "task")
           skills == m.skills + T!Count(p.tool = "skill")
<1>1. p.tool \in STRING /\ p.file \in STRING /\ e.ts \in Int
  BY DEF IsEvent
<1>3. /\ m.byName \in NameLists /\ m.firstEdit \in Int /\ m.beforeEdit \in Int /\ m.redundant \in Int
      /\ m.reads \in Files /\ m.verifications \in Int /\ m.failed \in Int
      /\ m.subagents \in Int /\ m.skills \in Int /\ m.calls \in Int
  BY DEF Observed
<1>4. /\ names \in NameLists /\ first \in Int /\ files \in Files
  <2>1. names \in NameLists
    BY <1>1, <1>3 DEF NameLists
  <2>2. first \in Int
    BY <1>1, <1>3
  <2>3. files \in Files
    <3>1. m.reads \cup {p.file} \in Files
      BY <1>1, <1>3 DEF Files
    <3> QED
      BY <1>3, <3>1
  <2> QED
    BY <2>1, <2>2, <2>3
<1>5. /\ before \in Int /\ again \in Int /\ checks \in Int /\ failed \in Int /\ subs \in Int /\ skills \in Int
  <2>1. before \in Int /\ again \in Int
    <3> DEFINE c == T!Count(m.firstEdit = 0 /\ ~edits)
               d == T!Count(reads /\ p.file \in m.reads)
    <3>1. c \in Int
      BY CountIsInt
    <3>2. d \in Int
      <4>1. d = IF reads /\ p.file \in m.reads THEN 1 ELSE 0
        BY DEF T!Count
      <4> HIDE DEF d, reads
      <4>2. CASE reads /\ p.file \in m.reads
        BY <4>1, <4>2
      <4>3. CASE ~(reads /\ p.file \in m.reads)
        BY <4>1, <4>3
      <4> QED
        BY <4>2, <4>3
    <3>3. before = m.beforeEdit + c /\ again = m.redundant + d
      OBVIOUS
    <3> HIDE DEF c, d, before, again
    <3> QED
      BY <1>3, <3>1, <3>2, <3>3
  <2>2. checks \in Int /\ failed \in Int
    BY <1>3 DEF T!Count
  <2>3. subs \in Int /\ skills \in Int
    BY <1>3 DEF T!Count
  <2> QED
    BY <2>1, <2>2, <2>3
<1>6. b = [m EXCEPT !.calls = @ + 1, !.byName = names, !.firstEdit = first, !.beforeEdit = before,
                    !.redundant = again, !.reads = files, !.verifications = checks, !.failed = failed,
                    !.subagents = subs, !.skills = skills, !.mcp = @]
  <2>1. {i \in DOMAIN <<>> : <<<<>>[i], p.tool>> \in {}} = {}
    OBVIOUS
  <2> QED
    BY <2>1 DEF T!ObserveTool, MetricsDecode
<1> HIDE DEF names, first, files, before, again, checks, failed, subs, skills, b
<1>7. b \in Observed
  <2>1. m.calls + 1 \in Int
    BY <1>3
  <2> DEFINE calls == m.calls + 1
             half == [m EXCEPT !.calls = calls, !.byName = names, !.firstEdit = first, !.beforeEdit = before,
                               !.redundant = again]
  <2>2. b = [half EXCEPT !.reads = files, !.verifications = checks, !.failed = failed,
                         !.subagents = subs, !.skills = skills, !.mcp = @]
    BY <1>6
  <2> HIDE DEF calls
  <2>3. half \in Observed
    BY <1>4, <1>5, <2>1 DEF Observed, calls
  <2> HIDE DEF half
  <2>4. half.mcp \in NameLists
    BY <2>3 DEF Observed
  <2> QED
    BY <1>4, <1>5, <2>2, <2>3, <2>4 DEF Observed
<1>8. b.byName = names /\ b.failed = failed /\ b.retries = m.retries /\ b.tokens = m.tokens
  BY <1>6 DEF Observed
<1> QED
  BY <1>7, <1>8 DEF b, names, failed

(* What an event adds to the metrics.                                      *)
ObservedAs(e, m, b) ==
    LET p == e.part
    IN /\ b.byName = IF p.ok /\ e.type = "tool_use" THEN Append(m.byName, p.tool) ELSE m.byName
       /\ b.failed = m.failed
            + (IF p.ok /\ e.type = "tool_use" /\ MetricsDecode(p) /\ p.status = "error" THEN 1 ELSE 0)
       /\ b.retries = m.retries + (IF p.ok /\ p.type = "retry" THEN 1 ELSE 0)
       /\ b.tokens.total = m.tokens.total
            + (IF p.ok /\ e.type = "step_finish" /\ p.tokens # <<>> THEN p.tokens[1].total ELSE 0)

LEMMA ObservesFinish ==
    ASSUME NEW m \in Observed, NEW e, IsEvent(e)
    PROVE  LET p == e.part
               b == T!ObserveStepFinish(m, p)
           IN /\ b \in Observed /\ b.byName = m.byName /\ b.failed = m.failed /\ b.retries = m.retries
              /\ b.tokens.total = m.tokens.total + (IF p.tokens # <<>> THEN p.tokens[1].total ELSE 0)
<1> DEFINE p == e.part
           b == T!ObserveStepFinish(m, p)
           cost == IF p.cost = <<>> THEN m.cost ELSE m.cost + p.cost[1]
           counted == p.tokens # <<>> /\ p.tokens[1].total # 0
           tokens == IF counted THEN T!AddTokens(m.tokens, p.tokens[1]) ELSE m.tokens
<1>1. p.tokens \in Seq(Tokens) /\ p.cost \in Seq(Int)
  BY DEF IsEvent
<1>2. m.cost \in Int /\ m.tokens \in Tokens
  BY DEF Observed
<1>3. p.cost # <<>> => p.cost[1] \in Int
  BY <1>1
<1>4. p.tokens # <<>> => p.tokens[1] \in Tokens
  BY <1>1
<1>5. ASSUME NEW s \in Tokens, NEW t \in Tokens
      PROVE  T!AddTokens(s, t) \in Tokens /\ T!AddTokens(s, t).total = s.total + t.total
  BY DEF Tokens, T!AddTokens, T!TokenFields
<1>6. b = [m EXCEPT !.cost = cost, !.tokens = tokens]
  BY DEF T!ObserveStepFinish
<1> HIDE DEF p
<1>7. cost \in Int
  BY <1>2, <1>3
<1>8. tokens \in Tokens
  BY <1>2, <1>4, <1>5
<1>9. \A t \in Tokens : t.total \in Int
  BY DEF Tokens, T!TokenFields
<1>10. tokens.total = m.tokens.total + (IF p.tokens # <<>> THEN p.tokens[1].total ELSE 0)
  <2>1. m.tokens.total \in Int
    BY <1>2, <1>9
  <2>2. CASE counted
    BY <1>2, <1>4, <1>5, <2>2
  <2>3. CASE ~counted
    BY <1>4, <1>9, <2>1, <2>3
  <2> QED
    BY <2>2, <2>3
<1> HIDE DEF b, cost, tokens
<1>11. b \in Observed
  BY <1>6, <1>7, <1>8 DEF Observed
<1>12. b.byName = m.byName /\ b.failed = m.failed /\ b.retries = m.retries /\ b.tokens = tokens
  BY <1>6 DEF Observed
<1> QED
  BY <1>10, <1>11, <1>12 DEF b, p

LEMMA ObservesEvent ==
    ASSUME NEW m \in Observed, NEW e, IsEvent(e)
    PROVE  LET b == T!Observe(m, e, <<>>, {}) IN b \in Observed /\ ObservedAs(e, m, b)
<1> DEFINE p == e.part
           b == T!Observe(m, e, <<>>, {})
           tool == T!ObserveTool(m, p, e.ts, <<>>, {})
           finish == T!ObserveStepFinish(m, p)
           text == T!ObserveText(m, p)
           start == [m EXCEPT !.steps = @ + 1]
           error == [m EXCEPT !.errors = @ + 1]
           seen == CASE e.type = "step_start" -> start
                     [] e.type = "tool_use" -> tool
                     [] e.type = "step_finish" -> finish
                     [] e.type = "text" -> text
                     [] OTHER -> m
           all == [seen EXCEPT !.retries = @ + T!Count(p.type = "retry"),
                               !.compactions = @ + T!Count(p.type = "compaction")]
<1>1. b = IF ~p.ok THEN error ELSE all
  BY DEF T!Observe
<1>2. /\ tool \in Observed /\ tool.byName = Append(m.byName, p.tool)
      /\ tool.failed = m.failed + T!Count(MetricsDecode(p) /\ p.status = "error")
      /\ tool.retries = m.retries /\ tool.tokens = m.tokens
  BY ObservesTool
<1>3. /\ finish \in Observed /\ finish.byName = m.byName /\ finish.failed = m.failed
      /\ finish.retries = m.retries
      /\ finish.tokens.total = m.tokens.total + (IF p.tokens # <<>> THEN p.tokens[1].total ELSE 0)
  BY ObservesFinish
<1>4. /\ start \in Observed /\ start.byName = m.byName /\ start.failed = m.failed
      /\ start.retries = m.retries /\ start.tokens = m.tokens
  BY DEF Observed
<1>5. /\ error \in Observed /\ error.byName = m.byName /\ error.failed = m.failed
      /\ error.retries = m.retries /\ error.tokens = m.tokens
  BY DEF Observed
<1>6. /\ text \in Observed /\ text.byName = m.byName /\ text.failed = m.failed
      /\ text.retries = m.retries /\ text.tokens = m.tokens
  <2>1. p.text \in STRING
    BY DEF IsEvent
  <2>2. m.texts \in NameLists /\ Append(m.texts, p.text) \in NameLists /\ p.text \in Text
    <3>1. m.texts \in NameLists
      BY DEF Observed
    <3>2. Append(m.texts, p.text) \in NameLists
      BY <2>1, <3>1 DEF NameLists
    <3>3. p.text \in Text
      BY <2>1 DEF Text
    <3> QED
      BY <3>1, <3>2, <3>3
  <2> HIDE DEF p
  <2>3. text = [m EXCEPT !.texts = Append(@, p.text), !.answer = p.text]
    BY DEF T!ObserveText
  <2> HIDE DEF text
  <2> QED
    BY <2>2, <2>3 DEF Observed
<1>7. \A n \in Observed : n.failed \in Int /\ n.retries \in Int /\ n.compactions \in Int /\ n.tokens.total \in Int
  BY DEF Observed, Tokens, T!TokenFields
<1> HIDE DEF tool, finish, text, start, error, b
<1>8. seen \in {start, tool, finish, text, m}
  OBVIOUS
<1>9. seen \in Observed
  BY <1>2, <1>3, <1>4, <1>6, <1>8
<1>10. /\ seen.byName = IF e.type = "tool_use" THEN Append(m.byName, p.tool) ELSE m.byName
       /\ seen.failed = m.failed
            + (IF e.type = "tool_use" /\ MetricsDecode(p) /\ p.status = "error" THEN 1 ELSE 0)
       /\ seen.retries = m.retries
       /\ seen.tokens.total = m.tokens.total
            + (IF e.type = "step_finish" /\ p.tokens # <<>> THEN p.tokens[1].total ELSE 0)
  <2>1. CASE e.type = "tool_use"
    BY <1>2, <1>7, <2>1 DEF T!Count
  <2>2. CASE e.type = "step_finish"
    BY <1>3, <1>7, <2>2
  <2>3. CASE e.type \notin {"tool_use", "step_finish"}
    BY <1>4, <1>6, <1>7, <2>3
  <2> QED
    BY <2>1, <2>2, <2>3
<1> HIDE DEF seen
<1>11. /\ all \in Observed /\ all.byName = seen.byName /\ all.failed = seen.failed /\ all.tokens = seen.tokens
       /\ all.retries = seen.retries + (IF p.type = "retry" THEN 1 ELSE 0)
  <2> DEFINE c == T!Count(p.type = "compaction")
             r == T!Count(p.type = "retry")
  <2>1. c \in Int /\ r \in Int /\ r = IF p.type = "retry" THEN 1 ELSE 0
    BY DEF T!Count
  <2>2. all = [seen EXCEPT !.retries = @ + r, !.compactions = @ + c]
    OBVIOUS
  <2>3. seen.retries \in Int /\ seen.compactions \in Int
    BY <1>7, <1>9
  <2> HIDE DEF c, r, all, p
  <2>4. seen.retries + r \in Int /\ seen.compactions + c \in Int
    BY <2>1, <2>3
  <2>5. all \in Observed
    BY <1>9, <2>2, <2>4 DEF Observed
  <2>6. /\ all.byName = seen.byName /\ all.failed = seen.failed /\ all.tokens = seen.tokens
        /\ all.retries = seen.retries + r
    BY <1>9, <2>2 DEF Observed
  <2> QED
    BY <2>1, <2>5, <2>6
<1> HIDE DEF all
<1> DEFINE Good == b \in Observed /\ ObservedAs(e, m, b)
<1>12. ASSUME ~p.ok PROVE Good
  <2>1. b = error
    BY <1>1, <1>12
  <2>2. m.failed \in Int /\ m.retries \in Int /\ m.tokens.total \in Int
    BY <1>7
  <2> QED
    BY <1>5, <1>12, <2>1, <2>2 DEF ObservedAs
<1>13. ASSUME p.ok PROVE Good
  <2>1. b = all
    BY <1>1, <1>13
  <2> HIDE DEF p
  <2>2. /\ b.byName = IF p.ok /\ e.type = "tool_use" THEN Append(m.byName, p.tool) ELSE m.byName
        /\ b.failed = m.failed
             + (IF p.ok /\ e.type = "tool_use" /\ MetricsDecode(p) /\ p.status = "error" THEN 1 ELSE 0)
        /\ b.retries = m.retries + (IF p.ok /\ p.type = "retry" THEN 1 ELSE 0)
        /\ b.tokens.total = m.tokens.total
             + (IF p.ok /\ e.type = "step_finish" /\ p.tokens # <<>> THEN p.tokens[1].total ELSE 0)
    BY <1>10, <1>11, <1>13, <2>1
  <2> QED
    BY <1>11, <2>1, <2>2 DEF ObservedAs, p
<1>14. Good
  BY <1>12, <1>13
<1> QED
  BY <1>14 DEF b

LEMMA ErrorObserved ==
    ASSUME NEW m \in Observed
    PROVE  LET b == [m EXCEPT !.errors = @ + 1]
           IN /\ b \in Observed /\ b.byName = m.byName /\ b.failed = m.failed
              /\ b.retries = m.retries /\ b.tokens = m.tokens
BY DEF Observed

NoneNegative(steps) == \A i \in DOMAIN steps : steps[i].tokens.total >= 0

LEMMA NegativesGrow ==
    ASSUME NEW steps \in Seq(Step), NEW s \in Step
    PROVE  NoneNegative(Append(steps, s)) <=> NoneNegative(steps) /\ s.tokens.total >= 0
<1> DEFINE c == Append(steps, s)
           n == Len(steps)
<1>1. /\ n \in Nat /\ DOMAIN steps = 1 .. n
      /\ DOMAIN c = 1 .. n + 1 /\ c[n + 1] = s /\ \A i \in 1 .. n : c[i] = steps[i]
  OBVIOUS
<1>2. n + 1 \in 1 .. n + 1 /\ \A i \in 1 .. n + 1 : i \in 1 .. n \/ i = n + 1
  BY <1>1
<1>3. \A i \in 1 .. n : i \in 1 .. n + 1
  BY <1>1
<1> HIDE DEF c, n
<1>4. NoneNegative(c) <=> NoneNegative(steps) /\ s.tokens.total >= 0
  BY <1>1, <1>2, <1>3 DEF NoneNegative
<1> QED
  BY <1>4 DEF c

(* An open step that nothing happened in tells nothing.                    *)
LEMMA EnsureTellsNothing ==
    ASSUME NEW steps \in Seq(Step), NEW ts \in Int
    PROVE  LET open == T!Ensure(steps, ts)
           IN /\ Calls(open) = Calls(steps) /\ Retries(open) = Retries(steps)
              /\ Total(open) = Total(steps) /\ Cardinality(Ended(open)) = Cardinality(Ended(steps))
              /\ NoneNegative(open) <=> NoneNegative(steps)
<1> DEFINE s == T!NewStep(ts)
           open == T!Ensure(steps, ts)
<1>1. s \in Step /\ s.tools = <<>> /\ s.retries = 0 /\ s.tokens.total = 0
  BY NewIsStep
<1> HIDE DEF s
<1>2. CASE steps # <<>>
  BY <1>2 DEF T!Ensure
<1>3. CASE steps = <<>>
  <2>1. open = Append(<<>>, s) /\ <<>> \in Seq(Step)
    <3>1. open = <<s>>
      BY <1>3 DEF T!Ensure, s
    <3> QED
      BY <1>1, <3>1
  <2>2. Calls(open) = Calls(steps)
    <3>1. Calls(Append(steps, s)) = Calls(steps) \o <<>> /\ Calls(steps) = <<>>
      BY <1>1, <1>3, CallsGrow, CallsOfNone
    <3> QED
      BY <1>3, <2>1, <3>1
  <2>3. Retries(open) = Retries(steps) /\ Total(open) = Total(steps)
    <3>1. /\ Retries(steps) \in Int /\ Total(steps) \in Int
          /\ Retries(Append(steps, s)) = Retries(steps) + 0 /\ Total(Append(steps, s)) = Total(steps) + 0
      BY <1>1, SumsGrow
    <3> QED
      BY <1>3, <2>1, <3>1
  <2>4. Cardinality(Ended(open)) = Cardinality(Ended(steps))
    <3>1. /\ Cardinality(Ended(steps)) \in Nat
          /\ Cardinality(Ended(Append(steps, s))) = Cardinality(Ended(steps)) + 0
      BY <1>1, EndedGrow
    <3> QED
      BY <1>3, <2>1, <3>1
  <2>5. NoneNegative(open) <=> NoneNegative(steps)
    <3>1. NoneNegative(Append(steps, s)) <=> NoneNegative(steps)
      BY <1>1, NegativesGrow
    <3> QED
      BY <1>3, <2>1, <3>1
  <2> HIDE DEF open
  <2> QED
    BY <2>2, <2>3, <2>4, <2>5 DEF open
<1> QED
  BY <1>2, <1>3

(* What an event adds to what the steps tell; the second end of a step     *)
(* takes the place of the first.                                           *)
ToldMore(e, steps, b) ==
    LET p == e.part
        ends == p.ok /\ e.type = "step_finish"
        used == p.tokens # <<>> /\ p.tokens[1].total > 0
    IN /\ Calls(b) = IF p.ok /\ e.type = "tool_use" THEN Append(Calls(steps), T!BuildTool(p))
                     ELSE Calls(steps)
       /\ Retries(b) <= Retries(steps) + (IF p.ok /\ p.type = "retry" THEN 1 ELSE 0)
       /\ ~ends => /\ Total(b) = Total(steps) /\ Cardinality(Ended(b)) = Cardinality(Ended(steps))
                   /\ NoneNegative(steps) => NoneNegative(b)
       /\ ends /\ used /\ NoneNegative(steps) =>
             /\ NoneNegative(b)
             /\ \/ Cardinality(Ended(b)) = Cardinality(Ended(steps))
                \/ /\ Cardinality(Ended(b)) = Cardinality(Ended(steps)) + 1
                   /\ Total(b) = Total(steps) + p.tokens[1].total

LEMMA BuildTells ==
    ASSUME NEW steps \in Seq(Step), NEW e, IsEvent(e)
    PROVE  LET b == T!BuildStep(steps, e) IN b \in Seq(Step) /\ ToldMore(e, steps, b)
<1> DEFINE p == e.part
           b == T!BuildStep(steps, e)
           open == T!Ensure(steps, e.ts)
           Good == b \in Seq(Step) /\ ToldMore(e, steps, b)
<1>1. \/ b = steps /\ (~p.ok \/ e.type \notin {"step_start", "tool_use", "step_finish"})
      \/ p.ok /\ e.type = "step_start" /\ b = Append(steps, T!NewStep(e.ts))
      \/ /\ p.ok /\ e.type # "step_start"
         /\ \E front \in Seq(Step), s, t \in Step :
              open = Append(front, s) /\ b = Append(front, t) /\ StepTo(e, s, t)
  BY BuildsOn
<1>2. e.ts \in Int
  BY DEF IsEvent
<1>3. /\ Calls(open) = Calls(steps) /\ Retries(open) = Retries(steps) /\ Total(open) = Total(steps)
      /\ Cardinality(Ended(open)) = Cardinality(Ended(steps)) /\ (NoneNegative(open) <=> NoneNegative(steps))
  BY <1>2, EnsureTellsNothing
<1>4. /\ Retries(steps) \in Int /\ Total(steps) \in Int /\ Cardinality(Ended(steps)) \in Nat
      /\ Calls(steps) \in Seq(ToolCall)
  <2>1. T!NewStep(0) \in Step
    BY NewIsStep
  <2> QED
    BY <2>1, SumsGrow, EndedGrow, CallsGrow
<1> HIDE DEF open, b
<1>5. ASSUME b = steps, ~p.ok \/ e.type \notin {"step_start", "tool_use", "step_finish"} PROVE Good
  BY <1>4, <1>5 DEF ToldMore
<1>6. ASSUME p.ok, e.type = "step_start", b = Append(steps, T!NewStep(e.ts)) PROVE Good
  <2> DEFINE s == T!NewStep(e.ts)
  <2>1. s \in Step /\ s.tools = <<>> /\ s.retries = 0 /\ s.tokens.total = 0
    BY <1>2, NewIsStep
  <2>2. b = Append(steps, s)
    BY <1>6
  <2> HIDE DEF s
  <2>3. Calls(b) = Calls(steps)
    <3>1. Calls(b) = Calls(steps) \o <<>>
      BY <2>1, <2>2, CallsGrow
    <3> QED
      BY <1>4, <3>1
  <2>4. Retries(b) = Retries(steps) /\ Total(b) = Total(steps)
    <3>1. Retries(b) = Retries(steps) + 0 /\ Total(b) = Total(steps) + 0
      BY <2>1, <2>2, SumsGrow
    <3> QED
      BY <1>4, <3>1
  <2>5. Cardinality(Ended(b)) = Cardinality(Ended(steps))
    <3>1. Cardinality(Ended(b)) = Cardinality(Ended(steps)) + 0
      BY <2>1, <2>2, EndedGrow
    <3> QED
      BY <1>4, <3>1
  <2>6. NoneNegative(b) <=> NoneNegative(steps)
    BY <2>1, <2>2, NegativesGrow
  <2>7. b \in Seq(Step)
    BY <2>1, <2>2
  <2> QED
    BY <1>4, <1>6, <2>3, <2>4, <2>5, <2>6, <2>7 DEF ToldMore
<1>7. ASSUME p.ok, e.type # "step_start", NEW front \in Seq(Step), NEW s \in Step, NEW t \in Step,
             open = Append(front, s), b = Append(front, t), StepTo(e, s, t)
      PROVE  Good
  <2>1. /\ Calls(front) \in Seq(ToolCall) /\ s.tools \in Seq(ToolCall)
        /\ Calls(steps) = Calls(front) \o s.tools /\ Calls(b) = Calls(front) \o t.tools
    <3>1. s.tools \in Seq(ToolCall)
      BY DEF Step
    <3> QED
      BY <1>3, <1>7, <3>1, CallsGrow
  <2>2. /\ Retries(front) \in Int /\ Total(front) \in Int
        /\ Retries(steps) = Retries(front) + s.retries /\ Retries(b) = Retries(front) + t.retries
        /\ Total(steps) = Total(front) + s.tokens.total /\ Total(b) = Total(front) + t.tokens.total
    BY <1>3, <1>7, SumsGrow
  <2>3. /\ Cardinality(Ended(front)) \in Nat
        /\ Cardinality(Ended(steps)) = Cardinality(Ended(front)) + (IF s.tokens.total > 0 THEN 1 ELSE 0)
        /\ Cardinality(Ended(b)) = Cardinality(Ended(front)) + (IF t.tokens.total > 0 THEN 1 ELSE 0)
    BY <1>3, <1>7, EndedGrow
  <2>4. /\ NoneNegative(steps) <=> NoneNegative(front) /\ s.tokens.total >= 0
        /\ NoneNegative(b) <=> NoneNegative(front) /\ t.tokens.total >= 0
    BY <1>3, <1>7, NegativesGrow
  <2>5. /\ s.tokens.total \in Int /\ t.tokens.total \in Int /\ s.retries \in Nat /\ t.retries \in Nat
    BY DEF Step, Tokens, T!TokenFields
  <2>6. b \in Seq(Step)
    BY <1>7
  <2>7. Calls(b) = IF e.type = "tool_use" THEN Append(Calls(steps), T!BuildTool(p)) ELSE Calls(steps)
    <3>1. CASE e.type = "tool_use"
      <4>1. t.tools = Append(s.tools, T!BuildTool(p)) /\ T!BuildTool(p) \in ToolCall
        BY <1>7, <3>1, ToolIsCall DEF StepTo
      <4>2. Calls(front) \o Append(s.tools, T!BuildTool(p))
            = Append(Calls(front) \o s.tools, T!BuildTool(p))
        <5> DEFINE c == Calls(front)
                   d == s.tools
                   x == T!BuildTool(p)
        <5>1. c \in Seq(ToolCall) /\ d \in Seq(ToolCall) /\ x \in ToolCall
          BY <2>1, <4>1
        <5> HIDE DEF c, d, x
        <5>2. c \o Append(d, x) = Append(c \o d, x)
          BY <5>1, JoinAppend
        <5> QED
          BY <5>2 DEF c, d, x
      <4> QED
        BY <2>1, <3>1, <4>1, <4>2
    <3>2. CASE e.type # "tool_use"
      BY <1>7, <2>1, <3>2 DEF StepTo
    <3> QED
      BY <3>1, <3>2
  <2>8. Retries(b) <= Retries(steps) + (IF p.ok /\ p.type = "retry" THEN 1 ELSE 0)
    BY <1>7, <2>2, <2>5 DEF StepTo
  <2>9. e.type # "step_finish" =>
          /\ Total(b) = Total(steps) /\ Cardinality(Ended(b)) = Cardinality(Ended(steps))
          /\ NoneNegative(steps) => NoneNegative(b)
    BY <1>7, <2>2, <2>3, <2>4 DEF StepTo
  <2>10. ASSUME e.type = "step_finish", p.tokens # <<>>, p.tokens[1].total > 0, NoneNegative(steps)
         PROVE  /\ NoneNegative(b)
                /\ \/ Cardinality(Ended(b)) = Cardinality(Ended(steps))
                   \/ /\ Cardinality(Ended(b)) = Cardinality(Ended(steps)) + 1
                      /\ Total(b) = Total(steps) + p.tokens[1].total
    <3>1. p.tokens \in Seq(Tokens)
      BY DEF IsEvent
    <3>2. t.tokens.total = p.tokens[1].total
      BY <1>7, <2>10, <3>1, StepTokens DEF StepTo
    <3>3. t.tokens.total > 0 /\ s.tokens.total >= 0 /\ NoneNegative(b)
      BY <2>4, <2>5, <2>10, <3>2
    <3>4. CASE s.tokens.total > 0
      BY <2>3, <3>3, <3>4
    <3>5. CASE s.tokens.total = 0
      BY <2>2, <2>3, <3>2, <3>3, <3>5
    <3> QED
      BY <2>5, <3>3, <3>4, <3>5
  <2> QED
    BY <1>7, <2>6, <2>7, <2>8, <2>9, <2>10 DEF ToldMore
<1>8. Good
  BY <1>1, <1>5, <1>6, <1>7
<1> QED
  BY <1>8 DEF b

(* The steps and the metrics after the same events.  As long as every end  *)
(* of a step has tokens, no fewer ends were seen than steps have tokens,   *)
(* and if not more, no tokens were overwritten.                            *)
(* Failures are told by both or counted among those of one only.           *)
OnlyMeasured(events) == T!FailedFor(events, T!MetricsState, T!TraceState)
OnlyTold(events) == T!FailedFor(events, T!TraceState, T!MetricsState)

Failures(calls) == Cardinality({i \in DOMAIN calls : calls[i].status = "error"})
SameNames(calls, names) == Len(calls) = Len(names) /\ \A i \in 1 .. Len(names) : calls[i].tool = names[i]

CallsMatch(b, m, events) ==
    /\ SameNames(Calls(b), m.byName)
    /\ Failures(Calls(b)) + Cardinality(OnlyMeasured(events)) = m.failed + Cardinality(OnlyTold(events))
    /\ Retries(b) <= m.retries

EndsIn(events) == {i \in DOMAIN events : events[i].type = "step_finish" /\ events[i].part.ok}
AllUsed(events) ==
    \A i \in EndsIn(events) : events[i].part.tokens # <<>> /\ events[i].part.tokens[1].total > 0
TokensMatch(b, m, events) ==
    /\ NoneNegative(b)
    /\ Cardinality(Ended(b)) <= Cardinality(EndsIn(events))
    /\ Cardinality(Ended(b)) = Cardinality(EndsIn(events)) => Total(b) = m.tokens.total

Match(b, m, events) == CallsMatch(b, m, events) /\ (AllUsed(events) => TokensMatch(b, m, events))

(* Before the first line.                                                  *)
LEMMA NothingMatches == Match(<<>>, T!NewMetrics, <<>>)
<1>1. {i \in DOMAIN <<>> : <<>>[i].status = "error"} = {} /\ EndsIn(<<>>) = {}
  BY DEF EndsIn
<1>1a. OnlyMeasured(<<>>) = {} /\ OnlyTold(<<>>) = {}
  BY DEF OnlyMeasured, OnlyTold, T!FailedFor
<1>2. NoneNegative(<<>>)
  BY DEF NoneNegative
<1>3. CallsMatch(<<>>, T!NewMetrics, <<>>)
  <2> DEFINE m == T!NewMetrics
             c == Calls(<<>>)
  <2>1. c = <<>> /\ m.byName = <<>> /\ m.failed = 0 /\ m.retries = 0 /\ Retries(<<>>) = 0
    BY CallsOfNone, NoneTold, NewIsObserved
  <2>2. Len(<<>>) = 0 /\ Cardinality({}) = 0 /\ 1 .. 0 = {}
    BY FS_EmptySet
  <2> HIDE DEF m, c
  <2>3. {i \in DOMAIN c : c[i].status = "error"} = {}
    BY <1>1, <2>1
  <2>4. Failures(c) = 0 /\ Cardinality(OnlyMeasured(<<>>)) = 0 /\ Cardinality(OnlyTold(<<>>)) = 0
    BY <1>1a, <2>2, <2>3 DEF Failures
  <2>5. SameNames(c, m.byName)
    BY <2>1, <2>2 DEF SameNames
  <2>6. /\ SameNames(c, m.byName)
        /\ Failures(c) + Cardinality(OnlyMeasured(<<>>)) = m.failed + Cardinality(OnlyTold(<<>>))
        /\ Retries(<<>>) <= m.retries
    BY <2>1, <2>4, <2>5
  <2> QED
    BY <2>6 DEF CallsMatch, m, c
<1>4. TokensMatch(<<>>, T!NewMetrics, <<>>)
  BY <1>1, <1>2, NoneTold, NewIsObserved, FS_EmptySet DEF TokensMatch
<1> QED
  BY <1>3, <1>4 DEF Match

(* One more call in both.                                                  *)
LEMMA CallMatches ==
    ASSUME NEW c \in Seq(ToolCall), NEW x \in ToolCall,
           NEW names \in Seq(STRING), NEW name \in STRING, x.tool = name, SameNames(c, names)
    PROVE  LET d == Append(c, x)
               more == Append(names, name)
           IN /\ SameNames(d, more)
              /\ Failures(c) \in Nat
              /\ Failures(d) = Failures(c) + (IF x.status = "error" THEN 1 ELSE 0)
<1> DEFINE d == Append(c, x)
           more == Append(names, name)
           n == Len(c)
           A == {i \in DOMAIN c : c[i].status = "error"}
           B == {i \in DOMAIN d : d[i].status = "error"}
<1>1. /\ n \in Nat /\ DOMAIN c = 1 .. n /\ Len(d) = n + 1
      /\ DOMAIN d = 1 .. n + 1 /\ d[n + 1] = x /\ \A i \in 1 .. n : d[i] = c[i]
  OBVIOUS
<1>2. Len(names) = n /\ Len(more) = n + 1 /\ more[n + 1] = name /\ \A i \in 1 .. n : more[i] = names[i]
  BY DEF SameNames
<1>3. \A i \in 1 .. n + 1 : i \in 1 .. n \/ i = n + 1
  BY <1>1
<1>3a. \A i \in 1 .. n : c[i].tool = names[i]
  BY <1>2 DEF SameNames
<1> HIDE DEF d, more, n
<1>4. SameNames(d, more)
  BY <1>1, <1>2, <1>3, <1>3a DEF SameNames
<1>5. A \in SUBSET (1 .. n) /\ B \in SUBSET (1 .. n + 1) /\ (n + 1 \in B <=> x.status = "error")
  BY <1>1
<1>6. B \cap (1 .. n) = A
  BY <1>1
<1> HIDE DEF A, B
<1>7. Cardinality(B) = Cardinality(A) + (IF n + 1 \in B THEN 1 ELSE 0)
  BY <1>1, <1>5, <1>6, CountAppend
<1>8. Cardinality(B) = Cardinality(A) + (IF x.status = "error" THEN 1 ELSE 0)
  BY <1>5, <1>7
<1>9. Cardinality(A) \in Nat
  <2>1. IsFiniteSet(1 .. n)
    BY <1>1, FS_Interval
  <2>2. IsFiniteSet(A)
    BY <1>5, <2>1, FS_Subset
  <2> QED
    BY <2>2, FS_CardinalityType
<1>10. Failures(c) = Cardinality(A) /\ Failures(d) = Cardinality(B)
  BY DEF Failures, A, B
<1> QED
  BY <1>4, <1>8, <1>9, <1>10 DEF d, more

(* One more event among the failures that only one reader tells.           *)
LEMMA FailedMore ==
    ASSUME NEW X, NEW events \in Seq(X), NEW e \in X, NEW one, NEW other
    PROVE  LET p == e.part
               fails == /\ e.type = "tool_use" /\ p.ok /\ p.status = "error"
                        /\ T!Decodes(p, one) /\ ~T!Decodes(p, other)
           IN /\ Cardinality(T!FailedFor(events, one, other)) \in Nat
              /\ Cardinality(T!FailedFor(Append(events, e), one, other))
                   = Cardinality(T!FailedFor(events, one, other)) + (IF fails THEN 1 ELSE 0)
<1> DEFINE more == Append(events, e)
           k == Len(events)
           A == T!FailedFor(events, one, other)
           B == T!FailedFor(more, one, other)
           p == e.part
           fails == /\ e.type = "tool_use" /\ p.ok /\ p.status = "error"
                    /\ T!Decodes(p, one) /\ ~T!Decodes(p, other)
<1>1. /\ k \in Nat /\ DOMAIN events = 1 .. k /\ DOMAIN more = 1 .. k + 1
      /\ more[k + 1] = e /\ \A i \in 1 .. k : more[i] = events[i]
  OBVIOUS
<1>2. k + 1 \in 1 .. k + 1 /\ \A i \in 1 .. k : i \in 1 .. k + 1
  BY <1>1
<1> HIDE DEF more, k
<1>3. A \in SUBSET (1 .. k) /\ B \in SUBSET (1 .. k + 1)
  BY <1>1 DEF T!FailedFor
<1>4. B \cap (1 .. k) = A
  BY <1>1, <1>2 DEF T!FailedFor
<1>5. k + 1 \in B <=> fails
  BY <1>1, <1>2 DEF T!FailedFor
<1> HIDE DEF A, B, fails
<1>6. /\ Cardinality(A) \in Nat
      /\ Cardinality(B) = Cardinality(A) + (IF k + 1 \in B THEN 1 ELSE 0)
  BY <1>1, <1>3, <1>4, CountAppend
<1>7. Cardinality(A) \in Nat /\ Cardinality(B) = Cardinality(A) + (IF fails THEN 1 ELSE 0)
  BY <1>5, <1>6
<1> QED
  BY <1>7 DEF A, B, fails, more

(* An event adds the same to the steps and to the metrics, or less to the  *)
(* steps where the property allows it.                                     *)
LEMMA EventMatches ==
    ASSUME NEW b \in Seq(Step), NEW m \in Observed, NEW X, \A e \in X : IsEvent(e),
           NEW events \in Seq(X), NEW e \in X, Match(b, m, events)
    PROVE  LET c == T!BuildStep(b, e)
               n == T!Observe(m, e, <<>>, {})
           IN c \in Seq(Step) /\ n \in Observed /\ Match(c, n, Append(events, e))
<1> DEFINE p == e.part
           c == T!BuildStep(b, e)
           n == T!Observe(m, e, <<>>, {})
           more == Append(events, e)
           k == Len(events)
           called == p.ok /\ e.type = "tool_use"
           ends == p.ok /\ e.type = "step_finish"
<1>0. IsEvent(e)
  OBVIOUS
<1>1. c \in Seq(Step) /\ ToldMore(e, b, c)
  BY <1>0, BuildTells
<1>2. n \in Observed /\ ObservedAs(e, m, n)
  BY <1>0, ObservesEvent
<1>3. /\ Retries(b) \in Int /\ Retries(c) \in Int /\ Total(b) \in Int /\ Total(c) \in Int
      /\ Cardinality(Ended(b)) \in Nat /\ Cardinality(Ended(c)) \in Nat
      /\ Calls(b) \in Seq(ToolCall)
  <2>1. T!NewStep(0) \in Step
    BY NewIsStep
  <2> QED
    BY <1>1, <2>1, SumsGrow, EndedGrow, CallsGrow
<1>4. m.byName \in Seq(STRING) /\ m.failed \in Int /\ m.retries \in Int /\ m.tokens.total \in Int
  BY DEF Observed, NameLists, Tokens, T!TokenFields
<1>5. /\ p.tool \in STRING /\ p.tokens \in Seq(Tokens)
  BY <1>0 DEF IsEvent
<1>6. /\ k \in Nat /\ DOMAIN events = 1 .. k /\ DOMAIN more = 1 .. k + 1
      /\ more[k + 1] = e /\ \A i \in 1 .. k : more[i] = events[i]
  OBVIOUS
<1>7. k + 1 \in 1 .. k + 1 /\ \A i \in 1 .. k : i \in 1 .. k + 1
  BY <1>6
<1> HIDE DEF c, n, more, k
<1>7a. /\ Cardinality(OnlyMeasured(events)) \in Nat
       /\ Cardinality(OnlyMeasured(more)) = Cardinality(OnlyMeasured(events))
            + (IF e.type = "tool_use" /\ p.ok /\ p.status = "error" /\ MetricsDecode(p) /\ ~TraceDecodes(p) THEN 1 ELSE 0)
  BY FailedMore DEF OnlyMeasured, MetricsDecode, TraceDecodes, more
<1>7b. /\ Cardinality(OnlyTold(events)) \in Nat
       /\ Cardinality(OnlyTold(more)) = Cardinality(OnlyTold(events))
            + (IF e.type = "tool_use" /\ p.ok /\ p.status = "error" /\ TraceDecodes(p) /\ ~MetricsDecode(p) THEN 1 ELSE 0)
  BY FailedMore DEF OnlyTold, MetricsDecode, TraceDecodes, more
<1>8. CallsMatch(c, n, more)
  <2>1. Retries(c) <= n.retries
    BY <1>1, <1>2, <1>3, <1>4 DEF Match, CallsMatch, ToldMore, ObservedAs
  <2>2. CASE called
    <3> DEFINE x == T!BuildTool(p)
    <3>1. x \in ToolCall /\ x.tool = p.tool
      BY <1>0, ToolIsCall DEF T!BuildTool
    <3>2. x.status = "error" <=> TraceDecodes(p) /\ p.status = "error"
      BY DEF T!BuildTool, TraceDecodes
    <3>3. Calls(c) = Append(Calls(b), x) /\ n.byName = Append(m.byName, p.tool)
      BY <1>1, <1>2, <2>2 DEF ToldMore, ObservedAs
    <3>4. n.failed = m.failed + (IF MetricsDecode(p) /\ p.status = "error" THEN 1 ELSE 0)
      BY <1>2, <2>2 DEF ObservedAs
    <3> HIDE DEF x
    <3>5. /\ SameNames(Calls(b), m.byName)
          /\ Failures(Calls(b)) + Cardinality(OnlyMeasured(events)) = m.failed + Cardinality(OnlyTold(events))
      BY DEF Match, CallsMatch
    <3>6. /\ SameNames(Calls(c), n.byName)
          /\ Failures(Calls(b)) \in Nat
          /\ Failures(Calls(c)) = Failures(Calls(b)) + (IF x.status = "error" THEN 1 ELSE 0)
      BY <1>3, <1>4, <1>5, <3>1, <3>3, <3>5, CallMatches
    <3>7. Failures(Calls(c)) = Failures(Calls(b)) + (IF TraceDecodes(p) /\ p.status = "error" THEN 1 ELSE 0)
      BY <3>2, <3>6
    <3>8. Failures(Calls(c)) + Cardinality(OnlyMeasured(more)) = n.failed + Cardinality(OnlyTold(more))
      <4> DEFINE told == TraceDecodes(p) /\ p.status = "error"
                 counted == MetricsDecode(p) /\ p.status = "error"
      <4>1. /\ Cardinality(OnlyMeasured(events)) \in Nat /\ Cardinality(OnlyTold(events)) \in Nat
            /\ Cardinality(OnlyMeasured(more))
                 = Cardinality(OnlyMeasured(events)) + (IF counted /\ ~told THEN 1 ELSE 0)
            /\ Cardinality(OnlyTold(more))
                 = Cardinality(OnlyTold(events)) + (IF told /\ ~counted THEN 1 ELSE 0)
        BY <1>7a, <1>7b, <2>2
      <4>2. /\ Failures(Calls(c)) = Failures(Calls(b)) + (IF told THEN 1 ELSE 0)
            /\ n.failed = m.failed + (IF counted THEN 1 ELSE 0)
        BY <3>4, <3>7
      <4> HIDE DEF told, counted
      <4> QED
        BY <1>4, <3>5, <3>6, <4>1, <4>2
    <3> QED
      BY <2>1, <3>6, <3>8 DEF CallsMatch
  <2>3. CASE ~called
    <3>1. Calls(c) = Calls(b) /\ n.byName = m.byName
      BY <1>1, <1>2, <2>3 DEF ToldMore, ObservedAs
    <3>2. n.failed = m.failed
      BY <1>2, <1>4, <2>3 DEF ObservedAs
    <3>3. /\ Cardinality(OnlyMeasured(more)) = Cardinality(OnlyMeasured(events))
          /\ Cardinality(OnlyTold(more)) = Cardinality(OnlyTold(events))
      BY <1>7a, <1>7b, <2>3
    <3> QED
      BY <2>1, <3>1, <3>2, <3>3 DEF Match, CallsMatch
  <2> QED
    BY <2>2, <2>3
<1>9. ASSUME AllUsed(more) PROVE TokensMatch(c, n, more)
  <2>1. /\ EndsIn(events) \in SUBSET (1 .. k) /\ EndsIn(more) \in SUBSET (1 .. k + 1)
        /\ (k + 1 \in EndsIn(more) <=> ends)
    BY <1>6, <1>7 DEF EndsIn
  <2>2. EndsIn(more) \cap (1 .. k) = EndsIn(events)
    BY <1>6, <1>7 DEF EndsIn
  <2>3. /\ Cardinality(EndsIn(events)) \in Nat
        /\ Cardinality(EndsIn(more)) = Cardinality(EndsIn(events)) + (IF ends THEN 1 ELSE 0)
    <3>1. /\ Cardinality(EndsIn(events)) \in Nat
          /\ Cardinality(EndsIn(more)) = Cardinality(EndsIn(events)) + (IF k + 1 \in EndsIn(more) THEN 1 ELSE 0)
      BY <1>6, <2>1, <2>2, CountAppend
    <3> QED
      BY <2>1, <3>1
  <2>4. AllUsed(events)
    BY <1>6, <1>9, <2>2 DEF AllUsed
  <2>5. TokensMatch(b, m, events)
    BY <2>4 DEF Match
  <2>6. ends => p.tokens # <<>> /\ p.tokens[1].total > 0
    BY <1>6, <1>9, <2>1 DEF AllUsed
  <2>7. CASE ends
    <3>1. /\ NoneNegative(c)
          /\ \/ Cardinality(Ended(c)) = Cardinality(Ended(b))
             \/ /\ Cardinality(Ended(c)) = Cardinality(Ended(b)) + 1
                /\ Total(c) = Total(b) + p.tokens[1].total
      BY <1>1, <2>5, <2>6, <2>7 DEF ToldMore, TokensMatch
    <3>2. n.tokens.total = m.tokens.total + p.tokens[1].total
      BY <1>2, <2>6, <2>7 DEF ObservedAs
    <3>3. /\ Cardinality(Ended(b)) <= Cardinality(EndsIn(events))
          /\ Cardinality(Ended(b)) = Cardinality(EndsIn(events)) => Total(b) = m.tokens.total
      BY <2>5 DEF TokensMatch
    <3>4. Cardinality(EndsIn(more)) = Cardinality(EndsIn(events)) + 1
      BY <2>3, <2>7
    <3>5. /\ Cardinality(Ended(c)) <= Cardinality(EndsIn(more))
          /\ Cardinality(Ended(c)) = Cardinality(EndsIn(more)) => Total(c) = n.tokens.total
      BY <1>3, <2>3, <3>1, <3>2, <3>3, <3>4
    <3> QED
      BY <3>1, <3>5 DEF TokensMatch
  <2>8. CASE ~ends
    <3>1. /\ Total(c) = Total(b) /\ Cardinality(Ended(c)) = Cardinality(Ended(b))
          /\ NoneNegative(b) => NoneNegative(c)
      BY <1>1, <2>8 DEF ToldMore
    <3>2. n.tokens.total = m.tokens.total
      BY <1>2, <1>4, <2>8 DEF ObservedAs
    <3> QED
      BY <2>3, <2>5, <2>8, <3>1, <3>2 DEF TokensMatch
  <2> QED
    BY <2>7, <2>8
<1> QED
  BY <1>1, <1>2, <1>8, <1>9 DEF Match, c, n, more

Built(events) == T!Build(events, {}).steps
Measured(lines) == T!Metrics(lines, <<>>, {})
IsLine(l) == l.json \in BOOLEAN /\ (l.json => IsEvent(l.event))

LEMMA ObservesLine ==
    ASSUME NEW m \in Observed, NEW l, IsLine(l)
    PROVE  T!ObserveLine(m, l, <<>>, {}) \in Observed
<1>1. CASE l.json /\ l.event.type # ""
  <2>1. T!ParseLine(l) = <<l.event>> /\ <<l.event>> # <<>> /\ <<l.event>>[1] = l.event
    BY <1>1 DEF T!ParseLine
  <2>2. T!ObserveLine(m, l, <<>>, {}) = T!Observe(m, l.event, <<>>, {})
    BY <2>1 DEF T!ObserveLine
  <2> QED
    BY <1>1, <2>2, ObservesEvent DEF IsLine
<1>2. CASE ~(l.json /\ l.event.type # "")
  <2>1. T!ParseLine(l) = <<>>
    BY <1>2 DEF T!ParseLine
  <2>2. T!ObserveLine(m, l, <<>>, {}) = [m EXCEPT !.errors = @ + 1]
    BY <2>1 DEF T!ObserveLine
  <2> QED
    BY <2>2, ErrorObserved
<1> QED
  BY <1>1, <1>2

(* The steps, one event at a time.                                          *)
LEMMA BuildSteps ==
    ASSUME NEW X, \A e \in X : IsEvent(e), NEW events \in Seq(X)
    PROVE  \E f : States(f, Len(events), Seq(Step), <<>>,
                         [p \in (1 .. Len(events)) \X Seq(Step) |-> T!BuildStep(p[2], events[p[1]])], Built(events))
<1> DEFINE n == Len(events)
           R == Seq(Step)
           base == <<>>
           d(r, k) == T!BuildStep(r, events[k])
           step == [p \in (1 .. n) \X R |-> T!BuildStep(p[2], events[p[1]])]
           Eq(g) == g = [s \in SUBSET (1 .. n) |->
                          IF s = {} THEN base ELSE d(g[s \ {Max(s)}], Max(s))]
           it == CHOOSE g : Eq(g)
<1>1. n \in Nat /\ DOMAIN events = 1 .. n /\ \A k \in 1 .. n : events[k] \in X
  OBVIOUS
<1>2. Built(events) = it[1 .. n]
  BY <1>1 DEF Built, T!Build, T!FoldLeft, T!MapThenFoldSet, T!Max, Max
<1>3. base \in R /\ \A r \in R, k \in 1 .. n : d(r, k) \in R
  BY <1>1, BuildTells
<1>4. \A k \in 1 .. n, r \in R : step[<<k, r>>] = d(r, k)
  OBVIOUS
<1>5. step \in [(1 .. n) \X R -> R]
  <2> HIDE DEF d
  <2>1. step = [p \in (1 .. n) \X R |-> d(p[2], p[1])]
    BY DEF d
  <2> HIDE DEF step, R
  <2> QED
    BY <1>3, <2>1
<1> HIDE DEF base, R, d, step
<1>6. PICK f \in [SUBSET (1 .. n) -> R] : LastFold(f, n, R, base, step)
  BY <1>1, <1>3, <1>5, PrefixFold
<1>7. ASSUME NEW s \in SUBSET (1 .. n), s # {}
      PROVE  f[s] = d(f[s \ {Max(s)}], Max(s))
  <2>1. Max(s) \in 1 .. n /\ f[s \ {Max(s)}] \in R
    BY <1>1, <1>6, <1>7, MaxIsIn
  <2> QED
    BY <1>4, <1>6, <1>7, <2>1 DEF LastFold
<1>8. Eq(it)
  <2>1. Eq(f)
    BY <1>6, <1>7 DEF LastFold
  <2> QED
    BY <2>1
<1> HIDE DEF it
<1>9. LastFold(it, n, R, base, step)
  <2>1. ASSUME NEW s \in SUBSET (1 .. n), s # {}, it[s \ {Max(s)}] \in R
        PROVE  it[s] = step[<<Max(s), it[s \ {Max(s)}]>>]
    <3>1. Max(s) \in 1 .. n
      BY <1>1, <2>1, MaxIsIn
    <3>2. it[s] = d(it[s \ {Max(s)}], Max(s))
      BY <1>8, <2>1
    <3> QED
      BY <1>4, <2>1, <3>1, <3>2
  <2>2. it[{}] = base
    BY <1>8
  <2> QED
    BY <2>1, <2>2 DEF LastFold
<1>10. \E F : States(F, n, R, base, step, it[1 .. n])
  BY <1>1, <1>3, <1>5, <1>9, FoldStates
<1> QED
  BY <1>2, <1>10 DEF R, base, step, n

(* The metrics, one line at a time.                                         *)
LEMMA MetricsSteps ==
    ASSUME NEW X, \A l \in X : IsLine(l), NEW lines \in Seq(X)
    PROVE  \E f : States(f, Len(lines), Observed, T!NewMetrics,
                         [p \in (1 .. Len(lines)) \X Observed |-> T!ObserveLine(p[2], lines[p[1]], <<>>, {})], Measured(lines))
<1> DEFINE n == Len(lines)
           R == Observed
           base == T!NewMetrics
           d(r, k) == T!ObserveLine(r, lines[k], <<>>, {})
           step == [p \in (1 .. n) \X R |-> T!ObserveLine(p[2], lines[p[1]], <<>>, {})]
           Eq(g) == g = [s \in SUBSET (1 .. n) |->
                          IF s = {} THEN base ELSE d(g[s \ {Max(s)}], Max(s))]
           it == CHOOSE g : Eq(g)
<1>1. n \in Nat /\ DOMAIN lines = 1 .. n /\ \A k \in 1 .. n : lines[k] \in X
  OBVIOUS
<1>2. Measured(lines) = it[1 .. n]
  BY <1>1 DEF Measured, T!Metrics, T!FoldLeft, T!MapThenFoldSet, T!Max, Max
<1>3. base \in R /\ \A r \in R, k \in 1 .. n : d(r, k) \in R
  BY <1>1, ObservesLine, NewIsObserved
<1>4. \A k \in 1 .. n, r \in R : step[<<k, r>>] = d(r, k)
  OBVIOUS
<1>5. step \in [(1 .. n) \X R -> R]
  <2> HIDE DEF d
  <2>1. step = [p \in (1 .. n) \X R |-> d(p[2], p[1])]
    BY DEF d
  <2> HIDE DEF step, R
  <2> QED
    BY <1>3, <2>1
<1> HIDE DEF base, R, d, step
<1>6. PICK f \in [SUBSET (1 .. n) -> R] : LastFold(f, n, R, base, step)
  BY <1>1, <1>3, <1>5, PrefixFold
<1>7. ASSUME NEW s \in SUBSET (1 .. n), s # {}
      PROVE  f[s] = d(f[s \ {Max(s)}], Max(s))
  <2>1. Max(s) \in 1 .. n /\ f[s \ {Max(s)}] \in R
    BY <1>1, <1>6, <1>7, MaxIsIn
  <2> QED
    BY <1>4, <1>6, <1>7, <2>1 DEF LastFold
<1>8. Eq(it)
  <2>1. Eq(f)
    BY <1>6, <1>7 DEF LastFold
  <2> QED
    BY <2>1
<1> HIDE DEF it
<1>9. LastFold(it, n, R, base, step)
  <2>1. ASSUME NEW s \in SUBSET (1 .. n), s # {}, it[s \ {Max(s)}] \in R
        PROVE  it[s] = step[<<Max(s), it[s \ {Max(s)}]>>]
    <3>1. Max(s) \in 1 .. n
      BY <1>1, <2>1, MaxIsIn
    <3>2. it[s] = d(it[s \ {Max(s)}], Max(s))
      BY <1>8, <2>1
    <3> QED
      BY <1>4, <2>1, <3>1, <3>2
  <2>2. it[{}] = base
    BY <1>8
  <2> QED
    BY <2>1, <2>2 DEF LastFold
<1>10. \E F : States(F, n, R, base, step, it[1 .. n])
  BY <1>1, <1>3, <1>5, <1>9, FoldStates
<1> QED
  BY <1>2, <1>10 DEF R, base, step, n

(* One event more.                                                          *)
LEMMA BuildMore ==
    ASSUME NEW X, \A e \in X : IsEvent(e)
    PROVE  /\ Built(<<>>) = <<>>
           /\ \A events \in Seq(X) : Built(events) \in Seq(Step)
           /\ \A events \in Seq(X), e \in X : Built(Append(events, e)) = T!BuildStep(Built(events), e)
<1>1. Built(<<>>) = <<>>
  <2> DEFINE q == <<>>
             step == [p \in (1 .. Len(q)) \X Seq(Step) |-> T!BuildStep(p[2], q[p[1]])]
  <2>1. q \in Seq(X) /\ Len(q) = 0
    OBVIOUS
  <2> HIDE DEF q
  <2>2. PICK f : States(f, Len(q), Seq(Step), <<>>, step, Built(q))
    BY <2>1, BuildSteps
  <2> HIDE DEF step
  <2>3. Built(q) = <<>>
    BY <2>1, <2>2 DEF States
  <2> QED
    BY <2>3 DEF q
<1>2. ASSUME NEW events \in Seq(X), NEW e \in X
      PROVE  Built(Append(events, e)) = T!BuildStep(Built(events), e)
  <2> DEFINE n == Len(events)
             q == Append(events, e)
             R == Seq(Step)
             base == <<>>
             step == [p \in (1 .. n) \X R |-> T!BuildStep(p[2], events[p[1]])]
             next1 == [p \in (1 .. n + 1) \X R |-> T!BuildStep(p[2], q[p[1]])]
  <2>1. q \in Seq(X) /\ Len(q) = n + 1 /\ q[n + 1] = e /\ n \in Nat /\ \A k \in 1 .. n : q[k] = events[k]
    OBVIOUS
  <2> HIDE DEF q
  <2>2. PICK F : States(F, n, R, base, step, Built(events))
    BY BuildSteps
  <2>3. PICK G : States(G, n + 1, R, base, next1, Built(q))
    <3>1. \E G : States(G, Len(q), R, base, [p \in (1 .. Len(q)) \X R |-> T!BuildStep(p[2], q[p[1]])], Built(q))
      BY <2>1, BuildSteps
    <3> QED
      BY <2>1, <3>1
  <2>4. \A k \in 1 .. n, r \in R : step[<<k, r>>] = T!BuildStep(r, events[k])
    OBVIOUS
  <2>5. \A k \in 1 .. n + 1, r \in R : next1[<<k, r>>] = T!BuildStep(r, q[k])
    OBVIOUS
  <2>5a. \A k \in 1 .. n : k \in 1 .. n + 1
    BY <2>1
  <2> HIDE DEF step, next1, R, base, n
  <2>6. \A k \in 1 .. n, r \in R : next1[<<k, r>>] = step[<<k, r>>]
    BY <2>1, <2>4, <2>5, <2>5a
  <2>7. Built(events) \in R /\ Built(q) = next1[<<n + 1, Built(events)>>]
    BY <2>1, <2>2, <2>3, <2>6, FoldMore
  <2>8. n + 1 \in 1 .. n + 1
    BY <2>1
  <2>9. Built(q) = T!BuildStep(Built(events), e)
    BY <2>1, <2>5, <2>7, <2>8
  <2> QED
    BY <2>9 DEF q
<1>3. ASSUME NEW events \in Seq(X) PROVE Built(events) \in Seq(Step)
  <2> DEFINE n == Len(events)
             step == [p \in (1 .. n) \X Seq(Step) |-> T!BuildStep(p[2], events[p[1]])]
  <2>1. PICK f : States(f, n, Seq(Step), <<>>, step, Built(events))
    BY BuildSteps
  <2>2. n \in 0 .. n
    OBVIOUS
  <2> HIDE DEF step, n
  <2> QED
    BY <2>1, <2>2 DEF States
<1> QED
  BY <1>1, <1>2, <1>3

(* One line more.                                                           *)
LEMMA MeasureMore ==
    ASSUME NEW X, \A l \in X : IsLine(l)
    PROVE  /\ Measured(<<>>) = T!NewMetrics
           /\ \A lines \in Seq(X) : Measured(lines) \in Observed
           /\ \A lines \in Seq(X), l \in X : Measured(Append(lines, l)) = T!ObserveLine(Measured(lines), l, <<>>, {})
<1>1. Measured(<<>>) = T!NewMetrics
  <2> DEFINE q == <<>>
             step == [p \in (1 .. Len(q)) \X Observed |-> T!ObserveLine(p[2], q[p[1]], <<>>, {})]
  <2>1. q \in Seq(X) /\ Len(q) = 0
    OBVIOUS
  <2> HIDE DEF q
  <2>2. PICK f : States(f, Len(q), Observed, T!NewMetrics, step, Measured(q))
    BY <2>1, MetricsSteps
  <2> HIDE DEF step
  <2>3. Measured(q) = T!NewMetrics
    BY <2>1, <2>2 DEF States
  <2> QED
    BY <2>3 DEF q
<1>2. ASSUME NEW lines \in Seq(X), NEW l \in X
      PROVE  Measured(Append(lines, l)) = T!ObserveLine(Measured(lines), l, <<>>, {})
  <2> DEFINE n == Len(lines)
             q == Append(lines, l)
             R == Observed
             base == T!NewMetrics
             step == [p \in (1 .. n) \X R |-> T!ObserveLine(p[2], lines[p[1]], <<>>, {})]
             next1 == [p \in (1 .. n + 1) \X R |-> T!ObserveLine(p[2], q[p[1]], <<>>, {})]
  <2>1. q \in Seq(X) /\ Len(q) = n + 1 /\ q[n + 1] = l /\ n \in Nat /\ \A k \in 1 .. n : q[k] = lines[k]
    OBVIOUS
  <2> HIDE DEF q
  <2>2. PICK F : States(F, n, R, base, step, Measured(lines))
    BY MetricsSteps
  <2>3. PICK G : States(G, n + 1, R, base, next1, Measured(q))
    <3>1. \E G : States(G, Len(q), R, base, [p \in (1 .. Len(q)) \X R |-> T!ObserveLine(p[2], q[p[1]], <<>>, {})], Measured(q))
      BY <2>1, MetricsSteps
    <3> QED
      BY <2>1, <3>1
  <2>4. \A k \in 1 .. n, r \in R : step[<<k, r>>] = T!ObserveLine(r, lines[k], <<>>, {})
    OBVIOUS
  <2>5. \A k \in 1 .. n + 1, r \in R : next1[<<k, r>>] = T!ObserveLine(r, q[k], <<>>, {})
    OBVIOUS
  <2>5a. \A k \in 1 .. n : k \in 1 .. n + 1
    BY <2>1
  <2> HIDE DEF step, next1, R, base, n
  <2>6. \A k \in 1 .. n, r \in R : next1[<<k, r>>] = step[<<k, r>>]
    <3> SUFFICES ASSUME NEW k \in 1 .. n, NEW r \in R PROVE next1[<<k, r>>] = step[<<k, r>>]
      OBVIOUS
    <3>1. next1[<<k, r>>] = T!ObserveLine(r, q[k], <<>>, {}) /\ q[k] = lines[k]
      BY <2>1, <2>5, <2>5a
    <3>2. step[<<k, r>>] = T!ObserveLine(r, lines[k], <<>>, {})
      BY <2>4
    <3> QED
      BY <3>1, <3>2
  <2>7. Measured(lines) \in R /\ Measured(q) = next1[<<n + 1, Measured(lines)>>]
    <3> DEFINE last == Measured(lines)
               end == Measured(q)
    <3>1. n \in Nat /\ States(F, n, R, base, step, last) /\ States(G, n + 1, R, base, next1, end)
      BY <2>1, <2>2, <2>3
    <3> HIDE DEF last, end
    <3>2. last \in R /\ end = next1[<<n + 1, last>>]
      BY <2>6, <3>1, FoldMore
    <3> QED
      BY <3>2 DEF last, end
  <2>8. n + 1 \in 1 .. n + 1
    BY <2>1
  <2>9. Measured(q) = T!ObserveLine(Measured(lines), l, <<>>, {})
    BY <2>1, <2>5, <2>7, <2>8
  <2> QED
    BY <2>9 DEF q
<1>3. ASSUME NEW lines \in Seq(X) PROVE Measured(lines) \in Observed
  <2> DEFINE n == Len(lines)
             step == [p \in (1 .. n) \X Observed |-> T!ObserveLine(p[2], lines[p[1]], <<>>, {})]
  <2>1. PICK f : States(f, n, Observed, T!NewMetrics, step, Measured(lines))
    BY MetricsSteps
  <2>2. n \in 0 .. n
    OBVIOUS
  <2> HIDE DEF step, n
  <2> QED
    BY <2>1, <2>2 DEF States
<1> QED
  BY <1>1, <1>2, <1>3

(* One line more, at most one event more.                                  *)
LEMMA StoredMore ==
    ASSUME NEW X, NEW Y, \A l \in X : T!ParseLine(l) \in Seq(Y)
    PROVE  /\ T!StoredEvents(<<>>) = <<>>
           /\ \A lines \in Seq(X) : T!StoredEvents(lines) \in Seq(Y)
           /\ \A lines \in Seq(X), l \in X :
                T!StoredEvents(Append(lines, l)) = T!StoredEvents(lines) \o T!ParseLine(l)
<1>1. T!StoredEvents(<<>>) = <<>>
  <2>1. DOMAIN <<>> = {}
    OBVIOUS
  <2>2. [i \in DOMAIN <<>> |-> T!ParseLine(<<>>[i])] = <<>>
    BY <2>1
  <2> QED
    BY <2>2, OneFlatten, FlattenNone DEF T!StoredEvents
<1>2. ASSUME NEW lines \in Seq(X), NEW l \in X
      PROVE  T!StoredEvents(Append(lines, l)) = T!StoredEvents(lines) \o T!ParseLine(l)
  <2> DEFINE n == Len(lines)
             c == Append(lines, l)
             q == [i \in DOMAIN lines |-> T!ParseLine(lines[i])]
             d == [i \in DOMAIN c |-> T!ParseLine(c[i])]
             Z == Seq(Y)
  <2>1. /\ n \in Nat /\ DOMAIN lines = 1 .. n /\ \A i \in 1 .. n : lines[i] \in X
        /\ DOMAIN c = 1 .. n + 1 /\ c[n + 1] = l /\ \A i \in 1 .. n : c[i] = lines[i]
    OBVIOUS
  <2>2. \A i \in 1 .. n + 1 : i \in 1 .. n \/ i = n + 1
    BY <2>1
  <2>3. T!ParseLine(l) \in Z /\ \A x \in X : T!ParseLine(x) \in Z
    OBVIOUS
  <2> HIDE DEF n, c, Z
  <2>4. q \in Seq(Z) /\ Len(q) = n /\ \A i \in 1 .. n : q[i] = T!ParseLine(lines[i])
    BY <2>1, <2>3
  <2>5. \A i \in 1 .. n + 1 : c[i] \in X
    BY <2>1, <2>2
  <2>6. d \in Seq(Z) /\ Len(d) = n + 1 /\ \A i \in 1 .. n + 1 : d[i] = T!ParseLine(c[i])
    BY <2>1, <2>3, <2>5
  <2> HIDE DEF q, d
  <2>7. d = Append(q, T!ParseLine(l))
    BY <2>1, <2>2, <2>3, <2>4, <2>6
  <2>8. FlattenSeq(Append(q, T!ParseLine(l))) = FlattenSeq(q) \o T!ParseLine(l)
    BY <2>3, <2>4, FlattenAppend DEF Z
  <2>9. T!StoredEvents(lines) = FlattenSeq(q) /\ T!StoredEvents(c) = FlattenSeq(d)
    BY OneFlatten DEF T!StoredEvents, q, d
  <2> QED
    BY <2>7, <2>8, <2>9 DEF c
<1>3. ASSUME NEW lines \in Seq(X) PROVE T!StoredEvents(lines) \in Seq(Y)
  <2> DEFINE n == Len(lines)
             q == [i \in DOMAIN lines |-> T!ParseLine(lines[i])]
             Z == Seq(Y)
  <2>1. n \in Nat /\ DOMAIN lines = 1 .. n /\ \A i \in 1 .. n : lines[i] \in X
    OBVIOUS
  <2>2. \A x \in X : T!ParseLine(x) \in Z
    OBVIOUS
  <2> HIDE DEF n, Z
  <2>3. q \in Seq(Z)
    BY <2>1, <2>2
  <2> HIDE DEF q
  <2>4. FlattenSeq(q) \in Seq(Y)
    BY <2>3, FlattenTyped DEF Z
  <2> QED
    BY <2>4, OneFlatten DEF T!StoredEvents, q
<1> QED
  BY <1>1, <1>2, <1>3

(* A line that is no event is an error to the metrics and nothing to the   *)
(* trace.                                                                  *)
LEMMA LineMatches ==
    ASSUME NEW b \in Seq(Step), NEW m \in Observed, NEW X, \A e \in X : IsEvent(e),
           NEW events \in Seq(X), Match(b, m, events), NEW l, IsLine(l), l.json => l.event \in X
    PROVE  LET n == T!ObserveLine(m, l, <<>>, {})
           IN \/ T!ParseLine(l) = <<>> /\ Match(b, n, events)
              \/ /\ l.event \in X /\ T!ParseLine(l) = <<l.event>>
                 /\ Match(T!BuildStep(b, l.event), n, Append(events, l.event))
<1>1. CASE l.json /\ l.event.type # ""
  <2>1. T!ParseLine(l) = <<l.event>> /\ <<l.event>> # <<>> /\ <<l.event>>[1] = l.event
    BY <1>1 DEF T!ParseLine
  <2>2. T!ObserveLine(m, l, <<>>, {}) = T!Observe(m, l.event, <<>>, {})
    BY <2>1 DEF T!ObserveLine
  <2>3. l.event \in X
    BY <1>1
  <2> QED
    BY <2>1, <2>2, <2>3, EventMatches
<1>2. CASE ~(l.json /\ l.event.type # "")
  <2> DEFINE n == [m EXCEPT !.errors = @ + 1]
  <2>1. T!ParseLine(l) = <<>>
    BY <1>2 DEF T!ParseLine
  <2>2. T!ObserveLine(m, l, <<>>, {}) = n
    BY <2>1 DEF T!ObserveLine
  <2>3. n.byName = m.byName /\ n.failed = m.failed /\ n.retries = m.retries /\ n.tokens = m.tokens
    BY ErrorObserved
  <2> HIDE DEF n
  <2>4. Match(b, n, events)
    BY <2>3 DEF Match, CallsMatch, TokensMatch
  <2> QED
    BY <2>1, <2>2, <2>4
<1> QED
  BY <1>1, <1>2

LEMMA LinesAreLines == \A l \in Lines : IsLine(l) /\ (l.json => l.event \in Events)
BY LinesAssumption, EventsAreEvents DEF IsLine, Events

(* The steps and the metrics after the whole stream.                       *)
LEMMA StreamMatches ==
    ASSUME NEW lines \in Seq(Lines)
    PROVE  /\ T!StoredEvents(lines) \in Seq(Events)
           /\ Built(T!StoredEvents(lines)) \in Seq(Step) /\ Measured(lines) \in Observed
           /\ Match(Built(T!StoredEvents(lines)), Measured(lines), T!StoredEvents(lines))
<1> DEFINE n == Len(lines)
           first(k) == SubSeq(lines, 1, k)
           stored(k) == T!StoredEvents(first(k))
           Good == {k \in 0 .. n : Match(Built(stored(k)), Measured(first(k)), stored(k))}
<1>1. ASSUME NEW l \in Lines PROVE T!ParseLine(l) \in Seq(Events)
  <2>1. CASE l.json /\ l.event.type # ""
    <3>1. l.event \in Events
      BY <2>1, LinesAreLines
    <3>2. T!ParseLine(l) = <<l.event>>
      BY <2>1 DEF T!ParseLine
    <3> QED
      BY <3>1, <3>2
  <2>2. CASE ~(l.json /\ l.event.type # "")
    <3>1. T!ParseLine(l) = <<>>
      BY <2>2 DEF T!ParseLine
    <3> QED
      BY <3>1
  <2> QED
    BY <2>1, <2>2
<1>2. \A e \in Events : IsEvent(e)
  BY EventsAreEvents
<1>3. \A l \in Lines : IsLine(l)
  BY LinesAreLines
<1>4. n \in Nat /\ first(0) = <<>> /\ first(n) = lines
  OBVIOUS
<1>5. ASSUME NEW k \in 1 .. n
      PROVE  first(k - 1) \in Seq(Lines) /\ lines[k] \in Lines /\ first(k) = Append(first(k - 1), lines[k])
  OBVIOUS
<1>6. /\ T!StoredEvents(<<>>) = <<>>
      /\ \A q \in Seq(Lines) : T!StoredEvents(q) \in Seq(Events)
      /\ \A q \in Seq(Lines), l \in Lines :
           T!StoredEvents(Append(q, l)) = T!StoredEvents(q) \o T!ParseLine(l)
  BY <1>1, StoredMore
<1>7. /\ Built(<<>>) = <<>>
      /\ \A q \in Seq(Events) : Built(q) \in Seq(Step)
      /\ \A q \in Seq(Events), e \in Events : Built(Append(q, e)) = T!BuildStep(Built(q), e)
  BY <1>2, BuildMore
<1>8. /\ Measured(<<>>) = T!NewMetrics
      /\ \A q \in Seq(Lines) : Measured(q) \in Observed
      /\ \A q \in Seq(Lines), l \in Lines :
           Measured(Append(q, l)) = T!ObserveLine(Measured(q), l, <<>>, {})
  BY <1>3, MeasureMore
<1> HIDE DEF n, first
<1>9. 0 \in Good
  BY <1>4, <1>6, <1>7, <1>8, NothingMatches
<1>10. ASSUME NEW k \in 1 .. n, k - 1 \in Good PROVE k \in Good
  <2> DEFINE q == first(k - 1)
             l == lines[k]
             events == T!StoredEvents(q)
             b == Built(events)
             m == Measured(q)
             o == T!ObserveLine(m, l, <<>>, {})
  <2>1. q \in Seq(Lines) /\ l \in Lines /\ first(k) = Append(q, l)
    BY <1>5
  <2>2. events \in Seq(Events) /\ T!StoredEvents(Append(q, l)) = events \o T!ParseLine(l)
    BY <1>6, <2>1
  <2>3. m \in Observed /\ Measured(Append(q, l)) = o
    BY <1>8, <2>1
  <2>4. IsLine(l) /\ (l.json => l.event \in Events)
    BY <2>1, LinesAreLines
  <2>5. Match(b, m, events)
    BY <1>10
  <2> HIDE DEF q, l, events
  <2>6. b \in Seq(Step) /\ \A e \in Events : Built(Append(events, e)) = T!BuildStep(b, e)
    BY <1>7, <2>2
  <2>6a. k \in 0 .. n /\ (k \in Good <=>
           Match(Built(T!StoredEvents(first(k))), Measured(first(k)), T!StoredEvents(first(k))))
    BY <1>4
  <2> HIDE DEF o, m
  <2>7. CASE T!ParseLine(l) = <<>> /\ Match(b, o, events)
    <3>1. T!StoredEvents(Append(q, l)) = events
      BY <2>2, <2>7
    <3>2. Match(Built(T!StoredEvents(Append(q, l))), Measured(Append(q, l)), T!StoredEvents(Append(q, l)))
      BY <2>3, <2>7, <3>1
    <3> QED
      BY <2>1, <2>6a, <3>2
  <2>8. CASE /\ l.event \in Events /\ T!ParseLine(l) = <<l.event>>
             /\ Match(T!BuildStep(b, l.event), o, Append(events, l.event))
    <3>1. events \o <<l.event>> = Append(events, l.event)
      BY <2>2, <2>8
    <3>2. T!StoredEvents(Append(q, l)) = Append(events, l.event)
      BY <2>2, <2>8, <3>1
    <3>3. Built(T!StoredEvents(Append(q, l))) = T!BuildStep(b, l.event)
      BY <2>6, <2>8, <3>2
    <3>4. Match(Built(T!StoredEvents(Append(q, l))), Measured(Append(q, l)), T!StoredEvents(Append(q, l)))
      BY <2>3, <2>8, <3>2, <3>3
    <3> QED
      BY <2>1, <2>6a, <3>4
  <2> HIDE DEF b
  <2>9. \/ T!ParseLine(l) = <<>> /\ Match(b, o, events)
        \/ /\ l.event \in Events /\ T!ParseLine(l) = <<l.event>>
           /\ Match(T!BuildStep(b, l.event), o, Append(events, l.event))
    BY <1>2, <2>2, <2>3, <2>4, <2>5, <2>6, LineMatches DEF o
  <2> QED
    BY <2>7, <2>8, <2>9
<1>11. \A k \in 0 .. n : k \in Good
  <2> HIDE DEF Good
  <2> QED
    BY <1>4, <1>9, <1>10, Upwards
<1>12. n \in 0 .. n
  BY <1>4
<1>13. Match(Built(stored(n)), Measured(first(n)), stored(n))
  BY <1>11, <1>12
<1>14. /\ T!StoredEvents(lines) \in Seq(Events)
       /\ Built(T!StoredEvents(lines)) \in Seq(Step) /\ Measured(lines) \in Observed
  BY <1>6, <1>7, <1>8
<1> QED
  BY <1>4, <1>13, <1>14

(* Only the lines printed so far are the input.                            *)
TraceInv == command = "trace" => input \in Seq(Lines)

LEMMA TraceInputAlways == Spec => []TraceInv
<1>1. Init => TraceInv
  BY DEF Init, TraceInv, EmptyInput
<1>2. TraceInv /\ [Next]_vars => TraceInv'
  <2> SUFFICES ASSUME TraceInv, [Next]_vars, command' = "trace" PROVE input' \in Seq(Lines)
    BY DEF TraceInv
  <2>1. /\ command = "trace"
        /\ \/ input' = input
           \/ PrintLine \/ SayMessage \/ Snapshot \/ RecordRun \/ RecordCell \/ AddSegment
    BY InputSteps
  <2>2. input \in Seq(Lines)
    BY <2>1 DEF TraceInv
  <2>3. CASE PrintLine
    BY <2>2, <2>3 DEF PrintLine
  <2>4. CASE SayMessage \/ Snapshot \/ RecordRun \/ RecordCell \/ AddSegment
    BY <2>1, <2>4 DEF SayMessage, Snapshot, RecordRun, RecordCell, AddSegment, Growing, Given
  <2> QED
    BY <2>1, <2>2, <2>3, <2>4
<1> QED
  BY <1>1, <1>2, PTL DEF Spec

LEMMA OneCardinality == \A S : T!Cardinality(S) = Cardinality(S)
BY DEF T!Cardinality, Cardinality

(* Whatever was printed, the trace tells the calls that the metrics count, *)
(* in their order; as many failures, but for the calls whose state only    *)
(* one of the two can decode; and all tokens if every step ended once,     *)
(* with some: trace.Build, Metrics.Observe.                                *)
THEOREM TraceIsMeasured == Spec => []TraceMatchesMetrics
<1>1. ASSUME TraceInv PROVE TraceMatchesMetrics
  <2> SUFFICES ASSUME command = "trace" PROVE T!TraceMatchesMetrics(input)
    BY DEF TraceMatchesMetrics
  <2> DEFINE lines == input
             m == Measured(lines)
             events == T!StoredEvents(lines)
             b == Built(events)
             c == Calls(b)
  <2>1. lines \in Seq(Lines)
    BY <1>1 DEF TraceInv
  <2> HIDE DEF lines
  <2>2. /\ events \in Seq(Events) /\ b \in Seq(Step) /\ m \in Observed
        /\ CallsMatch(b, m, events) /\ (AllUsed(events) => TokensMatch(b, m, events))
    BY <2>1, StreamMatches DEF Match
  <2>3. c \in Seq(ToolCall)
    <3>1. T!NewStep(0) \in Step
      BY NewIsStep
    <3> QED
      BY <2>2, <3>1, CallsGrow
  <2>4. m.byName \in Seq(STRING)
    BY <2>2 DEF Observed, NameLists
  <2>5. [i \in DOMAIN c |-> c[i].tool] = m.byName
    <3>1. Len(c) = Len(m.byName) /\ \A i \in 1 .. Len(m.byName) : c[i].tool = m.byName[i]
      BY <2>2 DEF CallsMatch, SameNames
    <3> HIDE DEF c, m
    <3> QED
      BY <2>3, <2>4, <3>1
  <2>6. /\ Cardinality({i \in DOMAIN c : c[i].status = "error"}) + Cardinality(OnlyMeasured(events))
           = m.failed + Cardinality(OnlyTold(events))
        /\ Retries(b) <= m.retries
    BY <2>2 DEF CallsMatch, Failures
  <2>7. ASSUME Cardinality(EndsIn(events)) = Cardinality(Ended(b)), AllUsed(events)
        PROVE  Total(b) = m.tokens.total
    BY <2>2, <2>7 DEF TokensMatch
  <2>8. T!TraceMatchesMetrics(lines) <=>
          /\ [i \in DOMAIN c |-> c[i].tool] = m.byName
          /\ Cardinality({i \in DOMAIN c : c[i].status = "error"}) + Cardinality(OnlyMeasured(events))
             = m.failed + Cardinality(OnlyTold(events))
          /\ Retries(b) <= m.retries
          /\ Cardinality(EndsIn(events)) = Cardinality(Ended(b)) /\ AllUsed(events)
             => Total(b) = m.tokens.total
    BY OneCardinality
       DEF T!TraceMatchesMetrics, Measured, Built, Calls, Retries, Total, Ended, EndsIn, AllUsed,
           OnlyMeasured, OnlyTold
  <2> HIDE DEF b, c, m, events
  <2>9. T!TraceMatchesMetrics(lines)
    BY <2>5, <2>6, <2>7, <2>8
  <2> QED
    BY <2>9 DEF lines
<1> QED
  BY <1>1, TraceInputAlways, PTL

(***************************************************************************)
(* Snapshots                                                               *)
(***************************************************************************)

(* The profiles stored with the first n snapshots.                         *)
StoredBy(s, n) == {s[j].row : j \in {k \in 1 .. n : s[k].created}}
ChangesFrom(previous, p) == IF previous = <<>> THEN {} ELSE H!Diff(previous[1].hash, p)

(* What a snapshot was told by those before it.                            *)
TakenAfter(s, i) ==
    LET hash == s[i].row.hash
    IN /\ s[i].row.started = 0 /\ s[i].row.id \in {i - 1, -(i - 1)}
       /\ s[i].created <=> \A r \in StoredBy(s, i - 1) : r.hash # hash
       /\ s[i].changes = ChangesFrom(ComparisonProfile(StoredBy(s, i - 1), hash), hash)
SnapshotInv ==
    command = "snapshot" =>
      input \in Seq(ToSet(input)) /\ \A i \in 1 .. Len(input) : TakenAfter(input, i)

LEMMA TakenLater ==
    ASSUME NEW X, NEW s \in Seq(X), NEW t \in Seq(X), Len(s) <= Len(t),
           \A j \in 1 .. Len(s) : t[j] = s[j]
    PROVE  /\ \A n \in 0 .. Len(s) : StoredBy(t, n) = StoredBy(s, n)
           /\ \A i \in 1 .. Len(s) : TakenAfter(s, i) => TakenAfter(t, i)
<1>1. ASSUME NEW n \in 0 .. Len(s) PROVE StoredBy(t, n) = StoredBy(s, n)
  <2>1. \A k \in 1 .. n : t[k] = s[k]
    OBVIOUS
  <2> QED
    BY <2>1 DEF StoredBy
<1>2. ASSUME NEW i \in 1 .. Len(s), TakenAfter(s, i) PROVE TakenAfter(t, i)
  <2>1. t[i] = s[i] /\ StoredBy(t, i - 1) = StoredBy(s, i - 1)
    BY <1>1
  <2> QED
    BY <1>2, <2>1 DEF TakenAfter
<1> QED
  BY <1>1, <1>2

LEMMA SnapshotAlways == Spec => []SnapshotInv
<1>1. Init => SnapshotInv
  <2> SUFFICES ASSUME Init, command = "snapshot" PROVE SnapshotInv
    BY DEF SnapshotInv
  <2>1. input = <<>>
    BY DEF Init, EmptyInput
  <2>2. <<>> \in Seq({}) /\ Len(<<>>) = 0
    OBVIOUS
  <2> QED
    BY <2>1, <2>2, ToSetOfNone DEF SnapshotInv
<1>2. SnapshotInv /\ [Next]_vars => SnapshotInv'
  <2> SUFFICES ASSUME SnapshotInv, [Next]_vars, command' = "snapshot"
               PROVE  /\ input' \in Seq(ToSet(input'))
                      /\ \A i \in 1 .. Len(input') : TakenAfter(input', i)
    BY DEF SnapshotInv, TakenAfter, StoredBy
  <2>1. command = "snapshot" /\ (input' = input \/ Snapshot)
    BY InputSteps DEF PrintLine, SayMessage, RecordRun, RecordCell, AddSegment, Growing, Given
  <2>2. input \in Seq(ToSet(input)) /\ \A i \in 1 .. Len(input) : TakenAfter(input, i)
    BY <2>1 DEF SnapshotInv
  <2>3. CASE input' = input
    BY <2>2, <2>3
  <2>4. CASE Snapshot
    <3> DEFINE s == input
               n == Len(input)
               rows == {input[i].row : i \in {j \in DOMAIN input : input[j].created}}
    <3>1. PICK e, p :
             /\ input' = Append(input, e)
             /\ e.row.started = 0 /\ e.row.id \in {n, -n} /\ e.row.hash = p
             /\ e.created = (\A r \in rows : r.hash # p)
             /\ e.changes = ChangesFrom(ComparisonProfile(rows, p), p)
      <4>1. PICK c \in Snapshots :
              LET sources == P!Discover(c.version, c.config, c.skills, c.agents, c.origins,
                                        c.files, c.dir, c.home)
                  q == P!Fingerprint(sources, Options, Disk)
                  previous == ComparisonProfile(rows, P!Hash(q))
              IN \E id \in {n, -n} :
                   input' = Append(input,
                     [same |-> c.same, differences |-> c.differences,
                      created |-> \A r \in rows : r.hash # P!Hash(q),
                      row |-> [id |-> id, started |-> 0, hash |-> P!Hash(q)],
                      changes |-> IF previous = <<>> THEN {} ELSE H!Diff(previous[1].hash, q),
                      capture |-> P!ConfigCapture(P!AnyMap(P!Canonicalize(sources.config, c.home))),
                      primary |-> P!PrimaryAgent(q), architecture |-> P!Architecture(q)])
        BY <2>4 DEF Snapshot
      <4> DEFINE sources == P!Discover(c.version, c.config, c.skills, c.agents, c.origins,
                                       c.files, c.dir, c.home)
                 q == P!Fingerprint(sources, Options, Disk)
                 new(id) == [same |-> c.same, differences |-> c.differences,
                      created |-> \A r \in rows : r.hash # q,
                      row |-> [id |-> id, started |-> 0, hash |-> q],
                      changes |-> ChangesFrom(ComparisonProfile(rows, q), q),
                      capture |-> P!ConfigCapture(P!AnyMap(P!Canonicalize(sources.config, c.home))),
                      primary |-> P!PrimaryAgent(q), architecture |-> P!Architecture(q)]
      <4>2. PICK id \in {n, -n} : input' = Append(input, new(id))
        BY <4>1 DEF P!Hash, ChangesFrom
      <4> HIDE DEF n, rows, sources, q
      <4>3. /\ new(id).row.started = 0 /\ new(id).row.id = id /\ new(id).row.hash = q
            /\ new(id).created = (\A r \in rows : r.hash # q)
            /\ new(id).changes = ChangesFrom(ComparisonProfile(rows, q), q)
        OBVIOUS
      <4> HIDE DEF new
      <4> QED
        BY <4>2, <4>3
    <3>2. n \in Nat /\ DOMAIN s = 1 .. n
      BY <2>2
    <3>3. rows = StoredBy(s, n)
      BY <3>2 DEF StoredBy
    <3> DEFINE X == ToSet(s) \cup {e}
               t == Append(s, e)
    <3>4. s \in Seq(X) /\ t \in Seq(X) /\ Len(t) = n + 1 /\ t[n + 1] = e
          /\ \A j \in 1 .. n : t[j] = s[j]
      BY <2>2
    <3> HIDE DEF s, t, n, rows
    <3>5. ToSet(t) = X
      <4>1. ToSet(Append(input, e)) = ToSet(input) \cup {e}
        <5> DEFINE Y == ToSet(input) \cup {e}
        <5>1. input \in Seq(Y) /\ e \in Y
          BY <2>2
        <5> HIDE DEF Y
        <5>2. ToSet(Append(input, e)) = ToSet(input) \cup {e}
          BY <5>1, ToSetOfAppend
        <5> QED
          BY <5>2
      <4> QED
        BY <4>1 DEF s, t
    <3>6. n <= Len(t) /\ n = Len(s)
      BY <3>2, <3>4 DEF n, s
    <3>7. /\ \A k \in 0 .. n : StoredBy(t, k) = StoredBy(s, k)
          /\ \A i \in 1 .. n : TakenAfter(s, i) => TakenAfter(t, i)
      BY <3>4, <3>6, TakenLater
    <3>8. \A i \in 1 .. n : TakenAfter(t, i)
      BY <2>2, <3>6, <3>7 DEF s
    <3>9. TakenAfter(t, n + 1)
      <4>1. (n + 1) - 1 = n /\ n \in 0 .. n
        BY <3>2
      <4>2. StoredBy(t, n) = rows
        BY <3>3, <3>7, <4>1
      <4> QED
        BY <3>1, <3>4, <4>1, <4>2 DEF TakenAfter
    <3>10. \A i \in 1 .. n + 1 : TakenAfter(t, i)
      BY <3>2, <3>8, <3>9
    <3>11. input' = t
      BY <3>1 DEF s, t
    <3> QED
      BY <3>4, <3>5, <3>10, <3>11
  <2> QED
    BY <2>1, <2>3, <2>4
<1> QED
  BY <1>1, <1>2, PTL DEF Spec

LEMMA SameIsNoDiff == ASSUME NEW p PROVE H!Diff(p, p) = {}
BY DEF H!Diff

(* What a profile is compared with once it is stored is what it was        *)
(* compared with before.                                                   *)
LEMMA ComparedAlike ==
    ASSUME NEW rows, IsFiniteSet(rows), NEW r, ToldApart(rows \cup {r}),
           \A q \in rows : q.hash # r.hash
    PROVE  ChangesFrom(ComparisonProfile(rows, r.hash), r.hash)
             = ChangesFrom(ComparisonProfile(rows \cup {r}, r.hash), r.hash)
<1> DEFINE h == r.hash
           more == rows \cup {r}
<1>1. IsFiniteSet(more) /\ ToldApart(rows)
  BY FS_AddElement DEF ToldApart
<1>2. PICK y \in more : /\ H!LatestProfile(more) = <<y>>
                        /\ \A q \in more \ {y} : Older(q, y)
  BY <1>1, NewestOfAll, SameQueries DEF H!LatestProfile
<1>3. H!PreviousProfile(more, h) = FirstOf(NewestFirst(rows))
  <2>1. {p \in more : p.hash # h} = rows
    OBVIOUS
  <2> QED
    BY <2>1, SameQueries DEF H!PreviousProfile
<1>4. \A x : <<x>> # <<>> /\ <<x>>[1] = x
  OBVIOUS
<1>5. CASE rows = {}
  <2>1. FirstOf(NewestFirst(rows)) = <<>> /\ y = r
    BY <1>1, <1>5, NewestOfAll
  <2>2. ComparisonProfile(more, h) = <<r>> /\ ComparisonProfile(rows, h) = <<>>
    BY <1>2, <1>3, <1>5, <2>1 DEF ComparisonProfile
  <2> QED
    BY <1>4, <2>2, SameIsNoDiff DEF ChangesFrom
<1>6. CASE rows # {}
  <2>1. PICK x \in rows : /\ FirstOf(NewestFirst(rows)) = <<x>>
                          /\ \A q \in rows \ {x} : Older(q, x)
    BY <1>1, <1>6, NewestOfAll
  <2>2. H!LatestProfile(rows) = <<x>>
    BY <2>1, SameQueries DEF H!LatestProfile
  <2>3. ComparisonProfile(rows, h) = <<x>>
    BY <1>4, <1>6, <2>2 DEF ComparisonProfile
  <2>4. CASE y = r
    BY <1>2, <1>3, <1>4, <2>1, <2>3, <2>4 DEF ComparisonProfile
  <2>5. CASE y # r
    <3>1. y \in rows
      BY <2>5
    <3>2. y = x
      <4>1. x # y => Older(x, y) /\ Older(y, x)
        BY <1>2, <2>1, <3>1
      <4>2. ~(Older(x, y) /\ Older(y, x))
        BY <1>1, <3>1, OlderIsAnOrder
      <4> QED
        BY <4>1, <4>2
    <3>3. ComparisonProfile(more, h) = <<x>>
      BY <1>2, <1>4, <3>1, <3>2 DEF ComparisonProfile
    <3> QED
      BY <2>3, <3>3
  <2> QED
    BY <2>4, <2>5
<1> QED
  BY <1>5, <1>6

(* A snapshot repeated at once is not stored again and shows the same      *)
(* changes: runSnapshot, comparisonProfile.                                *)
THEOREM RepeatedSnapshots == Spec => []RepeatShowsTheSame
<1>1. ASSUME SnapshotInv PROVE RepeatShowsTheSame
  <2> SUFFICES ASSUME command = "snapshot", NEW i \in 2 .. Len(input),
                      input[i].row.hash = input[i - 1].row.hash
               PROVE  input[i].changes = input[i - 1].changes /\ ~input[i].created
    BY DEF RepeatShowsTheSame
  <2> DEFINE s == input
             r == s[i - 1].row
             rows == StoredBy(s, i - 2)
             more == StoredBy(s, i - 1)
  <2>1. /\ i \in 1 .. Len(s) /\ i - 1 \in 1 .. Len(s) /\ (i - 1) - 1 = i - 2
        /\ \A j \in 1 .. Len(s) : TakenAfter(s, j)
    BY <1>1 DEF SnapshotInv
  <2>2. 1 .. i - 1 = (1 .. i - 2) \cup {i - 1} /\ i - 1 \notin 1 .. i - 2 /\ 1 .. i - 1 \subseteq 1 .. Len(s)
    OBVIOUS
  <2> HIDE DEF s
  <2>3. more = rows \cup IF s[i - 1].created THEN {r} ELSE {}
    BY <2>2 DEF StoredBy
  <2>4. s[i - 1].created <=> \A q \in rows : q.hash # r.hash
    BY <2>1 DEF TakenAfter
  <2>5. /\ s[i].created <=> \A q \in more : q.hash # r.hash
        /\ s[i].changes = ChangesFrom(ComparisonProfile(more, r.hash), r.hash)
        /\ s[i - 1].changes = ChangesFrom(ComparisonProfile(rows, r.hash), r.hash)
    BY <2>1 DEF TakenAfter, s
  <2>6. ToldApart(more) /\ IsFiniteSet(rows)
    <3>1. \A q \in more : \E j \in 1 .. i - 1 : /\ q = s[j].row /\ q.started = 0
                                                /\ q.id \in {j - 1, -(j - 1)}
      <4>1. more = {s[j].row : j \in {k \in 1 .. i - 1 : s[k].created}}
        BY DEF StoredBy
      <4>2. \A j \in 1 .. i - 1 : s[j].row.started = 0 /\ s[j].row.id \in {j - 1, -(j - 1)}
        BY <2>1, <2>2 DEF TakenAfter
      <4> QED
        BY <4>1, <4>2
    <3>2. ToldApart(more)
      <4> HIDE DEF more
      <4>1. \A q \in more : q.started \in Int /\ q.id \in Int
        BY <3>1
      <4>2. ASSUME NEW a \in more, NEW b \in more, a.id = b.id PROVE a = b
        <5>1. PICK j \in 1 .. i - 1 : a = s[j].row /\ a.id \in {j - 1, -(j - 1)}
          BY <3>1
        <5>2. PICK k \in 1 .. i - 1 : b = s[k].row /\ b.id \in {k - 1, -(k - 1)}
          BY <3>1
        <5>3. j = k
          BY <4>2, <5>1, <5>2
        <5> QED
          BY <5>1, <5>2, <5>3
      <4> QED
        BY <4>1, <4>2 DEF ToldApart
    <3>3. IsFiniteSet(rows)
      <4>1. IsFiniteSet(1 .. i - 2)
        BY FS_Interval
      <4>2. IsFiniteSet({k \in 1 .. i - 2 : s[k].created})
        BY <4>1, FS_Subset
      <4> DEFINE J == {k \in 1 .. i - 2 : s[k].created}
                 f == [j \in J |-> s[j].row]
      <4>3. f \in Surjection(J, rows)
        BY DEF Surjection, StoredBy
      <4> QED
        BY <4>2, <4>3, FS_Surjection
    <3> QED
      BY <3>2, <3>3
  <2> HIDE DEF rows, more, r
  <2>7. CASE s[i - 1].created
    <3>1. more = rows \cup {r} /\ r \in more /\ \A q \in rows : q.hash # r.hash
      BY <2>3, <2>4, <2>7
    <3>2. ~s[i].created
      BY <2>5, <3>1
    <3>3. s[i].changes = s[i - 1].changes
      BY <2>5, <2>6, <3>1, ComparedAlike
    <3> QED
      BY <3>2, <3>3 DEF s
  <2>8. CASE ~s[i - 1].created
    BY <2>3, <2>4, <2>5, <2>8 DEF s
  <2> QED
    BY <2>7, <2>8
<1> QED
  BY <1>1, SnapshotAlways, PTL

(***************************************************************************)
(* Rationals                                                               *)
(***************************************************************************)

Rational == [n : Int, d : Nat \ {0}]

LEMMA Products == \A x, y \in Nat \ {0} : x * y \in Nat \ {0}
OBVIOUS

LEMMA RationalsAdd ==
    ASSUME NEW a \in Rational, NEW b \in Rational, NEW k \in Nat \ {0}
    PROVE  H!Plus(a, b) \in Rational /\ H!Over(a, k) \in Rational
<1>1. a.n \in Int /\ b.n \in Int /\ a.d \in Nat \ {0} /\ b.d \in Nat \ {0}
  BY DEF Rational
<1>2. a.d * b.d \in Nat \ {0} /\ a.d * k \in Nat \ {0}
  BY <1>1, Products
<1>3. a.n * b.d + b.n * a.d \in Int
  BY <1>1
<1> QED
  BY <1>1, <1>2, <1>3 DEF Rational, H!Plus, H!Over, H!Ratio

LEMMA SomeRationals == H!Zero \in Rational /\ \A n \in Int : H!Ratio(n, 1) \in Rational
BY DEF H!Zero, H!Ratio, Rational

(* Of two products with one positive factor.                               *)
LEMMA Cancel ==
    ASSUME NEW x \in Int, NEW y \in Int, NEW k \in Nat \ {0}, k * x <= k * y PROVE x <= y
<1>1. CASE x > y
  <2>1. x - y \in Nat \ {0} /\ k * (x - y) \in Nat \ {0}
    BY <1>1, Products
  <2>2. k * (x - y) = k * x - k * y
    OBVIOUS
  <2>3. k * x \in Int /\ k * y \in Int
    OBVIOUS
  <2> QED
    BY <2>1, <2>2, <2>3
<1> QED
  BY <1>1

LEMMA Scale ==
    ASSUME NEW x \in Int, NEW y \in Int, NEW k \in Nat \ {0}, x <= y PROVE k * x <= k * y
<1>1. y - x \in Nat /\ k * (y - x) \in Nat
  OBVIOUS
<1>2. k * (y - x) = k * y - k * x
  OBVIOUS
<1>3. k * x \in Int /\ k * y \in Int
  OBVIOUS
<1> QED
  BY <1>1, <1>2, <1>3

(* Less orders rationals as their values do.                               *)
LEMMA LessIsWeak ==
    ASSUME NEW a \in Rational, NEW b \in Rational, NEW c \in Rational
    PROVE  /\ H!Less(a, b) => ~H!Less(b, a)
           /\ ~H!Less(b, a) /\ ~H!Less(c, b) => ~H!Less(c, a)
<1> DEFINE p == a.n
           q == b.n
           r == c.n
           x == a.d
           y == b.d
           z == c.d
<1>1. p \in Int /\ q \in Int /\ r \in Int /\ x \in Nat \ {0} /\ y \in Nat \ {0} /\ z \in Nat \ {0}
  BY DEF Rational
<1>2. /\ H!Less(a, b) <=> p * y < q * x
      /\ H!Less(b, a) <=> q * x < p * y
      /\ H!Less(c, b) <=> r * y < q * z
      /\ H!Less(c, a) <=> r * x < p * z
  BY DEF H!Less
<1> HIDE DEF p, q, r, x, y, z
<1>3. p * y \in Int /\ q * x \in Int /\ r * y \in Int /\ q * z \in Int /\ r * x \in Int /\ p * z \in Int
  BY <1>1
<1>4. ASSUME p * y <= q * x, q * z <= r * y PROVE p * z <= r * x
  <2>1. z * (p * y) <= z * (q * x)
    BY <1>1, <1>3, <1>4, Scale
  <2>2. x * (q * z) <= x * (r * y)
    BY <1>1, <1>3, <1>4, Scale
  <2>3. z * (p * y) = y * (p * z) /\ z * (q * x) = x * (q * z) /\ x * (r * y) = y * (r * x)
    BY <1>1
  <2>4. z * (p * y) \in Int /\ x * (q * z) \in Int /\ x * (r * y) \in Int
    BY <1>1, <1>3
  <2>5. y * (p * z) <= y * (r * x)
    BY <2>1, <2>2, <2>3, <2>4
  <2> QED
    BY <1>1, <1>3, <2>5, Cancel
<1>5. /\ H!Less(a, b) => ~H!Less(b, a)
      /\ ~H!Less(b, a) /\ ~H!Less(c, b) => q * x >= p * y /\ r * y >= q * z
  BY <1>2, <1>3
<1> QED
  BY <1>2, <1>3, <1>4, <1>5

(* A sum, one addend at a time.                                            *)
LEMMA TotalIsRational == ASSUME NEW xs \in Seq(Rational) PROVE H!Total(xs) \in Rational
<1> DEFINE n == Len(xs)
           R == Rational
           base == H!Zero
           d(r, k) == H!Plus(r, xs[k])
           step == [p \in (1 .. n) \X R |-> H!Plus(p[2], xs[p[1]])]
           Eq(g) == g = [s \in SUBSET (1 .. n) |->
                          IF s = {} THEN base ELSE d(g[s \ {Max(s)}], Max(s))]
           it == CHOOSE g : Eq(g)
<1>1. n \in Nat /\ DOMAIN xs = 1 .. n /\ \A k \in 1 .. n : xs[k] \in Rational
  OBVIOUS
<1>2. H!Total(xs) = it[1 .. n]
  BY <1>1 DEF H!Total, H!FoldLeft, H!MapThenFoldSet, H!Max, Max
<1>3. base \in R /\ \A r \in R, k \in 1 .. n : d(r, k) \in R
  <2>1. 1 \in Nat \ {0}
    OBVIOUS
  <2> QED
    BY <1>1, <2>1, SomeRationals, RationalsAdd
<1>4. \A k \in 1 .. n, r \in R : step[<<k, r>>] = d(r, k)
  OBVIOUS
<1>5. step \in [(1 .. n) \X R -> R]
  <2> HIDE DEF d
  <2>1. step = [p \in (1 .. n) \X R |-> d(p[2], p[1])]
    BY DEF d
  <2> HIDE DEF step, R
  <2> QED
    BY <1>3, <2>1
<1> HIDE DEF base, R, d, step
<1>6. PICK f \in [SUBSET (1 .. n) -> R] : LastFold(f, n, R, base, step)
  BY <1>1, <1>3, <1>5, PrefixFold
<1>7. ASSUME NEW s \in SUBSET (1 .. n), s # {}
      PROVE  f[s] = d(f[s \ {Max(s)}], Max(s))
  <2>1. Max(s) \in 1 .. n /\ f[s \ {Max(s)}] \in R
    BY <1>1, <1>6, <1>7, MaxIsIn
  <2> QED
    BY <1>4, <1>6, <1>7, <2>1 DEF LastFold
<1>8. Eq(f)
  BY <1>6, <1>7 DEF LastFold
<1>9. Eq(it)
  BY <1>8
<1> HIDE DEF it
<1>10. LastFold(it, n, R, base, step)
  <2>1. it[{}] = base
    BY <1>9
  <2>2. ASSUME NEW s \in SUBSET (1 .. n), s # {}, it[s \ {Max(s)}] \in R
        PROVE  it[s] = step[<<Max(s), it[s \ {Max(s)}]>>]
    <3>1. Max(s) \in 1 .. n
      BY <1>1, <2>2, MaxIsIn
    <3> QED
      BY <1>4, <1>9, <2>2, <3>1
  <2> QED
    BY <2>1, <2>2 DEF LastFold
<1>11. \E F : States(F, n, R, base, step, it[1 .. n])
  BY <1>1, <1>3, <1>5, <1>10, FoldStates
<1>12. it[1 .. n] \in R
  BY <1>1, <1>11 DEF States
<1> QED
  BY <1>2, <1>12 DEF R

(***************************************************************************)
(* Medians                                                                 *)
(***************************************************************************)

LessPairs(xs) == {p \in (1 .. Len(xs)) \X (1 .. Len(xs)) : H!Less(xs[p[1]], xs[p[2]])}

LEMMA PairIsLess ==
    ASSUME NEW xs, NEW i \in 1 .. Len(xs), NEW j \in 1 .. Len(xs)
    PROVE  <<i, j>> \in LessPairs(xs) <=> H!Less(xs[i], xs[j])
BY DEF LessPairs, H!Less

LEMMA LessRanks ==
    ASSUME NEW xs \in Seq(Rational)
    PROVE  LET R == Stable(Len(xs), LessPairs(xs))
           IN /\ Ranks(Len(xs), R)
              /\ \A i, j \in 1 .. Len(xs) :
                   <<i, j>> \in R => ~H!Less(xs[j], xs[i])
              /\ \A i \in 1 .. Len(xs) :
                   Ahead(Len(xs), R, i) = {j \in 1 .. Len(xs) :
                      H!Less(xs[j], xs[i]) \/ (~H!Less(xs[i], xs[j]) /\ j < i)}
<1> DEFINE n == Len(xs)
           R == Stable(n, LessPairs(xs))
<1>1. n \in Nat /\ DOMAIN xs = 1 .. n /\ \A i \in 1 .. n : xs[i] \in Rational
  OBVIOUS
<1>2. \A i, j \in 1 .. n : <<i, j>> \in LessPairs(xs) <=> H!Less(xs[i], xs[j])
  BY PairIsLess
<1>3. ASSUME NEW i \in 1 .. n, NEW j \in 1 .. n, NEW k \in 1 .. n
      PROVE  /\ H!Less(xs[i], xs[j]) => ~H!Less(xs[j], xs[i])
             /\ ~H!Less(xs[i], xs[j]) /\ ~H!Less(xs[j], xs[k]) => ~H!Less(xs[i], xs[k])
  <2>1. xs[i] \in Rational /\ xs[j] \in Rational /\ xs[k] \in Rational
    BY <1>1
  <2> QED
    BY <2>1, LessIsWeak
<1>4. Weak(n, LessPairs(xs))
  BY <1>2, <1>3 DEF Weak
<1>5. \A i, j \in 1 .. n : <<i, j>> \in R <=> H!Less(xs[i], xs[j]) \/ (~H!Less(xs[j], xs[i]) /\ i < j)
  BY <1>1, <1>2, StablePairs
<1>6. Ranks(n, R)
  BY <1>1, <1>4, StableRanks
<1> HIDE DEF R, n
<1>7. \A i \in 1 .. n : Ahead(n, R, i) = {j \in 1 .. n :
                H!Less(xs[j], xs[i]) \/ (~H!Less(xs[i], xs[j]) /\ j < i)}
  BY <1>5 DEF Ahead
<1> QED
  BY <1>3, <1>5, <1>6, <1>7 DEF R, n

(* The list by value: what is in it was there.                             *)
LEMMA LessSorts ==
    ASSUME NEW xs \in Seq(Rational)
    PROVE  LET s == H!StableSort(xs, H!Less)
           IN \A k \in 1 .. Len(xs) : s[k] \in Rational /\ \E i \in 1 .. Len(xs) : s[k] = xs[i]
<1> DEFINE n == Len(xs)
           R == Stable(n, LessPairs(xs))
           s == H!StableSort(xs, H!Less)
<1>1. n \in Nat /\ DOMAIN xs = 1 .. n /\ \A k \in 1 .. n : xs[k] \in Rational
  OBVIOUS
<1>2. s = [k \in 1 .. n |-> xs[CHOOSE i \in 1 .. n : 1 + Cardinality({j \in 1 .. n :
              H!Less(xs[j], xs[i]) \/ (~H!Less(xs[i], xs[j]) /\ j < i)}) = k]]
  BY <1>1 DEF H!StableSort, Cardinality, H!Cardinality
<1>3. /\ Ranks(n, R)
      /\ \A i \in 1 .. n : Ahead(n, R, i) = {j \in 1 .. n :
                H!Less(xs[j], xs[i]) \/ (~H!Less(xs[i], xs[j]) /\ j < i)}
  BY LessRanks
<1> HIDE DEF s, n, R
<1>4. \A k \in 1 .. n : \E i \in 1 .. n : 1 + Cardinality(Ahead(n, R, i)) = k
  BY <1>1, <1>3, PlacesAreTaken
<1>5. ASSUME NEW k \in 1 .. n PROVE s[k] \in Rational /\ \E i \in 1 .. n : s[k] = xs[i]
  <2>1. \E i \in 1 .. n : 1 + Cardinality({j \in 1 .. n :
              H!Less(xs[j], xs[i]) \/ (~H!Less(xs[i], xs[j]) /\ j < i)}) = k
    BY <1>3, <1>4
  <2>2. (CHOOSE i \in 1 .. n : 1 + Cardinality({j \in 1 .. n :
              H!Less(xs[j], xs[i]) \/ (~H!Less(xs[i], xs[j]) /\ j < i)}) = k) \in 1 .. n
    BY <2>1
  <2> QED
    BY <1>1, <1>2, <2>2
<1> QED
  BY <1>5 DEF n, s

LEMMA MedianIsRational == ASSUME NEW xs \in Seq(Rational) PROVE H!Median(xs) \in Rational
<1> DEFINE n == Len(xs)
           s == H!StableSort(xs, H!Less)
<1>1. n \in Nat
  OBVIOUS
<1>4. \A k \in 1 .. n : s[k] \in Rational
  BY LessSorts
<1>5. H!Median(xs) = IF n = 0 THEN H!Zero
                     ELSE IF n % 2 = 1 THEN s[n \div 2 + 1]
                     ELSE H!Over(H!Plus(s[n \div 2], s[n \div 2 + 1]), 2)
  BY DEF H!Median
<1> HIDE DEF n, s
<1>6. CASE n = 0
  BY <1>5, <1>6, SomeRationals
<1>7. CASE n # 0 /\ n % 2 = 1
  <2>1. n \div 2 + 1 \in 1 .. n
    BY <1>1, <1>7
  <2> QED
    BY <1>4, <1>5, <1>7, <2>1
<1>8. CASE n # 0 /\ n % 2 # 1
  <2>1. n \div 2 + 1 \in 1 .. n /\ n \div 2 \in 1 .. n
    BY <1>1, <1>8
  <2>2. s[n \div 2] \in Rational /\ s[n \div 2 + 1] \in Rational /\ 2 \in Nat \ {0}
    BY <1>4, <2>1
  <2>3. H!Plus(s[n \div 2], s[n \div 2 + 1]) \in Rational
    BY <2>2, RationalsAdd
  <2>4. H!Over(H!Plus(s[n \div 2], s[n \div 2 + 1]), 2) \in Rational
    BY <2>2, <2>3, RationalsAdd
  <2> QED
    BY <1>5, <1>8, <2>4
<1> QED
  BY <1>6, <1>7, <1>8

(* Of one there is no other.                                               *)
LEMMA MedianOfOne == ASSUME NEW c \in Rational PROVE H!Median([i \in 1 .. 1 |-> c]) = c
<1> DEFINE xs == [i \in 1 .. 1 |-> c]
           s == H!StableSort(xs, H!Less)
<1>1. xs \in Seq(Rational) /\ Len(xs) = 1 /\ \A i \in 1 .. 1 : xs[i] = c
  OBVIOUS
<1> HIDE DEF xs
<1>2. s[1] = c
  <2>1. \A k \in 1 .. Len(xs) : \E i \in 1 .. Len(xs) : s[k] = xs[i]
    BY <1>1, LessSorts
  <2> HIDE DEF s
  <2> QED
    BY <1>1, <2>1
<1>3. 1 % 2 = 1 /\ 1 \div 2 + 1 = 1
  OBVIOUS
<1>4. H!Median(xs) = IF Len(xs) = 0 THEN H!Zero
                     ELSE IF Len(xs) % 2 = 1 THEN s[Len(xs) \div 2 + 1]
                     ELSE H!Over(H!Plus(s[Len(xs) \div 2], s[Len(xs) \div 2 + 1]), 2)
  BY DEF H!Median
<1> HIDE DEF s
<1>5. H!Median(xs) = c
  BY <1>1, <1>2, <1>3, <1>4
<1> QED
  BY <1>5 DEF xs

(***************************************************************************)
(* Cohorts                                                                 *)
(***************************************************************************)

(* Runs that are finitely many, of which numbers were measured.            *)
Metered(runs) ==
    /\ IsFiniteSet(runs)
    /\ \A r \in runs : \A m \in DOMAIN r.metrics : r.metrics[m] \in Int

LEMMA RunsInOrder ==
    ASSUME NEW S, IsFiniteSet(S)
    PROVE  /\ H!OldestFirst(S) \in Seq(S) /\ H!ToSet(H!OldestFirst(S)) = S
           /\ Len(H!OldestFirst(S)) = Cardinality(S) /\ Cardinality(S) \in Nat
BY OldestFirstHolds, SameOrder, FS_CardinalityType DEF ToSet, H!ToSet

(* What was measured of some runs, in the order of the runs.               *)
LEMMA ValuesAreRational ==
    ASSUME NEW runs, Metered(runs), NEW q \in Seq(runs), NEW m
    PROVE  H!Values(q, m) \in Seq(Rational)
<1> DEFINE v(i) == IF H!Has(q[i], m) THEN <<H!Ratio(q[i].metrics[m], 1)>> ELSE <<>>
           vs == [i \in 1 .. Len(q) |-> v(i)]
<1>1. DOMAIN q = 1 .. Len(q) /\ Len(q) \in Nat /\ \A i \in 1 .. Len(q) : q[i] \in runs
  OBVIOUS
<1>2. ASSUME NEW i \in 1 .. Len(q) PROVE v(i) \in Seq(Rational)
  <2>1. CASE H!Has(q[i], m)
    <3>1. q[i].metrics[m] \in Int
      BY <1>1, <2>1 DEF Metered, H!Has
    <3>2. H!Ratio(q[i].metrics[m], 1) \in Rational
      BY <3>1, SomeRationals
    <3> QED
      BY <2>1, <3>2
  <2> QED
    BY <2>1
<1> HIDE DEF v
<1>3. vs \in Seq(Seq(Rational))
  BY <1>1, <1>2
<1>4. H!Values(q, m) = H!FlattenSeq(vs)
  BY <1>1 DEF H!Values, v
<1>5. H!FlattenSeq(vs) = FlattenSeq(vs)
  BY DEF FlattenSeq, H!FlattenSeq
<1> HIDE DEF vs
<1> QED
  BY <1>3, <1>4, <1>5, FlattenTyped

(* Some of the places of a list.                                           *)
LEMMA SomePlaces ==
    ASSUME NEW n \in Nat, NEW A \in SUBSET (1 .. n)
    PROVE  /\ IsFiniteSet(A) /\ Cardinality(A) \in Nat /\ Cardinality(A) <= n
           /\ Cardinality(A) = n => A = 1 .. n
<1>1. IsFiniteSet(1 .. n) /\ Cardinality(1 .. n) = n
  BY PrefixSize
<1>2. IsFiniteSet(A) /\ Cardinality(A) <= n /\ (Cardinality(A) = n => A = 1 .. n)
  BY <1>1, FS_Subset
<1> QED
  BY <1>2, FS_CardinalityType

(* What is summarized of the runs of a task under an arm.                  *)
LEMMA ArmTaskFields ==
    ASSUME NEW runs, Metered(runs)
    PROVE  LET s == H!SummarizeArmTask(runs)
               all == H!OldestFirst(runs)
               n == Len(all)
           IN /\ s.executions = n /\ n = Cardinality(runs) /\ n \in Nat
              /\ s.successes = Cardinality({i \in 1 .. n : H!Solved(all[i])})
              /\ s.cost = H!Total(H!Values(all, "cost"))
              /\ s.hasCost = (Len(H!Values(all, "cost")) = n)
<1>1. Len(H!OldestFirst(runs)) = Cardinality(runs) /\ Cardinality(runs) \in Nat
  BY RunsInOrder DEF Metered
<1>2. H!Cardinality({i \in 1 .. Len(H!OldestFirst(runs)) : H!Solved(H!OldestFirst(runs)[i])})
      = Cardinality({i \in 1 .. Len(H!OldestFirst(runs)) : H!Solved(H!OldestFirst(runs)[i])})
  BY DEF Cardinality, H!Cardinality
<1> QED
  BY <1>1, <1>2 DEF H!SummarizeArmTask

LEMMA ArmTask ==
    ASSUME NEW runs, Metered(runs)
    PROVE  LET s == H!SummarizeArmTask(runs)
           IN /\ s.executions = Cardinality(runs)
              /\ s.executions \in Nat /\ s.successes \in Nat /\ s.cost \in Rational
              /\ s.successes = s.executions => \A r \in runs : ~r.vetoed /\ H!RunSucceeded(r)
<1> DEFINE s == H!SummarizeArmTask(runs)
           all == H!OldestFirst(runs)
           n == Len(all)
           A == {i \in 1 .. n : H!Solved(all[i])}
<1>1. /\ s.executions = n /\ n = Cardinality(runs) /\ n \in Nat
      /\ s.successes = Cardinality(A) /\ s.cost = H!Total(H!Values(all, "cost"))
  BY ArmTaskFields
<1>2. all \in Seq(runs) /\ H!ToSet(all) = runs
  BY RunsInOrder DEF Metered
<1> HIDE DEF s, all
<1>3. s.cost \in Rational
  BY <1>1, <1>2, ValuesAreRational, TotalIsRational
<1>4. s.successes \in Nat /\ (s.successes = n => A = 1 .. n)
  BY <1>1, SomePlaces
<1>5. ASSUME s.successes = n, NEW r \in runs PROVE ~r.vetoed /\ H!RunSucceeded(r)
  <2>1. PICK i \in 1 .. n : r = all[i]
    BY <1>2 DEF H!ToSet
  <2>2. H!Solved(all[i])
    BY <1>4, <1>5, <2>1
  <2> QED
    BY <2>1, <2>2 DEF H!Solved
<1> QED
  BY <1>1, <1>3, <1>4, <1>5 DEF s

(* The runs a summary is of.                                               *)
Labels(arms) == {arms[i].label : i \in DOMAIN arms}
Ours(exp, arms, runs) ==
    {r \in runs : r.experiment = exp.id /\ ~r.dry /\ r.arm \in Labels(arms)}
TasksOf(runs) == {r.task : r \in runs}
Of(runs, t, a) == {r \in runs : r.task = t /\ r.arm = a}

Summarizes(s, exp, arms, runs) ==
    LET ours == Ours(exp, arms, runs)
    IN /\ s.arms = arms /\ s.tasks = TasksOf(ours)
       /\ \A t \in s.tasks, a \in Labels(arms) :
             s.perArm[<<t, a>>] = H!SummarizeArmTask(Of(ours, t, a))
       /\ \A a \in Labels(arms) :
             s.costPerSolved[a] = H!CostPerSolved(H!CostByTask(s.tasks, s.perArm, a))
       /\ s.drift = H!DriftWarnings(s.tasks, ours)

LEMMA SummaryFields ==
    ASSUME NEW exp, NEW arms, NEW runs, IsFiniteSet(runs)
    PROVE  Summarizes(H!Summarize(exp, arms, runs, ""), exp, arms, runs)
<1> DEFINE s == H!Summarize(exp, arms, runs, "")
           ours == Ours(exp, arms, runs)
           tasks == TasksOf(ours)
           perArm == [k \in tasks \X Labels(arms) |->
                         H!SummarizeArmTask({r \in ours : r.task = k[1] /\ r.arm = k[2]})]
           base == H!BaselineLabel("", exp, arms)
<1>1. H!ToSet(H!RunsForExperiment(runs, exp.id)) = {r \in runs : r.experiment = exp.id}
  <2>1. IsFiniteSet({r \in runs : r.experiment = exp.id})
    BY FS_Subset
  <2> QED
    BY <2>1, RunsInOrder DEF H!RunsForExperiment
<1>2. {r \in H!NotDry(H!ToSet(H!RunsForExperiment(runs, exp.id))) : r.arm \in Labels(arms)} = ours
  BY <1>1 DEF H!NotDry, Ours
<1>3. s = H!SummaryOfTasks(arms, ours, tasks, perArm, base)
  BY <1>2 DEF H!Summarize, Labels, TasksOf
<1> HIDE DEF s, ours, tasks, perArm, base
<1>4. /\ s.arms = arms /\ s.tasks = tasks /\ s.perArm = perArm
      /\ s.costPerSolved = [a \in Labels(arms) |-> H!CostPerSolved(H!CostByTask(tasks, perArm, a))]
      /\ s.drift = H!DriftWarnings(tasks, ours)
  BY <1>3 DEF H!SummaryOfTasks, H!SummaryOf, Labels
<1>5. ASSUME NEW t \in tasks, NEW a \in Labels(arms)
      PROVE  perArm[<<t, a>>] = H!SummarizeArmTask(Of(ours, t, a))
  BY DEF perArm, Of
<1>6. \A a \in Labels(arms) : s.costPerSolved[a] = H!CostPerSolved(H!CostByTask(s.tasks, s.perArm, a))
  BY <1>4
<1> QED
  BY <1>4, <1>5, <1>6 DEF s, ours, tasks, Summarizes

(* What a task costs when it is solved, and an arm.                        *)
IsOne(x) == \E c \in Rational : x = <<c>>

LEMMA CostsAreRational ==
    ASSUME NEW exp, NEW arms, NEW runs, Metered(runs), NEW a \in Labels(arms),
           NEW s, Summarizes(s, exp, arms, runs)
    PROVE  LET costs == H!CostByTask(s.tasks, s.perArm, a)
           IN /\ costs \in [DOMAIN costs -> Rational] /\ IsFiniteSet(DOMAIN costs)
              /\ s.costPerSolved[a] # <<>> => IsOne(s.costPerSolved[a])
<1> DEFINE ours == Ours(exp, arms, runs)
           of(t) == Of(ours, t, a)
           costs == H!CostByTask(s.tasks, s.perArm, a)
           D == DOMAIN costs
<1>1. /\ s.tasks = TasksOf(ours)
      /\ \A t \in s.tasks : s.perArm[<<t, a>>] = H!SummarizeArmTask(of(t))
      /\ s.costPerSolved[a] = H!CostPerSolved(costs)
  BY DEF Summarizes
<1>3. IsFiniteSet(s.tasks)
  <2>1. IsFiniteSet(ours)
    BY FS_Subset DEF Metered, Ours
  <2>2. [r \in ours |-> r.task] \in Surjection(ours, TasksOf(ours))
    BY DEF Surjection, TasksOf
  <2> HIDE DEF ours
  <2> QED
    BY <1>1, <2>1, <2>2, FS_Surjection
<1>4. ASSUME NEW t \in s.tasks
      PROVE  s.perArm[<<t, a>>].cost \in Rational /\ s.perArm[<<t, a>>].successes \in Nat
  <2>1. Metered(of(t))
    <3>1. of(t) \in SUBSET runs
      BY DEF Ours, Of
    <3> HIDE DEF of
    <3> QED
      BY <3>1, FS_Subset DEF Metered
  <2> HIDE DEF of
  <2> QED
    BY <1>1, <2>1, ArmTask
<1>5. costs = [t \in {u \in s.tasks : s.perArm[<<u, a>>].successes > 0 /\ s.perArm[<<u, a>>].hasCost} |->
                  H!Over(s.perArm[<<t, a>>].cost, s.perArm[<<t, a>>].successes)]
  BY DEF H!CostByTask
<1>6. D \subseteq s.tasks /\ \A t \in D : costs[t] \in Rational
  <2>1. ASSUME NEW t \in s.tasks, s.perArm[<<t, a>>].successes > 0
        PROVE  H!Over(s.perArm[<<t, a>>].cost, s.perArm[<<t, a>>].successes) \in Rational
    <3>1. s.perArm[<<t, a>>].successes \in Nat \ {0}
      BY <1>4, <2>1
    <3> QED
      BY <1>4, <3>1, RationalsAdd
  <2> HIDE DEF costs
  <2> QED
    BY <1>5, <2>1
<1>7. costs = [t \in D |-> costs[t]]
  BY <1>5
<1> HIDE DEF costs
<1>8. IsFiniteSet(D) /\ costs \in [D -> Rational]
  BY <1>3, <1>6, <1>7, FS_Subset
<1>9. ASSUME D # {} PROVE IsOne(H!CostPerSolved(costs))
  <2> DEFINE k == Cardinality(D)
             xs == [i \in 1 .. k |-> costs[SetToSeq(D)[i]]]
  <2>1. k \in Nat /\ SetToSeq(D) \in [1 .. k -> D]
    BY <1>8, SetToSeqLists
  <2>2. xs \in Seq(Rational)
    <3> HIDE DEF k
    <3> QED
      BY <1>8, <2>1
  <2>3. H!CostPerSolved(costs) = <<H!Median(xs)>>
    BY <1>9 DEF H!CostPerSolved, SetToSeq, H!SetToSeq, H!IsInjective, IsInjective, Cardinality, H!Cardinality
  <2> QED
    BY <2>2, <2>3, MedianIsRational DEF IsOne
<1>10. D = {} => H!CostPerSolved(costs) = <<>>
  BY DEF H!CostPerSolved
<1> QED
  BY <1>1, <1>8, <1>9, <1>10 DEF costs

(* What the eligibility of an arm says.                                    *)
LEMMA ArmOfCohort ==
    ASSUME NEW a, NEW exp, NEW s, NEW readable
    PROVE  LET c == H!CohortArm(a, exp, s, readable)
           IN /\ c.label = a.label /\ c.costPerSolved = s.costPerSolved[a.label]
              /\ c.eligible =>
                   \A t \in H!CohortTaskIDs(exp, s) \cap s.tasks :
                      /\ s.perArm[<<t, a.label>>].executions >= 3
                      /\ s.perArm[<<t, a.label>>].successes = s.perArm[<<t, a.label>>].executions
<1> DEFINE c == H!CohortArm(a, exp, s, readable)
<1>1. c.label = a.label /\ c.costPerSolved = s.costPerSolved[a.label]
  BY DEF H!CohortArm, H!MapThenSumSet, H!FoldSet, H!MapThenFoldSet
<1>2. ASSUME c.eligible, NEW t \in H!CohortTaskIDs(exp, s) \cap s.tasks
      PROVE  /\ s.perArm[<<t, a.label>>].executions >= 3
             /\ s.perArm[<<t, a.label>>].successes = s.perArm[<<t, a.label>>].executions
  BY <1>2 DEF H!CohortArm, H!MapThenSumSet, H!FoldSet, H!MapThenFoldSet, H!AllPassed, H!RankableRepeats
<1> QED
  BY <1>1, <1>2

(* What is not so when the gate is open.                                   *)
LEMMA GateOpens ==
    ASSUME NEW exp, NEW s, NEW cohort, H!Gate(exp, s, cohort) = "eligible"
    PROVE  /\ ~(Len(s.arms) < 2) /\ H!CohortTaskIDs(exp, s) \subseteq s.tasks /\ s.drift = {}
           /\ \A i \in DOMAIN cohort : cohort[i].costPerSolved # <<>> /\ cohort[i].eligible
BY DEF H!Gate

(* One of a kind at most.                                                  *)
LEMMA OneAtMost ==
    ASSUME NEW S, IsFiniteSet(S), ~(Cardinality(S) > 1), NEW x \in S, NEW y \in S
    PROVE  x = y
<1>1. CASE x # y
  <2>1. IsFiniteSet({x}) /\ Cardinality({x}) = 1
    BY FS_Singleton
  <2>2. Cardinality({x} \cup {y}) = 2
    BY <1>1, <2>1, FS_AddElement
  <2>3. Cardinality({x} \cup {y}) <= Cardinality(S)
    BY FS_Subset
  <2>4. Cardinality(S) \in Nat
    BY FS_CardinalityType
  <2> QED
    BY <2>2, <2>3, <2>4
<1> QED
  BY <1>1

LEMMA NothingDrifts ==
    ASSUME NEW tasks, NEW runs, IsFiniteSet(runs), H!DriftWarnings(tasks, runs) = {},
           NEW r \in runs, NEW q \in runs, r.task = q.task, r.task \in tasks
    PROVE  r.hash = q.hash /\ r.fixture = q.fixture
<1>1. ASSUME NEW f \in H!DriftFields PROVE r[f] = q[f]
  <2> DEFINE S == {p \in runs : p.task = r.task}
             V == {p[f] : p \in S}
  <2>1. ~(Cardinality(V) > 1)
    <3>1. <<r.task, f>> \notin H!DriftWarnings(tasks, runs)
      OBVIOUS
    <3>2. <<r.task, f>> \in tasks \X H!DriftFields
      OBVIOUS
    <3>3. ~(H!Cardinality(V) > 1)
      BY <3>1, <3>2 DEF H!DriftWarnings
    <3> QED
      BY <3>3 DEF Cardinality, H!Cardinality
  <2>2. IsFiniteSet(V)
    <3>1. [p \in S |-> p[f]] \in Surjection(S, V)
      BY DEF Surjection
    <3>2. IsFiniteSet(S)
      BY FS_Subset
    <3> HIDE DEF S, V
    <3> QED
      BY <3>1, <3>2, FS_Surjection
  <2>3. r[f] \in V /\ q[f] \in V
    OBVIOUS
  <2> HIDE DEF V
  <2> QED
    BY <2>1, <2>2, <2>3, OneAtMost
<1> QED
  BY <1>1 DEF H!DriftFields

(* Those who are all eligible stand by what they cost.                     *)
Stands(arms, cohort, n) ==
    /\ DOMAIN arms = 1 .. n /\ Len(arms) = n
    /\ \A k \in 1 .. n : \E i \in 1 .. n : arms[k] = cohort[i]
    /\ \A i \in 1 .. n : \E k \in 1 .. n : arms[k] = cohort[i]
    /\ \A k, l \in 1 .. n : k < l =>
          ~H!Less(arms[l].costPerSolved[1], arms[k].costPerSolved[1])

LEMMA StandsByCost ==
    ASSUME NEW cohort, NEW n \in Nat, DOMAIN cohort = 1 .. n,
           \A i \in 1 .. n : cohort[i].eligible /\ IsOne(cohort[i].costPerSolved)
    PROVE  Stands(H!Standing("eligible", cohort).arms, cohort, n)
<1> DEFINE arms == H!Standing("eligible", cohort).arms
           xs == [i \in 1 .. n |-> cohort[i].costPerSolved[1]]
           R == Stable(n, LessPairs(xs))
           first(j, i) == \/ H!Less(cohort[j].costPerSolved[1], cohort[i].costPerSolved[1])
                          \/ ~H!Less(cohort[i].costPerSolved[1], cohort[j].costPerSolved[1]) /\ j < i
           before(a, b) == \/ a.eligible /\ ~b.eligible
                           \/ /\ a.eligible /\ b.eligible
                              /\ H!Less(a.costPerSolved[1], b.costPerSolved[1])
           ahead(i) == {j \in 1 .. n : before(cohort[j], cohort[i])
                                       \/ (~before(cohort[i], cohort[j]) /\ j < i)}
<1>1. xs \in Seq(Rational) /\ Len(xs) = n /\ \A i \in 1 .. n : xs[i] = cohort[i].costPerSolved[1]
  <2>1. \A i \in 1 .. n : cohort[i].costPerSolved[1] \in Rational
    BY DEF IsOne
  <2> QED
    BY <2>1
<1>2. arms = [k \in 1 .. n |-> cohort[CHOOSE i \in 1 .. n : 1 + Cardinality(ahead(i)) = k]]
  <2>1. arms = H!StableSort(cohort, before)
    BY DEF H!Standing
  <2>2. H!StableSort(cohort, before)
          = [k \in 1 .. n |-> cohort[CHOOSE i \in 1 .. n : 1 + Cardinality(ahead(i)) = k]]
    BY DEF H!StableSort, Cardinality, H!Cardinality
  <2> QED
    BY <2>1, <2>2
<1> HIDE DEF xs
<1>3. /\ Ranks(n, R)
      /\ \A i, j \in 1 .. n : <<i, j>> \in R => ~H!Less(xs[j], xs[i])
      /\ \A i \in 1 .. n : Ahead(n, R, i) = {j \in 1 .. n :
                H!Less(xs[j], xs[i]) \/ (~H!Less(xs[i], xs[j]) /\ j < i)}
  BY <1>1, LessRanks
<1> HIDE DEF arms, R
<1>4. ASSUME NEW i \in 1 .. n PROVE ahead(i) = Ahead(n, R, i)
  BY <1>1, <1>3
<1> HIDE DEF ahead
<1>5. ASSUME NEW k \in 1 .. n
      PROVE  \E i \in 1 .. n : 1 + Cardinality(Ahead(n, R, i)) = k /\ arms[k] = cohort[i]
  <2>1. \E i \in 1 .. n : 1 + Cardinality(ahead(i)) = k
    BY <1>3, <1>4, PlacesAreTaken
  <2> DEFINE i == CHOOSE i \in 1 .. n : 1 + Cardinality(ahead(i)) = k
  <2>2. i \in 1 .. n /\ 1 + Cardinality(ahead(i)) = k /\ arms[k] = cohort[i]
    BY <1>2, <2>1
  <2> HIDE DEF i
  <2> QED
    BY <1>4, <2>2
<1>6. SortedBy(arms, cohort, n, R)
  <2>1. Ranks(n, R) /\ InPlaces(arms, cohort, n, R)
    BY <1>3, <1>5 DEF InPlaces
  <2> QED
    BY <2>1, PlacesSort
<1>7. ASSUME NEW k \in 1 .. n, NEW l \in 1 .. n, k < l
      PROVE  ~H!Less(arms[l].costPerSolved[1], arms[k].costPerSolved[1])
  <2>1. PICK i \in 1 .. n, j \in 1 .. n : arms[k] = cohort[i] /\ arms[l] = cohort[j] /\ <<i, j>> \in R
    BY <1>6, <1>7 DEF SortedBy
  <2> QED
    BY <1>1, <1>3, <2>1
<1>8. DOMAIN arms = 1 .. n /\ Len(arms) = n
  <2>1. arms = [k \in 1 .. n |-> arms[k]]
    BY <1>2
  <2> QED
    BY <2>1
<1> QED
  BY <1>6, <1>7, <1>8 DEF arms, SortedBy, Stands

LEMMA OursAreMeasured ==
    ASSUME NEW exp, NEW arms, NEW runs, Metered(runs)
    PROVE  /\ IsFiniteSet(Ours(exp, arms, runs))
           /\ \A t, a : Metered(Of(Ours(exp, arms, runs), t, a))
<1>1. ASSUME NEW S \in SUBSET runs PROVE Metered(S)
  BY FS_Subset DEF Metered
<1>2. Ours(exp, arms, runs) \in SUBSET runs
  BY DEF Ours
<1>3. \A t, a : Of(Ours(exp, arms, runs), t, a) \in SUBSET runs
  BY <1>2 DEF Of
<1> QED
  BY <1>1, <1>2, <1>3 DEF Metered

LEMMA StandingIsEarned ==
    ASSUME NEW exp, NEW X, NEW arms \in Seq(X), NEW runs, Metered(runs), NEW readable
    PROVE  H!RankedIsEarned(exp, arms, runs, readable)
<1> DEFINE n == Len(arms)
           s == H!Summarize(exp, arms, runs, "")
           cohort == [i \in 1 .. n |-> H!CohortArm(arms[i], exp, s, readable)]
           c == H!SummarizeCohort(exp, arms, runs, readable)
           ours == Ours(exp, arms, runs)
           selected == H!CohortTaskIDs(exp, s)
           of(t, i) == H!Executions(exp, arms, runs, t, i)
<1>1. DOMAIN arms = 1 .. n /\ n \in Nat
  OBVIOUS
<1>2. Summarizes(s, exp, arms, runs)
  <2>1. IsFiniteSet(runs)
    BY DEF Metered
  <2> QED
    BY <2>1, SummaryFields
<1> HIDE DEF n
<1>3. c = H!Standing(H!Gate(exp, s, cohort), cohort)
  <2>1. DOMAIN s.arms = 1 .. n /\ s.arms = arms
    BY <1>1, <1>2 DEF Summarizes
  <2> HIDE DEF s
  <2>2. H!CohortOfSummary(exp, s, readable) = H!Standing(H!Gate(exp, s, cohort), cohort)
    BY <2>1 DEF H!CohortOfSummary, H!CohortOf
  <2> QED
    BY <2>2 DEF H!SummarizeCohort, s
<1> HIDE DEF s, c
<1>4. s.arms = arms /\ s.tasks = TasksOf(ours) /\ s.drift = H!DriftWarnings(s.tasks, ours)
  BY <1>2 DEF Summarizes
<1>5. ASSUME NEW i \in 1 .. n
      PROVE  /\ cohort[i].label = arms[i].label
             /\ cohort[i].costPerSolved = s.costPerSolved[arms[i].label]
             /\ cohort[i].eligible =>
                  \A t \in selected \cap s.tasks :
                    /\ s.perArm[<<t, arms[i].label>>].executions >= 3
                    /\ s.perArm[<<t, arms[i].label>>].successes
                         = s.perArm[<<t, arms[i].label>>].executions
  <2>1. cohort[i] = H!CohortArm(arms[i], exp, s, readable)
    OBVIOUS
  <2> HIDE DEF cohort
  <2> QED
    BY <2>1, ArmOfCohort
<1>6. DOMAIN cohort = 1 .. n
  OBVIOUS
<1> HIDE DEF cohort
<1>7. \A i \in 1 .. n : arms[i].label \in Labels(arms)
  BY <1>1 DEF Labels
<1>8. ASSUME NEW t, NEW i \in 1 .. n PROVE of(t, i) = Of(ours, t, arms[i].label)
  BY <1>7 DEF H!Executions, H!NotDry, Of, Ours
<1>9. selected = IF exp.tasks \ {""} = {}
                 THEN UNION {{r.task : r \in {q \in H!NotDry(runs) :
                                q.experiment = exp.id /\ q.arm = arms[i].label}} : i \in DOMAIN arms}
                 ELSE exp.tasks \ {""}
  <2>1. s.tasks = UNION {{r.task : r \in {q \in H!NotDry(runs) :
                           q.experiment = exp.id /\ q.arm = arms[i].label}} : i \in DOMAIN arms}
    BY <1>4 DEF TasksOf, Ours, H!NotDry, Labels
  <2> QED
    BY <2>1 DEF H!CohortTaskIDs
<1> HIDE DEF selected, of, ours
<1>10. ASSUME c.ranked
       PROVE  /\ n >= 2
              /\ \A t \in selected, i \in DOMAIN arms :
                   /\ H!Cardinality(of(t, i)) >= 3
                   /\ \A r \in of(t, i) : ~r.vetoed /\ H!RunSucceeded(r)
                   /\ \A j \in DOMAIN arms : \A r \in of(t, i), q \in of(t, j) :
                         r.hash = q.hash /\ r.fixture = q.fixture
              /\ Len(c.arms) = n
              /\ \A i \in DOMAIN arms : \E j \in DOMAIN c.arms : c.arms[j].label = arms[i].label
              /\ \A i \in DOMAIN c.arms : c.arms[i].costPerSolved # <<>>
              /\ \A i, j \in DOMAIN c.arms :
                   i < j => ~H!Less(c.arms[j].costPerSolved[1], c.arms[i].costPerSolved[1])
  <2>1. H!Gate(exp, s, cohort) = "eligible"
    BY <1>3, <1>10 DEF H!Standing
  <2>2. /\ ~(Len(s.arms) < 2) /\ selected \subseteq s.tasks /\ s.drift = {}
        /\ \A i \in 1 .. n : cohort[i].costPerSolved # <<>> /\ cohort[i].eligible
    BY <1>6, <2>1, GateOpens DEF selected
  <2>3. n >= 2
    BY <1>1, <1>4, <2>2 DEF n
  <2>4. ASSUME NEW t \in selected, NEW i \in 1 .. n
        PROVE  /\ H!Cardinality(of(t, i)) >= 3
               /\ \A r \in of(t, i) : ~r.vetoed /\ H!RunSucceeded(r)
    <3> DEFINE a == arms[i].label
               p == H!SummarizeArmTask(of(t, i))
    <3>1. t \in s.tasks /\ a \in Labels(arms) /\ of(t, i) = Of(ours, t, a)
      BY <1>7, <1>8, <2>2
    <3>2. s.perArm[<<t, a>>] = p
      BY <1>2, <3>1 DEF Summarizes, ours
    <3>3. p.executions >= 3 /\ p.successes = p.executions
      BY <1>5, <2>2, <3>1, <3>2
    <3>4. Metered(of(t, i))
      BY <3>1, OursAreMeasured DEF ours
    <3>5. p.executions = Cardinality(of(t, i))
      BY <3>4, ArmTask
    <3>6. \A r \in of(t, i) : ~r.vetoed /\ H!RunSucceeded(r)
      BY <3>3, <3>4, ArmTask
    <3> QED
      BY <3>3, <3>5, <3>6 DEF Cardinality, H!Cardinality
  <2>5. ASSUME NEW t \in selected, NEW i \in 1 .. n, NEW j \in 1 .. n,
               NEW r \in of(t, i), NEW q \in of(t, j)
        PROVE  r.hash = q.hash /\ r.fixture = q.fixture
    <3>1. t \in s.tasks /\ r \in ours /\ q \in ours /\ r.task = t /\ q.task = t
      BY <1>8, <2>2 DEF Of
    <3>2. IsFiniteSet(ours) /\ H!DriftWarnings(s.tasks, ours) = {}
      BY <1>4, <2>2, OursAreMeasured DEF ours
    <3> QED
      BY <3>1, <3>2, NothingDrifts
  <2>6. ASSUME NEW i \in 1 .. n PROVE IsOne(cohort[i].costPerSolved)
    <3>1. s.costPerSolved[arms[i].label] # <<>> /\ arms[i].label \in Labels(arms)
      BY <1>5, <1>7, <2>2
    <3>2. IsOne(s.costPerSolved[arms[i].label])
      BY <1>2, <3>1, CostsAreRational
    <3> QED
      BY <1>5, <3>2
  <2>7. c = H!Standing("eligible", cohort)
    BY <1>3, <2>1
  <2>8. Stands(c.arms, cohort, n)
    <3>1. n \in Nat /\ DOMAIN cohort = 1 .. n
      BY <1>1, <1>6
    <3>2. \A i \in 1 .. n : cohort[i].eligible /\ IsOne(cohort[i].costPerSolved)
      BY <2>2, <2>6
    <3> QED
      BY <2>7, <3>1, <3>2, StandsByCost
  <2>9. ASSUME NEW i \in 1 .. n PROVE \E j \in 1 .. n : c.arms[j].label = arms[i].label
    <3>1. PICK k \in 1 .. n : c.arms[k] = cohort[i]
      BY <2>8 DEF Stands
    <3>2. cohort[i].label = arms[i].label
      BY <1>5
    <3> QED
      BY <3>1, <3>2
  <2>10. ASSUME NEW i \in 1 .. n PROVE c.arms[i].costPerSolved # <<>>
    <3>1. PICK k \in 1 .. n : c.arms[i] = cohort[k]
      BY <2>8 DEF Stands
    <3>2. cohort[k].costPerSolved # <<>>
      BY <2>2
    <3> QED
      BY <3>1, <3>2
  <2>11. /\ Len(c.arms) = n /\ DOMAIN c.arms = 1 .. n
         /\ \A k, l \in 1 .. n : k < l =>
              ~H!Less(c.arms[l].costPerSolved[1], c.arms[k].costPerSolved[1])
    BY <2>8 DEF Stands
  <2>12. \A t \in selected, i \in DOMAIN arms :
            /\ H!Cardinality(of(t, i)) >= 3
            /\ \A r \in of(t, i) : ~r.vetoed /\ H!RunSucceeded(r)
            /\ \A j \in DOMAIN arms : \A r \in of(t, i), q \in of(t, j) :
                  r.hash = q.hash /\ r.fixture = q.fixture
    BY <1>1, <2>4, <2>5
  <2>13. \A i \in DOMAIN arms : \E j \in DOMAIN c.arms : c.arms[j].label = arms[i].label
    BY <1>1, <2>9, <2>11
  <2>14. \A i \in DOMAIN c.arms : c.arms[i].costPerSolved # <<>>
    BY <2>10, <2>11
  <2> QED
    BY <2>3, <2>11, <2>12, <2>13, <2>14
<1>11. H!Earned(c, exp, arms, runs)
  BY <1>9, <1>10 DEF H!Earned, of, n
<1> QED
  BY <1>11 DEF H!RankedIsEarned, c

(* What the leaderboard finds a profile to cost, of the runs of one task.  *)
LEMMA CostOfProfile ==
    ASSUME NEW runs, NEW k, {<<r.suite, r.task>> : r \in runs} = {k},
           NEW t, t = H!TaskScore(k[1], k[2], H!OldestFirst(runs)), t.solved \in Int
    PROVE  H!ScoreProfile(runs).costPerSolved =
              IF t.costComplete /\ t.solved > 0
              THEN <<H!Over(H!Plus(H!Zero, t.cost), t.solved)>> ELSE <<>>
<1> DEFINE tasks == {H!TaskScore(j[1], j[2], H!OldestFirst({r \in runs : <<r.suite, r.task>> = j})) :
                       j \in {<<r.suite, r.task>> : r \in runs}}
           paid == {u \in tasks : u.costComplete /\ u.solved > 0}
           Costs(g) == g = [s \in SUBSET paid |->
                         IF s = {} THEN H!Zero
                         ELSE H!Plus(g[s \ {CHOOSE x \in s : TRUE}], (CHOOSE x \in s : TRUE).cost)]
           Solves(g) == g = [s \in SUBSET paid |->
                          IF s = {} THEN 0
                          ELSE (CHOOSE x \in s : TRUE).solved + g[s \ {CHOOSE x \in s : TRUE}]]
           cost == CHOOSE g : Costs(g)
           solved == CHOOSE g : Solves(g)
<1>1. H!ScoreProfile(runs).costPerSolved = IF paid = {} THEN <<>> ELSE <<H!Over(cost[paid], solved[paid])>>
  BY DEF H!ScoreProfile, H!FoldSet, H!MapThenFoldSet, H!MapThenSumSet
<1>2. tasks = {t}
  <2>1. {r \in runs : <<r.suite, r.task>> = k} = runs
    OBVIOUS
  <2> QED
    BY <2>1
<1> HIDE DEF tasks
<1>3. paid = IF t.costComplete /\ t.solved > 0 THEN {t} ELSE {}
  BY <1>2
<1> HIDE DEF paid
<1>4. CASE paid = {t}
  <2>1. (CHOOSE x \in {t} : TRUE) = t /\ {t} \ {t} = {} /\ {t} # {}
    OBVIOUS
  <2>2. \A s \in SUBSET {t} : s # {} => s = {t}
    OBVIOUS
  <2>3. Costs([s \in SUBSET {t} |-> IF s = {} THEN H!Zero ELSE H!Plus(H!Zero, t.cost)])
    BY <1>4, <2>1, <2>2
  <2>4. Solves([s \in SUBSET {t} |-> IF s = {} THEN 0 ELSE t.solved + 0])
    BY <1>4, <2>1, <2>2
  <2>5. Costs(cost) /\ Solves(solved)
    BY <2>3, <2>4
  <2> HIDE DEF cost, solved
  <2>6. cost[{}] = H!Zero /\ solved[{}] = 0
    BY <1>4, <2>5
  <2>7. cost[{t}] = H!Plus(H!Zero, t.cost) /\ solved[{t}] = t.solved + 0
    BY <1>4, <2>1, <2>5, <2>6
  <2>8. H!ScoreProfile(runs).costPerSolved = <<H!Over(cost[{t}], solved[{t}])>>
    BY <1>1, <1>4, <2>1
  <2>9. t.costComplete /\ t.solved > 0
    BY <1>3, <1>4, <2>1
  <2>10. solved[{t}] = t.solved
    BY <2>7
  <2> QED
    BY <2>7, <2>8, <2>9, <2>10
<1>5. CASE paid = {}
  BY <1>1, <1>3, <1>5
<1> QED
  BY <1>3, <1>4, <1>5

LEMMA CostOfOne ==
    ASSUME NEW c \in Rational, NEW k \in Nat \ {0}
    PROVE  H!Same(H!Over(H!Plus(H!Zero, c), k), H!Over(c, k))
<1>1. c.n \in Int /\ c.d \in Int
  BY DEF Rational
<1>2. H!Plus(H!Zero, c).n = c.n /\ H!Plus(H!Zero, c).d = c.d
  BY <1>1 DEF H!Plus, H!Zero, H!Ratio
<1> QED
  BY <1>1, <1>2 DEF H!Same, H!Over, H!Ratio

(* What the experiment finds an arm to cost that worked on one task.       *)
LEMMA CostOfArm ==
    ASSUME NEW tasks, NEW perArm, NEW a, NEW t \in tasks,
           \A u \in tasks : u # t => ~(perArm[<<u, a>>].successes > 0),
           perArm[<<t, a>>].cost \in Rational, perArm[<<t, a>>].successes \in Nat
    PROVE  H!CostPerSolved(H!CostByTask(tasks, perArm, a)) =
              IF perArm[<<t, a>>].hasCost /\ perArm[<<t, a>>].successes > 0
              THEN <<H!Over(perArm[<<t, a>>].cost, perArm[<<t, a>>].successes)>> ELSE <<>>
<1> DEFINE p == perArm[<<t, a>>]
           costs == H!CostByTask(tasks, perArm, a)
           x == H!Over(p.cost, p.successes)
<1>1. costs = [u \in {v \in tasks : perArm[<<v, a>>].successes > 0 /\ perArm[<<v, a>>].hasCost} |->
                  H!Over(perArm[<<u, a>>].cost, perArm[<<u, a>>].successes)]
  BY DEF H!CostByTask
<1>2. {v \in tasks : perArm[<<v, a>>].successes > 0 /\ perArm[<<v, a>>].hasCost}
        = IF p.hasCost /\ p.successes > 0 THEN {t} ELSE {}
  OBVIOUS
<1>3. CASE ~(p.hasCost /\ p.successes > 0)
  <2>1. DOMAIN costs = {}
    BY <1>1, <1>2, <1>3
  <2> QED
    BY <1>3, <2>1 DEF H!CostPerSolved
<1>4. CASE p.hasCost /\ p.successes > 0
  <2>1. costs = [u \in {t} |-> x]
    BY <1>1, <1>2, <1>4
  <2>2. x \in Rational
    <3>1. p.successes \in Nat \ {0} /\ p.cost \in Rational
      BY <1>4
    <3> QED
      BY <3>1, RationalsAdd
  <2> HIDE DEF costs, x
  <2>3. DOMAIN costs = {t} /\ costs[t] = x /\ {t} # {}
    BY <2>1
  <2>4. IsFiniteSet({t}) /\ Cardinality({t}) = 1
    BY FS_Singleton
  <2>5. SetToSeq({t}) \in [1 .. 1 -> {t}]
    BY <2>4, SetToSeqLists
  <2>6. H!CostPerSolved(costs) = <<H!Median([i \in 1 .. 1 |-> costs[SetToSeq({t})[i]]])>>
    <3> DEFINE D == DOMAIN costs
    <3>1. D # {} /\ D = {t}
      BY <2>3
    <3> HIDE DEF D
    <3>2. H!CostPerSolved(costs) =
            <<H!Median([i \in 1 .. Cardinality(D) |-> costs[SetToSeq(D)[i]]])>>
      BY <3>1 DEF H!CostPerSolved, SetToSeq, H!SetToSeq, H!IsInjective, IsInjective,
         Cardinality, H!Cardinality, D
    <3> QED
      BY <2>4, <3>1, <3>2
  <2>7. [i \in 1 .. 1 |-> costs[SetToSeq({t})[i]]] = [i \in 1 .. 1 |-> x]
    BY <2>3, <2>5
  <2>8. H!CostPerSolved(costs) = <<x>>
    BY <2>2, <2>6, <2>7, MedianOfOne
  <2> QED
    BY <1>4, <2>8 DEF costs, x
<1> QED
  BY <1>3, <1>4

(* How a leaderboard counts what an experiment counts.                     *)
LEMMA ScoredAlike ==
    ASSUME NEW runs, Metered(runs), \A r \in runs : r.vetoed => ~H!RunSucceeded(r),
           NEW suite, NEW task
    PROVE  LET t == H!TaskScore(suite, task, H!OldestFirst(runs))
               p == H!SummarizeArmTask(runs)
           IN /\ t.solved = p.successes /\ t.cost = p.cost /\ t.costComplete = p.hasCost
              /\ p.successes \in Nat /\ p.cost \in Rational
<1> DEFINE all == H!OldestFirst(runs)
           n == Len(all)
           t == H!TaskScore(suite, task, all)
           p == H!SummarizeArmTask(runs)
<1>1. /\ p.successes = Cardinality({i \in 1 .. n : H!Solved(all[i])})
      /\ p.cost = H!Total(H!Values(all, "cost"))
      /\ p.hasCost = (Len(H!Values(all, "cost")) = n)
  BY ArmTaskFields
<1>2. /\ t.solved = Cardinality({i \in DOMAIN all : H!RunSucceeded(all[i])})
      /\ t.cost = H!Total(H!Values(all, "cost"))
      /\ t.costComplete = (Len(H!Values(all, "cost")) = n)
  BY DEF H!TaskScore, Cardinality, H!Cardinality
<1>3. all \in Seq(runs)
  BY RunsInOrder DEF Metered
<1>4. p.successes \in Nat /\ p.cost \in Rational
  BY ArmTask
<1> HIDE DEF all, p, t
<1>5. {i \in 1 .. n : H!Solved(all[i])} = {i \in DOMAIN all : H!RunSucceeded(all[i])}
  <2>1. DOMAIN all = 1 .. n /\ \A i \in 1 .. n : all[i] \in runs
    BY <1>3
  <2> QED
    BY <2>1 DEF H!Solved
<1> QED
  BY <1>1, <1>2, <1>4, <1>5 DEF all, p, t

LEMMA CostsAreOne ==
    ASSUME NEW exp, NEW arms, NEW runs, Metered(runs)
    PROVE  H!CostAgrees(exp, arms, runs)
<1> DEFINE s == H!Summarize(exp, arms, runs, "")
           ours == Ours(exp, arms, runs)
<1>1. Summarizes(s, exp, arms, runs)
  <2>1. IsFiniteSet(runs)
    BY DEF Metered
  <2> QED
    BY <2>1, SummaryFields
<1> HIDE DEF s, ours
<1>2. ASSUME NEW i \in DOMAIN arms, NEW of,
             of = {r \in H!NotDry(runs) : r.experiment = exp.id /\ r.arm = arms[i].label},
             H!Cardinality({<<r.suite, r.task>> : r \in of}) = 1,
             \A r \in of : r.vetoed => ~H!RunSucceeded(r)
      PROVE  H!SameCost(H!ScoreProfile(of).costPerSolved, s.costPerSolved[arms[i].label])
  <2> DEFINE a == arms[i].label
             K == {<<r.suite, r.task>> : r \in of}
  <2>1. a \in Labels(arms)
    BY DEF Labels
  <2>2. of = {r \in ours : r.arm = a}
    BY <1>2, <2>1 DEF ours, Ours, H!NotDry
  <2>3. IsFiniteSet(of) /\ Metered(of)
    <3>1. of \in SUBSET runs
      BY <1>2 DEF H!NotDry
    <3> QED
      BY <3>1, FS_Subset DEF Metered
  <2>4. PICK k : K = {k}
    <3>1. [r \in of |-> <<r.suite, r.task>>] \in Surjection(of, K)
      BY DEF Surjection
    <3>2. Cardinality(K) = 1
      BY <1>2 DEF Cardinality, H!Cardinality
    <3> HIDE DEF K
    <3>3. IsFiniteSet(K)
      BY <2>3, <3>1, FS_Surjection
    <3> QED
      BY <3>2, <3>3, FS_Singleton
  <2>5. PICK r0 \in of : k = <<r0.suite, r0.task>>
    BY <2>4
  <2> DEFINE t0 == r0.task
             p == H!SummarizeArmTask(of)
             t == H!TaskScore(k[1], k[2], H!OldestFirst(of))
  <2>6. \A r \in of : r.task = t0
    <3>1. ASSUME NEW r \in of PROVE r.task = t0
      <4>1. <<r.suite, r.task>> = <<r0.suite, r0.task>>
        BY <2>4, <2>5
      <4> QED
        BY <4>1
    <3> QED
      BY <3>1
  <2>7. s.tasks = TasksOf(ours) /\ t0 \in s.tasks
    BY <1>1, <2>2 DEF Summarizes, ours, TasksOf
  <2>8. \A u \in s.tasks : s.perArm[<<u, a>>] = H!SummarizeArmTask(Of(ours, u, a))
    BY <1>1, <2>1 DEF Summarizes, ours
  <2>9. Of(ours, t0, a) = of /\ \A u : u # t0 => Of(ours, u, a) = {}
    BY <2>2, <2>6 DEF Of
  <2>10. s.perArm[<<t0, a>>] = p
    BY <2>7, <2>8, <2>9
  <2>11. ASSUME NEW u \in s.tasks, u # t0 PROVE ~(s.perArm[<<u, a>>].successes > 0)
    <3>1. s.perArm[<<u, a>>] = H!SummarizeArmTask({})
      BY <2>8, <2>9, <2>11
    <3>2. Metered({})
      BY FS_EmptySet DEF Metered
    <3>3. H!SummarizeArmTask({}).successes = 0
      <4> DEFINE all == H!OldestFirst({})
                 n == Len(all)
      <4>1. H!SummarizeArmTask({}).successes = Cardinality({j \in 1 .. n : H!Solved(all[j])})
        BY <3>2, ArmTaskFields
      <4>2. n = 0
        <5>1. n = Cardinality({})
          BY <3>2, ArmTaskFields
        <5> QED
          BY <5>1, FS_EmptySet
      <4> HIDE DEF n, all
      <4>3. {j \in 1 .. n : H!Solved(all[j])} = {}
        BY <4>2
      <4> QED
        BY <4>1, <4>3, FS_EmptySet
    <3> QED
      BY <3>1, <3>3
  <2>12. /\ t.solved = p.successes /\ t.cost = p.cost /\ t.costComplete = p.hasCost
         /\ p.successes \in Nat /\ p.cost \in Rational
    BY <1>2, <2>3, ScoredAlike
  <2>13. H!ScoreProfile(of).costPerSolved =
            IF t.costComplete /\ t.solved > 0
            THEN <<H!Over(H!Plus(H!Zero, t.cost), t.solved)>> ELSE <<>>
    <3> HIDE DEF t
    <3>1. t = H!TaskScore(k[1], k[2], H!OldestFirst(of)) /\ t.solved \in Int
      BY <2>12 DEF t
    <3> QED
      BY <2>4, <3>1, CostOfProfile
  <2> HIDE DEF a, t, p, t0
  <2>14. s.costPerSolved[a] = H!CostPerSolved(H!CostByTask(s.tasks, s.perArm, a))
    BY <1>1, <2>1 DEF Summarizes
  <2>15. s.costPerSolved[a] = IF p.hasCost /\ p.successes > 0
                              THEN <<H!Over(p.cost, p.successes)>> ELSE <<>>
    <3>1. s.perArm[<<t0, a>>].cost \in Rational /\ s.perArm[<<t0, a>>].successes \in Nat
      BY <2>10, <2>12
    <3> QED
      BY <2>7, <2>10, <2>11, <2>14, <3>1, CostOfArm
  <2>16. CASE p.hasCost /\ p.successes > 0
    <3>1. H!Same(H!Over(H!Plus(H!Zero, p.cost), p.successes), H!Over(p.cost, p.successes))
      <4>1. p.successes \in Nat \ {0}
        BY <2>12, <2>16
      <4> QED
        BY <2>12, <4>1, CostOfOne
    <3>2. /\ H!ScoreProfile(of).costPerSolved = <<H!Over(H!Plus(H!Zero, p.cost), p.successes)>>
          /\ s.costPerSolved[a] = <<H!Over(p.cost, p.successes)>>
      BY <2>12, <2>13, <2>15, <2>16
    <3> QED
      BY <3>1, <3>2 DEF H!SameCost, a
  <2>17. CASE ~(p.hasCost /\ p.successes > 0)
    <3>1. H!ScoreProfile(of).costPerSolved = <<>> /\ s.costPerSolved[a] = <<>>
      BY <2>12, <2>13, <2>15, <2>17
    <3> QED
      BY <3>1 DEF H!SameCost, a
  <2> QED
    BY <2>16, <2>17
<1> QED
  BY <1>2 DEF H!CostAgrees, s

(* A cell for each task and arm, at most.                                  *)
CohortInv == command = "cohort" => input \in Seq(Cells) /\ Len(input) <= NumCells

LEMMA CohortAlways == Spec => []CohortInv
<1>1. Init => CohortInv
  <2> SUFFICES ASSUME Init, command = "cohort" PROVE input \in Seq(Cells) /\ Len(input) <= NumCells
    BY DEF CohortInv
  <2>1. input = <<>>
    BY DEF Init, EmptyInput
  <2>2. <<>> \in Seq(Cells) /\ Len(<<>>) = 0
    OBVIOUS
  <2>3. NumCells \in Nat
    <3>1. Len(Arms) \in Nat /\ Cardinality(Selected.tasks) \in Nat
      BY CellsAssumption, FS_CardinalityType
    <3> QED
      BY <3>1 DEF NumCells
  <2> QED
    BY <2>1, <2>2, <2>3
<1>2. CohortInv /\ [Next]_vars => CohortInv'
  <2> SUFFICES ASSUME CohortInv, [Next]_vars, command' = "cohort"
               PROVE  input' \in Seq(Cells) /\ Len(input') <= NumCells
    BY DEF CohortInv, NumCells
  <2>1. command = "cohort" /\ (input' = input \/ RecordCell)
    <3>1. \A c : Growing(c) \/ Given(c) => command = c
      BY DEF Growing, Given
    <3>2. PrintLine => command = "trace"
      BY <3>1 DEF PrintLine
    <3>3. SayMessage => command = "usage"
      BY <3>1 DEF SayMessage
    <3>4. Snapshot => command = "snapshot"
      BY <3>1 DEF Snapshot
    <3>5. AddSegment => command = "globs"
      BY <3>1 DEF AddSegment
    <3>6. RecordRun => command = "history"
      BY <3>1 DEF RecordRun
    <3> QED
      BY <3>2, <3>3, <3>4, <3>5, <3>6, InputSteps
  <2>2. CASE RecordCell
    <3>1. PICK cell \in Cells : input' = Append(input, cell)
      BY <2>2 DEF RecordCell
    <3>2. Len(input) < NumCells /\ NumCells \in Int
      <4>1. Len(Arms) \in Nat /\ Cardinality(Selected.tasks) \in Nat
        BY CellsAssumption, FS_CardinalityType
      <4> QED
        BY <2>2, <4>1 DEF RecordCell, NumCells
    <3>3. input \in Seq(Cells) /\ Len(input) \in Nat
      BY <2>1 DEF CohortInv
    <3>4. Append(input, cell) \in Seq(Cells) /\ Len(Append(input, cell)) = Len(input) + 1
      BY <3>3
    <3> HIDE DEF NumCells
    <3> QED
      BY <3>1, <3>2, <3>3, <3>4
  <2> QED
    BY <2>1, <2>2 DEF CohortInv
<1> QED
  BY <1>1, <1>2, PTL DEF Spec

LEMMA RunsAreMeasured == CohortInv /\ command = "cohort" => Metered(ExperimentRuns)
<1> SUFFICES ASSUME CohortInv, command = "cohort" PROVE Metered(ExperimentRuns)
  OBVIOUS
<1> DEFINE n == Len(input)
           cells == [i \in 1 .. n |-> CellOf(i, input[i])]
           C == {CellOf(i, input[i]) : i \in 1 .. n}
<1>1. n \in Nat /\ DOMAIN input = 1 .. n /\ n <= NumCells /\ \A i \in 1 .. n : input[i] \in Cells
  BY DEF CohortInv
<1>2. NumCells \in Nat
  <2>1. Len(Arms) \in Nat /\ Cardinality(Selected.tasks) \in Nat
    BY CellsAssumption, FS_CardinalityType
  <2> QED
    BY <2>1 DEF NumCells
<1>3. ASSUME NEW i \in 1 .. n
      PROVE  /\ IsFiniteSet(CellOf(i, input[i]))
             /\ \A r \in CellOf(i, input[i]) : \A m \in DOMAIN r.metrics : r.metrics[m] \in Int
  <2>1. i \in 1 .. NumCells
    BY <1>1, <1>2
  <2> QED
    BY <1>1, <2>1, CellsAssumption
<1>4. IsFiniteSet(C)
  <2>1. cells \in Surjection(1 .. n, C)
    BY DEF Surjection
  <2>2. IsFiniteSet(1 .. n)
    BY <1>1, PrefixSize
  <2> HIDE DEF cells, C
  <2> QED
    BY <2>1, <2>2, FS_Surjection
<1>5. IsFiniteSet(UNION C)
  <2>1. \A cell \in C : IsFiniteSet(cell)
    BY <1>3
  <2> HIDE DEF C
  <2> QED
    BY <1>4, <2>1, FS_UNION
<1>6. ExperimentRuns = UNION C
  BY <1>1 DEF ExperimentRuns
<1>7. ASSUME NEW r \in UNION C, NEW m \in DOMAIN r.metrics PROVE r.metrics[m] \in Int
  <2>1. PICK i \in 1 .. n : r \in CellOf(i, input[i])
    OBVIOUS
  <2> QED
    BY <1>3, <1>7, <2>1
<1> QED
  BY <1>5, <1>6, <1>7 DEF Metered

(* A standing is earned, whatever was run and however it ended: no ranked  *)
(* arm skipped or failed a selected task, none met other inputs, none is   *)
(* left out or ranked above a cheaper one. (SummarizeCohort)               *)
THEOREM StandingsAreEarned == Spec => []RankedIsEarned
<1>1. CohortInv => RankedIsEarned
  <2> SUFFICES ASSUME CohortInv, command = "cohort"
               PROVE  H!RankedIsEarned(Selected, Arms, ExperimentRuns, {p.hash : p \in StoredProfiles})
    BY DEF RankedIsEarned
  <2>1. Arms \in Seq(ToSet(Arms))
    BY CellsAssumption
  <2>2. Metered(ExperimentRuns)
    BY RunsAreMeasured
  <2> QED
    BY <2>1, <2>2, StandingIsEarned
<1> QED
  BY <1>1, CohortAlways, PTL

(* Whatever was run, the cost of an arm that worked on one task is the     *)
(* same to the experiment and to the leaderboard. (Summarize,              *)
(* ScoreProfile)                                                           *)
THEOREM CostsAgree == Spec => []CostAgrees
<1>1. CohortInv => CostAgrees
  BY RunsAreMeasured, CostsAreOne DEF CostAgrees
<1> QED
  BY <1>1, CohortAlways, PTL
===============================================================================
