------------------------------- MODULE Patterns -------------------------------
(***************************************************************************)
(* Patterns: the regular expressions of Go's regexp, as far as it matters  *)
(* whether they compile, and the two matchers of path globs, the one of    *)
(* package evaluation (required, forbidden paths) and the one of package   *)
(* runner (allow_changes).                                                 *)
(***************************************************************************)
EXTENDS Integers, Sequences, FiniteSets, SequencesExt

(* "(" and ")" open and close a group, any other expression is a word and  *)
(* compiles; expressions joined by "|" compile if their groups pair up.    *)
(* A text is the set of its words.                                         *)
Depth(ps) == FoldSeq(LAMBDA p, d : IF p = "(" THEN d + 1 ELSE IF p = ")" THEN d - 1 ELSE d,
                     0, ps)
JoinCompiles(ps) == Depth(ps) = 0 /\ \A n \in 0 .. Len(ps) : Depth(SubSeq(ps, 1, n)) >= 0
Compiles(p) == JoinCompiles(<<p>>)
Found(p, text) == p \in text

(* path.Match on one segment: "*" matches any name, "[" is malformed.      *)
SegmentMatches(g, s) == g # "[" /\ g \in {"*", s}

(* path.Clean, segment by segment.                                         *)
CleanPath(segs) ==
    LET step(done, s) == IF s \in {"", "."} THEN done
                         ELSE IF s = ".." /\ done # <<>> /\ Last(done) # ".." THEN Front(done)
                         ELSE Append(done, s)
        clean == FoldLeft(step, <<>>, segs)
    IN IF clean = <<>> THEN <<".">> ELSE clean

(* m[<<i, j>>]: the glob from its i-th segment on matches the path from    *)
(* its j-th on, if "**" spans so many segments at least.                   *)
MatchFrom(glob, path, least) ==
    LET m[at \in (1 .. Len(glob) + 1) \X (1 .. Len(path) + 1)] ==
          LET i == at[1]
              j == at[2]
          IN IF i > Len(glob) THEN j > Len(path)
             ELSE IF glob[i] = "**"
                  THEN i = Len(glob) \/ \E k \in j + least .. Len(path) + 1 : m[<<i + 1, k>>]
             ELSE j <= Len(path) /\ SegmentMatches(glob[i], path[j]) /\ m[<<i + 1, j + 1>>]
    IN m[<<1, 1>>]

(* Mutant: "**" spans one segment at least.                                *)
MatchSegments_NotEmpty(glob, path) == MatchFrom(glob, path, 1)

MatchSegments(glob, path) == MatchFrom(glob, path, 0)

(* Package runner: successive "**" are one.                                *)
Squeeze(glob) ==
    FoldLeft(LAMBDA done, g : IF g = "**" /\ done # <<>> /\ Last(done) = "**"
                              THEN done ELSE Append(done, g), <<>>, glob)

RunnerMatchGlob(glob, path) == MatchSegments(Squeeze(glob), path)
EvaluationMatchGlob(glob, path) == MatchSegments(CleanPath(glob), CleanPath(path))
MatchAny(globs, path) == \E g \in globs : RunnerMatchGlob(g, path)

(* unexpectedFiles: what changed and matches none of the globs a task      *)
(* allows.                                                                 *)
UnexpectedFiles(allow, changed) == {p \in changed : ~MatchAny(allow, p)}

(* What a glob means: the path can be cut into one piece for each segment  *)
(* of the glob, any piece for "**", one matching name for another.         *)
GlobMeans(glob, path) ==
    \E cut \in [0 .. Len(glob) -> 0 .. Len(path)] :
       /\ cut[0] = 0 /\ cut[Len(glob)] = Len(path)
       /\ \A i \in 1 .. Len(glob) :
            IF glob[i] = "**" THEN cut[i - 1] <= cut[i]
            ELSE cut[i] = cut[i - 1] + 1 /\ SegmentMatches(glob[i], path[cut[i]])
===============================================================================
