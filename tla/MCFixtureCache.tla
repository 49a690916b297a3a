--------------------------- MODULE MCFixtureCache ---------------------------
(* Model values for FixtureCache: two or three processes, two files.       *)
EXTENDS FixtureCache, TLC

CONSTANTS p1, p2, p3, f1, f2

TwoProcs == {p1, p2}
ThreeProcs == {p1, p2, p3}
TwoFiles == {f1, f2}

NoCancel == {"crash", "timeout", "io"}
CancelOnly == {"cancel"}

Symmetry == Permutations(Procs) \cup Permutations(Fixture)
=============================================================================
