--------------------------- MODULE ChangeSetProofs ----------------------------
(***************************************************************************)
(* No change of the agent's is missed, whatever the paths, their contents  *)
(* and the baseline are and however the agent edits, stages and commits.   *)
(*                                                                         *)
(* What is there, staged and committed may be anything: NothingMissed      *)
(* rests on the two questions the runner asks of git, not on the way the   *)
(* worktree got there.  So the invariant is the types, and the argument is *)
(* about git's answers.  That a renamed path is reported under both names  *)
(* rests on there being a largest pairing of removed with added paths.     *)
(***************************************************************************)
EXTENDS ChangeSet, FiniteSetTheorems, WellFoundedInduction, TLAPS

Tree == [Paths -> Contents \cup {None}]

ChangesTypeOK == head \in Tree /\ index \in Tree /\ work \in Tree

(***************************************************************************)
(* The worktree                                                            *)
(***************************************************************************)

LEMMA TypesHold == ChangeSpec => []ChangesTypeOK
<1>1. ChangeInit => ChangesTypeOK
  BY ChangeSetAssumption DEF ChangeInit, ChangesTypeOK, Tree
<1>2. ChangesTypeOK /\ [ChangeNext]_changes => ChangesTypeOK'
  <2> SUFFICES ASSUME ChangesTypeOK, [ChangeNext]_changes PROVE ChangesTypeOK'
    OBVIOUS
  <2>1. ASSUME NEW p \in Paths, Write(p) PROVE ChangesTypeOK'
    BY <2>1 DEF ChangesTypeOK, Tree, Write
  <2>2. ASSUME NEW p \in Paths, Delete(p) PROVE ChangesTypeOK'
    BY <2>2 DEF ChangesTypeOK, Tree, Delete
  <2>3. ASSUME NEW p \in Paths, Stage(p) PROVE ChangesTypeOK'
    BY <2>3 DEF ChangesTypeOK, Tree, Stage
  <2>4. ASSUME NEW p \in Paths, Untrack(p) PROVE ChangesTypeOK'
    BY <2>4 DEF ChangesTypeOK, Tree, Untrack
  <2>5. CASE Commit
    BY <2>5 DEF ChangesTypeOK, Commit
  <2>6. CASE UNCHANGED changes
    BY <2>6 DEF ChangesTypeOK, changes
  <2> QED
    BY <2>1, <2>2, <2>3, <2>4, <2>5, <2>6 DEF ChangeNext
<1> QED
  BY <1>1, <1>2, PTL DEF ChangeSpec

(***************************************************************************)
(* Renames                                                                 *)
(***************************************************************************)

(* A set of subsets of a finite set has a largest member.                  *)
LEMMA LargestExists ==
    ASSUME NEW S, IsFiniteSet(S), NEW F \in SUBSET SUBSET S, F # {}
    PROVE  \E R \in F : \A T \in F : ~(R \subseteq T /\ R # T)
<1> DEFINE rest == {S \ R : R \in F}
<1>1. rest \subseteq SUBSET S /\ rest # {}
  <2>1. PICK R \in F : TRUE
    OBVIOUS
  <2>2. S \ R \in rest
    OBVIOUS
  <2>3. rest \subseteq SUBSET S
    OBVIOUS
  <2> HIDE DEF rest
  <2> QED
    BY <2>2, <2>3
<1>2. IsWellFoundedOn(StrictSubsetOrdering(S), SUBSET S)
  BY FS_StrictSubsetOrderingWellFounded, FS_FiniteSubsetsOfFinite
<1>3. PICK x \in rest : \A y \in rest : ~(<<y, x>> \in StrictSubsetOrdering(S))
  BY <1>1, <1>2, WFMin
<1>4. PICK R \in F : x = S \ R
  OBVIOUS
<1>5. ASSUME NEW T \in F, R \subseteq T, R # T PROVE FALSE
  <2>1. S \ T \in rest
    OBVIOUS
  <2>2. S \ T \subseteq x /\ S \ T # x
    BY <1>4, <1>5
  <2>3. <<S \ T, x>> \in StrictSubsetOrdering(S)
    BY <1>1, <2>1, <2>2 DEF StrictSubsetOrdering
  <2> QED
    BY <1>3, <2>1, <2>3
<1> QED
  BY <1>5

(* A rename takes a path that was there and is not to one that is new.     *)
LEMMA RenamesMove ==
    ASSUME NEW old \in Tree, NEW new \in Tree, NEW r \in Renames(old, new)
    PROVE  /\ r \in Paths \X Paths
           /\ new[r[1]] = None /\ new[r[2]] # None
<1> DEFINE candidates == {c \in Paths \X Paths :
              /\ old[c[1]] # None /\ new[c[1]] = None
              /\ old[c[2]] = None /\ new[c[2]] = old[c[1]]}
           matchings == {R \in SUBSET candidates : \A c, d \in R :
              c # d => c[1] # d[1] /\ c[2] # d[2]}
<1>1. IsFiniteSet(candidates)
  <2>1. IsFiniteSet(Paths \X Paths)
    BY ChangeSetAssumption, FS_Product
  <2> QED
    BY <2>1, FS_Subset
<1>2. {} \in matchings /\ matchings \in SUBSET SUBSET candidates
  OBVIOUS
<1> HIDE DEF candidates, matchings
<1>3. \E R \in matchings : \A T \in matchings : ~(R \subseteq T /\ R # T)
  BY <1>1, <1>2, LargestExists
<1>4. Renames(old, new) \in matchings
  BY <1>3 DEF Renames, candidates, matchings
<1>5. r \in candidates
  BY <1>2, <1>4
<1> QED
  BY <1>5, ChangeSetAssumption DEF candidates, Tree

(***************************************************************************)
(* What the runner is told                                                 *)
(***************************************************************************)

LEMMA TrackedIsTree == ASSUME ChangesTypeOK PROVE Tracked \in Tree
BY DEF ChangesTypeOK, Tree, Tracked

(* git diff --name-status names every tracked path that is not as it was.  *)
LEMMA DiffNames ==
    ASSUME ChangesTypeOK, NEW p \in Paths, Tracked[p] # Base[p]
    PROVE  /\ p \in ParseNameStatusZ
           /\ Tracked[p] # None => p \in DiffAgainstBaseline
<1>1. Base \in Tree /\ Tracked \in Tree
  BY ChangeSetAssumption, TrackedIsTree DEF Tree
<1> DEFINE renamed == Renames(Base, Tracked)
           plain == {q \in Paths : Base[q] # Tracked[q] /\ \A r \in renamed : q # r[1] /\ q # r[2]}
<1>2. NameStatus = {[x |-> "R", path |-> r[2], from |-> r[1]] : r \in renamed}
                   \cup {[x |-> Code(Base[q], Tracked[q]), path |-> q, from |-> q] : q \in plain}
  BY DEF NameStatus
<1>3. \A r \in renamed : Tracked[r[1]] = None
  BY <1>1, RenamesMove
<1> HIDE DEF renamed
<1>4. CASE p \in plain
  <2> DEFINE named == [x |-> Code(Base[p], Tracked[p]), path |-> p, from |-> p]
  <2>1. named \in NameStatus
    BY <1>2, <1>4
  <2>2. named.path = p
    OBVIOUS
  <2> HIDE DEF named
  <2> QED
    BY <2>1, <2>2 DEF ParseNameStatusZ, DiffAgainstBaseline
<1>5. CASE p \notin plain
  <2>1. PICK r \in renamed : p = r[1] \/ p = r[2]
    BY <1>5
  <2>2. [x |-> "R", path |-> r[2], from |-> r[1]] \in NameStatus
    BY <1>2
  <2>3. p \in ParseNameStatusZ
    BY <2>1, <2>2 DEF ParseNameStatusZ
  <2>4. Tracked[p] # None => p = r[2]
    BY <1>3, <2>1
  <2> QED
    BY <2>2, <2>3, <2>4 DEF DiffAgainstBaseline
<1> QED
  BY <1>4, <1>5

(* git status names every file that is neither tracked nor ignored.        *)
LEMMA StatusNamesUntracked ==
    ASSUME NEW p \in CaptureUntracked
    PROVE  p \in ParseStatusZ
<1>1. [x |-> "?", y |-> "?", path |-> p, from |-> p] \in Status
  BY DEF CaptureUntracked, Status
<1> QED
  BY <1>1 DEF ParseStatusZ

LEMMA TypesSuffice == ChangesTypeOK => NothingMissed
<1> SUFFICES ASSUME ChangesTypeOK, NEW p \in Paths
             PROVE  /\ work[p] # Base[p] /\ (p \in Ignored => index[p] # None) => p \in ChangedFiles
                    /\ \/ p \in CaptureUntracked \/ p \in DiffAgainstBaseline
                       \/ work[p] \in {Base[p], None} \/ (p \in Ignored /\ index[p] = None)
  BY DEF NothingMissed
<1>1. Tracked[p] = IF index[p] = None THEN None ELSE work[p]
  BY DEF Tracked
<1>2. Tracked[p] # Base[p] => p \in ChangedFiles
  BY DiffNames DEF ChangedFiles
<1>3. p \in CaptureUntracked => p \in ChangedFiles
  BY StatusNamesUntracked DEF ChangedFiles
<1>4. p \notin Ignored /\ index[p] = None /\ work[p] # None => p \in CaptureUntracked
  BY DEF CaptureUntracked
<1>5. CASE index[p] # None
  BY <1>1, <1>2, <1>5, DiffNames
<1>6. CASE index[p] = None
  BY <1>1, <1>2, <1>3, <1>4, <1>6
<1> QED
  BY <1>5, <1>6

(* Whatever the agent edits, stages, commits and untracks, in any worktree *)
(* with any baseline, it is reported and its bytes are kept: ChangedFiles, *)
(* DiffAgainstBaseline, captureUntracked.                                  *)
THEOREM ChangesAreReported == ChangeSpec => []NothingMissed
BY TypesHold, TypesSuffice, PTL
===============================================================================
