------------------------------- MODULE ChangeSet ------------------------------
(***************************************************************************)
(* What package runner reports as the agent's changes.  The agent works in *)
(* a git worktree and may write, stage and commit as it likes; the runner  *)
(* asks git for its status and for the difference from the baseline.       *)
(*                                                                         *)
(* git is external.  Renames are detected if the content is the same.      *)
(***************************************************************************)
EXTENDS Naturals, FiniteSets

CONSTANTS
    Paths, Contents, None,
    Base,       \* the baseline: [Paths -> Contents \cup {None}]
    Ignored     \* paths .gitignore names

ASSUME ChangeSetAssumption ==
    /\ IsFiniteSet(Paths) /\ None \notin Contents
    /\ Base \in [Paths -> Contents \cup {None}] /\ Ignored \subseteq Paths

VARIABLES
    head,       \* the commit checked out
    index,      \* what is staged
    work        \* what is there

changes == <<head, index, work>>

ChangeInit == head = Base /\ index = Base /\ work = Base

(***************************************************************************)
(* The agent                                                               *)
(***************************************************************************)

Write(p) == \E c \in Contents : work' = [work EXCEPT ![p] = c] /\ UNCHANGED <<head, index>>
Delete(p) == work' = [work EXCEPT ![p] = None] /\ UNCHANGED <<head, index>>
Stage(p) == index' = [index EXCEPT ![p] = work[p]] /\ UNCHANGED <<head, work>>
Untrack(p) == index' = [index EXCEPT ![p] = None] /\ UNCHANGED <<head, work>>
Commit == head' = index /\ UNCHANGED <<index, work>>

ChangeNext ==
    \/ \E p \in Paths : Write(p) \/ Delete(p) \/ Stage(p) \/ Untrack(p)
    \/ Commit

ChangeSpec == ChangeInit /\ [][ChangeNext]_changes

(***************************************************************************)
(* git                                                                     *)
(***************************************************************************)

(* A path is renamed once at most, and as much as possible is a rename.    *)
Renames(old, new) ==
    LET candidates == {r \in Paths \X Paths :
            /\ old[r[1]] # None /\ new[r[1]] = None
            /\ old[r[2]] = None /\ new[r[2]] = old[r[1]]}
        matchings == {R \in SUBSET candidates : \A r, s \in R :
            r # s => r[1] # s[1] /\ r[2] # s[2]}
    IN CHOOSE R \in matchings : \A S \in matchings : ~(R \subseteq S /\ R # S)

Code(old, new) == IF old = new THEN " " ELSE IF old = None THEN "A"
                  ELSE IF new = None THEN "D" ELSE "M"

(* A record is [x, y, path, from]; from is the path itself but in a rename.*)
Status ==
    LET renamed == Renames(head, index)
        y(p) == IF index[p] = None THEN " " ELSE Code(index[p], work[p])
        plain == {p \in Paths : \A r \in renamed : p # r[1] /\ p # r[2]}
    IN {[x |-> "R", y |-> y(r[2]), path |-> r[2], from |-> r[1]] : r \in renamed}
       \cup {r \in {[x |-> Code(head[p], index[p]), y |-> y(p), path |-> p, from |-> p] :
                    p \in plain} : r.x # " " \/ r.y # " "}
       \cup {[x |-> "?", y |-> "?", path |-> p, from |-> p] :
             p \in {q \in Paths \ Ignored : index[q] = None /\ work[q] # None}}

Tracked == [p \in Paths |-> IF index[p] = None THEN None ELSE work[p]]

NameStatus ==
    LET renamed == Renames(Base, Tracked)
        plain == {p \in Paths : Base[p] # Tracked[p] /\ \A r \in renamed : p # r[1] /\ p # r[2]}
    IN {[x |-> "R", path |-> r[2], from |-> r[1]] : r \in renamed}
       \cup {[x |-> Code(Base[p], Tracked[p]), path |-> p, from |-> p] : p \in plain}

(***************************************************************************)
(* The runner                                                              *)
(***************************************************************************)

(* Both paths of a rename have changed.                                    *)
ParseStatusZ == UNION {{r.path, r.from} : r \in Status}
ParseNameStatusZ == UNION {{r.path, r.from} : r \in NameStatus}

(* Mutant: only the status is asked for.                                   *)
ChangedFiles_StatusOnly == ParseStatusZ

ChangedFiles == ParseStatusZ \cup ParseNameStatusZ

(* What the diff against the baseline has the bytes of.                    *)
DiffAgainstBaseline == {r.path : r \in NameStatus}

(* Untracked files are copied to the run's directory.                      *)
CaptureUntracked == {p \in Paths \ Ignored : index[p] = None /\ work[p] # None}

(* Created and deleted paths: the status's word first, then the diff's.    *)
StatusKind(p) ==
    LET at(S) == \E r \in Status : r.path = p /\ {r.x, r.y} \cap S # {}
    IN IF at({"?"}) THEN "A" ELSE IF at({"A"}) THEN "A" ELSE IF at({"D"}) THEN "D" ELSE " "
ChangeKind(p) ==
    LET diff(k) == \E r \in NameStatus : r.path = p /\ r.x = k
    IN IF diff("D") THEN "D"
       ELSE IF diff("A") /\ StatusKind(p) # "D" THEN "A" ELSE StatusKind(p)

ChangeCounts == [created |-> Cardinality({p \in Paths : ChangeKind(p) = "A"}),
                 deleted |-> Cardinality({p \in Paths : ChangeKind(p) = "D"})]

(***************************************************************************)
(* Properties                                                              *)
(***************************************************************************)

(* Whatever the agent staged and committed on the way, no path that is not *)
(* ignored differs from the baseline without being reported, and what it   *)
(* now contains is in the diff or among the captured files: ChangedFiles,  *)
(* captureUntracked.                                                       *)
NothingMissed ==
    \A p \in Paths :
       /\ work[p] # Base[p] /\ (p \in Ignored => index[p] # None) => p \in ChangedFiles
       /\ p \in CaptureUntracked \/ p \in DiffAgainstBaseline
          \/ work[p] \in {Base[p], None} \/ (p \in Ignored /\ index[p] = None)
===============================================================================
