-------------------------- MODULE FixtureCacheProofs --------------------------
(***************************************************************************)
(* Proofs about FixtureCache, for any number of processes, any fixture and *)
(* any bound on the calls.  Part 1 holds under every fault; part 2 needs   *)
(* that no command is interrupted.                                         *)
(***************************************************************************)
EXTENDS FixtureCache, TLAPS

(* Only the process that created the lock file is inside the creation.     *)
HolderInside == \A p \in Procs : pc[p] \in Critical => lock = p

(* What the directory holds at each stage of the creation.  A process that *)
(* is not yet writing has written nothing.                                 *)
Staged(p) ==
    /\ pc[p] \in {"fast", "lock", "recheck", "clear", "init"} => wrote[p] = {}
    /\ pc[p] \in {"init", "write"} => repo.head = NoCommit
    /\ pc[p] = "init" => repo.files = {}
    /\ pc[p] = "write" => repo.files = wrote[p]
    /\ pc[p] = "add" => repo.files = Fixture
    /\ pc[p] = "commit" => repo.index = Fixture

Stages == \A p \in Procs : Staged(p)

IInv == TypeOK /\ HolderInside /\ Stages /\ BaselineExact

(* A count below its bound can be increased.                               *)
LEMMA CountUp ==
    ASSUME NEW m \in Nat, NEW c \in 0..m, c < m
    PROVE  c + 1 \in 0..m
  OBVIOUS

(* What is left of a repository holds no other commit, and no commit       *)
(* without a .git; its worktrees are some of the same.                     *)
LEMMA RestOf ==
    ASSUME NEW r \in Repos, NEW rest \in PartsOf(r)
    PROVE  /\ rest \in Repos
           /\ rest.head \in {r.head, NoCommit} /\ rest.links \subseteq r.links
           /\ rest.head # NoCommit => rest.git
  BY DEF PartsOf, Repos, EmptyDir, Commits, NoCommit

(* Type correctness is inductive by itself.                                *)
LEMMA TypeInit == Init => TypeOK
  BY ConstantsAssumption
  DEF Init, TypeOK, EmptyDir, Repos, Commits, NoCommit, PCs, Outcomes, RunIds

LEMMA TypeStep == TypeOK /\ [Next]_vars => TypeOK'
<1> SUFFICES ASSUME TypeOK, [Next]_vars PROVE TypeOK'
  OBVIOUS
<1> USE DEF TypeOK, PCs, Critical, Outcomes
<1>1. ASSUME NEW p \in Procs, Call(p) PROVE TypeOK'
  <2>1. calls[p] + 1 \in 0..MaxCalls
    <3>1. calls[p] \in 0..MaxCalls /\ calls[p] < MaxCalls
      BY <1>1 DEF Call
    <3> QED
      BY <3>1, CountUp, ConstantsAssumption
  <2>2. NoCommit \in Commits
    BY DEF Commits
  <2> QED
    BY <1>1, <2>1, <2>2 DEF Call, Goto
<1>2. ASSUME NEW p \in Procs, Materialize(p) PROVE TypeOK'
  <2>1. CASE FastPath(p)
    BY <2>1 DEF FastPath, Goto, Repos
  <2>2. CASE AcquireLock(p)
    BY <2>2 DEF AcquireLock, Goto
  <2>3. CASE AbandonLock(p)
    BY <2>3 DEF AbandonLock, Goto
  <2>4. CASE Recheck(p)
    BY <2>4 DEF Recheck, Goto, Repos
  <2>4a. CASE ClearPart(p)
    <3>1. repo' \in Repos
      BY <2>4a, RestOf DEF ClearPart
    <3> QED
      BY <2>4a, <3>1 DEF ClearPart
  <2>5. CASE ClearDir(p)
    BY <2>5 DEF ClearDir, Goto, EmptyDir, Repos, Commits, RunIds
  <2>6. CASE InitRepo(p)
    BY <2>6 DEF InitRepo, Goto, Repos
  <2>7. CASE WriteFile(p)
    <3>1. PICK f \in Fixture \ wrote[p] :
            /\ wrote' = [wrote EXCEPT ![p] = @ \cup {f}]
            /\ repo' = [repo EXCEPT !.files = @ \cup {f}]
            /\ pc' = [pc EXCEPT ![p] = IF wrote'[p] = Fixture THEN "add" ELSE @]
      BY <2>7 DEF WriteFile
    <3>2. repo' \in Repos
      BY <3>1 DEF Repos
    <3>3. wrote' \in [Procs -> SUBSET Fixture]
      BY <3>1
    <3>4. pc' \in [Procs -> PCs]
      BY <3>1
    <3> QED
      BY <2>7, <3>2, <3>3, <3>4 DEF WriteFile
  <2>8. CASE AddAll(p)
    BY <2>8 DEF AddAll, Goto, Repos
  <2>9. CASE Commit(p)
    BY <2>9 DEF Commit, Goto, Repos, Commits
  <2>10. CASE ReadHead(p)
    BY <2>10 DEF ReadHead, Goto, Repos
  <2>11. CASE CreateFails(p)
    BY <2>11 DEF CreateFails
  <2>12. CASE Unlock(p)
    BY <2>12 DEF Unlock, Goto
  <2> QED
    BY <1>2, <2>1, <2>2, <2>3, <2>4, <2>4a, <2>5, <2>6, <2>7, <2>8, <2>9,
       <2>10, <2>11, <2>12 DEF Materialize
<1>3. ASSUME NEW p \in Procs, UseWorktree(p) PROVE TypeOK'
  <2>0. Run(p) \in RunIds
    BY DEF Run, RunIds
  <2>1. CASE CreateWorktree(p)
    BY <2>0, <2>1 DEF CreateWorktree, Goto, Repos
  <2>2. CASE CreateWorktreeFails(p)
    <3>1. \/ repo' = repo
          \/ repo' = [repo EXCEPT !.links = @ \cup {Run(p)}]
      BY <2>2 DEF CreateWorktreeFails
    <3>2. repo' \in Repos
      <4>1. CASE repo' = repo
        BY <4>1
      <4>2. CASE repo' = [repo EXCEPT !.links = @ \cup {Run(p)}]
        BY <2>0, <4>2 DEF Repos
      <4> QED
        BY <3>1, <4>1, <4>2
    <3>3. cancelled' \in [Procs -> BOOLEAN]
      BY <2>2 DEF CreateWorktreeFails
    <3> QED
      BY <2>2, <3>2, <3>3 DEF CreateWorktreeFails, Goto
  <2>3. CASE CaptureChanges(p)
    BY <2>3 DEF CaptureChanges, Goto
  <2>4. CASE RemoveWorktree(p)
    BY <2>4 DEF RemoveWorktree, Goto, Repos
  <2>5. CASE KeepWorktree(p)
    BY <2>5 DEF KeepWorktree, Goto
  <2> QED
    BY <1>3, <2>1, <2>2, <2>3, <2>4, <2>5 DEF UseWorktree
<1>4. ASSUME NEW p \in Procs, Environment(p) PROVE TypeOK'
  BY <1>4 DEF Environment, Cancel, Crash, LockFails, Goto, NewCommand
<1>5. CASE UNCHANGED vars \/ Terminated
  BY <1>5 DEF vars, Terminated
<1> QED
  BY <1>1, <1>2, <1>3, <1>4, <1>5 DEF Next

(* TypeOK holds in every reachable state of the cache.                     *)
THEOREM TypeCorrect == Spec => []TypeOK
<1>1. Init => TypeOK
  BY TypeInit
<1>2. TypeOK /\ [Next]_vars => TypeOK'
  BY TypeStep
<1> QED
  BY <1>1, <1>2, PTL DEF Spec

(***************************************************************************)
(* Part 1: the lock and the content of the cache, under every fault.       *)
(***************************************************************************)

(* A step of the creation is taken by the holder of the lock, so no other  *)
(* process is inside; the stages of the others are untouched.              *)
LEMMA IInvInit == Init => IInv
<1> SUFFICES ASSUME Init PROVE IInv
  OBVIOUS
<1>1. TypeOK
  BY TypeInit
<1>2. HolderInside /\ Stages /\ BaselineExact
  BY DEF Init, HolderInside, Stages, Staged, BaselineExact, EmptyDir, Critical,
         NoCommit
<1> QED
  BY <1>1, <1>2 DEF IInv

LEMMA HolderStep == IInv /\ [Next]_vars => HolderInside'
<1> SUFFICES ASSUME IInv, [Next]_vars PROVE HolderInside'
  OBVIOUS
<1> USE DEF IInv, HolderInside, TypeOK, Critical
<1>1. ASSUME NEW p \in Procs, Call(p) PROVE HolderInside'
  BY <1>1 DEF Call, Goto
<1>2. ASSUME NEW p \in Procs, Materialize(p) PROVE HolderInside'
  <2>1. CASE FastPath(p)
    BY <2>1 DEF FastPath, Goto
  <2>2. CASE AcquireLock(p)
    BY <2>2, ConstantsAssumption DEF AcquireLock, Goto
  <2>3. CASE AbandonLock(p)
    BY <2>3 DEF AbandonLock, Goto
  <2>4. CASE Recheck(p)
    BY <2>4 DEF Recheck, Goto
  <2>4a. CASE ClearPart(p)
    BY <2>4a DEF ClearPart
  <2>5. CASE ClearDir(p)
    BY <2>5 DEF ClearDir, Goto
  <2>6. CASE InitRepo(p)
    BY <2>6 DEF InitRepo, Goto
  <2>7. CASE WriteFile(p)
    <3>1. pc[p] = "write" /\ lock' = lock
      BY <2>7 DEF WriteFile
    <3>2. pc' = pc \/ pc' = [pc EXCEPT ![p] = "add"]
      BY <2>7 DEF WriteFile
    <3> QED
      BY <3>1, <3>2
  <2>8. CASE AddAll(p)
    BY <2>8 DEF AddAll, Goto
  <2>9. CASE Commit(p)
    BY <2>9 DEF Commit, Goto
  <2>10. CASE ReadHead(p)
    BY <2>10 DEF ReadHead, Goto
  <2>11. CASE CreateFails(p)
    BY <2>11 DEF CreateFails
  <2>12. CASE Unlock(p)
    BY <2>12, ConstantsAssumption DEF Unlock, Goto
  <2> QED
    BY <1>2, <2>1, <2>2, <2>3, <2>4, <2>4a, <2>5, <2>6, <2>7, <2>8, <2>9,
       <2>10, <2>11, <2>12 DEF Materialize
<1>3. ASSUME NEW p \in Procs, UseWorktree(p) PROVE HolderInside'
  BY <1>3 DEF UseWorktree, CreateWorktree, CreateWorktreeFails, CaptureChanges,
              RemoveWorktree, KeepWorktree, Goto
<1>4. ASSUME NEW p \in Procs, Environment(p) PROVE HolderInside'
  BY <1>4 DEF Environment, Cancel, Crash, LockFails, Goto, NewCommand
<1>5. CASE UNCHANGED vars \/ Terminated
  BY <1>5 DEF vars, Terminated
<1> QED
  BY <1>1, <1>2, <1>3, <1>4, <1>5 DEF Next

(* A process inside the creation is alone there.                           *)
LEMMA Alone ==
    ASSUME HolderInside, NEW p \in Procs, NEW q \in Procs,
           pc[p] \in Critical, pc[q] \in Critical
    PROVE  p = q
  BY DEF HolderInside

LEMMA StagesStep == IInv /\ [Next]_vars => Stages'
<1> SUFFICES ASSUME IInv, [Next]_vars, NEW q \in Procs PROVE Staged(q)'
  BY DEF Stages
<1>0. Staged(q) /\ HolderInside /\ TypeOK
  BY DEF IInv, Stages
<1>1. ASSUME NEW p \in Procs, Call(p) PROVE Staged(q)'
  BY <1>0, <1>1 DEF Call, Goto, Staged, TypeOK
<1>2. ASSUME NEW p \in Procs, Materialize(p) PROVE Staged(q)'
  <2>1. CASE FastPath(p)
    BY <1>0, <2>1 DEF FastPath, Goto, Staged, TypeOK
  <2>2. CASE AcquireLock(p)
    BY <1>0, <2>2 DEF AcquireLock, Goto, Staged, TypeOK
  <2>3. CASE AbandonLock(p)
    BY <1>0, <2>3 DEF AbandonLock, Goto, Staged, TypeOK
  <2>4. CASE Recheck(p)
    BY <1>0, <2>4 DEF Recheck, Goto, Staged, TypeOK
  <2>4a. CASE ClearPart(p)
    <3>1. pc[p] = "clear" /\ pc[p] \in Critical /\ pc' = pc /\ wrote' = wrote
      BY <2>4a DEF ClearPart, Critical
    <3>2. q # p => pc[q] \notin Critical
      BY <1>0, <3>1, Alone
    <3> QED
      BY <1>0, <3>1, <3>2 DEF Staged, Critical
  <2>5. CASE ClearDir(p)
    <3>1. pc[p] = "clear" /\ pc[p] \in Critical
      BY <2>5 DEF ClearDir, Goto, Critical
    <3>2. q # p => pc[q] \notin Critical
      BY <1>0, <3>1, Alone
    <3> QED
      BY <1>0, <2>5, <3>1, <3>2
      DEF ClearDir, Goto, Staged, TypeOK, EmptyDir, Critical
  <2>6. CASE InitRepo(p)
    <3>1. pc[p] = "init" /\ pc[p] \in Critical
      BY <2>6 DEF InitRepo, Goto, Critical
    <3>2. q # p => pc[q] \notin Critical
      BY <1>0, <3>1, Alone
    <3> QED
      BY <1>0, <2>6, <3>1, <3>2
      DEF InitRepo, Goto, Staged, TypeOK, Repos, Critical
  <2>7. CASE WriteFile(p)
    <3>1. pc[p] = "write" /\ pc[p] \in Critical
      BY <2>7 DEF WriteFile, Critical
    <3>2. q # p => pc[q] \notin Critical
      BY <1>0, <3>1, Alone
    <3>3. PICK f \in Fixture \ wrote[p] :
            /\ wrote' = [wrote EXCEPT ![p] = @ \cup {f}]
            /\ repo' = [repo EXCEPT !.files = @ \cup {f}]
            /\ pc' = [pc EXCEPT ![p] = IF wrote'[p] = Fixture THEN "add" ELSE @]
      BY <2>7 DEF WriteFile
    <3>4. CASE q = p
      <4>1. repo'.files = wrote'[p] /\ repo'.head = NoCommit
        BY <1>0, <3>1, <3>3, <3>4 DEF Staged, TypeOK, Repos
      <4>2. pc'[p] = "write" \/ (pc'[p] = "add" /\ wrote'[p] = Fixture)
        BY <1>0, <3>1, <3>3 DEF TypeOK
      <4> QED
        BY <3>4, <4>1, <4>2 DEF Staged
    <3>5. CASE q # p
      BY <1>0, <3>2, <3>3, <3>5 DEF Staged, TypeOK, Critical
    <3> QED
      BY <3>4, <3>5
  <2>8. CASE AddAll(p)
    <3>1. pc[p] = "add" /\ pc[p] \in Critical
      BY <2>8 DEF AddAll, Goto, Critical
    <3>2. q # p => pc[q] \notin Critical
      BY <1>0, <3>1, Alone
    <3> QED
      BY <1>0, <2>8, <3>1, <3>2
      DEF AddAll, Goto, Staged, TypeOK, Repos, Critical
  <2>9. CASE Commit(p)
    <3>1. pc[p] = "commit" /\ pc[p] \in Critical
      BY <2>9 DEF Commit, Goto, Critical
    <3>2. q # p => pc[q] \notin Critical
      BY <1>0, <3>1, Alone
    <3> QED
      BY <1>0, <2>9, <3>1, <3>2
      DEF Commit, Goto, Staged, TypeOK, Repos, Critical
  <2>10. CASE ReadHead(p)
    BY <1>0, <2>10 DEF ReadHead, Goto, Staged, TypeOK
  <2>11. CASE CreateFails(p)
    BY <1>0, <2>11 DEF CreateFails, Staged, TypeOK
  <2>12. CASE Unlock(p)
    BY <1>0, <2>12 DEF Unlock, Goto, Staged, TypeOK
  <2> QED
    BY <1>2, <2>1, <2>2, <2>3, <2>4, <2>4a, <2>5, <2>6, <2>7, <2>8, <2>9,
       <2>10, <2>11, <2>12 DEF Materialize
<1>3. ASSUME NEW p \in Procs, UseWorktree(p) PROVE Staged(q)'
  <2>1. /\ repo'.files = repo.files /\ repo'.index = repo.index
        /\ repo'.head = repo.head
    BY <1>0, <1>3 DEF UseWorktree, CreateWorktree, CreateWorktreeFails,
                      CaptureChanges, RemoveWorktree, KeepWorktree, TypeOK, Repos
  <2>2. /\ wrote' = wrote
        /\ \E to \in {"using", "idle", "detach"} : pc' = [pc EXCEPT ![p] = to]
    BY <1>3 DEF UseWorktree, CreateWorktree, CreateWorktreeFails,
                CaptureChanges, RemoveWorktree, KeepWorktree, Goto
  <2> QED
    BY <1>0, <2>1, <2>2 DEF Staged, TypeOK
<1>4. ASSUME NEW p \in Procs, Environment(p) PROVE Staged(q)'
  BY <1>0, <1>4 DEF Environment, Cancel, Crash, LockFails, Goto, NewCommand, Staged, TypeOK
<1>5. CASE UNCHANGED vars \/ Terminated
  BY <1>0, <1>5 DEF vars, Terminated, Staged
<1> QED
  BY <1>1, <1>2, <1>3, <1>4, <1>5 DEF Next

(* Commit is the only step that makes a commit, and it commits the staged  *)
(* files: all of the fixture.                                              *)
LEMMA ExactStep == IInv /\ [Next]_vars => BaselineExact'
<1> SUFFICES ASSUME IInv, [Next]_vars PROVE BaselineExact'
  OBVIOUS
<1>0. BaselineExact /\ Stages /\ TypeOK
  BY DEF IInv
<1>1. ASSUME NEW p \in Procs, Call(p) PROVE BaselineExact'
  BY <1>0, <1>1 DEF Call, BaselineExact, TypeOK
<1>2. ASSUME NEW p \in Procs, Materialize(p) PROVE BaselineExact'
  <2>1. CASE FastPath(p) \/ Recheck(p) \/ ReadHead(p)
    BY <1>0, <2>1 DEF FastPath, Recheck, ReadHead, BaselineExact, TypeOK
  <2>2. CASE AcquireLock(p) \/ AbandonLock(p) \/ CreateFails(p) \/ Unlock(p)
    BY <1>0, <2>2
    DEF AcquireLock, AbandonLock, CreateFails, Unlock, BaselineExact
  <2>2a. CASE ClearPart(p)
    <3>1. repo'.head \in {repo.head, NoCommit} /\ sha' = sha
      BY <1>0, <2>2a, RestOf DEF ClearPart, TypeOK
    <3> QED
      BY <1>0, <3>1 DEF BaselineExact
  <2>3. CASE ClearDir(p)
    BY <1>0, <2>3 DEF ClearDir, EmptyDir, BaselineExact
  <2>4. CASE InitRepo(p) \/ WriteFile(p) \/ AddAll(p)
    <3>1. repo'.head = repo.head /\ sha' = sha
      BY <1>0, <2>4 DEF InitRepo, WriteFile, AddAll, TypeOK, Repos
    <3> QED
      BY <1>0, <3>1 DEF BaselineExact
  <2>5. CASE Commit(p)
    <3>1. repo.index = Fixture
      BY <1>0, <2>5 DEF Commit, Goto, Stages, Staged
    <3>2. repo'.head = CommitOf(Fixture) /\ sha' = sha
      BY <1>0, <2>5, <3>1 DEF Commit, TypeOK, Repos
    <3> QED
      BY <1>0, <3>2 DEF BaselineExact
  <2> QED
    BY <1>2, <2>1, <2>2, <2>2a, <2>3, <2>4, <2>5 DEF Materialize
<1>3. ASSUME NEW p \in Procs, UseWorktree(p) PROVE BaselineExact'
  <2>1. repo'.head = repo.head /\ sha' = sha
    BY <1>0, <1>3 DEF UseWorktree, CreateWorktree, CreateWorktreeFails,
                      CaptureChanges, RemoveWorktree, KeepWorktree, TypeOK, Repos
  <2> QED
    BY <1>0, <2>1 DEF BaselineExact
<1>4. ASSUME NEW p \in Procs, Environment(p) PROVE BaselineExact'
  BY <1>0, <1>4 DEF Environment, Cancel, Crash, LockFails, Goto, NewCommand, BaselineExact
<1>5. CASE UNCHANGED vars \/ Terminated
  BY <1>0, <1>5 DEF vars, Terminated, BaselineExact
<1> QED
  BY <1>1, <1>2, <1>3, <1>4, <1>5 DEF Next

LEMMA IInvAlways == Spec => []IInv
<1>1. Init => IInv
  BY IInvInit
<1>2. IInv /\ [Next]_vars => IInv'
  BY TypeStep, HolderStep, StagesStep, ExactStep DEF IInv
<1> QED
  BY <1>1, <1>2, PTL DEF Spec

(* Whatever is cancelled, crashes or fails on the way, the cache only ever *)
(* holds the commit of the whole fixture, and only that one is handed out. *)
THEOREM BaselineAlwaysExact == Spec => []BaselineExact
<1>1. IInv => BaselineExact
  BY DEF IInv
<1> QED
  BY <1>1, IInvAlways, PTL

(* The lock file keeps two calls from building the repository at once.     *)
THEOREM LockExcludes == Spec => []MutualExclusion
<1>1. IInv => MutualExclusion
  BY Alone DEF IInv, MutualExclusion
<1> QED
  BY <1>1, IInvAlways, PTL

(***************************************************************************)
(* Part 2: the worktrees, while nobody interrupts a command.               *)
(***************************************************************************)

NoneCancelled == \A p \in Procs : ~cancelled[p]

(* A repository that is being built holds no commit before the commit step *)
(* and one after it: a finished repository is never rebuilt.               *)
Built ==
    /\ repo.head # NoCommit => repo.git /\ repo.objects
    /\ repo.links # {} => repo.head # NoCommit
    /\ \A p \in Procs :
        /\ pc[p] \in {"clear", "init", "write", "add", "commit"} =>
               repo.head = NoCommit
        /\ pc[p] = "head" => repo.head # NoCommit

(* A commit that was handed out is still the one in the repository.        *)
Handed ==
    \A p \in Procs :
        /\ sha[p] # NoCommit => repo.head = sha[p]
        /\ pc[p] \in {"attach", "using", "detach"} => sha[p] # NoCommit
        /\ pc[p] = "unlock" /\ outcome[p] = "ok" => sha[p] # NoCommit
        /\ pc[p] = "using" => Run(p) \in repo.links

CalmInv == IInv /\ NoneCancelled /\ Built /\ Handed

LEMMA CalmInit == Init => CalmInv
<1> SUFFICES ASSUME Init PROVE CalmInv
  OBVIOUS
<1>1. NoneCancelled /\ Built /\ Handed
  BY DEF Init, NoneCancelled, Built, Handed, EmptyDir, NoCommit
<1> QED
  BY <1>1, IInvInit DEF CalmInv

(* Nobody is cancelled, so every look at a finished repository finds it.   *)
LEMMA CalmLook ==
    ASSUME CalmInv, NEW p \in Procs
    PROVE  BaselineFound(p) <=> repo.head # NoCommit
  BY DEF CalmInv, NoneCancelled, Built, BaselineFound

LEMMA CalmStep ==
    ASSUME "cancel" \notin Faults
    PROVE  CalmInv /\ [Next]_vars => (NoneCancelled /\ Built /\ Handed)'
<1> SUFFICES ASSUME CalmInv, [Next]_vars
             PROVE  (NoneCancelled /\ Built /\ Handed)'
  OBVIOUS
<1>0. IInv /\ TypeOK /\ HolderInside /\ NoneCancelled /\ Built /\ Handed
  BY DEF CalmInv, IInv
<1>1. ASSUME NEW p \in Procs, Call(p) PROVE (NoneCancelled /\ Built /\ Handed)'
  <2>1. NoneCancelled' /\ Built'
    BY <1>0, <1>1 DEF Call, Goto, NoneCancelled, Built, TypeOK
  <2>2. Handed'
    BY <1>0, <1>1 DEF Call, Goto, Handed, TypeOK, Run
  <2> QED
    BY <2>1, <2>2
<1>2. ASSUME NEW p \in Procs, Materialize(p)
      PROVE  (NoneCancelled /\ Built /\ Handed)'
  <2>0. NoneCancelled'
    BY <1>0, <1>2
    DEF Materialize, FastPath, AcquireLock, AbandonLock, Recheck,
        ClearPart, ClearDir, InitRepo, WriteFile, AddAll, Commit, ReadHead, CreateFails, Unlock,
        NoneCancelled
  <2>1. CASE FastPath(p)
    BY <1>0, <2>0, <2>1, CalmLook
    DEF FastPath, Goto, Built, Handed, TypeOK, Run
  <2>2. CASE AcquireLock(p)
    BY <1>0, <2>0, <2>2 DEF AcquireLock, Goto, Built, Handed, TypeOK, Run
  <2>3. CASE AbandonLock(p)
    BY <1>0, <2>0, <2>3 DEF AbandonLock, Goto, Built, Handed, TypeOK, Run
  <2>4. CASE Recheck(p)
    BY <1>0, <2>0, <2>4, CalmLook
    DEF Recheck, Goto, Built, Handed, TypeOK, Run
  <2>4a. CASE ClearPart(p)
    <3>1. pc[p] = "clear" /\ repo.head = NoCommit /\ repo.links = {}
      BY <1>0, <2>4a DEF ClearPart, Built
    <3>2. repo'.head = NoCommit /\ repo'.links = {}
      BY <1>0, <2>4a, <3>1, RestOf DEF ClearPart, TypeOK
    <3>3. UNCHANGED <<pc, sha, outcome, calls>>
      BY <2>4a DEF ClearPart
    <3> QED
      BY <1>0, <2>0, <3>1, <3>2, <3>3 DEF Built, Handed, Run
  <2>5. CASE ClearDir(p)
    <3>1. pc[p] = "clear" /\ repo.head = NoCommit
      BY <1>0, <2>5 DEF ClearDir, Goto, Built
    <3>2. \A q \in Procs : sha[q] = NoCommit /\ pc[q] # "head"
      BY <1>0, <3>1 DEF Handed, Built
    <3> QED
      BY <1>0, <2>0, <2>5, <3>1, <3>2
      DEF ClearDir, Goto, EmptyDir, Built, Handed, TypeOK, Run
  <2>6. CASE InitRepo(p)
    BY <1>0, <2>0, <2>6
    DEF InitRepo, Goto, Built, Handed, TypeOK, Repos, Run
  <2>7. CASE WriteFile(p)
    <3>1. /\ repo'.git = repo.git /\ repo'.head = repo.head
          /\ repo'.links = repo.links /\ repo'.objects = repo.objects
      BY <1>0, <2>7 DEF WriteFile, TypeOK, Repos
    <3>2. pc[p] = "write" /\ UNCHANGED <<sha, outcome, calls>>
      BY <2>7 DEF WriteFile
    <3>3. PICK to \in {"write", "add"} : pc' = [pc EXCEPT ![p] = to]
      BY <2>7 DEF WriteFile
    <3> QED
      BY <1>0, <2>0, <3>1, <3>2, <3>3 DEF Built, Handed, TypeOK, Run
  <2>8. CASE AddAll(p)
    BY <1>0, <2>0, <2>8
    DEF AddAll, Goto, Built, Handed, TypeOK, Repos, Run
  <2>9. CASE Commit(p)
    <3>1. pc[p] = "commit" /\ repo.head = NoCommit /\ repo.git
      BY <1>0, <2>9 DEF Commit, Goto, GitRuns, Built
    <3>2. \A q \in Procs : q # p => pc[q] \notin Critical
      BY <1>0, <3>1, Alone DEF Critical
    <3>3. repo'.head = CommitOf(repo.index) /\ repo'.head # NoCommit
          /\ repo'.git = repo.git /\ repo'.links = repo.links /\ repo'.objects
      BY <1>0, <2>9 DEF Commit, TypeOK, Repos, CommitOf, NoCommit
    <3>4. pc' = [pc EXCEPT ![p] = "head"] /\ UNCHANGED <<sha, outcome, calls>>
      BY <2>9 DEF Commit, Goto
    <3>5. Built'
      BY <1>0, <3>1, <3>2, <3>3, <3>4 DEF Built, TypeOK, Critical
    <3>6. \A q \in Procs : sha[q] = NoCommit
      BY <1>0, <3>1 DEF Handed
    <3>7. Handed'
      BY <1>0, <3>3, <3>4, <3>6 DEF Handed, TypeOK, Run
    <3> QED
      BY <2>0, <3>5, <3>7
  <2>10. CASE ReadHead(p)
    BY <1>0, <2>0, <2>10 DEF ReadHead, Goto, Built, Handed, TypeOK, Run
  <2>11. CASE CreateFails(p)
    BY <1>0, <2>0, <2>11 DEF CreateFails, Built, Handed, TypeOK, Run
  <2>12. CASE Unlock(p)
    BY <1>0, <2>0, <2>12 DEF Unlock, Goto, Built, Handed, TypeOK, Run
  <2> QED
    BY <1>2, <2>1, <2>2, <2>3, <2>4, <2>4a, <2>5, <2>6, <2>7, <2>8, <2>9,
       <2>10, <2>11, <2>12 DEF Materialize
<1>3. ASSUME NEW p \in Procs, UseWorktree(p)
      PROVE  (NoneCancelled /\ Built /\ Handed)'
  <2>1. CASE CreateWorktree(p)
    BY <1>0, <2>1
    DEF CreateWorktree, Goto, NoneCancelled, Built, Handed, TypeOK, Repos, Run
  <2>2. CASE CreateWorktreeFails(p)
    BY <1>0, <2>2
    DEF CreateWorktreeFails, Goto, NoneCancelled, Built, Handed, TypeOK, Run
  <2>3. CASE CaptureChanges(p)
    BY <1>0, <2>3
    DEF CaptureChanges, Goto, NoneCancelled, Built, Handed, TypeOK, Run
  <2>4. CASE RemoveWorktree(p)
    <3>1. \A q \in Procs : q # p => Run(q) # Run(p)
      BY DEF Run
    <3> QED
      BY <1>0, <2>4, <3>1
      DEF RemoveWorktree, Goto, NoneCancelled, Built, Handed, TypeOK, Repos, Run
  <2>5. CASE KeepWorktree(p)
    BY <1>0, <2>5
    DEF KeepWorktree, Goto, NoneCancelled, Built, Handed, TypeOK, Run
  <2> QED
    BY <1>3, <2>1, <2>2, <2>3, <2>4, <2>5 DEF UseWorktree
<1>4. ASSUME NEW p \in Procs, Environment(p)
      PROVE  (NoneCancelled /\ Built /\ Handed)'
  <2>1. CASE Cancel(p) \/ Crash(p)
    BY <1>0, <2>1 DEF Cancel, Crash, NoneCancelled, Built, Handed, TypeOK, Run
  <2>2. CASE LockFails(p)
    BY <1>0, <2>2 DEF LockFails, Goto, NoneCancelled, Built, Handed, TypeOK, Run
  <2>3. CASE NewCommand(p)
    BY <1>0, <2>3 DEF NewCommand, NoneCancelled, Built, Handed, TypeOK, Run
  <2> QED
    BY <1>4, <2>1, <2>2, <2>3 DEF Environment
<1>5. CASE UNCHANGED vars \/ Terminated
  BY <1>0, <1>5 DEF vars, Terminated, NoneCancelled, Built, Handed, Run
<1> QED
  BY <1>1, <1>2, <1>3, <1>4, <1>5 DEF Next

LEMMA CalmAlways ==
    ASSUME "cancel" \notin Faults
    PROVE  Spec => []CalmInv
<1>1. Init => CalmInv
  BY CalmInit
<1>2. CalmInv /\ [Next]_vars => CalmInv'
  BY CalmStep, TypeStep, HolderStep, StagesStep, ExactStep DEF CalmInv, IInv
<1> QED
  BY <1>1, <1>2, PTL DEF Spec

(* While no command is interrupted, a run always finds its worktree and    *)
(* its commit in the cache, although other processes crash, fail and build *)
(* in the same directory.                                                  *)
THEOREM WorktreesStayIntact ==
    ASSUME "cancel" \notin Faults
    PROVE  Spec => []WorktreeIntact
<1>1. CalmInv => WorktreeIntact
  BY DEF CalmInv, Built, Handed, WorktreeIntact, CommitThere
<1> QED
  BY <1>1, CalmAlways, PTL

(* While no command is interrupted, a worktree is only ever removed by its *)
(* own run.                                                                *)
THEOREM WorktreesRemovedByOwner ==
    ASSUME "cancel" \notin Faults
    PROVE  Spec => OnlyOwnerRemoves
<1> DEFINE Owned ==
        \A p \in Procs, n \in 0..MaxCalls :
            <<p, n>> \in repo.links /\ <<p, n>> \notin repo'.links =>
                n = calls[p] /\ pc[p] = "detach" /\ pc'[p] = "idle"
<1>1. CalmInv /\ [Next]_vars => [Owned]_vars
  <2> SUFFICES ASSUME CalmInv, Next PROVE repo.links \subseteq repo'.links \/ Owned
    BY DEF vars
  <2>0. TypeOK /\ Built
    BY DEF CalmInv, IInv
  <2>1. ASSUME NEW p \in Procs, ClearDir(p) \/ ClearPart(p) PROVE repo.links = {}
    BY <2>0, <2>1 DEF ClearDir, ClearPart, Goto, Built
  <2>2. ASSUME NEW p \in Procs, RemoveWorktree(p) PROVE Owned
    <3>1. /\ repo'.links = repo.links \ {<<p, calls[p]>>}
          /\ pc[p] = "detach" /\ pc'[p] = "idle"
      BY <2>0, <2>2 DEF RemoveWorktree, Goto, Run, TypeOK, Repos
    <3> QED
      BY <3>1
  <2>3. ASSUME NEW p \in Procs, Call(p) \/ Materialize(p), ~(ClearDir(p) \/ ClearPart(p))
        PROVE  repo.links \subseteq repo'.links
    BY <2>0, <2>3
    DEF Call, Materialize, FastPath, AcquireLock, AbandonLock, Recheck,
        InitRepo, WriteFile, AddAll, Commit, ReadHead, CreateFails, Unlock,
        TypeOK, Repos
  <2>4. ASSUME NEW p \in Procs, UseWorktree(p) \/ Environment(p),
               ~RemoveWorktree(p)
        PROVE  repo.links \subseteq repo'.links
    BY <2>0, <2>4
    DEF UseWorktree, CreateWorktree, CreateWorktreeFails, CaptureChanges,
        KeepWorktree, Environment, Cancel, Crash, LockFails, NewCommand, TypeOK, Repos
  <2>5. CASE Terminated
    BY <2>5 DEF Terminated, vars
  <2> QED
    BY <2>1, <2>2, <2>3, <2>4, <2>5 DEF Next
<1> QED
  BY <1>1, CalmAlways, PTL DEF Spec, OnlyOwnerRemoves
=============================================================================
