---------------------------- MODULE FixtureCache ----------------------------
(***************************************************************************)
(* The fixture cache of internal/runner: MaterializeFixture turns a task's *)
(* fixture into a git repository with one deterministic commit, under a    *)
(* lock file; CreateWorktree and RemoveWorktree hang disposable worktrees  *)
(* off that repository.  The module follows several ocbench processes that *)
(* use the same entry of the cache (the same fixture hash).                *)
(*                                                                         *)
(* One call of MaterializeFixture is one walk of pc[p] from "fast" to      *)
(* "unlock"; each step is one system call or one git command.  A git       *)
(* command run with a cancelled context fails before it does anything; one *)
(* that is killed half way is the same as one that was cancelled just      *)
(* before or just after it (git publishes the index and HEAD by rename).   *)
(***************************************************************************)
EXTENDS Naturals, FiniteSets

CONSTANTS
    Procs,          \* ocbench processes that share the cache directory
    Fixture,        \* the files of the fixture
    MaxCalls,       \* bound: runs that one process starts on this fixture
    Faults          \* what may go wrong, a subset of AllFaults

(* "cancel": Ctrl-C ends the command context; "crash": the process dies    *)
(* without running its defers; "timeout": a waiter uses up lockWaitMax;    *)
(* "io": a directory cannot be removed or made, the lock file or a fixture *)
(* file cannot be written, a git command fails.                            *)
AllFaults == {"cancel", "crash", "timeout", "io"}

Free == "free"

ASSUME ConstantsAssumption ==
    /\ MaxCalls \in Nat
    /\ Faults \subseteq AllFaults
    /\ Fixture # {}
    /\ Free \notin Procs

VARIABLES
    repo,       \* <cache>/fixtures/<hash>: the directory and its repository
    lock,       \* <cache>/fixtures/<hash>.lock: its creator, or Free
    pc,         \* where each process is
    cancelled,  \* is the process's command context done?
    wrote,      \* fixture files the process's current call has written
    sha,        \* the commit the process's current call was handed
    outcome,    \* how the process's last call ended
    calls       \* runs the process has started

vars == <<repo, lock, pc, cancelled, wrote, sha, outcome, calls>>

(* A commit is identified with the tree it holds: message, identity, dates *)
(* and modes are pinned, so equal trees have equal ids.  HEAD is a set of  *)
(* at most one tree.                                                       *)
NoCommit == {}
CommitOf(tree) == {tree}
Commits == {CommitOf(tree) : tree \in SUBSET Fixture} \cup {NoCommit}

(* A run has a fresh id, hence a worktree of its own.                      *)
RunIds == Procs \X (0..MaxCalls)
Run(p) == <<p, calls[p]>>

Repos == [git   : BOOLEAN,          \* .git exists
          files : SUBSET Fixture,   \* files in the working directory
          index : SUBSET Fixture,   \* files staged by git add
          head  : Commits,          \* what git rev-parse HEAD prints
          objects : BOOLEAN,        \* is the commit's tree in .git/objects?
          links : SUBSET RunIds]    \* worktrees registered in .git/worktrees

EmptyDir == [git |-> FALSE, files |-> {}, index |-> {}, head |-> NoCommit,
             objects |-> FALSE, links |-> {}]

(* What may be left of a directory that is being removed, entry by entry;  *)
(* .git goes with all that is in it.                                       *)
PartsOf(r) ==
    {s \in [git : {r.git, FALSE}, files : SUBSET r.files, index : {r.index, {}},
            head : {r.head, NoCommit}, objects : {r.objects, FALSE}, links : SUBSET r.links] :
        s.git \/ s = [EmptyDir EXCEPT !.files = s.files]}

(* Steps of MaterializeFixture that run while the lock file is held.       *)
Critical == {"recheck", "clear", "init", "write", "add", "commit", "head",
             "unlock"}

PCs == Critical \cup {"idle", "fast", "lock", "attach", "using", "detach",
                      "dead"}

Outcomes == {"none", "ok", "cancelled", "lock timeout", "io error",
             "worktree error"}

Init ==
    /\ repo = EmptyDir
    /\ lock = Free
    /\ pc = [p \in Procs |-> "idle"]
    /\ cancelled = [p \in Procs |-> FALSE]
    /\ wrote = [p \in Procs |-> {}]
    /\ sha = [p \in Procs |-> NoCommit]
    /\ outcome = [p \in Procs |-> "none"]
    /\ calls = [p \in Procs |-> 0]

Goto(p, from, to) == pc[p] = from /\ pc' = [pc EXCEPT ![p] = to]

(* baselineSHA: .git exists and rev-parse HEAD succeeds.  rev-parse is a   *)
(* git command, so a cancelled context reads as "no baseline here".        *)
BaselineFound(p) == repo.git /\ repo.head # NoCommit /\ ~cancelled[p]

(***************************************************************************)
(* MaterializeFixture                                                      *)
(***************************************************************************)

(* runner.Run asks for the baseline.  A command stops at its first error,  *)
(* but experiment.Run makes this call for its next step even when the      *)
(* context was cancelled during the step before.                           *)
Call(p) ==
    /\ Goto(p, "idle", "fast")
    /\ calls[p] < MaxCalls
    /\ outcome[p] \in {"none", "ok"}
    /\ calls' = [calls EXCEPT ![p] = @ + 1]
    /\ sha' = [sha EXCEPT ![p] = NoCommit]
    /\ wrote' = [wrote EXCEPT ![p] = {}]
    /\ outcome' = [outcome EXCEPT ![p] = "none"]
    /\ UNCHANGED <<repo, lock, cancelled>>

FastPath(p) ==
    /\ Goto(p, "fast", IF BaselineFound(p) THEN "attach" ELSE "lock")
    /\ sha' = [sha EXCEPT ![p] = IF BaselineFound(p) THEN repo.head ELSE @]
    /\ UNCHANGED <<repo, lock, cancelled, wrote, outcome, calls>>

(* Mutant: O_CREATE without O_EXCL.                                        *)
AcquireLock_NotExclusive(p) ==
    /\ Goto(p, "lock", "recheck")
    /\ lock' = p
    /\ UNCHANGED <<repo, cancelled, wrote, sha, outcome, calls>>

(* O_CREATE|O_EXCL.  The context is not looked at before the attempt.      *)
AcquireLock(p) ==
    /\ Goto(p, "lock", "recheck")
    /\ lock = Free
    /\ lock' = p
    /\ UNCHANGED <<repo, cancelled, wrote, sha, outcome, calls>>

(* Mutant: a waiter that gives up removes the lock file.                   *)
AbandonLock_Clears(p) ==
    /\ Goto(p, "lock", "idle")
    /\ lock # Free /\ lock' = Free
    /\ outcome' = [outcome EXCEPT ![p] = "lock timeout"]
    /\ UNCHANGED <<repo, cancelled, wrote, sha, calls>>

(* Mutant: the wait has no deadline.                                       *)
AbandonLock_NoDeadline(p) ==
    /\ Goto(p, "lock", "idle")
    /\ lock # Free /\ cancelled[p]
    /\ outcome' = [outcome EXCEPT ![p] = "cancelled"]
    /\ UNCHANGED <<repo, lock, cancelled, wrote, sha, calls>>

(* The lock file exists: the wait ends with the context or the budget.     *)
AbandonLock(p) ==
    /\ Goto(p, "lock", "idle")
    /\ lock # Free
    /\ \/ cancelled[p] /\ outcome' = [outcome EXCEPT ![p] = "cancelled"]
       \/ "timeout" \in Faults /\ outcome' = [outcome EXCEPT ![p] = "lock timeout"]
    /\ UNCHANGED <<repo, lock, cancelled, wrote, sha, calls>>

(* Mutant: the repository is not looked at again under the lock.           *)
Recheck_Skipped(p) ==
    /\ Goto(p, "recheck", "clear")
    /\ UNCHANGED <<repo, lock, cancelled, wrote, sha, outcome, calls>>

(* Another process may have completed the repo while we waited.            *)
Recheck(p) ==
    /\ Goto(p, "recheck", IF BaselineFound(p) THEN "unlock" ELSE "clear")
    /\ sha' = [sha EXCEPT ![p] = IF BaselineFound(p) THEN repo.head ELSE @]
    /\ outcome' = [outcome EXCEPT ![p] = IF BaselineFound(p) THEN "ok" ELSE @]
    /\ UNCHANGED <<repo, lock, cancelled, wrote, calls>>

(* os.RemoveAll(repoDir): others see the directory go, and a crash or an   *)
(* error may leave the rest of it.                                         *)
ClearPart(p) ==
    /\ pc[p] = "clear"
    /\ \E rest \in PartsOf(repo) : rest # repo /\ repo' = rest
    /\ UNCHANGED <<lock, pc, cancelled, wrote, sha, outcome, calls>>

(* All of it is gone, then an empty directory again.                       *)
ClearDir(p) ==
    /\ Goto(p, "clear", "init")
    /\ repo' = EmptyDir
    /\ UNCHANGED <<lock, cancelled, wrote, sha, outcome, calls>>

InitRepo(p) ==
    /\ Goto(p, "init", "write")
    /\ ~cancelled[p]
    /\ repo' = [repo EXCEPT !.git = TRUE]
    /\ UNCHANGED <<lock, cancelled, wrote, sha, outcome, calls>>

(* writeFixture: file by file, without looking at the context.             *)
WriteFile(p) ==
    /\ pc[p] = "write"
    /\ \E f \in Fixture \ wrote[p] :
        /\ wrote' = [wrote EXCEPT ![p] = @ \cup {f}]
        /\ repo' = [repo EXCEPT !.files = @ \cup {f}]
        /\ pc' = [pc EXCEPT ![p] = IF wrote'[p] = Fixture THEN "add" ELSE @]
    /\ UNCHANGED <<lock, cancelled, sha, outcome, calls>>

GitRuns(p) == repo.git /\ ~cancelled[p]

AddAll(p) ==
    /\ Goto(p, "add", "commit")
    /\ GitRuns(p)
    /\ repo' = [repo EXCEPT !.index = repo.files]
    /\ UNCHANGED <<lock, cancelled, wrote, sha, outcome, calls>>

Commit(p) ==
    /\ Goto(p, "commit", "head")
    /\ GitRuns(p)
    /\ repo' = [repo EXCEPT !.head = CommitOf(repo.index), !.objects = TRUE]
    /\ UNCHANGED <<lock, cancelled, wrote, sha, outcome, calls>>

(* Mutant: the id of the tree is handed out instead of the commit.         *)
ReadHead_Tree(p) ==
    /\ Goto(p, "head", "unlock")
    /\ GitRuns(p)
    /\ sha' = [sha EXCEPT ![p] = repo.index]
    /\ outcome' = [outcome EXCEPT ![p] = "ok"]
    /\ UNCHANGED <<repo, lock, cancelled, wrote, calls>>

ReadHead(p) ==
    /\ Goto(p, "head", "unlock")
    /\ GitRuns(p)
    /\ sha' = [sha EXCEPT ![p] = repo.head]
    /\ outcome' = [outcome EXCEPT ![p] = "ok"]
    /\ UNCHANGED <<repo, lock, cancelled, wrote, calls>>

(* A git command of the creation is refused by the context, or the clear,  *)
(* a write or a git command fails: an early return, with the deferred      *)
(* unlock to come.                                                         *)
CreateFails(p) ==
    /\ pc' = [pc EXCEPT ![p] = "unlock"]
    /\ \/ /\ pc[p] = "init" /\ cancelled[p]
          /\ outcome' = [outcome EXCEPT ![p] = "cancelled"]
       \/ /\ pc[p] \in {"add", "commit", "head"} /\ ~GitRuns(p)
          /\ outcome' = [outcome EXCEPT ![p] = "cancelled"]
       \/ /\ pc[p] \in Critical \ {"recheck", "unlock"} /\ "io" \in Faults
          /\ outcome' = [outcome EXCEPT ![p] = "io error"]
    /\ UNCHANGED <<repo, lock, cancelled, wrote, sha, calls>>

(* defer unlock(): the holder removes the lock file, whatever happened.    *)
Unlock(p) ==
    /\ Goto(p, "unlock", IF outcome[p] = "ok" THEN "attach" ELSE "idle")
    /\ lock' = Free
    /\ UNCHANGED <<repo, cancelled, wrote, sha, outcome, calls>>

(***************************************************************************)
(* The worktree of a run                                                   *)
(***************************************************************************)

(* git worktree add finds the commit and what it consists of.              *)
CommitThere(p) == repo.head = sha[p] /\ repo.objects

(* CreateWorktree: git worktree add --detach <dest> <sha>.                 *)
CreateWorktree(p) ==
    /\ Goto(p, "attach", "using")
    /\ GitRuns(p) /\ CommitThere(p)
    /\ repo' = [repo EXCEPT !.links = @ \cup {Run(p)}]
    /\ UNCHANGED <<lock, cancelled, wrote, sha, outcome, calls>>

(* The command fails, or the context kills it when the worktree is already *)
(* registered; runner.Run returns before it has deferred the removal.      *)
CreateWorktreeFails(p) ==
    /\ Goto(p, "attach", "idle")
    /\ \/ /\ ~(GitRuns(p) /\ CommitThere(p)) \/ "io" \in Faults
          /\ UNCHANGED <<repo, cancelled>>
       \/ /\ "cancel" \in Faults /\ GitRuns(p) /\ CommitThere(p)
          /\ cancelled' = [cancelled EXCEPT ![p] = TRUE]
          /\ repo' = [repo EXCEPT !.links = @ \cup {Run(p)}]
    /\ outcome' = [outcome EXCEPT ![p] = "worktree error"]
    /\ UNCHANGED <<lock, wrote, sha, calls>>

(* The session ran; its changes are captured by git commands inside the    *)
(* worktree, on a context that ignores the cancellation.                   *)
CaptureChanges(p) ==
    /\ Goto(p, "using", "detach")
    /\ outcome' = [outcome EXCEPT ![p] =
           IF repo.git /\ repo.objects /\ Run(p) \in repo.links THEN "ok" ELSE "worktree error"]
    /\ UNCHANGED <<repo, lock, cancelled, wrote, sha, calls>>

(* Mutant: the cleanup also removes worktrees that earlier runs kept.      *)
RemoveWorktree_AllRuns(p) ==
    /\ Goto(p, "detach", "idle")
    /\ repo' = [repo EXCEPT !.links = {run \in @ : run[1] # p}]
    /\ UNCHANGED <<lock, cancelled, wrote, sha, outcome, calls>>

(* The deferred RemoveWorktree, on a context of its own; its error is      *)
(* ignored.  The git worktree prune after it finds nothing to do: no other *)
(* worktree loses its directory and stays registered.  With                *)
(* --keep-worktree it is not called.                                       *)
RemoveWorktree(p) ==
    /\ Goto(p, "detach", "idle")
    /\ repo' = [repo EXCEPT !.links = @ \ {Run(p)}]
    /\ UNCHANGED <<lock, cancelled, wrote, sha, outcome, calls>>

KeepWorktree(p) ==
    /\ Goto(p, "detach", "idle")
    /\ UNCHANGED <<repo, lock, cancelled, wrote, sha, outcome, calls>>

(***************************************************************************)
(* The environment                                                         *)
(***************************************************************************)

Cancel(p) ==
    /\ "cancel" \in Faults
    /\ pc[p] # "dead" /\ ~cancelled[p]
    /\ cancelled' = [cancelled EXCEPT ![p] = TRUE]
    /\ UNCHANGED <<repo, lock, pc, wrote, sha, outcome, calls>>

(* The process is gone: no defer runs, the lock file stays.                *)
Crash(p) ==
    /\ "crash" \in Faults
    /\ pc[p] \notin {"idle", "dead"}
    /\ pc' = [pc EXCEPT ![p] = "dead"]
    /\ UNCHANGED <<repo, lock, cancelled, wrote, sha, outcome, calls>>

(* The lock file cannot be created, though it does not exist: a fault,     *)
(* which nothing obliges to occur.                                         *)
LockFails(p) ==
    /\ Goto(p, "lock", "idle")
    /\ "io" \in Faults
    /\ outcome' = [outcome EXCEPT ![p] = "io error"]
    /\ UNCHANGED <<repo, lock, cancelled, wrote, sha, calls>>

(* The command has ended, well or not, and the user starts another one.    *)
NewCommand(p) ==
    /\ pc[p] \in {"idle", "dead"} /\ calls[p] < MaxCalls
    /\ pc[p] = "dead" \/ cancelled[p] \/ outcome[p] \notin {"none", "ok"}
    /\ pc' = [pc EXCEPT ![p] = "idle"]
    /\ cancelled' = [cancelled EXCEPT ![p] = FALSE]
    /\ outcome' = [outcome EXCEPT ![p] = "none"]
    /\ UNCHANGED <<repo, lock, wrote, sha, calls>>

(* Every process has made its calls (or died in the last one).             *)
Terminated ==
    /\ \A p \in Procs : pc[p] \in {"idle", "dead"} /\ calls[p] = MaxCalls
    /\ UNCHANGED vars

(* What a running process does by itself, once it is in a call.            *)
Materialize(p) ==
    \/ FastPath(p) \/ AcquireLock(p) \/ AbandonLock(p) \/ Recheck(p)
    \/ ClearPart(p) \/ ClearDir(p) \/ InitRepo(p) \/ WriteFile(p) \/ AddAll(p) \/ Commit(p)
    \/ ReadHead(p) \/ CreateFails(p) \/ Unlock(p)

UseWorktree(p) ==
    \/ CreateWorktree(p) \/ CreateWorktreeFails(p) \/ CaptureChanges(p)
    \/ RemoveWorktree(p) \/ KeepWorktree(p)

Environment(p) == Cancel(p) \/ Crash(p) \/ LockFails(p) \/ NewCommand(p)

Next ==
    \/ \E p \in Procs :
        Call(p) \/ Materialize(p) \/ UseWorktree(p) \/ Environment(p)
    \/ Terminated

Spec == Init /\ [][Next]_vars

(* A live process keeps running: the operating system schedules it and git *)
(* commands end.  Nothing obliges a user to start or interrupt a command.  *)
FairSpec ==
    Spec /\ \A p \in Procs : WF_vars(Materialize(p) \/ UseWorktree(p))

(***************************************************************************)
(* Properties                                                              *)
(***************************************************************************)

TypeOK ==
    /\ repo \in Repos
    /\ lock \in Procs \cup {Free}
    /\ pc \in [Procs -> PCs]
    /\ cancelled \in [Procs -> BOOLEAN]
    /\ wrote \in [Procs -> SUBSET Fixture]
    /\ sha \in [Procs -> Commits]
    /\ outcome \in [Procs -> Outcomes]
    /\ calls \in [Procs -> 0..MaxCalls]

(* A commit of the cache always holds the whole fixture, and a process     *)
(* that is handed a baseline is handed that commit: whoever built the      *)
(* cache, however often it crashed or failed on the way, every run starts  *)
(* from the same tree (gitsource.go: "identical fixture trees produce the  *)
(* identical commit SHA").                                                 *)
BaselineExact ==
    /\ repo.head \in {NoCommit, CommitOf(Fixture)}
    /\ \A p \in Procs : sha[p] \in {NoCommit, CommitOf(Fixture)}

(* Two calls never touch the repository directory at the same time: the    *)
(* lock file of acquireLock.                                               *)
MutualExclusion ==
    \A p, q \in Procs :
        p # q /\ pc[p] \in Critical => pc[q] \notin Critical

(* While a run works in its worktree the repository still has the worktree *)
(* registered and still holds the commit the run was given.  Holds while   *)
(* nobody interrupts a command.                                            *)
WorktreeIntact ==
    \A p \in Procs : pc[p] = "using" =>
        /\ repo.git /\ Run(p) \in repo.links
        /\ CommitThere(p)

(* A worktree leaves the registry only by the removal of the run that      *)
(* created it, never by what another process does to the cache.            *)
OnlyOwnerRemoves ==
    [][\A p \in Procs, n \in 0..MaxCalls :
        <<p, n>> \in repo.links /\ <<p, n>> \notin repo'.links =>
            n = calls[p] /\ pc[p] = "detach" /\ pc'[p] = "idle"]_vars

(* An existing repository with a commit is reused: no step takes the       *)
(* commit of the cache away (MaterializeFixture's doc comment).            *)
CommitKept == [][repo.head # NoCommit => repo'.head # NoCommit]_vars

(* Every call comes back: to its caller with an error, or with a worktree  *)
(* to work in, whatever other processes do with the lock.                  *)
CallsReturn ==
    \A p \in Procs : pc[p] = "fast" ~> pc[p] \in {"idle", "using", "dead"}
=============================================================================
