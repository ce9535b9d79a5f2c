-------------------------- MODULE WriteTransaction --------------------------
(***************************************************************************)
(* The write path of DIT.  Several processes (CLI runs, hub servers, the   *)
(* tray) share one git working tree.  A write takes the workspace lock     *)
(* file, stages file changes in memory, applies them to the working tree   *)
(* one by one, runs `git add' on each, runs `git commit', and undoes       *)
(* everything when a step fails.  Any step may fail, any process may die,  *)
(* and a person may edit and `git add' other files meanwhile.              *)
(*                                                                         *)
(* Code: dit-store/src/{store,atomic}.rs, dit-core/src/lib.rs              *)
(* (Transaction), dit-vcs/src/git.rs (add, unstage, commit).               *)
(*                                                                         *)
(* A file's bytes are abstracted to the set of edits they contain, so that *)
(* a lost edit is visible; Absent says there is no file.                   *)
(***************************************************************************)
EXTENDS Naturals, Sequences

CONSTANTS
    Process,        \* the processes that write
    IssuePath,      \* issue bodies, comments, releases: edited in place
    DocPath,        \* pages and attachments: written whole, removed, moved
    Human,          \* the mark a person's edit leaves in a file
    Absent,         \* no file
    Free,           \* no lock file
    NoPlan,         \* no write in progress (refinement mapping only)
    MaxStaged,      \* bound: staged entries of one transaction
    MaxFaults,      \* bound: failing writes, `git add's and `git commit's
    MaxUndoFaults,  \* bound: failing steps of an undo, or of reading what it
                    \*        would put back, which the code ignores
    MaxCrashes,     \* bound: processes that die in the middle of a write
    MaxHuman        \* bound: edits and `git add's made by a person

Path    == IssuePath \cup DocPath
Text    == SUBSET (Process \cup {Human})
Content == {Absent} \cup Text
Tree    == [Path -> Content]
NoFiles == [x \in Path |-> Absent]
Entry   == [path : Path, write : Content]      \* write = Absent: a removal

ASSUME PathsDisjoint  == IssuePath \cap DocPath = {}
ASSUME MarksDistinct  == (\A t \in Text : Absent # t) /\ Free \notin Process
ASSUME NoPlanIsNoTree == \A X \in SUBSET Path : NoPlan \notin [X -> Content]
ASSUME BoundsAreNat   == /\ MaxStaged \in Nat
                         /\ MaxFaults \in Nat     /\ MaxUndoFaults \in Nat
                         /\ MaxCrashes \in Nat    /\ MaxHuman \in Nat

VARIABLES
    disk,       \* the working tree
    stage,      \* git's index
    head,       \* the tree of HEAD
    lock,       \* who created the lock file, or Free
    pc,         \* where each process is
    staged,     \* the staged writes of its transaction, in staging order
    previous,   \* what each applied path held before (Applied.previous)
    applied,    \* how many of the staged writes are applied
    added,      \* how many of them were given to `git add'
    result,     \* how its last transaction ended
    litter,     \* a temporary file left behind by a write that failed or died
    before,     \* ghost: disk and stage without the running transaction
    disowned,   \* ghost: paths whose last commit was answered with an error
    faults, undoFaults, crashes, human

git    == <<stage, head>>
tx     == <<staged, previous, applied, added>>
budget == <<faults, undoFaults, crashes, human>>
vars   == <<disk, git, lock, pc, tx, result, litter, before, disowned, budget>>

PC == {"idle", "open", "finish", "add", "commit", "unstage", "rollback", "release"}

TypeOK ==
    /\ disk \in Tree /\ stage \in Tree /\ head \in Tree
    /\ lock \in Process \cup {Free}
    /\ pc \in [Process -> PC]
    /\ staged \in [Process -> Seq(Entry)]
    /\ previous \in [Process -> Tree]
    /\ applied \in [Process -> Nat] /\ added \in [Process -> Nat]
    /\ result \in [Process -> {"none", "committed", "nothing", "failed"}]
    /\ litter \in BOOLEAN
    /\ before \in [disk : Tree, stage : Tree]
    /\ disowned \subseteq Path
    /\ faults \in 0..MaxFaults     /\ undoFaults \in 0..MaxUndoFaults
    /\ crashes \in 0..MaxCrashes   /\ human \in 0..MaxHuman

-----------------------------------------------------------------------------
(* A clean checkout: the working tree, git's index and HEAD agree.         *)

Init ==
    /\ head \in [Path -> {{}, Absent}]
    /\ disk = head /\ stage = head
    /\ lock = Free
    /\ pc = [p \in Process |-> "idle"]
    /\ staged = [p \in Process |-> <<>>]
    /\ previous = [p \in Process |-> NoFiles]
    /\ applied = [p \in Process |-> 0]
    /\ added = [p \in Process |-> 0]
    /\ result = [p \in Process |-> "none"]
    /\ litter = FALSE
    /\ before = [disk |-> NoFiles, stage |-> NoFiles]
    /\ disowned = {}
    /\ faults = 0 /\ undoFaults = 0 /\ crashes = 0 /\ human = 0

Goto(p, l) == pc' = [pc EXCEPT ![p] = l]
Ends(p, r) == result' = [result EXCEPT ![p] = r]

Fault      == faults < MaxFaults /\ faults' = faults + 1 /\ UNCHANGED <<undoFaults, crashes, human>>
UndoFault  == undoFaults < MaxUndoFaults /\ undoFaults' = undoFaults + 1 /\ UNCHANGED <<faults, crashes, human>>

(* The transaction's memory is gone, with the ghost that goes with it.     *)
Forget(p) ==
    /\ staged' = [staged EXCEPT ![p] = <<>>]
    /\ previous' = [previous EXCEPT ![p] = NoFiles]
    /\ applied' = [applied EXCEPT ![p] = 0]
    /\ added' = [added EXCEPT ![p] = 0]
    /\ Ends(p, "none")
    /\ before' = [disk |-> NoFiles, stage |-> NoFiles]
    /\ Goto(p, "idle")

Paths(p)        == {staged[p][i].path : i \in DOMAIN staged[p]}
StagedWrite(p, x) == (CHOOSE e \in {staged[p][i] : i \in DOMAIN staged[p]} : e.path = x).write

-----------------------------------------------------------------------------
(* Dit::transaction: create the lock file exclusively, or fail (Busy).     *)

TakesLock(p) ==
    /\ pc[p] = "idle"
    /\ lock' = p
    /\ Goto(p, "open")
    /\ before' = [disk |-> disk, stage |-> stage]
    /\ UNCHANGED <<disk, git, tx, result, litter, disowned, budget>>

Begin_StealsLock(p) == TakesLock(p)                 \* mutant: no create_new
Begin(p) == lock = Free /\ TakesLock(p)

(* A repeated path replaces its entry and keeps its position.              *)
PushStaged(s, x, w) ==
    IF \E i \in DOMAIN s : s[i].path = x
    THEN [i \in DOMAIN s |-> IF s[i].path = x THEN [s[i] EXCEPT !.write = w] ELSE s[i]]
    ELSE Append(s, [path |-> x, write |-> w])

(* Bytes staged here, else the file on disk; a staged removal of an issue  *)
(* path falls through to disk.                                             *)
CurrentBytes(p, x) ==
    IF x \in Paths(p) /\ StagedWrite(p, x) # Absent THEN StagedWrite(p, x) ELSE disk[x]

Staging(p, s) ==
    /\ pc[p] = "open"
    /\ Len(s) <= MaxStaged
    /\ staged' = [staged EXCEPT ![p] = s]
    /\ UNCHANGED <<disk, git, lock, pc, previous, applied, added, result, litter, before, disowned, budget>>

(* create_issue, add_comment: a fresh id names a file nobody has.          *)
StageNewFile(p, x) ==
    /\ x \in IssuePath \ Paths(p)
    /\ disk[x] = Absent /\ stage[x] = Absent /\ head[x] = Absent
    /\ Staging(p, PushStaged(staged[p], x, {p}))

(* set_fields, set_body, set_release: patch what is there, nothing else.   *)
StageEdit(p, x) ==
    /\ x \in IssuePath /\ CurrentBytes(p, x) # Absent
    /\ Staging(p, PushStaged(staged[p], x, CurrentBytes(p, x) \cup {p}))

(* remove_issue: the file must be on disk.                                 *)
StageRemoveIssue(p, x) ==
    /\ x \in IssuePath /\ disk[x] # Absent
    /\ Staging(p, PushStaged(staged[p], x, Absent))

(* write_doc, write_attachment: the caller's bytes replace the file.       *)
StageWriteDoc(p, x) ==
    /\ x \in DocPath
    /\ Staging(p, PushStaged(staged[p], x, {p}))

(* remove_doc: on disk, or staged earlier in this transaction.             *)
StageRemoveDoc(p, x) ==
    /\ x \in DocPath /\ (x \in Paths(p) \/ disk[x] # Absent)
    /\ Staging(p, PushStaged(staged[p], x, Absent))

(* move_doc: from a staged write or from disk, to a free target.           *)
MoveSource(p, x) == IF x \in Paths(p) THEN StagedWrite(p, x) ELSE disk[x]

Moves(p, x, y) ==
    /\ x \in DocPath /\ y \in DocPath /\ x # y
    /\ MoveSource(p, x) # Absent
    /\ Staging(p, PushStaged(PushStaged(staged[p], y, MoveSource(p, x)), x, Absent))

StageMoveDoc_Overwrites(p, x, y) == Moves(p, x, y)  \* mutant: no free target
StageMoveDoc(p, x, y) == y \notin Paths(p) /\ disk[y] = Absent /\ Moves(p, x, y)

(* Transaction::abort, a drop, or a staging call the caller gave up on.    *)
Abort(p) ==
    /\ pc[p] = "open"
    /\ Goto(p, "release") /\ Ends(p, "nothing")
    /\ UNCHANGED <<disk, git, lock, tx, litter, before, disowned, budget>>

-----------------------------------------------------------------------------
(* Transaction::commit = finish, then add each path, then commit.          *)

CallCommit(p) ==
    /\ pc[p] = "open"
    /\ IF staged[p] = <<>> THEN Goto(p, "release") /\ Ends(p, "nothing")
                           ELSE Goto(p, "finish") /\ UNCHANGED result
    /\ UNCHANGED <<disk, git, lock, tx, litter, before, disowned, budget>>

(* finish: one file at a time, remembering what was there.                 *)
Applies(p, was) ==
    LET e == staged[p][applied[p] + 1] IN
    /\ pc[p] = "finish"
    /\ previous' = [previous EXCEPT ![p][e.path] = was[e.path]]
    /\ disk' = [disk EXCEPT ![e.path] = e.write]
    /\ applied' = [applied EXCEPT ![p] = @ + 1]
    /\ IF applied[p] + 1 = Len(staged[p]) THEN Goto(p, "add") ELSE UNCHANGED pc
    /\ UNCHANGED <<git, lock, staged, added, result, litter, before, disowned, budget>>

Apply_ReadsHead(p) == Applies(p, head)              \* mutant: restores HEAD, not the file
Apply(p) == Applies(p, disk)

(* What a file holds cannot be read: it counts as absent.  A write then    *)
(* replaces the file, with nothing to put back; a removal is taken as done.*)
ApplyUnread(p) ==
    LET e == staged[p][applied[p] + 1] IN
    /\ pc[p] = "finish" /\ disk[e.path] # Absent
    /\ UndoFault
    /\ previous' = [previous EXCEPT ![p][e.path] = Absent]
    /\ disk' = IF e.write = Absent THEN disk ELSE [disk EXCEPT ![e.path] = e.write]
    /\ applied' = [applied EXCEPT ![p] = @ + 1]
    /\ IF applied[p] + 1 = Len(staged[p]) THEN Goto(p, "add") ELSE UNCHANGED pc
    /\ UNCHANGED <<git, lock, staged, added, result, litter, before, disowned>>

(* A write fails: the applied prefix is rolled back, the temporary file    *)
(* may stay.  Removing what is already gone cannot fail.                   *)
ApplyFails(p) ==
    LET e == staged[p][applied[p] + 1] IN
    /\ pc[p] = "finish"
    /\ e.write # Absent \/ disk[e.path] # Absent
    /\ Fault
    /\ litter' \in IF e.write # Absent THEN {litter, TRUE} ELSE {litter}
    /\ Goto(p, "rollback") /\ Ends(p, "failed")
    /\ UNCHANGED <<disk, git, lock, tx, before, disowned>>

(* `git add': git refuses a path that is neither in the working tree nor   *)
(* in its index.                                                           *)
KnownToGit(x) == disk[x] # Absent \/ stage[x] # Absent

Add(p) ==
    LET x == staged[p][added[p] + 1].path IN
    /\ pc[p] = "add"
    /\ KnownToGit(x)
    /\ stage' = [stage EXCEPT ![x] = disk[x]]
    /\ added' = [added EXCEPT ![p] = @ + 1]
    /\ IF added[p] + 1 = Len(staged[p]) THEN Goto(p, "commit") ELSE UNCHANGED pc
    /\ UNCHANGED <<disk, head, lock, staged, previous, applied, result, litter, before, disowned, budget>>

AddFails(p) ==
    /\ pc[p] = "add"
    /\ \/ Fault
       \/ ~KnownToGit(staged[p][added[p] + 1].path) /\ UNCHANGED budget
    /\ Goto(p, "unstage") /\ Ends(p, "failed")
    /\ UNCHANGED <<disk, git, lock, tx, litter, before, disowned>>

(* `git commit' commits the whole index, whoever staged it.                *)
GitCommit(p) ==
    /\ pc[p] = "commit" /\ stage # head
    /\ head' = stage
    /\ disowned' = disowned \ Paths(p)
    /\ Goto(p, "release") /\ Ends(p, "committed")
    /\ UNCHANGED <<disk, stage, lock, tx, litter, before, budget>>

(* The commit lands and the `git rev-parse HEAD' after it fails: the write *)
(* is answered with an error and undone, as one that never landed.         *)
CommitUnseen(p) ==
    /\ pc[p] = "commit" /\ stage # head
    /\ Fault
    /\ head' = stage
    /\ disowned' = disowned \cup Paths(p)
    /\ Goto(p, "unstage") /\ Ends(p, "failed")
    /\ UNCHANGED <<disk, stage, lock, tx, litter, before>>

(* With an index equal to HEAD git exits non-zero.  Repo::commit takes two *)
(* of git's three messages for "nothing to commit"; the third, printed     *)
(* when the tree has untracked files and no modified one, is an error.     *)
Untracked      == litter \/ \E x \in Path : disk[x] # Absent /\ stage[x] = Absent
Modified       == \E x \in Path : stage[x] # Absent /\ disk[x] # stage[x]
SaysNothing    == ~Untracked \/ Modified

NothingToCommit(p) ==
    /\ pc[p] = "commit" /\ stage = head /\ SaysNothing
    /\ Goto(p, "release") /\ Ends(p, "nothing")
    /\ UNCHANGED <<disk, git, lock, tx, litter, before, disowned, budget>>

CommitFails(p) ==
    /\ pc[p] = "commit"
    /\ \/ Fault
       \/ stage = head /\ ~SaysNothing /\ UNCHANGED budget
    /\ Goto(p, "unstage") /\ Ends(p, "failed")
    /\ UNCHANGED <<disk, git, lock, tx, litter, before, disowned>>

-----------------------------------------------------------------------------
(* Transaction::undo = Repo::unstage, then Changeset::rollback in reverse  *)
(* order.  Both are best effort: what fails is logged or ignored.          *)

UnstageTo(p, tree) ==
    /\ pc[p] = "unstage"
    /\ \/ stage' = [x \in Path |-> IF x \in Paths(p) THEN tree[x] ELSE stage[x]] /\ UNCHANGED budget
       \/ UndoFault /\ UNCHANGED stage
    /\ Goto(p, "rollback")
    /\ UNCHANGED <<disk, head, lock, tx, result, litter, before, disowned>>

Unstage(p) == UnstageTo(p, head)

Rollback(p) ==
    /\ pc[p] = "rollback" /\ applied[p] > 0
    /\ LET x == staged[p][applied[p]].path IN
       \/ disk' = [disk EXCEPT ![x] = previous[p][x]] /\ UNCHANGED <<litter, budget>>
       \/ UndoFault /\ litter' \in {litter, TRUE} /\ UNCHANGED disk
    /\ applied' = [applied EXCEPT ![p] = @ - 1]
    /\ UNCHANGED <<git, lock, pc, staged, previous, added, result, before, disowned>>

RolledBack(p) ==
    /\ pc[p] = "rollback" /\ applied[p] = 0
    /\ Goto(p, "release")
    /\ UNCHANGED <<disk, git, lock, tx, result, litter, before, disowned, budget>>

-----------------------------------------------------------------------------
(* LockGuard::drop removes the file, whoever created it.                   *)
Releases(p, l) ==
    /\ pc[p] = "release"
    /\ lock' = l
    /\ Forget(p)
    /\ UNCHANGED <<disk, git, litter, disowned, budget>>

Release_Kept(p) == Releases(p, lock)                \* mutant: the guard is leaked
Release(p) == Releases(p, Free)

(* The process dies: the lock file stays, and a write it was in the middle *)
(* of leaves its temporary file.                                           *)
Crash(p) ==
    /\ pc[p] # "idle" /\ crashes < MaxCrashes
    /\ crashes' = crashes + 1
    /\ litter' \in IF pc[p] \in {"finish", "rollback"} THEN {litter, TRUE} ELSE {litter}
    /\ Forget(p)
    /\ UNCHANGED <<disk, git, lock, disowned, faults, undoFaults, human>>

(* A person deletes the lock file of a process that is gone.               *)
StaleLock == lock # Free /\ pc[lock] = "idle"

ClearLock_Careless == lock # Free /\ lock' = Free  \* mutant: of a live one too
    /\ UNCHANGED <<disk, git, pc, tx, result, litter, before, disowned, budget>>

ClearLock ==
    /\ StaleLock
    /\ lock' = Free
    /\ UNCHANGED <<disk, git, pc, tx, result, litter, before, disowned, budget>>

(* A person edits a file, or stages one, that no running transaction has   *)
(* staged.  Issues are created by the tool alone, pages also by hand.      *)
Untouched(x) == \A p \in Process : pc[p] # "idle" => x \notin Paths(p)
HumanActs    == human < MaxHuman /\ human' = human + 1 /\ UNCHANGED <<faults, undoFaults, crashes>>

Writing      == \E p \in Process : pc[p] # "idle"

HumanEdit(x) ==
    /\ HumanActs /\ Untouched(x)
    /\ disk' = [disk EXCEPT ![x] = IF @ = Absent THEN {Human} ELSE @ \cup {Human}]
    /\ x \in IssuePath => disk[x] # Absent
    /\ before' = IF Writing THEN [before EXCEPT !.disk[x] = disk'[x]] ELSE before
    /\ UNCHANGED <<git, lock, pc, tx, result, litter, disowned>>

HumanAdd(x) ==
    /\ HumanActs /\ Untouched(x) /\ disk[x] # stage[x]
    /\ stage' = [stage EXCEPT ![x] = disk[x]]
    /\ before' = IF Writing THEN [before EXCEPT !.stage[x] = disk[x]] ELSE before
    /\ UNCHANGED <<disk, head, lock, pc, tx, result, litter, disowned>>

-----------------------------------------------------------------------------
Stages(p) ==
    \/ \E x \in Path : \/ StageNewFile(p, x) \/ StageEdit(p, x) \/ StageRemoveIssue(p, x)
                       \/ StageWriteDoc(p, x) \/ StageRemoveDoc(p, x)
    \/ \E x, y \in Path : StageMoveDoc(p, x, y)

(* What a process does once it has called `commit' or given up.            *)
Runs(p) ==
    \/ Apply(p) \/ ApplyUnread(p) \/ ApplyFails(p) \/ Add(p) \/ AddFails(p)
    \/ GitCommit(p) \/ CommitUnseen(p) \/ NothingToCommit(p) \/ CommitFails(p)
    \/ Unstage(p) \/ Rollback(p) \/ RolledBack(p) \/ Release(p)

Decides(p) == CallCommit(p) \/ Abort(p)

Next ==
    \/ \E p \in Process : Begin(p) \/ Stages(p) \/ Decides(p) \/ Runs(p) \/ Crash(p)
    \/ ClearLock
    \/ \E x \in Path : HumanEdit(x) \/ HumanAdd(x)

Spec == Init /\ [][Next]_vars

(* A caller commits or drops its transaction, and each call returns.       *)
FairSpec == Spec /\ \A p \in Process : WF_vars(Decides(p)) /\ WF_vars(Runs(p))

-----------------------------------------------------------------------------
(* PROPERTIES                                                              *)

(* At most one process is inside a write, and it is the one that created   *)
(* the lock file: stale locks, crashes and a person clearing them included *)
(* (acquire_lock, LockGuard::drop).                                        *)
SingleWriter == \A p \in Process : pc[p] # "idle" => lock = p

(* A write that failed has left the files as they were, and git's index    *)
(* is as it was or holds HEAD's version of a path the write touched: so    *)
(* nothing is left lying around for the next commit (commit_and_absorb,    *)
(* undo, rollback).  The tree it started from may itself be dirty, and the *)
(* commit may have landed all the same.  Holds as long as no undo has      *)
(* itself failed, and no read of what it would put back.                   *)
FailedWriteLeavesNothing ==
    undoFaults = 0 =>
    \A p \in Process : pc[p] = "release" /\ result[p] = "failed" =>
        /\ disk = before.disk
        /\ \A x \in Path : \/ stage[x] = before.stage[x]
                           \/ x \in Paths(p) /\ stage[x] = head[x]

(* A committed edit of an issue stays in every later commit that keeps the *)
(* file: concurrent writers, failed writes and crashes lose no edit, as    *)
(* long as no undo has itself failed.  Not so the edits of a commit that   *)
(* was answered with an error: the files were rolled back under it, and    *)
(* the next write of the file takes them out of HEAD again.                *)
NoCommittedEditLost ==
    [][\A x \in IssuePath \ disowned :
         undoFaults = 0 /\ head[x] # Absent /\ head'[x] # Absent
             => head[x] \subseteq head'[x]]_vars

-----------------------------------------------------------------------------
(* With nobody dying and nobody editing by hand, a write is one atomic     *)
(* step of AtomicCommit: the commit holds what was staged, all of it and   *)
(* nothing else, on top of the HEAD the write began from; a failed write   *)
(* is no step at all, or a commit the tree does not show; and a reader of  *)
(* the tree between writes sees the commits that were answered as such.    *)
Pending(p) == pc[p] \in {"open", "finish", "add", "commit"}

AbstractPlan == [p \in Process |->
    IF Pending(p) THEN [x \in Paths(p) |-> StagedWrite(p, x)] ELSE NoPlan]

Shown == IF lock = Free \/ pc[lock] = "release" THEN disk ELSE before.disk

Atomic == INSTANCE AtomicCommit WITH plan <- AbstractPlan, shown <- Shown
ImplementsAtomicCommit == Atomic!Spec

(* Every write ends and gives the lock back, so a Busy is temporary, as    *)
(* long as no process dies.                                                *)
BusyIsTemporary == \A p \in Process : lock = p ~> lock # p
=============================================================================
