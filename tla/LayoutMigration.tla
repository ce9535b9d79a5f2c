--------------------------- MODULE LayoutMigration ---------------------------
(***************************************************************************)
(* Dit::migrate_layout: the content roots of a workspace move between the  *)
(* top of the tree and `.dit/' in one commit, step by step under the write *)
(* lock, while other processes that were opened before go on writing where *)
(* their Store says, and rewrite the configuration they remember.          *)
(*                                                                         *)
(* A tree says where each file lies and which layout its config.yaml       *)
(* states.  Nobody's undo helps a migration: what it moved stays moved and *)
(* staged when a step fails.                                               *)
(***************************************************************************)
EXTENDS Naturals, Sequences, FiniteSets

CONSTANTS
    Process,
    Issue, Page,     \* the files of the roots `issues' and `docs'
    Attrs,           \* the routing file .gitattributes
    Free,            \* no lock holder
    MaxWrites,       \* bound: writes of files and of the configuration
    MaxFaults        \* bound: steps that fail, and deaths

VARIABLES
    disk,     \* the working tree
    stage,    \* git's index
    head,     \* the tree of HEAD
    foreign,  \* a folder `docs' that is not DIT's stands at the top
    lock,
    store,    \* what each process remembers: its Store's layout, its Config's
    job,      \* a migration under way
    writes, faults

workspace == <<disk, stage, head, foreign>>
vars == <<workspace, lock, store, job, writes, faults>>

ASSUME LayoutAssumption ==
    /\ Free \notin Process
    /\ Attrs \notin Issue \union Page /\ Issue \intersect Page = {}

Layouts == {"root", "dotdir"}
Other(l) == IF l = "root" THEN "dotdir" ELSE "root"
File  == Issue \union Page \union {Attrs}
Roots == <<Issue, Page>>

(* A body may still have the name it had before ADR 0006.                  *)
Place == Layouts \X {"README.md", "issue.md"}
At(l) == {q \in Place : q[1] = l}

In(t, f, l) == t.home[f] \intersect At(l) # {}

(* Layout::detect: the layout stated, else the folder .dit/issues decides. *)
Detected(t) ==
    IF t.layout \in Layouts THEN t.layout
    ELSE IF \E i \in Issue : In(t, i, "dotdir") THEN "dotdir" ELSE "root"

(* parse_config: a file that states no layout has the default.             *)
ConfigRead(t) == IF t.layout \in Layouts THEN t.layout ELSE "root"

Opened(t) == [kind |-> Detected(t), config |-> ConfigRead(t)]

(* The files of a set, moved to a layout's place in a tree.                *)
Moved(t, files, to) ==
    [t EXCEPT !.home = [f \in File |-> IF f \in files THEN {<<to, q[2]>> : q \in t.home[f]}
                                       ELSE t.home[f]]]

Renamed(t, i, to) ==
    [t EXCEPT !.home[i] = (@ \ {<<to, "issue.md">>}) \union {<<to, "README.md">>}]

(* `git add .dit': everything under it, and its deletions.                 *)
AddDit ==
    [layout |-> disk.layout,
     home   |-> [f \in File |-> (stage.home[f] \intersect At("root"))
                                   \union (disk.home[f] \intersect At("dotdir"))]]

Clean == disk = stage /\ stage = head

Idle == [at |-> "idle"]

-----------------------------------------------------------------------------
(* A workspace of before ADR 0005 states no layout; a later one does.      *)
Init ==
    /\ \E l \in {"root", "dotdir", "unstated"}, old \in BOOLEAN, b \in BOOLEAN :
          LET here == IF l = "root" THEN "root" ELSE "dotdir"
          IN  /\ disk = [layout |-> l,
                         home |-> [f \in File |->
                             IF f = Attrs THEN IF l = "unstated" THEN {} ELSE {<<here, "README.md">>}
                             ELSE IF f \in Page THEN {}
                             ELSE {<<here, IF old THEN "issue.md" ELSE "README.md">>}]]
              /\ foreign = (b /\ here = "dotdir")
    /\ stage = disk /\ head = disk
    /\ lock = Free
    /\ store = [p \in Process |-> Opened(disk)]
    /\ job = [p \in Process |-> Idle]
    /\ writes = 0 /\ faults = 0

(* Another process in p's place; or a rebuild, which reads the schema and  *)
(* leaves the Store as it is.                                              *)
Open(p) ==
    /\ job[p] = Idle
    /\ store' = [store EXCEPT ![p] = Opened(disk)]
    /\ UNCHANGED <<workspace, lock, job, writes, faults>>

ReloadSchema(p) ==
    /\ job[p] = Idle
    /\ store' = [store EXCEPT ![p].config = ConfigRead(disk)]
    /\ UNCHANGED <<workspace, lock, job, writes, faults>>

Writes == lock = Free /\ writes < MaxWrites /\ writes' = writes + 1

(* A write of a file, whole (WriteTransaction has its steps): an issue is  *)
(* looked for where the Store says, a page goes there whatever else there  *)
(* is.  The commit takes all of git's index.                               *)
Write(p, f) ==
    /\ Writes /\ job[p] = Idle
    /\ f # Attrs
    /\ f \in Issue => In(disk, f, store[p].kind) \/ (disk.home[f] = {} /\ head.home[f] = {})
    /\ LET to == IF In(disk, f, store[p].kind) THEN disk.home[f] \intersect At(store[p].kind)
                 ELSE {<<store[p].kind, "README.md">>}
       IN  /\ disk'  = [disk EXCEPT !.home[f] = @ \union to]
           /\ stage' = [stage EXCEPT !.home[f] = @ \union to]
           /\ head'  = stage'
    /\ UNCHANGED <<foreign, lock, store, job, faults>>

(* set_numbering: the configuration it remembers, whole, with one change.  *)
(* It has no undo.                                                         *)
SetNumbering(p) ==
    /\ Writes /\ job[p] = Idle
    /\ disk'  = [disk EXCEPT !.layout = store[p].config]
    /\ stage' = [AddDit EXCEPT !.layout = store[p].config]
    /\ \/ head' = stage' /\ UNCHANGED faults
       \/ faults < MaxFaults /\ faults' = faults + 1 /\ UNCHANGED head
    /\ UNCHANGED <<foreign, lock, store, job>>

(* A person: `git reset --hard' and `git clean', and the lock of the dead. *)
Restore ==
    /\ lock = Free /\ ~Clean
    /\ disk' = head /\ stage' = head
    /\ UNCHANGED <<head, foreign, lock, store, job, writes, faults>>

ClearLock ==
    /\ lock # Free /\ job[lock] = Idle
    /\ lock' = Free
    /\ UNCHANGED <<workspace, store, job, writes, faults>>

-----------------------------------------------------------------------------
(* The migration.                                                          *)

Goto(p, at) == job' = [job EXCEPT ![p].at = at]
Step(p, at) == job[p].at = at /\ UNCHANGED <<store, writes, faults>>
Ends(p)     == job' = [job EXCEPT ![p] = Idle] /\ lock' = Free

(* The tree is looked at before the lock is taken.                         *)
Migrate(p) ==
    /\ Step(p, "idle") /\ lock # p
    /\ Clean
    /\ job' = [job EXCEPT ![p] = [at |-> "lock", from |-> store[p].kind,
                                  to |-> Other(store[p].kind), moved |-> 0,
                                  add |-> FALSE, sound |-> FALSE]]
    /\ UNCHANGED <<workspace, lock>>

Lock(p) ==
    /\ Step(p, "lock")
    /\ IF lock = Free
       THEN lock' = p /\ job' = [job EXCEPT ![p].at = "roots", ![p].sound = Clean]
       ELSE UNCHANGED lock /\ job' = [job EXCEPT ![p] = Idle]
    /\ UNCHANGED workspace

(* `git mv' of a root: the folder as it is on disk, and what is tracked.   *)
(* A root without anything in HEAD is moved on disk only.                  *)
MoveRoot(p) ==
    /\ Step(p, "roots") /\ job[p].moved < Len(Roots)
    /\ LET files == Roots[job[p].moved + 1]
           from == job[p].from
           to   == job[p].to
           There(l) == \E f \in files : In(disk, f, l)
           next == job' = [job EXCEPT ![p].moved = @ + 1] /\ UNCHANGED lock
       IN  \/ ~There(from) /\ next /\ UNCHANGED workspace
           \/ /\ There(from) /\ (There(to) \/ (foreign /\ to = "root" /\ files = Page))
              /\ Ends(p) /\ UNCHANGED workspace
           \/ /\ There(from) /\ ~There(to) /\ ~(foreign /\ to = "root" /\ files = Page)
              /\ disk' = Moved(disk, files, to)
              /\ stage' = IF \E f \in files : In(head, f, from) THEN Moved(stage, files, to)
                          ELSE stage
              /\ UNCHANGED <<head, foreign>> /\ next

(* An old body beside a new one stays.                                     *)
OldBodies(p) == {i \in Issue : disk.home[i] \intersect At(job[p].to) = {<<job[p].to, "issue.md">>}}

RenameBody(p) ==
    /\ Step(p, "roots") /\ job[p].moved = Len(Roots)
    /\ \/ OldBodies(p) = {} /\ Goto(p, "attrs") /\ UNCHANGED <<workspace, lock>>
       \/ \E i \in OldBodies(p) :
             /\ <<job[p].to, "issue.md">> \in stage.home[i]
             /\ disk' = Renamed(disk, i, job[p].to) /\ stage' = Renamed(stage, i, job[p].to)
             /\ UNCHANGED <<head, foreign, lock, job>>
       \/ \E i \in OldBodies(p) :
             /\ <<job[p].to, "issue.md">> \notin stage.home[i]
             /\ Ends(p) /\ UNCHANGED workspace

(* The routing file: there already, moved by git, moved on disk, or new.   *)
MoveAttrs(p) ==
    /\ Step(p, "attrs")
    /\ LET to == job[p].to
           placed == [disk EXCEPT !.home[Attrs] = {<<to, "README.md">>}]
           add == ~In(disk, Attrs, to) /\ ~In(head, Attrs, job[p].from)
       IN  /\ disk'  = IF In(disk, Attrs, to) THEN disk ELSE placed
           /\ stage' = IF In(disk, Attrs, to) \/ add THEN stage ELSE Moved(stage, {Attrs}, to)
           /\ job' = [job EXCEPT ![p].at = "config", ![p].add = add]
    /\ UNCHANGED <<head, foreign, lock>>

FlipConfig(p) ==
    /\ Step(p, "config") /\ Goto(p, "add")
    /\ disk' = [disk EXCEPT !.layout = job[p].to]
    /\ UNCHANGED <<stage, head, foreign, lock>>

(* `git add .dit', and the routing file when it is not under it.           *)
AddAll_DitOnly(p) ==
    /\ Step(p, "add") /\ Goto(p, "commit")
    /\ stage' = AddDit
    /\ UNCHANGED <<disk, head, foreign, lock>>

AddAll(p) ==
    /\ Step(p, "add") /\ Goto(p, "commit")
    /\ stage' = IF job[p].to = "root" /\ job[p].add
                THEN [AddDit EXCEPT !.home[Attrs] = @ \union (disk.home[Attrs] \intersect At("root"))]
                ELSE AddDit
    /\ UNCHANGED <<disk, head, foreign, lock>>

Commit(p) ==
    /\ Step(p, "commit") /\ Goto(p, "reopen")
    /\ head' = stage
    /\ UNCHANGED <<disk, stage, foreign, lock>>

(* Store::open, the schema, the rebuild of the index; the lock.            *)
Reopen(p) ==
    /\ job[p].at = "reopen" /\ Ends(p)
    /\ store' = [store EXCEPT ![p] = Opened(disk)]
    /\ UNCHANGED <<workspace, writes, faults>>

UnderLock(p) == job[p].at \in {"roots", "attrs", "config", "add", "commit"}

(* A step fails and the error is returned; or the process dies and its     *)
(* lock file stays.                                                        *)
Fails(p) ==
    /\ UnderLock(p) /\ faults < MaxFaults /\ faults' = faults + 1
    /\ Ends(p)
    /\ UNCHANGED <<workspace, store, writes>>

Dies(p) ==
    /\ UnderLock(p) /\ faults < MaxFaults /\ faults' = faults + 1
    /\ job' = [job EXCEPT ![p] = Idle]
    /\ UNCHANGED <<workspace, lock, store, writes>>

Next ==
    \/ \E p \in Process :
          \/ Open(p) \/ ReloadSchema(p) \/ SetNumbering(p)
          \/ \E f \in Issue \union Page : Write(p, f)
          \/ Migrate(p) \/ Lock(p) \/ MoveRoot(p) \/ RenameBody(p) \/ MoveAttrs(p)
          \/ FlipConfig(p) \/ AddAll(p) \/ Commit(p) \/ Reopen(p) \/ Fails(p) \/ Dies(p)
    \/ Restore \/ ClearLock

Spec == Init /\ [][Next]_vars

-----------------------------------------------------------------------------
(* A migration that found a clean tree under its lock and reports success  *)
(* leaves every issue and page under the layout HEAD states, with the name *)
(* of today, and a clean tree: whatever failed before, and whatever other  *)
(* processes wrote with a layout they remembered.  Else it is refused.     *)
MigrationIsWhole ==
    \A p \in Process :
        (job[p].at = "reopen" /\ job[p].sound) =>
            /\ Clean /\ head.layout = job[p].to
            /\ \A f \in Issue \union Page : head.home[f] \subseteq At(job[p].to)
            /\ \A i \in Issue : head.home[i] # {<<job[p].to, "issue.md">>}
            /\ In(head, Attrs, job[p].to)

(* dit-store/src/layout.rs:45-48: a workspace without a stated layout      *)
(* "stays `dotdir' until migrated".                                        *)
StaysUntilMigrated ==
    [][Detected(head') # Detected(head) => \E p \in Process : job[p].at = "commit"]_vars
=============================================================================
