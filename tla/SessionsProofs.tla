--------------------------- MODULE SessionsProofs ---------------------------
(***************************************************************************)
(* What sessions that remember the files write back.  Layout: a migration  *)
(* that started on a clean tree and ends well has moved the whole          *)
(* workspace, for any number of processes, issues and pages, and any       *)
(* number of writes, failures and deaths.  Numbers: they are unique,       *)
(* appended and never moved, for any number of sessions and issues and any *)
(* batch, short of the highest number.                                     *)
(***************************************************************************)
EXTENDS LayoutMigration, Numbering, FiniteSetTheorems, WellFoundedInduction,
        NaturalsInduction, TLAPS

-----------------------------------------------------------------------------
(* LAYOUT                                                                  *)


(* Every file is at its places; the routing file has one name.             *)
Trees == {t \in [layout : {"root", "dotdir", "unstated"}, home : [File -> SUBSET Place]] :
             t.home[Attrs] \subseteq Layouts \X {"README.md"}}

Migrations ==
    {j \in [at : {"lock", "roots", "attrs", "config", "add", "commit", "reopen"},
            from : Layouts, to : Layouts, moved : 0..2, add : BOOLEAN, sound : BOOLEAN] :
        j.to = Other(j.from) /\ (j.at = "lock" => j.moved = 0)}

TypeOK ==
    /\ disk \in Trees /\ stage \in Trees /\ head \in Trees
    /\ foreign \in BOOLEAN
    /\ lock \in Process \union {Free}
    /\ store \in [Process -> [kind : Layouts, config : Layouts]]
    /\ job \in [Process -> Migrations \union {Idle}]

Holding == {"roots", "attrs", "config", "add", "commit", "reopen"}

(* The lock excludes: a migration past it is the holder's.                 *)
HolderMigrates == \A p \in Process : job[p].at \in Holding => lock = p

-----------------------------------------------------------------------------
(* What a sound migration has done so far, of a job and three trees.       *)

Whole(files, t, to) == \A f \in files : t.home[f] \subseteq At(to)
Named(t, to) == \A i \in Issue : t.home[i] # {<<to, "issue.md">>}
Kept(files, d, h) == \A f \in files : d.home[f] = h.home[f]

RootsMoved(j, d, s, h) ==
    /\ d = s
    /\ IF j.moved >= 1 THEN Whole(Issue, d, j.to) ELSE Kept(Issue, d, h)
    /\ IF j.moved >= 2 THEN Whole(Page, d, j.to) ELSE Kept(Page, d, h)
    /\ Kept({Attrs}, d, h)

BodiesNamed(j, d, s, h) ==
    d = s /\ Whole(Issue \union Page, d, j.to) /\ Named(d, j.to) /\ Kept({Attrs}, d, h)

AttrsPlaced(j, d, s) ==
    /\ Whole(Issue \union Page, d, j.to) /\ Named(d, j.to) /\ In(d, Attrs, j.to)
    /\ Kept(Issue \union Page, d, s)
    /\ IF j.add THEN d.home[Attrs] \subseteq At(j.to) /\ s.home[Attrs] = {}
       ELSE Kept({Attrs}, d, s)

AllAdded(j, d, s) ==
    /\ d = s /\ d.layout = j.to
    /\ Whole(Issue \union Page, d, j.to) /\ Named(d, j.to) /\ In(d, Attrs, j.to)

Phase(j, d, s, h) ==
    (j.at \in Holding /\ j.sound) =>
        /\ j.at = "roots"  => RootsMoved(j, d, s, h)
        /\ j.at = "attrs"  => BodiesNamed(j, d, s, h)
        /\ j.at = "config" => AttrsPlaced(j, d, s)
        /\ j.at = "add"    => AttrsPlaced(j, d, s) /\ d.layout = j.to
        /\ j.at = "commit" => AllAdded(j, d, s)
        /\ j.at = "reopen" => AllAdded(j, d, s) /\ s = h

Phases == \A p \in Process : Phase(job[p], disk, stage, head)

LayoutInv == TypeOK /\ HolderMigrates /\ Phases

-----------------------------------------------------------------------------
(* Trees.                                                                  *)

(* Issues, pages and the attributes file are three kinds of files, and the *)
(* roots are the issues and the pages.                                     *)
LEMMA Files ==
    /\ Attrs \in File /\ Attrs \notin Issue /\ Attrs \notin Page
    /\ Issue \subseteq File /\ Page \subseteq File
    /\ \A f \in File : f # Attrs => f \in Issue \/ f \in Page
    /\ \A i \in Issue : i \notin Page
    /\ Len(Roots) = 2 /\ Roots[1] = Issue /\ Roots[2] = Page
  BY LayoutAssumption DEF File, Roots

(* The parts of a tree.                                                    *)
LEMMA TreeFields ==
    ASSUME NEW t \in Trees
    PROVE  /\ t.layout \in {"root", "dotdir", "unstated"}
           /\ t.home \in [File -> SUBSET Place]
           /\ \A f \in File : t.home[f] \subseteq Place
           /\ t.home[Attrs] \subseteq Layouts \X {"README.md"}
           /\ t = [layout |-> t.layout, home |-> t.home]
<1>1. t \in [layout : {"root", "dotdir", "unstated"}, home : [File -> SUBSET Place]]
      /\ t.home[Attrs] \subseteq Layouts \X {"README.md"}
  BY DEF Trees
<1> QED BY <1>1

(* A tree is its layout and the places of its files.                       *)
LEMMA SameTrees ==
    ASSUME NEW t \in Trees, NEW u \in Trees, t.layout = u.layout,
           \A f \in File : t.home[f] = u.home[f]
    PROVE  t = u
<1>1. t.home = u.home
  BY TreeFields
<1> QED BY <1>1, TreeFields

(* There are two layouts, and every place is under one of them.            *)
LEMMA TwoLayouts ==
    ASSUME NEW l \in Layouts
    PROVE  /\ Other(l) \in Layouts /\ Other(Other(l)) = l
           /\ Place = At(l) \union At(Other(l))
           /\ At(l) \intersect At(Other(l)) = {}
  BY DEF Layouts, Other, Place, At

(* git mv of some files changes their places and nothing else.             *)
LEMMA MovedTree ==
    ASSUME NEW t \in Trees, NEW files \in SUBSET File, NEW to \in Layouts
    PROVE  LET u == Moved(t, files, to)
           IN  /\ u \in Trees /\ u.layout = t.layout
               /\ \A f \in files : u.home[f] \subseteq At(to)
               /\ \A f \in files : u.home[f] = {<<to, q[2]>> : q \in t.home[f]}
               /\ \A f \in File \ files : u.home[f] = t.home[f]
<1> DEFINE u == Moved(t, files, to)
           h == [f \in File |-> IF f \in files THEN {<<to, q[2]>> : q \in t.home[f]}
                                ELSE t.home[f]]
<1>1. u = [t EXCEPT !.home = h]
  BY DEF Moved
<1>2. \A f \in File : h[f] = IF f \in files THEN {<<to, q[2]>> : q \in t.home[f]} ELSE t.home[f]
  OBVIOUS
<1>3. ASSUME NEW f \in files PROVE h[f] \subseteq At(to)
  <2> SUFFICES ASSUME NEW q \in t.home[f] PROVE <<to, q[2]>> \in At(to)
    BY <1>2
  <2>1. q \in Layouts \X {"README.md", "issue.md"}
    BY TreeFields DEF Place
  <2>2. q[2] \in {"README.md", "issue.md"}
    BY <2>1
  <2> QED BY <2>2 DEF At, Place
<1>4. h \in [File -> SUBSET Place]
  <2>1. \A f \in File : h[f] \subseteq Place
    BY <1>2, <1>3, TreeFields DEF At
  <2> QED BY <2>1
<1>5. h[Attrs] \subseteq Layouts \X {"README.md"}
  <2>1. CASE Attrs \in files
    <3> SUFFICES ASSUME NEW q \in t.home[Attrs] PROVE <<to, q[2]>> \in Layouts \X {"README.md"}
      BY <1>2, <2>1, Files
    <3>1. q \in Layouts \X {"README.md"}
      BY TreeFields
    <3>2. q[2] = "README.md"
      BY <3>1
    <3> QED BY <3>2
  <2>2. CASE Attrs \notin files
    BY <1>2, <2>2, TreeFields, Files
  <2> QED BY <2>1, <2>2
<1> HIDE DEF h
<1>6. u = [layout |-> t.layout, home |-> h]
  BY <1>1, TreeFields
<1>7. u \in Trees /\ u.layout = t.layout /\ u.home = h
  BY <1>4, <1>5, <1>6, TreeFields DEF Trees
<1> HIDE DEF u
<1> QED BY <1>2, <1>3, <1>7 DEF u

(* An issue whose body is renamed is no longer under its legacy name, and  *)
(* the other files stay.                                                   *)
LEMMA RenamedTree ==
    ASSUME NEW t \in Trees, NEW i \in Issue, NEW to \in Layouts
    PROVE  /\ Renamed(t, i, to) \in Trees /\ Renamed(t, i, to).layout = t.layout
           /\ t.home[i] \subseteq At(to) => Renamed(t, i, to).home[i] \subseteq At(to)
           /\ Renamed(t, i, to).home[i] # {<<to, "issue.md">>}
           /\ \A f \in File \ {i} : Renamed(t, i, to).home[f] = t.home[f]
<1> DEFINE u == Renamed(t, i, to)
           new == (t.home[i] \ {<<to, "issue.md">>}) \union {<<to, "README.md">>}
           h == [t.home EXCEPT ![i] = new]
<1>1. u = [t EXCEPT !.home = h]
  BY DEF Renamed
<1>2. i \in File /\ i # Attrs
  BY Files
<1>3. <<to, "README.md">> \in At(to) /\ At(to) \subseteq Place
  BY DEF At, Place
<1>4. <<to, "README.md">> # <<to, "issue.md">>
  OBVIOUS
<1>5. /\ new \subseteq Place
      /\ t.home[i] \subseteq At(to) => new \subseteq At(to)
      /\ new # {<<to, "issue.md">>}
  BY <1>2, <1>3, <1>4, TreeFields
<1>6. h[i] = new /\ \A f \in File \ {i} : h[f] = t.home[f]
  BY <1>2, TreeFields
<1> HIDE DEF new
<1>7. h \in [File -> SUBSET Place]
  BY <1>5, TreeFields
<1>8. h[Attrs] \subseteq Layouts \X {"README.md"}
  BY <1>2, <1>6, TreeFields, Files
<1> HIDE DEF h
<1>9. u = [layout |-> t.layout, home |-> h]
  BY <1>1, TreeFields
<1>10. u \in Trees /\ u.layout = t.layout /\ u.home = h
  BY <1>7, <1>8, <1>9, TreeFields DEF Trees
<1> HIDE DEF u
<1> QED BY <1>5, <1>6, <1>10 DEF u

(* A tree where one file changed its places.                               *)
Homed(t, f, places) == [t EXCEPT !.home[f] = places]

(* A file that changes its places leaves the others where they were.       *)
LEMMA HomedTree ==
    ASSUME NEW t \in Trees, NEW f \in File, NEW places \in SUBSET Place,
           f = Attrs => places \subseteq Layouts \X {"README.md"}
    PROVE  /\ Homed(t, f, places) \in Trees /\ Homed(t, f, places).layout = t.layout
           /\ Homed(t, f, places).home[f] = places
           /\ \A g \in File \ {f} : Homed(t, f, places).home[g] = t.home[g]
<1> DEFINE u == Homed(t, f, places)
           h == [t.home EXCEPT ![f] = places]
<1>1. u = [t EXCEPT !.home = h]
  BY DEF Homed
<1>2. h[f] = places /\ \A g \in File \ {f} : h[g] = t.home[g]
  BY TreeFields
<1>3. h \in [File -> SUBSET Place]
  BY TreeFields
<1>4. h[Attrs] \subseteq Layouts \X {"README.md"}
  BY <1>2, TreeFields, Files
<1> HIDE DEF h
<1>5. u = [layout |-> t.layout, home |-> h]
  BY <1>1, TreeFields
<1>6. u \in Trees /\ u.layout = t.layout /\ u.home = h
  BY <1>3, <1>4, <1>5, TreeFields DEF Trees
<1> HIDE DEF u
<1> QED BY <1>2, <1>6 DEF u

(* The configuration's layout is written and no file moves.                *)
LEMMA StatedTree ==
    ASSUME NEW t \in Trees, NEW l \in Layouts
    PROVE  LET u == [t EXCEPT !.layout = l]
           IN  u \in Trees /\ u.layout = l /\ u.home = t.home
<1> DEFINE u == [t EXCEPT !.layout = l]
<1>1. u = [layout |-> l, home |-> t.home]
  BY TreeFields
<1>2. l \in {"root", "dotdir", "unstated"}
  BY DEF Layouts
<1>3. u \in Trees /\ u.layout = l /\ u.home = t.home
  BY <1>1, <1>2, TreeFields DEF Trees
<1> HIDE DEF u
<1> QED BY <1>3 DEF u

(* What git add of the .dit directory takes over into the stage.           *)
LEMMA AddedTree ==
    ASSUME disk \in Trees, stage \in Trees
    PROVE  /\ AddDit \in Trees /\ AddDit.layout = disk.layout
           /\ \A f \in File : AddDit.home[f] = (stage.home[f] \intersect At("root"))
                                            \union (disk.home[f] \intersect At("dotdir"))
           /\ \A f \in File : stage.home[f] = disk.home[f] => AddDit.home[f] = disk.home[f]
<1>1. AddDit.layout = disk.layout /\ \A f \in File :
         AddDit.home[f] = (stage.home[f] \intersect At("root")) \union (disk.home[f] \intersect At("dotdir"))
  BY DEF AddDit
<1>2. \A f \in File : AddDit.home[f] \subseteq Place
  BY <1>1, TreeFields
<1>3. AddDit.home \in [File -> SUBSET Place]
  BY <1>2 DEF AddDit
<1>4. AddDit.home[Attrs] \subseteq Layouts \X {"README.md"}
  BY <1>1, TreeFields, Files
<1>5. AddDit \in Trees
  <2>1. AddDit = [layout |-> AddDit.layout, home |-> AddDit.home]
    BY DEF AddDit
  <2>2. AddDit.layout \in {"root", "dotdir", "unstated"}
    BY <1>1, TreeFields
  <2> QED BY <1>3, <1>4, <2>1, <2>2 DEF Trees
<1>6. "root" \in Layouts /\ Place = At("root") \union At("dotdir")
  BY TwoLayouts DEF Layouts, Other
<1>7. ASSUME NEW f \in File, stage.home[f] = disk.home[f]
      PROVE  AddDit.home[f] = disk.home[f]
  BY <1>1, <1>6, <1>7, TreeFields
<1> QED BY <1>1, <1>5, <1>7

-----------------------------------------------------------------------------
(* Jobs.                                                                   *)

(* The parts of a migration's job.                                         *)
LEMMA JobFields ==
    ASSUME NEW j \in Migrations \union {Idle}, j.at # "idle"
    PROVE  /\ j \in Migrations /\ j.from \in Layouts /\ j.to \in Layouts /\ j.to = Other(j.from)
           /\ j.moved \in 0..2 /\ j.add \in BOOLEAN /\ j.sound \in BOOLEAN
<1>1. j \in Migrations
  BY DEF Idle
<1> QED BY <1>1 DEF Migrations

(* A process that does nothing owes nothing.                               *)
LEMMA IdleJob == Idle.at = "idle" /\ \A d, s, h : Phase(Idle, d, s, h)
  BY DEF Idle, Phase, Holding

(* A job that goes on to its next phase keeps its layouts.                 *)
LEMMA JobAt ==
    ASSUME NEW j \in Migrations,
           NEW at \in {"roots", "attrs", "config", "add", "commit", "reopen"}
    PROVE  LET k == [j EXCEPT !.at = at]
           IN  /\ k \in Migrations /\ k.at = at /\ k.from = j.from /\ k.to = j.to
               /\ k.moved = j.moved /\ k.add = j.add /\ k.sound = j.sound
  BY DEF Migrations

(* A step of p's migration, or one nobody's lock forbids.                  *)
LEMMA JobsGoOn ==
    ASSUME LayoutInv, NEW p \in Process,
           job' = [job EXCEPT ![p] = job'[p]],
           job'[p] \in Migrations \union {Idle},
           job'[p].at \in Holding => lock' = p,
           lock' = lock \/ lock = p \/ lock = Free,
           Phase(job'[p], disk', stage', head'),
           UNCHANGED <<disk, stage, head>> \/ lock = p \/ lock = Free
    PROVE  /\ job' \in [Process -> Migrations \union {Idle}]
           /\ HolderMigrates' /\ Phases'
<1> USE DEF LayoutInv, TypeOK
<1>1. job' \in [Process -> Migrations \union {Idle}]
  OBVIOUS
<1>2. \A q \in Process \ {p} : job'[q] = job[q]
  OBVIOUS
<1>3. \A q \in Process \ {p} : job[q].at \in Holding => lock = q /\ lock # p /\ lock # Free
  BY LayoutAssumption DEF HolderMigrates
<1>4. HolderMigrates'
  BY <1>2, <1>3 DEF HolderMigrates
<1>5. ASSUME NEW q \in Process PROVE Phase(job'[q], disk', stage', head')
  <2>1. CASE q # p
    <3>1. Phase(job[q], disk, stage, head)
      BY DEF Phases
    <3>2. job[q].at \in Holding => UNCHANGED <<disk, stage, head>>
      BY <1>3, <2>1
    <3>3. CASE job[q].at \in Holding
      BY <1>2, <2>1, <3>1, <3>2, <3>3
    <3>4. CASE job[q].at \notin Holding
      BY <1>2, <2>1, <3>4 DEF Phase
    <3> QED BY <3>3, <3>4
  <2> QED BY <2>1
<1>6. Phases'
  BY <1>5 DEF Phases
<1> QED BY <1>1, <1>4, <1>6

(* A step of no migration: it changes nothing a holder works on.           *)
LEMMA JobsStay ==
    ASSUME LayoutInv, UNCHANGED job,
           lock' = lock \/ \A p \in Process : lock = p => job[p] = Idle,
           UNCHANGED <<disk, stage, head>> \/ lock = Free
    PROVE  HolderMigrates' /\ Phases'
<1>1. HolderMigrates'
  <2> SUFFICES ASSUME NEW p \in Process, job[p].at \in Holding PROVE lock' = p
    BY DEF HolderMigrates
  <2>1. lock = p
    BY DEF LayoutInv, HolderMigrates
  <2>2. job[p] # Idle
    BY IdleJob DEF Holding
  <2> QED BY <2>1, <2>2
<1>2. ASSUME NEW p \in Process PROVE Phase(job[p], disk', stage', head')
  <2>1. CASE job[p].at \in Holding
    <3>1. lock = p
      BY <2>1 DEF LayoutInv, HolderMigrates
    <3>2. UNCHANGED <<disk, stage, head>>
      BY <3>1, LayoutAssumption
    <3> QED BY <3>2 DEF LayoutInv, Phases
  <2>2. CASE job[p].at \notin Holding
    BY <2>2 DEF Phase
  <2> QED BY <2>1, <2>2
<1>3. Phases'
  BY <1>2 DEF Phases
<1> QED BY <1>1, <1>3

-----------------------------------------------------------------------------
(* Steps of no migration.                                                  *)

(* A store opened on a tree has one of the two layouts (Store::open).      *)
LEMMA OpenedStore ==
    ASSUME NEW t \in Trees
    PROVE  Opened(t) \in [kind : Layouts, config : Layouts]
  BY DEF Opened, Detected, ConfigRead, Layouts

(* Opening a workspace or reloading its schema keeps the invariant.        *)
LEMMA OpenStep ==
    ASSUME LayoutInv, NEW p \in Process, Open(p) \/ ReloadSchema(p)
    PROVE  LayoutInv'
<1>1. UNCHANGED <<disk, stage, head, foreign, lock, job>>
  BY DEF Open, ReloadSchema, workspace
<1>2. store' \in [Process -> [kind : Layouts, config : Layouts]]
  <2>1. CASE Open(p)
    BY <2>1, OpenedStore DEF Open, LayoutInv, TypeOK
  <2>2. CASE ReloadSchema(p)
    <3>1. ConfigRead(disk) \in Layouts
      BY DEF ConfigRead, Layouts
    <3> QED BY <2>2, <3>1 DEF ReloadSchema, LayoutInv, TypeOK
  <2> QED BY <2>1, <2>2
<1>3. TypeOK'
  BY <1>1, <1>2 DEF LayoutInv, TypeOK
<1> QED BY <1>1, <1>3, JobsStay DEF LayoutInv

(* A write that no migration is in keeps the invariant.                    *)
LEMMA WriteStep ==
    ASSUME LayoutInv, NEW p \in Process, NEW f \in Issue \union Page, Write(p, f)
    PROVE  LayoutInv'
<1> DEFINE to == IF In(disk, f, store[p].kind) THEN disk.home[f] \intersect At(store[p].kind)
                 ELSE {<<store[p].kind, "README.md">>}
<1>1. /\ disk'  = [disk EXCEPT !.home[f] = disk.home[f] \union to]
      /\ stage' = [stage EXCEPT !.home[f] = stage.home[f] \union to]
      /\ head' = stage' /\ lock = Free
      /\ UNCHANGED <<foreign, lock, store, job>>
  BY DEF Write, Writes
<1>2. disk \in Trees /\ stage \in Trees /\ store[p].kind \in Layouts
  BY DEF LayoutInv, TypeOK
<1>3. f \in File /\ f # Attrs
  BY Files
<1>4. to \subseteq Place
  BY <1>2 DEF At, Place
<1> HIDE DEF to
<1>5. disk' \in Trees
  <2>1. disk.home[f] \union to \in SUBSET Place
    BY <1>2, <1>3, <1>4, TreeFields
  <2> QED BY <1>1, <1>2, <1>3, <2>1, HomedTree DEF Homed
<1>6. stage' \in Trees
  <2>1. stage.home[f] \union to \in SUBSET Place
    BY <1>2, <1>3, <1>4, TreeFields
  <2> QED BY <1>1, <1>2, <1>3, <2>1, HomedTree DEF Homed
<1>7. TypeOK'
  BY <1>1, <1>5, <1>6 DEF LayoutInv, TypeOK
<1> QED BY <1>1, <1>7, JobsStay DEF LayoutInv

(* A change of the numbering policy keeps the invariant, though it may     *)
(* flip the layout.                                                        *)
LEMMA SetNumberingStep ==
    ASSUME LayoutInv, NEW p \in Process, SetNumbering(p)
    PROVE  LayoutInv'
<1>1. /\ disk'  = [disk EXCEPT !.layout = store[p].config]
      /\ stage' = [AddDit EXCEPT !.layout = store[p].config]
      /\ head' = stage' \/ head' = head
      /\ lock = Free /\ UNCHANGED <<foreign, lock, store, job>>
  BY DEF SetNumbering, Writes
<1>2. disk \in Trees /\ stage \in Trees /\ store[p].config \in Layouts
  BY DEF LayoutInv, TypeOK
<1>3. disk' \in Trees /\ stage' \in Trees
  BY <1>1, <1>2, AddedTree, StatedTree
<1>4. head' \in Trees
  BY <1>1, <1>3 DEF LayoutInv, TypeOK
<1>5. TypeOK'
  BY <1>1, <1>3, <1>4 DEF LayoutInv, TypeOK
<1> QED BY <1>1, <1>5, JobsStay DEF LayoutInv

(* A person who restores the tree keeps the invariant.                     *)
LEMMA RestoreStep ==
    ASSUME LayoutInv, Restore
    PROVE  LayoutInv'
<1>1. disk' = head /\ stage' = head /\ lock = Free
      /\ UNCHANGED <<head, foreign, lock, store, job>>
  BY DEF Restore
<1>2. TypeOK'
  BY <1>1 DEF LayoutInv, TypeOK
<1> QED BY <1>1, <1>2, JobsStay DEF LayoutInv

(* Clearing the lock of a dead process keeps the invariant.                *)
LEMMA ClearLockStep ==
    ASSUME LayoutInv, ClearLock
    PROVE  LayoutInv'
<1>1. job[lock] = Idle /\ lock' = Free /\ UNCHANGED <<disk, stage, head, foreign, store, job>>
  BY DEF ClearLock, workspace
<1>2. TypeOK'
  BY <1>1 DEF LayoutInv, TypeOK
<1> QED BY <1>1, <1>2, JobsStay DEF LayoutInv

-----------------------------------------------------------------------------
(* Steps of a migration.                                                   *)

(* The job of p and the trees change; the rest of the types is as before.  *)
LEMMA MigrationStep ==
    ASSUME LayoutInv, NEW p \in Process, NEW j \in Migrations \union {Idle},
           job' = [job EXCEPT ![p] = j],
           j.at \in Holding => lock' = p,
           lock' = lock \/ lock = p \/ lock = Free, lock' \in {lock, p, Free},
           disk' \in Trees, stage' \in Trees, head' \in Trees,
           Phase(j, disk', stage', head'),
           UNCHANGED <<disk, stage, head>> \/ lock = p \/ lock = Free,
           foreign' = foreign, store' \in [Process -> [kind : Layouts, config : Layouts]]
    PROVE  LayoutInv'
<1>1. job'[p] = j
  BY DEF LayoutInv, TypeOK
<1>2. job' = [job EXCEPT ![p] = job'[p]]
  BY <1>1
<1>3. /\ job' \in [Process -> Migrations \union {Idle}]
      /\ HolderMigrates' /\ Phases'
  BY <1>1, <1>2, JobsGoOn
<1>4. TypeOK'
  BY <1>3 DEF LayoutInv, TypeOK
<1> QED BY <1>3, <1>4 DEF LayoutInv

(* A job that ends, and moves nothing, keeps the invariant.                *)
LEMMA EndsStep ==
    ASSUME LayoutInv, NEW p \in Process, job' = [job EXCEPT ![p] = Idle],
           lock' = lock \/ (lock' = Free /\ lock = p), UNCHANGED workspace,
           store' \in [Process -> [kind : Layouts, config : Layouts]]
    PROVE  LayoutInv'
<1>1. UNCHANGED <<disk, stage, head, foreign>>
  BY DEF workspace
<1>2. disk' \in Trees /\ stage' \in Trees /\ head' \in Trees
  BY <1>1 DEF LayoutInv, TypeOK
<1>3. Idle \in Migrations \union {Idle} /\ Idle.at \notin Holding /\ Phase(Idle, disk', stage', head')
  BY IdleJob DEF Holding
<1> QED BY <1>1, <1>2, <1>3, MigrationStep

(* What the holder of the lock has under its hands.                        *)
LEMMA Held ==
    ASSUME LayoutInv, NEW p \in Process, job[p].at \in Holding
    PROVE  /\ lock = p /\ job[p] \in Migrations /\ job[p].from \in Layouts /\ job[p].to \in Layouts
           /\ job[p].to = Other(job[p].from) /\ job[p].moved \in 0..2
           /\ disk \in Trees /\ stage \in Trees /\ head \in Trees
           /\ store \in [Process -> [kind : Layouts, config : Layouts]]
           /\ Phase(job[p], disk, stage, head)
<1>1. job[p] \in Migrations \union {Idle} /\ job[p].at # "idle"
  BY DEF LayoutInv, TypeOK, Holding
<1> QED BY <1>1, JobFields DEF LayoutInv, TypeOK, HolderMigrates, Phases

(* A migration that looks at the tree keeps the invariant.                 *)
LEMMA MigrateStep ==
    ASSUME LayoutInv, NEW p \in Process, Migrate(p)
    PROVE  LayoutInv'
<1> DEFINE l == store[p].kind
           j == [at |-> "lock", from |-> l, to |-> Other(l), moved |-> 0,
                 add |-> FALSE, sound |-> FALSE]
<1>1. /\ job' = [job EXCEPT ![p] = j]
      /\ UNCHANGED <<disk, stage, head, foreign, lock, store>>
  BY DEF Migrate, Step, workspace
<1>2. l \in Layouts /\ Other(l) \in Layouts
  BY TwoLayouts DEF LayoutInv, TypeOK
<1>3. j \in Migrations /\ j.at = "lock"
  BY <1>2 DEF Migrations
<1> HIDE DEF j
<1>4. j.at \notin Holding /\ Phase(j, disk', stage', head')
  BY <1>3 DEF Holding, Phase
<1>5. disk' \in Trees /\ stage' \in Trees /\ head' \in Trees
      /\ store' \in [Process -> [kind : Layouts, config : Layouts]]
  BY <1>1 DEF LayoutInv, TypeOK
<1> QED BY <1>1, <1>3, <1>4, <1>5, MigrationStep

(* A migration that takes the lock begins a sound job only on a tree that  *)
(* is clean under it.                                                      *)
LEMMA LockStep ==
    ASSUME LayoutInv, NEW p \in Process, Lock(p)
    PROVE  LayoutInv'
<1>1. job[p].at = "lock" /\ UNCHANGED <<disk, stage, head, foreign, store>>
  BY DEF Lock, Step, workspace
<1>2. job[p] \in Migrations
  BY <1>1, JobFields DEF LayoutInv, TypeOK
<1>3. CASE lock # Free
  <2>1. job' = [job EXCEPT ![p] = Idle] /\ lock' = lock
    BY <1>3 DEF Lock
  <2>2. store' \in [Process -> [kind : Layouts, config : Layouts]] /\ UNCHANGED workspace
    BY <1>1 DEF LayoutInv, TypeOK, workspace
  <2> QED BY <2>1, <2>2, EndsStep
<1>4. CASE lock = Free
  <2> DEFINE j == [job[p] EXCEPT !.at = "roots", !.sound = Clean]
  <2>1. lock' = p /\ job' = [job EXCEPT ![p] = j]
    BY <1>4 DEF Lock, LayoutInv, TypeOK
  <2>2. Clean \in BOOLEAN
    BY DEF Clean
  <2>3. j \in Migrations /\ j.at = "roots" /\ j.sound = Clean /\ j.moved = job[p].moved
    BY <1>2, <2>2 DEF Migrations
  <2> HIDE DEF j
  <2>4. disk' \in Trees /\ stage' \in Trees /\ head' \in Trees
        /\ store' \in [Process -> [kind : Layouts, config : Layouts]]
    BY <1>1 DEF LayoutInv, TypeOK
  <2>5. Phase(j, disk', stage', head')
    <3>1. j.moved = 0
      BY <1>1, <1>2, <2>3 DEF Migrations
    <3>2. Clean => RootsMoved(j, disk', stage', head')
      BY <1>1, <3>1 DEF RootsMoved, Kept, Clean
    <3> QED BY <2>3, <3>2 DEF Phase
  <2> QED BY <1>1, <1>4, <2>1, <2>3, <2>4, <2>5, MigrationStep
<1> QED BY <1>3, <1>4

(* What is at neither place of the one layout is at the other's.           *)
LEMMA NotThere ==
    ASSUME NEW t \in Trees, NEW from \in Layouts, NEW f \in File, ~In(t, f, from)
    PROVE  t.home[f] \subseteq At(Other(from))
  BY TwoLayouts, TreeFields DEF In

(* The move of one root brings the next phase what it owes.                *)
LEMMA MoveRootStep ==
    ASSUME LayoutInv, NEW p \in Process, MoveRoot(p)
    PROVE  LayoutInv'
<1> DEFINE files == Roots[job[p].moved + 1]
           from == job[p].from
           to == job[p].to
           j == [job[p] EXCEPT !.moved = job[p].moved + 1]
           There(l) == \E f \in files : In(disk, f, l)
<1>1. job[p].at = "roots" /\ job[p].moved < 2 /\ UNCHANGED store
  BY Files DEF MoveRoot, Step
<1>2. job[p].at \in Holding
  BY <1>1 DEF Holding
<1>3. /\ lock = p /\ job[p] \in Migrations /\ from \in Layouts /\ to \in Layouts
      /\ to = Other(from) /\ job[p].moved \in 0..2
      /\ disk \in Trees /\ stage \in Trees /\ head \in Trees
      /\ store' \in [Process -> [kind : Layouts, config : Layouts]]
      /\ Phase(job[p], disk, stage, head)
  BY <1>1, <1>2, Held
<1>4. \/ job[p].moved = 0 /\ files = Issue
      \/ job[p].moved = 1 /\ files = Page
  BY <1>1, <1>3, Files
<1>5. /\ j \in Migrations /\ j.at = "roots" /\ j.to = to /\ j.moved = job[p].moved + 1
      /\ j.sound = job[p].sound
  BY <1>1, <1>3 DEF Migrations
<1>6. job[p].sound => RootsMoved(job[p], disk, stage, head)
  BY <1>1, <1>2, <1>3 DEF Phase
<1>7. CASE ~There(from) /\ job' = [job EXCEPT ![p].moved = @ + 1] /\ UNCHANGED <<lock, workspace>>
  <2>1. job' = [job EXCEPT ![p] = j] /\ UNCHANGED <<disk, stage, head, foreign>>
    BY <1>7 DEF workspace, LayoutInv, TypeOK
  <2>2. Whole(files, disk, to)
    BY <1>3, <1>4, <1>7, Files, NotThere DEF Whole
  <2> HIDE DEF j
  <2>3. job[p].sound => RootsMoved(j, disk, stage, head)
    BY <1>4, <1>5, <1>6, <2>2 DEF RootsMoved
  <2>4. Phase(j, disk', stage', head')
    BY <1>5, <2>1, <2>3 DEF Phase
  <2> QED BY <1>3, <1>5, <1>7, <2>1, <2>4, MigrationStep
<1>8. CASE Ends(p) /\ UNCHANGED workspace
  BY <1>3, <1>8, EndsStep DEF Ends
<1>9. CASE /\ There(from) /\ disk' = Moved(disk, files, to)
           /\ stage' = IF \E f \in files : In(head, f, from) THEN Moved(stage, files, to) ELSE stage
           /\ job' = [job EXCEPT ![p].moved = @ + 1] /\ UNCHANGED <<head, foreign, lock>>
  <2>1. job' = [job EXCEPT ![p] = j]
    BY <1>9 DEF LayoutInv, TypeOK
  <2>2. files \in SUBSET File
    BY <1>4, Files
  <2>3. disk' \in Trees /\ Whole(files, disk', to)
        /\ \A f \in File \ files : disk'.home[f] = disk.home[f]
    <3>1. /\ Moved(disk, files, to) \in Trees
          /\ \A f \in files : Moved(disk, files, to).home[f] \subseteq At(to)
          /\ \A f \in File \ files : Moved(disk, files, to).home[f] = disk.home[f]
      BY <1>3, <2>2, MovedTree
    <3> QED BY <1>9, <3>1 DEF Whole
  <2>4. stage' \in Trees
    BY <1>3, <1>9, <2>2, MovedTree
  <2>5. ASSUME job[p].sound PROVE disk' = stage'
    <3>1. disk = stage /\ Kept(files, disk, head)
      BY <1>4, <1>6, <2>5 DEF RootsMoved
    <3>2. \E f \in files : In(head, f, from)
      BY <1>9, <3>1 DEF In, Kept
    <3> QED BY <1>9, <3>1, <3>2
  <2> HIDE DEF j
  <2>6. ASSUME job[p].sound PROVE RootsMoved(j, disk', stage', head')
    <3>1. Kept({Attrs}, disk', head')
      BY <1>4, <1>6, <1>9, <2>3, <2>6, Files DEF RootsMoved, Kept
    <3>2. CASE job[p].moved = 0 /\ files = Issue
      <4>1. Kept(Page, disk', head')
        BY <1>6, <1>9, <2>3, <2>6, <3>2, Files DEF RootsMoved, Kept
      <4> QED BY <1>5, <2>3, <2>5, <2>6, <3>1, <3>2, <4>1 DEF RootsMoved
    <3>3. CASE job[p].moved = 1 /\ files = Page
      <4>1. Whole(Issue, disk', to)
        BY <1>5, <1>6, <2>3, <2>6, <3>3, Files DEF RootsMoved, Whole
      <4> QED BY <1>5, <2>3, <2>5, <2>6, <3>1, <3>3, <4>1 DEF RootsMoved
    <3> QED BY <1>4, <3>2, <3>3
  <2>7. Phase(j, disk', stage', head')
    BY <1>5, <2>6 DEF Phase
  <2>8. head' \in Trees
    BY <1>3, <1>9
  <2> QED BY <1>3, <1>5, <1>9, <2>1, <2>3, <2>4, <2>7, <2>8, MigrationStep
<1> QED BY <1>7, <1>8, <1>9 DEF MoveRoot

(* The rename of one legacy body keeps what is owed.                       *)
LEMMA RenameBodyStep ==
    ASSUME LayoutInv, NEW p \in Process, RenameBody(p)
    PROVE  LayoutInv'
<1> DEFINE to == job[p].to
           j == [job[p] EXCEPT !.at = "attrs"]
<1>1. job[p].at = "roots" /\ job[p].moved = 2 /\ UNCHANGED store
  BY Files DEF RenameBody, Step
<1>2. job[p].at \in Holding
  BY <1>1 DEF Holding
<1>3. /\ lock = p /\ job[p] \in Migrations /\ to \in Layouts
      /\ disk \in Trees /\ stage \in Trees /\ head \in Trees
      /\ store' \in [Process -> [kind : Layouts, config : Layouts]]
      /\ Phase(job[p], disk, stage, head)
  BY <1>1, <1>2, Held
<1>4. job[p].sound => /\ disk = stage /\ Whole(Issue, disk, to) /\ Whole(Page, disk, to)
                      /\ Kept({Attrs}, disk, head)
  BY <1>1, <1>2, <1>3 DEF Phase, RootsMoved
<1>5. CASE OldBodies(p) = {} /\ Goto(p, "attrs") /\ UNCHANGED <<workspace, lock>>
  <2>1. job' = [job EXCEPT ![p] = j] /\ UNCHANGED <<disk, stage, head, foreign, lock>>
    BY <1>5 DEF Goto, workspace, LayoutInv, TypeOK
  <2>2. j \in Migrations /\ j.at = "attrs" /\ j.to = to /\ j.sound = job[p].sound
    BY <1>3, JobAt
  <2> HIDE DEF j
  <2>3. ASSUME job[p].sound PROVE Named(disk, to)
    <3> SUFFICES ASSUME NEW i \in Issue, disk.home[i] = {<<to, "issue.md">>} PROVE FALSE
      BY DEF Named
    <3>1. disk.home[i] \subseteq At(to)
      BY <1>4, <2>3 DEF Whole
    <3>2. disk.home[i] \intersect At(to) = {<<to, "issue.md">>}
      BY <3>1
    <3>3. i \in OldBodies(p)
      BY <3>2 DEF OldBodies
    <3> QED BY <1>5, <3>3
  <2>4. job[p].sound => BodiesNamed(j, disk, stage, head)
    BY <1>4, <2>2, <2>3 DEF BodiesNamed, Whole
  <2>5. Phase(j, disk', stage', head')
    BY <2>1, <2>2, <2>4 DEF Phase
  <2> QED BY <1>3, <2>1, <2>2, <2>5, MigrationStep
<1>6. CASE \E i \in OldBodies(p) :
              /\ disk' = Renamed(disk, i, to) /\ stage' = Renamed(stage, i, to)
              /\ UNCHANGED <<head, foreign, lock, job>>
  <2>1. PICK i \in OldBodies(p) : disk' = Renamed(disk, i, to) /\ stage' = Renamed(stage, i, to)
    BY <1>6
  <2>2. i \in Issue /\ i \in File /\ i # Attrs /\ i \notin Page
    BY Files DEF OldBodies
  <2>3. /\ Renamed(disk, i, to) \in Trees /\ Renamed(stage, i, to) \in Trees
        /\ disk.home[i] \subseteq At(to) => Renamed(disk, i, to).home[i] \subseteq At(to)
        /\ \A f \in File \ {i} : Renamed(disk, i, to).home[f] = disk.home[f]
    <3>1. Renamed(stage, i, to) \in Trees
      BY <1>3, <2>2, RenamedTree
    <3>2. Renamed(disk, i, to) \in Trees
      BY <1>3, <2>2, RenamedTree
    <3>3. disk \in Trees /\ i \in Issue /\ to \in Layouts
      BY <1>3, <2>2
    <3> HIDE DEF to
    <3>4. disk.home[i] \subseteq At(to) => Renamed(disk, i, to).home[i] \subseteq At(to)
      BY <3>3, RenamedTree, Zenon
    <3>5. \A f \in File \ {i} : Renamed(disk, i, to).home[f] = disk.home[f]
      BY <3>3, RenamedTree, Zenon
    <3> QED BY <3>1, <3>2, <3>4, <3>5
  <2>4. /\ disk' \in Trees /\ stage' \in Trees
        /\ disk.home[i] \subseteq At(to) => disk'.home[i] \subseteq At(to)
        /\ \A f \in File \ {i} : disk'.home[f] = disk.home[f]
    BY <2>1, <2>3
  <2>5. ASSUME job[p].sound PROVE RootsMoved(job[p], disk', stage', head')
    <3>1. disk' = stage'
      BY <1>4, <2>1, <2>5
    <3>2. Whole(Issue, disk', to)
      BY <1>4, <2>4, <2>5, Files DEF Whole
    <3>3. Whole(Page, disk', to)
      BY <1>4, <2>2, <2>4, <2>5, Files DEF Whole
    <3>4. Kept({Attrs}, disk', head')
      BY <1>4, <1>6, <2>2, <2>4, <2>5, Files DEF Kept
    <3> QED BY <1>1, <3>1, <3>2, <3>3, <3>4 DEF RootsMoved
  <2>6. Phase(job[p], disk', stage', head')
    BY <1>1, <2>5 DEF Phase
  <2>7. job' = [job EXCEPT ![p] = job[p]] /\ head' \in Trees
    BY <1>3, <1>6 DEF LayoutInv, TypeOK
  <2> QED BY <1>3, <1>6, <2>4, <2>6, <2>7, MigrationStep
<1>7. CASE Ends(p) /\ UNCHANGED workspace
  BY <1>3, <1>7, EndsStep DEF Ends
<1> QED BY <1>5, <1>6, <1>7 DEF RenameBody

(* The attributes file moves once both roots have.                         *)
LEMMA MoveAttrsStep ==
    ASSUME LayoutInv, NEW p \in Process, MoveAttrs(p)
    PROVE  LayoutInv'
<1> DEFINE to == job[p].to
           from == job[p].from
           add == ~In(disk, Attrs, to) /\ ~In(head, Attrs, from)
           placed == [disk EXCEPT !.home[Attrs] = {<<to, "README.md">>}]
           j == [job[p] EXCEPT !.at = "config", !.add = add]
<1>1. /\ job[p].at = "attrs" /\ UNCHANGED <<store, head, foreign, lock>>
      /\ disk' = IF In(disk, Attrs, to) THEN disk ELSE placed
      /\ stage' = IF In(disk, Attrs, to) \/ add THEN stage ELSE Moved(stage, {Attrs}, to)
      /\ job' = [job EXCEPT ![p].at = "config", ![p].add = add]
  BY DEF MoveAttrs, Step
<1>2. job[p].at \in Holding
  BY <1>1 DEF Holding
<1>3. /\ lock = p /\ job[p] \in Migrations /\ to \in Layouts /\ from \in Layouts /\ to = Other(from)
      /\ disk \in Trees /\ stage \in Trees /\ head \in Trees
      /\ store' \in [Process -> [kind : Layouts, config : Layouts]]
      /\ Phase(job[p], disk, stage, head)
  BY <1>1, <1>2, Held
<1>4. job[p].sound => BodiesNamed(job[p], disk, stage, head)
  BY <1>1, <1>2, <1>3 DEF Phase
<1>5. add \in BOOLEAN
  OBVIOUS
<1>6. job' = [job EXCEPT ![p] = j]
  BY <1>1 DEF LayoutInv, TypeOK
<1>7. j \in Migrations /\ j.at = "config" /\ j.to = to /\ j.sound = job[p].sound /\ j.add = add
  BY <1>3, <1>5 DEF Migrations
<1> HIDE DEF j
<1>8. /\ placed \in Trees /\ placed.home[Attrs] = {<<to, "README.md">>}
      /\ \A f \in File \ {Attrs} : placed.home[f] = disk.home[f]
  <2>1. {<<to, "README.md">>} \in SUBSET Place
        /\ {<<to, "README.md">>} \subseteq Layouts \X {"README.md"}
    BY <1>3 DEF Place
  <2>2. disk \in Trees /\ Attrs \in File
    BY <1>3, Files
  <2>3. placed = Homed(disk, Attrs, {<<to, "README.md">>})
    BY DEF Homed
  <2> HIDE DEF to, placed
  <2>4. placed \in Trees
    BY <2>1, <2>2, <2>3, HomedTree
  <2>5. placed.home[Attrs] = {<<to, "README.md">>}
    BY <2>1, <2>2, <2>3, HomedTree
  <2>6. \A f \in File \ {Attrs} : placed.home[f] = disk.home[f]
    BY <2>1, <2>2, <2>3, HomedTree
  <2> QED BY <2>4, <2>5, <2>6
<1>9. /\ Moved(stage, {Attrs}, to) \in Trees
      /\ Moved(stage, {Attrs}, to).home[Attrs] = {<<to, q[2]>> : q \in stage.home[Attrs]}
      /\ \A f \in File \ {Attrs} : Moved(stage, {Attrs}, to).home[f] = stage.home[f]
  <2>1. stage \in Trees /\ {Attrs} \in SUBSET File /\ to \in Layouts
    BY <1>3, Files
  <2>2. Attrs \in {Attrs}
    OBVIOUS
  <2> HIDE DEF to
  <2> QED BY <2>1, <2>2, MovedTree
<1> HIDE DEF placed
<1>10. disk' \in Trees /\ stage' \in Trees /\ head' \in Trees
  BY <1>1, <1>3, <1>8, <1>9
<1>11. /\ \A f \in File \ {Attrs} : disk'.home[f] = disk.home[f]
       /\ \A f \in File \ {Attrs} : stage'.home[f] = stage.home[f]
  BY <1>1, <1>8, <1>9
<1>12. <<to, "README.md">> \in At(to)
  BY <1>3 DEF At, Place
<1>13. In(disk', Attrs, to)
  BY <1>1, <1>8, <1>12 DEF In
<1>14. ASSUME job[p].sound PROVE AttrsPlaced(j, disk', stage')
  <2>1. /\ disk = stage /\ Whole(Issue \union Page, disk, to) /\ Named(disk, to)
        /\ disk.home[Attrs] = head.home[Attrs]
    BY <1>4, <1>14 DEF BodiesNamed, Kept
  <2>2. Whole(Issue \union Page, disk', to) /\ Named(disk', to)
    BY <1>11, <2>1, Files DEF Whole, Named
  <2>3. Kept(Issue \union Page, disk', stage')
    BY <1>11, <2>1, Files DEF Kept
  <2>4. CASE In(disk, Attrs, to)
    <3>1. ~add /\ disk' = disk /\ stage' = stage
      BY <1>1, <2>4
    <3>2. Kept({Attrs}, disk', stage')
      BY <2>1, <3>1 DEF Kept
    <3> QED BY <1>7, <1>13, <2>2, <2>3, <3>1, <3>2 DEF AttrsPlaced
  <2>5. CASE add
    <3>1. disk' = placed /\ stage' = stage
      BY <1>1, <2>5
    <3>2. disk'.home[Attrs] \subseteq At(to)
      BY <1>8, <1>12, <3>1
    <3>3. stage.home[Attrs] = {}
      <4>1. stage.home[Attrs] \intersect At(to) = {} /\ stage.home[Attrs] \intersect At(from) = {}
        BY <2>1, <2>5 DEF In
      <4>2. Place = At(from) \union At(to)
        BY <1>3, TwoLayouts
      <4>3. stage.home[Attrs] \subseteq Place
        BY <1>3, TreeFields, Files
      <4> QED BY <4>1, <4>2, <4>3
    <3> QED BY <1>7, <1>13, <2>2, <2>3, <2>5, <3>1, <3>2, <3>3 DEF AttrsPlaced
  <2>6. CASE ~In(disk, Attrs, to) /\ In(head, Attrs, from)
    <3>1. ~add /\ disk' = placed /\ stage' = Moved(stage, {Attrs}, to)
      BY <1>1, <2>6
    <3>2. stage.home[Attrs] # {} /\ stage.home[Attrs] \subseteq Layouts \X {"README.md"}
      BY <1>3, <2>1, <2>6, TreeFields DEF In
    <3>3. {<<to, q[2]>> : q \in stage.home[Attrs]} = {<<to, "README.md">>}
      <4>1. \A q \in stage.home[Attrs] : q[2] = "README.md"
        BY <3>2
      <4> QED BY <3>2, <4>1
    <3>4. Kept({Attrs}, disk', stage')
      BY <1>8, <1>9, <3>1, <3>3 DEF Kept
    <3> QED BY <1>7, <1>13, <2>2, <2>3, <3>1, <3>4 DEF AttrsPlaced
  <2> QED BY <2>4, <2>5, <2>6
<1>15. Phase(j, disk', stage', head')
  BY <1>7, <1>14 DEF Phase
<1> QED BY <1>1, <1>3, <1>6, <1>7, <1>10, <1>15, MigrationStep

(* The configuration is flipped once everything has moved.                 *)
LEMMA FlipConfigStep ==
    ASSUME LayoutInv, NEW p \in Process, FlipConfig(p)
    PROVE  LayoutInv'
<1> DEFINE j == [job[p] EXCEPT !.at = "add"]
<1>1. /\ job[p].at = "config" /\ UNCHANGED <<store, stage, head, foreign, lock>>
      /\ disk' = [disk EXCEPT !.layout = job[p].to]
      /\ job' = [job EXCEPT ![p].at = "add"]
  BY DEF FlipConfig, Step, Goto
<1>2. job[p].at \in Holding
  BY <1>1 DEF Holding
<1>3. /\ lock = p /\ job[p] \in Migrations /\ job[p].to \in Layouts
      /\ disk \in Trees /\ stage \in Trees /\ head \in Trees
      /\ store' \in [Process -> [kind : Layouts, config : Layouts]]
      /\ Phase(job[p], disk, stage, head)
  BY <1>1, <1>2, Held
<1>4. job[p].sound => AttrsPlaced(job[p], disk, stage)
  BY <1>1, <1>2, <1>3 DEF Phase
<1>5. job' = [job EXCEPT ![p] = j]
  BY <1>1 DEF LayoutInv, TypeOK
<1>6. j \in Migrations /\ j.at = "add" /\ j.to = job[p].to /\ j.sound = job[p].sound /\ j.add = job[p].add
  BY <1>3, JobAt
<1> HIDE DEF j
<1>7. disk' \in Trees /\ disk'.layout = job[p].to /\ disk'.home = disk.home
  BY <1>1, <1>3, StatedTree
<1>8. job[p].sound => AttrsPlaced(j, disk', stage') /\ disk'.layout = j.to
  BY <1>1, <1>4, <1>6, <1>7 DEF AttrsPlaced, Whole, Named, Kept, In
<1>9. Phase(j, disk', stage', head')
  BY <1>6, <1>8 DEF Phase
<1> QED BY <1>1, <1>3, <1>5, <1>6, <1>7, <1>9, MigrationStep

(* After the add, a sound job has all of the tree in the stage.            *)
LEMMA AddAllStep ==
    ASSUME LayoutInv, NEW p \in Process, AddAll(p)
    PROVE  LayoutInv'
<1> DEFINE to == job[p].to
           routing == AddDit.home[Attrs] \union (disk.home[Attrs] \intersect At("root"))
           j == [job[p] EXCEPT !.at = "commit"]
<1>1. /\ job[p].at = "add" /\ UNCHANGED <<store, disk, head, foreign, lock>>
      /\ stage' = IF to = "root" /\ job[p].add THEN Homed(AddDit, Attrs, routing) ELSE AddDit
      /\ job' = [job EXCEPT ![p].at = "commit"]
  BY DEF AddAll, Step, Goto, Homed
<1>2. job[p].at \in Holding
  BY <1>1 DEF Holding
<1>3. /\ lock = p /\ job[p] \in Migrations /\ to \in Layouts
      /\ disk \in Trees /\ stage \in Trees /\ head \in Trees
      /\ store' \in [Process -> [kind : Layouts, config : Layouts]]
      /\ Phase(job[p], disk, stage, head)
  BY <1>1, <1>2, Held
<1>4. job[p].sound => AttrsPlaced(job[p], disk, stage) /\ disk.layout = to
  BY <1>1, <1>2, <1>3 DEF Phase
<1>5. job' = [job EXCEPT ![p] = j]
  BY <1>1 DEF LayoutInv, TypeOK
<1>6. j \in Migrations /\ j.at = "commit" /\ j.to = to /\ j.sound = job[p].sound
  BY <1>3, JobAt
<1> HIDE DEF j, to
<1>7. AddDit \in Trees /\ AddDit.layout = disk.layout
  BY <1>3, AddedTree
<1>8. \A f \in File : stage.home[f] = disk.home[f] => AddDit.home[f] = disk.home[f]
  BY <1>3, AddedTree
<1>9. AddDit.home[Attrs] = (stage.home[Attrs] \intersect At("root"))
                              \union (disk.home[Attrs] \intersect At("dotdir"))
  BY <1>3, AddedTree, Files
<1>10. /\ routing \in SUBSET Place /\ routing \subseteq Layouts \X {"README.md"} /\ Attrs \in File
  BY <1>3, <1>7, TreeFields, Files
<1>11. /\ Homed(AddDit, Attrs, routing) \in Trees
       /\ Homed(AddDit, Attrs, routing).layout = AddDit.layout
       /\ Homed(AddDit, Attrs, routing).home[Attrs] = routing
       /\ \A f \in File \ {Attrs} : Homed(AddDit, Attrs, routing).home[f] = AddDit.home[f]
  BY <1>7, <1>10, HomedTree
<1>12. stage' \in Trees /\ stage'.layout = disk.layout
  BY <1>1, <1>7, <1>11
<1>13. \A f \in File \ {Attrs} : stage'.home[f] = AddDit.home[f]
  BY <1>1, <1>11
<1>14. stage'.home[Attrs] = IF to = "root" /\ job[p].add THEN routing ELSE AddDit.home[Attrs]
  BY <1>1, <1>11
<1>15. ASSUME job[p].sound PROVE AllAdded(j, disk', stage')
  <2>1. /\ Whole(Issue \union Page, disk, to) /\ Named(disk, to) /\ In(disk, Attrs, to)
        /\ Kept(Issue \union Page, disk, stage) /\ disk.layout = to
        /\ IF job[p].add THEN disk.home[Attrs] \subseteq At(to) /\ stage.home[Attrs] = {}
           ELSE disk.home[Attrs] = stage.home[Attrs]
    BY <1>4, <1>15 DEF AttrsPlaced, Kept, to
  <2>2. \A f \in File \ {Attrs} : stage'.home[f] = disk'.home[f]
    BY <1>1, <1>8, <1>13, <2>1, Files DEF Kept
  <2>3. stage'.home[Attrs] = disk'.home[Attrs]
    <3>1. CASE ~job[p].add
      BY <1>1, <1>8, <1>14, <2>1, <3>1, Files
    <3>2. CASE job[p].add /\ to = "root"
      <4>1. disk.home[Attrs] \subseteq At("root") /\ stage.home[Attrs] = {}
        BY <2>1, <3>2
      <4>2. At("root") \intersect At("dotdir") = {}
        BY TwoLayouts DEF Layouts, Other
      <4>3. routing = disk.home[Attrs]
        BY <1>9, <4>1, <4>2
      <4> QED BY <1>1, <1>14, <3>2, <4>3
    <3>3. CASE job[p].add /\ to = "dotdir"
      <4>1. disk.home[Attrs] \subseteq At("dotdir") /\ stage.home[Attrs] = {}
        BY <2>1, <3>3
      <4>2. AddDit.home[Attrs] = disk.home[Attrs]
        BY <1>9, <4>1
      <4> QED BY <1>1, <1>14, <3>3, <4>2
    <3> QED BY <1>3, <3>1, <3>2, <3>3 DEF Layouts
  <2>4. disk' = stage'
    <3>1. disk' \in Trees /\ disk'.layout = stage'.layout
      BY <1>1, <1>3, <1>12
    <3>2. \A f \in File : disk'.home[f] = stage'.home[f]
      BY <2>2, <2>3
    <3> QED BY <1>12, <3>1, <3>2, SameTrees
  <2> QED BY <1>1, <1>6, <2>1, <2>4 DEF AllAdded
<1>16. Phase(j, disk', stage', head')
  BY <1>6, <1>15 DEF Phase
<1>17. disk' \in Trees /\ head' \in Trees
  BY <1>1, <1>3
<1> QED BY <1>1, <1>3, <1>5, <1>6, <1>12, <1>16, <1>17, MigrationStep

(* The commit of a sound job has all that it moved.                        *)
LEMMA CommitStep ==
    ASSUME LayoutInv, NEW p \in Process, Commit(p)
    PROVE  LayoutInv'
<1> DEFINE j == [job[p] EXCEPT !.at = "reopen"]
<1>1. /\ job[p].at = "commit" /\ UNCHANGED <<store, disk, stage, foreign, lock>> /\ head' = stage
      /\ job' = [job EXCEPT ![p].at = "reopen"]
  BY DEF Commit, Step, Goto
<1>2. job[p].at \in Holding
  BY <1>1 DEF Holding
<1>3. /\ lock = p /\ job[p] \in Migrations
      /\ disk \in Trees /\ stage \in Trees /\ head \in Trees
      /\ store' \in [Process -> [kind : Layouts, config : Layouts]]
      /\ Phase(job[p], disk, stage, head)
  BY <1>1, <1>2, Held
<1>4. job[p].sound => AllAdded(job[p], disk, stage)
  BY <1>1, <1>2, <1>3 DEF Phase
<1>5. job' = [job EXCEPT ![p] = j]
  BY <1>1 DEF LayoutInv, TypeOK
<1>6. j \in Migrations /\ j.at = "reopen" /\ j.to = job[p].to /\ j.sound = job[p].sound
  BY <1>3, JobAt
<1> HIDE DEF j
<1>7. Phase(j, disk', stage', head')
  BY <1>1, <1>4, <1>6 DEF Phase, AllAdded
<1> QED BY <1>1, <1>3, <1>5, <1>6, <1>7, MigrationStep

(* A migration that reopens, fails or dies keeps the invariant.            *)
LEMMA EndStep ==
    ASSUME LayoutInv, NEW p \in Process, Reopen(p) \/ Fails(p) \/ Dies(p)
    PROVE  LayoutInv'
<1>1. job[p].at \in Holding
  BY DEF Reopen, Fails, Dies, UnderLock, Holding
<1>2. lock = p /\ disk \in Trees /\ store \in [Process -> [kind : Layouts, config : Layouts]]
  BY <1>1, Held
<1>3. store' \in [Process -> [kind : Layouts, config : Layouts]]
  BY <1>2, OpenedStore DEF Reopen, Fails, Dies
<1>4. job' = [job EXCEPT ![p] = Idle] /\ UNCHANGED workspace
  BY DEF Reopen, Fails, Dies, Ends
<1>5. lock' = lock \/ (lock' = Free /\ lock = p)
  BY <1>2 DEF Reopen, Fails, Dies, Ends
<1> QED BY <1>3, <1>4, <1>5, EndsStep

-----------------------------------------------------------------------------
(* The invariant holds.                                                    *)

(* The invariant holds at first.                                           *)
LEMMA InitInv == Init => LayoutInv
<1> SUFFICES ASSUME Init PROVE LayoutInv
  OBVIOUS
<1>1. PICK l \in {"root", "dotdir", "unstated"}, old \in BOOLEAN :
         LET here == IF l = "root" THEN "root" ELSE "dotdir"
         IN  disk = [layout |-> l,
                     home |-> [f \in File |->
                         IF f = Attrs THEN IF l = "unstated" THEN {} ELSE {<<here, "README.md">>}
                         ELSE IF f \in Page THEN {}
                         ELSE {<<here, IF old THEN "issue.md" ELSE "README.md">>}]]
  BY DEF Init
<1> DEFINE here == IF l = "root" THEN "root" ELSE "dotdir"
<1>2. here \in Layouts
  BY DEF Layouts
<1> HIDE DEF here
<1>3. disk.layout \in {"root", "dotdir", "unstated"}
  BY <1>1
<1>4. disk.home = [f \in File |->
                     IF f = Attrs THEN IF l = "unstated" THEN {} ELSE {<<here, "README.md">>}
                     ELSE IF f \in Page THEN {}
                     ELSE {<<here, IF old THEN "issue.md" ELSE "README.md">>}]
  BY <1>1 DEF here
<1>5. disk.home \in [File -> SUBSET Place]
  <2>1. \A b \in {"README.md", "issue.md"} : <<here, b>> \in Place
    BY <1>2 DEF Place
  <2>2. \A f \in File : disk.home[f] \subseteq Place
    BY <1>4, <2>1
  <2> QED BY <1>4, <2>2
<1>6. disk.home[Attrs] \subseteq Layouts \X {"README.md"}
  BY <1>2, <1>4, Files
<1>7. disk \in Trees
  <2>1. disk = [layout |-> disk.layout, home |-> disk.home]
    BY <1>1
  <2> QED BY <1>3, <1>5, <1>6, <2>1 DEF Trees
<1>8. /\ stage = disk /\ head = disk /\ foreign \in BOOLEAN /\ lock = Free
      /\ store = [p \in Process |-> Opened(disk)] /\ job = [p \in Process |-> Idle]
  BY DEF Init
<1>9. TypeOK
  BY <1>7, <1>8, OpenedStore DEF TypeOK
<1>10. HolderMigrates /\ Phases
  BY <1>8, IdleJob DEF HolderMigrates, Phases, Holding
<1> QED BY <1>9, <1>10 DEF LayoutInv

(* Every step keeps the invariant.                                         *)
LEMMA NextInv == LayoutInv /\ [Next]_vars => LayoutInv'
<1> SUFFICES ASSUME LayoutInv, [Next]_vars PROVE LayoutInv'
  OBVIOUS
<1>1. ASSUME NEW p \in Process, Open(p) \/ ReloadSchema(p) PROVE LayoutInv'
  BY <1>1, OpenStep
<1>2. ASSUME NEW p \in Process, SetNumbering(p) PROVE LayoutInv'
  BY <1>2, SetNumberingStep
<1>3. ASSUME NEW p \in Process, NEW f \in Issue \union Page, Write(p, f) PROVE LayoutInv'
  BY <1>3, WriteStep
<1>4. ASSUME NEW p \in Process, Migrate(p) \/ Lock(p) PROVE LayoutInv'
  BY <1>4, MigrateStep, LockStep
<1>5. ASSUME NEW p \in Process, MoveRoot(p) \/ RenameBody(p) \/ MoveAttrs(p) PROVE LayoutInv'
  BY <1>5, MoveRootStep, RenameBodyStep, MoveAttrsStep
<1>6. ASSUME NEW p \in Process, FlipConfig(p) \/ AddAll(p) \/ Commit(p) PROVE LayoutInv'
  BY <1>6, FlipConfigStep, AddAllStep, CommitStep
<1>7. ASSUME NEW p \in Process, Reopen(p) \/ Fails(p) \/ Dies(p) PROVE LayoutInv'
  BY <1>7, EndStep
<1>8. CASE Restore
  BY <1>8, RestoreStep
<1>9. CASE ClearLock
  BY <1>9, ClearLockStep
<1>10. CASE UNCHANGED vars
  <2>1. UNCHANGED <<disk, stage, head, foreign, lock, store, job>>
    BY <1>10 DEF vars, workspace
  <2>2. TypeOK'
    BY <2>1 DEF LayoutInv, TypeOK
  <2> QED BY <2>1, <2>2, JobsStay DEF LayoutInv
<1> QED BY <1>1, <1>2, <1>3, <1>4, <1>5, <1>6, <1>7, <1>8, <1>9, <1>10 DEF Next

(* The inductive invariant holds: every phase of a sound migration has     *)
(* done all that the phases before it owe.                                 *)
THEOREM Invariance == Spec => []LayoutInv
<1> QED BY InitInv, NextInv, PTL DEF Spec

(* Trees, lock, remembered layouts and jobs keep their types, for any      *)
(* processes and files (Layout, Store, migrate_layout).                    *)
THEOREM LayoutTypeCorrect == Spec => []TypeOK
<1>1. LayoutInv => TypeOK
  BY DEF LayoutInv
<1> QED BY <1>1, Invariance, PTL

(* A migration that found a clean tree under its lock and ends well has    *)
(* moved every file, and committed what it moved (migrate_layout).         *)
THEOREM MigrationsAreWhole == Spec => []MigrationIsWhole
<1>1. ASSUME LayoutInv PROVE MigrationIsWhole
  <2> SUFFICES ASSUME NEW p \in Process, job[p].at = "reopen", job[p].sound
               PROVE  /\ Clean /\ head.layout = job[p].to
                      /\ \A f \in Issue \union Page : head.home[f] \subseteq At(job[p].to)
                      /\ \A i \in Issue : head.home[i] # {<<job[p].to, "issue.md">>}
                      /\ In(head, Attrs, job[p].to)
    BY DEF MigrationIsWhole
  <2>1. AllAdded(job[p], disk, stage) /\ stage = head
    BY <1>1 DEF LayoutInv, Phases, Phase, Holding
  <2> QED BY <2>1 DEF AllAdded, Clean, Whole, Named
<1> QED BY <1>1, Invariance, PTL

-----------------------------------------------------------------------------
(* NUMBERS                                                                 *)

(* The lock is held by the session that is past it, and by no other.       *)
LockIsHeld ==
    \A s \in Session : call[s].at \in {"locked", "absorb"} <=> numberLock = s

(* A slot is empty until its id is minted.                                 *)
Minted == \A i \in Slot : i > born => numbers[i] = Gone

(* While absorbs succeed, the index shows HEAD but for what the holder of  *)
(* the lock has committed and not yet absorbed.                            *)
RowFollows ==
    \A i \in Slot :
       \/ numberRow[i] = numbers[i]
       \/ \E s \in Session : call[s].at = "absorb" /\ i \in DOMAIN call[s].plan

(* What a creating transaction has staged: new issues, numbered above all  *)
(* others in the order of their minting, or not at all; the cursor is the  *)
(* last number.                                                            *)
Appends(c, view, minted, mode) ==
    /\ \A i \in DOMAIN c.plan : i <= minted /\ view[i] = Gone
    /\ mode # "local" => \A i \in DOMAIN c.plan : c.plan[i] = Unnumbered
    /\ mode = "local" =>
          /\ \A i \in DOMAIN c.plan :
                /\ c.plan[i] \in 1..c.cursor
                /\ \A j \in Numbered(view) : view[j] < c.plan[i]
                /\ \A j \in DOMAIN c.plan : c.plan[i] = c.plan[j] => i = j
          /\ c.cursor # 0 => \A j \in Numbered(view) : view[j] < c.cursor

Creates ==
    \A s \in Session :
       call[s].at \in {"decided", "locked"} /\ call[s].op = "create" =>
          /\ Appends(call[s], numbers, born, known[s])
          /\ call[s].at = "decided" => call[s].plan = NothingYet /\ call[s].cursor = 0

(* What a session means to do before it has the lock is undisturbed as     *)
(* long as nobody has it; then a backfill is the one HEAD calls for.       *)
Undisturbed ==
    \A s \in Session : alone[s] =>
       /\ call[s].at = "decided" => numberLock = Nobody
       /\ call[s].at \in {"decided", "locked"} /\ call[s].op = "renumber"
             => call[s].plan = Backfill(numbers)

(* A deletion deletes.                                                     *)
Deletes ==
    \A s \in Session :
       call[s].at \in {"decided", "locked"} /\ call[s].op = "delete"
          => \A i \in DOMAIN call[s].plan : call[s].plan[i] = Gone

(* No issue has the highest number of all, from which the next is itself.  *)
BelowLimit == \A i \in Slot : numbers[i] # Limit

NumberingInv ==
    /\ NumberingTypeOK /\ LockIsHeld
    /\ ~failed => Minted /\ RowFollows /\ Creates /\ Undisturbed /\ Deletes

-----------------------------------------------------------------------------
(* The numbers of a view.                                                  *)

(* Slots and bounds are numbers.                                           *)
LEMMA Bounds ==
    /\ MaxIssues \in Nat /\ Batch \in Nat /\ Limit \in Nat /\ Limit >= 1
    /\ Slot \subseteq Nat /\ Number \subseteq Nat
    /\ \A n \in Number : 1 <= n /\ n <= Limit
    /\ \A n \in Nat : 1 <= n /\ n <= Limit => n \in Number
    /\ Gone \notin Number /\ Unnumbered \notin Number /\ Gone # Unnumbered
    /\ Nobody \notin Session
  BY NumberingAssumption DEF Slot, Number

(* A set of numbers that is not empty has a greatest (MAX in SQL).         *)
LEMMA Greatest ==
    ASSUME NEW S \in SUBSET Number, S # {}
    PROVE  Max(S) \in S /\ \A n \in S : n <= Max(S)
<1> DEFINE below == {ss \in Nat \X Nat : ss[1] < ss[2]}
<1> DEFINE left == {Limit - n : n \in S}
<1>1. \A n \in S : n \in Nat /\ n <= Limit /\ Limit - n \in Nat
  BY Bounds
<1>2. left \subseteq Nat /\ left # {}
  BY <1>1
<1>3. IsWellFoundedOn(below, Nat)
  BY NatLessThanWellFounded DEF OpToRel
<1> HIDE DEF below
<1>4. \E l \in left : \A k \in left : ~ (<<k, l>> \in below)
  BY <1>2, <1>3, WFMin
<1>5. PICK l \in left : \A k \in left : ~ (<<k, l>> \in below)
  BY <1>4
<1>6. \A k \in left : l <= k
  <2> SUFFICES ASSUME NEW k \in left PROVE l <= k
    OBVIOUS
  <2>1. k \in Nat /\ l \in Nat
    BY <1>2, <1>5
  <2>2. <<k, l>> \in Nat \X Nat /\ <<k, l>>[1] = k /\ <<k, l>>[2] = l
    BY <2>1
  <2>3. k < l => <<k, l>> \in below
    BY <2>2 DEF below
  <2> QED BY <1>5, <2>1, <2>3
<1>7. PICK m \in S : l = Limit - m
  BY <1>5
<1>8. \A n \in S : m >= n
  <2> SUFFICES ASSUME NEW n \in S PROVE m >= n
    OBVIOUS
  <2>1. Limit - m <= Limit - n
    BY <1>6, <1>7
  <2> QED BY <2>1, <1>1, Bounds
<1>9. Max(S) \in S /\ \A n \in S : Max(S) >= n
  BY <1>8 DEF Max
<1> QED BY <1>1, <1>9

(* max_number is at least every number, and is one of them or 0.           *)
LEMMA TopBounds ==
    ASSUME NEW view \in [Slot -> Cell]
    PROVE  /\ Top(view) \in 0..Limit
           /\ \A j \in Numbered(view) : view[j] \in Number /\ view[j] <= Top(view)
           /\ Top(view) = 0 \/ \E j \in Numbered(view) : view[j] = Top(view)
<1> DEFINE S == {view[i] : i \in Numbered(view)}
<1>1. S \in SUBSET Number
  BY DEF Numbered
<1>2. CASE Numbered(view) = {}
  BY <1>2, Bounds DEF Top
<1>3. CASE Numbered(view) # {}
  <2>1. S # {}
    BY <1>3
  <2>2. Top(view) = Max(S)
    BY <1>3 DEF Top
  <2> HIDE DEF S
  <2>3. Max(S) \in S /\ \A n \in S : n <= Max(S)
    BY <1>1, <2>1, Greatest
  <2>4. Max(S) \in Number
    BY <1>1, <2>3
  <2>5. \E j \in Numbered(view) : view[j] = Top(view)
    BY <2>2, <2>3 DEF S
  <2>6. \A j \in Numbered(view) : view[j] \in Number /\ view[j] <= Top(view)
    BY <1>1, <2>2, <2>3 DEF S
  <2>7. Top(view) \in 0..Limit
    BY <2>2, <2>4, NumberingAssumption DEF Number
  <2> QED BY <2>5, <2>6, <2>7
<1> QED BY <1>2, <1>3

(* A number some more is a number, the limit if need be.                   *)
LEMMA PlusIs ==
    ASSUME NEW n \in 0..Limit, NEW k \in Nat, k >= 1
    PROVE  /\ Plus(n, k) \in Number
           /\ Plus(n, k) = n + k \/ Plus(n, k) = Limit
           /\ n # Limit => Plus(n, k) > n
           /\ n # Limit => Plus(n, 1) = n + 1
  BY Bounds DEF Plus, Number

(* The issues without a number are counted in the order of their minting.  *)
LEMMA CountIs ==
    ASSUME NEW T \in SUBSET Slot
    PROVE  /\ \A i \in T : /\ Cardinality({j \in T : j <= i}) \in Nat
                          /\ Cardinality({j \in T : j <= i}) >= 1
           /\ \A i, j \in T : Cardinality({k \in T : k <= i}) = Cardinality({k \in T : k <= j})
                             => i = j
<1> DEFINE upto(i) == {j \in T : j <= i}
<1>1. IsFiniteSet(Slot)
  BY FS_Interval, Bounds DEF Slot
<1>2. IsFiniteSet(T)
  BY <1>1, FS_Subset
<1>3. \A i \in T : i \in Nat
  BY Bounds
<1>4. ASSUME NEW i \in T
      PROVE  /\ IsFiniteSet(upto(i)) /\ Cardinality(upto(i)) \in Nat
             /\ i \in upto(i) /\ Cardinality(upto(i)) >= 1
  <2>1. upto(i) \in SUBSET T /\ i \in upto(i)
    BY <1>3
  <2>2. IsFiniteSet(upto(i))
    BY <1>2, <2>1, FS_Subset
  <2>3. Cardinality(upto(i)) \in Nat
    BY <2>2, FS_CardinalityType
  <2>4. Cardinality(upto(i)) # 0
    BY <2>1, <2>2, FS_EmptySet
  <2> QED BY <2>1, <2>2, <2>3, <2>4
<1>5. ASSUME NEW i \in T, NEW j \in T, i < j
      PROVE  Cardinality(upto(i)) # Cardinality(upto(j))
  <2>1. upto(i) \in SUBSET upto(j)
    BY <1>3, <1>5
  <2>2. j \in upto(j) /\ j \notin upto(i)
    BY <1>3, <1>4, <1>5
  <2>3. upto(i) # upto(j)
    BY <2>2
  <2> HIDE DEF upto
  <2>4. IsFiniteSet(upto(j))
    BY <1>4
  <2>5. Cardinality(upto(j)) = Cardinality(upto(i)) => upto(j) = upto(i)
    BY <2>1, <2>4, FS_Subset
  <2> QED BY <2>3, <2>5
<1>6. \A i, j \in T : i < j \/ j < i \/ i = j
  BY <1>3
<1>7. \A i, j \in T : Cardinality(upto(i)) = Cardinality(upto(j)) => i = j
  BY <1>5, <1>6
<1> QED BY <1>4, <1>7

(* What `renumber' gives out: numbers above all in use and short of the    *)
(* limit all different.                                                    *)
LEMMA BackfillIs ==
    ASSUME NEW view \in [Slot -> Cell]
    PROVE  /\ DOMAIN Backfill(view) = Targets(view)
           /\ Backfill(view) \in [Targets(view) -> Number]
           /\ \A i \in Targets(view), j \in Numbered(view) :
                 view[j] # Limit => view[j] < Backfill(view)[i]
           /\ \A i, j \in Targets(view) :
                 Backfill(view)[i] = Backfill(view)[j] /\ Backfill(view)[i] # Limit => i = j
<1> DEFINE T == Targets(view)
           count(i) == Cardinality({j \in T : j <= i})
<1>1. T \in SUBSET Slot
  BY DEF Targets, Living
<1>2. Backfill(view) = [i \in T |-> Plus(Top(view), count(i))]
  BY DEF Backfill
<1> HIDE DEF T
<1>3. /\ \A i \in T : count(i) \in Nat /\ count(i) >= 1
      /\ \A i, j \in T : count(i) = count(j) => i = j
  BY <1>1, CountIs
<1> HIDE DEF count
<1>4. Top(view) \in 0..Limit /\ Top(view) \in Nat
  BY TopBounds, Bounds
<1>5. \A i \in T : /\ Plus(Top(view), count(i)) \in Number
                   /\ Plus(Top(view), count(i)) = Top(view) + count(i)
                      \/ Plus(Top(view), count(i)) = Limit
                   /\ Top(view) # Limit => Plus(Top(view), count(i)) > Top(view)
  BY <1>3, <1>4, PlusIs
<1>6. Backfill(view) \in [T -> Number]
  BY <1>2, <1>5
<1>7. ASSUME NEW i \in T, NEW j \in Numbered(view), view[j] # Limit
      PROVE  view[j] < Backfill(view)[i]
  <2>1. view[j] \in Number /\ view[j] <= Top(view)
    BY TopBounds
  <2>2. Backfill(view)[i] = Plus(Top(view), count(i))
    BY <1>2
  <2>6. view[j] \in Nat /\ view[j] <= Limit /\ Limit \in Nat
    BY <2>1, Bounds
  <2>3. CASE Top(view) # Limit
    <3>1. Plus(Top(view), count(i)) > Top(view) /\ Plus(Top(view), count(i)) \in Nat
      BY <1>5, <2>3, Bounds
    <3> QED BY <1>4, <2>1, <2>2, <2>6, <3>1
  <2>4. CASE Top(view) = Limit
    <3>1. Plus(Top(view), count(i)) = Limit
      BY <1>3, <2>4, Bounds DEF Plus
    <3> QED BY <1>7, <2>2, <2>6, <3>1
  <2> QED BY <2>3, <2>4
<1>8. ASSUME NEW i \in T, NEW j \in T,
             Backfill(view)[i] = Backfill(view)[j], Backfill(view)[i] # Limit
      PROVE  i = j
  <2>1. Plus(Top(view), count(i)) = Plus(Top(view), count(j)) /\ Plus(Top(view), count(i)) # Limit
    BY <1>2, <1>8
  <2>2. Top(view) + count(i) = Top(view) + count(j)
    BY <1>5, <2>1
  <2>3. count(i) = count(j)
    BY <1>3, <1>4, <2>2
  <2> QED BY <1>3, <2>3
<1> QED BY <1>2, <1>6, <1>7, <1>8 DEF T

-----------------------------------------------------------------------------
(* Calls.                                                                  *)

(* A plan says of some issues what becomes of their numbers.               *)
LEMMA PlanIs ==
    /\ \A plan \in Plans : DOMAIN plan \subseteq Slot /\ \A i \in DOMAIN plan : plan[i] \in Cell
    /\ \A S \in SUBSET Slot : \A plan \in [S -> Cell] : plan \in Plans
    /\ NothingYet \in Plans /\ DOMAIN NothingYet = {}
<1>1. NothingYet \in [{} -> Cell] /\ DOMAIN NothingYet = {}
  BY DEF NothingYet
<1>2. \A S \in SUBSET Slot : \A plan \in [S -> Cell] : plan \in Plans
  BY DEF Plans
<1>3. \A plan \in Plans : DOMAIN plan \subseteq Slot /\ \A i \in DOMAIN plan : plan[i] \in Cell
  BY DEF Plans
<1> QED BY <1>1, <1>2, <1>3

(* The parts of a call.                                                    *)
LEMMA CallFields ==
    ASSUME NEW c \in Jobs, c.at # "idle"
    PROVE  /\ c.at \in {"decided", "locked", "absorb"} /\ c.op \in Operations
           /\ c.plan \in Plans /\ c.cursor \in Number \cup {0} /\ c.policy \in Policy
           /\ c \in [at : {"decided", "locked", "absorb"}, op : Operations, plan : Plans,
                     cursor : Number \cup {0}, policy : Policy]
  BY DEF Jobs, NoCall

(* A call that goes on is the same call elsewhere.                         *)
LEMMA CallAt ==
    ASSUME NEW c \in Jobs, c.at # "idle", NEW at \in {"decided", "locked", "absorb"}
    PROVE  LET d == [c EXCEPT !.at = at]
           IN  /\ d \in Jobs /\ d.at = at /\ d.op = c.op /\ d.plan = c.plan
               /\ d.cursor = c.cursor /\ d.policy = c.policy
<1>1. c \in [at : {"decided", "locked", "absorb"}, op : Operations, plan : Plans,
             cursor : Number \cup {0}, policy : Policy]
  BY CallFields
<1> QED BY <1>1 DEF Jobs

(* A new issue is staged under a number or none (create_issue).            *)
Staged(c, i, n) ==
    [c EXCEPT !.plan = [j \in DOMAIN c.plan \cup {i} |-> IF j = i THEN n ELSE c.plan[j]],
              !.cursor = IF n = Unnumbered THEN 0 ELSE n]

(* Staging adds the issue to the plan and moves the cursor.                *)
LEMMA StagedCall ==
    ASSUME NEW c \in Jobs, c.at # "idle", NEW i \in Slot, NEW n \in Number \cup {Unnumbered}
    PROVE  /\ Staged(c, i, n) \in Jobs
           /\ Staged(c, i, n).at = c.at /\ Staged(c, i, n).op = c.op
           /\ Staged(c, i, n).cursor = IF n = Unnumbered THEN 0 ELSE n
           /\ DOMAIN Staged(c, i, n).plan = DOMAIN c.plan \cup {i}
           /\ Staged(c, i, n).plan[i] = n
           /\ \A j \in DOMAIN c.plan : j # i => Staged(c, i, n).plan[j] = c.plan[j]
<1> DEFINE plan == [j \in DOMAIN c.plan \cup {i} |-> IF j = i THEN n ELSE c.plan[j]]
           cursor == IF n = Unnumbered THEN 0 ELSE n
<1>1. c \in [at : {"decided", "locked", "absorb"}, op : Operations, plan : Plans,
             cursor : Number \cup {0}, policy : Policy]
  BY CallFields
<1>2. DOMAIN c.plan \subseteq Slot /\ \A j \in DOMAIN c.plan : c.plan[j] \in Cell
  BY <1>1, PlanIs
<1>3. plan \in [DOMAIN c.plan \cup {i} -> Cell]
  BY <1>2 DEF Cell
<1>4. plan \in Plans
  BY <1>2, <1>3, PlanIs
<1>5. DOMAIN plan = DOMAIN c.plan \cup {i} /\ plan[i] = n
      /\ \A j \in DOMAIN c.plan : j # i => plan[j] = c.plan[j]
  OBVIOUS
<1>6. cursor \in Number \cup {0}
  OBVIOUS
<1>7. Staged(c, i, n) = [c EXCEPT !.plan = plan, !.cursor = cursor]
  BY DEF Staged
<1> HIDE DEF plan
<1>8. /\ Staged(c, i, n).at = c.at /\ Staged(c, i, n).op = c.op
      /\ Staged(c, i, n).cursor = cursor /\ Staged(c, i, n).plan = plan
  BY <1>1, <1>7
<1>9. Staged(c, i, n) \in Jobs
  BY <1>1, <1>4, <1>6, <1>7 DEF Jobs
<1> QED BY <1>5, <1>8, <1>9

(* A session's next call leaves the others where they are.                 *)
LEMMA NextCall ==
    ASSUME call \in [Session -> Jobs], NEW s \in Session, NEW c \in Jobs,
           call' = [call EXCEPT ![s] = c]
    PROVE  /\ call' \in [Session -> Jobs] /\ call'[s] = c
           /\ \A t \in Session : t # s => call'[t] = call[t]
  OBVIOUS

(* Nobody but the session that ends, and what it ends as.                  *)
LEMMA EndedCall ==
    ASSUME NumberingTypeOK, NEW s \in Session, CallEnds(s)
    PROVE  /\ call' \in [Session -> Jobs] /\ call'[s] = NoCall /\ call'[s].at = "idle"
           /\ \A t \in Session : t # s => call'[t] = call[t] /\ alone'[t] = alone[t]
           /\ alone' \in [Session -> BOOLEAN]
<1>1. NoCall \in Jobs /\ NoCall.at = "idle"
  BY DEF Jobs, NoCall
<1>2. call \in [Session -> Jobs] /\ alone \in [Session -> BOOLEAN]
  BY DEF NumberingTypeOK
<1>3. call' = [call EXCEPT ![s] = NoCall] /\ alone' = [alone EXCEPT ![s] = FALSE]
  BY DEF CallEnds
<1>4. /\ call' \in [Session -> Jobs] /\ call'[s] = NoCall
      /\ \A t \in Session : t # s => call'[t] = call[t]
  BY <1>1, <1>2, <1>3, NextCall
<1> QED BY <1>1, <1>2, <1>3, <1>4

-----------------------------------------------------------------------------
(* Types.                                                                  *)

(* A call that decides begins with its plan, an empty cursor and no lock.  *)
LEMMA DecideCall ==
    ASSUME NumberingTypeOK, NEW s \in Session, NEW op \in Operations, NEW plan \in Plans,
           NEW p \in Policy, Decide(s, op, plan, p)
    PROVE  /\ NumberingTypeOK' /\ call[s].at = "idle"
           /\ call'[s].at = "decided" /\ call'[s].op = op /\ call'[s].plan = plan
           /\ call'[s].cursor = 0
           /\ \A t \in Session : t # s => call'[t] = call[t] /\ alone'[t] = alone[t]
           /\ alone'[s] = (numberLock = Nobody)
<1> DEFINE c == [at |-> "decided", op |-> op, plan |-> plan, cursor |-> 0, policy |-> p]
<1>1. c \in Jobs /\ c.at = "decided" /\ c.op = op /\ c.plan = plan /\ c.cursor = 0
  BY DEF Jobs
<1>2. call' = [call EXCEPT ![s] = c] /\ call[s] = NoCall
  BY DEF Decide
<1> HIDE DEF c
<1>3. call \in [Session -> Jobs] /\ alone \in [Session -> BOOLEAN]
  BY DEF NumberingTypeOK
<1>4. /\ call' \in [Session -> Jobs] /\ call'[s] = c
      /\ \A t \in Session : t # s => call'[t] = call[t]
  BY <1>1, <1>2, <1>3, NextCall
<1>5. alone' = [alone EXCEPT ![s] = numberLock = Nobody]
  BY DEF Decide
<1>6. alone' \in [Session -> BOOLEAN] /\ alone'[s] = (numberLock = Nobody)
  BY <1>3, <1>5
<1>7. \A t \in Session : t # s => alone'[t] = alone[t]
  BY <1>3, <1>5
<1>8. NumberingTypeOK'
  BY <1>4, <1>6 DEF NumberingTypeOK, Decide
<1>9. call[s].at = "idle"
  BY <1>2 DEF NoCall
<1> QED BY <1>1, <1>4, <1>6, <1>7, <1>8, <1>9

(* The plans of the calls.                                                 *)
LEMMA PlansMade ==
    ASSUME NumberingTypeOK
    PROVE  /\ Backfill(numberRow) \in Plans
           /\ \A i \in Slot : [j \in {i} |-> Gone] \in Plans
<1>1. Targets(numberRow) \in SUBSET Slot
  BY DEF Targets, Living
<1>2. Backfill(numberRow) \in [Targets(numberRow) -> Number]
  BY BackfillIs DEF NumberingTypeOK
<1>3. Backfill(numberRow) \in [Targets(numberRow) -> Cell]
  BY <1>2 DEF Cell
<1>4. \A i \in Slot : [j \in {i} |-> Gone] \in [{i} -> Cell]
  BY DEF Cell
<1> QED BY <1>1, <1>3, <1>4, PlanIs

(* assign_number gives a number, or none.                                  *)
LEMMA AssignedIs ==
    ASSUME NumberingTypeOK, NEW s \in Session, call[s].at # "idle", call[s].cursor < Limit
    PROVE  Assigned(s) \in Number \cup {Unnumbered}
<1>1. call[s].cursor \in Number \cup {0}
  BY CallFields DEF NumberingTypeOK
<1>2. Top(numberRow) \in 0..Limit
  BY TopBounds DEF NumberingTypeOK
<1>3. Plus(Top(numberRow), 1) \in Number
  BY <1>2, PlusIs
<1>4. call[s].cursor # 0 => call[s].cursor + 1 \in Number
  BY <1>1, NumberingAssumption DEF Number
<1> QED BY <1>3, <1>4 DEF Assigned

(* A session takes the lock.                                               *)
LEMMA TakeLockCall ==
    ASSUME NumberingTypeOK, NEW s \in Session, TakeLock(s)
    PROVE  /\ NumberingTypeOK'
           /\ call'[s].at = "locked" /\ call'[s].op = call[s].op /\ call'[s].plan = call[s].plan
           /\ call'[s].cursor = call[s].cursor
           /\ \A t \in Session : t # s => call'[t] = call[t] /\ ~alone'[t]
           /\ alone'[s] = alone[s]
<1>1. call \in [Session -> Jobs] /\ call[s] \in Jobs /\ call[s].at # "idle"
      /\ alone \in [Session -> BOOLEAN]
  BY DEF NumberingTypeOK, TakeLock
<1> DEFINE c == [call[s] EXCEPT !.at = "locked"]
<1>2. /\ c \in Jobs /\ c.at = "locked" /\ c.op = call[s].op /\ c.plan = call[s].plan
      /\ c.cursor = call[s].cursor
  BY <1>1, CallAt
<1>3. call' = [call EXCEPT ![s] = c]
  BY <1>1 DEF TakeLock
<1> HIDE DEF c
<1>4. /\ call' \in [Session -> Jobs] /\ call'[s] = c
      /\ \A t \in Session : t # s => call'[t] = call[t]
  BY <1>1, <1>2, <1>3, NextCall
<1>5. alone' = [t \in Session |-> t = s /\ alone[s]]
  BY DEF TakeLock
<1>6. alone' \in [Session -> BOOLEAN] /\ alone'[s] = alone[s]
      /\ \A t \in Session : t # s => ~alone'[t]
  BY <1>1, <1>5
<1>7. NumberingTypeOK'
  BY <1>4, <1>6 DEF NumberingTypeOK, TakeLock
<1> QED BY <1>2, <1>4, <1>6, <1>7

(* A creation stages one more issue.                                       *)
LEMMA StageCall ==
    ASSUME NumberingTypeOK, NEW s \in Session, StageCreate(s)
    PROVE  /\ NumberingTypeOK' /\ born + 1 \in Slot
           /\ call'[s] = Staged(call[s], born + 1, Assigned(s))
           /\ \A t \in Session : t # s => call'[t] = call[t]
           /\ Assigned(s) \in Number \cup {Unnumbered}
<1>1. call \in [Session -> Jobs] /\ call[s] \in Jobs /\ call[s].at # "idle"
  BY DEF NumberingTypeOK, StageCreate
<1>2. Assigned(s) \in Number \cup {Unnumbered}
  BY <1>1, AssignedIs DEF StageCreate
<1>3. born \in 0..MaxIssues /\ born < MaxIssues /\ born' = born + 1
  BY DEF NumberingTypeOK, StageCreate
<1>4. born + 1 \in Slot /\ born' \in 0..MaxIssues
  BY <1>3, Bounds DEF Slot
<1> DEFINE n == Assigned(s)
           plan == [i \in DOMAIN call[s].plan \cup {born + 1} |->
                       IF i = born + 1 THEN n ELSE call[s].plan[i]]
<1>5. call' = [call EXCEPT ![s].plan = plan, ![s].cursor = IF n = Unnumbered THEN 0 ELSE n]
  BY <1>3 DEF StageCreate
<1>6. call' = [call EXCEPT ![s] = [call[s] EXCEPT !.plan = plan,
                                                  !.cursor = IF n = Unnumbered THEN 0 ELSE n]]
  BY <1>1, <1>5
<1>7. call' = [call EXCEPT ![s] = Staged(call[s], born + 1, n)]
  BY <1>6 DEF Staged
<1>8. Staged(call[s], born + 1, n) \in Jobs
  BY <1>1, <1>2, <1>4, StagedCall
<1> HIDE DEF plan, n
<1>9. /\ call' \in [Session -> Jobs] /\ call'[s] = Staged(call[s], born + 1, n)
      /\ \A t \in Session : t # s => call'[t] = call[t]
  BY <1>1, <1>7, <1>8, NextCall
<1>10. NumberingTypeOK'
  BY <1>4, <1>9 DEF NumberingTypeOK, StageCreate
<1> QED BY <1>2, <1>4, <1>9, <1>10 DEF n

(* A commit writes the plan.                                               *)
LEMMA CommitCall ==
    ASSUME NumberingTypeOK, NEW s \in Session, CommitNumbers(s)
    PROVE  /\ NumberingTypeOK'
           /\ call'[s].at = "absorb" /\ call'[s].plan = call[s].plan
           /\ \A t \in Session : t # s => call'[t] = call[t]
           /\ DOMAIN call[s].plan \subseteq Slot
           /\ \A i \in Slot :
                 numbers'[i] = IF i \in DOMAIN call[s].plan THEN call[s].plan[i] ELSE numbers[i]
<1>1. call \in [Session -> Jobs] /\ call[s] \in Jobs /\ call[s].at # "idle"
  BY DEF NumberingTypeOK, CommitNumbers
<1> DEFINE c == [call[s] EXCEPT !.at = "absorb"]
<1>2. c \in Jobs /\ c.at = "absorb" /\ c.plan = call[s].plan
  BY <1>1, CallAt
<1>3. call' = [call EXCEPT ![s] = c]
  BY <1>1 DEF CommitNumbers
<1> HIDE DEF c
<1>4. /\ call' \in [Session -> Jobs] /\ call'[s] = c
      /\ \A t \in Session : t # s => call'[t] = call[t]
  BY <1>1, <1>2, <1>3, NextCall
<1>5. DOMAIN call[s].plan \subseteq Slot /\ \A i \in DOMAIN call[s].plan : call[s].plan[i] \in Cell
  BY <1>1, CallFields, PlanIs
<1>6. numbers' = [i \in Slot |-> IF i \in DOMAIN call[s].plan THEN call[s].plan[i] ELSE numbers[i]]
  BY DEF CommitNumbers
<1>7. numbers' \in [Slot -> Cell]
  BY <1>5, <1>6 DEF NumberingTypeOK
<1>8. NumberingTypeOK'
  BY <1>4, <1>7 DEF NumberingTypeOK, CommitNumbers
<1> QED BY <1>2, <1>4, <1>5, <1>6, <1>8

(* Every step keeps the types.                                             *)
LEMMA NextType == NumberingTypeOK /\ [NumberingNext]_numberVars => NumberingTypeOK'
<1> SUFFICES ASSUME NumberingTypeOK, [NumberingNext]_numberVars PROVE NumberingTypeOK'
  OBVIOUS
<1>1. /\ \A t \in Session : known[t] \in Policy
      /\ {"create", "delete", "renumber", "policy"} = Operations
  BY DEF NumberingTypeOK, Operations
<1>2. ASSUME NEW s \in Session, CreateIssue(s) PROVE NumberingTypeOK'
  BY <1>1, <1>2, DecideCall, PlanIs DEF CreateIssue
<1>3. ASSUME NEW s \in Session, NEW i \in Slot, DeleteIssue(s, i) PROVE NumberingTypeOK'
  BY <1>1, <1>3, DecideCall, PlansMade DEF DeleteIssue
<1>4. ASSUME NEW s \in Session, Renumber(s) PROVE NumberingTypeOK'
  BY <1>1, <1>4, DecideCall, PlansMade DEF Renumber
<1>5. ASSUME NEW s \in Session, NEW p \in Policy, SetPolicy(s, p) PROVE NumberingTypeOK'
  BY <1>1, <1>5, DecideCall, PlanIs DEF SetPolicy
<1>6. ASSUME NEW s \in Session, TakeLock(s) PROVE NumberingTypeOK'
  BY <1>6, TakeLockCall
<1>7. ASSUME NEW s \in Session, Busy(s) PROVE NumberingTypeOK'
  BY <1>7, EndedCall DEF Busy, CallGivesUp, NumberingTypeOK
<1>8. ASSUME NEW s \in Session, StageCreate(s) PROVE NumberingTypeOK'
  BY <1>8, StageCall
<1>9. ASSUME NEW s \in Session, CommitNumbers(s) PROVE NumberingTypeOK'
  BY <1>9, CommitCall
<1>10. ASSUME NEW s \in Session, Abort(s) PROVE NumberingTypeOK'
  BY <1>10, EndedCall DEF Abort, CallGivesUp, NumberingTypeOK
<1>11. ASSUME NEW s \in Session, CommitPolicy(s) PROVE NumberingTypeOK'
  <2>1. call[s] \in Jobs /\ call[s].at # "idle"
    BY <1>11 DEF NumberingTypeOK, CommitPolicy
  <2>2. policy' \in Policy
    BY <1>11, <2>1, CallFields DEF CommitPolicy
  <2>3. known' \in [Session -> Policy]
    BY <1>11, <2>2 DEF CommitPolicy, NumberingTypeOK
  <2> QED BY <1>11, <2>2, <2>3, EndedCall DEF CommitPolicy, NumberingTypeOK
<1>12. ASSUME NEW s \in Session, Absorb(s) PROVE NumberingTypeOK'
  <2>1. numberRow' \in [Slot -> Cell]
    BY <1>12 DEF Absorb, NumberingTypeOK
  <2> QED BY <1>12, <2>1, EndedCall DEF Absorb, NumberingTypeOK
<1>13. ASSUME NEW s \in Session, AbsorbFails(s) PROVE NumberingTypeOK'
  BY <1>13, EndedCall DEF AbsorbFails, CallGivesUp, NumberingTypeOK
<1>14. ASSUME NEW s \in Session, Refresh(s) PROVE NumberingTypeOK'
  BY <1>14 DEF Refresh, NumberingTypeOK
<1>15. CASE UNCHANGED numberVars
  BY <1>15 DEF numberVars, NumberingTypeOK
<1> QED
  BY <1>2, <1>3, <1>4, <1>5, <1>6, <1>7, <1>8, <1>9, <1>10, <1>11, <1>12, <1>13, <1>14, <1>15
     DEF NumberingNext

-----------------------------------------------------------------------------
(* What the invariant says of a state.                                     *)

(* When nobody is about to absorb, the index shows HEAD.                   *)
LEMMA RowIs ==
    ASSUME NumberingTypeOK, RowFollows, \A s \in Session : call[s].at # "absorb"
    PROVE  numberRow = numbers
<1>1. \A i \in Slot : numberRow[i] = numbers[i]
  BY DEF RowFollows
<1> QED BY <1>1 DEF NumberingTypeOK

(* The holder of the lock is alone past it.                                *)
LEMMA OneHolder ==
    ASSUME LockIsHeld, NEW s \in Session, call[s].at \in {"locked", "absorb"}
    PROVE  /\ numberLock = s /\ numberLock # Nobody
           /\ \A t \in Session : t # s => call[t].at \notin {"locked", "absorb"}
  BY Bounds DEF LockIsHeld

(* Nothing staged appends.                                                 *)
LEMMA NothingAppends ==
    ASSUME NEW c, c.plan = NothingYet, c.cursor = 0, NEW view, NEW minted, NEW mode
    PROVE  Appends(c, view, minted, mode)
  BY PlanIs DEF Appends

(* Appends sees of a call its plan and its cursor.                         *)
LEMMA SameAppends ==
    ASSUME NEW c, NEW d, d.plan = c.plan, d.cursor = c.cursor, NEW view, NEW minted, NEW mode,
           Appends(c, view, minted, mode)
    PROVE  Appends(d, view, minted, mode)
  BY DEF Appends

-----------------------------------------------------------------------------
(* Steps.                                                                  *)

(* A call that decides keeps the invariant: a backfill is decided on HEAD  *)
(* if nobody writes.                                                       *)
LEMMA DecideStep ==
    ASSUME NumberingInv, NEW s \in Session, NEW op \in Operations, NEW plan \in Plans,
           NEW p \in Policy, Decide(s, op, plan, p),
           op = "create" => plan = NothingYet,
           op = "renumber" => plan = Backfill(numberRow),
           op = "delete" => \A i \in DOMAIN plan : plan[i] = Gone
    PROVE  NumberingInv'
<1>1. NumberingTypeOK /\ LockIsHeld
  BY DEF NumberingInv
<1>2. /\ NumberingTypeOK' /\ call[s].at = "idle"
      /\ call'[s].at = "decided" /\ call'[s].op = op /\ call'[s].plan = plan
      /\ call'[s].cursor = 0
      /\ \A t \in Session : t # s => call'[t] = call[t] /\ alone'[t] = alone[t]
      /\ alone'[s] = (numberLock = Nobody)
  BY <1>1, DecideCall
<1>3. UNCHANGED <<numbers, numberRow, born, known, numberLock, failed>>
  BY DEF Decide
<1>4. LockIsHeld'
  BY <1>1, <1>2, <1>3 DEF LockIsHeld
<1>5. ASSUME ~failed
      PROVE  Minted' /\ RowFollows' /\ Creates' /\ Undisturbed' /\ Deletes'
  <2>1. Minted /\ RowFollows /\ Creates /\ Undisturbed /\ Deletes
    BY <1>5 DEF NumberingInv
  <2>2. Minted'
    BY <1>3, <2>1 DEF Minted
  <2>3. RowFollows'
    BY <1>2, <1>3, <2>1 DEF RowFollows
  <2>4. Creates'
    <3> SUFFICES ASSUME NEW t \in Session, call'[t].at \in {"decided", "locked"},
                        call'[t].op = "create"
                 PROVE  /\ Appends(call'[t], numbers', born', known'[t])
                        /\ call'[t].at = "decided"
                              => call'[t].plan = NothingYet /\ call'[t].cursor = 0
      BY DEF Creates
    <3>1. CASE t = s
      BY <1>2, <3>1, NothingAppends
    <3>2. CASE t # s
      BY <1>2, <1>3, <2>1, <3>2 DEF Creates
    <3> QED BY <3>1, <3>2
  <2>5. Undisturbed'
    <3> SUFFICES ASSUME NEW t \in Session, alone'[t]
                 PROVE  /\ call'[t].at = "decided" => numberLock' = Nobody
                        /\ call'[t].at \in {"decided", "locked"} /\ call'[t].op = "renumber"
                              => call'[t].plan = Backfill(numbers')
      BY DEF Undisturbed
    <3>1. CASE t = s
      <4>1. numberLock = Nobody
        BY <1>2, <3>1
      <4>2. \A u \in Session : call[u].at # "absorb"
        BY <1>1, <4>1, Bounds DEF LockIsHeld
      <4>3. numberRow = numbers
        BY <1>1, <2>1, <4>2, RowIs
      <4> QED BY <1>2, <1>3, <3>1, <4>1, <4>3
    <3>2. CASE t # s
      BY <1>2, <1>3, <2>1, <3>2 DEF Undisturbed
    <3> QED BY <3>1, <3>2
  <2>6. Deletes'
    BY <1>2, <2>1 DEF Deletes
  <2> QED BY <2>2, <2>3, <2>4, <2>5, <2>6
<1> QED BY <1>2, <1>3, <1>4, <1>5 DEF NumberingInv

(* A session that takes the lock keeps the invariant: from here on nobody  *)
(* else is undisturbed.                                                    *)
LEMMA TakeLockStep ==
    ASSUME NumberingInv, NEW s \in Session, TakeLock(s)
    PROVE  NumberingInv'
<1>1. NumberingTypeOK /\ LockIsHeld
  BY DEF NumberingInv
<1>2. /\ NumberingTypeOK'
      /\ call'[s].at = "locked" /\ call'[s].op = call[s].op /\ call'[s].plan = call[s].plan
      /\ call'[s].cursor = call[s].cursor
      /\ \A t \in Session : t # s => call'[t] = call[t] /\ ~alone'[t]
      /\ alone'[s] = alone[s]
  BY <1>1, TakeLockCall
<1>3. UNCHANGED <<numbers, numberRow, born, known, failed>> /\ numberLock' = s
      /\ numberLock = Nobody /\ call[s].at = "decided"
  BY DEF TakeLock
<1>4. \A t \in Session : call[t].at \notin {"locked", "absorb"}
  BY <1>1, <1>3, Bounds DEF LockIsHeld
<1>5. LockIsHeld'
  BY <1>2, <1>3, <1>4 DEF LockIsHeld
<1>6. ASSUME ~failed
      PROVE  Minted' /\ RowFollows' /\ Creates' /\ Undisturbed' /\ Deletes'
  <2>1. Minted /\ RowFollows /\ Creates /\ Undisturbed /\ Deletes
    BY <1>6 DEF NumberingInv
  <2>2. Minted'
    BY <1>3, <2>1 DEF Minted
  <2>3. RowFollows'
    BY <1>3, <1>4, <2>1 DEF RowFollows
  <2>4. Creates'
    <3> SUFFICES ASSUME NEW t \in Session, call'[t].at \in {"decided", "locked"},
                        call'[t].op = "create"
                 PROVE  /\ Appends(call'[t], numbers', born', known'[t])
                        /\ call'[t].at = "decided"
                              => call'[t].plan = NothingYet /\ call'[t].cursor = 0
      BY DEF Creates
    <3>1. CASE t = s
      <4>1. Appends(call[s], numbers, born, known[s])
        BY <1>2, <1>3, <2>1, <3>1 DEF Creates
      <4> QED BY <1>2, <1>3, <3>1, <4>1, SameAppends
    <3>2. CASE t # s
      BY <1>2, <1>3, <2>1, <3>2 DEF Creates
    <3> QED BY <3>1, <3>2
  <2>5. Undisturbed'
    BY <1>2, <1>3, <2>1 DEF Undisturbed
  <2>6. Deletes'
    BY <1>2, <1>3, <2>1 DEF Deletes
  <2> QED BY <2>2, <2>3, <2>4, <2>5, <2>6
<1> QED BY <1>2, <1>3, <1>5, <1>6 DEF NumberingInv

(* A call that ends before it commits, or is told that the lock is taken,  *)
(* keeps the invariant.                                                    *)
LEMMA NumberEndStep ==
    ASSUME NumberingInv, NEW s \in Session, CallEnds(s), NumberingTypeOK',
           \/ call[s].at = "decided" /\ numberLock' = numberLock
           \/ call[s].at = "locked" /\ numberLock' = Nobody,
           UNCHANGED <<numbers, numberRow, born, failed>>,
           \A t \in Session : t # s => known'[t] = known[t]
    PROVE  NumberingInv'
<1>1. NumberingTypeOK /\ LockIsHeld
  BY DEF NumberingInv
<1>2. /\ call'[s].at = "idle"
      /\ \A t \in Session : t # s => call'[t] = call[t] /\ alone'[t] = alone[t]
  BY <1>1, EndedCall
<1>3. \A t \in Session : t # s /\ call[t].at \in {"locked", "absorb"} => numberLock' = numberLock
  BY <1>1, OneHolder
<1>4. LockIsHeld'
  BY <1>1, <1>2, <1>3, Bounds DEF LockIsHeld
<1>5. ASSUME ~failed
      PROVE  Minted' /\ RowFollows' /\ Creates' /\ Undisturbed' /\ Deletes'
  <2>1. Minted /\ RowFollows /\ Creates /\ Undisturbed /\ Deletes
    BY <1>5 DEF NumberingInv
  <2>2. Minted'
    BY <2>1 DEF Minted
  <2>3. RowFollows'
    BY <1>2, <2>1 DEF RowFollows
  <2>4. Creates'
    BY <1>2, <2>1 DEF Creates
  <2>5. Undisturbed'
    BY <1>2, <2>1 DEF Undisturbed
  <2>6. Deletes'
    BY <1>2, <2>1 DEF Deletes
  <2> QED BY <2>2, <2>3, <2>4, <2>5, <2>6
<1> QED BY <1>4, <1>5 DEF NumberingInv

(* A commit leaves the index behind in what it wrote, until it is absorbed.*)
LEMMA NumberCommitStep ==
    ASSUME NumberingInv, NEW s \in Session, CommitNumbers(s)
    PROVE  NumberingInv'
<1>1. NumberingTypeOK /\ LockIsHeld /\ call[s].at = "locked"
  BY DEF NumberingInv, CommitNumbers
<1>2. /\ NumberingTypeOK'
      /\ call'[s].at = "absorb" /\ call'[s].plan = call[s].plan
      /\ \A t \in Session : t # s => call'[t] = call[t]
      /\ DOMAIN call[s].plan \subseteq Slot
      /\ \A i \in Slot :
            numbers'[i] = IF i \in DOMAIN call[s].plan THEN call[s].plan[i] ELSE numbers[i]
  BY <1>1, CommitCall
<1>3. UNCHANGED <<numberRow, born, known, numberLock, alone, failed>>
  BY DEF CommitNumbers
<1>4. /\ numberLock = s /\ numberLock # Nobody
      /\ \A t \in Session : t # s => call[t].at \notin {"locked", "absorb"}
  BY <1>1, OneHolder
<1>5. LockIsHeld'
  BY <1>1, <1>2, <1>3 DEF LockIsHeld
<1>6. ASSUME ~failed
      PROVE  Minted' /\ RowFollows' /\ Creates' /\ Undisturbed' /\ Deletes'
  <2>1. Minted /\ RowFollows /\ Creates /\ Undisturbed /\ Deletes
    BY <1>6 DEF NumberingInv
  <2>2. \A i \in DOMAIN call[s].plan : i <= born
    <3>1. CASE call[s].op = "create"
      BY <1>1, <2>1, <3>1 DEF Creates, Appends
    <3>2. CASE call[s].op # "create"
      <4>1. DOMAIN call[s].plan \subseteq Living(numbers)
        BY <3>2 DEF CommitNumbers, PlanFound
      <4>2. \A i \in Living(numbers) : i \in Slot /\ ~(i > born)
        BY <2>1 DEF Living, Minted
      <4>3. born \in Nat /\ \A i \in Slot : i \in Nat
        BY <1>1, Bounds DEF NumberingTypeOK
      <4> QED BY <4>1, <4>2, <4>3
    <3> QED BY <3>1, <3>2
  <2>3. Minted'
    <3> SUFFICES ASSUME NEW i \in Slot, i > born PROVE numbers'[i] = Gone
      BY <1>3 DEF Minted
    <3>1. born \in Nat /\ i \in Nat
      BY <1>1, Bounds DEF NumberingTypeOK
    <3>2. i \notin DOMAIN call[s].plan
      BY <2>2, <3>1
    <3> QED BY <1>2, <2>1, <3>2 DEF Minted
  <2>4. RowFollows'
    <3> SUFFICES ASSUME NEW i \in Slot, i \notin DOMAIN call[s].plan
                 PROVE  numberRow[i] = numbers'[i]
      BY <1>2, <1>3 DEF RowFollows
    <3>1. numberRow[i] = numbers[i]
      BY <1>1, <1>4, <2>1 DEF RowFollows
    <3> QED BY <1>2, <3>1
  <2>5. Creates'
    <3> SUFFICES ASSUME NEW t \in Session, call'[t].at \in {"decided", "locked"},
                        call'[t].op = "create"
                 PROVE  /\ Appends(call'[t], numbers', born', known'[t])
                        /\ call'[t].at = "decided"
                              => call'[t].plan = NothingYet /\ call'[t].cursor = 0
      BY DEF Creates
    <3>1. t # s /\ call'[t] = call[t] /\ call[t].at = "decided"
      BY <1>2, <1>4
    <3>2. call[t].plan = NothingYet /\ call[t].cursor = 0
      BY <2>1, <3>1 DEF Creates
    <3> QED BY <3>1, <3>2, NothingAppends
  <2>6. Undisturbed'
    BY <1>2, <1>3, <1>4, <2>1 DEF Undisturbed
  <2>7. Deletes'
    BY <1>2, <2>1 DEF Deletes
  <2> QED BY <2>3, <2>4, <2>5, <2>6, <2>7
<1> QED BY <1>2, <1>3, <1>5, <1>6 DEF NumberingInv

(* What assign_number gives to the next issue of a creating transaction    *)
(* is above all numbers of HEAD and of the plan, or it is none.            *)
LEMMA AssignedAppends ==
    ASSUME NumberingTypeOK, NEW s \in Session, call[s].at = "locked", call[s].cursor < Limit,
           numberRow = numbers, BelowLimit, Appends(call[s], numbers, born, known[s])
    PROVE  /\ known[s] # "local" => Assigned(s) = Unnumbered
           /\ known[s] = "local" =>
                 /\ Assigned(s) \in Number
                 /\ \A j \in Numbered(numbers) : numbers[j] < Assigned(s)
                 /\ \A i \in DOMAIN call[s].plan :
                       call[s].plan[i] \in Nat /\ 1 <= call[s].plan[i]
                       /\ call[s].plan[i] < Assigned(s)
<1>1. known[s] # "local" => Assigned(s) = Unnumbered
  BY DEF Assigned
<1>2. ASSUME known[s] = "local"
      PROVE  /\ Assigned(s) \in Number
             /\ \A j \in Numbered(numbers) : numbers[j] < Assigned(s)
             /\ \A i \in DOMAIN call[s].plan :
                   call[s].plan[i] \in Nat /\ 1 <= call[s].plan[i]
                   /\ call[s].plan[i] < Assigned(s)
  <2>1. call[s].cursor \in Number \cup {0} /\ call[s].cursor \in Nat
    BY CallFields, Bounds DEF NumberingTypeOK
  <2>2. numbers \in [Slot -> Cell]
    BY DEF NumberingTypeOK
  <2>3. \A j \in Numbered(numbers) : numbers[j] \in Nat
    BY Bounds DEF Numbered
  <2>4. \A i \in DOMAIN call[s].plan : call[s].plan[i] \in 1..call[s].cursor
    BY <1>2 DEF Appends
  <2>5. CASE call[s].cursor # 0
    <3>1. Assigned(s) = call[s].cursor + 1
      BY <1>2, <2>5 DEF Assigned
    <3>2. Assigned(s) \in Number
      BY <2>1, <3>1, NumberingAssumption DEF Number
    <3>3. \A j \in Numbered(numbers) : numbers[j] < call[s].cursor
      BY <1>2, <2>5 DEF Appends
    <3>4. \A j \in Numbered(numbers) : numbers[j] < Assigned(s)
      BY <2>1, <2>3, <3>1, <3>3
    <3>5. \A i \in DOMAIN call[s].plan :
             call[s].plan[i] \in Nat /\ 1 <= call[s].plan[i] /\ call[s].plan[i] < Assigned(s)
      BY <2>1, <2>4, <3>1
    <3> QED BY <3>2, <3>4, <3>5
  <2>6. CASE call[s].cursor = 0
    <3>1. Assigned(s) = Plus(Top(numbers), 1)
      BY <1>2, <2>6 DEF Assigned
    <3>2. /\ Top(numbers) \in 0..Limit
          /\ \A j \in Numbered(numbers) : numbers[j] \in Number /\ numbers[j] <= Top(numbers)
          /\ Top(numbers) = 0 \/ \E j \in Numbered(numbers) : numbers[j] = Top(numbers)
      BY <2>2, TopBounds
    <3>3. Top(numbers) # Limit
      BY <3>2, Bounds DEF BelowLimit, Numbered
    <3>4. Assigned(s) \in Number /\ Assigned(s) = Top(numbers) + 1
      BY <3>1, <3>2, <3>3, PlusIs
    <3>5. Top(numbers) \in Nat
      BY <3>2, Bounds
    <3>6. \A j \in Numbered(numbers) : numbers[j] < Assigned(s)
      BY <2>3, <3>2, <3>4, <3>5
    <3>7. DOMAIN call[s].plan = {}
      BY <2>4, <2>6
    <3> QED BY <3>4, <3>6, <3>7
  <2> QED BY <2>5, <2>6
<1> QED BY <1>1, <1>2

(* The next issue staged keeps the plan one that appends.                  *)
LEMMA StagedAppends ==
    ASSUME NEW c \in Jobs, c.at # "idle", NEW view \in [Slot -> Cell],
           NEW minted \in Nat, minted + 1 \in Slot, view[minted + 1] = Gone,
           NEW n \in Number \cup {Unnumbered}, NEW mode \in Policy,
           Appends(c, view, minted, mode),
           mode # "local" => n = Unnumbered,
           mode = "local" =>
              /\ n \in Number
              /\ \A j \in Numbered(view) : view[j] < n
              /\ \A i \in DOMAIN c.plan : c.plan[i] \in Nat /\ 1 <= c.plan[i] /\ c.plan[i] < n
    PROVE  Appends(Staged(c, minted + 1, n), view, minted + 1, mode)
<1> DEFINE new == minted + 1
           d == Staged(c, new, n)
<1>1. /\ d.cursor = IF n = Unnumbered THEN 0 ELSE n
      /\ DOMAIN d.plan = DOMAIN c.plan \cup {new}
      /\ d.plan[new] = n
      /\ \A j \in DOMAIN c.plan : j # new => d.plan[j] = c.plan[j]
  BY StagedCall
<1>2. \A i \in DOMAIN c.plan : i \in Nat /\ i <= minted /\ i # new
  <2>1. DOMAIN c.plan \subseteq Nat
    BY CallFields, PlanIs, Bounds
  <2> QED BY <2>1 DEF Appends
<1> HIDE DEF d
<1>3. \A i \in DOMAIN d.plan : i <= new /\ view[i] = Gone
  BY <1>1, <1>2 DEF Appends
<1>4. ASSUME mode # "local" PROVE \A i \in DOMAIN d.plan : d.plan[i] = Unnumbered
  BY <1>1, <1>2, <1>4 DEF Appends
<1>5. ASSUME mode = "local"
      PROVE  /\ \A i \in DOMAIN d.plan : d.plan[i] \in 1..d.cursor
             /\ \A i \in DOMAIN d.plan : \A j \in Numbered(view) : view[j] < d.plan[i]
             /\ \A i \in DOMAIN d.plan : \A j \in DOMAIN d.plan : d.plan[i] = d.plan[j] => i = j
             /\ \A j \in Numbered(view) : view[j] < d.cursor
  <2>1. n \in Nat /\ 1 <= n /\ d.cursor = n
    BY <1>1, <1>5, Bounds
  <2>2. \A i \in DOMAIN c.plan : d.plan[i] = c.plan[i] /\ d.plan[i] \in Nat
                                 /\ 1 <= d.plan[i] /\ d.plan[i] < n
    BY <1>1, <1>2, <1>5
  <2>3. \A i \in DOMAIN d.plan : d.plan[i] \in 1..d.cursor
    BY <1>1, <2>1, <2>2
  <2>4. \A i \in DOMAIN d.plan : \A j \in Numbered(view) : view[j] < d.plan[i]
    BY <1>1, <1>5, <2>2 DEF Appends
  <2>5. \A i \in DOMAIN d.plan : \A j \in DOMAIN d.plan : d.plan[i] = d.plan[j] => i = j
    <3> SUFFICES ASSUME NEW i \in DOMAIN d.plan, NEW j \in DOMAIN d.plan, d.plan[i] = d.plan[j]
                 PROVE  i = j
      OBVIOUS
    <3>1. CASE i \in DOMAIN c.plan /\ j \in DOMAIN c.plan
      BY <1>5, <2>2, <3>1 DEF Appends
    <3>2. CASE i = new /\ j = new
      BY <3>2
    <3>3. CASE i = new /\ j \in DOMAIN c.plan
      BY <1>1, <2>1, <2>2, <3>3
    <3>4. CASE i \in DOMAIN c.plan /\ j = new
      BY <1>1, <2>1, <2>2, <3>4
    <3> QED BY <1>1, <3>1, <3>2, <3>3, <3>4
  <2>6. \A j \in Numbered(view) : view[j] < d.cursor
    BY <1>5, <2>1
  <2> QED BY <2>3, <2>4, <2>5, <2>6
<1>6. Appends(d, view, new, mode)
  BY <1>3, <1>4, <1>5 DEF Appends
<1> QED BY <1>6 DEF d

(* One more issue staged keeps the invariant.                              *)
LEMMA StageCreateStep ==
    ASSUME NumberingInv, BelowLimit, NEW s \in Session, StageCreate(s)
    PROVE  NumberingInv'
<1>1. NumberingTypeOK /\ LockIsHeld /\ call[s].at = "locked" /\ call[s].op = "create"
      /\ call[s].cursor < Limit /\ born' = born + 1
  BY DEF NumberingInv, StageCreate
<1>2. /\ NumberingTypeOK' /\ born + 1 \in Slot
      /\ call'[s] = Staged(call[s], born + 1, Assigned(s))
      /\ \A t \in Session : t # s => call'[t] = call[t]
      /\ Assigned(s) \in Number \cup {Unnumbered}
  BY <1>1, StageCall
<1>3. UNCHANGED <<numbers, numberRow, known, numberLock, alone, failed>>
  BY DEF StageCreate
<1>4. call[s] \in Jobs /\ born \in Nat /\ known[s] \in Policy /\ numbers \in [Slot -> Cell]
  BY <1>1, Bounds DEF NumberingTypeOK
<1>5. call'[s].at = "locked" /\ call'[s].op = "create"
  BY <1>1, <1>2, <1>4, StagedCall
<1>6. /\ numberLock = s /\ numberLock # Nobody
      /\ \A t \in Session : t # s => call[t].at \notin {"locked", "absorb"}
  BY <1>1, OneHolder
<1>7. LockIsHeld'
  BY <1>1, <1>2, <1>3, <1>5 DEF LockIsHeld
<1>8. ASSUME ~failed
      PROVE  Minted' /\ RowFollows' /\ Creates' /\ Undisturbed' /\ Deletes'
  <2>1. Minted /\ RowFollows /\ Creates /\ Undisturbed /\ Deletes
    BY <1>8 DEF NumberingInv
  <2>2. Minted'
    <3> SUFFICES ASSUME NEW i \in Slot, i > born + 1 PROVE numbers[i] = Gone
      BY <1>1, <1>3 DEF Minted
    <3>1. i > born
      BY <1>4, Bounds
    <3> QED BY <2>1, <3>1 DEF Minted
  <2>3. \A t \in Session : call[t].at # "absorb"
    BY <1>1, <1>6
  <2>4. numberRow = numbers
    BY <1>1, <2>1, <2>3, RowIs
  <2>5. RowFollows'
    BY <1>3, <2>4 DEF RowFollows
  <2>6. Appends(call[s], numbers, born, known[s])
    BY <1>1, <2>1 DEF Creates
  <2>7. numbers[born + 1] = Gone
    BY <1>2, <1>4, <2>1 DEF Minted
  <2>8. Appends(Staged(call[s], born + 1, Assigned(s)), numbers, born + 1, known[s])
    BY <1>1, <1>2, <1>4, <2>4, <2>6, <2>7, AssignedAppends, StagedAppends
  <2>9. Creates'
    <3> SUFFICES ASSUME NEW t \in Session, call'[t].at \in {"decided", "locked"},
                        call'[t].op = "create"
                 PROVE  /\ Appends(call'[t], numbers', born', known'[t])
                        /\ call'[t].at = "decided"
                              => call'[t].plan = NothingYet /\ call'[t].cursor = 0
      BY DEF Creates
    <3>1. CASE t = s
      BY <1>1, <1>2, <1>3, <1>5, <2>8, <3>1
    <3>2. CASE t # s
      <4>1. call'[t] = call[t] /\ call[t].at = "decided"
        BY <1>2, <1>6, <3>2
      <4>2. call[t].plan = NothingYet /\ call[t].cursor = 0
        BY <2>1, <4>1 DEF Creates
      <4> QED BY <4>1, <4>2, NothingAppends
    <3> QED BY <3>1, <3>2
  <2>10. Undisturbed'
    BY <1>1, <1>2, <1>3, <1>5, <2>1 DEF Undisturbed
  <2>11. Deletes'
    BY <1>2, <1>5, <2>1 DEF Deletes
  <2> QED BY <2>2, <2>5, <2>9, <2>10, <2>11
<1> QED BY <1>2, <1>3, <1>7, <1>8 DEF NumberingInv

(* What is absorbed brings the index up to HEAD.                           *)
LEMMA AbsorbStep ==
    ASSUME NumberingInv, NumberingTypeOK', NEW s \in Session, Absorb(s)
    PROVE  NumberingInv'
<1>1. NumberingTypeOK /\ LockIsHeld /\ call[s].at = "absorb" /\ numberLock' = Nobody
  BY DEF NumberingInv, Absorb
<1>2. /\ call'[s].at = "idle"
      /\ \A t \in Session : t # s => call'[t] = call[t] /\ alone'[t] = alone[t]
  BY <1>1, EndedCall DEF Absorb
<1>3. UNCHANGED <<numbers, born, known, failed>>
  BY DEF Absorb
<1>4. \A t \in Session : t # s => call[t].at \notin {"locked", "absorb"}
  BY <1>1, OneHolder
<1>5. LockIsHeld'
  BY <1>1, <1>2, <1>4, Bounds DEF LockIsHeld
<1>6. ASSUME ~failed
      PROVE  Minted' /\ RowFollows' /\ Creates' /\ Undisturbed' /\ Deletes'
  <2>1. Minted /\ RowFollows /\ Creates /\ Undisturbed /\ Deletes
    BY <1>6 DEF NumberingInv
  <2>2. Minted'
    BY <1>3, <2>1 DEF Minted
  <2>3. \A i \in Slot : numberRow'[i] = numbers'[i]
    <3> SUFFICES ASSUME NEW i \in Slot PROVE numberRow'[i] = numbers[i]
      BY <1>3
    <3>1. numberRow'[i] = IF i \in DOMAIN call[s].plan THEN numbers[i] ELSE numberRow[i]
      BY DEF Absorb
    <3>2. i \notin DOMAIN call[s].plan => numberRow[i] = numbers[i]
      BY <1>4, <2>1 DEF RowFollows
    <3> QED BY <3>1, <3>2
  <2>4. RowFollows'
    BY <2>3 DEF RowFollows
  <2>5. Creates'
    BY <1>2, <1>3, <2>1 DEF Creates
  <2>6. Undisturbed'
    BY <1>1, <1>2, <1>3, <2>1 DEF Undisturbed
  <2>7. Deletes'
    BY <1>2, <2>1 DEF Deletes
  <2> QED BY <2>2, <2>4, <2>5, <2>6, <2>7
<1> QED BY <1>3, <1>5, <1>6 DEF NumberingInv

(* After an absorb that fails nothing is claimed of the index.             *)
LEMMA AbsorbFailsStep ==
    ASSUME NumberingInv, NumberingTypeOK', NEW s \in Session, AbsorbFails(s)
    PROVE  NumberingInv'
<1>1. NumberingTypeOK /\ LockIsHeld /\ call[s].at = "absorb" /\ numberLock' = Nobody /\ failed'
  BY DEF NumberingInv, AbsorbFails
<1>2. call'[s].at = "idle" /\ \A t \in Session : t # s => call'[t] = call[t]
  BY <1>1, EndedCall DEF AbsorbFails, CallGivesUp
<1>3. \A t \in Session : t # s => call[t].at \notin {"locked", "absorb"}
  BY <1>1, OneHolder
<1>4. LockIsHeld'
  BY <1>1, <1>2, <1>3, Bounds DEF LockIsHeld
<1> QED BY <1>1, <1>4 DEF NumberingInv

(* A rebuild of the index and a fresh look at the policy, between calls.   *)
LEMMA RefreshStep ==
    ASSUME NumberingInv, NumberingTypeOK', NEW s \in Session, Refresh(s)
    PROVE  NumberingInv'
<1>1. UNCHANGED <<numbers, born, numberLock, call, alone, failed>>
      /\ numberRow' = numbers /\ call[s].at = "idle"
      /\ \A t \in Session : t # s => known'[t] = known[t]
  BY DEF Refresh, NoCall, NumberingInv, NumberingTypeOK
<1>2. LockIsHeld /\ LockIsHeld'
  BY <1>1 DEF NumberingInv, LockIsHeld
<1>3. ASSUME ~failed
      PROVE  Minted' /\ RowFollows' /\ Creates' /\ Undisturbed' /\ Deletes'
  <2>1. Minted /\ RowFollows /\ Creates /\ Undisturbed /\ Deletes
    BY <1>3 DEF NumberingInv
  <2>2. Minted'
    BY <1>1, <2>1 DEF Minted
  <2>3. RowFollows'
    BY <1>1 DEF RowFollows
  <2>4. Creates'
    BY <1>1, <2>1 DEF Creates
  <2>5. Undisturbed'
    BY <1>1, <2>1 DEF Undisturbed
  <2>6. Deletes'
    BY <1>1, <2>1 DEF Deletes
  <2> QED BY <2>2, <2>3, <2>4, <2>5, <2>6
<1> QED BY <1>1, <1>2, <1>3 DEF NumberingInv

-----------------------------------------------------------------------------
(* Initially the index shows the issues there are, and nobody calls.       *)
LEMMA NumberInit == NumberingInit => NumberingInv
<1> SUFFICES ASSUME NumberingInit PROVE NumberingInv
  OBVIOUS
<1>1. born \in 0..MaxIssues
  BY Bounds DEF NumberingInit
<1>2. policy \in Policy /\ known \in [Session -> Policy]
  BY DEF NumberingInit, Policy
<1>3. numbers \in [Slot -> Cell] /\ numberRow \in [Slot -> Cell]
  BY DEF NumberingInit, Cell
<1>4. NoCall \in Jobs /\ NoCall.at = "idle"
  BY DEF Jobs, NoCall
<1>5. call \in [Session -> Jobs] /\ alone \in [Session -> BOOLEAN]
      /\ \A s \in Session : call[s].at = "idle" /\ ~alone[s]
  BY <1>4 DEF NumberingInit
<1>6. NumberingTypeOK
  BY <1>1, <1>2, <1>3, <1>5 DEF NumberingInit, NumberingTypeOK
<1>7. LockIsHeld
  BY <1>5, Bounds DEF NumberingInit, LockIsHeld
<1>8. Minted
  BY <1>1, Bounds DEF NumberingInit, Minted
<1>9. RowFollows
  BY DEF NumberingInit, RowFollows
<1>10. Creates /\ Undisturbed /\ Deletes
  BY <1>5 DEF Creates, Undisturbed, Deletes
<1> QED BY <1>6, <1>7, <1>8, <1>9, <1>10 DEF NumberingInv

(* Every step keeps the invariant while the highest number is not in use.  *)
LEMMA NumberStep == NumberingInv /\ BelowLimit /\ [NumberingNext]_numberVars => NumberingInv'
<1> SUFFICES ASSUME NumberingInv, BelowLimit, [NumberingNext]_numberVars PROVE NumberingInv'
  OBVIOUS
<1>1. NumberingTypeOK /\ NumberingTypeOK'
  BY NextType DEF NumberingInv
<1>2. /\ \A t \in Session : known[t] \in Policy
      /\ {"create", "delete", "renumber", "policy"} = Operations
  BY <1>1 DEF NumberingTypeOK, Operations
<1>3. ASSUME NEW s \in Session, CreateIssue(s) PROVE NumberingInv'
  BY <1>2, <1>3, DecideStep, PlanIs DEF CreateIssue
<1>4. ASSUME NEW s \in Session, NEW i \in Slot, DeleteIssue(s, i) PROVE NumberingInv'
  BY <1>1, <1>2, <1>4, DecideStep, PlansMade DEF DeleteIssue
<1>5. ASSUME NEW s \in Session, Renumber(s) PROVE NumberingInv'
  BY <1>1, <1>2, <1>5, DecideStep, PlansMade DEF Renumber
<1>6. ASSUME NEW s \in Session, NEW p \in Policy, SetPolicy(s, p) PROVE NumberingInv'
  BY <1>2, <1>6, DecideStep, PlanIs DEF SetPolicy
<1>7. ASSUME NEW s \in Session, TakeLock(s) PROVE NumberingInv'
  BY <1>7, TakeLockStep
<1>8. ASSUME NEW s \in Session, Busy(s) PROVE NumberingInv'
  BY <1>1, <1>8, NumberEndStep DEF Busy, CallGivesUp
<1>9. ASSUME NEW s \in Session, StageCreate(s) PROVE NumberingInv'
  BY <1>9, StageCreateStep
<1>10. ASSUME NEW s \in Session, CommitNumbers(s) PROVE NumberingInv'
  BY <1>10, NumberCommitStep
<1>11. ASSUME NEW s \in Session, Abort(s) PROVE NumberingInv'
  BY <1>1, <1>11, NumberEndStep DEF Abort, CallGivesUp
<1>12. ASSUME NEW s \in Session, CommitPolicy(s) PROVE NumberingInv'
  <2>1. \A t \in Session : t # s => known'[t] = known[t]
    BY <1>1, <1>12 DEF CommitPolicy, NumberingTypeOK
  <2> QED BY <1>1, <1>12, <2>1, NumberEndStep DEF CommitPolicy
<1>13. ASSUME NEW s \in Session, Absorb(s) PROVE NumberingInv'
  BY <1>1, <1>13, AbsorbStep
<1>14. ASSUME NEW s \in Session, AbsorbFails(s) PROVE NumberingInv'
  BY <1>1, <1>14, AbsorbFailsStep
<1>15. ASSUME NEW s \in Session, Refresh(s) PROVE NumberingInv'
  BY <1>1, <1>15, RefreshStep
<1>16. CASE UNCHANGED numberVars
  BY <1>1, <1>16 DEF numberVars, NumberingInv, LockIsHeld, Minted, RowFollows, Creates, Undisturbed, Deletes
<1> QED
  BY <1>3, <1>4, <1>5, <1>6, <1>7, <1>8, <1>9, <1>10, <1>11, <1>12, <1>13, <1>14, <1>15, <1>16
     DEF NumberingNext

(* The state of numbers, calls and policies is of its type always.         *)
THEOREM NumbersTypeCorrect == NumberingSpec => []NumberingTypeOK
<1>1. NumberingInit => NumberingTypeOK
  BY NumberInit DEF NumberingInv
<1> QED BY <1>1, NextType, PTL DEF NumberingSpec

(* As long as no issue has the highest number of all: the lock is held by  *)
(* one, and until an absorb fails the index shows HEAD but for the commit  *)
(* being absorbed, creations append to HEAD and a backfill nobody overtook *)
(* is the one HEAD calls for.                                              *)
THEOREM NumberingInvariant == NumberingSpec /\ []BelowLimit => []NumberingInv
  BY NumberInit, NumberStep, PTL DEF NumberingSpec

-----------------------------------------------------------------------------
(* What a sound commit writes: numbers above all in use, each once, and    *)
(* nothing but a deletion where there is a number.                         *)
LEMMA SoundCommit ==
    ASSUME NumberingInv, BelowLimit, BelowLimit', Sound, NEW s \in Session, CommitNumbers(s)
    PROVE  /\ \A i \in DOMAIN call[s].plan : call[s].plan[i] \in Number
                 => \A j \in Numbered(numbers) : numbers[j] < call[s].plan[i]
           /\ \A i, j \in DOMAIN call[s].plan :
                 call[s].plan[i] \in Number /\ call[s].plan[i] = call[s].plan[j] => i = j
           /\ \A i \in DOMAIN call[s].plan :
                 i \in Numbered(numbers) => call[s].plan[i] = Gone
<1>1. NumberingTypeOK /\ LockIsHeld /\ Creates /\ Undisturbed /\ Deletes /\ ~failed
  BY DEF NumberingInv, Sound
<1>2. call[s].at = "locked" /\ call[s].op # "policy" /\ call[s] \in Jobs
  BY <1>1 DEF CommitNumbers, NumberingTypeOK
<1>3. numberLock = s
  BY <1>1, <1>2, OneHolder
<1>4. call[s].op \in {"create", "delete", "renumber"}
  BY <1>2, CallFields DEF Operations
<1>5. /\ DOMAIN call[s].plan \subseteq Slot
      /\ \A i \in DOMAIN call[s].plan : numbers'[i] = call[s].plan[i]
  BY <1>1, CommitCall
<1>6. Gone \notin Number /\ Unnumbered \notin Number
  BY Bounds
<1>7. CASE call[s].op = "create"
  <2>1. Appends(call[s], numbers, born, known[s])
    BY <1>1, <1>2, <1>7 DEF Creates
  <2>2. \A i \in DOMAIN call[s].plan : i \notin Numbered(numbers)
    BY <1>6, <2>1 DEF Appends, Numbered
  <2>3. CASE known[s] = "local"
    BY <2>1, <2>2, <2>3 DEF Appends
  <2>4. CASE known[s] # "local"
    <3>1. \A i \in DOMAIN call[s].plan : call[s].plan[i] = Unnumbered
      BY <2>1, <2>4 DEF Appends
    <3> QED BY <1>6, <2>2, <3>1
  <2> QED BY <2>3, <2>4
<1>8. CASE call[s].op = "delete"
  <2>1. \A i \in DOMAIN call[s].plan : call[s].plan[i] = Gone
    BY <1>1, <1>2, <1>8 DEF Deletes
  <2> QED BY <1>6, <2>1
<1>9. CASE call[s].op = "renumber"
  <2>1. alone[s]
    BY <1>3, <1>9 DEF Sound
  <2>2. call[s].plan = Backfill(numbers)
    BY <1>1, <1>2, <1>9, <2>1 DEF Undisturbed
  <2>3. numbers \in [Slot -> Cell]
    BY <1>1 DEF NumberingTypeOK
  <2>4. /\ DOMAIN call[s].plan = Targets(numbers)
        /\ \A i \in Targets(numbers), j \in Numbered(numbers) :
              numbers[j] # Limit => numbers[j] < call[s].plan[i]
        /\ \A i, j \in Targets(numbers) :
              call[s].plan[i] = call[s].plan[j] /\ call[s].plan[i] # Limit => i = j
    BY <2>2, <2>3, BackfillIs
  <2>5. \A j \in Numbered(numbers) : numbers[j] # Limit
    BY DEF BelowLimit, Numbered
  <2>6. \A i \in DOMAIN call[s].plan : call[s].plan[i] # Limit
    BY <1>5 DEF BelowLimit
  <2>7. \A i \in Targets(numbers) : i \notin Numbered(numbers)
    BY <1>6 DEF Targets, Numbered
  <2> QED BY <2>4, <2>5, <2>6, <2>7
<1> QED BY <1>4, <1>7, <1>8, <1>9

(* No step of another kind touches a number.                               *)
LEMMA OnlyCommits ==
    [NumberingNext]_numberVars => numbers' = numbers \/ \E s \in Session : CommitNumbers(s)
  BY DEF NumberingNext, numberVars, CreateIssue, DeleteIssue, Renumber, SetPolicy, Decide, TakeLock,
         Busy, CallGivesUp, StageCreate, Abort, CommitPolicy, Absorb, AbsorbFails, Refresh

(* Every sound step keeps numbers distinct, appends and moves none.        *)
LEMMA SoundStep ==
    ASSUME NumberingInv, BelowLimit, BelowLimit', Sound, [NumberingNext]_numberVars
    PROVE  /\ Distinct(numbers) => Distinct(numbers')
           /\ \A i \in Slot : numbers'[i] \in Number /\ numbers'[i] # numbers[i]
                 => \A j \in Numbered(numbers) : numbers[j] < numbers'[i]
           /\ \A i \in Numbered(numbers) : numbers'[i] \in {numbers[i], Gone}
<1>1. CASE numbers' = numbers
  BY <1>1 DEF Distinct, Numbered
<1>2. ASSUME NEW s \in Session, CommitNumbers(s)
      PROVE  /\ Distinct(numbers) => Distinct(numbers')
             /\ \A i \in Slot : numbers'[i] \in Number /\ numbers'[i] # numbers[i]
                   => \A j \in Numbered(numbers) : numbers[j] < numbers'[i]
             /\ \A i \in Numbered(numbers) : numbers'[i] \in {numbers[i], Gone}
  <2> DEFINE plan == call[s].plan
  <2>1. /\ \A i \in DOMAIN plan : plan[i] \in Number
              => \A j \in Numbered(numbers) : numbers[j] < plan[i]
        /\ \A i, j \in DOMAIN plan : plan[i] \in Number /\ plan[i] = plan[j] => i = j
        /\ \A i \in DOMAIN plan : i \in Numbered(numbers) => plan[i] = Gone
    BY <1>2, SoundCommit
  <2>2. \A i \in Slot : numbers'[i] = IF i \in DOMAIN plan THEN plan[i] ELSE numbers[i]
    BY <1>2, CommitCall DEF NumberingInv
  <2> HIDE DEF plan
  <2>3. ASSUME NEW i \in Slot, numbers'[i] \in Number, numbers'[i] # numbers[i]
        PROVE  \A j \in Numbered(numbers) : numbers[j] < numbers'[i]
    BY <2>1, <2>2, <2>3
  <2>4. ASSUME NEW i \in Numbered(numbers) PROVE numbers'[i] \in {numbers[i], Gone}
    <3>1. i \in Slot
      BY DEF Numbered
    <3> QED BY <2>1, <2>2, <3>1
  <2>5. ASSUME Distinct(numbers) PROVE Distinct(numbers')
    <3> SUFFICES ASSUME NEW i \in Slot, NEW j \in Slot, numbers'[i] \in Number,
                        numbers'[i] = numbers'[j]
                 PROVE  i = j
      BY DEF Distinct, Numbered
    <3>1. CASE i \in DOMAIN plan /\ j \in DOMAIN plan
      BY <2>1, <2>2, <3>1
    <3>2. CASE i \notin DOMAIN plan /\ j \notin DOMAIN plan
      BY <2>2, <2>5, <3>2 DEF Distinct, Numbered
    <3>3. ASSUME NEW k \in Slot, NEW l \in Slot, k \in DOMAIN plan, l \notin DOMAIN plan,
                 numbers'[k] = numbers'[l], numbers'[k] \in Number
          PROVE  FALSE
      <4>1. numbers[l] = plan[k] /\ plan[k] \in Number
        BY <2>2, <3>3
      <4>2. l \in Numbered(numbers)
        BY <4>1 DEF Numbered
      <4>3. numbers[l] < numbers[l]
        BY <2>1, <3>3, <4>1, <4>2
      <4>4. numbers[l] \in Nat
        BY <4>1, Bounds
      <4> QED BY <4>3, <4>4
    <3> QED BY <3>1, <3>2, <3>3
  <2> QED BY <2>3, <2>4, <2>5
<1> QED BY <1>1, <1>2, OnlyCommits

(* While no issue has the highest number of all, every step whose index    *)
(* was absorbed, and every backfill nobody overtook, gives out distinct    *)
(* numbers, above all in use, and moves none that is given.                *)
THEOREM NumbersSound == NumberingSpec /\ []BelowLimit => NumbersAreSound
<1>1. NumberingInv /\ BelowLimit /\ BelowLimit' /\ [NumberingNext]_numberVars
         => [Sound /\ Distinct(numbers) => Distinct(numbers')]_numberVars
  BY SoundStep
<1>2. NumberingInv /\ BelowLimit /\ BelowLimit' /\ [NumberingNext]_numberVars
         => [Sound => \A i \in Slot :
                numbers'[i] \in Number /\ numbers'[i] # numbers[i]
                   => \A j \in Numbered(numbers) : numbers[j] < numbers'[i]]_numberVars
  BY SoundStep
<1>3. NumberingInv /\ BelowLimit /\ BelowLimit' /\ [NumberingNext]_numberVars
         => [Sound => \A i \in Numbered(numbers) : numbers'[i] \in {numbers[i], Gone}]_numberVars
  BY SoundStep
<1> QED
  BY <1>1, <1>2, <1>3, NumberingInvariant, PTL
     DEF NumberingSpec, NumbersAreSound, NumbersUnique, NumbersAreAppended, NumbersStay
=============================================================================
