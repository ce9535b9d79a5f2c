-------------------------- MODULE AlgorithmsProofs --------------------------
(***************************************************************************)
(* The code map, the merge driver and the clones, for any constants.  The  *)
(* code map a refresh leaves is the one a rebuild from nothing gives: for  *)
(* any files, names and contents, any number of processes, commits and new *)
(* builds of the extractor, and deaths anywhere.  The merge driver, for    *)
(* any documents, legal steps and answers of git, leaves nothing resolved  *)
(* that a person would have to look at.  And a commit that is replayed,    *)
(* for any clones, fields, values and losses of the network, does nothing  *)
(* its author did not.                                                     *)
(***************************************************************************)
EXTENDS CodeMap, MergeDriver, Sync, FiniteSetTheorems, WellFoundedInduction,
        NaturalsInduction, TLAPS

-----------------------------------------------------------------------------
(* THE CODE MAP                                                            *)

Tree    == [Path -> Blob \union {Gone}]
FactRow == [blob : Blob, by : Nat]
Edge    == [path : Path, to : Path]

Dropping == {"drop rows", "drop cache", "stamp"}
Resolving == {"resolve", "point", "infer", "done"}
Listed   == {"read", "keep", "write"} \union Resolving
Current  == {"list"} \union Listed
Job      == [at : {"idle", "drop"} \union Dropping \union Current, alone : BOOLEAN,
             listed : Tree, covered : SUBSET Path, known : SUBSET Path,
             parsed : SUBSET [path : Path, row : FactRow],
             led : SUBSET Arrow, edges : SUBSET Edge]

MapTypeOK ==
    /\ tree \in Tree
    /\ excluded \subseteq Path
    /\ version \in Nat /\ mark \in Nat
    /\ file \in Tree
    /\ fact \in [Path -> SUBSET FactRow]
    /\ target \subseteq Arrow
    /\ implied \subseteq Edge
    /\ cache \subseteq FactRow
    /\ job \in [Process -> Job]
    /\ torn \in BOOLEAN

(* The mark is never of a build to come.                                   *)
MarkIsPast == mark <= version

(* A refresh that is alone is the only one.                                *)
OneAlone ==
    \A r \in Process : ~At(r, "idle") /\ job[r].alone =>
        \A q \in Process : q # r => At(q, "idle")

(* What a refresh that has not read yet brings along.                      *)
NothingParsed ==
    \A r \in Process : job[r].at \in {"idle", "drop", "list", "read"} \union Dropping =>
        job[r].parsed = {}

(* The files a refresh covers were there when it listed them.              *)
CoveredAreThere ==
    \A r \in Process : job[r].at \in Listed =>
        \A p \in job[r].covered : job[r].listed[p] # Gone

(* Who is where in an invalidation.                                        *)
Invalidates(r) ==
    /\ job[r].at \in Dropping =>
          /\ mark # version
          /\ \A q \in Process : q # r => job[q].at \in {"idle", "drop"}
          /\ \A p \in Path : file[p] = Gone
    /\ At(r, "stamp") => cache = {}
    /\ At(r, "drop") /\ job[r].alone => mark # version
    /\ job[r].at \in Current => mark = version
Invalidations == ~torn => \A r \in Process : Invalidates(r)

(* While the mark is of the installed build, nothing is of an older one,   *)
(* and the imports of each file are those of its contents.                 *)
OfThisBuild == \A c \in cache : c.by = version
FactsFollow == \A p \in Path : file[p] # Gone => fact[p] = {[blob |-> file[p], by |-> version]}
ImportsFollow ==
    /\ \A t \in target : file[t.path] # Gone => t.import \in Imports(file[t.path])
    /\ \A p \in Path : file[p] # Gone =>
          \A i \in Imports(file[p]) : \E t \in target : t.path = p /\ t.import = i
ParsedIsNew == \A r \in Process : \A f \in job[r].parsed : f.row.by = version
Fresh == ~torn /\ mark = version => OfThisBuild /\ FactsFollow /\ ImportsFollow /\ ParsedIsNew

(* What a refresh that is alone has done so far.                           *)
SawHead(r) ==
    job[r].at \in Listed =>
        /\ job[r].listed = tree
        /\ job[r].covered = {p \in Path \ excluded : tree[p] # Gone}
IsLeftToDo(r) ==
    job[r].at \in {"keep", "write"} =>
        /\ \A p \in Path : file[p] # Gone => p \in job[r].known \union job[r].covered
        /\ \A p \in job[r].covered : file[p] = tree[p] \/ \E f \in job[r].parsed : f.path = p
        /\ \A f \in job[r].parsed : f.path \in job[r].covered /\ f.row.blob = tree[f.path]
HasResolved(r) ==
    /\ job[r].at \in Resolving => file = Mapped
    /\ At(r, "point") => job[r].led = Resolutions(Mapped)
    /\ job[r].at \in {"point", "infer"} => job[r].edges = Inferred(Mapped)
    /\ job[r].at \in {"infer", "done"} =>
          {t \in target : file[t.path] # Gone} = Resolutions(Mapped)
    /\ At(r, "done") => implied = Inferred(Mapped)
Alone == ~torn => \A r \in Process : job[r].alone => SawHead(r) /\ IsLeftToDo(r) /\ HasResolved(r)

MapInv ==
    /\ MapTypeOK /\ MarkIsPast /\ OneAlone /\ NothingParsed /\ CoveredAreThere
    /\ Invalidations /\ Fresh /\ Alone

-----------------------------------------------------------------------------
(* Records of refreshes, and what a step of one does to the others.        *)
Moves(r, at, j) == j = [job[r] EXCEPT !.at = at]

LEMMA MovesIs ==
    ASSUME MapTypeOK, NEW r \in Process, NEW j,
           NEW at \in {"idle", "drop"} \union Dropping \union Current, Moves(r, at, j)
    PROVE  /\ j \in Job /\ j.at = at /\ j.alone = job[r].alone
           /\ j.listed = job[r].listed /\ j.covered = job[r].covered /\ j.known = job[r].known
           /\ j.parsed = job[r].parsed /\ j.led = job[r].led /\ j.edges = job[r].edges
BY DEF MapTypeOK, Moves, Job

LEMMA IdleIsJob == Idle \in Job /\ Idle.at = "idle" /\ Idle.parsed = {}
BY DEF Idle, Job, Tree

Trails(q) ==
    /\ job'[q].at = job[q].at
    /\ job'[q].listed = job[q].listed
    /\ job'[q].covered = job[q].covered
    /\ job'[q].known = job[q].known
    /\ job'[q].parsed = job[q].parsed
    /\ job'[q].at = "idle" \/ ~job'[q].alone

LEMMA DisturbedIs ==
    ASSUME MapTypeOK, NEW q \in Process
    PROVE  /\ Disturbed(job)[q] \in Job
           /\ Disturbed(job)[q].at = job[q].at
           /\ Disturbed(job)[q].listed = job[q].listed
           /\ Disturbed(job)[q].covered = job[q].covered
           /\ Disturbed(job)[q].known = job[q].known
           /\ Disturbed(job)[q].parsed = job[q].parsed
           /\ Disturbed(job)[q].at = "idle" \/ Disturbed(job)[q].alone = FALSE
BY DEF MapTypeOK, Disturbed, Job

LEMMA GotoIs ==
    ASSUME MapTypeOK, NEW r \in Process, NEW j \in Job, Goto(r, j)
    PROVE  /\ job' \in [Process -> Job]
           /\ job'[r] = j
           /\ \A q \in Process : q # r => Trails(q)
<1>1. Disturbed(job) \in [Process -> Job]
  BY DisturbedIs DEF Disturbed
<1>2. job' = [Disturbed(job) EXCEPT ![r] = j]
  BY DEF Goto
<1>3. job' \in [Process -> Job] /\ job'[r] = j
  BY <1>1, <1>2
<1>4. ASSUME NEW q \in Process, q # r PROVE Trails(q)
  <2>1. job'[q] = Disturbed(job)[q]
    BY <1>1, <1>2, <1>4
  <2> QED BY <2>1, DisturbedIs, Zenon DEF Trails
<1> QED BY <1>3, <1>4

-----------------------------------------------------------------------------
(* The parts of the invariant that are about refreshes alone, once for     *)
(* every step that moves one of them.                                      *)
LEMMA JobsFollow ==
    ASSUME MapInv, NEW r \in Process, NEW j \in Job, Goto(r, j),
           j.at = "idle" \/ ~j.alone \/ \A q \in Process : q # r => At(q, "idle"),
           j.at \in {"idle", "drop", "list", "read"} \union Dropping => j.parsed = {},
           j.at \in Listed => \A p \in j.covered : j.listed[p] # Gone
    PROVE  OneAlone' /\ NothingParsed' /\ CoveredAreThere'
<1>1. /\ job' \in [Process -> Job] /\ job'[r] = j
      /\ \A q \in Process : q # r => Trails(q)
  BY GotoIs DEF MapInv
<1>2. OneAlone'
  BY <1>1 DEF OneAlone, At, Trails, MapInv
<1>3. NothingParsed'
  BY <1>1 DEF NothingParsed, Trails, MapInv
<1>4. CoveredAreThere'
  BY <1>1 DEF CoveredAreThere, Trails, MapInv
<1> QED BY <1>2, <1>3, <1>4

LEMMA AloneFollows ==
    ASSUME MapTypeOK, NEW r \in Process, NEW j \in Job, Goto(r, j),
           torn' \/ ~j.alone \/ (SawHead(r)' /\ IsLeftToDo(r)' /\ HasResolved(r)')
    PROVE  Alone'
<1>1. /\ job'[r] = j
      /\ \A q \in Process : q # r => Trails(q)
  BY GotoIs
<1>2. SUFFICES ASSUME ~torn', NEW q \in Process, job'[q].alone
               PROVE  (SawHead(q) /\ IsLeftToDo(q) /\ HasResolved(q))'
  BY DEF Alone
<1>3. CASE q = r
  BY <1>1, <1>2, <1>3
<1>4. CASE q # r
  <2>1. job'[q].at = "idle"
    BY <1>1, <1>2, <1>4 DEF Trails
  <2>2. SawHead(q)' /\ IsLeftToDo(q)' /\ HasResolved(q)'
    BY <2>1 DEF SawHead, IsLeftToDo, HasResolved, At, Listed, Resolving
  <2> QED BY <2>2
<1> QED BY <1>3, <1>4

(* Who stays where the tables are not emptied.                             *)
LEMMA InvalidationsFollow ==
    ASSUME MapInv, NEW r \in Process, NEW j \in Job, Goto(r, j),
           torn' = torn, mark' = mark, version' = version,
           job[r].at \in Current, j.at \in Current
    PROVE  Invalidations'
<1>1. /\ job'[r] = j
      /\ \A q \in Process : q # r => Trails(q)
  BY GotoIs DEF MapInv
<1>2. SUFFICES ASSUME ~torn, NEW q \in Process PROVE Invalidates(q)'
  BY DEF Invalidations
<1>3. mark = version /\ \A p \in Process : Invalidates(p)
  BY <1>2 DEF MapInv, Invalidations, Invalidates
<1>4. job'[q].at \notin Dropping
  BY <1>1, <1>3 DEF Trails, Invalidates, Dropping, Current, Listed, Resolving
<1>5. ~(job'[q].at = "drop" /\ job'[q].alone)
  BY <1>1 DEF Trails, Current, Listed, Resolving
<1> QED BY <1>3, <1>4, <1>5 DEF Invalidates, At, Dropping

-----------------------------------------------------------------------------
LEMMA InitMap == MapInit => MapInv
<1> SUFFICES ASSUME MapInit PROVE MapInv
  OBVIOUS
<1> USE DEF MapInit
<1>1. \A r \in Process : job[r] = Idle
  OBVIOUS
<1>2. MapTypeOK
  BY IdleIsJob DEF MapTypeOK, Tree
<1>3. MarkIsPast
  BY DEF MarkIsPast
<1>4. OneAlone /\ NothingParsed
  BY <1>1, IdleIsJob DEF OneAlone, NothingParsed, At
<1>5. CoveredAreThere
  BY <1>1, IdleIsJob DEF CoveredAreThere, Listed, Resolving
<1>6. Invalidations
  BY <1>1, IdleIsJob DEF Invalidations, Invalidates, At, Dropping, Current, Listed, Resolving
<1>7. Fresh
  BY DEF Fresh
<1>8. Alone
  BY <1>1, IdleIsJob DEF Alone, SawHead, IsLeftToDo, HasResolved, At, Listed, Resolving
<1> QED BY <1>2, <1>3, <1>4, <1>5, <1>6, <1>7, <1>8 DEF MapInv

-----------------------------------------------------------------------------
(* One lemma for each step.                                                *)
LEMMA ChangeStep == ASSUME MapInv, Change PROVE MapInv'
<1> USE DEF MapInv
<1>1. /\ job' = Disturbed(job)
      /\ UNCHANGED <<version, store, torn>>
  BY DEF Change
<1>2. \A q \in Process : Trails(q) /\ job'[q] \in Job
  BY <1>1, DisturbedIs, Zenon DEF Trails
<1>3. MapTypeOK'
  <2>1. job' \in [Process -> Job]
    BY <1>1, DisturbedIs DEF Disturbed
  <2>2. tree' \in Tree /\ excluded' \subseteq Path
    BY DEF Change, MapTypeOK, Tree
  <2> QED BY <1>1, <2>1, <2>2 DEF MapTypeOK, store
<1>4. MarkIsPast'
  BY <1>1 DEF MarkIsPast, store
<1>5. OneAlone' /\ NothingParsed' /\ CoveredAreThere'
  BY <1>2 DEF OneAlone, NothingParsed, CoveredAreThere, Trails, At
<1>6. Invalidations'
  BY <1>1, <1>2 DEF Invalidations, Invalidates, Trails, At, store, Dropping, Current
<1>7. Fresh'
  BY <1>1, <1>2 DEF Fresh, OfThisBuild, FactsFollow, ImportsFollow, ParsedIsNew, Trails, store, Imports
<1>8. Alone'
  BY <1>2 DEF Alone, SawHead, IsLeftToDo, HasResolved, At, Listed, Resolving, Trails
<1> QED BY <1>3, <1>4, <1>5, <1>6, <1>7, <1>8

LEMMA UpgradeStep == ASSUME MapInv, Upgrade PROVE MapInv'
<1> USE DEF MapInv
<1>1. /\ version' = version + 1
      /\ UNCHANGED <<tree, excluded, store, job, torn>>
      /\ \A r \in Process : job[r].at = "idle"
  BY DEF Upgrade, At
<1>2. version \in Nat /\ mark \in Nat /\ mark <= version
  BY DEF MapTypeOK, MarkIsPast
<1>3. mark' # version' /\ MarkIsPast'
  BY <1>1, <1>2 DEF MarkIsPast, store
<1>4. MapTypeOK'
  BY <1>1, <1>2 DEF MapTypeOK, store
<1>5. OneAlone' /\ NothingParsed' /\ CoveredAreThere'
  BY <1>1 DEF OneAlone, NothingParsed, CoveredAreThere, At
<1>6. Invalidations'
  BY <1>1 DEF Invalidations, Invalidates, At, Dropping, Current, Listed, Resolving
<1>7. Fresh'
  BY <1>3 DEF Fresh
<1>8. Alone'
  BY <1>1 DEF Alone, SawHead, IsLeftToDo, HasResolved, At, Listed, Resolving
<1> QED BY <1>3, <1>4, <1>5, <1>6, <1>7, <1>8

(* A refresh that ends or dies leaves the others where they are.           *)
LEMMA LeaveStep ==
    ASSUME MapInv, NEW r \in Process, ~At(r, "idle"), job' = [job EXCEPT ![r] = Idle],
           UNCHANGED <<world, store, torn>>
    PROVE  MapInv'
<1> USE DEF MapInv
<1>1. /\ job' \in [Process -> Job]
      /\ job'[r].at = "idle" /\ job'[r].parsed = {}
      /\ \A q \in Process : q # r => job'[q] = job[q]
  BY IdleIsJob DEF MapTypeOK
<1>2. MapTypeOK' /\ MarkIsPast'
  BY <1>1 DEF MapTypeOK, MarkIsPast, world, store
<1>3. OneAlone' /\ NothingParsed'
  BY <1>1 DEF OneAlone, NothingParsed, At
<1>4. CoveredAreThere'
  BY <1>1 DEF CoveredAreThere, Listed, Resolving
<1>5. Invalidations'
  BY <1>1 DEF Invalidations, Invalidates, At, world, store, Dropping, Current, Listed, Resolving
<1>6. Fresh'
  BY <1>1 DEF Fresh, OfThisBuild, FactsFollow, ImportsFollow, ParsedIsNew, world, store, Imports
<1>7. Alone'
  <2>1. SUFFICES ASSUME ~torn', NEW q \in Process, job'[q].alone
                 PROVE  (SawHead(q) /\ IsLeftToDo(q) /\ HasResolved(q))'
    BY DEF Alone
  <2>2. job'[q].at = "idle"
    BY <1>1, <2>1 DEF OneAlone, At
  <2> QED BY <2>2 DEF SawHead, IsLeftToDo, HasResolved, At, Listed, Resolving
<1> QED BY <1>2, <1>3, <1>4, <1>5, <1>6, <1>7

LEMMA BeginStep == ASSUME MapInv, NEW r \in Process, Begin(r) PROVE MapInv'
<1> USE DEF MapInv
<1> DEFINE at == IF mark = version THEN "list" ELSE "drop"
           alone == \A q \in Process : job[q].at = "idle"
           j == [Idle EXCEPT !.at = at, !.alone = alone]
<1>1. /\ At(r, "idle") /\ Goto(r, j)
      /\ UNCHANGED <<world, store, torn>>
  BY DEF Begin, budget
<1>2. /\ j \in Job /\ j.at = at /\ j.alone = alone
      /\ j.parsed = {}
  BY DEF Idle, Job, Tree, Current
<1> HIDE DEF j
<1>3. /\ job' \in [Process -> Job] /\ job'[r] = j
      /\ \A q \in Process : q # r => Trails(q)
  BY <1>1, <1>2, GotoIs
<1>4. MapTypeOK' /\ MarkIsPast'
  BY <1>1, <1>3 DEF MapTypeOK, MarkIsPast, world, store
<1>5. OneAlone' /\ NothingParsed' /\ CoveredAreThere'
  <2>1. j.at = "idle" \/ ~j.alone \/ \A q \in Process : q # r => At(q, "idle")
    BY <1>2 DEF At
  <2>2. j.at \in Listed => \A p \in j.covered : j.listed[p] # Gone
    BY <1>2 DEF Listed, Resolving
  <2> QED BY <1>1, <1>2, <2>1, <2>2, JobsFollow
<1>6. Invalidations'
  <2>1. SUFFICES ASSUME ~torn, NEW q \in Process PROVE Invalidates(q)'
    BY <1>1 DEF Invalidations
  <2>2. \A p \in Process : Invalidates(p)
    BY <2>1 DEF Invalidations
  <2>3. CASE q = r
    BY <1>1, <1>2, <1>3, <2>3 DEF Invalidates, At, world, store, Dropping, Current, Listed, Resolving
  <2>4. CASE q # r
    <3>1. job'[q].at \in Dropping =>
             \A p \in Process : p # q => job'[p].at \in {"idle", "drop"}
      BY <1>2, <1>3, <2>2, <2>4 DEF Invalidates, Trails
    <3>2. job'[q].at = "drop" => ~job'[q].alone
      BY <1>3, <2>4 DEF Trails
    <3> QED BY <1>1, <1>3, <2>2, <2>4, <3>1, <3>2
            DEF Invalidates, At, Trails, world, store, Dropping, Current
  <2> QED BY <2>3, <2>4
<1>7. Fresh'
  <2>1. ParsedIsNew => ParsedIsNew'
    BY <1>1, <1>2, <1>3 DEF ParsedIsNew, Trails, world
  <2> QED BY <1>1, <2>1 DEF Fresh, OfThisBuild, FactsFollow, ImportsFollow, world, store, Imports
<1>8. Alone'
  <2>1. SawHead(r)' /\ IsLeftToDo(r)' /\ HasResolved(r)'
    BY <1>2, <1>3 DEF SawHead, IsLeftToDo, HasResolved, At, Listed, Resolving
  <2> QED BY <1>1, <1>2, <2>1, AloneFollows
<1> QED BY <1>4, <1>5, <1>6, <1>7, <1>8
LEMMA DropFilesStep == ASSUME MapInv, NEW r \in Process, DropFiles(r) PROVE MapInv'
<1> USE DEF MapInv
<1> DEFINE j == [job[r] EXCEPT !.at = "drop rows"]
<1>1. /\ At(r, "drop") /\ Goto(r, j) /\ Moves(r, "drop rows", j)
      /\ file' = [p \in Path |-> Gone] /\ torn' = (torn \/ Overlapped(r))
      /\ UNCHANGED <<tree, excluded, version, fact, target, implied, cache, mark>>
  BY DEF DropFiles, To, Moves, world, budget
<1> HIDE DEF j
<1>2. /\ j \in Job /\ j.at = "drop rows" /\ j.alone = job[r].alone
      /\ j.listed = job[r].listed /\ j.covered = job[r].covered /\ j.known = job[r].known
      /\ j.parsed = job[r].parsed /\ j.led = job[r].led /\ j.edges = job[r].edges
  BY <1>1, MovesIs DEF Dropping, Current, Listed, Resolving
<1>3. /\ job' \in [Process -> Job] /\ job'[r] = j
      /\ \A q \in Process : q # r => Trails(q)
  BY <1>1, <1>2, GotoIs
<1>4. MapTypeOK' /\ MarkIsPast'
  BY <1>1, <1>3 DEF MapTypeOK, MarkIsPast, Tree, Arrow, Edge, FactRow
<1>5. OneAlone' /\ NothingParsed' /\ CoveredAreThere'
  <2>1. j.at = "idle" \/ ~j.alone \/ \A q \in Process : q # r => At(q, "idle")
    BY <1>1, <1>2 DEF OneAlone, At
  <2>2. j.at \in {"idle", "drop", "list", "read"} \union Dropping => j.parsed = {}
    BY <1>1, <1>2 DEF NothingParsed, At, Dropping
  <2>3. j.at \in Listed => \A p \in j.covered : j.listed[p] # Gone
    BY <1>1, <1>2 DEF CoveredAreThere, At, Listed, Resolving
  <2> QED BY <1>1, <1>2, <2>1, <2>2, <2>3, JobsFollow
<1>6. Invalidations'
  <2>1. SUFFICES ASSUME ~torn', NEW q \in Process PROVE Invalidates(q)'
    BY DEF Invalidations
  <2>2. /\ job[r].alone /\ \A s \in Process : s # r => job[s].at = "idle"
        /\ mark # version
    BY <1>1, <2>1 DEF Overlapped, Invalidations, Invalidates, At, Dropping
  <2>3. CASE q = r
    BY <1>1, <1>2, <1>3, <2>2, <2>3 DEF Invalidates, At, Trails, Dropping, Current, Listed, Resolving
  <2>4. CASE q # r
    BY <1>3, <2>2, <2>4 DEF Invalidates, At, Trails, Dropping, Current, Listed, Resolving
  <2> QED BY <2>3, <2>4
<1>7. Fresh'
  <2>1. SUFFICES ASSUME ~torn', mark = version PROVE FALSE
    BY <1>1 DEF Fresh
  <2> QED BY <1>1, <2>1 DEF Overlapped, Invalidations, Invalidates, At, Dropping
<1>8. Alone'
  <2>1. SawHead(r)' /\ IsLeftToDo(r)' /\ HasResolved(r)'
    BY <1>2, <1>3 DEF SawHead, IsLeftToDo, HasResolved, At, Listed, Resolving
  <2> QED BY <1>1, <1>2, <2>1, AloneFollows
<1> QED BY <1>4, <1>5, <1>6, <1>7, <1>8

LEMMA DropRowsStep == ASSUME MapInv, NEW r \in Process, DropRows(r) PROVE MapInv'
<1> USE DEF MapInv
<1> DEFINE j == [job[r] EXCEPT !.at = "drop cache"]
<1>1. /\ At(r, "drop rows") /\ Goto(r, j) /\ Moves(r, "drop cache", j)
      /\ fact' = [p \in Path |-> {}] /\ target' = {} /\ implied' = {}
      /\ torn' = (torn \/ Overlapped(r))
      /\ UNCHANGED <<tree, excluded, version, file, cache, mark>>
  BY DEF DropRows, To, Moves, world, budget
<1> HIDE DEF j
<1>2. /\ j \in Job /\ j.at = "drop cache" /\ j.alone = job[r].alone
      /\ j.listed = job[r].listed /\ j.covered = job[r].covered /\ j.known = job[r].known
      /\ j.parsed = job[r].parsed /\ j.led = job[r].led /\ j.edges = job[r].edges
  BY <1>1, MovesIs DEF Dropping, Current, Listed, Resolving
<1>3. /\ job' \in [Process -> Job] /\ job'[r] = j
      /\ \A q \in Process : q # r => Trails(q)
  BY <1>1, <1>2, GotoIs
<1>4. MapTypeOK' /\ MarkIsPast'
  BY <1>1, <1>3 DEF MapTypeOK, MarkIsPast, Tree, Arrow, Edge, FactRow
<1>5. OneAlone' /\ NothingParsed' /\ CoveredAreThere'
  <2>1. j.at = "idle" \/ ~j.alone \/ \A q \in Process : q # r => At(q, "idle")
    BY <1>1, <1>2 DEF OneAlone, At
  <2>2. j.at \in {"idle", "drop", "list", "read"} \union Dropping => j.parsed = {}
    BY <1>1, <1>2 DEF NothingParsed, At, Dropping
  <2>3. j.at \in Listed => \A p \in j.covered : j.listed[p] # Gone
    BY <1>1, <1>2 DEF CoveredAreThere, At, Listed, Resolving
  <2> QED BY <1>1, <1>2, <2>1, <2>2, <2>3, JobsFollow
<1>6. Invalidations'
  <2>1. SUFFICES ASSUME ~torn', NEW q \in Process PROVE Invalidates(q)'
    BY DEF Invalidations
  <2>2. /\ job[r].alone /\ \A s \in Process : s # r => job[s].at = "idle"
        /\ mark # version
    BY <1>1, <2>1 DEF Overlapped, Invalidations, Invalidates, At, Dropping
  <2>5. \A p \in Path : file[p] = Gone
    BY <1>1, <2>1 DEF Invalidations, Invalidates, At, Dropping
  <2>3. CASE q = r
    BY <1>1, <1>2, <1>3, <2>2, <2>3, <2>5 DEF Invalidates, At, Trails, Dropping, Current, Listed, Resolving
  <2>4. CASE q # r
    BY <1>3, <2>2, <2>4 DEF Invalidates, At, Trails, Dropping, Current, Listed, Resolving
  <2> QED BY <2>3, <2>4
<1>7. Fresh'
  <2>1. SUFFICES ASSUME ~torn', mark = version PROVE FALSE
    BY <1>1 DEF Fresh
  <2> QED BY <1>1, <2>1 DEF Overlapped, Invalidations, Invalidates, At, Dropping
<1>8. Alone'
  <2>1. SawHead(r)' /\ IsLeftToDo(r)' /\ HasResolved(r)'
    BY <1>2, <1>3 DEF SawHead, IsLeftToDo, HasResolved, At, Listed, Resolving
  <2> QED BY <1>1, <1>2, <2>1, AloneFollows
<1> QED BY <1>4, <1>5, <1>6, <1>7, <1>8

LEMMA DropCacheStep == ASSUME MapInv, NEW r \in Process, DropCache(r) PROVE MapInv'
<1> USE DEF MapInv
<1> DEFINE j == [job[r] EXCEPT !.at = "stamp"]
<1>1. /\ At(r, "drop cache") /\ Goto(r, j) /\ Moves(r, "stamp", j)
      /\ cache' = {}
      /\ UNCHANGED <<tree, excluded, version, file, fact, target, implied, mark, torn>>
  BY DEF DropCache, To, Moves, world, budget
<1> HIDE DEF j
<1>2. /\ j \in Job /\ j.at = "stamp" /\ j.alone = job[r].alone
      /\ j.listed = job[r].listed /\ j.covered = job[r].covered /\ j.known = job[r].known
      /\ j.parsed = job[r].parsed /\ j.led = job[r].led /\ j.edges = job[r].edges
  BY <1>1, MovesIs DEF Dropping, Current, Listed, Resolving
<1>3. /\ job' \in [Process -> Job] /\ job'[r] = j
      /\ \A q \in Process : q # r => Trails(q)
  BY <1>1, <1>2, GotoIs
<1>4. MapTypeOK' /\ MarkIsPast'
  BY <1>1, <1>3 DEF MapTypeOK, MarkIsPast, Tree, Arrow, Edge, FactRow
<1>5. OneAlone' /\ NothingParsed' /\ CoveredAreThere'
  <2>1. j.at = "idle" \/ ~j.alone \/ \A q \in Process : q # r => At(q, "idle")
    BY <1>1, <1>2 DEF OneAlone, At
  <2>2. j.at \in {"idle", "drop", "list", "read"} \union Dropping => j.parsed = {}
    BY <1>1, <1>2 DEF NothingParsed, At, Dropping
  <2>3. j.at \in Listed => \A p \in j.covered : j.listed[p] # Gone
    BY <1>1, <1>2 DEF CoveredAreThere, At, Listed, Resolving
  <2> QED BY <1>1, <1>2, <2>1, <2>2, <2>3, JobsFollow
<1>6. Invalidations'
  <2>1. SUFFICES ASSUME ~torn, NEW q \in Process PROVE Invalidates(q)'
    BY <1>1 DEF Invalidations
  <2>2. /\ \A p \in Process : Invalidates(p)
        /\ mark # version /\ \A p \in Process : p # r => job[p].at \in {"idle", "drop"}
        /\ \A p \in Path : file[p] = Gone
        /\ At(r, "stamp") => cache = {}
    BY <1>1, <2>1 DEF Invalidations, Invalidates, At, Dropping
  <2>3. CASE q = r
    BY <1>1, <1>2, <1>3, <2>2, <2>3 DEF Invalidates, At, Trails, Dropping, Current, Listed, Resolving
  <2>4. CASE q # r
    BY <1>1, <1>3, <2>2, <2>4 DEF Invalidates, At, Trails, Dropping, Current, Listed, Resolving
  <2> QED BY <2>3, <2>4
<1>7. Fresh'
  <2>1. SUFFICES ASSUME ~torn', mark = version PROVE FALSE
    BY <1>1 DEF Fresh
  <2> QED BY <1>1, <2>1 DEF Invalidations, Invalidates, At, Dropping
<1>8. Alone'
  <2>1. SawHead(r)' /\ IsLeftToDo(r)' /\ HasResolved(r)'
    BY <1>2, <1>3 DEF SawHead, IsLeftToDo, HasResolved, At, Listed, Resolving
  <2> QED BY <1>1, <1>2, <2>1, AloneFollows
<1> QED BY <1>4, <1>5, <1>6, <1>7, <1>8

LEMMA StampStep == ASSUME MapInv, NEW r \in Process, Stamp(r) PROVE MapInv'
<1> USE DEF MapInv
<1> DEFINE j == [job[r] EXCEPT !.at = "list"]
<1>1. /\ At(r, "stamp") /\ Goto(r, j) /\ Moves(r, "list", j)
      /\ mark' = version
      /\ UNCHANGED <<tree, excluded, version, file, fact, target, implied, cache, torn>>
  BY DEF Stamp, To, Moves, world, budget
<1> HIDE DEF j
<1>2. /\ j \in Job /\ j.at = "list" /\ j.alone = job[r].alone
      /\ j.listed = job[r].listed /\ j.covered = job[r].covered /\ j.known = job[r].known
      /\ j.parsed = job[r].parsed /\ j.led = job[r].led /\ j.edges = job[r].edges
  BY <1>1, MovesIs DEF Dropping, Current, Listed, Resolving
<1>3. /\ job' \in [Process -> Job] /\ job'[r] = j
      /\ \A q \in Process : q # r => Trails(q)
  BY <1>1, <1>2, GotoIs
<1>4. MapTypeOK' /\ MarkIsPast'
  BY <1>1, <1>3 DEF MapTypeOK, MarkIsPast, Tree, Arrow, Edge, FactRow
<1>5. OneAlone' /\ NothingParsed' /\ CoveredAreThere'
  <2>1. j.at = "idle" \/ ~j.alone \/ \A q \in Process : q # r => At(q, "idle")
    BY <1>1, <1>2 DEF OneAlone, At
  <2>2. j.at \in {"idle", "drop", "list", "read"} \union Dropping => j.parsed = {}
    BY <1>1, <1>2 DEF NothingParsed, At, Dropping
  <2>3. j.at \in Listed => \A p \in j.covered : j.listed[p] # Gone
    BY <1>1, <1>2 DEF CoveredAreThere, At, Listed, Resolving
  <2> QED BY <1>1, <1>2, <2>1, <2>2, <2>3, JobsFollow
<1>6. Invalidations'
  <2>1. SUFFICES ASSUME ~torn, NEW q \in Process PROVE Invalidates(q)'
    BY <1>1 DEF Invalidations
  <2>2. /\ \A p \in Process : Invalidates(p)
        /\ mark # version /\ \A p \in Process : p # r => job[p].at \in {"idle", "drop"}
        /\ \A p \in Path : file[p] = Gone
        /\ At(r, "stamp") => cache = {}
    BY <1>1, <2>1 DEF Invalidations, Invalidates, At, Dropping
  <2>3. CASE q = r
    BY <1>1, <1>2, <1>3, <2>2, <2>3 DEF Invalidates, At, Trails, Dropping, Current, Listed, Resolving
  <2>4. CASE q # r
    BY <1>1, <1>3, <2>2, <2>4 DEF Invalidates, At, Trails, Dropping, Current, Listed, Resolving
  <2> QED BY <2>3, <2>4
<1>7. Fresh'
  <2>1. SUFFICES ASSUME ~torn PROVE (OfThisBuild /\ FactsFollow /\ ImportsFollow /\ ParsedIsNew)'
    BY <1>1 DEF Fresh
  <2>2. /\ \A p \in Process : p # r => job[p].at \in {"idle", "drop"}
        /\ \A p \in Path : file[p] = Gone
        /\ cache = {}
    BY <1>1, <2>1 DEF Invalidations, Invalidates, At, Dropping
  <2>3. \A q \in Process : job'[q].parsed = {}
    BY <1>1, <1>2, <1>3, <2>2 DEF NothingParsed, At, Trails, Dropping
  <2> QED BY <1>1, <2>2, <2>3 DEF OfThisBuild, FactsFollow, ImportsFollow, ParsedIsNew, MapTypeOK, Arrow
<1>8. Alone'
  <2>1. SawHead(r)' /\ IsLeftToDo(r)' /\ HasResolved(r)'
    BY <1>2, <1>3 DEF SawHead, IsLeftToDo, HasResolved, At, Listed, Resolving
  <2> QED BY <1>1, <1>2, <2>1, AloneFollows
<1> QED BY <1>4, <1>5, <1>6, <1>7, <1>8
LEMMA ListStep == ASSUME MapInv, NEW r \in Process, ListFiles(r) PROVE MapInv'
<1> USE DEF MapInv
<1> DEFINE j == [job[r] EXCEPT !.at = "read", !.listed = tree,
                  !.covered = {p \in Path \ excluded : tree[p] # Gone}]
<1>1. /\ At(r, "list") /\ Goto(r, j)
      /\ UNCHANGED <<tree, excluded, version, mark, file, fact, target, implied, cache, torn>>
  BY DEF ListFiles, To, Moves, world, store, budget
<1>2. /\ j \in Job
      /\ j.at = "read" /\ j.alone = job[r].alone
      /\ j.listed = tree /\ j.covered = {p \in Path \ excluded : tree[p] # Gone}
      /\ j.parsed = job[r].parsed
  BY DEF MapTypeOK, Job, Tree, Current, Listed
<1> HIDE DEF j
<1>3. /\ job' \in [Process -> Job] /\ job'[r] = j
      /\ \A q \in Process : q # r => Trails(q)
  BY <1>1, <1>2, GotoIs
<1>4. MapTypeOK' /\ MarkIsPast'
  BY <1>1, <1>3 DEF MapTypeOK, MarkIsPast
<1>5. OneAlone' /\ NothingParsed' /\ CoveredAreThere'
  <2>1. j.at = "idle" \/ ~j.alone \/ \A q \in Process : q # r => At(q, "idle")
    BY <1>1, <1>2 DEF OneAlone, At
  <2>2. j.at \in {"idle", "drop", "list", "read"} \union Dropping => j.parsed = {}
    BY <1>1, <1>2 DEF NothingParsed, At, Dropping
  <2>3. j.at \in Listed => \A p \in j.covered : j.listed[p] # Gone
    BY <1>1, <1>2
  <2> QED BY <1>1, <1>2, <2>1, <2>2, <2>3, JobsFollow
<1>6. Invalidations'
  BY <1>1, <1>2, InvalidationsFollow DEF At, Current, Listed, Resolving
<1>7. Fresh'
  <2>1. ParsedIsNew => ParsedIsNew'
    BY <1>1, <1>2, <1>3 DEF ParsedIsNew, Trails
  <2> QED BY <1>1, <2>1 DEF Fresh, OfThisBuild, FactsFollow, ImportsFollow, Imports
<1>8. Alone'
  <2>1. SUFFICES ASSUME ~torn, job[r].alone
                 PROVE  (SawHead(r) /\ IsLeftToDo(r) /\ HasResolved(r))'
    BY <1>1, <1>2, AloneFollows
  <2>2. SawHead(r) /\ IsLeftToDo(r) /\ HasResolved(r)
    BY <2>1 DEF Alone
  <2> QED BY <1>1, <1>2, <1>3 DEF SawHead, IsLeftToDo, HasResolved, At, Listed, Resolving
<1> QED BY <1>4, <1>5, <1>6, <1>7, <1>8

(* The facts that are taken for a blob are of it.                          *)
LEMMA FactsAre ==
    ASSUME MapTypeOK, NEW b \in Blob
    PROVE  /\ FactsOf(b) \subseteq FactRow /\ FactsOf(b) # {}
           /\ \A f \in FactsOf(b) : f.blob = b
           /\ OfThisBuild => \A f \in FactsOf(b) : f.by = version
<1>1. CASE \E c \in cache : c.blob = b
  <2>1. FactsOf(b) = {c \in cache : c.blob = b}
    BY <1>1 DEF FactsOf
  <2> QED BY <1>1, <2>1 DEF MapTypeOK, OfThisBuild
<1>2. CASE ~\E c \in cache : c.blob = b
  <2>1. FactsOf(b) = {[blob |-> b, by |-> version]}
    BY <1>2 DEF FactsOf
  <2>2. [blob |-> b, by |-> version] \in FactRow
    BY DEF MapTypeOK, FactRow
  <2> QED BY <2>1, <2>2
<1> QED BY <1>1, <1>2

LEMMA ReadStep == ASSUME MapInv, NEW r \in Process, ReadChanged(r) PROVE MapInv'
<1> USE DEF MapInv
<1> DEFINE changed == {p \in job[r].covered : file[p] # job[r].listed[p]}
           known  == {p \in Path : file[p] # Gone}
           parsed == UNION {{[path |-> p, row |-> f] : f \in FactsOf(job[r].listed[p])} : p \in changed}
           j == [job[r] EXCEPT !.at = "keep", !.known = known, !.parsed = parsed]
<1>1. /\ At(r, "read") /\ Goto(r, j)
      /\ UNCHANGED <<tree, excluded, version, mark, file, fact, target, implied, cache, torn>>
  BY DEF ReadChanged, world, store, budget
<1>a. job[r] \in Job /\ job[r].listed \in Tree /\ job[r].covered \subseteq Path
  BY DEF MapTypeOK, Job
<1>b. \A p \in changed : p \in Path /\ job[r].listed[p] \in Blob
  BY <1>1, <1>a DEF CoveredAreThere, At, Listed, Tree
<1>c. \A f \in parsed : f.path \in changed /\ f.row \in FactsOf(job[r].listed[f.path])
  OBVIOUS
<1>e. parsed \subseteq [path : Path, row : FactRow]
  BY <1>b, FactsAre
<1>f. \A f \in parsed : f.row.blob = job[r].listed[f.path]
  BY <1>b, <1>c, FactsAre
<1>g. OfThisBuild => \A f \in parsed : f.row.by = version
  BY <1>b, <1>c, FactsAre
<1>d. \A p \in changed : \E f \in parsed : f.path = p
  <2>1. SUFFICES ASSUME NEW p \in changed PROVE \E f \in parsed : f.path = p
    OBVIOUS
  <2>2. PICK f : f \in FactsOf(job[r].listed[p])
    BY <1>b, FactsAre
  <2>3. [path |-> p, row |-> f] \in parsed /\ [path |-> p, row |-> f].path = p
    BY <2>2
  <2> QED BY <2>3
<1> HIDE DEF parsed, changed
<1>2. /\ j \in Job
      /\ j.at = "keep" /\ j.alone = job[r].alone
      /\ j.listed = job[r].listed /\ j.covered = job[r].covered
      /\ j.known = known /\ j.parsed = parsed
  BY <1>a, <1>e DEF Job, Current, Listed
<1> HIDE DEF j
<1>3. /\ job' \in [Process -> Job] /\ job'[r] = j
      /\ \A q \in Process : q # r => Trails(q)
  BY <1>1, <1>2, GotoIs
<1>4. MapTypeOK' /\ MarkIsPast'
  BY <1>1, <1>3 DEF MapTypeOK, MarkIsPast
<1>5. OneAlone' /\ NothingParsed' /\ CoveredAreThere'
  <2>1. j.at = "idle" \/ ~j.alone \/ \A q \in Process : q # r => At(q, "idle")
    BY <1>1, <1>2 DEF OneAlone, At
  <2>2. j.at \in {"idle", "drop", "list", "read"} \union Dropping => j.parsed = {}
    BY <1>2 DEF Dropping
  <2>3. j.at \in Listed => \A p \in j.covered : j.listed[p] # Gone
    BY <1>1, <1>2 DEF CoveredAreThere, At, Listed, Resolving
  <2> QED BY <1>1, <1>2, <2>1, <2>2, <2>3, JobsFollow
<1>6. Invalidations'
  BY <1>1, <1>2, InvalidationsFollow DEF At, Current, Listed, Resolving
<1>7. Fresh'
  <2>1. OfThisBuild /\ ParsedIsNew => ParsedIsNew'
    <3>1. SUFFICES ASSUME OfThisBuild, ParsedIsNew, NEW q \in Process, NEW f \in job'[q].parsed
                   PROVE  f.row.by = version
      BY <1>1 DEF ParsedIsNew
    <3>2. CASE q = r
      BY <1>2, <1>3, <1>g, <3>1, <3>2
    <3>3. CASE q # r
      BY <1>3, <3>1, <3>3 DEF ParsedIsNew, Trails
    <3> QED BY <3>2, <3>3
  <2> QED BY <1>1, <2>1 DEF Fresh, OfThisBuild, FactsFollow, ImportsFollow, Imports
<1>8. Alone'
  <2>1. SUFFICES ASSUME ~torn, job[r].alone
                 PROVE  (SawHead(r) /\ IsLeftToDo(r) /\ HasResolved(r))'
    BY <1>1, <1>2, AloneFollows
  <2>2. SawHead(r)
    BY <2>1 DEF Alone
  <2>3. /\ job[r].listed = tree
        /\ job[r].covered = {p \in Path \ excluded : tree[p] # Gone}
    BY <1>1, <2>2 DEF SawHead, At, Listed
  <2>4. SawHead(r)' /\ HasResolved(r)'
    BY <1>1, <1>2, <1>3, <2>3 DEF SawHead, HasResolved, At, Resolving
  <2>5. /\ \A p \in Path : file[p] # Gone => p \in known
        /\ \A p \in job[r].covered : file[p] = tree[p] \/ \E f \in parsed : f.path = p
        /\ \A f \in parsed : f.path \in job[r].covered /\ f.row.blob = tree[f.path]
    <3>1. \A p \in Path : file[p] # Gone => p \in known
      OBVIOUS
    <3>2. \A p \in job[r].covered : file[p] = tree[p] \/ p \in changed
      BY <2>3 DEF changed
    <3>3. \A f \in parsed : f.path \in job[r].covered
      BY <1>c DEF changed
    <3>4. \A f \in parsed : f.row.blob = tree[f.path]
      BY <1>f, <2>3
    <3>5. \A p \in job[r].covered : file[p] = tree[p] \/ \E f \in parsed : f.path = p
      BY <1>d, <2>3, <3>2
    <3> QED BY <3>1, <3>3, <3>4, <3>5
  <2>6. IsLeftToDo(r)'
    BY <1>1, <1>2, <1>3, <2>5 DEF IsLeftToDo
  <2> QED BY <2>4, <2>6
<1> QED BY <1>4, <1>5, <1>6, <1>7, <1>8

LEMMA KeepStep == ASSUME MapInv, NEW r \in Process, Keep(r) PROVE MapInv'
<1> USE DEF MapInv
<1> DEFINE j == [job[r] EXCEPT !.at = "write"]
<1>1. /\ At(r, "keep") /\ Goto(r, j) /\ Moves(r, "write", j)
      /\ LET rows == {f.row : f \in job[r].parsed}
         IN  cache' = rows \union {c \in cache : \A f \in rows : f.blob # c.blob}
      /\ UNCHANGED <<tree, excluded, version, mark, file, fact, target, implied, torn>>
  BY DEF Keep, To, Moves, world, store, budget
<1> HIDE DEF j
<1>2. /\ j \in Job
      /\ j.at = "write" /\ j.alone = job[r].alone
      /\ j.listed = job[r].listed /\ j.covered = job[r].covered /\ j.known = job[r].known
      /\ j.parsed = job[r].parsed /\ j.led = job[r].led /\ j.edges = job[r].edges
  BY <1>1, MovesIs DEF Dropping, Current, Listed, Resolving
<1>3. /\ job' \in [Process -> Job] /\ job'[r] = j
      /\ \A q \in Process : q # r => Trails(q)
  BY <1>1, <1>2, GotoIs
<1>4. MapTypeOK' /\ MarkIsPast'
  <2>1. job[r].parsed \subseteq [path : Path, row : FactRow]
    BY DEF MapTypeOK, Job
  <2>2. cache' \subseteq FactRow
    BY <1>1, <2>1 DEF MapTypeOK
  <2> QED BY <1>1, <1>3, <2>2 DEF MapTypeOK, MarkIsPast
<1>5. OneAlone' /\ NothingParsed' /\ CoveredAreThere'
  <2>1. j.at = "idle" \/ ~j.alone \/ \A q \in Process : q # r => At(q, "idle")
    BY <1>1, <1>2 DEF OneAlone, At
  <2>2. j.at \in {"idle", "drop", "list", "read"} \union Dropping => j.parsed = {}
    BY <1>1, <1>2 DEF NothingParsed, At, Dropping
  <2>3. j.at \in Listed => \A p \in j.covered : j.listed[p] # Gone
    BY <1>1, <1>2 DEF CoveredAreThere, At, Listed, Resolving
  <2> QED BY <1>1, <1>2, <2>1, <2>2, <2>3, JobsFollow
<1>6. Invalidations'
  BY <1>1, <1>2, InvalidationsFollow DEF At, Current, Listed, Resolving
<1>7. Fresh'
  <2>1. ParsedIsNew => ParsedIsNew'
    BY <1>1, <1>2, <1>3 DEF ParsedIsNew, Trails
  <2>2. OfThisBuild /\ ParsedIsNew => OfThisBuild'
    BY <1>1 DEF OfThisBuild, ParsedIsNew
  <2> QED BY <1>1, <2>1, <2>2 DEF Fresh, FactsFollow, ImportsFollow, Imports
<1>8. Alone'
  <2>1. SUFFICES ASSUME ~torn, job[r].alone
                 PROVE  (SawHead(r) /\ IsLeftToDo(r) /\ HasResolved(r))'
    BY <1>1, <1>2, AloneFollows
  <2>2. SawHead(r) /\ IsLeftToDo(r) /\ HasResolved(r)
    BY <2>1 DEF Alone
  <2> QED BY <1>1, <1>2, <1>3, <2>2 DEF SawHead, IsLeftToDo, HasResolved, At, Listed, Resolving
<1> QED BY <1>4, <1>5, <1>6, <1>7, <1>8
LEMMA RemoveStep ==
    ASSUME MapInv, NEW r \in Process, NEW p \in Path, RemoveFile(r, p)
    PROVE  MapInv'
<1> USE DEF MapInv
<1> DEFINE j == [job[r] EXCEPT !.known = @ \ {p}]
<1>1. /\ At(r, "write") /\ Goto(r, j) /\ p \notin job[r].covered
      /\ file' = [file EXCEPT ![p] = Gone] /\ fact' = [fact EXCEPT ![p] = {}]
      /\ target' = {t \in target : t.path # p}
      /\ implied' = {e \in implied : e.path # p}
      /\ UNCHANGED <<tree, excluded, version, mark, cache, torn>>
  BY DEF RemoveFile, world, store, budget
<1>2. /\ j \in Job
      /\ j.at = "write" /\ j.alone = job[r].alone
      /\ j.listed = job[r].listed /\ j.covered = job[r].covered
      /\ j.known = job[r].known \ {p} /\ j.parsed = job[r].parsed
  BY <1>1 DEF MapTypeOK, Job, At
<1> HIDE DEF j
<1>3. /\ job' \in [Process -> Job] /\ job'[r] = j
      /\ \A q \in Process : q # r => Trails(q)
  BY <1>1, <1>2, GotoIs
<1>a. /\ \A q \in Path : file'[q] = IF q = p THEN Gone ELSE file[q]
      /\ \A q \in Path : q # p => fact'[q] = fact[q]
  BY <1>1 DEF MapTypeOK, Tree
<1>4. MapTypeOK' /\ MarkIsPast'
  BY <1>1, <1>3 DEF MapTypeOK, MarkIsPast, Tree
<1>5. OneAlone' /\ NothingParsed' /\ CoveredAreThere'
  <2>1. j.at = "idle" \/ ~j.alone \/ \A q \in Process : q # r => At(q, "idle")
    BY <1>1, <1>2 DEF OneAlone, At
  <2>2. j.at \in {"idle", "drop", "list", "read"} \union Dropping => j.parsed = {}
    BY <1>1, <1>2 DEF Dropping
  <2>3. j.at \in Listed => \A q \in j.covered : j.listed[q] # Gone
    BY <1>1, <1>2 DEF CoveredAreThere, At, Listed, Resolving
  <2> QED BY <1>1, <1>2, <2>1, <2>2, <2>3, JobsFollow
<1>6. Invalidations'
  BY <1>1, <1>2, InvalidationsFollow DEF At, Current, Listed, Resolving
<1>7. Fresh'
  <2>1. SUFFICES ASSUME ~torn, mark = version
                 PROVE  (OfThisBuild /\ FactsFollow /\ ImportsFollow /\ ParsedIsNew)'
    BY <1>1 DEF Fresh
  <2>2. OfThisBuild /\ FactsFollow /\ ImportsFollow /\ ParsedIsNew
    BY <2>1 DEF Fresh
  <2>3. OfThisBuild'
    BY <1>1, <2>2 DEF OfThisBuild
  <2>4. FactsFollow'
    BY <1>1, <1>a, <2>2 DEF FactsFollow
  <2>5. ImportsFollow'
    <3>1. \A t \in target' : file'[t.path] # Gone => t.import \in Imports(file'[t.path])
      BY <1>1, <1>a, <2>2 DEF ImportsFollow, MapTypeOK, Arrow
    <3>2. \A q \in Path : file'[q] # Gone =>
             \A i \in Imports(file'[q]) : \E t \in target' : t.path = q /\ t.import = i
      BY <1>1, <1>a, <2>2 DEF ImportsFollow
    <3> QED BY <3>1, <3>2 DEF ImportsFollow, Imports
  <2>6. ParsedIsNew'
    BY <1>1, <1>2, <1>3, <2>2 DEF ParsedIsNew, Trails
  <2> QED BY <2>3, <2>4, <2>5, <2>6
<1>8. Alone'
  <2>1. SUFFICES ASSUME ~torn, job[r].alone
                 PROVE  (SawHead(r) /\ IsLeftToDo(r) /\ HasResolved(r))'
    BY <1>1, <1>2, AloneFollows
  <2>2. SawHead(r) /\ IsLeftToDo(r) /\ HasResolved(r)
    BY <2>1 DEF Alone
  <2>3. SawHead(r)' /\ HasResolved(r)'
    BY <1>1, <1>2, <1>3, <2>2 DEF SawHead, HasResolved, At, Listed, Resolving
  <2>4. IsLeftToDo(r)'
    <3>1. /\ \A q \in Path : file[q] # Gone => q \in job[r].known \union job[r].covered
          /\ \A q \in job[r].covered : file[q] = tree[q] \/ \E f \in job[r].parsed : f.path = q
          /\ \A f \in job[r].parsed : f.path \in job[r].covered /\ f.row.blob = tree[f.path]
      BY <1>1, <2>2 DEF IsLeftToDo, At
    <3>2. \A q \in Path : file'[q] # Gone => q \in j.known \union j.covered
      BY <1>2, <1>a, <3>1
    <3>3. job[r].covered \subseteq Path
      BY DEF MapTypeOK, Job
    <3>4. \A q \in j.covered : file'[q] = tree[q] \/ \E f \in j.parsed : f.path = q
      BY <1>1, <1>2, <1>a, <3>1, <3>3
    <3> QED BY <1>1, <1>2, <1>3, <3>1, <3>2, <3>4 DEF IsLeftToDo
  <2> QED BY <2>3, <2>4
<1> QED BY <1>4, <1>5, <1>6, <1>7, <1>8

LEMMA ReplaceStep ==
    ASSUME MapInv, NEW r \in Process, NEW f \in job[r].parsed, Replace(r, f)
    PROVE  MapInv'
<1> USE DEF MapInv
<1> DEFINE j == [job[r] EXCEPT !.parsed = @ \ {f}]
           new == {[path |-> f.path, import |-> i, to |-> Gone] : i \in Imports(f.row.blob)}
<1>1. /\ At(r, "write") /\ Goto(r, j) /\ job[r].known \subseteq job[r].covered
      /\ file' = [file EXCEPT ![f.path] = f.row.blob]
      /\ fact' = [fact EXCEPT ![f.path] = {f.row}]
      /\ target' = {t \in target : t.path # f.path} \union new
      /\ implied' = {e \in implied : e.path # f.path}
      /\ UNCHANGED <<tree, excluded, version, mark, cache, torn>>
  BY DEF Replace, world, store, budget
<1>2. /\ j \in Job
      /\ j.at = "write" /\ j.alone = job[r].alone
      /\ j.listed = job[r].listed /\ j.covered = job[r].covered
      /\ j.known = job[r].known /\ j.parsed = job[r].parsed \ {f}
  BY <1>1 DEF MapTypeOK, Job, At
<1> HIDE DEF j
<1>3. /\ job' \in [Process -> Job] /\ job'[r] = j
      /\ \A q \in Process : q # r => Trails(q)
  BY <1>1, <1>2, GotoIs
<1>a. /\ f.path \in Path /\ f.row \in FactRow /\ f.row.blob \in Blob /\ f.row.blob # Gone
      /\ f.row = [blob |-> f.row.blob, by |-> f.row.by]
  BY CodeMapAssumption DEF MapTypeOK, Job, FactRow
<1>b. Imports(f.row.blob) \subseteq Import
  BY <1>a, CodeMapAssumption DEF Imports, Import
<1>c. new \subseteq Arrow
  BY <1>a, <1>b DEF Arrow, Target
<1>d. /\ \A q \in Path : file'[q] = IF q = f.path THEN f.row.blob ELSE file[q]
      /\ \A q \in Path : fact'[q] = IF q = f.path THEN {f.row} ELSE fact[q]
  BY <1>1, <1>a DEF MapTypeOK, Tree
<1>n. /\ \A t \in new : t.path = f.path /\ t.import \in Imports(f.row.blob)
      /\ \A i \in Imports(f.row.blob) : \E t \in new : t.path = f.path /\ t.import = i
  <2>1. \A t \in new : t.path = f.path /\ t.import \in Imports(f.row.blob)
    OBVIOUS
  <2>2. ASSUME NEW i \in Imports(f.row.blob)
        PROVE  \E t \in new : t.path = f.path /\ t.import = i
    <3> DEFINE t == [path |-> f.path, import |-> i, to |-> Gone]
    <3>1. t \in new /\ t.path = f.path /\ t.import = i
      OBVIOUS
    <3> QED BY <3>1
  <2> QED BY <2>1, <2>2
<1> HIDE DEF new
<1>4. MapTypeOK' /\ MarkIsPast'
  <2>1. file' \in Tree
    BY <1>1, <1>a DEF MapTypeOK, Tree
  <2>2. fact' \in [Path -> SUBSET FactRow]
    BY <1>1, <1>a DEF MapTypeOK
  <2>3. target' \subseteq Arrow /\ implied' \subseteq Edge
    BY <1>1, <1>c DEF MapTypeOK
  <2> QED BY <1>1, <1>3, <2>1, <2>2, <2>3 DEF MapTypeOK, MarkIsPast
<1>5. OneAlone' /\ NothingParsed' /\ CoveredAreThere'
  <2>1. j.at = "idle" \/ ~j.alone \/ \A q \in Process : q # r => At(q, "idle")
    BY <1>1, <1>2 DEF OneAlone, At
  <2>2. j.at \in {"idle", "drop", "list", "read"} \union Dropping => j.parsed = {}
    BY <1>1, <1>2 DEF Dropping
  <2>3. j.at \in Listed => \A p \in j.covered : j.listed[p] # Gone
    BY <1>1, <1>2 DEF CoveredAreThere, At, Listed, Resolving
  <2> QED BY <1>1, <1>2, <2>1, <2>2, <2>3, JobsFollow
<1>6. Invalidations'
  BY <1>1, <1>2, InvalidationsFollow DEF At, Current, Listed, Resolving
<1>7. Fresh'
  <2>1. SUFFICES ASSUME ~torn, mark = version
                 PROVE  (OfThisBuild /\ FactsFollow /\ ImportsFollow /\ ParsedIsNew)'
    BY <1>1 DEF Fresh
  <2>2. OfThisBuild /\ FactsFollow /\ ImportsFollow /\ ParsedIsNew
    BY <2>1 DEF Fresh
  <2>3. OfThisBuild'
    BY <1>1, <2>2 DEF OfThisBuild
  <2>4. FactsFollow'
    <3>1. f.row.by = version
      BY <2>2 DEF ParsedIsNew
    <3>2. fact'[f.path] = {[blob |-> file'[f.path], by |-> version]}
      BY <1>a, <1>d, <3>1
    <3>3. \A q \in Path : q # f.path /\ file'[q] # Gone =>
             fact'[q] = {[blob |-> file'[q], by |-> version]}
      BY <1>d, <2>2 DEF FactsFollow
    <3> QED BY <1>1, <3>2, <3>3 DEF FactsFollow
  <2>5. ImportsFollow'
    <3>1. ASSUME NEW t \in target', file'[t.path] # Gone
          PROVE  t.import \in Imports(file'[t.path])
      <4>1. CASE t \in new
        BY <1>a, <1>d, <1>n, <4>1
      <4>2. CASE t \in target /\ t.path # f.path
        BY <1>d, <2>2, <3>1, <4>2 DEF ImportsFollow, MapTypeOK, Arrow
      <4> QED BY <1>1, <4>1, <4>2
    <3>2. ASSUME NEW q \in Path, file'[q] # Gone, NEW i \in Imports(file'[q])
          PROVE  \E t \in target' : t.path = q /\ t.import = i
      <4>1. CASE q = f.path
        BY <1>1, <1>d, <1>n, <3>2, <4>1
      <4>2. CASE q # f.path
        <5>1. file[q] # Gone /\ i \in Imports(file[q])
          BY <1>d, <3>2, <4>2
        <5>2. PICK t \in target : t.path = q /\ t.import = i
          BY <2>2, <5>1 DEF ImportsFollow
        <5> QED BY <1>1, <4>2, <5>2
      <4> QED BY <4>1, <4>2
    <3> QED BY <3>1, <3>2 DEF ImportsFollow, Imports
  <2>6. ParsedIsNew'
    BY <1>1, <1>2, <1>3, <2>2 DEF ParsedIsNew, Trails
  <2> QED BY <2>3, <2>4, <2>5, <2>6
<1>8. Alone'
  <2>1. SUFFICES ASSUME ~torn, job[r].alone
                 PROVE  (SawHead(r) /\ IsLeftToDo(r) /\ HasResolved(r))'
    BY <1>1, <1>2, AloneFollows
  <2>2. SawHead(r) /\ IsLeftToDo(r) /\ HasResolved(r)
    BY <2>1 DEF Alone
  <2>3. SawHead(r)' /\ HasResolved(r)'
    BY <1>1, <1>2, <1>3, <2>2 DEF SawHead, HasResolved, At, Listed, Resolving
  <2>4. IsLeftToDo(r)'
    <3>1. /\ \A q \in Path : file[q] # Gone => q \in job[r].known \union job[r].covered
          /\ \A q \in job[r].covered : file[q] = tree[q] \/ \E g \in job[r].parsed : g.path = q
          /\ \A g \in job[r].parsed : g.path \in job[r].covered /\ g.row.blob = tree[g.path]
      BY <1>1, <2>2 DEF IsLeftToDo, At
    <3>2. \A q \in Path : file'[q] # Gone => q \in j.known \union j.covered
      BY <1>2, <1>d, <3>1
    <3>3. job[r].covered \subseteq Path
      BY DEF MapTypeOK, Job
    <3>4. ASSUME NEW q \in j.covered
          PROVE  file'[q] = tree[q] \/ \E g \in j.parsed : g.path = q
      <4>1. CASE q = f.path
        BY <1>2, <1>d, <3>1, <3>3, <4>1
      <4>2. CASE q # f.path
        BY <1>2, <1>d, <3>1, <3>3, <4>2
      <4> QED BY <4>1, <4>2
    <3> QED BY <1>1, <1>2, <1>3, <3>1, <3>2, <3>4 DEF IsLeftToDo
  <2> QED BY <2>3, <2>4
<1> QED BY <1>4, <1>5, <1>6, <1>7, <1>8
LEMMA PruneStep == ASSUME MapInv, NEW r \in Process, Prune(r) PROVE MapInv'
<1> USE DEF MapInv
<1> DEFINE j == [job[r] EXCEPT !.at = "resolve"]
<1>1. /\ At(r, "write") /\ Goto(r, j) /\ Moves(r, "resolve", j)
      /\ job[r].parsed = {} /\ job[r].known \subseteq job[r].covered
      /\ cache' \subseteq cache
      /\ UNCHANGED <<tree, excluded, version, mark, file, fact, target, implied, torn>>
  BY DEF Prune, To, Moves, world, store, budget
<1> HIDE DEF j
<1>2. /\ j \in Job
      /\ j.at = "resolve" /\ j.alone = job[r].alone
      /\ j.listed = job[r].listed /\ j.covered = job[r].covered /\ j.known = job[r].known
      /\ j.parsed = job[r].parsed /\ j.led = job[r].led /\ j.edges = job[r].edges
  <2>1. Moves(r, "resolve", j)
    BY <1>1
  <2> QED BY <2>1, MovesIs DEF Dropping, Current, Listed, Resolving
<1>3. /\ job' \in [Process -> Job] /\ job'[r] = j
      /\ \A q \in Process : q # r => Trails(q)
  BY <1>1, <1>2, GotoIs
<1>4. MapTypeOK' /\ MarkIsPast'
  BY <1>1, <1>3 DEF MapTypeOK, MarkIsPast
<1>5. OneAlone' /\ NothingParsed' /\ CoveredAreThere'
  <2>1. j.at = "idle" \/ ~j.alone \/ \A q \in Process : q # r => At(q, "idle")
    BY <1>1, <1>2 DEF OneAlone, At
  <2>2. j.at \in {"idle", "drop", "list", "read"} \union Dropping => j.parsed = {}
    BY <1>1, <1>2 DEF Dropping
  <2>3. j.at \in Listed => \A p \in j.covered : j.listed[p] # Gone
    BY <1>1, <1>2 DEF CoveredAreThere, At, Listed, Resolving
  <2> QED BY <1>1, <1>2, <2>1, <2>2, <2>3, JobsFollow
<1>6. Invalidations'
  BY <1>1, <1>2, InvalidationsFollow DEF At, Current, Listed, Resolving
<1>7. Fresh'
  <2>1. ParsedIsNew => ParsedIsNew'
    BY <1>1, <1>2, <1>3 DEF ParsedIsNew, Trails
  <2> QED BY <1>1, <2>1 DEF Fresh, OfThisBuild, FactsFollow, ImportsFollow, Imports
<1>8. Alone'
  <2>1. SUFFICES ASSUME ~torn, job[r].alone
                 PROVE  (SawHead(r) /\ IsLeftToDo(r) /\ HasResolved(r))'
    BY <1>1, <1>2, AloneFollows
  <2>2. SawHead(r) /\ IsLeftToDo(r) /\ HasResolved(r)
    BY <2>1 DEF Alone
  <2>3. SawHead(r)' /\ IsLeftToDo(r)'
    BY <1>1, <1>2, <1>3, <2>2 DEF SawHead, IsLeftToDo, At, Listed, Resolving
  <2>4. file = Mapped
    <3>1. /\ \A p \in Path : file[p] # Gone => p \in job[r].known \union job[r].covered
          /\ \A p \in job[r].covered : file[p] = tree[p] \/ \E f \in job[r].parsed : f.path = p
      BY <1>1, <2>2 DEF IsLeftToDo, At
    <3>2. job[r].covered = {p \in Path \ excluded : tree[p] # Gone}
      BY <1>1, <2>2 DEF SawHead, At, Listed
    <3>3. \A p \in Path : file[p] = IF p \in excluded THEN Gone ELSE tree[p]
      BY <1>1, <3>1, <3>2
    <3> QED BY <3>3 DEF Mapped, MapTypeOK, Tree
  <2>5. HasResolved(r)'
    BY <1>1, <1>2, <1>3, <2>4 DEF HasResolved, At, Mapped
  <2> QED BY <2>3, <2>5
<1> QED BY <1>4, <1>5, <1>6, <1>7, <1>8

(* Every import leads somewhere, if only to nothing.                       *)
LEMMA ResolvedSome ==
    ASSUME NEW listed, NEW F, NEW i \in Import
    PROVE  Resolved(listed, F, i) # {} /\ Resolved(listed, F, i) \subseteq Target
<1>1. LeadsTo(listed, F, i) \subseteq Path
  BY DEF LeadsTo, Declarers, Import
<1> QED BY <1>1 DEF Resolved, Target

LEMMA InferredAreEdges == ASSUME NEW F PROVE Inferred(F) \subseteq Edge
BY DEF Inferred, Edge

(* The imports that are stored are those of the files of the map.          *)
LEMMA StoredAreWritten ==
    ASSUME MapInv, ~torn, mark = version
    PROVE  /\ \A t \in target : t \in Arrow /\ (file[t.path] # Gone => t.import \in Imports(file[t.path]))
           /\ \A a \in Arrow : file[a.path] # Gone /\ a.import \in Imports(file[a.path]) =>
                 \E t \in target : SameImport(a, t)
           /\ \A a \in Arrow : file[a.path] # Gone /\ (\E t \in target : SameImport(a, t)) =>
                 a.import \in Imports(file[a.path])
<1>1. ImportsFollow /\ target \subseteq Arrow
  BY DEF MapInv, MapTypeOK, Fresh
<1>2. ASSUME NEW a \in Arrow, file[a.path] # Gone, a.import \in Imports(file[a.path])
      PROVE  \E t \in target : SameImport(a, t)
  <2>1. a.path \in Path
    BY DEF Arrow
  <2>2. PICK t \in target : t.path = a.path /\ t.import = a.import
    BY <1>1, <1>2, <2>1 DEF ImportsFollow
  <2> QED BY <2>2 DEF SameImport
<1>3. ASSUME NEW a \in Arrow, file[a.path] # Gone, NEW t \in target, SameImport(a, t)
      PROVE  a.import \in Imports(file[a.path])
  BY <1>1, <1>3 DEF ImportsFollow, SameImport
<1> QED BY <1>1, <1>2, <1>3 DEF ImportsFollow

LEMMA ResolveStep == ASSUME MapInv, NEW r \in Process, Resolve(r) PROVE MapInv'
<1> USE DEF MapInv
<1> DEFINE led == {a \in Arrow : /\ file[a.path] # Gone /\ \E t \in target : SameImport(a, t)
                                /\ a.to \in Resolved(job[r].listed, file, a.import)}
           edges == Inferred(file)
           j == [job[r] EXCEPT !.at = "point", !.led = led, !.edges = edges]
<1>1. /\ At(r, "resolve") /\ Goto(r, j)
      /\ UNCHANGED <<tree, excluded, version, mark, file, fact, target, implied, cache, torn>>
  BY DEF Resolve, world, store, budget
<1>a. led \subseteq Arrow /\ edges \subseteq Edge
  BY InferredAreEdges
<1> HIDE DEF led, edges
<1>2. /\ j \in Job
      /\ j.at = "point" /\ j.alone = job[r].alone
      /\ j.listed = job[r].listed /\ j.covered = job[r].covered
      /\ j.parsed = job[r].parsed /\ j.led = led /\ j.edges = edges
  BY <1>a DEF MapTypeOK, Job, Current, Listed, Resolving
<1> HIDE DEF j
<1>3. /\ job' \in [Process -> Job] /\ job'[r] = j
      /\ \A q \in Process : q # r => Trails(q)
  BY <1>1, <1>2, GotoIs
<1>4. MapTypeOK' /\ MarkIsPast'
  BY <1>1, <1>3 DEF MapTypeOK, MarkIsPast
<1>5. OneAlone' /\ NothingParsed' /\ CoveredAreThere'
  <2>1. j.at = "idle" \/ ~j.alone \/ \A q \in Process : q # r => At(q, "idle")
    BY <1>1, <1>2 DEF OneAlone, At
  <2>2. j.at \in {"idle", "drop", "list", "read"} \union Dropping => j.parsed = {}
    BY <1>1, <1>2 DEF Dropping
  <2>3. j.at \in Listed => \A p \in j.covered : j.listed[p] # Gone
    BY <1>1, <1>2 DEF CoveredAreThere, At, Listed, Resolving
  <2> QED BY <1>1, <1>2, <2>1, <2>2, <2>3, JobsFollow
<1>6. Invalidations'
  BY <1>1, <1>2, InvalidationsFollow DEF At, Current, Listed, Resolving
<1>7. Fresh'
  <2>1. ParsedIsNew => ParsedIsNew'
    BY <1>1, <1>2, <1>3 DEF ParsedIsNew, Trails
  <2> QED BY <1>1, <2>1 DEF Fresh, OfThisBuild, FactsFollow, ImportsFollow, Imports
<1>8. Alone'
  <2>1. SUFFICES ASSUME ~torn, job[r].alone
                 PROVE  (SawHead(r) /\ IsLeftToDo(r) /\ HasResolved(r))'
    BY <1>1, <1>2, AloneFollows
  <2>2. SawHead(r) /\ IsLeftToDo(r) /\ HasResolved(r)
    BY <2>1 DEF Alone
  <2>3. SawHead(r)' /\ IsLeftToDo(r)'
    BY <1>1, <1>2, <1>3, <2>2 DEF SawHead, IsLeftToDo, At, Listed, Resolving
  <2>4. file = Mapped /\ job[r].listed = tree
    BY <1>1, <2>2 DEF HasResolved, SawHead, At, Listed, Resolving
  <2>5. mark = version
    BY <1>1, <2>1 DEF Invalidations, Invalidates, At, Current, Listed, Resolving
  <2>6. led = Resolutions(Mapped)
    <3>1. \A a \in Arrow : file[a.path] # Gone =>
             ((\E t \in target : SameImport(a, t)) <=> a.import \in Imports(file[a.path]))
      BY <2>1, <2>5, StoredAreWritten
    <3> QED BY <2>4, <3>1 DEF led, Resolutions
  <2>7. edges = Inferred(Mapped)
    BY <2>4 DEF edges
  <2>8. HasResolved(r)'
    <3>1. Mapped' = Mapped /\ Resolutions(Mapped)' = Resolutions(Mapped) /\ Inferred(Mapped)' = Inferred(Mapped)
      BY <1>1 DEF Mapped, Resolutions, Inferred, Declarers, Imports, Resolved, LeadsTo
    <3> QED BY <1>1, <1>2, <1>3, <2>4, <2>6, <2>7, <3>1 DEF HasResolved, At
  <2> QED BY <2>3, <2>8
<1> QED BY <1>4, <1>5, <1>6, <1>7, <1>8

LEMMA PointStep == ASSUME MapInv, NEW r \in Process, Point(r) PROVE MapInv'
<1> USE DEF MapInv
<1> DEFINE j == [job[r] EXCEPT !.at = "infer"]
           led == {s \in job[r].led : \E t \in target : SameImport(s, t)}
           rest == {t \in target : \A s \in led : ~SameImport(s, t)}
<1>1. /\ At(r, "point") /\ Goto(r, j) /\ Moves(r, "infer", j)
      /\ target' = led \union rest
      /\ UNCHANGED <<tree, excluded, version, mark, file, fact, implied, cache, torn>>
  BY DEF Point, To, Moves, world, store, budget
<1> HIDE DEF j
<1>2. /\ j \in Job
      /\ j.at = "infer" /\ j.alone = job[r].alone
      /\ j.listed = job[r].listed /\ j.covered = job[r].covered /\ j.known = job[r].known
      /\ j.parsed = job[r].parsed /\ j.led = job[r].led /\ j.edges = job[r].edges
  BY <1>1, MovesIs DEF Dropping, Current, Listed, Resolving
<1>3. /\ job' \in [Process -> Job] /\ job'[r] = j
      /\ \A q \in Process : q # r => Trails(q)
  BY <1>1, <1>2, GotoIs
<1>a. led \subseteq Arrow /\ rest \subseteq Arrow /\ target \subseteq Arrow
  BY DEF MapTypeOK, Job
<1>4. MapTypeOK' /\ MarkIsPast'
  BY <1>1, <1>3, <1>a DEF MapTypeOK, MarkIsPast
<1>5. OneAlone' /\ NothingParsed' /\ CoveredAreThere'
  <2>1. j.at = "idle" \/ ~j.alone \/ \A q \in Process : q # r => At(q, "idle")
    BY <1>1, <1>2 DEF OneAlone, At
  <2>2. j.at \in {"idle", "drop", "list", "read"} \union Dropping => j.parsed = {}
    BY <1>1, <1>2 DEF Dropping
  <2>3. j.at \in Listed => \A p \in j.covered : j.listed[p] # Gone
    BY <1>1, <1>2 DEF CoveredAreThere, At, Listed, Resolving
  <2> QED BY <1>1, <1>2, <2>1, <2>2, <2>3, JobsFollow
<1>6. Invalidations'
  BY <1>1, <1>2, InvalidationsFollow DEF At, Current, Listed, Resolving
<1>7. Fresh'
  <2>1. ParsedIsNew => ParsedIsNew'
    BY <1>1, <1>2, <1>3 DEF ParsedIsNew, Trails
  <2>2. ImportsFollow => ImportsFollow'
    <3>1. SUFFICES ASSUME ImportsFollow PROVE ImportsFollow'
      OBVIOUS
    <3>2. ASSUME NEW s \in target', file[s.path] # Gone PROVE s.import \in Imports(file[s.path])
      <4>1. CASE s \in rest
        BY <3>1, <3>2, <4>1 DEF ImportsFollow
      <4>2. CASE s \in led
        <5>1. PICK t \in target : SameImport(s, t)
          BY <4>2
        <5> QED BY <3>1, <3>2, <5>1 DEF ImportsFollow, SameImport
      <4> QED BY <1>1, <4>1, <4>2
    <3>3. ASSUME NEW p \in Path, file[p] # Gone, NEW i \in Imports(file[p])
          PROVE  \E s \in target' : s.path = p /\ s.import = i
      <4>1. PICK t \in target : t.path = p /\ t.import = i
        BY <3>1, <3>3 DEF ImportsFollow
      <4>2. CASE t \in rest
        BY <1>1, <4>1, <4>2
      <4>3. CASE t \notin rest
        <5>1. PICK s \in led : SameImport(s, t)
          BY <4>1, <4>3
        <5> QED BY <1>1, <4>1, <5>1 DEF SameImport
      <4> QED BY <4>2, <4>3
    <3> QED BY <1>1, <3>2, <3>3 DEF ImportsFollow, Imports
  <2> QED BY <1>1, <2>1, <2>2 DEF Fresh, OfThisBuild, FactsFollow
<1>8. Alone'
  <2>1. SUFFICES ASSUME ~torn, job[r].alone
                 PROVE  (SawHead(r) /\ IsLeftToDo(r) /\ HasResolved(r))'
    BY <1>1, <1>2, AloneFollows
  <2>2. SawHead(r) /\ IsLeftToDo(r) /\ HasResolved(r)
    BY <2>1 DEF Alone
  <2>3. SawHead(r)' /\ IsLeftToDo(r)'
    BY <1>1, <1>2, <1>3, <2>2 DEF SawHead, IsLeftToDo, At, Listed, Resolving
  <2>4. /\ file = Mapped /\ job[r].led = Resolutions(Mapped) /\ job[r].edges = Inferred(Mapped)
    BY <1>1, <2>2 DEF HasResolved, At, Resolving
  <2>5. mark = version
    BY <1>1, <2>1 DEF Invalidations, Invalidates, At, Current, Listed, Resolving
  <2>6. led = Resolutions(Mapped)
    BY <2>1, <2>4, <2>5, StoredAreWritten DEF Resolutions
  <2>7. \A t \in rest : file[t.path] = Gone
    <3>1. SUFFICES ASSUME NEW t \in target, file[t.path] # Gone PROVE \E s \in led : SameImport(s, t)
      OBVIOUS
    <3>2. t \in Arrow /\ t.import \in Imports(file[t.path]) /\ t.import \in Import /\ t.path \in Path
      BY <1>a, <2>1, <2>5, <3>1, StoredAreWritten DEF Arrow
    <3>3. PICK q \in Target : q \in Resolved(tree, file, t.import)
      BY <3>2, ResolvedSome
    <3> DEFINE s == [path |-> t.path, import |-> t.import, to |-> q]
    <3>4. s \in Arrow /\ s.path = t.path /\ s.import = t.import /\ s.to = q
      BY <3>2 DEF Arrow
    <3> HIDE DEF s
    <3>5. s \in Resolutions(Mapped)
      BY <2>4, <3>1, <3>2, <3>3, <3>4 DEF Resolutions
    <3> QED BY <2>6, <3>4, <3>5 DEF SameImport
  <2>8. {t \in target' : file[t.path] # Gone} = Resolutions(Mapped)
    <3>1. \A t \in Resolutions(Mapped) : file[t.path] # Gone
      BY <2>4 DEF Resolutions
    <3> HIDE DEF led, rest
    <3> QED BY <1>1, <2>6, <2>7, <3>1
  <2>9. HasResolved(r)'
    <3>1. Mapped' = Mapped /\ Resolutions(Mapped)' = Resolutions(Mapped) /\ Inferred(Mapped)' = Inferred(Mapped)
      BY <1>1 DEF Mapped, Resolutions, Inferred, Declarers, Imports, Resolved, LeadsTo
    <3> QED BY <1>1, <1>2, <1>3, <2>4, <2>8, <3>1 DEF HasResolved, At
  <2> QED BY <2>3, <2>9
<1> QED BY <1>4, <1>5, <1>6, <1>7, <1>8

LEMMA InferStep == ASSUME MapInv, NEW r \in Process, Infer(r) PROVE MapInv'
<1> USE DEF MapInv
<1> DEFINE j == [job[r] EXCEPT !.at = "done"]
<1>1. /\ At(r, "infer") /\ Goto(r, j) /\ Moves(r, "done", j)
      /\ implied' = job[r].edges
      /\ UNCHANGED <<tree, excluded, version, mark, file, fact, target, cache, torn>>
  BY DEF Infer, To, Moves, world, store, budget
<1> HIDE DEF j
<1>2. /\ j \in Job
      /\ j.at = "done" /\ j.alone = job[r].alone
      /\ j.listed = job[r].listed /\ j.covered = job[r].covered /\ j.known = job[r].known
      /\ j.parsed = job[r].parsed /\ j.led = job[r].led /\ j.edges = job[r].edges
  BY <1>1, MovesIs DEF Dropping, Current, Listed, Resolving
<1>3. /\ job' \in [Process -> Job] /\ job'[r] = j
      /\ \A q \in Process : q # r => Trails(q)
  BY <1>1, <1>2, GotoIs
<1>4. MapTypeOK' /\ MarkIsPast'
  <2>1. job[r].edges \subseteq Edge
    BY DEF MapTypeOK, Job
  <2> QED BY <1>1, <1>3, <2>1 DEF MapTypeOK, MarkIsPast
<1>5. OneAlone' /\ NothingParsed' /\ CoveredAreThere'
  <2>1. j.at = "idle" \/ ~j.alone \/ \A q \in Process : q # r => At(q, "idle")
    BY <1>1, <1>2 DEF OneAlone, At
  <2>2. j.at \in {"idle", "drop", "list", "read"} \union Dropping => j.parsed = {}
    BY <1>1, <1>2 DEF Dropping
  <2>3. j.at \in Listed => \A p \in j.covered : j.listed[p] # Gone
    BY <1>1, <1>2 DEF CoveredAreThere, At, Listed, Resolving
  <2> QED BY <1>1, <1>2, <2>1, <2>2, <2>3, JobsFollow
<1>6. Invalidations'
  BY <1>1, <1>2, InvalidationsFollow DEF At, Current, Listed, Resolving
<1>7. Fresh'
  <2>1. ParsedIsNew => ParsedIsNew'
    BY <1>1, <1>2, <1>3 DEF ParsedIsNew, Trails
  <2> QED BY <1>1, <2>1 DEF Fresh, OfThisBuild, FactsFollow, ImportsFollow, Imports
<1>8. Alone'
  <2>1. SUFFICES ASSUME ~torn, job[r].alone
                 PROVE  (SawHead(r) /\ IsLeftToDo(r) /\ HasResolved(r))'
    BY <1>1, <1>2, AloneFollows
  <2>2. SawHead(r) /\ IsLeftToDo(r) /\ HasResolved(r)
    BY <2>1 DEF Alone
  <2>3. SawHead(r)' /\ IsLeftToDo(r)'
    BY <1>1, <1>2, <1>3, <2>2 DEF SawHead, IsLeftToDo, At, Listed, Resolving
  <2>4. /\ file = Mapped /\ job[r].edges = Inferred(Mapped)
        /\ {t \in target : file[t.path] # Gone} = Resolutions(Mapped)
    BY <1>1, <2>2 DEF HasResolved, At, Resolving
  <2>5. Mapped' = Mapped /\ Resolutions(Mapped)' = Resolutions(Mapped) /\ Inferred(Mapped)' = Inferred(Mapped)
    BY <1>1 DEF Mapped, Resolutions, Inferred, Declarers, Imports, Resolved, LeadsTo
  <2> QED BY <1>1, <1>2, <1>3, <2>3, <2>4, <2>5 DEF HasResolved, At
<1> QED BY <1>4, <1>5, <1>6, <1>7, <1>8

LEMMA MapStep == ASSUME MapInv, [MapNext]_mapVars PROVE MapInv'
<1>1. CASE UNCHANGED mapVars
  <2>1. UNCHANGED <<tree, excluded, version, mark, file, fact, target, implied, cache, job, torn>>
    BY <1>1 DEF mapVars, world, store, budget
  <2>2. MapTypeOK' /\ MarkIsPast' /\ OneAlone' /\ NothingParsed' /\ CoveredAreThere'
    BY <2>1 DEF MapInv, MapTypeOK, MarkIsPast, OneAlone, NothingParsed, CoveredAreThere, At
  <2>3. Invalidations'
    BY <2>1 DEF MapInv, Invalidations, Invalidates, At
  <2>4. Fresh'
    BY <2>1 DEF MapInv, Fresh, OfThisBuild, FactsFollow, ImportsFollow, ParsedIsNew, Imports
  <2>5. Alone'
    <3>1. Mapped' = Mapped /\ Resolutions(Mapped)' = Resolutions(Mapped) /\ Inferred(Mapped)' = Inferred(Mapped)
      BY <2>1 DEF Mapped, Resolutions, Inferred, Declarers, Imports, Resolved, LeadsTo
    <3> QED BY <2>1, <3>1 DEF MapInv, Alone, SawHead, IsLeftToDo, HasResolved, At
  <2> QED BY <2>2, <2>3, <2>4, <2>5 DEF MapInv
<1>2. CASE Change \/ Upgrade
  BY <1>2, ChangeStep, UpgradeStep
<1>3. ASSUME NEW r \in Process,
             Begin(r) \/ DropFiles(r) \/ DropRows(r) \/ DropCache(r) \/ Stamp(r)
      PROVE  MapInv'
  BY <1>3, BeginStep, DropFilesStep, DropRowsStep, DropCacheStep, StampStep
<1>4. ASSUME NEW r \in Process, ListFiles(r) \/ ReadChanged(r) \/ Keep(r) PROVE MapInv'
  BY <1>4, ListStep, ReadStep, KeepStep
<1>5. ASSUME NEW r \in Process, NEW p \in Path, RemoveFile(r, p) PROVE MapInv'
  BY <1>5, RemoveStep
<1>6. ASSUME NEW r \in Process, NEW f \in job[r].parsed, Replace(r, f) PROVE MapInv'
  BY <1>6, ReplaceStep
<1>7. ASSUME NEW r \in Process, Prune(r) \/ Resolve(r) \/ Point(r) \/ Infer(r) PROVE MapInv'
  BY <1>7, PruneStep, ResolveStep, PointStep, InferStep
<1>8. ASSUME NEW r \in Process, End(r) \/ Crash(r) PROVE MapInv'
  BY <1>8, LeaveStep DEF End, Crash, At, budget
<1> QED BY <1>1, <1>2, <1>3, <1>4, <1>5, <1>6, <1>7, <1>8 DEF MapNext

(* A refresh that runs alone to its end leaves what a rebuild from nothing *)
(* gives (refresh_code, refresh_root): whatever crashes, overlaps and      *)
(* older builds left behind, unless a table was emptied under a refresh.   *)
THEOREM MapIsARebuild == MapSpec => []RefreshIsARebuild
<1>1. MapInv => RefreshIsARebuild
  <2>1. SUFFICES ASSUME MapInv, NEW r \in Process, At(r, "done"), job[r].alone, ~torn
                 PROVE  /\ file = Mapped
                        /\ \A p \in Path : file[p] # Gone =>
                              fact[p] = {[blob |-> tree[p], by |-> version]}
                        /\ {t \in target : file[t.path] # Gone} = Resolutions(Mapped)
                        /\ implied = Inferred(Mapped)
    BY DEF RefreshIsARebuild
  <2>2. HasResolved(r) /\ Invalidates(r)
    BY <2>1 DEF MapInv, Alone, Invalidations
  <2>3. /\ file = Mapped /\ implied = Inferred(Mapped)
        /\ {t \in target : file[t.path] # Gone} = Resolutions(Mapped)
    BY <2>1, <2>2 DEF HasResolved, At, Resolving
  <2>4. FactsFollow
    BY <2>1, <2>2 DEF MapInv, Fresh, Invalidates, At, Current, Listed, Resolving
  <2>5. \A p \in Path : file[p] # Gone => file[p] = tree[p]
    BY <2>3 DEF Mapped
  <2> QED BY <2>3, <2>4, <2>5 DEF FactsFollow
<1> QED BY <1>1, InitMap, MapStep, PTL DEF MapSpec

-----------------------------------------------------------------------------
(* THE MERGE DRIVER                                                        *)

(* The k-th of a finite set of numbers: every member is one of them.       *)
Below(S, i) == {j \in S : j < i}

LEMMA BelowGrows ==
    ASSUME NEW S \in SUBSET Nat, IsFiniteSet(S), NEW i \in S
    PROVE  /\ IsFiniteSet(Below(S, i)) /\ Cardinality(Below(S, i)) \in Nat
           /\ Cardinality(Below(S, i)) < Cardinality(S)
           /\ \A j \in S : i < j => Cardinality(Below(S, i)) < Cardinality(Below(S, j))
<1>1. IsFiniteSet(S \ {i}) /\ Cardinality(S \ {i}) = Cardinality(S) - 1 /\ Cardinality(S) \in Nat
  BY FS_RemoveElement, FS_CardinalityType
<1>2. Below(S, i) \in SUBSET (S \ {i})
  BY DEF Below
<1>3. IsFiniteSet(Below(S, i)) /\ Cardinality(Below(S, i)) <= Cardinality(S \ {i})
  BY <1>1, <1>2, FS_Subset
<1>4. Cardinality(Below(S, i)) \in Nat
  BY <1>3, FS_CardinalityType
<1>5. ASSUME NEW j \in S, i < j PROVE Cardinality(Below(S, i)) < Cardinality(Below(S, j))
  <2>1. i \notin Below(S, i) /\ Below(S, i) \union {i} \in SUBSET Below(S, j)
    <3>1. i \notin Below(S, i)
      BY DEF Below
    <3>2. ASSUME NEW x \in Below(S, i) \union {i} PROVE x \in Below(S, j)
      BY <1>5, <3>2 DEF Below
    <3> QED BY <3>1, <3>2
  <2>2. Cardinality(Below(S, i) \union {i}) = Cardinality(Below(S, i)) + 1
    BY <1>3, <2>1, FS_AddElement
  <2>3. IsFiniteSet(Below(S, j))
    <3>1. Below(S, j) \in SUBSET S
      BY DEF Below
    <3> QED BY <3>1, FS_Subset
  <2>4. Cardinality(Below(S, i) \union {i}) <= Cardinality(Below(S, j)) /\ Cardinality(Below(S, j)) \in Nat
    BY <2>1, <2>3, FS_Subset, FS_CardinalityType
  <2> QED BY <1>4, <2>2, <2>4
<1> QED BY <1>1, <1>3, <1>4, <1>5

LEMMA NthIsAll ==
    ASSUME NEW S \in SUBSET Nat, IsFiniteSet(S)
    PROVE  {Nth(S, k) : k \in 1..Cardinality(S)} = S
<1> DEFINE n == Cardinality(S)
<1> DEFINE rank == [i \in S |-> Cardinality(Below(S, i)) + 1]
<1>1. n \in Nat
  BY FS_CardinalityType
<1>2. \A i \in S : Cardinality(Below(S, i)) \in Nat /\ Cardinality(Below(S, i)) < n
  BY BelowGrows
<1>3. \A i, j \in S : Cardinality(Below(S, i)) = Cardinality(Below(S, j)) => i = j
  <2> SUFFICES ASSUME NEW i \in S, NEW j \in S, i # j
               PROVE  Cardinality(Below(S, i)) # Cardinality(Below(S, j))
    OBVIOUS
  <2>1. i < j \/ j < i
    OBVIOUS
  <2>2. CASE i < j
    BY <1>2, <2>2, BelowGrows
  <2>3. CASE j < i
    BY <1>2, <2>3, BelowGrows
  <2> QED BY <2>1, <2>2, <2>3
<1>4. rank \in [S -> 1..n]
  BY <1>1, <1>2
<1>5. rank \in Injection(S, 1..n)
  BY <1>2, <1>3, <1>4 DEF Injection, IsInjective
<1>6. IsFiniteSet(1..n) /\ Cardinality(1..n) = n
  BY <1>1, FS_Interval
<1>7. rank \in Surjection(S, 1..n)
  BY <1>5, <1>6, FS_Injection
<1>8. \A k \in 1..n : \E i \in S : rank[i] = k
  BY <1>7 DEF Surjection
<1>9. \A k \in 1..n : Nth(S, k) \in S /\ Cardinality(Below(S, Nth(S, k))) = k - 1
  <2> SUFFICES ASSUME NEW k \in 1..n
               PROVE  Nth(S, k) \in S /\ Cardinality(Below(S, Nth(S, k))) = k - 1
    OBVIOUS
  <2>1. PICK i \in S : rank[i] = k
    BY <1>8
  <2>2. Cardinality(Below(S, i)) = k - 1
    BY <1>1, <1>2, <2>1
  <2> QED BY <2>2 DEF Nth, Below
<1>10. \A i \in S : rank[i] \in 1..n /\ Nth(S, rank[i]) = i
  <2> SUFFICES ASSUME NEW i \in S PROVE rank[i] \in 1..n /\ Nth(S, rank[i]) = i
    OBVIOUS
  <2>1. rank[i] \in 1..n /\ rank[i] - 1 = Cardinality(Below(S, i))
    BY <1>1, <1>2, <1>4
  <2>2. Nth(S, rank[i]) \in S /\ Cardinality(Below(S, Nth(S, rank[i]))) = rank[i] - 1
    BY <1>9, <2>1
  <2> QED BY <1>3, <2>1, <2>2
<1> QED BY <1>4, <1>9, <1>10
-----------------------------------------------------------------------------
(* A member of a sequence has a place where it comes first.                *)
LEMMA FirstPlace ==
    ASSUME NEW s \in Seq(Nat), NEW x \in ToSet(s)
    PROVE  \E i \in DOMAIN s : s[i] = x /\ \A j \in 1..(i - 1) : s[j] # s[i]
<1> DEFINE below == {ss \in Nat \X Nat : ss[1] < ss[2]}
<1> DEFINE places == {i \in DOMAIN s : s[i] = x}
<1>1. places \subseteq Nat /\ places # {} /\ DOMAIN s = 1..Len(s) /\ Len(s) \in Nat
  BY DEF ToSet
<1>2. IsWellFoundedOn(below, Nat)
  BY NatLessThanWellFounded DEF OpToRel
<1> HIDE DEF below
<1>3. \E i \in places : \A j \in places : ~ (<<j, i>> \in below)
  BY <1>1, <1>2, WFMin
<1>4. PICK i \in places : \A j \in places : ~ (<<j, i>> \in below)
  BY <1>3
<1>5. \A j \in 1..(i - 1) : s[j] # s[i]
  <2> SUFFICES ASSUME NEW j \in 1..(i - 1), s[j] = s[i] PROVE FALSE
    OBVIOUS
  <2>1. i \in 1..Len(s) /\ s[i] = x
    BY <1>1, <1>4
  <2>2. j \in places
    BY <1>1, <2>1
  <2>3. <<j, i>> \in below
    BY <2>1 DEF below
  <2> QED BY <1>4, <2>2, <2>3
<1> QED BY <1>4, <1>5

LEMMA JoinedItems ==
    ASSUME NEW s \in Seq(Nat), NEW t \in Seq(Nat)
    PROVE  s \o t \in Seq(Nat) /\ ToSet(s \o t) = ToSet(s) \union ToSet(t)
<1>1. s \o t \in Seq(Nat)
  OBVIOUS
<1>2. ASSUME NEW x \in ToSet(s \o t) PROVE x \in ToSet(s) \union ToSet(t)
  <2>1. PICK i \in DOMAIN (s \o t) : x = (s \o t)[i]
    BY DEF ToSet
  <2>2. i \in 1..(Len(s) + Len(t)) /\ (i <= Len(s) => x = s[i]) /\ (i > Len(s) => x = t[i - Len(s)])
    BY <2>1
  <2>3. CASE i <= Len(s)
    <3>1. i \in DOMAIN s
      BY <2>2, <2>3
    <3> QED BY <2>2, <2>3, <3>1 DEF ToSet
  <2>4. CASE i > Len(s)
    <3>1. i - Len(s) \in DOMAIN t
      BY <2>2, <2>4
    <3> QED BY <2>2, <2>4, <3>1 DEF ToSet
  <2> QED BY <2>2, <2>3, <2>4
<1>3. ASSUME NEW x \in ToSet(s) PROVE x \in ToSet(s \o t)
  <2>1. PICK i \in DOMAIN s : x = s[i]
    BY DEF ToSet
  <2>2. i \in DOMAIN (s \o t) /\ (s \o t)[i] = x
    BY <2>1
  <2> QED BY <2>2 DEF ToSet
<1>4. ASSUME NEW x \in ToSet(t) PROVE x \in ToSet(s \o t)
  <2>1. PICK i \in DOMAIN t : x = t[i]
    BY DEF ToSet
  <2>2. i + Len(s) \in DOMAIN (s \o t) /\ (s \o t)[i + Len(s)] = x
    BY <2>1
  <2> QED BY <2>2 DEF ToSet
<1> QED BY <1>1, <1>2, <1>3, <1>4

(* set_merge keeps what nobody removed, and what somebody added.           *)
Kept(base, ours, theirs) ==
    {x \in base \union ours \union theirs : x \in base => x \in ours /\ x \in theirs}

LEMMA SetMergeKeeps ==
    ASSUME NEW base \in Seq(Nat), NEW ours \in Seq(Nat), NEW theirs \in Seq(Nat)
    PROVE  /\ SetMerge(base, ours, theirs) \in Seq(Nat)
           /\ ToSet(SetMerge(base, ours, theirs)) = Kept(ToSet(base), ToSet(ours), ToSet(theirs))
<1> DEFINE all == base \o ours \o theirs
<1> DEFINE Removed(x) == x \in ToSet(base) /\ (x \notin ToSet(ours) \/ x \notin ToSet(theirs))
<1> DEFINE First == {i \in DOMAIN all : (\A j \in 1..(i - 1) : all[j] # all[i]) /\ ~Removed(all[i])}
<1>1. all \in Seq(Nat) /\ ToSet(all) = ToSet(base) \union ToSet(ours) \union ToSet(theirs)
  <2>1. base \o ours \in Seq(Nat) /\ ToSet(base \o ours) = ToSet(base) \union ToSet(ours)
    BY JoinedItems
  <2> QED BY <2>1, JoinedItems
<1>2. DOMAIN all = 1..Len(all) /\ Len(all) \in Nat
  BY <1>1
<1>3. IsFiniteSet(First) /\ First \in SUBSET Nat /\ First \subseteq DOMAIN all
  <2>1. IsFiniteSet(1..Len(all))
    BY <1>2, FS_Interval
  <2> HIDE DEF all
  <2>2. First \in SUBSET (1..Len(all))
    BY <1>2
  <2> QED BY <1>2, <2>1, <2>2, FS_Subset
<1>4. SetMerge(base, ours, theirs) = [k \in 1..Cardinality(First) |-> all[Nth(First, k)]]
  BY DEF SetMerge
<1>5. ToSet(SetMerge(base, ours, theirs)) = {all[i] : i \in First}
  <2> HIDE DEF First, all
  <2>1. {Nth(First, k) : k \in 1..Cardinality(First)} = First
    BY <1>3, NthIsAll
  <2>2. ToSet(SetMerge(base, ours, theirs)) = {all[Nth(First, k)] : k \in 1..Cardinality(First)}
    BY <1>4 DEF ToSet
  <2> QED BY <2>1, <2>2
<1>6. \A i \in First : all[i] \in ToSet(all) /\ ~Removed(all[i])
  <2> HIDE DEF all
  <2> QED BY DEF ToSet
<1>7. \A x \in ToSet(all) : ~Removed(x) => \E i \in First : all[i] = x
  <2> HIDE DEF all
  <2>1. \A x \in ToSet(all) : \E i \in DOMAIN all : all[i] = x /\ \A j \in 1..(i - 1) : all[j] # all[i]
    BY <1>1, FirstPlace
  <2> QED BY <2>1
<1>8. SetMerge(base, ours, theirs) \in Seq(Nat)
  <2> DEFINE n == Cardinality(First)
  <2> DEFINE item == [k \in 1..n |-> all[Nth(First, k)]]
  <2> HIDE DEF First, all
  <2>1. n \in Nat
    BY <1>3, FS_CardinalityType
  <2>2. \A k \in 1..n : Nth(First, k) \in First
    BY <1>3, NthIsAll
  <2>3. \A i \in DOMAIN all : all[i] \in Nat
    BY <1>1
  <2>4. \A k \in 1..n : all[Nth(First, k)] \in Nat
    BY <1>3, <2>2, <2>3
  <2> HIDE DEF n
  <2>5. item \in [1..n -> Nat]
    BY <2>4
  <2>6. SetMerge(base, ours, theirs) = item
    BY <1>4 DEF n
  <2> HIDE DEF item
  <2> QED BY <2>1, <2>5, <2>6
<1> HIDE DEF all, First
<1> QED BY <1>1, <1>5, <1>6, <1>7, <1>8 DEF Kept
-----------------------------------------------------------------------------
(* One field.  What both sides keep of the base, and what either adds.     *)
BothLists(o, t) == o.shape = "seq" /\ t.shape = "seq"
Was(b) == IF b.shape = "seq" THEN b.v ELSE <<>>

LEMMA ListsMerge ==
    ASSUME NEW b \in Value, NEW o \in Value, NEW t \in Value
    PROVE  ToSet(SetMerge(Was(b), o.v, t.v)) =
              (ToSet(o.v) \cap ToSet(t.v)) \cup (ToSet(o.v) \ ToSet(Was(b)))
                                           \cup (ToSet(t.v) \ ToSet(Was(b)))
<1>1. Was(b) \in Seq(Nat) /\ o.v \in Seq(Nat) /\ t.v \in Seq(Nat)
  BY DEF Value, Was
<1>2. ToSet(SetMerge(Was(b), o.v, t.v)) = Kept(ToSet(Was(b)), ToSet(o.v), ToSet(t.v))
  BY <1>1, SetMergeKeeps
<1> QED BY <1>2 DEF Kept

LEMMA ListsAreMerged ==
    ASSUME NEW key, NEW b \in Value, NEW o \in Value, NEW t \in Value, NEW ctx, BothLists(o, t)
    PROVE  DoubleEdit(key, b, o, t, ctx) = List(SetMerge(Was(b), o.v, t.v))
<1>1. ~IsTime(o)
  BY DEF BothLists, IsTime
<1>2. o.shape = "seq" /\ t.shape = "seq"
  BY DEF BothLists
<1> QED BY <1>1, <1>2 DEF DoubleEdit, Was, IsCollection

(* Two edits of which one is no list: one of them stays, or neither.       *)
LEMMA OneIsChosen ==
    ASSUME NEW key, NEW b, NEW o, NEW t, NEW ctx, ~BothLists(o, t)
    PROVE  DoubleEdit(key, b, o, t, ctx) \in {o, t, Marked}
BY DEF DoubleEdit, BothLists, IsTime, IsCollection

(* What a side changed alone is taken as it is.                            *)
LEMMA EditsAreKept ==
    ASSUME NEW key, NEW b \in Value, NEW o \in Value, NEW t \in Value, NEW ctx,
           NEW m, m = MergeField(key, b, o, t, ctx), m # Marked
    PROVE  IF o # b /\ t # b
           THEN IF BothLists(o, t)
                THEN /\ m.shape = "seq"
                     /\ ToSet(m.v) = (ToSet(o.v) \cap ToSet(t.v))
                                        \cup (ToSet(o.v) \ ToSet(Was(b)))
                                        \cup (ToSet(t.v) \ ToSet(Was(b)))
                ELSE m \in {o, t}
           ELSE m = IF t = b THEN o ELSE t
<1>1. CASE ~(o # b /\ t # b)
  BY <1>1 DEF MergeField
<1>2. CASE o # b /\ t # b /\ o = t
  <2>1. m = o
    BY <1>2 DEF MergeField
  <2> QED BY <1>2, <2>1 DEF BothLists
<1>3. CASE o # b /\ t # b /\ o # t
  <2>1. m = DoubleEdit(key, b, o, t, ctx)
    BY <1>3 DEF MergeField
  <2>2. CASE BothLists(o, t)
    <3>1. m = List(SetMerge(Was(b), o.v, t.v))
      BY <2>1, <2>2, ListsAreMerged
    <3>2. m.shape = "seq" /\ m.v = SetMerge(Was(b), o.v, t.v)
      BY <3>1 DEF List
    <3> QED BY <1>3, <2>2, <3>2, ListsMerge
  <2>3. CASE ~BothLists(o, t)
    BY <1>3, <2>1, <2>3, OneIsChosen
  <2> QED BY <2>2, <2>3
<1> QED BY <1>1, <1>2, <1>3

Claim == {"claimed_by", "claimed_at"}

LEMMA ClaimsConflict ==
    ASSUME NEW key \in Claim, NEW b, NEW o, NEW t, NEW ctx,
           o # t, o # b, t # b, ~BothLists(o, t)
    PROVE  MergeField(key, b, o, t, ctx) = Marked
<1>1. FieldPolicy(key, ctx) = "conflict" /\ key # "updated"
  BY DEF FieldPolicy, Claim
<1> QED BY <1>1 DEF MergeField, DoubleEdit, BothLists, IsCollection

LEMMA TheReplayedStays ==
    ASSUME NEW key \in Keys, key # "updated", NEW b, NEW o, NEW t, NEW ctx,
           ctx.newer = "theirs", ctx.policies = [k \in Keys |-> "commit_order"],
           t.shape = "scalar", t # b, MergeField(key, b, o, t, ctx) # Marked
    PROVE  MergeField(key, b, o, t, ctx) = t
<1>1. FieldPolicy(key, ctx) \in {"conflict", "commit_order"}
  BY DEF FieldPolicy
<1>2. FieldPolicy(key, ctx) = "commit_order" => Winner(key, ctx) = "theirs"
  BY DEF Winner
<1> QED BY <1>1, <1>2 DEF MergeField, DoubleEdit, IsCollection

(* Turned round, a field is the same, or the same list in another order.   *)
Alike(x, y) == x = y \/ (BothLists(x, y) /\ ToSet(x.v) = ToSet(y.v))

LEMMA TheWinnerTurns ==
    ASSUME NEW key \in Keys, NEW ctx \in Contexts
    PROVE  /\ FieldPolicy(key, Turned(ctx)) = FieldPolicy(key, ctx)
           /\ FieldPolicy(key, ctx) # "conflict" =>
                 (Winner(key, Turned(ctx)) = "ours" <=> Winner(key, ctx) # "ours")
           /\ Turned(ctx).workflow = ctx.workflow
<1>1. /\ Turned(ctx).local = Flip(ctx.local) /\ Turned(ctx).newer = Flip(ctx.newer)
      /\ Turned(ctx).policies = ctx.policies /\ Turned(ctx).workflow = ctx.workflow
  BY DEF Turned, Contexts
<1>2. ctx.local \in Sides /\ ctx.newer \in Sides /\ ctx.policies[key] \in Policies
  BY DEF Contexts
<1>3. \A s \in Sides : (Flip(s) = "ours" <=> s # "ours") /\ Flip(s) \in Sides
  BY DEF Sides, Flip
<1>4. FieldPolicy(key, ctx) \in Policies
  BY <1>2 DEF FieldPolicy, Policies
<1>5. FieldPolicy(key, Turned(ctx)) = FieldPolicy(key, ctx)
  BY <1>1 DEF FieldPolicy
<1>6. CASE FieldPolicy(key, ctx) = "commit_order"
  BY <1>1, <1>2, <1>3, <1>5, <1>6 DEF Winner
<1>7. CASE FieldPolicy(key, ctx) = "prefer_local"
  BY <1>1, <1>2, <1>3, <1>5, <1>7 DEF Winner
<1>8. CASE FieldPolicy(key, ctx) = "prefer_incoming"
  <2>1. Winner(key, ctx) = Flip(ctx.local) /\ Winner(key, Turned(ctx)) = Flip(Flip(ctx.local))
    BY <1>1, <1>5, <1>8 DEF Winner
  <2> QED BY <1>1, <1>2, <1>3, <1>5, <2>1
<1> QED BY <1>1, <1>4, <1>5, <1>6, <1>7, <1>8 DEF Policies

LEMMA ListsTurn ==
    ASSUME NEW b \in Value, NEW o \in Value, NEW t \in Value
    PROVE  ToSet(SetMerge(Was(b), o.v, t.v)) = ToSet(SetMerge(Was(b), t.v, o.v))
<1> DEFINE O == ToSet(o.v)  T == ToSet(t.v)  W == ToSet(Was(b))
<1>1. ToSet(SetMerge(Was(b), o.v, t.v)) = (O \cap T) \cup (O \ W) \cup (T \ W)
  BY ListsMerge
<1>2. ToSet(SetMerge(Was(b), t.v, o.v)) = (T \cap O) \cup (T \ W) \cup (O \ W)
  BY ListsMerge
<1> HIDE DEF O, T, W
<1> QED BY <1>1, <1>2

(* Two edits that are not both lists, the one read as the other.           *)
LEMMA ChoicesTurn ==
    ASSUME NEW key \in Keys, NEW b \in Value, NEW o \in Value, NEW t \in Value,
           NEW ctx \in Contexts, ~BothLists(o, t)
    PROVE  DoubleEdit(key, b, o, t, ctx) = DoubleEdit(key, b, t, o, Turned(ctx))
<1>1. CASE key = "updated" /\ IsTime(o) /\ IsTime(t)
  <2>1. o.shape = "scalar" /\ t.shape = "scalar"
    BY <1>1 DEF IsTime
  <2>2. /\ o = [shape |-> "scalar", v |-> o.v] /\ t = [shape |-> "scalar", v |-> t.v]
        /\ o.v \in Seq(Nat) /\ t.v \in Seq(Nat) /\ Len(o.v) = 1 /\ Len(t.v) = 1
    BY <2>1 DEF Value
  <2>3. o.v[1] \in Nat /\ t.v[1] \in Nat /\ o.v = <<o.v[1]>> /\ t.v = <<t.v[1]>>
    BY <2>2
  <2>4. o.v[1] = t.v[1] => o = t
    BY <2>2, <2>3
  <2>5. DoubleEdit(key, b, o, t, ctx) = IF o.v[1] >= t.v[1] THEN o ELSE t
    BY <1>1, <2>1 DEF DoubleEdit
  <2>6. DoubleEdit(key, b, t, o, Turned(ctx)) = IF t.v[1] >= o.v[1] THEN t ELSE o
    BY <1>1, <2>1 DEF DoubleEdit
  <2> QED BY <2>3, <2>4, <2>5, <2>6
<1>2. CASE ~(key = "updated" /\ IsTime(o) /\ IsTime(t))
  <2> DEFINE Clash == \/ o.shape = "map" /\ t.shape = "map"
                      \/ o.shape # t.shape /\ (IsCollection(o) \/ IsCollection(t))
  <2>1. DoubleEdit(key, b, o, t, ctx) =
           IF Clash \/ FieldPolicy(key, ctx) = "conflict" THEN Marked
           ELSE IF Winner(key, ctx) = "ours" THEN o ELSE t
    BY <1>2 DEF DoubleEdit, BothLists
  <2>2. DoubleEdit(key, b, t, o, Turned(ctx)) =
           IF Clash \/ FieldPolicy(key, Turned(ctx)) = "conflict" THEN Marked
           ELSE IF Winner(key, Turned(ctx)) = "ours" THEN t ELSE o
    BY <1>2 DEF DoubleEdit, BothLists
  <2> HIDE DEF Clash
  <2> QED BY <2>1, <2>2, TheWinnerTurns
<1> QED BY <1>1, <1>2

LEMMA FieldsTurn ==
    ASSUME NEW key \in Keys, NEW b \in Value, NEW o \in Value, NEW t \in Value,
           NEW ctx \in Contexts
    PROVE  Alike(MergeField(key, b, o, t, ctx), MergeField(key, b, t, o, Turned(ctx)))
<1>1. CASE o = t \/ o = b \/ t = b
  BY <1>1 DEF MergeField, Alike
<1>2. CASE o # t /\ o # b /\ t # b /\ BothLists(o, t)
  <2>1. MergeField(key, b, o, t, ctx) = List(SetMerge(Was(b), o.v, t.v))
    BY <1>2, ListsAreMerged DEF MergeField
  <2>2. BothLists(t, o)
    BY <1>2 DEF BothLists
  <2>3. DoubleEdit(key, b, t, o, Turned(ctx)) = List(SetMerge(Was(b), t.v, o.v))
    BY <2>2, ListsAreMerged
  <2>4. MergeField(key, b, t, o, Turned(ctx)) = List(SetMerge(Was(b), t.v, o.v))
    BY <1>2, <2>3 DEF MergeField
  <2>5. ToSet(SetMerge(Was(b), o.v, t.v)) = ToSet(SetMerge(Was(b), t.v, o.v))
    BY ListsTurn
  <2> QED BY <2>1, <2>4, <2>5 DEF Alike, BothLists, List
<1>3. CASE o # t /\ o # b /\ t # b /\ ~BothLists(o, t)
  <2>1. DoubleEdit(key, b, o, t, ctx) = DoubleEdit(key, b, t, o, Turned(ctx))
    BY <1>3, ChoicesTurn
  <2> QED BY <1>3, <2>1 DEF MergeField, Alike
<1> QED BY <1>1, <1>2, <1>3

LEMMA StatusTurns ==
    ASSUME NEW from, NEW x, NEW y, NEW ctx, NEW other,
           Alike(x, y), other.workflow = ctx.workflow
    PROVE  IllegalStatus(from, x, ctx) <=> IllegalStatus(from, y, other)
<1>1. CASE x = y
  BY <1>1 DEF IllegalStatus
<1>2. CASE BothLists(x, y)
  BY <1>2 DEF IllegalStatus, BothLists
<1> QED BY <1>1, <1>2 DEF Alike

LEMMA DocumentsTurn ==
    ASSUME NEW key \in Keys, NEW b, NEW o, NEW t, NEW ctx \in Contexts,
           b[key] \in Value, o[key] \in Value, t[key] \in Value
    PROVE  Same(MergeDocuments(b, o, t, ctx)[key], MergeDocuments(b, t, o, Turned(ctx))[key])
<1> DEFINE x == MergeField(key, b[key], o[key], t[key], ctx)
<1> DEFINE y == MergeField(key, b[key], t[key], o[key], Turned(ctx))
<1>1. Alike(x, y)
  BY FieldsTurn
<1>2. MergeDocuments(b, o, t, ctx)[key] =
         IF key = "status" /\ IllegalStatus(b[key], x, ctx) THEN Marked ELSE x
  BY DEF MergeDocuments
<1>3. MergeDocuments(b, t, o, Turned(ctx))[key] =
         IF key = "status" /\ IllegalStatus(b[key], y, Turned(ctx)) THEN Marked ELSE y
  BY DEF MergeDocuments
<1> HIDE DEF x, y
<1>4. IllegalStatus(b[key], x, ctx) <=> IllegalStatus(b[key], y, Turned(ctx))
  BY <1>1, StatusTurns, TheWinnerTurns
<1>5. Same(x, y)
  BY <1>1 DEF Alike, BothLists, Same
<1>6. Same(Marked, Marked)
  BY DEF Same
<1> QED BY <1>2, <1>3, <1>4, <1>5, <1>6
-----------------------------------------------------------------------------
(* The driver: what it has in hand at every step, and what it leaves.      *)
Version == {"base", "ours", "theirs"}

FilesAreRead ==
    /\ op \in {"merge", "rebase"} /\ newer \in Sides /\ shown \in GitShows
    /\ files \in [Version -> File]

Outcome ==
    \/ /\ result.kind = "whole"
       /\ result.ours = TextOf(files["ours"]) /\ result.theirs = TextOf(files["theirs"])
    \/ /\ result.kind = "merged"
       /\ result.doc = MergeDocuments(Base, files["ours"].doc, files["theirs"].doc, MergeContext)

Untouched == disk = AsOurs /\ exit = Running

Left ==
    \/ exit = 0 /\ disk = result /\ Settled
    \/ exit = 1 /\ disk = result /\ ~Settled
    \/ exit = 1 /\ disk \in {AsOurs, Partial}

Steps ==
    \/ pc \in {"read", "merge", "fallback"} /\ Untouched /\ result = Nothing
    \/ pc = "write" /\ Untouched /\ Outcome
    \/ pc = "done" /\ Left /\ Outcome

DriverInvariant == FilesAreRead /\ Steps

LEMMA ContextsAreTyped ==
    ASSUME FilesAreRead
    PROVE  /\ MergeContext \in Contexts
           /\ op = "rebase" => /\ MergeContext.newer = "theirs"
                               /\ MergeContext.policies = [k \in Keys |-> "commit_order"]
<1>1. DefaultContext \in Contexts /\ DefaultContext.policies = [k \in Keys |-> "commit_order"]
  BY DEF DefaultContext, Contexts, Sides, Policies
<1>2. newer \in Sides /\ "ours" \in Sides /\ "theirs" \in Sides /\ ("stage1" \in shown) \in BOOLEAN
  BY DEF FilesAreRead, Sides
<1> QED BY <1>1, <1>2 DEF MergeContext, Contexts

LEMMA VersionsAreTyped ==
    ASSUME FilesAreRead, NEW k \in Keys
    PROVE  /\ Base[k] \in Value
           /\ files["ours"].doc[k] \in Value /\ files["theirs"].doc[k] \in Value
<1>1. \A v \in Version : files[v].doc \in Documents \/ files[v].doc = Blank
  BY DEF FilesAreRead, File
<1>2. Missing \in Value
  BY DEF Missing, Value
<1>3. Blank[k] \in Value
  BY <1>2 DEF Blank
<1>4. \A d \in Documents : d[k] \in Value
  BY DriverAssumption
<1>5. \A v \in Version : files[v].doc[k] \in Value
  BY <1>1, <1>3, <1>4
<1> QED BY <1>3, <1>5 DEF Base, Version

LEMMA DriverStarts ==
    DriverInit => DriverInvariant
BY DEF DriverInit, DriverInvariant, FilesAreRead, Steps, Untouched, Version

LEMMA DriverMoves ==
    DriverInvariant /\ [DriverNext]_driverVars => DriverInvariant'
<1> SUFFICES ASSUME DriverInvariant, [DriverNext]_driverVars PROVE DriverInvariant'
  OBVIOUS
<1> USE DEF DriverInvariant
<1>1. UNCHANGED <<git, files>> => FilesAreRead'
  BY DEF git, FilesAreRead
<1>2. UNCHANGED <<git, files>> =>
         /\ Base' = Base /\ MergeContext' = MergeContext
         /\ \A v \in Version : TextOf(files[v])' = TextOf(files[v])
  BY DEF git, Base, MergeContext, TextOf
<1>3. UNCHANGED <<git, files, result>> => (Outcome' <=> Outcome) /\ (Settled' <=> Settled)
  BY <1>2 DEF Outcome, Settled, Version
<1>4. CASE Read
  <2>1. UNCHANGED <<git, files>> /\ pc' \in {"fallback", "merge"} /\ Untouched' /\ result' = Nothing
    BY <1>4 DEF Read, Steps, Untouched
  <2> QED BY <1>1, <2>1 DEF Steps
<1>5. CASE Merge
  <2>1. UNCHANGED <<git, files>> /\ Untouched'
    BY <1>5 DEF Merge, Steps, Untouched
  <2>2. CASE pc' = "fallback" /\ UNCHANGED result
    <3>1. result' = Nothing
      BY <1>5, <2>2 DEF Merge, Steps
    <3> QED BY <1>1, <2>1, <2>2, <3>1 DEF Steps
  <2>3. CASE /\ pc' = "write"
             /\ \E body \in {"clean", "conflicted"} :
                   result' = [kind |-> "merged", body |-> body,
                              doc |-> MergeDocuments(Base, files["ours"].doc,
                                                     files["theirs"].doc, MergeContext)]
    <3>1. result'.kind = "merged"
      BY <2>3
    <3>2. result'.doc = MergeDocuments(Base, files["ours"].doc, files["theirs"].doc, MergeContext)
      BY <2>3
    <3>3. Outcome'
      BY <1>2, <2>1, <3>1, <3>2 DEF Outcome
    <3> QED BY <1>1, <2>1, <2>3, <3>3 DEF Steps
  <2> QED BY <1>5, <2>2, <2>3 DEF Merge
<1>6. CASE Panic
  <2>1. UNCHANGED <<git, files>> /\ pc' = "fallback" /\ Untouched' /\ result' = Nothing
    BY <1>6 DEF Panic, Steps, Untouched
  <2> QED BY <1>1, <2>1 DEF Steps
<1>7. CASE Fallback
  <2>1. UNCHANGED <<git, files>> /\ pc' = "write" /\ Untouched'
    BY <1>7 DEF Fallback, Steps, Untouched
  <2>2. /\ result'.kind = "whole"
        /\ result'.ours = TextOf(files["ours"]) /\ result'.theirs = TextOf(files["theirs"])
    BY <1>7 DEF Fallback
  <2>3. Outcome'
    BY <1>2, <2>1, <2>2 DEF Outcome, Version
  <2> QED BY <1>1, <2>1, <2>3 DEF Steps
<1>8. CASE Write
  <2>1. UNCHANGED <<git, files, result>> /\ pc' = "done" /\ disk' = result' /\ Outcome
    BY <1>8 DEF Write, Steps
  <2>2. (exit' = 0 /\ Settled) \/ (exit' = 1 /\ ~Settled)
    BY <1>8 DEF Write
  <2>3. Left'
    BY <1>3, <2>1, <2>2 DEF Left
  <2> QED BY <1>1, <1>3, <2>1, <2>3 DEF Steps
<1>9. CASE WriteFails
  <2>1. UNCHANGED <<git, files, result>> /\ pc' = "done" /\ Outcome
    BY <1>9 DEF WriteFails, Steps
  <2>2. Left'
    BY <1>9 DEF WriteFails, Left, AsOurs, Partial
  <2> QED BY <1>1, <1>3, <2>1, <2>2 DEF Steps
<1>10. CASE UNCHANGED driverVars
  <2>1. UNCHANGED <<git, files, result>> /\ UNCHANGED <<pc, disk, exit>>
    BY <1>10 DEF driverVars
  <2>2. (Left' <=> Left) /\ (Untouched' <=> Untouched)
    BY <1>3, <2>1 DEF Left, Untouched, AsOurs, Partial
  <2> QED BY <1>1, <1>3, <2>1, <2>2 DEF Steps, Nothing
<1> QED BY <1>4, <1>5, <1>6, <1>7, <1>8, <1>9, <1>10 DEF DriverNext

-----------------------------------------------------------------------------
(* What is resolved is what the two documents merge to, without a marker.  *)
LEMMA ResolvedIsMerged ==
    ASSUME DriverInvariant, exit = 0
    PROVE  /\ disk.doc = MergeDocuments(Base, files["ours"].doc, files["theirs"].doc, MergeContext)
           /\ \A k \in Keys : disk.doc[k] # Marked
<1>1. Left /\ Outcome
  BY DEF DriverInvariant, Steps, Untouched, Running
<1>2. disk = result /\ Settled
  BY <1>1 DEF Left
<1>3. result.kind = "merged" /\ \A k \in Keys : result.doc[k] # Marked
  BY <1>2 DEF Settled, IsClean
<1> QED BY <1>1, <1>2, <1>3 DEF Outcome

LEMMA ResolvedFields ==
    ASSUME DriverInvariant, exit = 0, NEW k \in Keys
    PROVE  /\ disk.doc[k] = MergeField(k, Base[k], OursOf(k), TheirsOf(k), MergeContext)
           /\ MergeField(k, Base[k], OursOf(k), TheirsOf(k), MergeContext) # Marked
           /\ Base[k] \in Value /\ OursOf(k) \in Value /\ TheirsOf(k) \in Value
<1>1. FilesAreRead
  BY DEF DriverInvariant
<1>2. Base[k] \in Value /\ OursOf(k) \in Value /\ TheirsOf(k) \in Value
  BY <1>1, VersionsAreTyped DEF OursOf, TheirsOf
<1> DEFINE m == MergeField(k, Base[k], OursOf(k), TheirsOf(k), MergeContext)
<1>3. disk.doc[k] # Marked
  BY ResolvedIsMerged
<1>4. disk.doc[k] = MergeDocuments(Base, files["ours"].doc, files["theirs"].doc, MergeContext)[k]
  BY ResolvedIsMerged
<1>5. MergeDocuments(Base, files["ours"].doc, files["theirs"].doc, MergeContext)[k] \in {Marked, m}
  BY DEF MergeDocuments, OursOf, TheirsOf
<1> HIDE DEF m
<1>6. disk.doc[k] = m /\ m # Marked
  BY <1>3, <1>4, <1>5
<1> QED BY <1>2, <1>6 DEF m

LEMMA EditsStay == DriverInvariant => ResolvedKeepsEdits
<1> SUFFICES ASSUME DriverInvariant, exit = 0, NEW k \in Keys
             PROVE  LET b == BaseOf(k)  o == OursOf(k)  t == TheirsOf(k)  m == disk.doc[k]
                        was == IF b.shape = "seq" THEN ToSet(b.v) ELSE {}
                    IN  IF o # b /\ t # b
                        THEN IF o.shape = "seq" /\ t.shape = "seq"
                             THEN /\ m.shape = "seq"
                                  /\ ToSet(m.v) = (ToSet(o.v) \cap ToSet(t.v))
                                                  \cup (ToSet(o.v) \ was) \cup (ToSet(t.v) \ was)
                             ELSE m \in {o, t}
                        ELSE m = IF t = b THEN o ELSE t
  BY DEF ResolvedKeepsEdits
<1> DEFINE b == Base[k]  o == OursOf(k)  t == TheirsOf(k)
           m == MergeField(k, b, o, t, MergeContext)
<1>1. disk.doc[k] = m /\ m # Marked /\ b \in Value /\ o \in Value /\ t \in Value
  BY ResolvedFields
<1>2. BaseOf(k) = b
  BY DEF BaseOf
<1>3. ToSet(Was(b)) = IF b.shape = "seq" THEN ToSet(b.v) ELSE {}
  BY DEF Was, ToSet
<1>4. IF o # b /\ t # b
      THEN IF BothLists(o, t)
           THEN /\ m.shape = "seq"
                /\ ToSet(m.v) = (ToSet(o.v) \cap ToSet(t.v))
                                   \cup (ToSet(o.v) \ ToSet(Was(b)))
                                   \cup (ToSet(t.v) \ ToSet(Was(b)))
           ELSE m \in {o, t}
      ELSE m = IF t = b THEN o ELSE t
  BY <1>1, EditsAreKept
<1> HIDE DEF b, m
<1> QED BY <1>1, <1>2, <1>3, <1>4 DEF BothLists

LEMMA ClaimsStand == DriverInvariant => ClaimsAreNotSettled
<1> SUFFICES ASSUME DriverInvariant, exit = 0, NEW k \in Keys \cap Claim
             PROVE  \/ OursOf(k) = TheirsOf(k) \/ BaseOf(k) \in {OursOf(k), TheirsOf(k)}
                    \/ OursOf(k).shape = "seq" /\ TheirsOf(k).shape = "seq"
  BY DEF ClaimsAreNotSettled, Claim
<1>1. MergeField(k, Base[k], OursOf(k), TheirsOf(k), MergeContext) # Marked
  BY ResolvedFields
<1> QED BY <1>1, ClaimsConflict DEF BaseOf, BothLists

LEMMA ReplayedStay == DriverInvariant => RebaseKeepsReplayed
<1> SUFFICES ASSUME DriverInvariant, exit = 0, op = "rebase", NEW k \in Keys \ {"updated"},
                    TheirsOf(k).shape = "scalar", TheirsOf(k) # BaseOf(k)
             PROVE  disk.doc[k] = TheirsOf(k)
  BY DEF RebaseKeepsReplayed
<1>1. /\ disk.doc[k] = MergeField(k, Base[k], OursOf(k), TheirsOf(k), MergeContext)
      /\ MergeField(k, Base[k], OursOf(k), TheirsOf(k), MergeContext) # Marked
  BY ResolvedFields
<1>2. MergeContext.newer = "theirs" /\ MergeContext.policies = [j \in Keys |-> "commit_order"]
  BY ContextsAreTyped DEF DriverInvariant
<1>3. MergeField(k, Base[k], OursOf(k), TheirsOf(k), MergeContext) = TheirsOf(k)
  BY <1>1, <1>2, TheReplayedStays DEF BaseOf
<1> QED BY <1>1, <1>3

LEMMA FailuresShow == DriverInvariant => FailureIsLoud
<1> SUFFICES ASSUME DriverInvariant, exit = 1, disk.kind # "partial" PROVE FailureIsLoud
  BY DEF FailureIsLoud
<1>1. Left /\ Outcome
  BY DEF DriverInvariant, Steps, Untouched, Running
<1>2. result.kind \in {"merged", "whole"}
  BY <1>1 DEF Outcome
<1>3. CASE disk \in {AsOurs, Partial}
  BY <1>2, <1>3 DEF Partial, FailureIsLoud
<1>4. CASE disk = result /\ ~Settled
  BY <1>1, <1>4 DEF Outcome, FailureIsLoud
<1> QED BY <1>1, <1>3, <1>4 DEF Left

LEMMA SidesTurn == DriverInvariant => MergeIsSymmetric
<1> SUFFICES ASSUME DriverInvariant, result.kind = "merged", NEW k \in Keys
             PROVE  Same(result.doc[k],
                         MergeDocuments(Base, files["theirs"].doc, files["ours"].doc,
                                        Turned(MergeContext))[k])
  BY DEF MergeIsSymmetric
<1>1. FilesAreRead /\ Outcome
  BY DEF DriverInvariant, Steps, Nothing
<1>2. MergeContext \in Contexts
  BY <1>1, ContextsAreTyped
<1>3. Base[k] \in Value /\ files["ours"].doc[k] \in Value /\ files["theirs"].doc[k] \in Value
  BY <1>1, VersionsAreTyped
<1>4. result.doc = MergeDocuments(Base, files["ours"].doc, files["theirs"].doc, MergeContext)
  BY <1>1 DEF Outcome
<1> QED BY <1>2, <1>3, <1>4, DocumentsTurn

(* A file git takes as resolved holds every edit one side made, the union  *)
(* of two lists without what either dropped, one of two values, and no     *)
(* claim that two actors made; a rebase keeps what is replayed; a failure  *)
(* is written out; and no outcome depends on which side git calls ours.    *)
THEOREM MergesStayRight == DriverSpec => []MergesAreRight
<1>1. DriverInvariant => MergesAreRight
  BY EditsStay, ClaimsStand, ReplayedStay, FailuresShow, SidesTurn DEF MergesAreRight
<1> QED BY <1>1, DriverStarts, DriverMoves, PTL DEF DriverSpec

-----------------------------------------------------------------------------
(* THE CLONES                                                              *)

(* Where nobody sets a list.                                               *)
NoLists == \A k \in DOMAIN Settable : \A v \in Settable[k] : v.shape # "seq"

(* A commit may stand on a file: what the property says of each.           *)
Stands(before, commit) ==
    commit.edit.by # "person" =>
        /\ DoesNothingElse(before, commit) /\ ReplacesWhatItSaw(before, commit)
        /\ commit.doc[commit.edit.key] # before[commit.edit.key]
        /\ NoLists => commit.edit.value.shape # "seq"

Branch(b) ==
    /\ b \in Seq(Revision) /\ b # <<>> /\ b[1] = FirstCommit
    /\ \A i \in 2..Len(b) : Stands(b[i - 1].doc, b[i])

(* The file before the n-th of some commits, the first of which was made   *)
(* on parent.                                                              *)
Before(parent, commits, n) == IF n = 1 THEN parent ELSE commits[n - 1].doc

Chain(parent, commits) ==
    /\ commits \in Seq(Revision)
    /\ \A i \in DOMAIN commits : Stands(Before(parent, commits, i), commits[i])

-----------------------------------------------------------------------------
(* What a clean merge of a field may be.                                   *)
LEMMA MergedIsValue ==
    ASSUME NEW key, NEW b \in Value, NEW o \in Value, NEW t \in Value, NEW ctx
    PROVE  MergeField(key, b, o, t, ctx) \in Value \cup {Marked}
<1>1. CASE o = t \/ o = b \/ t = b
  BY <1>1 DEF MergeField
<1>2. CASE o # t /\ o # b /\ t # b
  <2>1. MergeField(key, b, o, t, ctx) = DoubleEdit(key, b, o, t, ctx)
    BY <1>2 DEF MergeField
  <2>2. CASE BothLists(o, t)
    <3>1. DoubleEdit(key, b, o, t, ctx) = List(SetMerge(Was(b), o.v, t.v))
      BY <2>2, ListsAreMerged
    <3>2. SetMerge(Was(b), o.v, t.v) \in Seq(Nat)
      <4>1. Was(b) \in Seq(Nat) /\ o.v \in Seq(Nat) /\ t.v \in Seq(Nat)
        BY DEF Value, Was
      <4> QED BY <4>1, SetMergeKeeps
    <3> QED BY <2>1, <3>1, <3>2 DEF List, Value
  <2>3. CASE ~BothLists(o, t)
    BY <2>1, <2>3, OneIsChosen
  <2> QED BY <2>2, <2>3
<1> QED BY <1>1, <1>2

LEMMA CleanIsDoc ==
    ASSUME NEW b \in Doc, NEW o \in Doc, NEW t \in Doc, NEW ctx,
           IsClean(MergeDocuments(b, o, t, ctx))
    PROVE  /\ MergeDocuments(b, o, t, ctx) \in Doc
           /\ \A k \in Keys : /\ MergeDocuments(b, o, t, ctx)[k] = MergeField(k, b[k], o[k], t[k], ctx)
                              /\ MergeField(k, b[k], o[k], t[k], ctx) # Marked
<1> DEFINE m == MergeDocuments(b, o, t, ctx)
<1>1. m = [k \in Keys |-> m[k]]
  BY DEF MergeDocuments
<1>2. ASSUME NEW k \in Keys
      PROVE  /\ m[k] = MergeField(k, b[k], o[k], t[k], ctx)
             /\ MergeField(k, b[k], o[k], t[k], ctx) # Marked
             /\ m[k] \in Value
  <2> DEFINE x == MergeField(k, b[k], o[k], t[k], ctx)
  <2>1. m[k] # Marked
    BY DEF IsClean
  <2>2. m[k] \in {Marked, x}
    BY DEF MergeDocuments
  <2>3. b[k] \in Value /\ o[k] \in Value /\ t[k] \in Value
    BY DEF Doc
  <2>4. x \in Value \cup {Marked}
    BY <2>3, MergedIsValue
  <2> HIDE DEF x, m
  <2>5. m[k] = x /\ x # Marked /\ x \in Value
    BY <2>1, <2>2, <2>4
  <2> QED BY <2>5 DEF x
<1> HIDE DEF m
<1>3. m \in Doc
  BY <1>1, <1>2 DEF Doc
<1> QED BY <1>2, <1>3 DEF m

(* What only one side changed.                                             *)
LEMMA OneSided ==
    ASSUME NEW k, NEW b, NEW o, NEW t, NEW ctx
    PROVE  /\ t = b => MergeField(k, b, o, t, ctx) = o
           /\ o = b => MergeField(k, b, o, t, ctx) = t
           /\ o = t => MergeField(k, b, o, t, ctx) = o
BY DEF MergeField

(* A list merged onto a list gains and loses no more than the replayed     *)
(* commit gave and took.                                                   *)
LEMMA ItemsReplayed ==
    ASSUME NEW key, NEW b \in Value, NEW o \in Value, NEW t \in Value, NEW ctx,
           t.shape = "seq", MergeField(key, b, o, t, ctx) # Marked
    PROVE  LET m == MergeField(key, b, o, t, ctx)
           IN  m = o \/ /\ m.shape = "seq"
                        /\ Items(m) \ Items(o) \subseteq Items(t) \ Items(b)
                        /\ Items(o) \ Items(m) \subseteq Items(b) \ Items(t)
<1> DEFINE m == MergeField(key, b, o, t, ctx)
<1>1. CASE o = t \/ t = b
  BY <1>1, OneSided
<1>2. CASE o = b
  <2>1. m = t
    BY <1>2, OneSided
  <2> HIDE DEF m
  <2> QED BY <1>2, <2>1 DEF m
<1>3. CASE o # t /\ o # b /\ t # b
  <2>1. m = DoubleEdit(key, b, o, t, ctx)
    BY <1>3 DEF MergeField
  <2>2. CASE BothLists(o, t)
    <3>1. m = List(SetMerge(Was(b), o.v, t.v))
      BY <2>1, <2>2, ListsAreMerged
    <3>2. m.shape = "seq" /\ m.v = SetMerge(Was(b), o.v, t.v)
      BY <3>1 DEF List
    <3>3. ToSet(Was(b)) = Items(b)
      BY DEF Was, Items, ToSet
    <3>4. Items(o) = ToSet(o.v) /\ Items(t) = ToSet(t.v)
      BY <2>2 DEF Items, BothLists
    <3>5. Items(m) = ToSet(SetMerge(Was(b), o.v, t.v))
      BY <3>2 DEF Items
    <3>6. ToSet(SetMerge(Was(b), o.v, t.v)) =
             (ToSet(o.v) \cap ToSet(t.v)) \cup (ToSet(o.v) \ ToSet(Was(b)))
                                          \cup (ToSet(t.v) \ ToSet(Was(b)))
      BY ListsMerge
    <3>7. Items(m) = (Items(o) \cap Items(t)) \cup (Items(o) \ Items(b)) \cup (Items(t) \ Items(b))
      BY <3>3, <3>4, <3>5, <3>6
    <3> HIDE DEF m
    <3>8. /\ Items(m) \ Items(o) \subseteq Items(t) \ Items(b)
          /\ Items(o) \ Items(m) \subseteq Items(b) \ Items(t)
      BY <3>7
    <3> QED BY <3>2, <3>8 DEF m
  <2>3. CASE ~BothLists(o, t)
    <3>1. o.shape # t.shape /\ IsCollection(t) /\ ~IsTime(t)
      BY <2>3 DEF BothLists, IsCollection, IsTime
    <3>2. m = Marked
      BY <2>1, <2>3, <3>1 DEF DoubleEdit, BothLists
    <3> QED BY <3>2
  <2> QED BY <2>2, <2>3
<1> QED BY <1>1, <1>2, <1>3

(* Any other value: it is the replayed commit's, or nothing came of it.    *)
LEMMA ValueReplayed ==
    ASSUME NEW key, NEW b, NEW o, NEW t, NEW ctx,
           t.shape # "seq", MergeField(key, b, o, t, ctx) # Marked
    PROVE  MergeField(key, b, o, t, ctx) \in {o, t}
<1>1. CASE o = t \/ o = b \/ t = b
  BY <1>1, OneSided
<1>2. CASE o # t /\ o # b /\ t # b
  <2>1. ~BothLists(o, t)
    BY DEF BothLists
  <2> QED BY <1>2, <2>1, OneIsChosen DEF MergeField
<1> QED BY <1>1, <1>2

(* A commit that stands on the file it was made on, replayed onto another: *)
(* if anything comes of it, what comes of it stands there.                 *)
LEMMA ReplayedStands ==
    ASSUME NEW b \in Doc, NEW o \in Doc, NEW x \in Revision, Stands(b, x),
           IsClean(MergeDocuments(b, o, x.doc, RebaseContext)),
           MergeDocuments(b, o, x.doc, RebaseContext) # o
    PROVE  Stands(o, [edit |-> x.edit, doc |-> MergeDocuments(b, o, x.doc, RebaseContext)])
<1> DEFINE m == MergeDocuments(b, o, x.doc, RebaseContext)
           e == x.edit
           k == e.key
           was == b[k]  up == o[k]  new == x.doc[k]  is == m[k]
<1> SUFFICES ASSUME e.by # "person"
             PROVE  /\ DoesNothingElse(o, [edit |-> e, doc |-> m])
                    /\ ReplacesWhatItSaw(o, [edit |-> e, doc |-> m])
                    /\ is # up
                    /\ NoLists => e.value.shape # "seq"
  BY DEF Stands
<1>1. x.doc \in Doc /\ k \in Keys
  BY DEF Revision, Edit
<1>2. m \in Doc /\ \A j \in Keys : /\ m[j] = MergeField(j, b[j], o[j], x.doc[j], RebaseContext)
                                   /\ MergeField(j, b[j], o[j], x.doc[j], RebaseContext) # Marked
  BY <1>1, CleanIsDoc
<1>3. /\ DoesNothingElse(b, x) /\ ReplacesWhatItSaw(b, x)
      /\ NoLists => e.value.shape # "seq"
  BY DEF Stands
<1>4. \A j \in Keys \ {k} : m[j] = o[j]
  <2> SUFFICES ASSUME NEW j \in Keys \ {k} PROVE m[j] = o[j]
    OBVIOUS
  <2>1. x.doc[j] = b[j]
    BY <1>3 DEF DoesNothingElse
  <2>2. MergeField(j, b[j], o[j], x.doc[j], RebaseContext) = o[j]
    BY <2>1, OneSided
  <2>3. m[j] = MergeField(j, b[j], o[j], x.doc[j], RebaseContext)
    BY <1>2
  <2> HIDE DEF m
  <2> QED BY <2>2, <2>3
<1>5. is # up
  <2>1. m # o /\ o \in [Keys -> Value] /\ m \in [Keys -> Value]
    BY <1>2 DEF Doc
  <2> HIDE DEF m
  <2> QED BY <1>4, <2>1
<1>6. was \in Value /\ up \in Value /\ new \in Value
  BY <1>1 DEF Doc
<1>7. is = MergeField(k, was, up, new, RebaseContext) /\ is # Marked
  BY <1>1, <1>2
<1> DEFINE after == [edit |-> e, doc |-> m]
<1>8. after.edit = e /\ after.doc = m
  OBVIOUS
<1>9. CASE e.value.shape # "seq"
  <2>1. new = e.value
    BY <1>3, <1>9 DEF DoesNothingElse
  <2>2. new.shape # "seq"
    BY <1>9, <2>1
  <2> HIDE DEF was, up, new, is, m
  <2>3. MergeField(k, was, up, new, RebaseContext) \in {up, new}
    BY <1>7, <2>2, ValueReplayed
  <2>4. is = new
    BY <1>5, <1>7, <2>3
  <2>5. k \in {"claimed_by", "claimed_at"} => up = e.saw
    <3> SUFFICES ASSUME k \in {"claimed_by", "claimed_at"} PROVE up = e.saw
      OBVIOUS
    <3>1. was = e.saw
      BY <1>3, <1>9 DEF ReplacesWhatItSaw, was
    <3>2. ~BothLists(up, new)
      BY <2>2 DEF BothLists
    <3>3. up # new /\ new # was
      <4>1. up # new
        BY <1>5, <2>4
      <4>2. new = was => is = up
        BY <1>7, OneSided
      <4> QED BY <1>5, <4>1, <4>2
    <3>4. up # was => MergeField(k, was, up, new, RebaseContext) = Marked
      BY <3>2, <3>3, ClaimsConflict DEF Claim
    <3> QED BY <1>7, <3>1, <3>4
  <2>6. DoesNothingElse(o, after)
    BY <1>4, <1>8, <1>9, <2>1, <2>4 DEF DoesNothingElse, is, m
  <2>7. ReplacesWhatItSaw(o, after)
    BY <1>8, <2>5 DEF ReplacesWhatItSaw, up
  <2> QED BY <1>3, <1>5, <2>6, <2>7 DEF is, m, up
<1>10. CASE e.value.shape = "seq"
  <2>1. /\ new.shape = "seq"
        /\ Items(new) \ Items(was) \subseteq Items(e.value) \ Items(e.saw)
        /\ Items(was) \ Items(new) \subseteq Items(e.saw) \ Items(e.value)
    BY <1>3, <1>10 DEF DoesNothingElse
  <2> HIDE DEF was, up, new, is, m
  <2>2. \/ MergeField(k, was, up, new, RebaseContext) = up
        \/ /\ is.shape = "seq"
           /\ Items(is) \ Items(up) \subseteq Items(new) \ Items(was)
           /\ Items(up) \ Items(is) \subseteq Items(was) \ Items(new)
    BY <1>6, <1>7, <2>1, ItemsReplayed
  <2>3. /\ is.shape = "seq"
        /\ Items(is) \ Items(up) \subseteq Items(e.value) \ Items(e.saw)
        /\ Items(up) \ Items(is) \subseteq Items(e.saw) \ Items(e.value)
    BY <1>5, <1>7, <2>1, <2>2
  <2>4. DoesNothingElse(o, after)
    BY <1>4, <1>8, <1>10, <2>3 DEF DoesNothingElse, is, m, up
  <2>5. ReplacesWhatItSaw(o, after)
    BY <1>8, <1>10 DEF ReplacesWhatItSaw
  <2> QED BY <1>3, <1>5, <2>4, <2>5 DEF is, m, up
<1> QED BY <1>9, <1>10
-----------------------------------------------------------------------------
(* The replay, commit by commit.  Induction on the numbers, by a least     *)
(* counterexample.                                                         *)
LEMMA EveryNumber ==
    ASSUME NEW S, 0 \in S, \A n \in Nat : n \in S => n + 1 \in S
    PROVE  Nat \subseteq S
<1> DEFINE below == {ss \in Nat \X Nat : ss[1] < ss[2]}
<1> DEFINE others == Nat \ S
<1> SUFFICES ASSUME others # {} PROVE FALSE
  OBVIOUS
<1>1. IsWellFoundedOn(below, Nat)
  BY NatLessThanWellFounded DEF OpToRel
<1> HIDE DEF below
<1>2. \E n \in others : \A m \in others : ~ (<<m, n>> \in below)
  BY <1>1, WFMin
<1>3. PICK n \in others : \A m \in others : ~ (<<m, n>> \in below)
  BY <1>2
<1>4. n \in Nat /\ n # 0 /\ n - 1 \in Nat
  OBVIOUS
<1>5. n - 1 \notin others
  <2>1. <<n - 1, n>> \in below
    BY <1>4 DEF below
  <2> QED BY <1>3, <2>1
<1>6. n - 1 + 1 \in S
  BY <1>4, <1>5
<1> QED BY <1>4, <1>6

Unplayed(onto, parent) ==
    [at |-> "stopped", open |-> FALSE, parent |-> parent, done |-> onto, todo |-> <<>>]

IsReplay(f, onto, parent, commits, n) ==
    f = [i \in 0..n |-> IF i = 0 THEN Unplayed(onto, parent) ELSE Pick(f[i - 1], commits[i])]

LEMMA ReplaysExist ==
    ASSUME NEW onto, NEW parent, NEW commits, NEW last \in Nat
    PROVE  \E f : IsReplay(f, onto, parent, commits, last)
<1> DEFINE S == {n \in Nat : \E f : IsReplay(f, onto, parent, commits, n)}
<1>1. 0 \in S
  <2> DEFINE f == [i \in 0..0 |-> Unplayed(onto, parent)]
  <2>1. f = [i \in 0..0 |-> IF i = 0 THEN Unplayed(onto, parent) ELSE Pick(f[i - 1], commits[i])]
    OBVIOUS
  <2> HIDE DEF f
  <2>2. IsReplay(f, onto, parent, commits, 0)
    BY <2>1 DEF IsReplay
  <2> QED BY <2>2
<1>2. ASSUME NEW n \in Nat, n \in S PROVE n + 1 \in S
  <2>1. PICK f : IsReplay(f, onto, parent, commits, n)
    BY <1>2
  <2> DEFINE g == [i \in 0..(n + 1) |-> IF i <= n THEN f[i] ELSE Pick(f[n], commits[n + 1])]
  <2>2. \A i \in 0..n : f[i] = IF i = 0 THEN Unplayed(onto, parent) ELSE Pick(f[i - 1], commits[i])
    BY <2>1 DEF IsReplay
  <2>3. g[n] = f[n] /\ g[n + 1] = Pick(f[n], commits[n + 1])
    OBVIOUS
  <2>4. ASSUME NEW i \in 0..(n + 1)
        PROVE  g[i] = IF i = 0 THEN Unplayed(onto, parent) ELSE Pick(g[i - 1], commits[i])
    <3>1. CASE i = n + 1
      BY <2>3, <3>1
    <3>2. CASE i <= n
      <4>1. g[i] = f[i] /\ (i # 0 => g[i - 1] = f[i - 1])
        BY <3>2
      <4> HIDE DEF g
      <4> QED BY <2>2, <3>2, <4>1
    <3> QED BY <3>1, <3>2
  <2>5. g = [i \in 0..(n + 1) |-> g[i]]
    OBVIOUS
  <2> HIDE DEF g
  <2>6. g = [i \in 0..(n + 1) |-> IF i = 0 THEN Unplayed(onto, parent) ELSE Pick(g[i - 1], commits[i])]
    BY <2>4, <2>5
  <2>7. IsReplay(g, onto, parent, commits, n + 1)
    BY <2>6 DEF IsReplay
  <2> QED BY <2>7
<1> HIDE DEF S
<1>3. Nat \subseteq S
  BY <1>1, <1>2, EveryNumber
<1> QED BY <1>3 DEF S

LEMMA ReplayIs ==
    ASSUME NEW onto, NEW parent, NEW commits, Len(commits) \in Nat
    PROVE  \E f : /\ Replay(onto, parent, commits) = f[Len(commits)]
                  /\ f[0] = Unplayed(onto, parent)
                  /\ \A n \in 1..Len(commits) : f[n] = Pick(f[n - 1], commits[n])
<1> DEFINE f == CHOOSE f : IsReplay(f, onto, parent, commits, Len(commits))
<1>1. IsReplay(f, onto, parent, commits, Len(commits))
  BY ReplaysExist
<1>2. Replay(onto, parent, commits) = f[Len(commits)]
  BY DEF Replay, IsReplay, Unplayed
<1> HIDE DEF f
<1>3. \A n \in 0..Len(commits) :
         f[n] = IF n = 0 THEN Unplayed(onto, parent) ELSE Pick(f[n - 1], commits[n])
  BY <1>1 DEF IsReplay
<1>4. f[0] = Unplayed(onto, parent)
  BY <1>3
<1>5. \A n \in 1..Len(commits) : f[n] = Pick(f[n - 1], commits[n])
  BY <1>3
<1> QED BY <1>2, <1>4, <1>5

(* What a replay has in hand after some of its commits: file is what the   *)
(* last of them left.                                                      *)
Replaying == [at : {"stopped"}, open : BOOLEAN, parent : Doc, done : Seq(Revision),
              todo : Seq(Revision)]

Picking(r, text) ==
    /\ r \in Replaying /\ Branch(r.done) /\ text \in Doc
    /\ IF r.open THEN /\ r.todo # <<>> /\ Chain(r.parent, r.todo)
                      /\ r.todo[Len(r.todo)].doc = text
       ELSE r.todo = <<>> /\ r.parent = text

LEMMA BranchGrows ==
    ASSUME NEW b, Branch(b), NEW x \in Revision, Stands(Last(b).doc, x)
    PROVE  Branch(Append(b, x))
<1> DEFINE s == Append(b, x)
<1>1. b \in Seq(Revision) /\ b # <<>> /\ b[1] = FirstCommit
      /\ \A i \in 2..Len(b) : Stands(b[i - 1].doc, b[i])
  BY DEF Branch
<1>2. Len(b) \in Nat /\ Len(b) >= 1
  BY <1>1
<1>3. s \in Seq(Revision) /\ Len(s) = Len(b) + 1 /\ s # <<>>
  <2>1. b \in Seq(Revision)
    BY <1>1
  <2>2. s \in Seq(Revision) /\ Len(s) = Len(b) + 1
    BY <2>1
  <2>3. Len(s) # 0
    BY <1>2, <2>2
  <2> QED BY <2>2, <2>3
<1>4. s[Len(b) + 1] = x /\ \A i \in 1..Len(b) : s[i] = b[i]
  BY <1>1, <1>2
<1> HIDE DEF s
<1>5. ASSUME NEW i \in 2..Len(s) PROVE Stands(s[i - 1].doc, s[i])
  <2>1. CASE i <= Len(b)
    <3>1. i \in 2..Len(b) /\ s[i] = b[i] /\ s[i - 1] = b[i - 1]
      BY <1>2, <1>4, <2>1
    <3> QED BY <1>1, <3>1
  <2>2. CASE i = Len(b) + 1
    <3>1. s[i] = x /\ s[i - 1] = b[Len(b)]
      BY <1>2, <1>4, <2>2
    <3> QED BY <3>1 DEF Last
  <2> QED BY <1>2, <1>3, <2>1, <2>2
<1>6. s[1] = FirstCommit
  BY <1>1, <1>2, <1>4
<1> QED BY <1>3, <1>5, <1>6 DEF Branch, s

LEMMA ChainGrows ==
    ASSUME NEW p, NEW s, Chain(p, s), NEW x \in Revision,
           Stands(IF s = <<>> THEN p ELSE s[Len(s)].doc, x)
    PROVE  Chain(p, Append(s, x)) /\ Append(s, x) # <<>>
           /\ Append(s, x)[Len(Append(s, x))] = x
<1> DEFINE t == Append(s, x)
<1>1. s \in Seq(Revision) /\ \A i \in DOMAIN s : Stands(Before(p, s, i), s[i])
  BY DEF Chain
<1>2. Len(s) \in Nat /\ DOMAIN s = 1..Len(s) /\ (s = <<>> <=> Len(s) = 0)
  BY <1>1
<1>3. t \in Seq(Revision) /\ Len(t) = Len(s) + 1 /\ t # <<>> /\ DOMAIN t = 1..(Len(s) + 1)
  BY <1>1
<1>4. t[Len(s) + 1] = x /\ \A i \in 1..Len(s) : t[i] = s[i]
  BY <1>1, <1>2
<1> HIDE DEF t
<1>5. ASSUME NEW i \in DOMAIN t PROVE Stands(Before(p, t, i), t[i])
  <2>1. CASE i <= Len(s)
    <3>1. i \in DOMAIN s /\ t[i] = s[i] /\ (i # 1 => t[i - 1] = s[i - 1])
      BY <1>2, <1>3, <1>4, <2>1
    <3>2. Before(p, t, i) = Before(p, s, i)
      BY <3>1 DEF Before
    <3> QED BY <1>1, <3>1, <3>2
  <2>2. CASE i = Len(s) + 1
    <3>1. t[i] = x
      BY <1>4, <2>2
    <3>2. CASE Len(s) = 0
      <4>1. Before(p, t, i) = p
        BY <2>2, <3>2 DEF Before
      <4> QED BY <1>2, <3>1, <3>2, <4>1
    <3>3. CASE Len(s) # 0
      <4>1. Before(p, t, i) = s[Len(s)].doc
        BY <1>2, <1>4, <2>2, <3>3 DEF Before
      <4> QED BY <1>2, <3>1, <3>3, <4>1
    <3> QED BY <3>2, <3>3
  <2> QED BY <1>2, <1>3, <2>1, <2>2
<1>6. Chain(p, t)
  BY <1>3, <1>5 DEF Chain
<1> QED BY <1>3, <1>4, <1>6 DEF t

LEMMA LastIsDoc ==
    ASSUME NEW b, Branch(b) PROVE Last(b) \in Revision /\ Last(b).doc \in Doc
<1>1. b \in Seq(Revision) /\ b # <<>>
  BY DEF Branch
<1>2. Len(b) \in 1..Len(b)
  BY <1>1
<1>3. b[Len(b)] \in Revision
  BY <1>1, <1>2
<1> QED BY <1>3 DEF Last, Revision

LEMMA PickKeeps ==
    ASSUME NEW r, NEW text, Picking(r, text), NEW x \in Revision, Stands(text, x)
    PROVE  Picking(Pick(r, x), x.doc)
<1> DEFINE up == Last(r.done).doc
           m == MergeDocuments(r.parent, up, x.doc, RebaseContext)
<1>1. r \in Replaying /\ Branch(r.done) /\ text \in Doc
  BY DEF Picking
<1>2. x.doc \in Doc /\ x.edit \in Edit /\ up \in Doc /\ r.parent \in Doc
  BY <1>1, LastIsDoc DEF Revision, Replaying
<1>3. CASE r.open \/ ~IsClean(m)
  <2>1. Pick(r, x) = [r EXCEPT !.open = TRUE, !.todo = Append(@, x)]
    BY <1>3 DEF Pick
  <2>2. Chain(r.parent, r.todo)
        /\ (IF r.todo = <<>> THEN r.parent ELSE r.todo[Len(r.todo)].doc) = text
    <3>1. CASE r.open
      BY <3>1 DEF Picking
    <3>2. CASE ~r.open
      <4>1. r.todo = <<>> /\ r.parent = text
        BY <3>2 DEF Picking
      <4>2. Chain(r.parent, <<>>)
        BY DEF Chain
      <4> QED BY <4>1, <4>2
    <3> QED BY <3>1, <3>2
  <2>3. /\ Chain(r.parent, Append(r.todo, x)) /\ Append(r.todo, x) # <<>>
        /\ Append(r.todo, x)[Len(Append(r.todo, x))] = x
    BY <2>2, ChainGrows
  <2>4. Append(r.todo, x) \in Seq(Revision)
    BY <2>3 DEF Chain
  <2>5. /\ Pick(r, x) \in Replaying
        /\ Pick(r, x).open = TRUE /\ Pick(r, x).todo = Append(r.todo, x)
        /\ Pick(r, x).parent = r.parent /\ Pick(r, x).done = r.done
    BY <1>1, <2>1, <2>4 DEF Replaying
  <2> QED BY <1>1, <1>2, <2>3, <2>5 DEF Picking
<1>4. CASE ~r.open /\ IsClean(m)
  <2> DEFINE y == [edit |-> x.edit, doc |-> m]
  <2> DEFINE grown == IF m = up THEN r.done ELSE Append(r.done, y)
  <2>1. Pick(r, x) = [r EXCEPT !.parent = x.doc, !.done = grown]
    BY <1>4 DEF Pick
  <2>2. r.todo = <<>> /\ r.parent = text
    BY <1>4 DEF Picking
  <2>3. m \in Doc
    BY <1>2, <1>4, CleanIsDoc
  <2>4. y \in Revision
    BY <1>2, <2>3 DEF Revision
  <2>5. Branch(grown)
    <3>1. CASE m = up
      BY <1>1, <3>1
    <3>2. CASE m # up
      <4>1. Stands(up, y)
        BY <1>2, <1>4, <2>2, <3>2, ReplayedStands
      <4> QED BY <1>1, <2>4, <3>2, <4>1, BranchGrows
    <3> QED BY <3>1, <3>2
  <2> HIDE DEF grown
  <2>6. grown \in Seq(Revision)
    BY <2>5 DEF Branch
  <2>7. /\ Pick(r, x) \in Replaying
        /\ Pick(r, x).open = FALSE /\ Pick(r, x).todo = <<>>
        /\ Pick(r, x).parent = x.doc /\ Pick(r, x).done = grown
    BY <1>1, <1>2, <1>4, <2>1, <2>2, <2>6 DEF Replaying
  <2> QED BY <1>2, <2>5, <2>7 DEF Picking
<1> QED BY <1>1, <1>3, <1>4

LEMMA ReplayKeeps ==
    ASSUME NEW onto, Branch(onto), NEW parent \in Doc, NEW commits, Chain(parent, commits)
    PROVE  \E text : Picking(Replay(onto, parent, commits), text)
<1> DEFINE text(n) == IF n = 0 THEN parent ELSE commits[n].doc
<1>1. commits \in Seq(Revision) /\ \A i \in DOMAIN commits : Stands(Before(parent, commits, i), commits[i])
  BY DEF Chain
<1>2. Len(commits) \in Nat /\ DOMAIN commits = 1..Len(commits)
  BY <1>1
<1>3. PICK f : /\ Replay(onto, parent, commits) = f[Len(commits)]
               /\ f[0] = Unplayed(onto, parent)
               /\ \A n \in 1..Len(commits) : f[n] = Pick(f[n - 1], commits[n])
  BY <1>2, ReplayIs
<1> DEFINE S == {n \in Nat : n <= Len(commits) => Picking(f[n], text(n))}
<1>4. 0 \in S
  <2>1. onto \in Seq(Revision)
    BY DEF Branch
  <2>2. Unplayed(onto, parent) \in Replaying
    BY <2>1 DEF Unplayed, Replaying
  <2>3. Picking(Unplayed(onto, parent), parent)
    BY <2>2 DEF Picking, Unplayed
  <2> QED BY <1>3, <2>3
<1>5. ASSUME NEW n \in Nat, n \in S PROVE n + 1 \in S
  <2> SUFFICES ASSUME n + 1 <= Len(commits) PROVE Picking(f[n + 1], text(n + 1))
    BY DEF S
  <2>1. n <= Len(commits) /\ n + 1 \in 1..Len(commits) /\ n + 1 - 1 = n
    BY <1>2
  <2>2. Picking(f[n], text(n))
    BY <1>5, <2>1
  <2>3. commits[n + 1] \in Revision
    BY <1>1, <2>1
  <2>4. Stands(Before(parent, commits, n + 1), commits[n + 1])
    BY <1>1, <1>2, <2>1
  <2>5. Before(parent, commits, n + 1) = text(n)
    BY <2>1 DEF Before
  <2>6. f[n + 1] = Pick(f[n], commits[n + 1])
    BY <1>3, <2>1
  <2>7. Stands(text(n), commits[n + 1])
    BY <2>4, <2>5
  <2> HIDE DEF text
  <2>8. Picking(Pick(f[n], commits[n + 1]), commits[n + 1].doc)
    BY <2>2, <2>3, <2>7, PickKeeps
  <2> QED BY <2>6, <2>8 DEF text
<1> HIDE DEF S
<1>6. Nat \subseteq S
  BY <1>4, <1>5, EveryNumber
<1>7. Picking(f[Len(commits)], text(Len(commits)))
  BY <1>2, <1>6 DEF S
<1> QED BY <1>3, <1>7
-----------------------------------------------------------------------------
(* What two branches share is where both begin.                            *)
LEMMA FrontOf ==
    ASSUME NEW s \in Seq(Revision), NEW n \in 0..Len(s)
    PROVE  /\ SubSeq(s, 1, n) \in Seq(Revision) /\ Len(SubSeq(s, 1, n)) = n
           /\ \A i \in 1..n : SubSeq(s, 1, n)[i] = s[i]
OBVIOUS

LEMMA BackOf ==
    ASSUME NEW s \in Seq(Revision), NEW n \in 1..Len(s)
    PROVE  LET back == SubSeq(s, n + 1, Len(s))
           IN  /\ back \in Seq(Revision) /\ Len(back) = Len(s) - n
               /\ \A i \in 1..(Len(s) - n) : back[i] = s[i + n]
<1> DEFINE back == SubSeq(s, n + 1, Len(s))
<1>1. Len(s) \in Nat /\ n \in Nat /\ n <= Len(s)
  OBVIOUS
<1>2. back = [i \in 1..(Len(s) - n) |-> s[i + n]]
  BY <1>1
<1>3. \A i \in 1..(Len(s) - n) : s[i + n] \in Revision
  BY <1>1
<1> HIDE DEF back
<1>4. back \in Seq(Revision)
  BY <1>1, <1>2, <1>3
<1>5. Len(back) = Len(s) - n
  BY <1>1, <1>2, <1>4
<1>6. \A i \in 1..(Len(s) - n) : back[i] = s[i + n]
  BY <1>2
<1> QED BY <1>4, <1>5, <1>6 DEF back

LEMMA SameFront ==
    ASSUME NEW s \in Seq(Revision), NEW t \in Seq(Revision), Len(s) = Len(t),
           \A i \in 1..Len(s) : s[i] = t[i]
    PROVE  s = t
OBVIOUS

LEMMA SharedIsFront ==
    ASSUME NEW a, NEW b, Branch(a), Branch(b)
    PROVE  \E n \in 1..Len(a) : /\ Shared(a, b) = SubSeq(a, 1, n)
                                /\ n <= Len(b) /\ \A j \in 1..n : b[j] = a[j]
<1> DEFINE C == CommonPrefixes({a, b})
<1> DEFINE first == SubSeq(a, 1, 1)
<1> DEFINE Longest(p) == p \in C /\ \A other \in C : Len(other) <= Len(p)
<1>1. /\ a \in Seq(Revision) /\ b \in Seq(Revision) /\ a[1] = b[1]
      /\ Len(a) \in Nat /\ Len(b) \in Nat /\ 1 \in 0..Len(a) /\ 1 \in 0..Len(b)
  <2>1. a \in Seq(Revision) /\ a # <<>> /\ b \in Seq(Revision) /\ b # <<>> /\ a[1] = b[1]
    BY DEF Branch
  <2>2. Len(a) \in Nat /\ Len(a) >= 1
    BY <2>1
  <2>3. Len(b) \in Nat /\ Len(b) >= 1
    BY <2>1
  <2> QED BY <2>1, <2>2, <2>3
<1>2. C = {p \in Prefixes(a) \cup Prefixes(b) : IsPrefix(p, a) /\ IsPrefix(p, b)}
  BY DEF CommonPrefixes
<1> HIDE DEF C
<1>3. \A p \in Prefixes(a) \cup Prefixes(b) : p \in Seq(Revision)
  <2>1. \A l \in 0..Len(a) : SubSeq(a, 1, l) \in Seq(Revision)
    BY <1>1, FrontOf
  <2>2. \A l \in 0..Len(b) : SubSeq(b, 1, l) \in Seq(Revision)
    BY <1>1, FrontOf
  <2> QED BY <2>1, <2>2 DEF Prefixes
<1>4. first \in C /\ Len(first) = 1
  <2>1. first \in Seq(Revision) /\ Len(first) = 1 /\ first[1] = a[1]
    BY <1>1, FrontOf
  <2>2. first \in Prefixes(a)
    BY <1>1 DEF Prefixes
  <2> DEFINE again == SubSeq(first, 1, 1)
  <2> DEFINE other == SubSeq(b, 1, 1)
  <2>3. other \in Seq(Revision) /\ Len(other) = 1 /\ other[1] = b[1]
    BY <1>1, FrontOf
  <2>4. again \in Seq(Revision) /\ Len(again) = 1 /\ again[1] = first[1]
    <3> HIDE DEF first
    <3> QED BY <2>1, FrontOf
  <2> HIDE DEF first, again, other
  <2>5. again = first
    BY <2>1, <2>4, SameFront
  <2>6. other = first
    BY <1>1, <2>1, <2>3, SameFront
  <2>7. SubSeq(first, 1, Len(first)) = first
    BY <2>1, <2>5 DEF again
  <2>8. IsPrefix(first, a)
    BY <1>1, <2>1, <2>7 DEF IsPrefix, first
  <2>9. IsPrefix(first, b)
    BY <1>1, <2>1, <2>6, <2>7 DEF IsPrefix, other
  <2> QED BY <1>2, <2>1, <2>2, <2>8, <2>9
<1> HIDE DEF first
<1>5. \A p \in C : /\ Len(p) \in Nat /\ Len(p) <= Len(a)
                   /\ p = SubSeq(a, 1, Len(p))
  <2> SUFFICES ASSUME NEW p \in C
               PROVE  Len(p) \in Nat /\ Len(p) <= Len(a) /\ p = SubSeq(a, 1, Len(p))
    OBVIOUS
  <2>1. p \in Seq(Revision) /\ IsPrefix(p, a)
    BY <1>2, <1>3
  <2>2. Len(p) \in Nat /\ Len(p) <= Len(a) /\ SubSeq(p, 1, Len(p)) = SubSeq(a, 1, Len(p))
    BY <2>1 DEF IsPrefix
  <2>3. SubSeq(p, 1, Len(p)) = p
    BY <2>1
  <2> QED BY <2>2, <2>3
<1>6. \E p : Longest(p)
  <2> DEFINE below == {ss \in Nat \X Nat : ss[1] < ss[2]}
  <2> DEFINE short == {Len(a) - Len(p) : p \in C}
  <2>1. IsWellFoundedOn(below, Nat)
    BY NatLessThanWellFounded DEF OpToRel
  <2>2. short \subseteq Nat /\ short # {}
    BY <1>1, <1>4, <1>5
  <2> HIDE DEF below
  <2>3. \E n \in short : \A m \in short : ~ (<<m, n>> \in below)
    BY <2>1, <2>2, WFMin
  <2>4. PICK n \in short : \A m \in short : ~ (<<m, n>> \in below)
    BY <2>3
  <2>5. PICK p \in C : n = Len(a) - Len(p)
    OBVIOUS
  <2>6. ASSUME NEW other \in C PROVE Len(other) <= Len(p)
    <3>1. Len(a) - Len(other) \in short /\ Len(a) - Len(other) \in Nat /\ n \in Nat
      BY <2>2
    <3>2. ~ (<<Len(a) - Len(other), n>> \in below)
      BY <2>4, <3>1
    <3>3. ~ (Len(a) - Len(other) < n)
      BY <3>1, <3>2 DEF below
    <3> QED BY <1>1, <1>5, <2>5, <3>3
  <2>7. Longest(p)
    BY <2>6
  <2> QED BY <2>7
<1>7. Longest(Shared(a, b))
  <2>1. Shared(a, b) = CHOOSE p \in C : \A other \in C : Len(other) <= Len(p)
    BY DEF Shared, LongestCommonPrefix, C
  <2> QED BY <1>6, <2>1
<1> DEFINE n == Len(Shared(a, b))
<1>8. n \in 1..Len(a) /\ Shared(a, b) = SubSeq(a, 1, n)
  <2>1. Shared(a, b) \in C /\ Len(first) <= Len(Shared(a, b))
    BY <1>4, <1>7
  <2>2. n \in Nat /\ n <= Len(a) /\ Shared(a, b) = SubSeq(a, 1, n)
    BY <1>5, <2>1
  <2> QED BY <1>1, <1>4, <2>1, <2>2
<1>9. n <= Len(b) /\ \A j \in 1..n : b[j] = a[j]
  <2>1. Shared(a, b) \in C
    BY <1>7
  <2>2. IsPrefix(Shared(a, b), b)
    BY <1>2, <2>1
  <2>3. n <= Len(b) /\ SubSeq(Shared(a, b), 1, n) = SubSeq(b, 1, n)
    BY <2>2 DEF IsPrefix
  <2>4. Shared(a, b) \in Seq(Revision)
    BY <1>2, <1>3, <2>1
  <2>5. SubSeq(Shared(a, b), 1, n) = Shared(a, b)
    BY <2>4
  <2>6. n \in 0..Len(a) /\ n \in 0..Len(b)
    BY <1>1, <1>8, <2>3
  <2>7. \A j \in 1..n : SubSeq(a, 1, n)[j] = a[j]
    BY <1>1, <2>6, FrontOf
  <2>8. \A j \in 1..n : SubSeq(b, 1, n)[j] = b[j]
    BY <1>1, <2>6, FrontOf
  <2>9. SubSeq(a, 1, n) = SubSeq(b, 1, n)
    BY <1>8, <2>3, <2>5
  <2>10. \A j \in 1..n : b[j] = a[j]
    <3> HIDE DEF n
    <3> QED BY <2>7, <2>8, <2>9
  <2> QED BY <2>3, <2>10
<1> HIDE DEF n
<1> QED BY <1>8, <1>9

(* The commits that only one branch has were made on the last they share.  *)
LEMMA AfterIsChain ==
    ASSUME NEW a, NEW b, Branch(a), Branch(b)
    PROVE  Chain(Last(Shared(a, b)).doc, After(a, b)) /\ Last(Shared(a, b)).doc \in Doc
<1>1. PICK n \in 1..Len(a) : Shared(a, b) = SubSeq(a, 1, n)
  BY SharedIsFront
<1>2. a \in Seq(Revision) /\ \A i \in 2..Len(a) : Stands(a[i - 1].doc, a[i])
  BY DEF Branch
<1>3. Len(a) \in Nat /\ n \in Nat /\ \A i \in 1..Len(a) : a[i] \in Revision
  BY <1>2
<1>4. Len(Shared(a, b)) = n /\ Last(Shared(a, b)) = a[n]
  <2>1. /\ SubSeq(a, 1, n) \in Seq(Revision) /\ Len(SubSeq(a, 1, n)) = n
        /\ \A i \in 1..n : SubSeq(a, 1, n)[i] = a[i]
    BY <1>2, <1>3, FrontOf
  <2> QED BY <1>1, <1>3, <2>1 DEF Last
<1> DEFINE s == SubSeq(a, n + 1, Len(a))
<1>5. After(a, b) = s
  BY <1>4 DEF After
<1>6. s \in Seq(Revision) /\ Len(s) = Len(a) - n /\ \A i \in 1..(Len(a) - n) : s[i] = a[i + n]
  BY <1>2, <1>3, BackOf
<1>7. DOMAIN s = 1..(Len(a) - n)
  BY <1>3, <1>6
<1> HIDE DEF s
<1>8. ASSUME NEW i \in DOMAIN s PROVE Stands(Before(a[n].doc, s, i), s[i])
  <2>1. i \in 1..(Len(a) - n) /\ s[i] = a[i + n] /\ i + n \in 2..Len(a)
    BY <1>3, <1>6, <1>7
  <2>2. Before(a[n].doc, s, i) = a[i + n - 1].doc
    <3>1. CASE i = 1
      BY <1>3, <3>1 DEF Before
    <3>2. CASE i # 1
      <4>1. i - 1 \in 1..(Len(a) - n) /\ (i - 1) + n = i + n - 1
        BY <1>3, <2>1, <3>2
      <4>2. s[i - 1] = a[i + n - 1]
        BY <1>6, <4>1
      <4> QED BY <3>2, <4>2 DEF Before
    <3> QED BY <3>1, <3>2
  <2>3. Stands(a[i + n - 1].doc, a[i + n])
    BY <1>2, <2>1
  <2> QED BY <2>1, <2>2, <2>3
<1>9. a[n].doc \in Doc
  BY <1>3 DEF Revision
<1> QED BY <1>4, <1>5, <1>6, <1>8, <1>9 DEF Chain

(* What is left of some commits when the first is settled.                 *)
LEMMA TailIsChain ==
    ASSUME NEW p, NEW s, Chain(p, s), s # <<>>
    PROVE  s[1] \in Revision /\ Chain(s[1].doc, Tail(s))
<1>1. s \in Seq(Revision) /\ \A i \in DOMAIN s : Stands(Before(p, s, i), s[i])
  BY DEF Chain
<1>2. Len(s) \in Nat /\ Len(s) >= 1
  BY <1>1
<1> DEFINE t == Tail(s)
<1>3. t \in Seq(Revision) /\ Len(t) = Len(s) - 1
  BY <1>1, <1>2
<1>4. \A i \in 1..(Len(s) - 1) : t[i] = s[i + 1]
  BY <1>1, <1>2
<1> HIDE DEF t
<1>5. ASSUME NEW i \in DOMAIN t PROVE Stands(Before(s[1].doc, t, i), t[i])
  <2>1. i \in 1..(Len(s) - 1) /\ i + 1 \in DOMAIN s /\ i + 1 # 1 /\ (i + 1) - 1 = i
    BY <1>1, <1>2, <1>3
  <2>2. t[i] = s[i + 1]
    BY <1>4, <2>1
  <2>3. Before(s[1].doc, t, i) = s[i].doc
    <3>1. CASE i = 1
      BY <3>1 DEF Before
    <3>2. CASE i # 1
      <4>1. i - 1 \in 1..(Len(s) - 1) /\ (i - 1) + 1 = i
        BY <1>2, <2>1, <3>2
      <4> QED BY <1>4, <3>2, <4>1 DEF Before
    <3> QED BY <3>1, <3>2
  <2>4. Before(p, s, i + 1) = s[i].doc
    BY <2>1 DEF Before
  <2>5. Stands(Before(p, s, i + 1), s[i + 1])
    BY <1>1, <2>1
  <2> QED BY <2>2, <2>3, <2>4, <2>5
<1>6. s[1] \in Revision
  BY <1>1, <1>2
<1> QED BY <1>3, <1>5, <1>6 DEF Chain, t

-----------------------------------------------------------------------------
(* A commit is not dropped.  What a replay starts from stays as it is, and *)
(* of every commit it took either the edit or the value is on the branch.  *)
Begins(a, b) == Len(a) <= Len(b) /\ \A j \in 1..Len(a) : b[j] = a[j]

Remains(b, e) == \E j \in 1..Len(b) : b[j].edit = e \/ b[j].doc[e.key] = e.value

LEMMA RemainsOn ==
    ASSUME NEW a, NEW b, Len(a) \in Nat, Len(b) \in Nat, Begins(a, b), NEW e, Remains(a, e)
    PROVE  Remains(b, e)
<1>1. PICK j \in 1..Len(a) : a[j].edit = e \/ a[j].doc[e.key] = e.value
  BY DEF Remains
<1>2. j \in 1..Len(b) /\ b[j] = a[j]
  BY DEF Begins
<1> QED BY <1>1, <1>2 DEF Remains

(* The replayed side is the newer one.                                     *)
LEMMA NewerWins ==
    ASSUME NEW k \in Keys, k # "updated", NEW b, NEW o, NEW t, t # b, t.shape # "seq",
           MergeField(k, b, o, t, RebaseContext) # Marked
    PROVE  MergeField(k, b, o, t, RebaseContext) = t
<1>1. CASE o = t \/ o = b
  BY <1>1, OneSided
<1>2. CASE o # t /\ o # b
  <2>1. MergeField(k, b, o, t, RebaseContext) = DoubleEdit(k, b, o, t, RebaseContext)
    BY <1>2 DEF MergeField
  <2>2. DoubleEdit(k, b, o, t, RebaseContext) =
           IF FieldPolicy(k, RebaseContext) = "conflict" THEN Marked
           ELSE IF Winner(k, RebaseContext) = "ours" THEN o ELSE t
    BY <2>1 DEF DoubleEdit
  <2>3. FieldPolicy(k, RebaseContext) # "conflict"
    BY <2>1, <2>2
  <2>4. FieldPolicy(k, RebaseContext) = "commit_order"
    BY <2>3 DEF FieldPolicy, RebaseContext, DefaultContext
  <2>5. Winner(k, RebaseContext) = "theirs"
    BY <2>4 DEF Winner, RebaseContext, DefaultContext
  <2> QED BY <2>1, <2>2, <2>3, <2>5
<1> QED BY <1>1, <1>2

LEMMA PickDropsNothing ==
    ASSUME NEW r, NEW text, Picking(r, text), NEW x \in Revision, Stands(text, x),
           ~Pick(r, x).open
    PROVE  /\ ~r.open /\ Begins(r.done, Pick(r, x).done)
           /\ NoLists /\ "updated" \notin Keys /\ x.edit.by # "person"
                 => Remains(Pick(r, x).done, x.edit)
<1> DEFINE up == Last(r.done).doc
           m == MergeDocuments(r.parent, up, x.doc, RebaseContext)
           y == [edit |-> x.edit, doc |-> m]
           grown == IF m = up THEN r.done ELSE Append(r.done, y)
           e == x.edit
           k == e.key
<1>1. r \in Replaying /\ Branch(r.done) /\ text \in Doc
  BY DEF Picking
<1>2. r.done \in Seq(Revision) /\ r.done # <<>>
  BY <1>1 DEF Branch
<1>3. Len(r.done) \in Nat /\ Len(r.done) >= 1
  BY <1>2
<1>4. ~r.open /\ IsClean(m)
  <2>1. CASE r.open \/ ~IsClean(m)
    <3>1. Pick(r, x) = [r EXCEPT !.open = TRUE, !.todo = Append(@, x)]
      BY <2>1 DEF Pick
    <3> QED BY <1>1, <3>1 DEF Replaying
  <2> QED BY <2>1
<1>5. Pick(r, x) = [r EXCEPT !.parent = x.doc, !.done = grown]
  BY <1>4 DEF Pick
<1>6. Pick(r, x).done = grown
  <2> HIDE DEF grown
  <2> QED BY <1>1, <1>5 DEF Replaying
<1>7. r.parent = text
  BY <1>4 DEF Picking
<1>8. Begins(r.done, grown)
  <2>1. Begins(r.done, r.done)
    BY <1>3 DEF Begins
  <2>2. Begins(r.done, Append(r.done, y))
    <3> HIDE DEF y
    <3>1. Len(Append(r.done, y)) = Len(r.done) + 1
      BY <1>2
    <3>2. \A j \in 1..Len(r.done) : Append(r.done, y)[j] = r.done[j]
      BY <1>2
    <3> QED BY <1>3, <3>1, <3>2 DEF Begins
  <2> QED BY <2>1, <2>2
<1>9. ASSUME NoLists, "updated" \notin Keys, e.by # "person"
      PROVE  Remains(grown, e)
  <2>1. /\ DoesNothingElse(text, x) /\ x.doc[k] # text[k]
        /\ e.value.shape # "seq"
    BY <1>9 DEF Stands
  <2>2. x.doc[k] = e.value
    BY <2>1 DEF DoesNothingElse
  <2>3. x.doc \in Doc /\ k \in Keys /\ up \in Doc
    BY <1>1, LastIsDoc DEF Revision, Edit
  <2>4. /\ m[k] = MergeField(k, text[k], up[k], x.doc[k], RebaseContext)
        /\ MergeField(k, text[k], up[k], x.doc[k], RebaseContext) # Marked
    BY <1>1, <1>4, <1>7, <2>3, CleanIsDoc
  <2>5. MergeField(k, text[k], up[k], x.doc[k], RebaseContext) = x.doc[k]
    BY <1>9, <2>1, <2>2, <2>3, <2>4, NewerWins
  <2>6. m[k] = e.value
    BY <2>2, <2>4, <2>5
  <2>7. CASE m = up
    <3>1. r.done[Len(r.done)].doc[k] = e.value
      BY <2>6, <2>7 DEF Last
    <3> QED BY <1>3, <2>7, <3>1 DEF Remains
  <2>8. CASE m # up
    <3>1. grown = Append(r.done, y) /\ y.edit = e
      BY <2>8
    <3> HIDE DEF grown, y
    <3>2. Len(grown) = Len(r.done) + 1 /\ grown[Len(r.done) + 1] = y
      BY <1>2, <3>1
    <3> QED BY <1>3, <3>1, <3>2 DEF Remains
  <2> QED BY <2>7, <2>8
<1> QED BY <1>4, <1>6, <1>8, <1>9

LEMMA ReplayDropsNothing ==
    ASSUME NEW onto, Branch(onto), NEW parent \in Doc, NEW commits, Chain(parent, commits),
           NoLists, "updated" \notin Keys, ~Replay(onto, parent, commits).open
    PROVE  /\ Begins(onto, Replay(onto, parent, commits).done)
           /\ \A i \in 1..Len(commits) : commits[i].edit.by # "person" =>
                 Remains(Replay(onto, parent, commits).done, commits[i].edit)
<1> DEFINE text(n) == IF n = 0 THEN parent ELSE commits[n].doc
<1>1. commits \in Seq(Revision) /\ \A i \in DOMAIN commits : Stands(Before(parent, commits, i), commits[i])
  BY DEF Chain
<1>2. Len(commits) \in Nat /\ DOMAIN commits = 1..Len(commits)
  BY <1>1
<1>3. PICK f : /\ Replay(onto, parent, commits) = f[Len(commits)]
               /\ f[0] = Unplayed(onto, parent)
               /\ \A n \in 1..Len(commits) : f[n] = Pick(f[n - 1], commits[n])
  BY <1>2, ReplayIs
<1> DEFINE Safe(n) == ~f[n].open =>
                         /\ Begins(onto, f[n].done)
                         /\ \A i \in 1..n : commits[i].edit.by # "person" =>
                               Remains(f[n].done, commits[i].edit)
<1> DEFINE S == {n \in Nat : n <= Len(commits) => Picking(f[n], text(n)) /\ Safe(n)}
<1>4. 0 \in S
  <2>1. onto \in Seq(Revision)
    BY DEF Branch
  <2>2. Unplayed(onto, parent) \in Replaying
    BY <2>1 DEF Unplayed, Replaying
  <2>3. Picking(Unplayed(onto, parent), parent)
    BY <2>2 DEF Picking, Unplayed
  <2>4. f[0].done = onto
    BY <1>3 DEF Unplayed
  <2>5. Begins(onto, onto)
    BY <2>1 DEF Begins
  <2>6. Safe(0)
    BY <2>4, <2>5
  <2> QED BY <1>3, <2>3, <2>6
<1>5. ASSUME NEW n \in Nat, n \in S PROVE n + 1 \in S
  <2> SUFFICES ASSUME n + 1 <= Len(commits)
               PROVE  Picking(f[n + 1], text(n + 1)) /\ Safe(n + 1)
    BY DEF S
  <2>1. n <= Len(commits) /\ n + 1 \in 1..Len(commits) /\ n + 1 - 1 = n
    BY <1>2
  <2>2. Picking(f[n], text(n)) /\ Safe(n)
    BY <1>5, <2>1
  <2> DEFINE x == commits[n + 1]
  <2>3. x \in Revision
    BY <1>1, <2>1
  <2>4. Stands(Before(parent, commits, n + 1), x)
    BY <1>1, <1>2, <2>1
  <2>5. Before(parent, commits, n + 1) = text(n)
    BY <2>1 DEF Before
  <2>6. f[n + 1] = Pick(f[n], x)
    BY <1>3, <2>1
  <2>7. Stands(text(n), x)
    BY <2>4, <2>5
  <2>8. text(n + 1) = x.doc
    BY <2>1
  <2> HIDE DEF text, Safe, x
  <2>9. Picking(Pick(f[n], x), x.doc)
    BY <2>2, <2>3, <2>7, PickKeeps
  <2>10. ASSUME ~f[n + 1].open
         PROVE  /\ Begins(onto, f[n + 1].done)
                /\ \A i \in 1..(n + 1) : commits[i].edit.by # "person" =>
                      Remains(f[n + 1].done, commits[i].edit)
    <3>1. ~Pick(f[n], x).open
      BY <2>6, <2>10
    <3>2. /\ ~f[n].open /\ Begins(f[n].done, Pick(f[n], x).done)
          /\ x.edit.by # "person" => Remains(Pick(f[n], x).done, x.edit)
      BY <2>2, <2>3, <2>7, <3>1, PickDropsNothing
    <3>3. /\ Begins(onto, f[n].done)
          /\ \A i \in 1..n : commits[i].edit.by # "person" => Remains(f[n].done, commits[i].edit)
      BY <2>2, <3>2 DEF Safe
    <3>4. f[n].done \in Seq(Revision) /\ f[n + 1].done \in Seq(Revision) /\ onto \in Seq(Revision)
      BY <2>2, <2>6, <2>9 DEF Picking, Branch
    <3>5. Len(f[n].done) \in Nat /\ Len(f[n + 1].done) \in Nat /\ Len(onto) \in Nat
      BY <3>4
    <3>6. Begins(f[n].done, f[n + 1].done)
      BY <2>6, <3>2
    <3>7. Begins(onto, f[n + 1].done)
      BY <3>3, <3>5, <3>6 DEF Begins
    <3>8. ASSUME NEW i \in 1..(n + 1), commits[i].edit.by # "person"
          PROVE  Remains(f[n + 1].done, commits[i].edit)
      <4>1. CASE i = n + 1
        BY <2>6, <3>2, <3>8, <4>1 DEF x
      <4>2. CASE i # n + 1
        <5>1. i \in 1..n
          BY <4>2
        <5>2. Remains(f[n].done, commits[i].edit)
          BY <3>3, <3>8, <5>1
        <5> QED BY <3>5, <3>6, <5>2, RemainsOn
      <4> QED BY <4>1, <4>2
    <3> QED BY <3>7, <3>8
  <2> QED BY <2>6, <2>8, <2>9, <2>10 DEF Safe
<1> HIDE DEF S
<1>6. Nat \subseteq S
  BY <1>4, <1>5, EveryNumber
<1>7. Safe(Len(commits))
  BY <1>2, <1>6 DEF S
<1> QED BY <1>3, <1>7

(* Rebase: all that only the clone had is replayed; the rest is upstream.  *)
LEMMA RebaseDropsNothing ==
    ASSUME NEW m, NEW t, Branch(m), Branch(t), NoLists, "updated" \notin Keys,
           NEW q, q = Replay(t, Last(Shared(m, t)).doc, After(m, t)), ~q.open,
           NEW i \in 1..Len(m), m[i].edit.by # "person"
    PROVE  Remains(q.done, m[i].edit)
<1>1. PICK n \in 1..Len(m) : /\ Shared(m, t) = SubSeq(m, 1, n)
                             /\ n <= Len(t) /\ \A j \in 1..n : t[j] = m[j]
  BY SharedIsFront
<1>2. Chain(Last(Shared(m, t)).doc, After(m, t)) /\ Last(Shared(m, t)).doc \in Doc
  BY AfterIsChain
<1>3. /\ Begins(t, q.done)
      /\ \A j \in 1..Len(After(m, t)) : After(m, t)[j].edit.by # "person" =>
            Remains(q.done, After(m, t)[j].edit)
  BY <1>2, ReplayDropsNothing
<1>4. m \in Seq(Revision) /\ t \in Seq(Revision)
  BY DEF Branch
<1>5. Len(m) \in Nat /\ Len(t) \in Nat /\ n \in Nat
  BY <1>4
<1>6. CASE i <= n
  <2>1. i \in 1..Len(t) /\ t[i] = m[i]
    BY <1>1, <1>5, <1>6
  <2>2. Len(t) <= Len(q.done) /\ q.done[i] = t[i]
    BY <1>3, <2>1 DEF Begins
  <2>3. \E j \in 1..Len(q.done) : q.done[j].edit = m[i].edit
    <3>1. CASE Len(q.done) \in Nat
      BY <1>5, <2>1, <2>2, <3>1
    <3>2. Len(q.done) \in Nat
      <4>1. \E text : Picking(q, text)
        BY <1>2, ReplayKeeps
      <4>2. q.done \in Seq(Revision)
        BY <4>1 DEF Picking, Branch
      <4> QED BY <4>2
    <3> QED BY <3>1, <3>2
  <2> QED BY <2>3 DEF Remains
<1>7. CASE i > n
  <2>1. Len(Shared(m, t)) = n
    <3>1. Len(SubSeq(m, 1, n)) = n
      BY <1>4, <1>5, FrontOf
    <3> QED BY <1>1, <3>1
  <2>2. After(m, t) = SubSeq(m, n + 1, Len(m))
    BY <2>1 DEF After
  <2>3. /\ Len(SubSeq(m, n + 1, Len(m))) = Len(m) - n
        /\ \A j \in 1..(Len(m) - n) : SubSeq(m, n + 1, Len(m))[j] = m[j + n]
    BY <1>4, BackOf
  <2>4. i - n \in 1..(Len(m) - n) /\ (i - n) + n = i
    BY <1>5, <1>7
  <2>5. i - n \in 1..Len(After(m, t)) /\ After(m, t)[i - n] = m[i]
    BY <2>2, <2>3, <2>4
  <2> QED BY <1>3, <2>5
<1> QED BY <1>5, <1>6, <1>7

-----------------------------------------------------------------------------
(* The invariant.  Every branch is built of commits that stand, and so are *)
(* the commits that a stopped rebase still has to replay, on the files     *)
(* they were made on.  A write that has been staged stands on the branch   *)
(* it will be committed to: no sync and no rebase is under way meanwhile.  *)
Stopped(r) ==
    /\ r \in Replaying /\ Branch(r.done) /\ r.todo # <<>>
    /\ Chain(r.parent, IF r.open THEN r.todo ELSE Tail(r.todo))

Drafts     == [at : {"staged"}, edit : Edit, doc : Doc]
Outcomes   == {"none", "ok", "conflict", "unready", "dirty", "failed", "race"}
SyncStates == [at : {"idle", "fetch", "rebase", "push"}, attempts : Nat, ended : Outcomes]

Sound(t, m, r, d, s) ==
    /\ Branch(t) /\ Branch(m)
    /\ r = NoWork \/ Stopped(r)
    /\ d = NoWork \/ /\ s.at = "idle" /\ r = NoWork
                     /\ Stands(Last(m).doc, [edit |-> d.edit, doc |-> d.doc])

SyncInv ==
    /\ Branch(remote)
    /\ track \in [Clone -> Seq(Revision)] /\ main \in [Clone -> Seq(Revision)]
    /\ rebase \in [Clone -> {NoWork} \cup Replaying]
    /\ drafts \in [Clone -> {NoWork} \cup Drafts]
    /\ syncing \in [Clone -> SyncStates]
    /\ \A c \in Clone : Sound(track[c], main[c], rebase[c], drafts[c], syncing[c])

LEMMA FirstIsBranch == Branch(<<FirstCommit>>)
<1>1. Missing \in Value
  BY DEF Missing, Value
<1>2. (CHOOSE k \in Keys : TRUE) \in Keys
  BY SyncAssumption
<1>3. FirstCommit.edit \in Edit /\ FirstCommit.doc \in Doc
  BY <1>1, <1>2, SyncAssumption DEF FirstCommit, Edit
<1>4. FirstCommit \in Revision
  BY <1>3 DEF Revision, FirstCommit
<1> HIDE DEF FirstCommit
<1> QED BY <1>4 DEF Branch

LEMMA SyncInitSafe == SyncInit => SyncInv
<1> SUFFICES ASSUME SyncInit PROVE SyncInv
  OBVIOUS
<1>1. Branch(<<FirstCommit>>)
  BY FirstIsBranch
<1>2. <<FirstCommit>> \in Seq(Revision)
  BY <1>1 DEF Branch
<1>3. Branch(remote) /\ remote \in Seq(Revision)
  BY <1>1, <1>2 DEF SyncInit
<1>4. /\ track \in [Clone -> Seq(Revision)] /\ main \in [Clone -> Seq(Revision)]
      /\ \A c \in Clone : track[c] = remote /\ main[c] = remote
  BY <1>3 DEF SyncInit
<1>5. /\ rebase \in [Clone -> {NoWork} \cup Replaying]
      /\ drafts \in [Clone -> {NoWork} \cup Drafts]
      /\ \A c \in Clone : rebase[c] = NoWork /\ drafts[c] = NoWork
  BY DEF SyncInit
<1>6. syncing \in [Clone -> SyncStates]
  <2>1. [at |-> "idle", attempts |-> 0, ended |-> "none"] \in SyncStates
    BY DEF SyncStates, Outcomes
  <2> QED BY <2>1 DEF SyncInit
<1> QED BY <1>3, <1>4, <1>5, <1>6 DEF SyncInv, Sound

(* The sync of one clone moves on.                                         *)
LEMMA SyncMoves ==
    ASSUME SyncInv, NEW c \in Clone,
           \/ \E at \in {"idle", "fetch", "rebase", "push"} : Goes(c, at)
           \/ \E how \in Outcomes : Stops(c, how)
           \/ Again(c)
    PROVE  syncing' \in [Clone -> SyncStates] /\ \A d \in Clone \ {c} : syncing'[d] = syncing[d]
<1>1. syncing \in [Clone -> SyncStates]
  BY DEF SyncInv
<1>2. ASSUME NEW at \in {"idle", "fetch", "rebase", "push"}, Goes(c, at)
      PROVE  syncing' \in [Clone -> SyncStates] /\ \A d \in Clone \ {c} : syncing'[d] = syncing[d]
  BY <1>1, <1>2 DEF Goes, SyncStates
<1>3. ASSUME NEW how \in Outcomes, Stops(c, how)
      PROVE  syncing' \in [Clone -> SyncStates] /\ \A d \in Clone \ {c} : syncing'[d] = syncing[d]
  BY <1>1, <1>3 DEF Stops, SyncStates
<1>4. ASSUME Again(c)
      PROVE  syncing' \in [Clone -> SyncStates] /\ \A d \in Clone \ {c} : syncing'[d] = syncing[d]
  <2>1. CASE Stops(c, IF syncing[c].attempts < MaxRetries THEN "race" ELSE "failed")
    <3>1. Stops(c, "race") \/ Stops(c, "failed")
      BY <2>1
    <3>2. "race" \in Outcomes /\ "failed" \in Outcomes
      BY DEF Outcomes
    <3> QED BY <1>3, <3>1, <3>2
  <2>2. CASE syncing' = [syncing EXCEPT ![c].at = "fetch", ![c].attempts = @ + 1]
    BY <1>1, <2>2 DEF SyncStates
  <2> QED BY <1>4, <2>1, <2>2 DEF Again
<1> QED BY <1>2, <1>3, <1>4

(* What a step that leaves the other clones alone has to show.             *)
LEMMA OneCloneMoves ==
    ASSUME SyncInv, NEW c \in Clone,
           Branch(remote'),
           track' \in [Clone -> Seq(Revision)], main' \in [Clone -> Seq(Revision)],
           rebase' \in [Clone -> {NoWork} \cup Replaying],
           drafts' \in [Clone -> {NoWork} \cup Drafts],
           syncing' \in [Clone -> SyncStates],
           \A d \in Clone \ {c} : /\ track'[d] = track[d] /\ main'[d] = main[d]
                                  /\ rebase'[d] = rebase[d] /\ drafts'[d] = drafts[d]
                                  /\ syncing'[d] = syncing[d],
           Sound(track'[c], main'[c], rebase'[c], drafts'[c], syncing'[c])
    PROVE  SyncInv'
<1>1. ASSUME NEW d \in Clone
      PROVE  Sound(track'[d], main'[d], rebase'[d], drafts'[d], syncing'[d])
  <2>1. CASE d = c
    BY <2>1
  <2>2. CASE d # c
    <3>1. Sound(track[d], main[d], rebase[d], drafts[d], syncing[d])
      BY DEF SyncInv
    <3> QED BY <2>2, <3>1
  <2> QED BY <2>1, <2>2
<1> QED BY <1>1 DEF SyncInv

LEMMA StagingStands ==
    ASSUME NEW c \in Clone, NEW doc \in Doc, NEW k \in DOMAIN Settable,
           NEW v \in Settable[k] \ {doc[k]}
    PROVE  LET e == [by |-> c, key |-> k, saw |-> doc[k], value |-> v]
               new == [doc EXCEPT ![k] = v]
           IN  /\ e \in Edit /\ new \in Doc
               /\ Stands(doc, [edit |-> e, doc |-> new])
<1> DEFINE e == [by |-> c, key |-> k, saw |-> doc[k], value |-> v]
           new == [doc EXCEPT ![k] = v]
           x == [edit |-> e, doc |-> new]
<1>1. k \in Keys /\ v \in Value
  BY SyncAssumption
<1>2. doc \in [Keys -> Value] /\ doc[k] \in Value
  BY <1>1 DEF Doc
<1>3. new \in Doc /\ new[k] = v /\ \A j \in Keys \ {k} : new[j] = doc[j]
  BY <1>1, <1>2 DEF Doc
<1>4. e \in Edit /\ e.key = k /\ e.saw = doc[k] /\ e.value = v
  BY <1>1, <1>2 DEF Edit
<1> HIDE DEF e, new
<1>5. x.edit = e /\ x.doc = new
  OBVIOUS
<1>6. DoesNothingElse(doc, x)
  BY <1>3, <1>4, <1>5 DEF DoesNothingElse
<1>7. ReplacesWhatItSaw(doc, x)
  BY <1>4, <1>5 DEF ReplacesWhatItSaw
<1>8. Stands(doc, x)
  BY <1>3, <1>4, <1>5, <1>6, <1>7 DEF Stands, NoLists
<1> QED BY <1>3, <1>4, <1>8 DEF e, new

(* A person takes, of every field that conflicts, one side or the other.   *)
Took(b, o, t, side) ==
    [k \in Keys |-> LET m == MergeField(k, b[k], o[k], t[k], RebaseContext)
                    IN  IF m = Marked THEN side[k] ELSE m]

LEMMA SettledIsDoc ==
    ASSUME NEW b \in Doc, NEW o \in Doc, NEW t \in Doc, NEW side \in {o, t}
    PROVE  Took(b, o, t, side) \in Doc
<1>1. ASSUME NEW k \in Keys
      PROVE  LET m == MergeField(k, b[k], o[k], t[k], RebaseContext)
             IN  (IF m = Marked THEN side[k] ELSE m) \in Value
  <2>1. b[k] \in Value /\ o[k] \in Value /\ t[k] \in Value /\ side[k] \in Value
    BY DEF Doc
  <2>2. MergeField(k, b[k], o[k], t[k], RebaseContext) \in Value \cup {Marked}
    BY <2>1, MergedIsValue
  <2> QED BY <2>1, <2>2
<1> QED BY <1>1 DEF Doc, Took

LEMMA SyncStepSafe ==
    ASSUME SyncInv, ~Overlap, NEW c \in Clone,
           StageEdit(c) \/ CommitEdit(c) \/ StartSync(c) \/ SyncStep(c)
           \/ Settle(c) \/ Continue(c) \/ AbortRebase(c)
    PROVE  SyncInv'
<1> DEFINE t == track[c]  m == main[c]  r == rebase[c]  d == drafts[c]  s == syncing[c]
<1>1. /\ Branch(remote) /\ remote \in Seq(Revision)
      /\ track \in [Clone -> Seq(Revision)] /\ main \in [Clone -> Seq(Revision)]
      /\ rebase \in [Clone -> {NoWork} \cup Replaying]
      /\ drafts \in [Clone -> {NoWork} \cup Drafts]
      /\ syncing \in [Clone -> SyncStates]
  BY DEF SyncInv, Branch
<1>2. Sound(t, m, r, d, s)
  BY DEF SyncInv
<1>3. /\ Branch(t) /\ Branch(m) /\ m \in Seq(Revision) /\ t \in Seq(Revision)
      /\ r = NoWork \/ Stopped(r)
      /\ d # NoWork => /\ s.at = "idle" /\ r = NoWork /\ d \in Drafts
                       /\ Stands(Last(m).doc, [edit |-> d.edit, doc |-> d.doc])
  <2>1. d \in {NoWork} \cup Drafts
    BY <1>1
  <2> QED BY <1>2, <2>1 DEF Sound, Branch
<1>4. CASE StageEdit(c)
  <2>1. /\ d = NoWork /\ r = NoWork /\ s.at = "idle"
        /\ UNCHANGED <<remote, track, main, rebase, syncing>>
    BY <1>4 DEF StageEdit
  <2> DEFINE doc == Last(m).doc
  <2>2. doc \in Doc
    BY <1>3, LastIsDoc
  <2>3. PICK k \in DOMAIN Settable : \E v \in Settable[k] \ {doc[k]} :
           drafts' = [drafts EXCEPT ![c] =
                 [at |-> "staged", doc |-> [doc EXCEPT ![k] = v],
                  edit |-> [by |-> c, key |-> k, saw |-> doc[k], value |-> v]]]
    BY <1>4 DEF StageEdit
  <2>4. PICK v \in Settable[k] \ {doc[k]} :
           drafts' = [drafts EXCEPT ![c] =
                 [at |-> "staged", doc |-> [doc EXCEPT ![k] = v],
                  edit |-> [by |-> c, key |-> k, saw |-> doc[k], value |-> v]]]
    BY <2>3
  <2> DEFINE e == [by |-> c, key |-> k, saw |-> doc[k], value |-> v]
             new == [doc EXCEPT ![k] = v]
             draft == [at |-> "staged", doc |-> new, edit |-> e]
  <2> HIDE DEF doc
  <2>5. e \in Edit /\ new \in Doc /\ Stands(doc, [edit |-> e, doc |-> new])
    BY <2>2, StagingStands
  <2>6. drafts' = [drafts EXCEPT ![c] = draft]
    BY <2>4
  <2> HIDE DEF e, new
  <2>7. draft \in Drafts /\ draft.edit = e /\ draft.doc = new
    BY <2>5 DEF Drafts
  <2> HIDE DEF draft
  <2>8. /\ drafts' \in [Clone -> {NoWork} \cup Drafts] /\ drafts'[c] = draft
        /\ \A o \in Clone \ {c} : drafts'[o] = drafts[o]
    BY <1>1, <2>6, <2>7
  <2>9. Sound(t, m, r, draft, s)
    BY <1>3, <2>1, <2>5, <2>7 DEF Sound, doc
  <2> HIDE DEF t, m, r, d, s
  <2>10. Sound(track'[c], main'[c], rebase'[c], drafts'[c], syncing'[c])
    BY <2>1, <2>8, <2>9 DEF t, m, r, s
  <2> QED BY <1>1, <2>1, <2>8, <2>10, OneCloneMoves
<1>5. CASE CommitEdit(c)
  <2> DEFINE x == [edit |-> d.edit, doc |-> d.doc]
  <2>1. /\ d # NoWork
        /\ drafts' = [drafts EXCEPT ![c] = NoWork]
        /\ UNCHANGED <<remote, track, syncing>>
    BY <1>5 DEF CommitEdit
  <2>2. r = NoWork
    BY <1>3, <2>1
  <2>3. main' = [main EXCEPT ![c] = Append(m, x)] /\ UNCHANGED rebase
    BY <1>5, <2>2 DEF CommitEdit
  <2>4. x \in Revision /\ Stands(Last(m).doc, x)
    BY <1>3, <2>1 DEF Drafts, Revision
  <2> HIDE DEF x
  <2>5. Branch(Append(m, x)) /\ Append(m, x) \in Seq(Revision)
    BY <1>3, <2>4, BranchGrows
  <2>6. /\ main' \in [Clone -> Seq(Revision)] /\ main'[c] = Append(m, x)
        /\ drafts' \in [Clone -> {NoWork} \cup Drafts] /\ drafts'[c] = NoWork
        /\ \A o \in Clone \ {c} : drafts'[o] = drafts[o] /\ main'[o] = main[o]
    BY <1>1, <2>1, <2>3, <2>5
  <2>7. Sound(t, Append(m, x), r, NoWork, s)
    BY <1>3, <2>5 DEF Sound
  <2> HIDE DEF t, m, r, d, s
  <2>8. Sound(track'[c], main'[c], rebase'[c], drafts'[c], syncing'[c])
    BY <2>1, <2>3, <2>6, <2>7 DEF t, r, s
  <2> QED BY <1>1, <2>1, <2>3, <2>6, <2>8, OneCloneMoves
<1>6. CASE StartSync(c)
  <2>1. /\ d = NoWork /\ UNCHANGED <<remote, track, main, rebase, drafts>>
        /\ syncing' = [syncing EXCEPT ![c] = [at |-> "fetch", attempts |-> 0, ended |-> "none"]]
    BY <1>6 DEF StartSync
  <2>2. [at |-> "fetch", attempts |-> 0, ended |-> "none"] \in SyncStates
    BY DEF SyncStates, Outcomes
  <2>3. /\ syncing' \in [Clone -> SyncStates]
        /\ \A o \in Clone \ {c} : syncing'[o] = syncing[o]
    BY <1>1, <2>1, <2>2
  <2>4. Sound(t, m, r, NoWork, syncing'[c])
    BY <1>3 DEF Sound
  <2> HIDE DEF t, m, r, s
  <2>5. Sound(track'[c], main'[c], rebase'[c], drafts'[c], syncing'[c])
    BY <2>1, <2>4 DEF t, m, r
  <2> QED BY <1>1, <2>1, <2>3, <2>5, OneCloneMoves
<1>7. CASE SyncStep(c)
  <2>1. d = NoWork /\ UNCHANGED drafts
    <3>1. s.at # "idle"
      BY <1>7 DEF SyncStep, Fetch, FetchFails, NothingNew, Refuse, Rebase, Push, PushFails, PushUnanswered
    <3>2. UNCHANGED drafts
      BY <1>7 DEF SyncStep, Fetch, FetchFails, NothingNew, Refuse, Rebase, Push, PushFails, PushUnanswered
    <3> QED BY <1>3, <3>1, <3>2
  <2>2. \/ \E at \in {"idle", "fetch", "rebase", "push"} : Goes(c, at)
        \/ \E how \in Outcomes : Stops(c, how)
        \/ Again(c)
    BY <1>7 DEF SyncStep, Fetch, FetchFails, NothingNew, Refuse, Rebase, Push, PushFails,
                PushUnanswered, Outcomes
  <2>3. syncing' \in [Clone -> SyncStates] /\ \A o \in Clone \ {c} : syncing'[o] = syncing[o]
    BY <2>2, SyncMoves
  <2>4. /\ Branch(remote')
        /\ \/ UNCHANGED track
           \/ track' = [track EXCEPT ![c] = remote]
           \/ track' = [track EXCEPT ![c] = main[c]]
    BY <1>1, <1>3, <1>7
       DEF SyncStep, Fetch, FetchFails, NothingNew, Refuse, Rebase, Push, PushFails, PushUnanswered
  <2>5. /\ track' \in [Clone -> Seq(Revision)] /\ Branch(track'[c])
        /\ \A o \in Clone \ {c} : track'[o] = track[o]
    BY <1>1, <1>3, <2>4
  <2>6. /\ main' \in [Clone -> Seq(Revision)] /\ Branch(main'[c])
        /\ rebase' \in [Clone -> {NoWork} \cup Replaying]
        /\ rebase'[c] = NoWork \/ Stopped(rebase'[c])
        /\ \A o \in Clone \ {c} : main'[o] = main[o] /\ rebase'[o] = rebase[o]
    <3>1. CASE UNCHANGED <<main, rebase>>
      BY <1>1, <1>3, <3>1
    <3>2. CASE Rebase(c)
      <4> DEFINE shared == Shared(m, t)
                 q == Replay(t, Last(shared).doc, After(m, t))
      <4>1. \/ q.open /\ rebase' = [rebase EXCEPT ![c] = q] /\ UNCHANGED main
            \/ ~q.open /\ main' = [main EXCEPT ![c] = q.done] /\ UNCHANGED rebase
        BY <3>2 DEF Rebase
      <4>2. Chain(Last(shared).doc, After(m, t)) /\ Last(shared).doc \in Doc
        BY <1>3, AfterIsChain
      <4>3. \E text : Picking(q, text)
        BY <1>3, <4>2, ReplayKeeps
      <4> HIDE DEF q
      <4>4. q \in Replaying /\ Branch(q.done) /\ q.done \in Seq(Revision) /\ (q.open => Stopped(q))
        BY <4>3 DEF Picking, Stopped, Branch
      <4>5. CASE q.open /\ rebase' = [rebase EXCEPT ![c] = q] /\ UNCHANGED main
        BY <1>1, <1>3, <4>4, <4>5
      <4>6. CASE ~q.open /\ main' = [main EXCEPT ![c] = q.done] /\ UNCHANGED rebase
        BY <1>1, <1>3, <4>4, <4>6
      <4> QED BY <4>1, <4>5, <4>6
    <3> QED BY <1>7, <3>1, <3>2
            DEF SyncStep, Fetch, FetchFails, NothingNew, Refuse, Push, PushFails, PushUnanswered
  <2>7. Sound(track'[c], main'[c], rebase'[c], drafts'[c], syncing'[c])
    BY <2>1, <2>5, <2>6 DEF Sound
  <2> HIDE DEF t, m, r, d, s
  <2> QED BY <1>1, <2>1, <2>3, <2>4, <2>5, <2>6, <2>7, OneCloneMoves
<1>8. CASE Settle(c)
  <2>1. /\ r # NoWork /\ r.open /\ d = NoWork
        /\ UNCHANGED <<remote, track, main, drafts, syncing>>
    BY <1>8 DEF Settle
  <2> DEFINE commit == r.todo[1]
             ours == Last(r.done).doc
             Taken == {[k \in Keys |->
                 LET f == MergeField(k, r.parent[k], ours[k], commit.doc[k], RebaseContext)
                 IN  IF f = Marked THEN side[k] ELSE f] : side \in {ours, commit.doc}}
  <2>2. PICK doc \in Taken :
           rebase' = [rebase EXCEPT ![c] =
              [r EXCEPT !.open = FALSE, !.parent = commit.doc,
                        !.done = IF doc = ours THEN @
                                 ELSE Append(@, [edit |-> [commit.edit EXCEPT !.by = "person"],
                                                 doc |-> doc])]]
    BY <1>8 DEF Settle
  <2>3. Stopped(r)
    BY <1>3, <2>1
  <2>4. /\ r \in Replaying /\ Branch(r.done) /\ r.done \in Seq(Revision) /\ r.todo # <<>>
        /\ Chain(r.parent, r.todo) /\ r.parent \in Doc
    BY <2>1, <2>3 DEF Stopped, Branch, Replaying
  <2>5. commit \in Revision /\ Chain(commit.doc, Tail(r.todo))
    BY <2>4, TailIsChain
  <2>6. commit.doc \in Doc /\ commit.edit \in Edit /\ ours \in Doc
    BY <2>4, <2>5, LastIsDoc DEF Revision
  <2> HIDE DEF commit, ours
  <2>7. doc \in Doc
    <3>1. PICK side \in {ours, commit.doc} : doc = Took(r.parent, ours, commit.doc, side)
      BY <2>2 DEF Took
    <3>2. Took(r.parent, ours, commit.doc, side) \in Doc
      BY <2>4, <2>6, SettledIsDoc
    <3> QED BY <3>1, <3>2
  <2> DEFINE y == [edit |-> [commit.edit EXCEPT !.by = "person"], doc |-> doc]
  <2>8. y \in Revision /\ y.edit.by = "person"
    BY <2>6, <2>7 DEF Revision, Edit
  <2>9. Stands(ours, y)
    BY <2>8 DEF Stands
  <2> HIDE DEF y
  <2> DEFINE grown == IF doc = ours THEN r.done ELSE Append(r.done, y)
  <2>10. Branch(grown)
    <3>1. Branch(Append(r.done, y))
      BY <2>4, <2>8, <2>9, BranchGrows DEF ours
    <3> QED BY <2>4, <3>1
  <2>11. rebase' = [rebase EXCEPT ![c] =
              [r EXCEPT !.open = FALSE, !.parent = commit.doc, !.done = grown]]
    BY <2>2, <2>4 DEF y, Replaying
  <2> HIDE DEF grown
  <2> DEFINE q == [r EXCEPT !.open = FALSE, !.parent = commit.doc, !.done = grown]
  <2>12. /\ q \in Replaying /\ q.open = FALSE /\ q.parent = commit.doc
         /\ q.done = grown /\ q.todo = r.todo
    BY <2>4, <2>6, <2>10 DEF Replaying, Branch
  <2> HIDE DEF q
  <2>13. Stopped(q)
    BY <2>4, <2>5, <2>10, <2>12 DEF Stopped
  <2>14. /\ rebase' \in [Clone -> {NoWork} \cup Replaying] /\ rebase'[c] = q
         /\ \A o \in Clone \ {c} : rebase'[o] = rebase[o]
    BY <1>1, <2>11, <2>12 DEF q
  <2>15. Sound(t, m, q, d, s)
    BY <1>3, <2>1, <2>13 DEF Sound
  <2> HIDE DEF t, m, r, d, s
  <2>16. Sound(track'[c], main'[c], rebase'[c], drafts'[c], syncing'[c])
    BY <2>1, <2>14, <2>15 DEF t, m, d, s
  <2>17. /\ Branch(remote') /\ track' \in [Clone -> Seq(Revision)]
         /\ main' \in [Clone -> Seq(Revision)] /\ drafts' \in [Clone -> {NoWork} \cup Drafts]
         /\ syncing' \in [Clone -> SyncStates]
         /\ \A o \in Clone \ {c} : /\ track'[o] = track[o] /\ main'[o] = main[o]
                                   /\ drafts'[o] = drafts[o] /\ syncing'[o] = syncing[o]
    BY <1>1, <2>1
  <2> QED BY <2>14, <2>16, <2>17, OneCloneMoves
<1>9. CASE Continue(c)
  <2> DEFINE q == Replay(r.done, r.parent, Tail(r.todo))
  <2>1. /\ r # NoWork /\ ~r.open /\ d = NoWork
        /\ UNCHANGED <<remote, track, drafts, syncing>>
        /\ \/ q.open /\ rebase' = [rebase EXCEPT ![c] = q] /\ UNCHANGED main
           \/ ~q.open /\ rebase' = [rebase EXCEPT ![c] = NoWork]
                      /\ main' = [main EXCEPT ![c] = q.done]
    BY <1>9 DEF Continue
  <2>2. Stopped(r)
    BY <1>3, <2>1
  <2>3. Branch(r.done) /\ Chain(r.parent, Tail(r.todo)) /\ r.parent \in Doc
    BY <2>1, <2>2 DEF Stopped, Replaying
  <2>4. \E text : Picking(q, text)
    BY <2>3, ReplayKeeps
  <2> HIDE DEF q
  <2>5. q \in Replaying /\ Branch(q.done) /\ q.done \in Seq(Revision) /\ (q.open => Stopped(q))
    BY <2>4 DEF Picking, Stopped, Branch
  <2>6. /\ main' \in [Clone -> Seq(Revision)] /\ Branch(main'[c])
        /\ rebase' \in [Clone -> {NoWork} \cup Replaying]
        /\ rebase'[c] = NoWork \/ Stopped(rebase'[c])
        /\ \A o \in Clone \ {c} : main'[o] = main[o] /\ rebase'[o] = rebase[o]
    <3>1. CASE q.open /\ rebase' = [rebase EXCEPT ![c] = q] /\ UNCHANGED main
      BY <1>1, <1>3, <2>5, <3>1
    <3>2. CASE ~q.open /\ rebase' = [rebase EXCEPT ![c] = NoWork]
                       /\ main' = [main EXCEPT ![c] = q.done]
      BY <1>1, <2>5, <3>2
    <3> QED BY <2>1, <3>1, <3>2
  <2>7. Sound(t, main'[c], rebase'[c], NoWork, s)
    BY <1>3, <2>6 DEF Sound
  <2> HIDE DEF t, m, r, s
  <2>8. Sound(track'[c], main'[c], rebase'[c], drafts'[c], syncing'[c])
    BY <2>1, <2>7 DEF t, s
  <2> QED BY <1>1, <2>1, <2>6, <2>8, OneCloneMoves
<1>10. CASE AbortRebase(c)
  <2>1. /\ d = NoWork /\ rebase' = [rebase EXCEPT ![c] = NoWork]
        /\ UNCHANGED <<remote, track, main, drafts, syncing>>
    BY <1>10 DEF AbortRebase
  <2>2. /\ rebase' \in [Clone -> {NoWork} \cup Replaying] /\ rebase'[c] = NoWork
        /\ \A o \in Clone \ {c} : rebase'[o] = rebase[o]
    BY <1>1, <2>1
  <2>3. Sound(t, m, NoWork, d, s)
    BY <1>3, <2>1 DEF Sound
  <2> HIDE DEF t, m, d, s
  <2>4. Sound(track'[c], main'[c], rebase'[c], drafts'[c], syncing'[c])
    BY <2>1, <2>2, <2>3 DEF t, m, d, s
  <2> QED BY <1>1, <2>1, <2>2, <2>4, OneCloneMoves
<1> QED BY <1>4, <1>5, <1>6, <1>7, <1>8, <1>9, <1>10

(* While no write overlaps a sync of its clone: on no branch, however      *)
(* often its commits were replayed, does one take back another clone's     *)
(* edit of another field or of another item of its list, and none settles  *)
(* a claim.                                                                *)
THEOREM ReplaysStayFaithful ==
    ASSUME ~Overlap PROVE SyncSpec => []ReplaysAreFaithful
<1>1. SyncInit => SyncInv
  BY SyncInitSafe
<1>2. SyncInv /\ [SyncNext]_syncVars => SyncInv'
  <2> SUFFICES ASSUME SyncInv, [SyncNext]_syncVars PROVE SyncInv'
    OBVIOUS
  <2>1. CASE UNCHANGED syncVars
    BY <2>1 DEF SyncInv, syncVars
  <2>2. CASE SyncNext
    <3>1. PICK c \in Clone : StageEdit(c) \/ CommitEdit(c) \/ StartSync(c) \/ SyncStep(c)
                             \/ Settle(c) \/ Continue(c) \/ AbortRebase(c)
      BY <2>2 DEF SyncNext
    <3> QED BY <3>1, SyncStepSafe
  <2> QED BY <2>1, <2>2
<1>3. SyncInv => ReplaysAreFaithful
  <2> SUFFICES ASSUME SyncInv, NEW b \in Branches PROVE
          \A i \in 2..Len(b) : b[i].edit.by # "person" =>
              /\ DoesNothingElse(b[i - 1].doc, b[i]) /\ ReplacesWhatItSaw(b[i - 1].doc, b[i])
              /\ b[i].doc[b[i].edit.key] # b[i - 1].doc[b[i].edit.key]
    BY DEF ReplaysAreFaithful
  <2>1. Branch(b)
    BY DEF Branches, SyncInv, Sound
  <2> QED BY <2>1 DEF Branch, Stands
<1> QED BY <1>1, <1>2, <1>3, PTL DEF SyncSpec

(* Where no write overlaps a sync of its clone, nobody sets a list and     *)
(* there is no time of the last change to take the later one of: a commit  *)
(* of a clone that leaves its branch has left its value on it.             *)
THEOREM CommitsAreKept ==
    ASSUME ~Overlap, NoLists, "updated" \notin Keys PROVE SyncSpec => NoCommitIsDropped
<1> DEFINE Keeps == \A c \in Clone : \A i \in DOMAIN main[c] :
                       LET e == main[c][i].edit
                       IN  main'[c] # main[c] /\ e.by = c /\ rebase[c] = NoWork =>
                              \/ \E j \in DOMAIN main'[c] : main'[c][j].edit = e
                              \/ \E j \in DOMAIN main'[c] :
                                   Does(e, main'[c][j].doc[e.key], main'[c][j].doc[e.key])
<1>1. SyncInit => SyncInv
  BY SyncInitSafe
<1>2. SyncInv /\ [SyncNext]_syncVars => SyncInv'
  <2> SUFFICES ASSUME SyncInv, [SyncNext]_syncVars PROVE SyncInv'
    OBVIOUS
  <2>1. CASE UNCHANGED syncVars
    BY <2>1 DEF SyncInv, syncVars
  <2>2. CASE SyncNext
    <3>1. PICK c \in Clone : StageEdit(c) \/ CommitEdit(c) \/ StartSync(c) \/ SyncStep(c)
                             \/ Settle(c) \/ Continue(c) \/ AbortRebase(c)
      BY <2>2 DEF SyncNext
    <3> QED BY <3>1, SyncStepSafe
  <2> QED BY <2>1, <2>2
<1>3. SyncInv /\ [SyncNext]_syncVars => [Keeps]_syncVars
  <2> SUFFICES ASSUME SyncInv, SyncNext, NEW c \in Clone, NEW i \in DOMAIN main[c],
                      main'[c] # main[c], main[c][i].edit.by = c, rebase[c] = NoWork
               PROVE  LET e == main[c][i].edit
                      IN  \/ \E j \in DOMAIN main'[c] : main'[c][j].edit = e
                          \/ \E j \in DOMAIN main'[c] :
                                Does(e, main'[c][j].doc[e.key], main'[c][j].doc[e.key])
    OBVIOUS
  <2> DEFINE m == main[c]
             t == track[c]
             e == m[i].edit
  <2>1. /\ Branch(m) /\ Branch(t) /\ m \in Seq(Revision) /\ t \in Seq(Revision)
        /\ main \in [Clone -> Seq(Revision)]
    <3>1. main \in [Clone -> Seq(Revision)] /\ track \in [Clone -> Seq(Revision)]
      BY DEF SyncInv
    <3>2. Sound(t, m, rebase[c], drafts[c], syncing[c])
      BY DEF SyncInv
    <3> QED BY <3>1, <3>2 DEF Sound
  <2>2. Len(m) \in Nat /\ DOMAIN m = 1..Len(m)
    BY <2>1
  <2>3. e.by # "person"
    BY SyncAssumption
  <2>4. CommitEdit(c) \/ Rebase(c)
    <3>1. PICK d \in Clone : StageEdit(d) \/ CommitEdit(d) \/ StartSync(d) \/ SyncStep(d)
                             \/ Settle(d) \/ Continue(d) \/ AbortRebase(d)
      BY DEF SyncNext
    <3>2. CASE CommitEdit(d)
      <4>1. d # c => main'[c] = main[c]
        BY <2>1, <3>2 DEF CommitEdit
      <4> QED BY <3>2, <4>1
    <3>3. CASE Rebase(d)
      <4>1. d # c => main'[c] = main[c]
        BY <2>1, <3>3 DEF Rebase
      <4> QED BY <3>3, <4>1
    <3>4. CASE Continue(d)
      <4>1. d # c
        BY <3>4 DEF Continue
      <4>2. main'[c] = main[c]
        BY <2>1, <3>4, <4>1 DEF Continue
      <4> QED BY <4>2
    <3>5. CASE UNCHANGED main
      BY <3>5
    <3> QED BY <3>1, <3>2, <3>3, <3>4, <3>5
            DEF StageEdit, StartSync, SyncStep, Fetch, FetchFails, NothingNew, Refuse, Push,
                PushFails, PushUnanswered, Settle, AbortRebase
  <2>5. CASE CommitEdit(c)
    <3> DEFINE x == [edit |-> drafts[c].edit, doc |-> drafts[c].doc]
    <3>1. main' = [main EXCEPT ![c] = Append(m, x)]
      BY <2>5 DEF CommitEdit
    <3> HIDE DEF x
    <3>2. main'[c] = Append(m, x)
      BY <2>1, <3>1
    <3>3. i \in DOMAIN Append(m, x) /\ Append(m, x)[i] = m[i]
      BY <2>1, <2>2
    <3> QED BY <3>2, <3>3
  <2>6. CASE Rebase(c)
    <3> DEFINE q == Replay(t, Last(Shared(m, t)).doc, After(m, t))
    <3>1. ~q.open /\ main' = [main EXCEPT ![c] = q.done]
      BY <2>6 DEF Rebase
    <3> HIDE DEF q
    <3>2. main'[c] = q.done
      BY <2>1, <3>1
    <3>3. Remains(q.done, e)
      BY <2>1, <2>2, <2>3, <3>1, RebaseDropsNothing DEF q
    <3>4. q.done \in Seq(Revision)
      <4>1. Chain(Last(Shared(m, t)).doc, After(m, t)) /\ Last(Shared(m, t)).doc \in Doc
        BY <2>1, AfterIsChain
      <4>2. \E text : Picking(q, text)
        BY <2>1, <4>1, ReplayKeeps DEF q
      <4> QED BY <4>2 DEF Picking, Branch
    <3>5. DOMAIN q.done = 1..Len(q.done)
      BY <3>4
    <3> HIDE DEF e
    <3>8. PICK j \in 1..Len(q.done) : q.done[j].edit = e \/ q.done[j].doc[e.key] = e.value
      BY <3>3 DEF Remains
    <3> USE DEF e
    <3>6. CASE q.done[j].edit = e
      BY <3>2, <3>5, <3>6
    <3>7. CASE q.done[j].doc[e.key] = e.value
      <4>1. i # 1 => e.value.shape # "seq"
        <5>1. i # 1 => i \in 2..Len(m)
          BY <2>2
        <5>2. i # 1 => Stands(m[i - 1].doc, m[i])
          BY <2>1, <5>1 DEF Branch
        <5> QED BY <2>3, <5>2 DEF Stands
      <4>2. i = 1 => e.value = Missing
        BY <2>1 DEF Branch, FirstCommit
      <4>3. e.value.shape # "seq"
        BY <4>1, <4>2 DEF Missing
      <4>4. Does(e, q.done[j].doc[e.key], q.done[j].doc[e.key])
        BY <3>7, <4>3 DEF Does
      <4> QED BY <3>2, <3>5, <4>4
    <3> QED BY <3>6, <3>7, <3>8
  <2> QED BY <2>4, <2>5, <2>6
<1> QED BY <1>1, <1>2, <1>3, PTL DEF SyncSpec, NoCommitIsDropped
=============================================================================
