----------------------------- MODULE ToolsProofs -----------------------------
(***************************************************************************)
(* Why a page that nothing is on its way to shows the last commit, for any *)
(* number of open pages, commits, and frames a subscriber may lag behind;  *)
(* why the Morse workbench trusts no host that was not given to it, for    *)
(* any processes, documents, environments and tasks; and why the answers   *)
(* of the server and of the commands are true, for any threads, processes  *)
(* and handlers.                                                           *)
(***************************************************************************)
EXTENDS LiveUpdates, Workbench, Calls, FiniteSetTheorems, WellFoundedInduction, NaturalsInduction, TLAPS

(* What every variable holds.                                              *)
LiveTypeOK ==
    /\ commits \in 0..MaxCommits /\ shown \in Nat /\ seen \in Nat
    /\ telling \subseteq {"server", "watcher"}
    /\ live \subseteq Tab /\ cut \subseteq Tab
    /\ queue \in [Tab -> 0..Room]
    /\ fetch \in [Tab -> {"none", "asked", "answered"}]
    /\ answer \in [Tab -> Nat] /\ cache \in [Tab -> Nat]

(* The watcher never sees more than there is, and once it has seen the     *)
(* last commit the index shows it.                                         *)
SeenIsShown == seen <= commits /\ (seen = commits => shown = commits)

(* A page that no frame missed and none waits for either asks, or has the  *)
(* answer of now on its way, or shows it already.  Whether it is still     *)
(* subscribed does not matter: the frame it misses next puts it into `cut'.*)
Current(t) ==
    (fetch[t] = "none" => cache[t] = commits) /\ (fetch[t] = "answered" => answer[t] = commits)

Told ==
    telling = {} /\ seen = commits =>
        \A t \in Tab : queue[t] = 0 /\ t \notin cut => Current(t)

LiveInv == LiveTypeOK /\ SeenIsShown /\ Told

(* The invariant holds at first.                                           *)
LEMMA InitLive == LiveInit => LiveInv
BY LiveAssumption DEF LiveInit, LiveInv, LiveTypeOK, SeenIsShown, Told, Current

(* Every step of a page, the socket or a writer keeps the invariant.       *)
LEMMA NextLive == LiveInv /\ [LiveNext]_liveVars => LiveInv'
<1> SUFFICES ASSUME LiveInv, [LiveNext]_liveVars PROVE LiveInv'
  OBVIOUS
<1> USE LiveAssumption DEF LiveInv, LiveTypeOK, SeenIsShown
<1>1. CASE ServerWrites
  BY <1>1 DEF ServerWrites, Told
<1>2. CASE Elsewhere
  BY <1>2 DEF Elsewhere, Told
<1>3. CASE look_now
  BY <1>3 DEF look_now, Told
<1>4. ASSUME NEW who \in {"server", "watcher"}, announce(who) PROVE LiveInv'
  <2>1. \A t \in Tab : queue'[t] = IF t \in live /\ queue[t] < Room THEN queue[t] + 1 ELSE queue[t]
    BY <1>4 DEF announce
  <2>2. queue' \in [Tab -> 0..Room]
    BY <1>4, <2>1 DEF announce
  <2>3. \A t \in Tab : queue'[t] # 0 \/ t \in cut'
    BY <1>4, <2>1 DEF announce
  <2>4. telling' \subseteq {"server", "watcher"} /\ cut' \subseteq Tab
    BY <1>4 DEF announce
  <2> QED BY <1>4, <2>2, <2>3, <2>4 DEF announce, Told
<1>5. ASSUME NEW t \in Tab, subscribe(t) PROVE LiveInv'
  BY <1>5 DEF subscribe, Told, Current
<1>6. ASSUME NEW t \in Tab, onclose(t) PROVE LiveInv'
  BY <1>6 DEF onclose, Told, Current
<1>7. ASSUME NEW t \in Tab, index_updated(t) PROVE LiveInv'
  <2>1. queue' \in [Tab -> 0..Room]
    BY <1>7 DEF index_updated
  <2>2. Told'
    BY <1>7 DEF index_updated, Told, Current
  <2> QED BY <1>7, <2>1, <2>2 DEF index_updated
<1>8. ASSUME NEW t \in Tab, Ask(t) PROVE LiveInv'
  BY <1>8 DEF Ask, Told, Current
<1>9. ASSUME NEW t \in Tab, ServerAnswers(t) PROVE LiveInv'
  BY <1>9 DEF ServerAnswers, Told, Current
<1>10. ASSUME NEW t \in Tab, Arrive(t) PROVE LiveInv'
  BY <1>10 DEF Arrive, Told, Current
<1>11. CASE UNCHANGED liveVars
  BY <1>11 DEF liveVars, Told, Current
<1> QED
  BY <1>1, <1>2, <1>3, <1>4, <1>5, <1>6, <1>7, <1>8, <1>9, <1>10, <1>11 DEF LiveNext

(* A page that is subscribed, and has nothing on its way, shows the last   *)
(* commit, unless a frame missed it since it asked last.                   *)
THEOREM PagesAreCurrent == LiveSpec => []QuietPagesAreCurrent
<1>1. LiveInv => QuietPagesAreCurrent
  BY DEF LiveInv, LiveTypeOK, Told, Current, QuietPagesAreCurrent
<1> QED BY InitLive, NextLive, <1>1, PTL DEF LiveSpec

-----------------------------------------------------------------------------
(* The workbench.                                                          *)
Page  == Seq([name : Nat, spec : SpecId])
Names == {page[i].name : i \in DOMAIN page}

(* What is kept, beside what the processes are at.                         *)
BenchTypeOK ==
    /\ local \in LocalConfig
    /\ config \in SUBSET SpecId /\ held \in [Tool -> SUBSET SpecId]
    /\ page \in Page
    /\ DOMAIN task = Tool

(* A job is the one its first step says, and is what a process may be      *)
(* asked.                                                                  *)
JobIsKnown(t) ==
    /\ {"at", "job", "alone"} \subseteq DOMAIN task[t]
    /\ IsJob(Job(t))
    /\ \A op \in {"allow", "edit", "import env", "register", "unregister", "import", "send"} :
          task[t].at = op => Job(t).op = op

(* What was read of the local file trusts and holds nothing that was not   *)
(* given, and is the file as long as no write crossed.                     *)
FileInHand(t) ==
    /\ "read" \in DOMAIN task[t]
    /\ Job(t).op \in {"allow", "edit"}
    /\ task[t].read \in LocalConfig
    /\ task[t].read.allow \subseteq given
    /\ \A e \in Environ : task[t].read.envs[e] # Nil => task[t].read.envs[e].vars \subseteq entered
    /\ task[t].alone => task[t].read = local

(* A spec is unregistered that no scenario stands on, as long as no write  *)
(* crossed.                                                                *)
ConfigInHand(t) ==
    /\ Job(t).op \in {"register", "unregister"}
    /\ task[t].alone /\ Job(t).op = "unregister" => \A i \in DOMAIN page : page[i].spec # Job(t).id

(* The names that are taken, and the page, are those of now.               *)
NamesInHand(t) ==
    /\ "read" \in DOMAIN task[t]
    /\ Job(t).op = "import"
    /\ {"taken", "page"} \subseteq DOMAIN task[t].read
    /\ IsFiniteSet(task[t].read.taken)
    /\ task[t].alone => task[t].read.taken = Names
PageInHand(t) ==
    /\ NamesInHand(t)
    /\ Job(t).spec \in held[t]
    /\ task[t].read.page \in Page
    /\ task[t].alone => task[t].read.page = page

InHand(t) ==
    task[t] # Nil =>
       /\ JobIsKnown(t)
       /\ task[t].at = "write local"  => FileInHand(t)
       /\ task[t].at = "write config" => ConfigInHand(t)
       /\ task[t].at = "import page"  => NamesInHand(t)
       /\ task[t].at = "import commit" => PageInHand(t)

BenchInv ==
    /\ BenchTypeOK
    /\ \A t \in Tool : InHand(t)
    /\ TrustIsGiven /\ PipelineStaysOut /\ RegistryIsSound

-----------------------------------------------------------------------------
(* The helpers of the workbench.                                           *)

(* There is a free name, and it is one (unique_slug).                      *)
LEMMA FreeNameIsFree ==
    ASSUME NEW taken, IsFiniteSet(taken)
    PROVE  FreeName(taken) \in Nat /\ FreeName(taken) \notin taken
<1> DEFINE below == {ss \in Nat \X Nat : ss[1] < ss[2]}
<1> DEFINE range == 1..Cardinality(taken) + 1
<1> DEFINE free  == range \ taken
<1>1. Cardinality(taken) \in Nat
  BY FS_CardinalityType
<1>2. IsFiniteSet(range) /\ Cardinality(range) = Cardinality(taken) + 1
  BY <1>1, FS_Interval
<1> HIDE DEF range
<1>3. free # {}
  <2>1. CASE range \in SUBSET taken
    <3>1. Cardinality(range) <= Cardinality(taken)
      BY <2>1, FS_Subset
    <3> QED BY <3>1, <1>1, <1>2
  <2>2. CASE range \notin SUBSET taken
    BY <2>2
  <2> QED BY <2>1, <2>2
<1>4. free \subseteq Nat
  BY <1>1 DEF range
<1>5. IsWellFoundedOn(below, Nat)
  BY NatLessThanWellFounded DEF OpToRel
<1> HIDE DEF below, free
<1>6. PICK n \in free : \A k \in free : ~ (<<k, n>> \in below)
  BY <1>3, <1>4, <1>5, WFMin
<1>7. \A k \in free : n <= k
  <2> SUFFICES ASSUME NEW k \in free PROVE n <= k
    OBVIOUS
  <2>1. k \in Nat /\ n \in Nat
    BY <1>4, <1>6
  <2>2. <<k, n>> \in Nat \X Nat /\ <<k, n>>[1] = k /\ <<k, n>>[2] = n
    BY <2>1
  <2>3. k < n => <<k, n>> \in below
    BY <2>2 DEF below
  <2> QED BY <1>6, <2>1, <2>3
<1>8. n \in 1..Cardinality(taken) + 1 /\ n \notin taken
  BY DEF free, range
<1>9. \A k \in 1..n - 1 : k \in taken
  <2> SUFFICES ASSUME NEW k \in 1..n - 1, k \notin taken PROVE FALSE
    OBVIOUS
  <2>1. k \in range /\ k < n
    BY <1>1, <1>8 DEF range
  <2>2. k \in free
    BY <2>1 DEF free
  <2> QED BY <2>1, <2>2, <1>7, <1>8, <1>1
<1>10. /\ FreeName(taken) \in 1..Cardinality(taken) + 1
       /\ FreeName(taken) \notin taken
  BY <1>8, <1>9 DEF FreeName
<1> QED BY <1>1, <1>10

(* The names of a page are finitely many.                                  *)
LEMMA NamesAreFinite ==
    ASSUME page \in Page PROVE IsFiniteSet(Names)
<1> DEFINE name == [i \in 1..Len(page) |-> page[i].name]
<1>1. DOMAIN page = 1..Len(page) /\ Len(page) \in Nat
  BY DEF Page
<1>2. IsFiniteSet(1..Len(page))
  BY <1>1, FS_Interval
<1>3. name \in Surjection(1..Len(page), Names)
  BY <1>1 DEF Surjection, Names
<1> QED BY <1>2, <1>3, FS_Surjection

(* An edit gives environments again, leaves those it does not name, and    *)
(* gives no value but those it sets.                                       *)
AllIn(envs, V) == \A e \in Environ : envs[e] # Nil => envs[e].vars \subseteq V
LEMMA EditedIsAFile ==
    ASSUME NEW f \in LocalConfig, NEW edit, IsEdit(edit)
    PROVE  /\ Edited(f, edit) \in LocalConfig
           /\ \A e \in Environ \ Touched(edit) : Edited(f, edit).envs[e] = f.envs[e]
           /\ \A V : AllIn(f.envs, V) /\ (edit.kind = "upsert" => edit.set \subseteq V)
                        => AllIn(Edited(f, edit).envs, V)
<1> USE DEF LocalConfig
<1>1. edit.name \in Environ /\ DOMAIN f = {"envs", "allow"}
  BY DEF IsEdit
<1>2. f.envs \in [Environ -> LocalEnv \union {Nil}]
  OBVIOUS
<1>3. CASE edit.kind = "upsert"
  <2> DEFINE env == Upserted(OrNew(f.envs[edit.name]), edit)
  <2>1. OrNew(f.envs[edit.name]) \in LocalEnv
    BY <1>1, <1>2 DEF OrNew, NewEnv, LocalEnv
  <2>2. env \in LocalEnv
    BY <2>1, <1>3 DEF Upserted, LocalEnv, IsEdit
  <2>3. ASSUME NEW V, AllIn(f.envs, V), edit.set \subseteq V PROVE env.vars \subseteq V
    <3>1. OrNew(f.envs[edit.name]).vars \subseteq V
      BY <2>3, <1>1 DEF OrNew, NewEnv, AllIn
    <3> QED BY <3>1, <2>3 DEF Upserted
  <2>4. Edited(f, edit) = [f EXCEPT !.envs = [f.envs EXCEPT ![edit.name] = env]]
    BY <1>3 DEF Edited
  <2> HIDE DEF env
  <2>5. Edited(f, edit).envs = [f.envs EXCEPT ![edit.name] = env]
    BY <2>4, <1>1
  <2>6. \A e \in Environ : Edited(f, edit).envs[e] = IF e = edit.name THEN env ELSE f.envs[e]
    BY <2>5, <1>2
  <2>7. Edited(f, edit) \in LocalConfig
    BY <2>4, <2>2, <1>2
  <2>8. ASSUME NEW V, AllIn(f.envs, V), edit.set \subseteq V PROVE AllIn(Edited(f, edit).envs, V)
    BY <2>3, <2>6, <2>8 DEF AllIn
  <2>9. edit.name \in Touched(edit)
    BY DEF Touched
  <2> QED BY <1>1, <1>3, <2>5, <2>6, <2>7, <2>8, <2>9
<1>4. CASE edit.kind = "rename"
  <2> DEFINE gone == [f.envs EXCEPT ![edit.name] = Nil]
             new  == [gone EXCEPT ![edit.to] = f.envs[edit.name]]
  <2>1. edit.to \in Environ
    BY <1>4 DEF IsEdit
  <2>2. gone \in [Environ -> LocalEnv \union {Nil}]
    BY <1>2
  <2>3. new \in [Environ -> LocalEnv \union {Nil}]
    BY <1>1, <1>2, <2>2, <2>1
  <2>4. Edited(f, edit) = [f EXCEPT !.envs = new]
    BY <1>4 DEF Edited
  <2>5. \A e \in Environ : new[e] = IF e = edit.to THEN f.envs[edit.name]
                                    ELSE IF e = edit.name THEN Nil ELSE f.envs[e]
    BY <1>2, <2>2
  <2> HIDE DEF new
  <2>6. Edited(f, edit).envs = new /\ Edited(f, edit) \in LocalConfig
    BY <2>3, <2>4, <1>1
  <2>7. ASSUME NEW V, AllIn(f.envs, V) PROVE AllIn(new, V)
    BY <2>5, <2>7, <1>1 DEF AllIn
  <2>8. Touched(edit) = {edit.name, edit.to}
    BY <1>4 DEF Touched
  <2> QED BY <1>1, <2>3, <2>5, <2>6, <2>7, <2>8
<1>5. CASE edit.kind = "delete"
  <2> DEFINE new == [f.envs EXCEPT ![edit.name] = Nil]
  <2>1. new \in [Environ -> LocalEnv \union {Nil}]
    BY <1>2
  <2>2. Edited(f, edit) = [f EXCEPT !.envs = new]
    BY <1>5 DEF Edited
  <2>3. \A e \in Environ : new[e] = IF e = edit.name THEN Nil ELSE f.envs[e]
    BY <1>2
  <2> HIDE DEF new
  <2>4. Edited(f, edit).envs = new /\ Edited(f, edit) \in LocalConfig
    BY <2>1, <2>2, <1>1
  <2>5. ASSUME NEW V, AllIn(f.envs, V) PROVE AllIn(new, V)
    BY <2>3, <2>5 DEF AllIn
  <2>6. edit.name \in Touched(edit)
    BY DEF Touched
  <2> QED BY <1>1, <2>1, <2>3, <2>4, <2>5, <2>6
<1> QED BY <1>3, <1>4, <1>5 DEF IsEdit

(* What a process writes from a file it has in hand.                       *)
LEMMA WrittenIsAFile ==
    ASSUME NEW t \in Tool, JobIsKnown(t), FileInHand(t)
    PROVE  /\ Written(t) \in LocalConfig
           /\ Written(t).allow = IF Job(t).op = "allow" THEN task[t].read.allow \union {Job(t).host}
                                 ELSE task[t].read.allow
           /\ Job(t).op = "allow" => Job(t).host \in Host /\ Written(t) = allow(task[t].read, Job(t).host)
           /\ Job(t).op = "edit" =>
                 \A e \in Environ \ Touched(Job(t).edit) : Written(t).envs[e] = task[t].read.envs[e]
           /\ AllIn(Written(t).envs,
                    IF Job(t).op = "edit" /\ Job(t).edit.kind = "upsert"
                    THEN entered \union Job(t).edit.set ELSE entered)
<1> DEFINE f == task[t].read
<1>1. f \in LocalConfig /\ AllIn(f.envs, entered)
  BY DEF FileInHand, AllIn
<1>2. CASE Job(t).op = "allow"
  <2>1. Job(t).host \in Host
    BY <1>2 DEF JobIsKnown, IsJob
  <2>2. Written(t) = allow(f, Job(t).host)
    BY <1>2 DEF Written
  <2> HIDE DEF f
  <2>3. /\ allow(f, Job(t).host) \in LocalConfig
        /\ allow(f, Job(t).host).envs = f.envs
        /\ allow(f, Job(t).host).allow = f.allow \union {Job(t).host}
    BY <1>1, <2>1 DEF allow, LocalConfig
  <2>4. Written(t).allow = f.allow \union {Job(t).host}
    BY <2>2, <2>3
  <2>5. AllIn(Written(t).envs, entered)
    BY <2>2, <2>3, <1>1
  <2> QED BY <1>2, <2>1, <2>2, <2>3, <2>4, <2>5 DEF f
<1>3. CASE Job(t).op = "edit"
  <2> DEFINE edit == Job(t).edit
             V    == IF edit.kind = "upsert" THEN entered \union edit.set ELSE entered
  <2>1. IsEdit(edit)
    BY <1>3 DEF JobIsKnown, IsJob
  <2>2. Written(t) = [Edited(f, edit) EXCEPT !.allow = f.allow]
    BY <1>3 DEF Written
  <2> HIDE DEF f, edit
  <2>3. /\ Edited(f, edit) \in LocalConfig
        /\ \A e \in Environ \ Touched(edit) : Edited(f, edit).envs[e] = f.envs[e]
    BY <1>1, <2>1, EditedIsAFile
  <2>4. AllIn(f.envs, V) /\ (edit.kind = "upsert" => edit.set \subseteq V)
    BY <1>1 DEF AllIn
  <2> HIDE DEF V
  <2>5. AllIn(Edited(f, edit).envs, V)
    BY <1>1, <2>1, <2>4, EditedIsAFile
  <2>6. Written(t).envs = Edited(f, edit).envs /\ Written(t).allow = f.allow
    BY <2>2, <2>3 DEF LocalConfig
  <2>7. Written(t) \in LocalConfig
    BY <1>1, <2>2, <2>3 DEF LocalConfig
  <2>8. AllIn(Written(t).envs, V)
    BY <2>5, <2>6
  <2> QED BY <1>3, <2>3, <2>6, <2>7, <2>8 DEF f, edit, V
<1> QED BY <1>2, <1>3 DEF FileInHand

-----------------------------------------------------------------------------
(* What a process has in hand outlasts what others do.                     *)

(* It outlasts what changes neither the file nor the page.                 *)
LEMMA Uncrossed ==
    ASSUME NEW u \in Tool, InHand(u), task'[u] = task[u], held'[u] = held[u],
           UNCHANGED <<local, page, given, entered>>
    PROVE  InHand(u)'
<1> USE DEF Job
<1>1. JobIsKnown(u) => JobIsKnown(u)'
  BY DEF JobIsKnown
<1>2. FileInHand(u) => FileInHand(u)'
  BY DEF FileInHand
<1>3. ConfigInHand(u) => ConfigInHand(u)'
  BY DEF ConfigInHand
<1>4. NamesInHand(u) => NamesInHand(u)'
  BY DEF NamesInHand, Names
<1>5. PageInHand(u) => PageInHand(u)'
  BY <1>4 DEF PageInHand
<1> QED BY <1>1, <1>2, <1>3, <1>4, <1>5 DEF InHand

(* A write of the local file crosses those that are about to write it.     *)
LEMMA CrossedByFile ==
    ASSUME NEW u \in Tool, InHand(u), task'[u] = Crossed(u, OnLocal), held'[u] = held[u],
           UNCHANGED page, given \subseteq given', entered \subseteq entered'
    PROVE  InHand(u)'
<1>1. CASE task[u] = Nil
  BY <1>1 DEF Crossed, InHand
<1>2. CASE task[u] # Nil /\ task[u].at # "write local"
  <2>1. task'[u] = task[u]
    BY <1>2 DEF Crossed, OnLocal
  <2> QED
    BY <1>2, <2>1 DEF InHand, JobIsKnown, ConfigInHand, NamesInHand, PageInHand, Names, Job
<1>3. CASE task[u] # Nil /\ task[u].at = "write local"
  <2>1. task'[u] = [task[u] EXCEPT !.alone = FALSE]
    BY <1>3 DEF Crossed, OnLocal
  <2>2. JobIsKnown(u) /\ FileInHand(u)
    BY <1>3 DEF InHand
  <2>3. /\ DOMAIN task'[u] = DOMAIN task[u]
        /\ task'[u].at = task[u].at /\ task'[u].job = task[u].job
        /\ task'[u].read = task[u].read /\ task'[u].alone = FALSE
    BY <2>1, <2>2 DEF JobIsKnown, FileInHand
  <2>4. JobIsKnown(u)'
    BY <2>2, <2>3 DEF JobIsKnown, Job
  <2>5. FileInHand(u)'
    BY <2>2, <2>3 DEF FileInHand, Job
  <2> QED BY <1>3, <2>3, <2>4, <2>5 DEF InHand
<1> QED BY <1>1, <1>2, <1>3

(* A write of the registry or of the page crosses those that rest on them. *)
LEMMA CrossedByPage ==
    ASSUME NEW u \in Tool, InHand(u), task'[u] = Crossed(u, OnRegistry), held'[u] = held[u],
           UNCHANGED <<local, given, entered>>
    PROVE  InHand(u)'
<1>1. CASE task[u] = Nil
  BY <1>1 DEF Crossed, InHand
<1>2. CASE task[u] # Nil /\ task[u].at \notin OnRegistry
  <2>1. task'[u] = task[u]
    BY <1>2 DEF Crossed
  <2> QED BY <1>2, <2>1 DEF InHand, JobIsKnown, FileInHand, Job, OnRegistry
<1>3. CASE task[u] # Nil /\ task[u].at \in OnRegistry
  <2>1. task'[u] = [task[u] EXCEPT !.alone = FALSE]
    BY <1>3 DEF Crossed
  <2>2. JobIsKnown(u)
    BY <1>3 DEF InHand
  <2>3. /\ DOMAIN task'[u] = DOMAIN task[u]
        /\ task'[u].at = task[u].at /\ task'[u].job = task[u].job
        /\ "read" \in DOMAIN task[u] => task'[u].read = task[u].read
        /\ task'[u].alone = FALSE
    BY <2>1, <2>2 DEF JobIsKnown
  <2>4. JobIsKnown(u)'
    BY <2>2, <2>3 DEF JobIsKnown, Job
  <2>5. ConfigInHand(u) => ConfigInHand(u)'
    BY <2>3 DEF ConfigInHand, Job
  <2>6. NamesInHand(u) => NamesInHand(u)'
    BY <2>3 DEF NamesInHand, Job
  <2>7. PageInHand(u) => PageInHand(u)'
    BY <2>3, <2>6 DEF PageInHand, NamesInHand, Job
  <2> QED BY <1>3, <2>3, <2>4, <2>5, <2>6, <2>7 DEF InHand, OnRegistry
<1> QED BY <1>1, <1>2, <1>3

(* A step that only moves a process on keeps everything, if it keeps what  *)
(* that process has in hand.                                               *)
LEMMA MovesOn ==
    ASSUME BenchInv, NEW t \in Tool, DOMAIN task' = Tool, InHand(t)',
           \A u \in Tool : u # t => task'[u] = task[u] /\ held'[u] = held[u],
           held' \in [Tool -> SUBSET SpecId],
           UNCHANGED <<local, config, committed, catalogue, page, given, entered, reached, raced>>
    PROVE  BenchInv'
<1>1. BenchTypeOK'
  BY DEF BenchInv, BenchTypeOK
<1>2. \A u \in Tool : InHand(u)'
  <2> SUFFICES ASSUME NEW u \in Tool, u # t PROVE InHand(u)'
    OBVIOUS
  <2> QED BY Uncrossed DEF BenchInv
<1>3. TrustIsGiven' /\ PipelineStaysOut' /\ RegistryIsSound'
  BY DEF BenchInv, TrustIsGiven, PipelineStaysOut, RegistryIsSound
<1> QED BY <1>1, <1>2, <1>3 DEF BenchInv

(* Where a step puts the process that takes it.                            *)
LEMMA Puts ==
    ASSUME NEW t \in Tool, DOMAIN task = Tool, NEW x, task' = [task EXCEPT ![t] = x]
    PROVE  /\ DOMAIN task' = Tool /\ task'[t] = x
           /\ \A u \in Tool : u # t => task'[u] = task[u]
OBVIOUS

LEMMA GoesWithFields ==
    ASSUME NEW t \in Tool, DOMAIN task = Tool, NEW step, NEW read, GoesWith(t, step, read)
    PROVE  /\ DOMAIN task' = Tool
           /\ \A u \in Tool : u # t => task'[u] = task[u]
           /\ task'[t].at = step /\ task'[t].job = task[t].job
           /\ task'[t].alone = task[t].alone /\ task'[t].read = read
           /\ DOMAIN task'[t] = {"at", "job", "alone", "read"}
<1> DEFINE x == [at |-> step, job |-> Job(t), alone |-> task[t].alone, read |-> read]
<1>1. /\ DOMAIN task' = Tool /\ task'[t] = x
      /\ \A u \in Tool : u # t => task'[u] = task[u]
  BY Puts DEF GoesWith
<1>2. x.at = step /\ x.job = task[t].job /\ x.alone = task[t].alone /\ x.read = read
  BY DEF Job
<1>3. DOMAIN x = {"at", "job", "alone", "read"}
  OBVIOUS
<1> QED BY <1>1, <1>2, <1>3

(* The invariant holds at first.                                           *)
LEMMA InitBench == WorkbenchInit => BenchInv
<1> SUFFICES ASSUME WorkbenchInit PROVE BenchInv
  OBVIOUS
<1> USE DEF WorkbenchInit
<1>1. local \in LocalConfig
  <2>1. [e \in Environ |-> Nil] \in [Environ -> LocalEnv \union {Nil}]
    OBVIOUS
  <2> QED BY <2>1 DEF LocalConfig
<1>2. page \in Page
  BY DEF Page
<1>3. BenchTypeOK
  BY <1>1, <1>2 DEF BenchTypeOK
<1>4. \A t \in Tool : InHand(t)
  BY DEF InHand
<1>5. TrustIsGiven /\ PipelineStaysOut /\ RegistryIsSound
  BY DEF TrustIsGiven, PipelineStaysOut, RegistryIsSound
<1> QED BY <1>3, <1>4, <1>5 DEF BenchInv

(* The steps at the local file.                                            *)
LEMMA FileSteps ==
    ASSUME BenchInv, NEW t \in Tool
    PROVE  /\ Begin(t) => BenchInv'
           /\ ReadLocal(t) => BenchInv'
           /\ WriteLocal(t) => BenchInv'
           /\ ImportEnv(t) => BenchInv'
<1> USE DEF BenchInv, BenchTypeOK
<1>1. ASSUME Begin(t) PROVE BenchInv'
  <2>1. PICK job \in Task : task' = [task EXCEPT ![t] = [at |-> job.op, job |-> job, alone |-> TRUE]]
    BY <1>1 DEF Begin
  <2>2. IsJob(job)
    BY WorkbenchConstants
  <2>3. /\ DOMAIN task' = Tool /\ task'[t] = [at |-> job.op, job |-> job, alone |-> TRUE]
        /\ \A u \in Tool : u # t => task'[u] = task[u]
    BY <2>1, Puts
  <2>4. task'[t].at = job.op /\ task'[t].job = job
    BY <2>3
  <2>5. JobIsKnown(t)'
    BY <2>2, <2>3, <2>4 DEF JobIsKnown, Job
  <2>6. InHand(t)'
    BY <2>2, <2>4, <2>5 DEF InHand, IsJob
  <2> QED BY <1>1, <2>3, <2>6, MovesOn DEF Begin
<1>2. ASSUME ReadLocal(t) PROVE BenchInv'
  <2>1. CASE Ends(t)
    <3>1. /\ DOMAIN task' = Tool /\ task'[t] = Nil
          /\ \A u \in Tool : u # t => task'[u] = task[u]
      BY <2>1, Puts DEF Ends
    <3>2. InHand(t)'
      BY <3>1 DEF InHand
    <3> QED BY <1>2, <3>1, <3>2, MovesOn DEF ReadLocal, registryVars
  <2>2. CASE GoesWith(t, "write local", local)
    <3>1. JobIsKnown(t) /\ Job(t).op \in {"allow", "edit"}
      BY <1>2 DEF ReadLocal, At, InHand, JobIsKnown
    <3> DEFINE read == local
    <3> HIDE DEF read
    <3>2. /\ DOMAIN task' = Tool
          /\ \A u \in Tool : u # t => task'[u] = task[u]
          /\ task'[t].at = "write local" /\ task'[t].job = task[t].job
          /\ task'[t].alone = task[t].alone /\ task'[t].read = read
          /\ DOMAIN task'[t] = {"at", "job", "alone", "read"}
      BY <2>2, GoesWithFields DEF read
    <3>3. JobIsKnown(t)'
      BY <3>1, <3>2 DEF JobIsKnown, Job
    <3>4. FileInHand(t)'
      BY <1>2, <3>1, <3>2 DEF read, FileInHand, Job, ReadLocal, TrustIsGiven, PipelineStaysOut
    <3>5. InHand(t)'
      BY <3>2, <3>3, <3>4 DEF InHand
    <3> QED BY <1>2, <3>2, <3>5, MovesOn DEF ReadLocal, registryVars
  <2> QED BY <1>2, <2>1, <2>2 DEF ReadLocal
<1>3. ASSUME WriteLocal(t) PROVE BenchInv'
  <2>1. task[t] # Nil /\ JobIsKnown(t) /\ FileInHand(t)
    BY <1>3 DEF WriteLocal, At, InHand
  <2>2. /\ local' \in LocalConfig /\ local' = Written(t)
        /\ local'.allow = IF Job(t).op = "allow" THEN task[t].read.allow \union {Job(t).host}
                          ELSE task[t].read.allow
        /\ AllIn(local'.envs, entered')
    BY <1>3, <2>1, WrittenIsAFile DEF WriteLocal
  <2>3. given \subseteq given' /\ entered \subseteq entered' /\ local'.allow \subseteq given'
    BY <1>3, <2>1, <2>2 DEF WriteLocal, FileInHand
  <2>4. \A u \in Tool : task'[u] = IF u = t THEN Nil ELSE Crossed(u, OnLocal)
    BY <1>3 DEF WriteLocal, EndsWithWrite
  <2>5. DOMAIN task' = Tool
    BY <1>3 DEF WriteLocal, EndsWithWrite
  <2>6. /\ UNCHANGED <<config, committed, held, catalogue, page, reached, raced>>
    BY <1>3 DEF WriteLocal, registryVars
  <2>7. \A u \in Tool : InHand(u)'
    <3> SUFFICES ASSUME NEW u \in Tool PROVE InHand(u)'
      OBVIOUS
    <3>1. CASE u = t
      BY <2>4, <3>1 DEF InHand
    <3>2. CASE u # t
      BY <2>3, <2>4, <2>6, <3>2, CrossedByFile
    <3> QED BY <3>1, <3>2
  <2>8. TrustIsGiven'
    BY <2>3, <2>6 DEF TrustIsGiven
  <2>9. PipelineStaysOut'
    BY <2>2 DEF PipelineStaysOut, AllIn
  <2>10. RegistryIsSound'
    BY <2>6 DEF RegistryIsSound
  <2> QED BY <2>2, <2>5, <2>6, <2>7, <2>8, <2>9, <2>10
<1>4. ASSUME ImportEnv(t) PROVE BenchInv'
  <2> DEFINE edit(name) == [kind |-> "upsert", name |-> name, server |-> Job(t).server, plain |-> TRUE,
                            set |-> Job(t).vars, unset |-> {}]
  <2>1. PICK i \in DOMAIN ImportNames : GoesAs(t, "edit", [op |-> "edit", edit |-> edit(ImportNames[i])])
    BY <1>4 DEF ImportEnv
  <2> DEFINE job == [op |-> "edit", edit |-> edit(ImportNames[i])]
  <2>2. ImportNames[i] \in Environ
    BY WorkbenchConstants
  <2>3. Job(t).server \in Host \union {Nil} /\ Job(t).vars \subseteq Variable
    BY <1>4 DEF ImportEnv, At, InHand, JobIsKnown, IsJob
  <2>4. IsEdit(edit(ImportNames[i]))
    BY <2>2, <2>3 DEF IsEdit
  <2>5. IsJob(job) /\ job.op = "edit"
    BY <2>4 DEF IsJob
  <2> HIDE DEF job
  <2>6. /\ DOMAIN task' = Tool
        /\ task'[t] = [at |-> "edit", job |-> job, alone |-> task[t].alone]
        /\ \A u \in Tool : u # t => task'[u] = task[u]
    BY <2>1, Puts DEF GoesAs, job
  <2>7. task'[t].at = "edit" /\ Job(t)' = job
    BY <2>6 DEF Job
  <2>8. JobIsKnown(t)'
    BY <2>5, <2>6, <2>7 DEF JobIsKnown
  <2>9. InHand(t)'
    BY <2>7, <2>8 DEF InHand
  <2> QED BY <1>4, <2>6, <2>9, MovesOn DEF ImportEnv, registryVars
<1> QED BY <1>1, <1>2, <1>3, <1>4

(* Where a task ends nothing is in hand.                                   *)
LEMMA EndsSafely ==
    ASSUME BenchInv, NEW t \in Tool, Ends(t), held' = held,
           UNCHANGED <<local, config, committed, catalogue, page, given, entered, reached, raced>>
    PROVE  BenchInv'
<1> USE DEF BenchInv, BenchTypeOK
<1>1. /\ DOMAIN task' = Tool /\ task'[t] = Nil
      /\ \A u \in Tool : u # t => task'[u] = task[u]
  BY Puts DEF Ends
<1>2. InHand(t)'
  BY <1>1 DEF InHand
<1> QED BY <1>1, <1>2, MovesOn

(* The steps up to a write of the registry or a page, and those of a       *)
(* request.                                                                *)
LEMMA ReadSteps ==
    ASSUME BenchInv, NEW t \in Tool
    PROVE  /\ CheckSpec(t) => BenchInv'
           /\ TakenNames(t) => BenchInv'
           /\ ReadPage(t) => BenchInv'
           /\ ReadTarget(t) => BenchInv'
           /\ Send(t) => BenchInv'
<1> USE DEF BenchInv, BenchTypeOK
<1>1. ASSUME CheckSpec(t) PROVE BenchInv'
  <2> USE <1>1 DEF CheckSpec
  <2>1. CASE Ends(t)
    BY <2>1, EndsSafely DEF registryVars
  <2>2. CASE Goes(t, "write config") /\ ConfigInHand(t)
    <3> DEFINE x == [at |-> "write config", job |-> Job(t), alone |-> task[t].alone]
    <3>1. /\ DOMAIN task' = Tool /\ task'[t] = x
          /\ \A u \in Tool : u # t => task'[u] = task[u]
      BY <2>2, Puts DEF Goes, GoesAs
    <3>2. JobIsKnown(t)
      BY DEF At, InHand
    <3>3. x.at = "write config" /\ x.job = task[t].job /\ x.alone = task[t].alone
      BY DEF Job
    <3>4. DOMAIN x = {"at", "job", "alone"}
      OBVIOUS
    <3> HIDE DEF x
    <3>5. JobIsKnown(t)'
      BY <3>1, <3>2, <3>3, <3>4 DEF JobIsKnown, Job
    <3>6. ConfigInHand(t)'
      BY <2>2, <3>1, <3>3 DEF ConfigInHand, Job
    <3>7. InHand(t)'
      BY <3>1, <3>3, <3>5, <3>6 DEF InHand
    <3> QED BY <3>1, <3>7, MovesOn DEF registryVars
  <2>3. CASE At(t, "register") /\ Goes(t, "write config")
    BY <2>2, <2>3 DEF ConfigInHand, At, InHand, JobIsKnown
  <2>4. CASE /\ At(t, "unregister") /\ Goes(t, "write config")
             /\ ~ \E i \in DOMAIN page : page[i].spec = Job(t).id
    BY <2>2, <2>4 DEF ConfigInHand, At, InHand, JobIsKnown
  <2> QED BY <2>1, <2>3, <2>4
<1>2. ASSUME TakenNames(t) PROVE BenchInv'
  <2> DEFINE read == [taken |-> Names, page |-> <<>>]
  <2>1. GoesWith(t, "import page", read)
    BY <1>2 DEF TakenNames, Names
  <2>2. read.taken = Names /\ DOMAIN read = {"taken", "page"}
    OBVIOUS
  <2> HIDE DEF read
  <2>3. JobIsKnown(t) /\ Job(t).op = "import"
    BY <1>2 DEF TakenNames, At, InHand, JobIsKnown
  <2>4. /\ DOMAIN task' = Tool
        /\ \A u \in Tool : u # t => task'[u] = task[u]
        /\ task'[t].at = "import page" /\ task'[t].job = task[t].job
        /\ task'[t].alone = task[t].alone /\ task'[t].read = read
        /\ DOMAIN task'[t] = {"at", "job", "alone", "read"}
    BY <2>1, GoesWithFields
  <2>5. JobIsKnown(t)'
    BY <2>3, <2>4 DEF JobIsKnown, Job
  <2>6. Names' = Names
    BY <1>2 DEF TakenNames, Names
  <2>7. NamesInHand(t)'
    BY <2>2, <2>3, <2>4, <2>6, NamesAreFinite DEF NamesInHand, Job
  <2>8. InHand(t)'
    BY <2>4, <2>5, <2>7 DEF InHand
  <2> QED BY <1>2, <2>4, <2>8, MovesOn DEF TakenNames, registryVars
<1>3. ASSUME ReadPage(t) PROVE BenchInv'
  <2>1. CASE Ends(t)
    BY <1>3, <2>1, EndsSafely DEF ReadPage, registryVars
  <2>2. CASE Job(t).spec \in held[t] /\ GoesWith(t, "import commit", [task[t].read EXCEPT !.page = page])
    <3> DEFINE read == [task[t].read EXCEPT !.page = page]
    <3>1. JobIsKnown(t) /\ NamesInHand(t)
      BY <1>3 DEF ReadPage, At, InHand
    <3>2. /\ read.taken = task[t].read.taken /\ read.page = page
          /\ DOMAIN read = DOMAIN task[t].read
      BY <3>1 DEF NamesInHand
    <3> HIDE DEF read
    <3>3. /\ DOMAIN task' = Tool
          /\ \A u \in Tool : u # t => task'[u] = task[u]
          /\ task'[t].at = "import commit" /\ task'[t].job = task[t].job
          /\ task'[t].alone = task[t].alone /\ task'[t].read = read
          /\ DOMAIN task'[t] = {"at", "job", "alone", "read"}
      BY <2>2, GoesWithFields DEF read
    <3>4. JobIsKnown(t)'
      BY <3>1, <3>3 DEF JobIsKnown, Job
    <3>5. UNCHANGED <<page, held>> /\ Names' = Names
      BY <1>3 DEF ReadPage, registryVars, Names
    <3>6. NamesInHand(t)'
      BY <3>1, <3>2, <3>3, <3>5 DEF NamesInHand, Job
    <3>7. PageInHand(t)'
      BY <2>2, <3>2, <3>3, <3>5, <3>6 DEF PageInHand, Job
    <3>8. InHand(t)'
      BY <3>3, <3>4, <3>7 DEF InHand
    <3> QED BY <1>3, <3>3, <3>8, MovesOn DEF ReadPage, registryVars
  <2> QED BY <1>3, <2>1, <2>2 DEF ReadPage
<1>4. ASSUME ReadTarget(t) PROVE BenchInv'
  <2>1. CASE Ends(t)
    BY <1>4, <2>1, EndsSafely DEF ReadTarget, registryVars
  <2>2. CASE \E read : GoesWith(t, "send allowed", read)
    <3>1. PICK read : GoesWith(t, "send allowed", read)
      BY <2>2
    <3>2. JobIsKnown(t)
      BY <1>4 DEF ReadTarget, At, InHand
    <3>3. /\ DOMAIN task' = Tool
          /\ \A u \in Tool : u # t => task'[u] = task[u]
          /\ task'[t].at = "send allowed" /\ task'[t].job = task[t].job
          /\ DOMAIN task'[t] = {"at", "job", "alone", "read"}
      BY <3>1, GoesWithFields
    <3>4. JobIsKnown(t)'
      BY <3>2, <3>3 DEF JobIsKnown, Job
    <3>5. InHand(t)'
      BY <3>3, <3>4 DEF InHand
    <3> QED BY <1>4, <3>3, <3>5, MovesOn DEF ReadTarget, registryVars
  <2> QED BY <1>4, <2>1, <2>2 DEF ReadTarget
<1>5. ASSUME Send(t) PROVE BenchInv'
  <2>1. /\ DOMAIN task' = Tool /\ task'[t] = Nil
        /\ \A u \in Tool : u # t => task'[u] = task[u]
    BY <1>5, Puts DEF Send, Ends
  <2>2. UNCHANGED <<local, config, committed, held, catalogue, page, given, entered, raced>>
    BY <1>5 DEF Send, registryVars
  <2>3. \A u \in Tool : InHand(u)'
    <3> SUFFICES ASSUME NEW u \in Tool PROVE InHand(u)'
      OBVIOUS
    <3>1. CASE u = t
      BY <2>1, <3>1 DEF InHand
    <3>2. CASE u # t
      BY <2>1, <2>2, <3>2, Uncrossed
    <3> QED BY <3>1, <3>2
  <2>4. morse_local(t, Job(t).env).allow = local.allow \union Pipeline[t].allow
    BY DEF morse_local, overlay
  <2>5. TrustIsGiven'
    <3> DEFINE allowed == UNION {Pipeline[u].allow : u \in Tool}
    <3>1. Pipeline[t].allow \subseteq allowed
      OBVIOUS
    <3> HIDE DEF allowed
    <3>2. local.allow \subseteq given /\ reached \subseteq given \union allowed
      BY DEF TrustIsGiven, allowed
    <3>3. reached' \subseteq given \union allowed
      BY <1>5, <2>4, <3>1, <3>2 DEF Send
    <3>4. local'.allow \subseteq given' /\ reached' \subseteq given' \union allowed
      BY <2>2, <3>2, <3>3
    <3> QED BY <3>4 DEF TrustIsGiven, allowed
  <2>6. BenchTypeOK' /\ PipelineStaysOut' /\ RegistryIsSound'
    BY <2>1, <2>2 DEF PipelineStaysOut, RegistryIsSound
  <2> QED BY <2>3, <2>5, <2>6
<1> QED BY <1>1, <1>2, <1>3, <1>4, <1>5

(* The steps that write the registry or a page.                            *)
LEMMA RegistrySteps ==
    ASSUME BenchInv, NEW t \in Tool
    PROVE  /\ WriteConfig(t) => BenchInv'
           /\ ConfigCommitFails(t) => BenchInv'
           /\ Reload(t) => BenchInv'
           /\ ImportCommit(t) => BenchInv'
<1> USE DEF BenchInv, BenchTypeOK
<1>1. ASSUME EndsWithWrite(t, OnRegistry), UNCHANGED <<local, given, entered>>,
             \A u \in Tool : u # t => held'[u] = held[u]
      PROVE  DOMAIN task' = Tool /\ \A u \in Tool : InHand(u)'
  <2>1. /\ DOMAIN task' = Tool
        /\ \A u \in Tool : task'[u] = IF u = t THEN Nil ELSE Crossed(u, OnRegistry)
    BY <1>1 DEF EndsWithWrite
  <2>2. ASSUME NEW u \in Tool PROVE InHand(u)'
    <3>1. CASE u = t
      BY <2>1, <3>1 DEF InHand
    <3>2. CASE u # t
      BY <1>1, <2>1, <3>2, CrossedByPage
    <3> QED BY <3>1, <3>2
  <2> QED BY <2>1, <2>2
<1>2. ASSUME At(t, "write config")
      PROVE  /\ NewConfig(t) \in SUBSET SpecId
             /\ ConfigInHand(t)
  <2>1. JobIsKnown(t) /\ ConfigInHand(t)
    BY <1>2 DEF At, InHand
  <2>2. Job(t).id \in SpecId
    BY <2>1 DEF JobIsKnown, ConfigInHand, IsJob
  <2> QED BY <2>1, <2>2 DEF NewConfig
<1>3. ASSUME WriteConfig(t) PROVE BenchInv'
  <2>1. At(t, "write config") /\ NewConfig(t) \in SUBSET SpecId /\ ConfigInHand(t)
    BY <1>2, <1>3 DEF WriteConfig
  <2>2. /\ config' = NewConfig(t) /\ committed' = NewConfig(t) /\ catalogue' = NewConfig(t)
        /\ held' = [held EXCEPT ![t] = NewConfig(t)]
        /\ raced' = RacedNow(t)
        /\ UNCHANGED <<local, page, given, entered, reached>>
    BY <1>3 DEF WriteConfig
  <2>3. DOMAIN task' = Tool /\ \A u \in Tool : InHand(u)'
    BY <1>1, <1>3, <2>2 DEF WriteConfig
  <2>4. BenchTypeOK'
    BY <2>1, <2>2, <2>3
  <2>5. TrustIsGiven' /\ PipelineStaysOut'
    BY <2>2 DEF TrustIsGiven, PipelineStaysOut
  <2>6. RegistryIsSound'
    <3> SUFFICES ASSUME ~raced' PROVE RegistryIsSound'
      BY DEF RegistryIsSound
    <3>1. ~raced /\ task[t].alone /\ held[t] = config
      BY <2>2 DEF RacedNow
    <3>2. \A i \in DOMAIN page : page[i].spec \in NewConfig(t)
      BY <2>1, <3>1 DEF RegistryIsSound, NewConfig, ConfigInHand
    <3> QED BY <2>2, <3>1, <3>2 DEF RegistryIsSound
  <2> QED BY <2>3, <2>4, <2>5, <2>6
<1>4. ASSUME ConfigCommitFails(t) PROVE BenchInv'
  <2>1. NewConfig(t) \in SUBSET SpecId
    BY <1>2, <1>4 DEF ConfigCommitFails
  <2>2. /\ config' = NewConfig(t) /\ raced' = TRUE
        /\ UNCHANGED <<local, held, page, given, entered, reached>>
    BY <1>4 DEF ConfigCommitFails
  <2>3. DOMAIN task' = Tool /\ \A u \in Tool : InHand(u)'
    BY <1>1, <1>4, <2>2 DEF ConfigCommitFails
  <2>4. BenchTypeOK'
    BY <2>1, <2>2, <2>3
  <2>5. TrustIsGiven' /\ PipelineStaysOut' /\ RegistryIsSound'
    BY <2>2 DEF TrustIsGiven, PipelineStaysOut, RegistryIsSound
  <2> QED BY <2>3, <2>4, <2>5
<1>5. ASSUME Reload(t) PROVE BenchInv'
  <2>1. /\ task[t] = Nil /\ held' = [held EXCEPT ![t] = config] /\ catalogue' = config
        /\ UNCHANGED <<local, config, committed, page, task, given, entered, reached, raced>>
    BY <1>5 DEF Reload
  <2>2. \A u \in Tool : InHand(u)'
    <3> SUFFICES ASSUME NEW u \in Tool PROVE InHand(u)'
      OBVIOUS
    <3>1. CASE u = t
      BY <2>1, <3>1 DEF InHand
    <3>2. CASE u # t
      BY <2>1, <3>2, Uncrossed
    <3> QED BY <3>1, <3>2
  <2>3. BenchTypeOK'
    BY <2>1
  <2>4. TrustIsGiven' /\ PipelineStaysOut' /\ RegistryIsSound'
    BY <2>1 DEF TrustIsGiven, PipelineStaysOut, RegistryIsSound
  <2> QED BY <2>2, <2>3, <2>4
<1>6. ASSUME ImportCommit(t) PROVE BenchInv'
  <2> DEFINE taken == task[t].read.taken
             new   == [name |-> FreeName(taken), spec |-> Job(t).spec]
             before == task[t].read.page
  <2>1. JobIsKnown(t) /\ PageInHand(t) /\ NamesInHand(t)
    BY <1>6 DEF ImportCommit, At, InHand, PageInHand
  <2>2. FreeName(taken) \in Nat /\ FreeName(taken) \notin taken
    BY <2>1, FreeNameIsFree DEF NamesInHand
  <2>3. /\ page' = Append(before, new) /\ committed' = config /\ raced' = RacedNow(t)
        /\ UNCHANGED <<local, config, held, catalogue, given, entered, reached>>
    BY <1>6 DEF ImportCommit
  <2>4. Job(t).spec \in held[t] /\ Job(t).spec \in SpecId
    BY <2>1 DEF PageInHand
  <2>5. new.name = FreeName(taken) /\ new.spec = Job(t).spec
    OBVIOUS
  <2>6. new \in [name : Nat, spec : SpecId]
    BY <2>2, <2>4
  <2>7. before \in Seq([name : Nat, spec : SpecId])
    BY <2>1 DEF PageInHand, Page
  <2> HIDE DEF new, before, taken
  <2>8. page' \in Page
    BY <2>3, <2>6, <2>7 DEF Page
  <2>9. DOMAIN task' = Tool /\ \A u \in Tool : InHand(u)'
    BY <1>1, <1>6, <2>3 DEF ImportCommit
  <2>10. BenchTypeOK'
    BY <2>3, <2>8, <2>9
  <2>11. TrustIsGiven' /\ PipelineStaysOut'
    BY <2>3 DEF TrustIsGiven, PipelineStaysOut
  <2>12. RegistryIsSound'
    <3> SUFFICES ASSUME ~raced' PROVE RegistryIsSound'
      BY DEF RegistryIsSound
    <3>1. ~raced /\ task[t].alone /\ held[t] = config
      BY <2>3 DEF RacedNow
    <3>2. before = page /\ taken = Names
      BY <2>1, <3>1 DEF PageInHand, NamesInHand, before, taken
    <3>3. /\ DOMAIN page' = 1..Len(page) + 1 /\ DOMAIN page = 1..Len(page) /\ Len(page) \in Nat
          /\ \A i \in DOMAIN page : page'[i] = page[i]
          /\ page'[Len(page) + 1] = new
      BY <2>3, <2>6, <2>7, <3>2
    <3>4. \A i \in DOMAIN page' : i \in DOMAIN page \/ i = Len(page) + 1
      BY <3>3
    <3>5. \A i \in DOMAIN page : page[i].name # new.name
      BY <2>2, <2>5, <3>2 DEF Names
    <3>6. \A i \in DOMAIN page' : page'[i].spec \in config'
      BY <2>3, <2>4, <2>5, <3>1, <3>3, <3>4 DEF RegistryIsSound
    <3>7. \A i, j \in DOMAIN page' : page'[i].name = page'[j].name => i = j
      BY <3>1, <3>3, <3>4, <3>5 DEF RegistryIsSound
    <3>8. committed' = config' /\ catalogue' = config'
      BY <2>3, <3>1 DEF RegistryIsSound
    <3> QED BY <3>6, <3>7, <3>8 DEF RegistryIsSound
  <2> QED BY <2>9, <2>10, <2>11, <2>12
<1> QED BY <1>3, <1>4, <1>5, <1>6

(* Every step of a process or a person keeps the invariant.                *)
LEMMA NextBench == BenchInv /\ [WorkbenchNext]_workbenchVars => BenchInv'
<1> SUFFICES ASSUME BenchInv, [WorkbenchNext]_workbenchVars PROVE BenchInv'
  OBVIOUS
<1>1. ASSUME NEW t \in Tool, ToolStep(t) PROVE BenchInv'
  BY <1>1, FileSteps, ReadSteps, RegistrySteps DEF ToolStep
<1>2. ASSUME NEW host \in Host, EditByHand(host) PROVE BenchInv'
  <2>1. /\ UNCHANGED <<config, committed, held, catalogue, page, entered, reached, raced>>
        /\ task' = [t \in Tool |-> Crossed(t, OnLocal)]
    BY <1>2 DEF EditByHand, registryVars
  <2>2. /\ local' \in LocalConfig /\ local'.envs = local.envs
        /\ local'.allow \subseteq given' /\ given \subseteq given'
    <3> USE DEF BenchInv, BenchTypeOK, LocalConfig, TrustIsGiven
    <3>1. CASE local' = [local EXCEPT !.allow = @ \ {host}] /\ given' = given
      BY <3>1
    <3>2. CASE local' = allow(local, host) /\ given' = given \union {host}
      BY <3>2 DEF allow
    <3> QED BY <1>2, <3>1, <3>2 DEF EditByHand
  <2>3. \A u \in Tool : InHand(u)'
    <3> SUFFICES ASSUME NEW u \in Tool PROVE InHand(u)'
      OBVIOUS
    <3> QED BY <2>1, <2>2, CrossedByFile DEF BenchInv
  <2>4. BenchTypeOK'
    BY <2>1, <2>2 DEF BenchInv, BenchTypeOK
  <2>5. TrustIsGiven' /\ PipelineStaysOut' /\ RegistryIsSound'
    BY <2>1, <2>2 DEF BenchInv, TrustIsGiven, PipelineStaysOut, RegistryIsSound
  <2> QED BY <2>3, <2>4, <2>5 DEF BenchInv
<1>3. CASE UNCHANGED workbenchVars
  <2>1. UNCHANGED <<local, config, committed, held, catalogue, page, task, given, entered, reached,
                    raced>>
    BY <1>3 DEF workbenchVars
  <2>2. \A u \in Tool : InHand(u)'
    BY <2>1, Uncrossed DEF BenchInv
  <2> QED BY <2>1, <2>2 DEF BenchInv, BenchTypeOK, TrustIsGiven, PipelineStaysOut, RegistryIsSound
<1> QED BY <1>1, <1>2, <1>3 DEF WorkbenchNext

(* No page gets a host trusted or a pipeline's value written; a write that *)
(* nobody crossed changes its own; and the registry is sound while every   *)
(* write rested on what was so.                                            *)
THEOREM WorkbenchSafe == WorkbenchSpec => []WorkbenchIsSafe
<1>1. BenchInv => WorkbenchIsSafe
  <2> SUFFICES ASSUME BenchInv PROVE WritesItsOwn
    BY DEF BenchInv, WorkbenchIsSafe
  <2> SUFFICES ASSUME NEW t \in Tool, At(t, "write local"), task[t].alone
      PROVE  IF Job(t).op = "allow" THEN Written(t) = allow(local, Job(t).host)
             ELSE /\ Written(t).allow = local.allow
                  /\ \A e \in Environ \ Touched(Job(t).edit) : Written(t).envs[e] = local.envs[e]
    BY DEF WritesItsOwn
  <2>1. JobIsKnown(t) /\ FileInHand(t) /\ task[t].read = local
    BY DEF BenchInv, InHand, At, FileInHand
  <2>2. Job(t).op = "allow" \/ Job(t).op = "edit"
    BY <2>1 DEF FileInHand
  <2> QED BY <2>1, <2>2, WrittenIsAFile
<1> QED BY InitBench, NextBench, <1>1, PTL DEF WorkbenchSpec

-----------------------------------------------------------------------------
(***************************************************************************)
(* Calls.  Of every call: where it stands in its plan and what it has done *)
(* on the way, that a request past "workspace" holds the mutex until it    *)
(* ends, that a call nobody came between finds what it wrote, and which    *)
(* errors an end may have.                                                 *)
(***************************************************************************)
AnyError ==
    {"running", "none", "Internal", "Refuse", "Vcs", "NotFound", "Ambiguous", "Busy", "Missing",
     "Store", "DocPath", "TooLarge", "Attachment", "BadRequest", "Query", "TemplateMissing",
     "Unclaimable", "Unclean", "Io", "Index"}
Judgements == {"BadRequest", "Query", "DocPath", "Attachment"}
CallRecord ==
    [plan : Plans, at : Nat \ {0}, landed : Nat, error : AnyError, thing : Things,
     shows : Things \union {"none", "gone"}, alone : BOOLEAN, set : BOOLEAN]
CallsTypeOK ==
    /\ file \in [Things -> Things \union {"gone"}]
    /\ row \in [Things -> Things \union {"gone"}]
    /\ talk \in Seq(Caller)
    /\ alias \in Things
    /\ lock \in Caller \union {"free"}
    /\ mutex \in Thread \union {"free", "poisoned"}
    /\ codeOnly \in BOOLEAN
    /\ unheard \subseteq Caller
    /\ lag \in BOOLEAN
    /\ called \in [Caller -> CallRecord \union {NotCalled}]

StepAt(c, i)   == called[c].plan.steps[i]
Passed(c, s)   == \E i \in 1..called[c].at - 1 : StepAt(c, i) = s
Undisputed(c)  == called[c].landed > 0 /\ called[c].alone /\ ~lag
Placed(c) ==
    /\ called[c].plan.by = IF c \in Thread THEN "server" ELSE "command"
    /\ called[c].at <= Len(called[c].plan.steps) + 1
Landed(c) ==
    /\ called[c].landed > 0 <=> Passed(c, "commit")
    /\ called[c].set => Passed(c, "me")
    /\ called[c].landed = 0 => called[c].shows = "none"
Holds(c) ==
    c \in Thread /\ Passed(c, "workspace") =>
        /\ codeOnly => ~called[c].plan.write
        /\ Running(c) => mutex = c
Finds(c) ==
    Running(c) /\ Undisputed(c) =>
        /\ (\A i \in 1..called[c].at - 1 : StepAt(c, i) = "commit" => StepAt(c, i - 1) \in Writing)
              => file[called[c].thing] = c /\ row[called[c].thing] = c
        /\ (\A i \in 1..called[c].at - 1 : StepAt(c, i) = "commit" => StepAt(c, i - 1) = "say")
              => talk # <<>> /\ talk[Len(talk)] = c
Shown(c) == Undisputed(c) => called[c].shows \in {"none", c}
(* The errors a call may end with behind its only commit.                  *)
SeesScenario(c) == "scenario" \in Range(called[c].plan.steps)
Late(c, error) ==
    /\ error \in {"none", "Index", "Io", "Vcs", "Internal", "NotFound", "Missing", "Refuse"}
    /\ error \in {"Internal", "NotFound", "Missing", "Refuse"} => c \in Thread
    /\ error = "Refuse" => SeesScenario(c) /\ ~called[c].alone
    /\ Undisputed(c) => error # "NotFound" /\ (error = "Missing" => Appends(c))
EndedWell(c) ==
    Ended(c) =>
        /\ called[c].landed > 0 /\ Commits(c) <= 1 => Late(c, called[c].error)
        /\ called[c].landed > 0 \/ called[c].set => called[c].error \notin Judgements
Announced(c) == c \in Thread /\ c \in unheard => called[c].plan.write /\ called[c].error # "none"
CallOK(c) ==
    /\ Placed(c) /\ Landed(c) /\ Holds(c) /\ Finds(c) /\ Shown(c) /\ EndedWell(c) /\ Announced(c)
CallsInv ==
    /\ CallsTypeOK
    /\ \A c \in Thread : mutex = c => Running(c)
    /\ \A c \in Caller : called[c] # NotCalled => CallOK(c)
    /\ unheard \subseteq Begun

LEMMA CalledIsNotIdle ==
    ASSUME NEW r \in CallRecord
    PROVE  r # NotCalled
<1>1. "at" \in DOMAIN r
  BY DEF CallRecord
<1>2. "at" \notin DOMAIN NotCalled
  BY DEF NotCalled
<1> QED
  BY <1>1, <1>2

LEMMA BegunIsSound ==
    ASSUME CallsInv, NEW c \in Caller, called[c] # NotCalled
    PROVE  /\ called[c] \in CallRecord
           /\ called[c].plan \in Plans
           /\ IsPlan(called[c].plan)
           /\ called[c].plan.steps \in Seq(StepNames)
           /\ CallOK(c)
<1>1. called[c] \in CallRecord
  BY DEF CallsInv, CallsTypeOK
<1>2. called[c].plan \in Plans
  BY <1>1 DEF CallRecord
<1>3. IsPlan(called[c].plan)
  BY <1>2, CallsAssumption
<1>4. called[c].plan.steps \in Seq(StepNames)
  BY <1>3 DEF IsPlan
<1>5. CallOK(c)
  BY DEF CallsInv
<1> QED
  BY <1>1, <1>2, <1>3, <1>4, <1>5

(* The step a call is at is one of its plan, unless the call is done.      *)
LEMMA StepIsOfThePlan ==
    ASSUME CallsInv, NEW c \in Caller, Running(c), Step(c) # "answer"
    PROVE  /\ called[c].at \in DOMAIN called[c].plan.steps
           /\ called[c].at \in 1..Len(called[c].plan.steps)
           /\ Step(c) = StepAt(c, called[c].at)
           /\ Step(c) \in StepNames
<1>1. /\ called[c] \in CallRecord
      /\ called[c].plan.steps \in Seq(StepNames)
  BY BegunIsSound DEF Running
<1>2. called[c].at \in Nat \ {0}
  BY <1>1 DEF CallRecord
<1>3. called[c].at <= Len(called[c].plan.steps)
  BY DEF Step
<1>4. Step(c) = StepAt(c, called[c].at)
  BY <1>3 DEF Step, StepAt
<1>5. called[c].at \in 1..Len(called[c].plan.steps)
  BY <1>1, <1>2, <1>3
<1>6. called[c].at \in DOMAIN called[c].plan.steps
  BY <1>1, <1>5
<1>7. Step(c) \in StepNames
  BY <1>1, <1>4, <1>5 DEF StepAt
<1> QED
  BY <1>4, <1>5, <1>6, <1>7

(* A step onward has passed what it was at, and what it had passed.        *)
LEMMA PassesOn ==
    ASSUME CallsInv, NEW c \in Caller, Running(c), Step(c) # "answer",
           called'[c].plan = called[c].plan, called'[c].at = called[c].at + 1, NEW s
    PROVE  /\ Passed(c, s)' <=> Passed(c, s) \/ Step(c) = s
           /\ called'[c].at <= Len(called'[c].plan.steps) + 1
<1>1. /\ called[c].at \in 1..Len(called[c].plan.steps)
      /\ Step(c) = StepAt(c, called[c].at)
  BY StepIsOfThePlan
<1>2. Len(called[c].plan.steps) \in Nat
  BY BegunIsSound DEF Running
<1>3. called[c].at \in Nat
  BY <1>1, <1>2
<1>4. \A i : StepAt(c, i)' = StepAt(c, i)
  BY DEF StepAt
<1>5. 1..called'[c].at - 1 = (1..called[c].at - 1) \union {called[c].at}
  BY <1>1, <1>3
<1>6. Passed(c, s)' <=> Passed(c, s) \/ Step(c) = s
  BY <1>1, <1>4, <1>5 DEF Passed
<1>7. called'[c].at <= Len(called'[c].plan.steps) + 1
  BY <1>1, <1>2
<1> QED
  BY <1>6, <1>7

(* A call that a step leaves alone stays sound.                            *)
LEMMA OthersStay ==
    ASSUME CallsInv, NEW d \in Caller, called[d] # NotCalled,
           called'[d] = called[d], file' = file, talk' = talk, codeOnly' = codeOnly, lag' = lag,
           row' \in {row, file},
           mutex = d => mutex' = d, mutex = "poisoned" => mutex' = "poisoned",
           d \in unheard' => d \in unheard
    PROVE  CallOK(d)'
<1>1. CallOK(d) /\ called[d] \in CallRecord
  BY BegunIsSound
<1>2. /\ \A i : StepAt(d, i)' = StepAt(d, i)
      /\ \A s : Passed(d, s)' <=> Passed(d, s)
  BY DEF StepAt, Passed
<1>3. /\ Running(d)' <=> Running(d)
      /\ Ended(d)' <=> Ended(d)
      /\ Undisputed(d)' <=> Undisputed(d)
      /\ Commits(d)' = Commits(d)
  BY DEF Running, Ended, Undisputed, Commits
<1>4. Placed(d)'
  BY <1>1 DEF CallOK, Placed
<1>5. Landed(d)'
  BY <1>1, <1>2 DEF CallOK, Landed
<1>6. Holds(d)'
  BY <1>1, <1>2, <1>3 DEF CallOK, Holds
<1>7. Finds(d)'
  BY <1>1, <1>2, <1>3 DEF CallOK, Finds
<1>8. Shown(d)'
  BY <1>1, <1>3 DEF CallOK, Shown
<1>9. EndedWell(d)'
  BY <1>1, <1>3 DEF CallOK, EndedWell, Late, SeesScenario, Appends
<1>10. Announced(d)'
  BY <1>1 DEF CallOK, Announced
<1> QED
  BY <1>4, <1>5, <1>6, <1>7, <1>8, <1>9, <1>10 DEF CallOK

(* What a step of one call has to keep for the whole to be kept.           *)
LEMMA OneCallMoves ==
    ASSUME CallsInv, NEW c \in Caller,
           file' = file, talk' = talk, codeOnly' = codeOnly, lag' = lag,
           row' \in {row, file}, alias' \in {alias, c}, lock' \in {lock, c, "free"},
           mutex' \in Thread \union {"free", "poisoned"},
           mutex' # mutex => (mutex = c \/ mutex = "free"), mutex' \in Thread => mutex' \in {mutex, c},
           \A t \in Thread : t = c /\ mutex' = t => Running(c)',
           unheard' \subseteq unheard,
           NEW r \in CallRecord, called' = [called EXCEPT ![c] = r],
           CallOK(c)'
    PROVE  CallsInv'
<1>0. "poisoned" \notin Caller /\ "free" \notin Caller
  BY CallsAssumption
<1>1. CallsTypeOK
  BY DEF CallsInv
<1>2. called' \in [Caller -> CallRecord \union {NotCalled}]
  BY <1>1 DEF CallsTypeOK
<1>3. called'[c] = r /\ \A d \in Caller \ {c} : called'[d] = called[d]
  BY <1>1 DEF CallsTypeOK
<1>4. CallsTypeOK'
  <2>1. alias' \in Things /\ lock' \in Caller \union {"free"} /\ unheard' \subseteq Caller
    BY <1>1 DEF CallsTypeOK, Things
  <2>2. row' \in [Things -> Things \union {"gone"}]
    BY <1>1 DEF CallsTypeOK
  <2> QED
    BY <1>1, <1>2, <2>1, <2>2 DEF CallsTypeOK
<1>5. ASSUME NEW t \in Thread, mutex' = t
      PROVE  Running(t)'
  <2>1. t \in Caller
    BY DEF Caller
  <2>2. CASE t = c
    BY <1>5, <2>2
  <2>3. CASE t # c
    <3>1. mutex = t
      BY <1>5, <2>3
    <3>2. Running(t)
      BY <3>1 DEF CallsInv
    <3> QED
      BY <1>3, <2>1, <2>3, <3>2 DEF Running
  <2> QED
    BY <2>2, <2>3
<1>6. ASSUME NEW d \in Caller, called'[d] # NotCalled
      PROVE  CallOK(d)'
  <2>1. CASE d = c
    BY <2>1
  <2>2. CASE d # c
    <3>1. called'[d] = called[d] /\ called[d] # NotCalled
      BY <1>3, <1>6, <2>2
    <3>2. mutex = d => mutex' = d
      BY <1>0, <2>2
    <3>3. mutex = "poisoned" => mutex' = "poisoned"
      BY <1>0
    <3>4. d \in unheard' => d \in unheard
      OBVIOUS
    <3> QED
      BY <3>1, <3>2, <3>3, <3>4, OthersStay
  <2> QED
    BY <2>1, <2>2
<1>7. unheard' \subseteq Begun'
  <2>1. ASSUME NEW d \in unheard' PROVE d \in Begun'
    <3>1. d \in Caller /\ called[d] # NotCalled
      BY DEF CallsInv, Begun
    <3>2. called'[d] # NotCalled
      BY <1>3, <3>1, CalledIsNotIdle
    <3> QED
      BY <3>1, <3>2 DEF Begun
  <2> QED
    BY <2>1
<1> QED
  BY <1>4, <1>5, <1>6, <1>7 DEF CallsInv

(* A call that fails, with an error its place in the plan may end with.    *)
MayFail(c, error) ==
    /\ error \in AnyError \ {"running", "none"}
    /\ called[c].landed > 0 \/ called[c].set => error \notin Judgements
    /\ called[c].landed > 0 /\ Commits(c) <= 1 => Late(c, error)

LEMMA EndingKeeps ==
    ASSUME CallsInv, NEW c \in Caller, Running(c),
           NEW error \in AnyError \ {"running"},
           error = "none" \/ MayFail(c, error),
           called' = [called EXCEPT ![c].error = error],
           (mutex' = "poisoned" /\ mutex = c) \/ mutex' = (IF mutex = c THEN "free" ELSE mutex),
           lock' \in {lock, "free"},
           UNCHANGED <<file, row, talk, alias, codeOnly, lag>>,
           \/ unheard' = unheard /\ (error = "none" => c \notin unheard \/ c \notin Thread)
           \/ unheard' = {}
    PROVE  CallsInv'
<1> DEFINE r == [called[c] EXCEPT !.error = error]
<1>1. called[c] \in CallRecord /\ CallOK(c)
  BY BegunIsSound DEF Running
<1>2. CallsTypeOK
  BY DEF CallsInv
<1>3. r \in CallRecord
  BY <1>1 DEF CallRecord
<1>4. called' = [called EXCEPT ![c] = r]
  BY <1>2 DEF CallsTypeOK
<1>5. called'[c] = r
  BY <1>2, <1>4 DEF CallsTypeOK
<1>6. /\ called'[c].plan = called[c].plan /\ called'[c].at = called[c].at
      /\ called'[c].landed = called[c].landed /\ called'[c].error = error
      /\ called'[c].thing = called[c].thing /\ called'[c].shows = called[c].shows
      /\ called'[c].alone = called[c].alone /\ called'[c].set = called[c].set
  BY <1>1, <1>5 DEF CallRecord
<1>7. called'[c] # NotCalled
  BY <1>3, <1>5, CalledIsNotIdle
<1> HIDE DEF r
<1>8. /\ \A i : StepAt(c, i)' = StepAt(c, i)
      /\ \A s : Passed(c, s)' <=> Passed(c, s)
      /\ Undisputed(c)' <=> Undisputed(c)
      /\ Commits(c)' = Commits(c)
  BY <1>6 DEF StepAt, Passed, Undisputed, Commits
<1>9. ~Running(c)' /\ Ended(c)'
  BY <1>6, <1>7 DEF Running, Ended
<1>10. "free" \notin Caller /\ "poisoned" \notin Caller
  BY CallsAssumption
<1>11. CallOK(c)'
  <2>1. Placed(c)'
    BY <1>1, <1>6 DEF CallOK, Placed
  <2>2. Landed(c)'
    BY <1>1, <1>6, <1>8 DEF CallOK, Landed
  <2>3. Holds(c)'
    BY <1>1, <1>6, <1>8, <1>9 DEF CallOK, Holds
  <2>4. Finds(c)'
    BY <1>9 DEF Finds
  <2>5. Shown(c)'
    BY <1>1, <1>6, <1>8 DEF CallOK, Shown
  <2>6. EndedWell(c)'
    <3>1. CASE error = "none"
      BY <1>6, <3>1 DEF EndedWell, Judgements, Late
    <3>2. CASE MayFail(c, error)
      <4>1. called[c].landed > 0 /\ Commits(c) <= 1 => Late(c, error)
        BY <3>2 DEF MayFail
      <4>2. called[c].landed > 0 \/ called[c].set => error \notin Judgements
        BY <3>2 DEF MayFail
      <4>3. Late(c, error)' <=> Late(c, error)
        BY <1>6, <1>8 DEF Late, SeesScenario, Appends
      <4> QED
        BY <1>6, <1>8, <4>1, <4>2, <4>3 DEF EndedWell
    <3> QED
      BY <3>1, <3>2
  <2>7. Announced(c)'
    <3>1. CASE c \in Thread /\ c \in unheard'
      BY <1>1, <1>6, <3>1 DEF CallOK, Announced
    <3>2. CASE ~(c \in Thread /\ c \in unheard')
      BY <3>2 DEF Announced
    <3> QED
      BY <3>1, <3>2
  <2> QED
    BY <2>1, <2>2, <2>3, <2>4, <2>5, <2>6, <2>7 DEF CallOK
<1>12. mutex' \in Thread \union {"free", "poisoned"}
  BY <1>2 DEF CallsTypeOK
<1>13. mutex' # mutex => (mutex = c \/ mutex = "free")
  OBVIOUS
<1>14. mutex' \in Thread => mutex' \in {mutex, c}
  BY <1>10 DEF Caller
<1>15. \A t \in Thread : t = c /\ mutex' = t => Running(c)'
  BY <1>10
<1> QED
  BY <1>3, <1>4, <1>11, <1>12, <1>13, <1>14, <1>15, OneCallMoves

(* A call goes on over a step that is no commit, shows nothing and sets    *)
(* nothing; one at "workspace" is given the mutex.                         *)
LEMMA OnwardKeeps ==
    ASSUME CallsInv, NEW c \in Caller, Running(c), Onward(c),
           Step(c) \notin {"answer", "commit", "me"},
           UNCHANGED <<file, talk, alias, codeOnly, unheard, lag>>,
           row' \in {row, file}, lock' \in {lock, c},
           mutex' = IF Step(c) = "workspace" THEN c ELSE mutex,
           Step(c) = "workspace" => mutex = "free" /\ (codeOnly => ~called[c].plan.write)
    PROVE  CallsInv'
<1> DEFINE r == [called[c] EXCEPT !.at = @ + 1]
<1>1. called[c] \in CallRecord /\ CallOK(c)
  BY BegunIsSound DEF Running
<1>2. CallsTypeOK
  BY DEF CallsInv
<1>3. r \in CallRecord
  BY <1>1 DEF CallRecord
<1>4. called' = [called EXCEPT ![c] = r]
  BY <1>2 DEF CallsTypeOK, Onward
<1>5. called'[c] = r
  BY <1>2, <1>4 DEF CallsTypeOK
<1>6. /\ called'[c].plan = called[c].plan /\ called'[c].at = called[c].at + 1
      /\ called'[c].landed = called[c].landed /\ called'[c].error = called[c].error
      /\ called'[c].thing = called[c].thing /\ called'[c].shows = called[c].shows
      /\ called'[c].alone = called[c].alone /\ called'[c].set = called[c].set
  BY <1>1, <1>5 DEF CallRecord
<1>7. called'[c] # NotCalled
  BY <1>3, <1>5, CalledIsNotIdle
<1> HIDE DEF r
<1>8. Running(c)' /\ ~Ended(c)'
  BY <1>6, <1>7 DEF Running, Ended
<1>9. /\ \A s : Passed(c, s)' <=> Passed(c, s) \/ Step(c) = s
      /\ called'[c].at <= Len(called'[c].plan.steps) + 1
  BY <1>6, PassesOn
<1>10. /\ called[c].at \in DOMAIN called[c].plan.steps
       /\ Step(c) = StepAt(c, called[c].at)
  BY StepIsOfThePlan
<1>11. Step(c) = "workspace" => c \in Thread
  <2>1. \A i \in DOMAIN called[c].plan.steps :
           called[c].plan.steps[i] = "workspace" => called[c].plan.by = "server"
    <3>1. IsPlan(called[c].plan)
      BY BegunIsSound DEF Running
    <3> QED
      BY <3>1 DEF IsPlan
  <2> QED
    BY <1>1, <1>10, <2>1 DEF CallOK, Placed, StepAt
<1>12. CallOK(c)'
  <2>1. Placed(c)'
    BY <1>1, <1>6, <1>9 DEF CallOK, Placed
  <2>2. Landed(c)'
    BY <1>1, <1>6, <1>9 DEF CallOK, Landed
  <2>3. Holds(c)'
    BY <1>1, <1>6, <1>8, <1>9 DEF CallOK, Holds, Running
  <2>4. Finds(c)'
    <3>1. \A i : StepAt(c, i)' = StepAt(c, i)
      BY <1>6 DEF StepAt
    <3>2. Undisputed(c)' <=> Undisputed(c)
      BY <1>6 DEF Undisputed
    <3>3. called[c].at \in Nat
      BY <1>1 DEF CallRecord
    <3>4. 1..called[c].at - 1 \subseteq 1..called'[c].at - 1
      BY <1>6, <3>3
    <3>5. SUFFICES ASSUME Undisputed(c)
                   PROVE  /\ (\A i \in 1..called[c].at - 1 : StepAt(c, i) = "commit" => StepAt(c, i - 1) \in Writing)
                                => file[called[c].thing] = c /\ row'[called[c].thing] = c
                          /\ (\A i \in 1..called[c].at - 1 : StepAt(c, i) = "commit" => StepAt(c, i - 1) = "say")
                                => talk # <<>> /\ talk[Len(talk)] = c
      BY <1>6, <3>1, <3>2, <3>4 DEF Finds
    <3> QED
      BY <1>1, <3>5 DEF CallOK, Finds
  <2>5. Shown(c)'
    BY <1>1, <1>6 DEF CallOK, Shown, Undisputed
  <2>6. EndedWell(c)'
    BY <1>8 DEF EndedWell
  <2>7. Announced(c)'
    BY <1>1, <1>6 DEF CallOK, Announced
  <2> QED
    BY <2>1, <2>2, <2>3, <2>4, <2>5, <2>6, <2>7 DEF CallOK
<1>13. "free" \notin Caller /\ "poisoned" \notin Caller
  BY CallsAssumption
<1>14. mutex' \in Thread \union {"free", "poisoned"}
  BY <1>2, <1>11 DEF CallsTypeOK
<1>15. mutex' # mutex => (mutex = c \/ mutex = "free")
  OBVIOUS
<1>16. mutex' \in Thread => mutex' \in {mutex, c}
  OBVIOUS
<1>17. \A t \in Thread : t = c /\ mutex' = t => Running(c)'
  BY <1>8
<1> QED
  BY <1>3, <1>4, <1>12, <1>14, <1>15, <1>16, <1>17, OneCallMoves

(* Behind a commit the plan of a call only reads back.                     *)
LEMMA BehindACommit ==
    ASSUME CallsInv, NEW c \in Caller, Running(c), Step(c) # "answer"
    PROVE  /\ called[c].landed > 0 \/ called[c].set => Step(c) \notin Judging
           /\ called[c].landed > 0 /\ Commits(c) <= 1 =>
                 Step(c) \in ReadBacks /\ (c \in Thread \/ Step(c) = "index")
           /\ Step(c) \in ReadBacks => called[c].landed > 0
<1>1. CallOK(c) /\ IsPlan(called[c].plan) /\ called[c] \in CallRecord
  BY BegunIsSound DEF Running
<1>2. /\ called[c].at \in DOMAIN called[c].plan.steps
      /\ Step(c) = called[c].plan.steps[called[c].at]
  BY StepIsOfThePlan DEF StepAt
<1>3. /\ called[c].landed > 0 <=> Passed(c, "commit")
      /\ called[c].set => Passed(c, "me")
  BY <1>1 DEF CallOK, Landed
<1>4. \A j \in 1..called[c].at - 1 : called[c].plan.steps[j] \in {"commit", "me"} =>
         /\ Step(c) \notin Judging
         /\ called[c].plan.steps[j] = "commit" /\ CommitsOf(called[c].plan) <= 1 =>
               Step(c) \in IF called[c].plan.by = "server" THEN ReadBacks ELSE {"index"}
  BY <1>1, <1>2 DEF IsPlan
<1>5. called[c].landed > 0 \/ called[c].set => Step(c) \notin Judging
  BY <1>3, <1>4 DEF Passed, StepAt
<1>6. called[c].landed > 0 /\ Commits(c) <= 1 =>
         Step(c) \in IF called[c].plan.by = "server" THEN ReadBacks ELSE {"index"}
  BY <1>3, <1>4 DEF Passed, StepAt, Commits
<1>7. called[c].plan.by = "server" => c \in Thread
  BY <1>1 DEF CallOK, Placed
<1>8. Step(c) \in ReadBacks => Passed(c, "commit")
  BY <1>1, <1>2 DEF IsPlan, Passed, StepAt
<1> QED
  BY <1>3, <1>5, <1>6, <1>7, <1>8 DEF ReadBacks

(* What a call reads back is its own, if nobody came between.              *)
LEMMA ReadsItsOwn ==
    ASSUME CallsInv, NEW c \in Caller, Running(c), Step(c) \in ReadBacks \ {"index"}, Undisputed(c)
    PROVE  /\ Step(c) # "last" => file[called[c].thing] = c /\ row[called[c].thing] = c
           /\ Step(c) = "last" => talk # <<>> /\ talk[Len(talk)] = c
<1>1. CallOK(c) /\ IsPlan(called[c].plan)
  BY BegunIsSound DEF Running
<1>2. /\ called[c].at \in DOMAIN called[c].plan.steps
      /\ Step(c) = called[c].plan.steps[called[c].at]
  BY StepIsOfThePlan DEF StepAt, ReadBacks
<1>3. \A j \in 1..called[c].at - 1 : StepAt(c, j) = "commit" =>
         StepAt(c, j - 1) \in IF Step(c) = "last" THEN {"say"} ELSE Writing
  BY <1>1, <1>2 DEF IsPlan, StepAt
<1>4. Finds(c)
  BY <1>1 DEF CallOK
<1> QED
  BY <1>3, <1>4 DEF Finds

LEMMA ShowsKeeps ==
    ASSUME CallsInv, NEW c \in Caller, Running(c), Step(c) \in ReadBacks \ {"index"}, NEW who,
           Shows(c, who), who \in Things \union {"gone"},
           Undisputed(c) => who = c,
           UNCHANGED <<file, row, talk, alias, lock, mutex, codeOnly, unheard, lag>>
    PROVE  CallsInv'
<1> DEFINE next == [called[c] EXCEPT !.at = @ + 1]
           r    == [called[c] EXCEPT !.at = @ + 1, !.shows = who]
<1>1. called[c] \in CallRecord /\ CallOK(c)
  BY BegunIsSound DEF Running
<1>2. CallsTypeOK
  BY DEF CallsInv
<1>3. r \in CallRecord
  <2>1. next \in CallRecord
    BY <1>1 DEF CallRecord
  <2>2. \A q \in CallRecord : [q EXCEPT !.shows = who] \in CallRecord
    BY DEF CallRecord
  <2>3. r = [next EXCEPT !.shows = who]
    BY <1>1 DEF CallRecord
  <2> HIDE DEF next, r
  <2> QED
    BY <2>1, <2>2, <2>3
<1>4. called' = [called EXCEPT ![c] = r]
  BY <1>2 DEF CallsTypeOK, Shows
<1>5. called'[c] = r
  BY <1>2, <1>4 DEF CallsTypeOK
<1>6. /\ called'[c].plan = called[c].plan /\ called'[c].at = called[c].at + 1
      /\ called'[c].landed = called[c].landed /\ called'[c].error = called[c].error
      /\ called'[c].thing = called[c].thing /\ called'[c].shows = who
      /\ called'[c].alone = called[c].alone /\ called'[c].set = called[c].set
  BY <1>1, <1>5 DEF CallRecord
<1>7. called'[c] # NotCalled
  BY <1>3, <1>5, CalledIsNotIdle
<1> HIDE DEF r
<1>8. Running(c)' /\ ~Ended(c)'
  BY <1>6, <1>7 DEF Running, Ended
<1>9. /\ \A s : Passed(c, s)' <=> Passed(c, s) \/ Step(c) = s
      /\ called'[c].at <= Len(called'[c].plan.steps) + 1
  BY <1>6, PassesOn DEF ReadBacks
<1>10. called[c].landed > 0
  BY BehindACommit DEF ReadBacks
<1>11. Undisputed(c)' <=> Undisputed(c)
  BY <1>6 DEF Undisputed
<1>12. CallOK(c)'
  <2>1. Placed(c)'
    BY <1>1, <1>6, <1>9 DEF CallOK, Placed
  <2>2. Landed(c)'
    BY <1>1, <1>6, <1>9, <1>10 DEF CallOK, Landed, ReadBacks, CallRecord
  <2>3. Holds(c)'
    BY <1>1, <1>6, <1>8, <1>9 DEF CallOK, Holds, Running, ReadBacks
  <2>4. Finds(c)'
    <3>1. \A i : StepAt(c, i)' = StepAt(c, i)
      BY <1>6 DEF StepAt
    <3>2. called[c].at \in Nat
      BY <1>1 DEF CallRecord
    <3>3. 1..called[c].at - 1 \subseteq 1..called'[c].at - 1
      BY <1>6, <3>2
    <3>4. SUFFICES ASSUME Undisputed(c)
                   PROVE  /\ (\A i \in 1..called[c].at - 1 : StepAt(c, i) = "commit" => StepAt(c, i - 1) \in Writing)
                                => file[called[c].thing] = c /\ row[called[c].thing] = c
                          /\ (\A i \in 1..called[c].at - 1 : StepAt(c, i) = "commit" => StepAt(c, i - 1) = "say")
                                => talk # <<>> /\ talk[Len(talk)] = c
      BY <1>6, <1>11, <3>1, <3>3 DEF Finds
    <3> QED
      BY <1>1, <3>4 DEF CallOK, Finds
  <2>5. Shown(c)'
    BY <1>6, <1>11 DEF Shown
  <2>6. EndedWell(c)'
    BY <1>8 DEF EndedWell
  <2>7. Announced(c)'
    BY <1>1, <1>6 DEF CallOK, Announced
  <2> QED
    BY <2>1, <2>2, <2>3, <2>4, <2>5, <2>6, <2>7 DEF CallOK
<1>13. mutex' \in Thread \union {"free", "poisoned"}
  BY <1>2 DEF CallsTypeOK
<1>14. \A t \in Thread : t = c /\ mutex' = t => Running(c)'
  BY <1>8
<1> QED
  BY <1>3, <1>4, <1>12, <1>13, <1>14, OneCallMoves

LEMMA SetMeKeeps ==
    ASSUME CallsInv, NEW c \in Caller, AtStep(c, {"me"}), alias' = c,
           called' = [called EXCEPT ![c].at = @ + 1, ![c].set = TRUE],
           UNCHANGED <<file, row, talk, lock, mutex, codeOnly, unheard, lag>>
    PROVE  CallsInv'
<1> DEFINE next == [called[c] EXCEPT !.at = @ + 1]
           r    == [called[c] EXCEPT !.at = @ + 1, !.set = TRUE]
<1>0. Running(c) /\ Step(c) = "me"
  BY DEF AtStep
<1>1. called[c] \in CallRecord /\ CallOK(c)
  BY <1>0, BegunIsSound DEF Running
<1>2. CallsTypeOK
  BY DEF CallsInv
<1>3. r \in CallRecord
  <2>1. next \in CallRecord
    BY <1>1 DEF CallRecord
  <2>2. \A q \in CallRecord : [q EXCEPT !.set = TRUE] \in CallRecord
    BY DEF CallRecord
  <2>3. r = [next EXCEPT !.set = TRUE]
    BY <1>1 DEF CallRecord
  <2> HIDE DEF next, r
  <2> QED
    BY <2>1, <2>2, <2>3
<1>4. called' = [called EXCEPT ![c] = r]
  BY <1>2 DEF CallsTypeOK
<1>5. called'[c] = r
  BY <1>2, <1>4 DEF CallsTypeOK
<1>6. /\ called'[c].plan = called[c].plan /\ called'[c].at = called[c].at + 1
      /\ called'[c].landed = called[c].landed /\ called'[c].error = called[c].error
      /\ called'[c].thing = called[c].thing /\ called'[c].shows = called[c].shows
      /\ called'[c].alone = called[c].alone
  <2>1. /\ next.plan = called[c].plan /\ next.at = called[c].at + 1
        /\ next.landed = called[c].landed /\ next.error = called[c].error
        /\ next.thing = called[c].thing /\ next.shows = called[c].shows
        /\ next.alone = called[c].alone /\ next \in CallRecord
    BY <1>1 DEF CallRecord
  <2>2. \A q \in CallRecord :
           /\ [q EXCEPT !.set = TRUE].plan = q.plan /\ [q EXCEPT !.set = TRUE].at = q.at
           /\ [q EXCEPT !.set = TRUE].landed = q.landed /\ [q EXCEPT !.set = TRUE].error = q.error
           /\ [q EXCEPT !.set = TRUE].thing = q.thing /\ [q EXCEPT !.set = TRUE].shows = q.shows
           /\ [q EXCEPT !.set = TRUE].alone = q.alone
    BY DEF CallRecord
  <2>3. r = [next EXCEPT !.set = TRUE]
    BY <1>1 DEF CallRecord
  <2>4. called'[c] = r
    BY <1>5
  <2> HIDE DEF next, r
  <2>5. /\ r.plan = next.plan /\ r.at = next.at /\ r.landed = next.landed
        /\ r.error = next.error /\ r.thing = next.thing /\ r.shows = next.shows
        /\ r.alone = next.alone
    BY <2>1, <2>2, <2>3, Zenon
  <2> QED
    BY <2>1, <2>4, <2>5
<1>7. called'[c] # NotCalled
  BY <1>3, <1>5, CalledIsNotIdle
<1> HIDE DEF r
<1>8. Running(c)' /\ ~Ended(c)'
  BY <1>0, <1>6, <1>7 DEF Running, Ended
<1>9. /\ \A s : Passed(c, s)' <=> Passed(c, s) \/ Step(c) = s
      /\ called'[c].at <= Len(called'[c].plan.steps) + 1
  BY <1>0, <1>6, PassesOn
<1>11. Undisputed(c)' <=> Undisputed(c)
  BY <1>6 DEF Undisputed
<1>12. CallOK(c)'
  <2>1. Placed(c)'
    BY <1>1, <1>6, <1>9 DEF CallOK, Placed
  <2>2. Landed(c)'
    BY <1>0, <1>1, <1>6, <1>9 DEF CallOK, Landed
  <2>3. Holds(c)'
    BY <1>0, <1>1, <1>6, <1>8, <1>9 DEF CallOK, Holds, Running
  <2>4. Finds(c)'
    <3>1. \A i : StepAt(c, i)' = StepAt(c, i)
      BY <1>6 DEF StepAt
    <3>2. called[c].at \in Nat
      BY <1>1 DEF CallRecord
    <3>3. 1..called[c].at - 1 \subseteq 1..called'[c].at - 1
      BY <1>6, <3>2
    <3>4. SUFFICES ASSUME Undisputed(c)
                   PROVE  /\ (\A i \in 1..called[c].at - 1 : StepAt(c, i) = "commit" => StepAt(c, i - 1) \in Writing)
                                => file[called[c].thing] = c /\ row[called[c].thing] = c
                          /\ (\A i \in 1..called[c].at - 1 : StepAt(c, i) = "commit" => StepAt(c, i - 1) = "say")
                                => talk # <<>> /\ talk[Len(talk)] = c
      BY <1>6, <1>11, <3>1, <3>3 DEF Finds
    <3> QED
      BY <1>0, <1>1, <3>4 DEF CallOK, Finds
  <2>5. Shown(c)'
    BY <1>1, <1>6, <1>11 DEF CallOK, Shown
  <2>6. EndedWell(c)'
    BY <1>8 DEF EndedWell
  <2>7. Announced(c)'
    BY <1>1, <1>6 DEF CallOK, Announced
  <2> QED
    BY <2>1, <2>2, <2>3, <2>4, <2>5, <2>6, <2>7 DEF CallOK
<1>13. mutex' \in Thread \union {"free", "poisoned"}
  BY <1>2 DEF CallsTypeOK
<1>14. \A t \in Thread : t = c /\ mutex' = t => Running(c)'
  BY <1>8
<1> QED
  BY <1>3, <1>4, <1>12, <1>13, <1>14, OneCallMoves

LEMMA ObjectionsAreKnown ==
    ASSUME NEW step \in Looks, NEW error \in Objections(step)
    PROVE  error \in AnyError \ {"running", "none"} /\ (error \in Judgements => step \in Judging)
  BY DEF Looks, Objections, AnyError, Judgements, Judging

LEMMA RefusalsAreKnown ==
    ASSUME NEW step \in Stages, NEW error \in Refusals(step)
    PROVE  error \in AnyError \ {"running", "none"} /\ (error \in Judgements => step \in Judging)
  BY DEF Stages, Refusals, AnyError, Judgements, Judging

(* A step that may fail with an error it knows.                            *)
LEMMA FailKeeps ==
    ASSUME CallsInv, NEW c \in Caller, Running(c), Step(c) # "answer",
           NEW error \in AnyError \ {"running", "none"}, FailWith(c, error),
           error \in Judgements => Step(c) \in Judging,
           Step(c) \in ReadBacks /\ Commits(c) <= 1 => Late(c, error)
    PROVE  CallsInv'
<1>1. /\ called[c].landed > 0 \/ called[c].set => Step(c) \notin Judging
      /\ called[c].landed > 0 /\ Commits(c) <= 1 => Step(c) \in ReadBacks
  BY BehindACommit
<1>2. MayFail(c, error)
  BY <1>1 DEF MayFail
<1>3. /\ called' = [called EXCEPT ![c].error = error]
      /\ mutex' = (IF mutex = c THEN "free" ELSE mutex)
      /\ lock' \in {lock, "free"}
      /\ UNCHANGED <<file, row, talk, alias, codeOnly, lag>>
      /\ unheard' = unheard
  BY DEF FailWith, Leave
<1> QED
  BY <1>2, <1>3, EndingKeeps

LEMMA BeginKeeps ==
    ASSUME CallsInv, NEW c \in Caller, BeginCall(c)
    PROVE  CallsInv'
<1>1. PICK plan \in Plans :
         /\ plan.by = IF c \in Thread THEN "server" ELSE "command"
         /\ called' = [called EXCEPT ![c] =
               [plan |-> plan, at |-> 1, landed |-> 0, error |-> "running",
                thing |-> IF "create" \in Range(plan.steps) THEN c ELSE "old",
                shows |-> "none", alone |-> TRUE, set |-> FALSE]]
  BY DEF BeginCall
<1> DEFINE thing == IF "create" \in Range(plan.steps) THEN c ELSE "old"
           r == [plan |-> plan, at |-> 1, landed |-> 0, error |-> "running", thing |-> thing,
                 shows |-> "none", alone |-> TRUE, set |-> FALSE]
<1>2. thing \in Things
  BY DEF Things
<1>3. called' = [called EXCEPT ![c] = r]
  BY <1>1
<1> HIDE DEF thing
<1>4. r \in CallRecord
  BY <1>2 DEF CallRecord, AnyError
<1>5. called'[c] = r
  BY <1>3 DEF CallsInv, CallsTypeOK
<1>6. /\ called'[c].plan = plan /\ called'[c].at = 1 /\ called'[c].landed = 0
      /\ called'[c].error = "running" /\ called'[c].shows = "none" /\ ~called'[c].set
  BY <1>5
<1>7. called'[c] # NotCalled
  BY <1>4, <1>5, CalledIsNotIdle
<1> HIDE DEF r
<1>8. Running(c)' /\ ~Ended(c)' /\ ~Undisputed(c)'
  BY <1>6, <1>7 DEF Running, Ended, Undisputed
<1>9. \A s : ~Passed(c, s)'
  <2>1. 1..called'[c].at - 1 = {}
    BY <1>6
  <2> QED
    BY <2>1 DEF Passed
<1>10. UNCHANGED <<file, row, talk, alias, lock, mutex, codeOnly, unheard, lag>> /\ called[c] = NotCalled
  BY DEF BeginCall
<1>11. CallOK(c)'
  <2>1. Placed(c)'
    <3>1. plan.steps \in Seq(StepNames)
      BY CallsAssumption DEF IsPlan
    <3>2. Len(plan.steps) \in Nat
      BY <3>1
    <3> QED
      BY <1>1, <1>6, <3>2 DEF Placed
  <2>2. Landed(c)'
    BY <1>6, <1>9 DEF Landed
  <2>3. Holds(c)'
    BY <1>9 DEF Holds
  <2>4. Finds(c)' /\ Shown(c)'
    BY <1>8 DEF Finds, Shown
  <2>5. EndedWell(c)'
    BY <1>8 DEF EndedWell
  <2>6. Announced(c)'
    BY <1>10 DEF Announced, CallsInv, Begun
  <2> QED
    BY <2>1, <2>2, <2>3, <2>4, <2>5, <2>6 DEF CallOK
<1>12. mutex' \in Thread \union {"free", "poisoned"}
  BY <1>10 DEF CallsInv, CallsTypeOK
<1>13. \A t \in Thread : t = c /\ mutex' = t => Running(c)'
  BY <1>8
<1> QED
  BY <1>3, <1>4, <1>10, <1>11, <1>12, <1>13, OneCallMoves

(* Two requests are never both past "workspace".                           *)
LEMMA RequestsTakeTurns ==
    ASSUME CallsInv, NEW c \in Thread, NEW d \in Thread, Running(c), Running(d),
           Passed(c, "workspace"), Passed(d, "workspace")
    PROVE  c = d
<1>1. c \in Caller /\ d \in Caller
  BY DEF Caller
<1>2. Holds(c) /\ Holds(d)
  BY <1>1, BegunIsSound DEF CallOK, Running
<1> QED
  BY <1>2 DEF Holds

(* A request that has committed, or is about to, is past "workspace".      *)
LEMMA CommitsInside ==
    ASSUME CallsInv, NEW c \in Thread, Running(c), Passed(c, "commit") \/ Step(c) = "commit"
    PROVE  Passed(c, "workspace") /\ called[c].plan.write
<1>0. c \in Caller
  BY DEF Caller
<1>1. CallOK(c) /\ IsPlan(called[c].plan) /\ called[c] \in CallRecord
  BY <1>0, BegunIsSound DEF Running
<1>2. called[c].plan.by = "server"
  BY <1>1 DEF CallOK, Placed
<1>3. PICK i \in 1..called[c].at : i \in DOMAIN called[c].plan.steps /\ called[c].plan.steps[i] = "commit"
  <2>1. called[c].plan.steps \in Seq(StepNames)
    BY <1>0, BegunIsSound DEF Running
  <2>2. called[c].at \in Nat \ {0} /\ called[c].at <= Len(called[c].plan.steps) + 1
    BY <1>1 DEF CallRecord, CallOK, Placed
  <2>3. CASE Passed(c, "commit")
    <3>1. PICK i \in 1..called[c].at - 1 : called[c].plan.steps[i] = "commit"
      BY <2>3 DEF Passed, StepAt
    <3>2. i \in 1..called[c].at /\ i \in 1..Len(called[c].plan.steps)
      BY <2>1, <2>2
    <3> QED
      BY <2>1, <3>1, <3>2
  <2>4. CASE Step(c) = "commit"
    <3>1. called[c].at \in DOMAIN called[c].plan.steps /\ called[c].plan.steps[called[c].at] = "commit"
      BY <1>0, <2>4, StepIsOfThePlan DEF StepAt
    <3> QED
      BY <2>2, <3>1
  <2> QED
    BY <2>3, <2>4
<1>4. called[c].plan.write /\ \E j \in 1..i - 1 : called[c].plan.steps[j] = "workspace"
  BY <1>1, <1>2, <1>3 DEF IsPlan
<1>5. called[c].at \in Nat
  BY <1>1 DEF CallRecord
<1> QED
  BY <1>3, <1>4, <1>5 DEF Passed, StepAt

(* Others go on while a commit lands: one another process came between is  *)
(* told nothing of what it finds, and another request is not in its work.  *)
LEMMA CommitLeavesOthers ==
    ASSUME CallsInv, NEW c \in Caller, AtStep(c, {"commit"}), NEW absorbed \in BOOLEAN,
           Committed(c, absorbed), NEW d \in Caller \ {c}, called[d] # NotCalled
    PROVE  CallOK(d)' /\ called'[d] \in CallRecord
<1>0. Running(c) /\ Step(c) = "commit"
  BY DEF AtStep
<1>1. CallOK(d) /\ called[d] \in CallRecord
  BY BegunIsSound
<1> DEFINE apart == {c, d} \subseteq Thread
<1>2. called'[d] = IF apart THEN called[d] ELSE [called[d] EXCEPT !.alone = FALSE]
  BY DEF Committed
<1>3. /\ mutex' = mutex /\ codeOnly' = codeOnly /\ unheard' = unheard \union {c}
      /\ lag => lag'
  BY DEF Committed
<1>4. /\ called'[d].plan = called[d].plan /\ called'[d].at = called[d].at
      /\ called'[d].landed = called[d].landed /\ called'[d].error = called[d].error
      /\ called'[d].thing = called[d].thing /\ called'[d].shows = called[d].shows
      /\ called'[d].alone => called[d].alone /\ apart
      /\ called'[d].set <=> called[d].set
  <2>1. \A q \in CallRecord :
           /\ [q EXCEPT !.alone = FALSE].plan = q.plan /\ [q EXCEPT !.alone = FALSE].at = q.at
           /\ [q EXCEPT !.alone = FALSE].landed = q.landed /\ [q EXCEPT !.alone = FALSE].error = q.error
           /\ [q EXCEPT !.alone = FALSE].thing = q.thing /\ [q EXCEPT !.alone = FALSE].shows = q.shows
           /\ ~[q EXCEPT !.alone = FALSE].alone
           /\ [q EXCEPT !.alone = FALSE].set = q.set
    BY DEF CallRecord
  <2>2. CASE apart
    BY <1>2, <2>2
  <2>3. CASE ~apart
    <3>1. called'[d] = [called[d] EXCEPT !.alone = FALSE]
      BY <1>2, <2>3
    <3> HIDE DEF apart
    <3> QED
      BY <1>1, <2>1, <3>1
  <2> QED
    BY <2>2, <2>3
<1>5. called'[d] \in CallRecord
  BY <1>1, <1>2 DEF CallRecord
<1>6. called'[d] # NotCalled
  BY <1>5, CalledIsNotIdle
<1> HIDE DEF apart
<1>7. /\ \A i : StepAt(d, i)' = StepAt(d, i)
      /\ \A s : Passed(d, s)' <=> Passed(d, s)
      /\ Running(d)' <=> Running(d)
      /\ Ended(d)' <=> Ended(d)
      /\ Commits(d)' = Commits(d)
  BY <1>4, <1>6 DEF StepAt, Passed, Running, Ended, Commits
<1>8. Undisputed(d)' => Undisputed(d) /\ apart
  BY <1>3, <1>4 DEF Undisputed
<1>9. Running(d) => ~Undisputed(d)'
  <2> SUFFICES ASSUME Running(d), Undisputed(d)' PROVE FALSE
    OBVIOUS
  <2>1. c \in Thread /\ d \in Thread
    BY <1>8 DEF apart
  <2>2. Passed(d, "commit")
    BY <1>1, <1>8 DEF CallOK, Landed, Undisputed
  <2>3. Passed(d, "workspace") /\ Passed(c, "workspace")
    BY <1>0, <2>1, <2>2, CommitsInside
  <2> QED
    BY <1>0, <2>1, <2>3, RequestsTakeTurns
<1>10. Placed(d)'
  BY <1>1, <1>4 DEF CallOK, Placed
<1>11. Landed(d)'
  BY <1>1, <1>4, <1>7 DEF CallOK, Landed
<1>12. Holds(d)'
  BY <1>1, <1>3, <1>4, <1>7 DEF CallOK, Holds
<1>13. Finds(d)'
  BY <1>7, <1>9 DEF Finds
<1>14. Shown(d)'
  BY <1>1, <1>4, <1>8 DEF CallOK, Shown
<1>15. EndedWell(d)'
  <2>1. \A error : Late(d, error) => Late(d, error)'
    BY <1>4, <1>8 DEF Late, SeesScenario, Appends
  <2> QED
    BY <1>1, <1>3, <1>4, <1>7, <2>1 DEF CallOK, EndedWell
<1>16. Announced(d)'
  BY <1>1, <1>3, <1>4 DEF CallOK, Announced
<1> QED
  BY <1>5, <1>10, <1>11, <1>12, <1>13, <1>14, <1>15, <1>16 DEF CallOK

LEMMA CommitKeeps ==
    ASSUME CallsInv, NEW c \in Caller, AtStep(c, {"commit"}), NEW absorbed \in BOOLEAN,
           Committed(c, absorbed)
    PROVE  CallsInv'
<1>0. Running(c) /\ Step(c) = "commit"
  BY DEF AtStep
<1>1. called[c] \in CallRecord /\ CallOK(c) /\ IsPlan(called[c].plan)
  BY <1>0, BegunIsSound DEF Running
<1>2. CallsTypeOK
  BY DEF CallsInv
<1> DEFINE what == StepAt(c, called[c].at - 1)
           thing == called[c].thing
           after == IF what \in Writing THEN c ELSE IF what = "remove" THEN "gone" ELSE file[thing]
           next == [called[c] EXCEPT !.at = @ + 1]
           r == [called[c] EXCEPT !.at = @ + 1, !.landed = @ + 1]
<1>3. /\ file' = [file EXCEPT ![thing] = after]
      /\ talk' = IF what = "say" THEN Append(talk, c) ELSE talk
      /\ row' = IF absorbed THEN [row EXCEPT ![thing] = after] ELSE row
      /\ lag' = (lag \/ ~absorbed)
      /\ lock' = "free" /\ unheard' = unheard \union {c}
      /\ UNCHANGED <<alias, mutex, codeOnly>>
  BY DEF Committed, StepAt, Writing
<1>4. thing \in Things /\ after \in Things \union {"gone"}
  BY <1>1, <1>2 DEF CallRecord, CallsTypeOK, Things
<1>5. r \in CallRecord
  <2>1. next \in CallRecord
    BY <1>1 DEF CallRecord
  <2>2. \A q \in CallRecord : [q EXCEPT !.landed = @ + 1] \in CallRecord
    BY DEF CallRecord
  <2>3. r = [next EXCEPT !.landed = @ + 1]
    BY <1>1 DEF CallRecord
  <2> HIDE DEF next, r
  <2> QED
    BY <2>1, <2>2, <2>3
<1>6. called' = [d \in Caller |-> IF d = c THEN r
                   ELSE IF called[d] # NotCalled /\ ~({c, d} \subseteq Thread)
                        THEN [called[d] EXCEPT !.alone = FALSE] ELSE called[d]]
  BY DEF Committed
<1>7. called'[c] = r
  BY <1>6
<1>8. /\ called'[c].plan = called[c].plan /\ called'[c].at = called[c].at + 1
      /\ called'[c].landed = called[c].landed + 1 /\ called'[c].error = called[c].error
      /\ called'[c].thing = called[c].thing /\ called'[c].shows = called[c].shows
      /\ called'[c].alone = called[c].alone /\ called'[c].set = called[c].set
  BY <1>1, <1>7 DEF CallRecord
<1>9. called'[c] # NotCalled
  BY <1>5, <1>7, CalledIsNotIdle
<1> HIDE DEF r, next
<1>10. Running(c)' /\ ~Ended(c)'
  BY <1>0, <1>8, <1>9 DEF Running, Ended
<1>11. /\ \A s : Passed(c, s)' <=> Passed(c, s) \/ Step(c) = s
       /\ called'[c].at <= Len(called'[c].plan.steps) + 1
  BY <1>0, <1>8, PassesOn
<1>12. called[c].landed \in Nat /\ called[c].at \in Nat \ {0}
  BY <1>1 DEF CallRecord
<1>13. Undisputed(c)' => called[c].alone /\ ~lag /\ absorbed
  BY <1>3, <1>8 DEF Undisputed
<1>14. StepAt(c, called[c].at) = "commit"
  BY <1>0, StepIsOfThePlan
<1>15. CallOK(c)'
  <2>1. Placed(c)'
    BY <1>1, <1>8, <1>11 DEF CallOK, Placed
  <2>2. Landed(c)'
    BY <1>0, <1>1, <1>8, <1>11, <1>12 DEF CallOK, Landed
  <2>3. Holds(c)'
    BY <1>0, <1>1, <1>3, <1>8, <1>11 DEF CallOK, Holds, Running
  <2>4. Finds(c)'
    <3>1. \A i : StepAt(c, i)' = StepAt(c, i)
      BY <1>8 DEF StepAt
    <3>2. called[c].at \in 1..called'[c].at - 1
      BY <1>8, <1>12
    <3>3. SUFFICES ASSUME Undisputed(c)'
                   PROVE  /\ what \in Writing => file'[thing] = c /\ row'[thing] = c
                          /\ what = "say" => talk' # <<>> /\ talk'[Len(talk')] = c
      BY <1>8, <1>14, <3>1, <3>2 DEF Finds
    <3>4. what \in Writing => file'[thing] = c /\ row'[thing] = c
      BY <1>2, <1>3, <1>4, <1>13, <3>3 DEF CallsTypeOK
    <3>5. what = "say" => talk' # <<>> /\ talk'[Len(talk')] = c
      BY <1>2, <1>3 DEF CallsTypeOK
    <3> QED
      BY <3>4, <3>5
  <2>5. Shown(c)'
    BY <1>1, <1>8, <1>12, <1>13 DEF CallOK, Shown, Landed, Undisputed
  <2>6. EndedWell(c)'
    BY <1>10 DEF EndedWell
  <2>7. Announced(c)'
    BY <1>0, <1>8, CommitsInside DEF Announced, Running
  <2> QED
    BY <2>1, <2>2, <2>3, <2>4, <2>5, <2>6, <2>7 DEF CallOK
<1>16. ASSUME NEW d \in Caller PROVE called'[d] # NotCalled => CallOK(d)'
  <2>1. CASE d = c
    BY <1>15, <2>1
  <2>2. CASE d # c /\ called[d] # NotCalled
    BY <2>2, CommitLeavesOthers
  <2>3. CASE d # c /\ called[d] = NotCalled
    BY <1>6, <2>3
  <2> QED
    BY <2>1, <2>2, <2>3
<1>17. CallsTypeOK'
  <2>1. called' \in [Caller -> CallRecord \union {NotCalled}]
    <3>1. ASSUME NEW d \in Caller PROVE called'[d] \in CallRecord \union {NotCalled}
      <4>1. CASE d = c
        BY <1>5, <1>7, <4>1
      <4>2. CASE d # c /\ called[d] # NotCalled
        BY <4>2, CommitLeavesOthers
      <4>3. CASE d # c /\ called[d] = NotCalled
        BY <1>6, <4>3
      <4> QED
        BY <4>1, <4>2, <4>3
    <3>2. called' = [d \in Caller |-> called'[d]]
      BY <1>6
    <3> QED
      BY <3>1, <3>2
  <2> HIDE DEF thing, after, what
  <2>2. file' \in [Things -> Things \union {"gone"}] /\ row' \in [Things -> Things \union {"gone"}]
    BY <1>2, <1>3, <1>4 DEF CallsTypeOK
  <2>3. talk' \in Seq(Caller)
    BY <1>2, <1>3 DEF CallsTypeOK
  <2>4. /\ alias' \in Things /\ lock' \in Caller \union {"free"}
        /\ mutex' \in Thread \union {"free", "poisoned"} /\ codeOnly' \in BOOLEAN
        /\ unheard' \subseteq Caller /\ lag' \in BOOLEAN
    BY <1>2, <1>3 DEF CallsTypeOK
  <2> QED
    BY <2>1, <2>2, <2>3, <2>4 DEF CallsTypeOK
<1>18. ASSUME NEW t \in Thread, mutex' = t PROVE Running(t)'
  <2>1. Running(t) /\ t \in Caller
    BY <1>3, <1>18 DEF CallsInv, Caller
  <2>2. CASE t = c
    BY <1>10, <2>2
  <2>3. CASE t # c
    <3>1. called'[t] \in CallRecord
      BY <2>1, <2>3, CommitLeavesOthers DEF Running
    <3>2. called'[t].error = called[t].error
      BY <1>6, <2>1, <2>3, BegunIsSound DEF Running, CallRecord
    <3> QED
      BY <2>1, <3>1, <3>2, CalledIsNotIdle DEF Running
  <2> QED
    BY <2>2, <2>3
<1>19. unheard' \subseteq Begun'
  <2>1. ASSUME NEW d \in unheard' PROVE d \in Caller /\ called'[d] # NotCalled
    <3>1. CASE d = c
      BY <1>9, <3>1
    <3>2. CASE d # c
      <4>1. d \in Caller /\ called[d] # NotCalled
        BY <1>3, <3>2 DEF CallsInv, Begun
      <4>2. called'[d] \in CallRecord
        BY <3>2, <4>1, CommitLeavesOthers
      <4> QED
        BY <4>1, <4>2, CalledIsNotIdle
    <3> QED
      BY <3>1, <3>2
  <2> QED
    BY <2>1 DEF Begun
<1> QED
  BY <1>16, <1>17, <1>18, <1>19 DEF CallsInv

(* A commit that lands unseen ends its call: the files stay as they were.  *)
LEMMA UnseenKeeps ==
    ASSUME CallsInv, NEW c \in Caller, Running(c), Step(c) = "commit", CommitUnseen(c)
    PROVE  CallsInv'
<1> DEFINE on   == [called[c] EXCEPT !.at = @ + 1]
           past == [on EXCEPT !.landed = @ + 1]
           r    == [past EXCEPT !.error = "Vcs"]
<1>1. called[c] \in CallRecord /\ CallOK(c)
  BY BegunIsSound DEF Running
<1>2. CallsTypeOK
  BY DEF CallsInv
<1>3. /\ on \in CallRecord
      /\ on.plan = called[c].plan /\ on.at = called[c].at + 1 /\ on.landed = called[c].landed
      /\ on.thing = called[c].thing /\ on.shows = called[c].shows
      /\ on.alone = called[c].alone /\ on.set = called[c].set
  BY <1>1 DEF CallRecord
<1>4. /\ past \in CallRecord
      /\ past.plan = called[c].plan /\ past.at = called[c].at + 1 /\ past.landed = called[c].landed + 1
      /\ past.thing = called[c].thing /\ past.shows = called[c].shows
      /\ past.alone = called[c].alone /\ past.set = called[c].set
  <2> HIDE DEF on
  <2> QED
    BY <1>3 DEF CallRecord
<1>5. /\ r \in CallRecord
      /\ r.plan = called[c].plan /\ r.at = called[c].at + 1 /\ r.landed = called[c].landed + 1
      /\ r.thing = called[c].thing /\ r.shows = called[c].shows /\ r.error = "Vcs"
      /\ r.alone = called[c].alone /\ r.set = called[c].set
  <2> HIDE DEF past
  <2> QED
    BY <1>4 DEF CallRecord, AnyError
<1>6. called' = [called EXCEPT ![c] = r]
  BY <1>1, <1>2 DEF CallsTypeOK, CallRecord, CommitUnseen
<1> HIDE DEF r
<1>7. called'[c] = r
  BY <1>2, <1>6 DEF CallsTypeOK
<1>8. called'[c] # NotCalled
  BY <1>5, <1>7, CalledIsNotIdle
<1>9. ~Running(c)' /\ Ended(c)'
  BY <1>5, <1>7, <1>8 DEF Running, Ended
<1>10. /\ \A s : Passed(c, s)' <=> Passed(c, s) \/ Step(c) = s
       /\ called'[c].at <= Len(called'[c].plan.steps) + 1
  BY <1>5, <1>7, PassesOn
<1>11. /\ UNCHANGED <<file, row, talk, alias, codeOnly, unheard, lag>>
       /\ lock' \in {lock, "free"} /\ mutex' = (IF mutex = c THEN "free" ELSE mutex)
  BY DEF CommitUnseen, Leave
<1>12. called[c].landed \in Nat /\ called'[c].landed > 0
  BY <1>1, <1>5, <1>7 DEF CallRecord
<1>13. "free" \notin Caller /\ "poisoned" \notin Caller
  BY CallsAssumption
<1>14. CallOK(c)'
  <2>1. Placed(c)'
    BY <1>1, <1>5, <1>7, <1>10 DEF CallOK, Placed
  <2>2. Landed(c)'
    BY <1>1, <1>5, <1>7, <1>10, <1>12 DEF CallOK, Landed
  <2>3. Holds(c)'
    BY <1>1, <1>5, <1>7, <1>9, <1>10, <1>11 DEF CallOK, Holds
  <2>4. Finds(c)'
    BY <1>9 DEF Finds
  <2>5. Shown(c)'
    BY <1>1, <1>5, <1>7, <1>11, <1>12 DEF CallOK, Shown, Landed, Undisputed
  <2>6. EndedWell(c)'
    <3>1. called'[c].error = "Vcs"
      BY <1>5, <1>7
    <3> QED
      BY <3>1 DEF EndedWell, Late, Judgements
  <2>7. Announced(c)'
    BY <1>1, <1>5, <1>7, <1>11 DEF CallOK, Announced
  <2> QED
    BY <2>1, <2>2, <2>3, <2>4, <2>5, <2>6, <2>7 DEF CallOK
<1>15. /\ mutex' \in Thread \union {"free", "poisoned"}
       /\ mutex' # mutex => mutex = c
       /\ mutex' \in Thread => mutex' = mutex
       /\ mutex' # c
  BY <1>2, <1>11, <1>13 DEF CallsTypeOK, Caller
<1> QED
  BY <1>5, <1>6, <1>11, <1>14, <1>15, OneCallMoves

LEMMA InitCalls == CallsInit => CallsInv
<1> SUFFICES ASSUME CallsInit PROVE CallsInv
  OBVIOUS
<1>1. mutex \notin Thread
  BY CallsAssumption DEF CallsInit, Caller
<1>2. \A c \in Caller : called[c] = NotCalled
  BY DEF CallsInit
<1>3. CallsTypeOK
  <2>1. file \in [Things -> Things \union {"gone"}] /\ row = file
    BY DEF CallsInit, Things
  <2>2. called \in [Caller -> CallRecord \union {NotCalled}]
    BY DEF CallsInit
  <2>3. talk \in Seq(Caller) /\ alias \in Things /\ lock \in Caller \union {"free"}
    BY DEF CallsInit, Things
  <2>4. /\ mutex \in Thread \union {"free", "poisoned"} /\ codeOnly \in BOOLEAN
        /\ unheard \subseteq Caller /\ lag \in BOOLEAN
    BY DEF CallsInit
  <2> QED
    BY <2>1, <2>2, <2>3, <2>4 DEF CallsTypeOK
<1>4. unheard \subseteq Begun
  BY DEF CallsInit
<1> QED
  BY <1>1, <1>2, <1>3, <1>4 DEF CallsInv

LEMMA NextCalls == CallsInv /\ [CallsNext]_callVars => CallsInv'
<1> SUFFICES ASSUME CallsInv, [CallsNext]_callVars PROVE CallsInv'
  OBVIOUS
<1>1. CASE UNCHANGED callVars
  <2>1. /\ CallsTypeOK' <=> CallsTypeOK
        /\ Begun' = Begun /\ unheard' = unheard /\ mutex' = mutex /\ called' = called
    BY <1>1 DEF callVars, CallsTypeOK, Begun
  <2>2. \A c \in Thread : Running(c)' <=> Running(c)
    BY <2>1 DEF Running
  <2>3. ASSUME NEW c \in Caller, called[c] # NotCalled PROVE CallOK(c)'
    BY <1>1, <2>3, OthersStay DEF callVars
  <2> QED
    BY <2>1, <2>2, <2>3 DEF CallsInv
<1>2. ASSUME NEW c \in Caller, BeginCall(c) PROVE CallsInv'
  BY <1>2, BeginKeeps
<1>3. ASSUME NEW c \in Caller, Look(c) PROVE CallsInv'
  <2>1. Running(c) /\ Step(c) \in Looks
    BY <1>3 DEF Look, AtStep
  <2>2. Step(c) \notin {"answer", "commit", "me", "workspace"} \union ReadBacks
    BY <2>1 DEF Looks, ReadBacks
  <2>3. CASE Onward(c) /\ UNCHANGED <<file, row, talk, alias, lock, mutex, codeOnly, unheard, lag>>
    BY <2>1, <2>2, <2>3, OnwardKeeps
  <2>4. ASSUME NEW error \in Objections(Step(c)), FailWith(c, error) PROVE CallsInv'
    <3>1. error \in AnyError \ {"running", "none"} /\ (error \in Judgements => Step(c) \in Judging)
      BY <2>1, ObjectionsAreKnown
    <3> QED
      BY <2>1, <2>2, <2>4, <3>1, FailKeeps
  <2> QED
    BY <1>3, <2>3, <2>4 DEF Look
<1>4. ASSUME NEW c \in Caller, read_dit(c) PROVE CallsInv'
  <2>1. Running(c) /\ Step(c) = "workspace"
    BY <1>4 DEF read_dit, AtStep
  <2>2. CASE mutex = "poisoned" /\ FailWith(c, "Internal")
    BY <2>1, <2>2, FailKeeps DEF AnyError, Judgements, ReadBacks
  <2>3. CASE FailWith(c, "Refuse")
    BY <2>1, <2>3, FailKeeps DEF AnyError, Judgements, ReadBacks
  <2>4. CASE /\ mutex = "free" /\ ~(codeOnly /\ called[c].plan.write) /\ mutex' = c /\ Onward(c)
             /\ UNCHANGED <<file, row, talk, alias, lock, codeOnly, unheard, lag>>
    BY <2>1, <2>4, OnwardKeeps
  <2> QED
    BY <1>4, <2>2, <2>3, <2>4 DEF read_dit
<1>5. ASSUME NEW c \in Caller, open_dit(c) PROVE CallsInv'
  <2>1. Running(c) /\ Step(c) = "open"
    BY <1>5 DEF open_dit, AtStep
  <2>2. CASE row' = file /\ Onward(c) /\ UNCHANGED <<file, talk, alias, lock, mutex, codeOnly, unheard, lag>>
    BY <2>1, <2>2, OnwardKeeps
  <2>3. CASE FailWith(c, "Vcs")
    BY <2>1, <2>3, FailKeeps DEF AnyError, Judgements, ReadBacks
  <2> QED
    BY <1>5, <2>2, <2>3 DEF open_dit
<1>6. ASSUME NEW c \in Caller, resolve(c) PROVE CallsInv'
  <2>1. Running(c) /\ Step(c) = "resolve"
    BY <1>6 DEF resolve, AtStep
  <2>2. CASE Onward(c) /\ UNCHANGED <<file, row, talk, alias, lock, mutex, codeOnly, unheard, lag>>
    BY <2>1, <2>2, OnwardKeeps
  <2>3. CASE FailWith(c, "NotFound")
    BY <2>1, <2>3, FailKeeps DEF AnyError, Judgements, ReadBacks
  <2>4. CASE FailWith(c, "Ambiguous")
    BY <2>1, <2>4, FailKeeps DEF AnyError, Judgements, ReadBacks
  <2> QED
    BY <1>6, <2>2, <2>3, <2>4 DEF resolve
<1>7. ASSUME NEW c \in Caller, transaction(c) PROVE CallsInv'
  <2>1. Running(c) /\ Step(c) = "begin"
    BY <1>7 DEF transaction, AtStep
  <2>2. CASE lock' = c /\ Onward(c) /\ UNCHANGED <<file, row, talk, alias, mutex, codeOnly, unheard, lag>>
    BY <2>1, <2>2, OnwardKeeps
  <2>3. CASE FailWith(c, "Busy")
    BY <2>1, <2>3, FailKeeps DEF AnyError, Judgements, ReadBacks
  <2> QED
    BY <1>7, <2>2, <2>3 DEF transaction
<1>8. ASSUME NEW c \in Caller, Stage(c) PROVE CallsInv'
  <2>1. Running(c) /\ Step(c) \in Stages
    BY <1>8 DEF Stage, AtStep
  <2>2. Step(c) \notin {"answer", "commit", "me", "workspace"} \union ReadBacks
    BY <2>1 DEF Stages, ReadBacks
  <2>3. CASE Onward(c) /\ UNCHANGED <<file, row, talk, alias, lock, mutex, codeOnly, unheard, lag>>
    BY <2>1, <2>2, <2>3, OnwardKeeps
  <2>4. CASE FailWith(c, Absent(Step(c)))
    <3>1. Absent(Step(c)) \in AnyError \ ({"running", "none"} \union Judgements)
      BY DEF Absent, AnyError, Judgements
    <3> QED
      BY <2>1, <2>2, <2>4, <3>1, FailKeeps
  <2>5. ASSUME NEW error \in Refusals(Step(c)), FailWith(c, error) PROVE CallsInv'
    <3>1. error \in AnyError \ {"running", "none"} /\ (error \in Judgements => Step(c) \in Judging)
      BY <2>1, RefusalsAreKnown
    <3> QED
      BY <2>1, <2>2, <2>5, <3>1, FailKeeps
  <2> QED
    BY <1>8, <2>3, <2>4, <2>5 DEF Stage
<1>9. ASSUME NEW c \in Caller, commit(c) PROVE CallsInv'
  <2>1. AtStep(c, {"commit"}) /\ Running(c) /\ Step(c) = "commit"
    BY <1>9 DEF commit, AtStep
  <2>2. ASSUME NEW absorbed \in BOOLEAN, Committed(c, absorbed) PROVE CallsInv'
    BY <2>1, <2>2, CommitKeeps
  <2>3. CASE FailWith(c, "Vcs")
    BY <2>1, <2>3, FailKeeps DEF AnyError, Judgements, ReadBacks
  <2>4. CASE CommitUnseen(c)
    BY <2>1, <2>4, UnseenKeeps
  <2> QED
    BY <1>9, <2>2, <2>3, <2>4 DEF commit
<1>10. ASSUME NEW c \in Caller, ReadBack(c) PROVE CallsInv'
  <2>1. Running(c) /\ Step(c) \in ReadBacks /\ Step(c) # "answer"
    BY <1>10 DEF ReadBack, AtStep, ReadBacks
  <2>2. CallsTypeOK /\ called[c].thing \in Things
    BY <2>1, BegunIsSound DEF CallsInv, Running, CallRecord
  <2>3. "gone" # c
    BY CallsAssumption
  <2>4. Undisputed(c) /\ Step(c) # "index" =>
           /\ Step(c) # "last" => file[called[c].thing] = c /\ row[called[c].thing] = c
           /\ Step(c) = "last" => talk # <<>> /\ talk[Len(talk)] = c
    BY <2>1, ReadsItsOwn
  <2>5. Found(c) \in Things \union {"gone"} /\ (Undisputed(c) /\ Step(c) # "index" => Found(c) = c)
    <3>1. CASE Step(c) = "read"
      BY <2>2, <2>4, <3>1 DEF Found, CallsTypeOK
    <3>2. CASE Step(c) = "last"
      <4>1. talk # <<>> => talk[Len(talk)] \in Things
        BY <2>2 DEF CallsTypeOK, Things
      <4> QED
        BY <2>4, <3>2, <4>1 DEF Found
    <3>3. CASE Step(c) \notin {"read", "last"}
      BY <2>2, <2>4, <3>3 DEF Found, CallsTypeOK
    <3> QED
      BY <3>1, <3>2, <3>3
  <2>6. Commits(c) <= 1 => c \in Thread \/ Step(c) = "index"
    BY <2>1, BehindACommit
  <2>7. CASE FailWith(c, IF Step(c) = "read" THEN "Io" ELSE "Index")
    <3>1. (IF Step(c) = "read" THEN "Io" ELSE "Index") \in {"Io", "Index"}
      OBVIOUS
    <3>2. ASSUME NEW error \in {"Io", "Index"}, FailWith(c, error) PROVE CallsInv'
      BY <2>1, <3>2, FailKeeps DEF AnyError, Judgements, Late
    <3> QED
      BY <2>7, <3>1, <3>2
  <2>8. CASE Step(c) = "index" /\ Onward(c)
             /\ UNCHANGED <<file, row, talk, alias, lock, mutex, codeOnly, unheard, lag>>
    BY <2>1, <2>8, OnwardKeeps
  <2>9. CASE Step(c) # "index" /\ Shows(c, Found(c))
             /\ UNCHANGED <<file, row, talk, alias, lock, mutex, codeOnly, unheard, lag>>
    BY <2>1, <2>5, <2>9, ShowsKeeps
  <2>10. CASE Step(c) # "index" /\ Found(c) = "gone" /\ FailWith(c, Vanished(Step(c)))
    <3>1. ~Undisputed(c)
      BY <2>3, <2>5, <2>10
    <3>2. Vanished(Step(c)) \in {"NotFound", "Missing", "Internal"}
      BY DEF Vanished
    <3>3. ASSUME NEW error \in {"NotFound", "Missing", "Internal"}, FailWith(c, error) PROVE CallsInv'
      BY <2>1, <2>6, <2>10, <3>1, <3>3, FailKeeps DEF AnyError, Judgements, Late
    <3> QED
      BY <2>10, <3>2, <3>3
  <2>11. CASE Step(c) = "scenario" /\ Appends(c) /\ FailWith(c, "Missing")
    BY <2>1, <2>6, <2>11, FailKeeps DEF AnyError, Judgements, Late
  <2>12. CASE Step(c) = "scenario" /\ ~called[c].alone /\ FailWith(c, "Refuse")
    <3>1. SeesScenario(c)
      <4>1. /\ called[c].at \in DOMAIN called[c].plan.steps
            /\ called[c].plan.steps[called[c].at] = "scenario"
        BY <2>1, <2>12, StepIsOfThePlan DEF StepAt
      <4> QED
        BY <4>1 DEF SeesScenario, Range
    <3>2. ~Undisputed(c)
      BY <2>12 DEF Undisputed
    <3> QED
      BY <2>1, <2>6, <2>12, <3>1, <3>2, FailKeeps DEF AnyError, Judgements, Late
  <2> QED
    BY <1>10, <2>1, <2>7, <2>8, <2>9, <2>10, <2>11, <2>12 DEF ReadBack
<1>11. ASSUME NEW c \in Caller, set_me(c) PROVE CallsInv'
  <2>1. AtStep(c, {"me"}) /\ Running(c) /\ Step(c) = "me"
    BY <1>11 DEF set_me, AtStep
  <2>2. CASE /\ alias' = c /\ called' = [called EXCEPT ![c].at = @ + 1, ![c].set = TRUE]
             /\ UNCHANGED <<file, row, talk, lock, mutex, codeOnly, unheard, lag>>
    BY <2>1, <2>2, SetMeKeeps
  <2>3. CASE FailWith(c, "Vcs")
    BY <2>1, <2>3, FailKeeps DEF AnyError, Judgements, ReadBacks
  <2> QED
    BY <1>11, <2>2, <2>3 DEF set_me
<1>12. ASSUME NEW c \in Caller, Panic(c) PROVE CallsInv'
  <2>1. /\ c \in Thread /\ mutex = c /\ Running(c) /\ mutex' = "poisoned"
        /\ called' = [called EXCEPT ![c].error = "Internal"]
        /\ lock' \in {lock, "free"} /\ unheard' = unheard
        /\ UNCHANGED <<file, row, talk, alias, codeOnly, lag>>
    BY <1>12 DEF Panic
  <2>2. "Internal" \in AnyError \ {"running"} /\ MayFail(c, "Internal")
    BY <2>1 DEF AnyError, MayFail, Judgements, Late
  <2> QED
    BY <2>1, <2>2, EndingKeeps
<1>13. ASSUME NEW c \in Caller, write_dit(c) PROVE CallsInv'
  <2>1. /\ Running(c) /\ called' = [called EXCEPT ![c].error = "none"]
        /\ lock' \in {lock, "free"}
        /\ mutex' = (IF mutex = c THEN "free" ELSE mutex)
        /\ UNCHANGED <<file, row, talk, alias, codeOnly, lag>>
    BY <1>13 DEF write_dit, AtStep, Leave
  <2>2. \/ unheard' = unheard /\ (c \notin unheard \/ c \notin Thread)
        \/ unheard' = {}
    <3>1. Announced(c)
      BY <2>1, BegunIsSound DEF CallOK, Running
    <3> QED
      BY <1>13, <3>1 DEF write_dit, Announced
  <2>3. "none" \in AnyError \ {"running"}
    BY DEF AnyError
  <2> QED
    BY <2>1, <2>2, <2>3, EndingKeeps
<1> QED
  BY <1>1, <1>2, <1>3, <1>4, <1>5, <1>6, <1>7, <1>8, <1>9, <1>10, <1>11, <1>12, <1>13 DEF CallsNext

(* The statuses and exit codes that tell a caller it has changed nothing   *)
(* are those of errors that come before anything is changed.               *)
LEMMA CodesOfErrors ==
    ASSUME NEW error \in AnyError
    PROVE  /\ Status(error) = 400 <=> error \in Judgements
           /\ Status(error) \in {400, 409, 413} =>
                 error \notin {"none", "Index", "Io", "Vcs", "Internal", "NotFound", "Missing"}
           /\ Status(error) = 200 <=> error = "none"
           /\ error \in {"none", "Index", "Io", "Vcs", "Internal"} =>
                 Status(error) \in {200, 500} /\ ExitCode(error) \in {0, 1}
           /\ Status("Missing") = 404
           /\ ExitCode(error) # 400
  BY DEF AnyError, Status, ExitCode, Judgements

LEMMA CallsInvIsEnough == CallsInv => AnswersAreTrue
<1> SUFFICES ASSUME CallsInv PROVE AnswersAreTrue
  OBVIOUS
<1>1. ASSUME NEW c \in Begun
      PROVE  /\ c \in Caller /\ called[c] \in CallRecord /\ called[c].error \in AnyError
             /\ called[c].landed \in Nat /\ CallOK(c) /\ IsPlan(called[c].plan)
  <2>1. c \in Caller /\ called[c] # NotCalled
    BY DEF Begun
  <2> QED
    BY <2>1, BegunIsSound DEF CallRecord
<1>2. ASSUME NEW c \in Begun, Ended(c), Promises(c)
      PROVE  called[c].landed = 0 /\ (Code(c) = 400 => ~called[c].set)
  <2>1. EndedWell(c)
    BY <1>1 DEF CallOK
  <2>2. Code(c) = 400 => called[c].error \in Judgements
    BY <1>1, CodesOfErrors DEF Code
  <2>3. CASE Code(c) = 400
    BY <1>1, <1>2, <2>1, <2>2, <2>3 DEF EndedWell
  <2>4. CASE Code(c) # 400
    <3>1. /\ Code(c) \in IF c \in Thread THEN {409, 413} ELSE {2, 3}
          /\ Commits(c) <= 1
          /\ called[c].alone \/ ~SeesScenario(c)
      BY <1>2, <2>4 DEF Promises, SeesScenario
    <3>2. ~Late(c, called[c].error)
      <4> SUFFICES ASSUME Late(c, called[c].error) PROVE FALSE
        OBVIOUS
      <4>1. called[c].error \in {"none", "Index", "Io", "Vcs", "Internal", "NotFound", "Missing"}
        BY <3>1 DEF Late
      <4>2. called[c].error \in {"NotFound", "Missing"} => c \in Thread
        BY DEF Late
      <4>3. CASE c \in Thread
        BY <1>1, <3>1, <4>1, <4>3, CodesOfErrors DEF Code
      <4>4. CASE c \notin Thread
        BY <1>1, <3>1, <4>1, <4>2, <4>4, CodesOfErrors DEF Code
      <4> QED
        BY <4>3, <4>4
    <3> QED
      BY <1>1, <1>2, <2>1, <2>4, <3>1, <3>2 DEF EndedWell
  <2> QED
    BY <2>3, <2>4
<1>3. ASSUME codeOnly, NEW c \in Thread \cap Begun PROVE called[c].landed = 0
  <2>1. Holds(c) /\ Landed(c) /\ Placed(c)
    BY <1>1 DEF CallOK
  <2> SUFFICES ASSUME called[c].landed > 0 PROVE FALSE
    BY <1>1
  <2>2. PICK i \in 1..called[c].at - 1 : called[c].plan.steps[i] = "commit"
    BY <2>1 DEF Landed, Passed, StepAt
  <2>3. called[c].plan.by = "server"
    BY <2>1 DEF Placed
  <2>4. i \in DOMAIN called[c].plan.steps
    <3>1. called[c].plan.steps \in Seq(StepNames) /\ called[c].at \in Nat
      BY <1>1 DEF IsPlan, CallRecord
    <3>2. called[c].at <= Len(called[c].plan.steps) + 1
      BY <2>1 DEF Placed
    <3> QED
      BY <3>1, <3>2
  <2>5. called[c].plan.write /\ \E j \in 1..i - 1 : called[c].plan.steps[j] = "workspace"
    BY <1>1, <2>2, <2>3, <2>4 DEF IsPlan
  <2>6. Passed(c, "workspace")
    <3>1. called[c].at \in Nat
      BY <1>1 DEF CallRecord
    <3> QED
      BY <2>5, <3>1 DEF Passed, StepAt
  <2> QED
    BY <1>3, <2>1, <2>5, <2>6 DEF Holds
<1>4. RefusalsChangeNothing
  BY <1>2, <1>3 DEF RefusalsChangeNothing, CallsInv
<1>5. SuccessesAreTrue
  <2>1. ASSUME NEW c \in Begun, Ended(c), called[c].landed > 0, called[c].alone, ~lag
        PROVE  /\ called[c].shows \in {"none", c}
               /\ Commits(c) = 1 => \/ Code(c) \in IF c \in Thread THEN {200, 500} ELSE {0, 1}
                                    \/ Appends(c) /\ Code(c) = 404
    <3>1. Undisputed(c)
      BY <2>1 DEF Undisputed
    <3>2. Shown(c) /\ EndedWell(c)
      BY <1>1 DEF CallOK
    <3>3. ASSUME Commits(c) = 1
          PROVE  \/ Code(c) \in IF c \in Thread THEN {200, 500} ELSE {0, 1}
                 \/ Appends(c) /\ Code(c) = 404
      <4>1. Late(c, called[c].error)
        BY <2>1, <3>2, <3>3 DEF EndedWell
      <4>2. /\ called[c].error \in {"none", "Index", "Io", "Vcs", "Internal", "Missing"}
            /\ called[c].error = "Missing" => Appends(c) /\ c \in Thread
        BY <2>1, <3>1, <4>1 DEF Late
      <4>3. CASE called[c].error = "Missing"
        BY <1>1, <4>2, <4>3, CodesOfErrors DEF Code
      <4>4. CASE called[c].error # "Missing"
        BY <1>1, <4>2, <4>4, CodesOfErrors DEF Code
      <4> QED
        BY <4>3, <4>4
    <3> QED
      BY <2>1, <3>1, <3>2, <3>3 DEF Shown
  <2>2. ASSUME NEW c \in Begun, c \in Thread, Ended(c), Code(c) = 200 PROVE c \notin unheard
    <3>1. called[c].error = "none"
      BY <1>1, <2>2, CodesOfErrors DEF Code
    <3>2. Announced(c)
      BY <1>1 DEF CallOK
    <3> QED
      BY <2>2, <3>1, <3>2 DEF Announced
  <2> QED
    BY <2>1, <2>2 DEF SuccessesAreTrue
<1> QED
  BY <1>4, <1>5 DEF AnswersAreTrue

(* However the calls of a server's threads and of commands overlap, fail   *)
(* and panic between any two steps: a refusal the caller is told to act on *)
(* has changed nothing, what a call nobody came between reads back is what *)
(* it wrote, and a success was announced.                                  *)
THEOREM CallsAnswerTruly == CallsSpec => []AnswersAreTrue
<1>1. CallsInv => AnswersAreTrue
  BY CallsInvIsEnough
<1>2. CallsInit => CallsInv
  BY InitCalls
<1>3. CallsInv /\ [CallsNext]_callVars => CallsInv'
  BY NextCalls
<1> QED
  BY <1>1, <1>2, <1>3, PTL DEF CallsSpec
=============================================================================
