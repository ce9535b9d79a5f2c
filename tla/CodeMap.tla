------------------------------ MODULE CodeMap ------------------------------
(***************************************************************************)
(* The code map: what `dit code refresh' keeps in the index about the      *)
(* source files of a repository.                                           *)
(*                                                                         *)
(* A refresh (dit-core/src/code.rs, refresh_code and refresh_root) lists   *)
(* the files at HEAD, re-reads those whose blob changed, from a cache of   *)
(* what the extractor said of a blob before or by parsing it, and then     *)
(* resolves every import again, so that one written before its target      *)
(* existed resolves when it lands.  It holds no lock: the hub and any      *)
(* number of commands may refresh at once, and each git call and each      *)
(* SQLite statement or transaction (dit-index/src/lib.rs) is a step.  A    *)
(* new build of the extractor drops everything first.                      *)
(*                                                                         *)
(* What a blob says is a constant: the names it declares, the files and    *)
(* the declarations it imports, the names it uses without an import.       *)
(***************************************************************************)
EXTENDS Naturals, FiniteSets

CONSTANTS
    Process,
    Path, Name,
    Blob,         \* the contents a file may have
    Gone,         \* no such file, no such row
    Says,         \* what the extractor reads in each blob
    MaxChanges,   \* bound: commits and configuration edits
    MaxUpgrades,  \* bound: new builds of the extractor
    MaxCrashes    \* bound: refreshes that die

ASSUME CodeMapAssumption ==
    /\ Says \in [Blob -> [declares : SUBSET Name, files : SUBSET Path,
                          names : SUBSET Name, uses : SUBSET Name]]
    /\ Gone \notin Blob

VARIABLES
    tree,      \* HEAD: the blob of each file
    excluded,  \* the files the configuration keeps out of the map
    version,   \* the extractor of the installed build
    mark,      \* the `code-extractor' watermark (0: none)
    file,      \* code_files: the blob each file was read at
    fact,      \* the rows of each file: the blob and the extractor they are of
    target,    \* code_imports: where each import leads
    implied,   \* the inferred edges
    cache,     \* code_blob_cache: the blobs remembered, each with its extractor
    job,       \* what each process's refresh is doing
    changes, upgrades, crashes,
    torn       \* ghost: an invalidation ran while another refresh did

store  == <<file, fact, target, implied, cache, mark>>
world  == <<tree, excluded, version>>
budget == <<changes, upgrades, crashes, torn>>
mapVars == <<world, store, job, budget>>

(* An import as written: of a file, or of a declaration.                   *)
Import  == {<<"file", p>> : p \in Path} \union {<<"name", n>> : n \in Name}
Imports(blob) == {<<"file", p>> : p \in Says[blob].files}
                   \union {<<"name", n>> : n \in Says[blob].names}
Target  == Path \union {Gone}
Arrow   == [path : Path, import : Import, to : Target]

Idle == [at      |-> "idle",
         alone   |-> TRUE,                    \* ghost: nothing else moved since it began
         listed  |-> [p \in Path |-> Gone],   \* HEAD as it was listed
         covered |-> {},                      \* the files to index
         known   |-> {},                      \* the files of the index
         parsed  |-> {},                      \* the files re-read
         led     |-> {}, edges |-> {}]        \* imports and edges, resolved

MapInit ==
    /\ tree \in [Path -> Blob \union {Gone}] /\ excluded = {}
    /\ version = 1 /\ mark = 0
    /\ file = [p \in Path |-> Gone] /\ fact = [p \in Path |-> {}]
    /\ target = {} /\ implied = {} /\ cache = {}
    /\ job = [r \in Process |-> Idle]
    /\ changes = 0 /\ upgrades = 0 /\ crashes = 0 /\ torn = FALSE

-----------------------------------------------------------------------------
(* The world moves: a commit, an edit of `exclude:', a new build.  A build *)
(* is installed while no refresh runs.                                     *)

(* Nobody's refresh saw the world as it now is.                            *)
Disturbed(J) == [r \in Process |-> IF J[r].at = "idle" THEN J[r]
                                   ELSE [J[r] EXCEPT !.alone = FALSE]]

Change ==
    /\ changes < MaxChanges /\ changes' = changes + 1
    /\ \/ \E p \in Path, b \in Blob \union {Gone} :
              b # tree[p] /\ tree' = [tree EXCEPT ![p] = b] /\ UNCHANGED excluded
       \/ \E p \in Path : /\ excluded' = (excluded \ {p}) \union ({p} \ excluded)
                          /\ UNCHANGED tree
    /\ job' = Disturbed(job)
    /\ UNCHANGED <<version, store, upgrades, crashes, torn>>

Upgrade ==
    /\ upgrades < MaxUpgrades /\ upgrades' = upgrades + 1
    /\ \A r \in Process : job[r].at = "idle"
    /\ version' = version + 1
    /\ UNCHANGED <<tree, excluded, store, job, changes, crashes, torn>>

-----------------------------------------------------------------------------
(* The refresh.                                                            *)

(* A step of one process disturbs the others' refreshes.                   *)
Goto(r, j) == job' = [Disturbed(job) EXCEPT ![r] = j]

At(r, at) == job[r].at = at
To(r, at) == Goto(r, [job[r] EXCEPT !.at = at])

Begin_NeedsMark(r) ==   \* mutant: without a mark there is no map to refresh
    /\ At(r, "idle")
    /\ Goto(r, [Idle EXCEPT !.at = CASE mark = 0 -> "done"
                                  [] mark = version -> "list"
                                  [] OTHER -> "drop",
                            !.alone = \A q \in Process : job[q].at = "idle"])
    /\ UNCHANGED <<world, store, budget>>

Begin(r) ==
    /\ At(r, "idle")
    /\ Goto(r, [Idle EXCEPT !.at = IF mark = version THEN "list" ELSE "drop",
                            !.alone = \A q \in Process : job[q].at = "idle"])
    /\ UNCHANGED <<world, store, budget>>

(* invalidate_code_map: remove_code_root empties one table after another,  *)
(* the files first; then the cache goes, and the watermark moves last.     *)
Overlapped(r) == ~job[r].alone \/ \E q \in Process \ {r} : ~At(q, "idle")

DropFiles(r) ==
    /\ At(r, "drop") /\ To(r, "drop rows")
    /\ file' = [p \in Path |-> Gone]
    /\ torn' = (torn \/ Overlapped(r))
    /\ UNCHANGED <<world, fact, target, implied, cache, mark, changes, upgrades, crashes>>

DropRows(r) ==
    /\ At(r, "drop rows") /\ To(r, "drop cache")
    /\ fact' = [p \in Path |-> {}] /\ target' = {} /\ implied' = {}
    /\ torn' = (torn \/ Overlapped(r))
    /\ UNCHANGED <<world, file, cache, mark, changes, upgrades, crashes>>

DropCache(r) ==
    /\ At(r, "drop cache") /\ To(r, "stamp")
    /\ cache' = {}
    /\ UNCHANGED <<world, file, fact, target, implied, mark, budget>>

Stamp(r) ==
    /\ At(r, "stamp") /\ To(r, "list")
    /\ mark' = version
    /\ UNCHANGED <<world, file, fact, target, implied, cache, budget>>

ListFiles(r) ==
    /\ At(r, "list")
    /\ Goto(r, [job[r] EXCEPT !.at = "read", !.listed = tree,
                  !.covered = {p \in Path \ excluded : tree[p] # Gone}])
    /\ UNCHANGED <<world, store, budget>>

(* The files whose blob is not the indexed one are read, from the cache if *)
(* it knows the blob.                                                      *)
FactsOf(blob) ==
    IF \E c \in cache : c.blob = blob THEN {c \in cache : c.blob = blob}
    ELSE {[blob |-> blob, by |-> version]}

ReadChanged(r) ==
    /\ At(r, "read")
    /\ LET j == job[r]
           changed == {p \in j.covered : file[p] # j.listed[p]}
       IN  Goto(r, [j EXCEPT !.at = "keep",
                      !.known = {p \in Path : file[p] # Gone},
                      !.parsed = UNION {{[path |-> p, row |-> f] : f \in FactsOf(j.listed[p])} :
                                           p \in changed}])
    /\ UNCHANGED <<world, store, budget>>

(* store_facts: what was parsed is remembered.                             *)
Keep(r) ==
    /\ At(r, "keep") /\ To(r, "write")
    /\ LET rows == {f.row : f \in job[r].parsed}
       IN  cache' = rows \union {c \in cache : \A f \in rows : f.blob # c.blob}
    /\ UNCHANGED <<world, file, fact, target, implied, mark, budget>>

(* One file of the index that HEAD has no longer, or covers no longer.     *)
RemoveFile(r, p) ==
    /\ At(r, "write")
    /\ p \in job[r].known \ job[r].covered
    /\ Goto(r, [job[r] EXCEPT !.known = @ \ {p}])
    /\ file' = [file EXCEPT ![p] = Gone] /\ fact' = [fact EXCEPT ![p] = {}]
    /\ target' = {t \in target : t.path # p}
    /\ implied' = {e \in implied : e.path # p}
    /\ UNCHANGED <<world, cache, mark, budget>>

(* replace_code_file: its imports are stored unresolved.                   *)
Replace(r, f) ==
    /\ At(r, "write") /\ job[r].known \subseteq job[r].covered
    /\ f \in job[r].parsed
    /\ Goto(r, [job[r] EXCEPT !.parsed = @ \ {f}])
    /\ file' = [file EXCEPT ![f.path] = f.row.blob]
    /\ fact' = [fact EXCEPT ![f.path] = {f.row}]
    /\ target' = {t \in target : t.path # f.path}
                   \union {[path |-> f.path, import |-> i, to |-> Gone] :
                              i \in Imports(f.row.blob)}
    /\ implied' = {e \in implied : e.path # f.path}
    /\ UNCHANGED <<world, cache, mark, budget>>

(* prune_blob_cache: over its size, the cache forgets blobs no file holds. *)
Prune(r) ==
    /\ At(r, "write") /\ job[r].parsed = {} /\ job[r].known \subseteq job[r].covered
    /\ To(r, "resolve")
    /\ \E gone \in SUBSET {c \in cache : \A p \in Path : file[p] # c.blob} :
           cache' = cache \ gone
    /\ UNCHANGED <<world, file, fact, target, implied, mark, budget>>

(* Where an import leads: to a file of the listing, or to the file that    *)
(* declares the name.                                                      *)
Declarers(F, n) == {p \in Path : F[p] # Gone /\ n \in Says[F[p]].declares}
LeadsTo(listed, F, import) ==
    IF import[1] = "file" THEN {q \in {import[2]} : listed[q] # Gone}
    ELSE Declarers(F, import[2])
Resolved(listed, F, import) ==
    IF LeadsTo(listed, F, import) = {} THEN {Gone} ELSE LeadsTo(listed, F, import)
SameImport(s, t) == s.path = t.path /\ s.import = t.import

(* implied_imports: a name used in a file leads to the other file that     *)
(* declares it.                                                            *)
Inferred(F) ==
    {e \in [path : Path, to : Path] :
        /\ e.path # e.to /\ F[e.path] # Gone
        /\ \E n \in Says[F[e.path]].uses : e.to \in Declarers(F, n)}

(* Every stored import is resolved again, against the files listed and the *)
(* declarations the index holds.                                           *)
Resolve(r) ==
    /\ At(r, "resolve")
    /\ Goto(r, [job[r] EXCEPT !.at = "point",
                  !.led = {a \in Arrow :
                              /\ file[a.path] # Gone /\ \E t \in target : SameImport(a, t)
                              /\ a.to \in Resolved(job[r].listed, file, a.import)},
                  !.edges = Inferred(file)])
    /\ UNCHANGED <<world, store, budget>>

(* set_code_import_targets: the rows that are still there.                 *)
Point(r) ==
    /\ At(r, "point") /\ To(r, "infer")
    /\ LET led == {s \in job[r].led : \E t \in target : SameImport(s, t)}
       IN  target' = led \union {t \in target : \A s \in led : ~SameImport(s, t)}
    /\ UNCHANGED <<world, file, fact, implied, cache, mark, budget>>

Infer(r) ==
    /\ At(r, "infer") /\ Goto(r, [job[r] EXCEPT !.at = "done"])
    /\ implied' = job[r].edges
    /\ UNCHANGED <<world, file, fact, target, cache, mark, budget>>

End(r) ==
    /\ At(r, "done") /\ job' = [job EXCEPT ![r] = Idle]
    /\ UNCHANGED <<world, store, budget>>

Crash(r) ==
    /\ ~At(r, "idle") /\ crashes < MaxCrashes /\ crashes' = crashes + 1
    /\ job' = [job EXCEPT ![r] = Idle]
    /\ UNCHANGED <<world, store, changes, upgrades, torn>>

MapNext ==
    \/ Change \/ Upgrade
    \/ \E r \in Process :
         \/ Begin(r) \/ DropFiles(r) \/ DropRows(r) \/ DropCache(r) \/ Stamp(r)
         \/ ListFiles(r) \/ ReadChanged(r) \/ Keep(r)
         \/ \E p \in Path : RemoveFile(r, p)
         \/ \E f \in job[r].parsed : Replace(r, f)
         \/ Prune(r) \/ Resolve(r) \/ Point(r) \/ Infer(r) \/ End(r) \/ Crash(r)

MapSpec == MapInit /\ [][MapNext]_mapVars

-----------------------------------------------------------------------------
(* What a rebuild from nothing would hold.                                 *)
Mapped == [p \in Path |-> IF p \in excluded THEN Gone ELSE tree[p]]

Resolutions(F) ==
    {a \in Arrow : /\ F[a.path] # Gone /\ a.import \in Imports(F[a.path])
                   /\ a.to \in Resolved(tree, F, a.import)}

Unambiguous == \A n \in Name : Cardinality(Declarers(Mapped, n)) <= 1

(* Whatever crashes, overlapping refreshes and older builds left behind,   *)
(* one refresh that runs alone to its end leaves exactly what a rebuild    *)
(* from nothing gives, as long as no two files declare one name and no     *)
(* process emptied the tables under another's refresh.                     *)
RefreshIsARebuild ==
    \A r \in Process :
        (At(r, "done") /\ job[r].alone /\ Unambiguous /\ ~torn) =>
            /\ file = Mapped
            /\ \A p \in Path : file[p] # Gone => fact[p] = {[blob |-> tree[p], by |-> version]}
            /\ {t \in target : file[t.path] # Gone} = Resolutions(Mapped)
            /\ implied = Inferred(Mapped)
=============================================================================
