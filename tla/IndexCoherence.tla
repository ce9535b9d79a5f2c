--------------------------- MODULE IndexCoherence ---------------------------
(***************************************************************************)
(* The SQLite index every DIT process shares, and how it follows HEAD.     *)
(*                                                                         *)
(* Git is the source of truth.  A write made through DIT commits under the *)
(* workspace lock and then absorbs its own commit into the index, file by  *)
(* file, moving two watermarks last.  Opening a workspace, a hub's file    *)
(* watcher, `dit reindex' and `dit sync' rebuild the index from HEAD, and  *)
(* take no lock at all.  A person's own `git commit' tells nobody.         *)
(*                                                                         *)
(* Code: dit-core/src/lib.rs (open, refresh_state, transaction,            *)
(* absorb_commit, reindex, sync), dit-core/src/watch.rs,                   *)
(* dit-index/src/lib.rs (wipe, watermarks, record_field_events).           *)
(*                                                                         *)
(* A commit is its position in the history, a file's version the commit    *)
(* that last wrote it.  Each git call and each SQLite transaction is one   *)
(* step: between two of them any other process may run.                    *)
(***************************************************************************)
EXTENDS Naturals, Sequences

CONSTANTS
    Process,      \* processes that open the workspace
    Hub,          \* those that stay open and watch the repository
    Issue,        \* the issue files
    Command,      \* what a process is asked to do, a subset of Commands
    Free,         \* nobody holds the workspace lock
    MaxCommits,   \* bound: length of the history
    Indexed,      \* TRUE: `dit reindex' has run; FALSE: a fresh clone
    MaxRaw,       \* bound: commits people make by hand
    MaxPulls,     \* bound: commits `dit sync' pulls
    MaxFaults,    \* bound: failing git calls or SQLite transactions
    MaxCrashes    \* bound: processes that die at work

Commands == {"write", "state", "events", "all", "sync"}

ASSUME HubsAreProcesses == Hub \subseteq Process /\ Free \notin Process
ASSUME CommandsAreKnown == Command \subseteq Commands /\ Indexed \in BOOLEAN
ASSUME BoundsAreNat     == /\ MaxCommits \in Nat \ {0} /\ MaxRaw \in Nat /\ MaxPulls \in Nat
                           /\ MaxFaults \in Nat        /\ MaxCrashes \in Nat

Gone    == 0                       \* no such file at that commit, or no row
Version == 0..MaxCommits
Tree    == [Issue -> Version]

VARIABLES
    history,    \* the commits: each the tree it holds
    lock,       \* who holds the workspace lock
    rows,       \* the index: which version of each issue it shows
    stateMark,  \* the `state' watermark (0: none)
    eventMark,  \* the `events' watermark (0: none)
    recorded,   \* the commits whose field events are in the index
    job,        \* what each process is doing
    watch,      \* the watcher of each hub
    raw, pulls, faults, crashes

index  == <<rows, stateMark, eventMark, recorded>>
budget == <<raw, pulls, faults, crashes>>
vars   == <<history, lock, index, job, watch, budget>>

HEAD    == Len(history)
Empty   == [i \in Issue |-> Gone]
At(c)   == IF c = 0 THEN Empty ELSE history[c]

Steps == {"closed", "idle", "staged", "absorb", "pull", "capture", "wipe", "list",
          "read", "upsert", "mark", "outer", "walk", "seal"}
Modes == {"open", "watch"} \cup Commands

Job == [at    : Steps,
        mode  : Modes,
        outer : Version,           \* refresh_state's own reading of HEAD
        from  : Version,           \* a write's prev_head
        head  : Version,           \* the commit absorbed, or reindex's HEAD
        todo  : SUBSET Issue,      \* files still to bring into the index
        held  : SUBSET (Issue \X Version)]  \* the file read, not yet upserted

Watch == [at    : {"off", "quiet", "refresh", "send"},
          seen  : Version,         \* seen_head, in the watcher's memory
          armed : BOOLEAN,         \* a file event is waiting
          told  : Version]         \* ghost: HEAD when the last signal went out

Closed   == [at |-> "closed", mode |-> "open", outer |-> 0, from |-> 0,
             head |-> 0, todo |-> {}, held |-> {}]
NoWatch  == [at |-> "off", seen |-> 0, armed |-> FALSE, told |-> 0]

TypeOK ==
    /\ history \in Seq(Tree) /\ HEAD \in 1..MaxCommits
    /\ lock \in Process \cup {Free}
    /\ rows \in Tree
    /\ stateMark \in 0..HEAD /\ eventMark \in 0..HEAD
    /\ recorded \subseteq 1..HEAD
    /\ job \in [Process -> Job]
    /\ watch \in [Hub -> Watch]
    /\ raw \in 0..MaxRaw       /\ pulls \in 0..MaxPulls
    /\ faults \in 0..MaxFaults /\ crashes \in 0..MaxCrashes

-----------------------------------------------------------------------------
(* One commit, and an index that shows it, or a fresh clone without one.   *)

Init ==
    /\ history = << [i \in Issue |-> 1] >>
    /\ lock = Free
    /\ IF Indexed THEN rows = At(1) /\ stateMark = 1 /\ eventMark = 1 /\ recorded = {1}
                  ELSE rows = Empty /\ stateMark = 0 /\ eventMark = 0 /\ recorded = {}
    /\ job = [p \in Process |-> Closed]
    /\ watch = [p \in Hub |-> NoWatch]
    /\ raw = 0 /\ pulls = 0 /\ faults = 0 /\ crashes = 0

Goto(p, l) == job' = [job EXCEPT ![p].at = l]

(* A job is over: the mutex around Dit is free again, and a watcher that   *)
(* asked for a refresh goes on to send its signal, refreshed or not.       *)
Rest(p) == [Closed EXCEPT !.at = "idle"]

Finish(p) ==
    /\ job' = [job EXCEPT ![p] = Rest(p)]
    /\ lock' = IF lock = p THEN Free ELSE lock
    /\ watch' = IF job[p].mode = "watch" THEN [watch EXCEPT ![p].at = "send"] ELSE watch

(* A commit writes and deletes files.  Every watcher sees .git/refs move.  *)
Commits == {tree \in Tree : \A i \in Issue : tree[i] \in {At(HEAD)[i], HEAD + 1, Gone}}
               \ {At(HEAD)}

Commit(tree) ==
    /\ HEAD < MaxCommits
    /\ history' = Append(history, tree)
    /\ watch' = [p \in Hub |-> [watch[p] EXCEPT !.armed = watch[p].at # "off"]]

-----------------------------------------------------------------------------
(* Dit::refresh_state: nothing when the mark is HEAD, else a state rebuild.*)

Refresh(p, mode) ==
    IF stateMark = HEAD
    THEN /\ job' = [job EXCEPT ![p] = Rest(p)]
         /\ watch' = IF mode = "watch" THEN [watch EXCEPT ![p].at = "send"] ELSE watch
    ELSE /\ job' = [job EXCEPT ![p] = [Rest(p) EXCEPT !.at = "capture", !.mode = mode,
                                                      !.outer = HEAD]]
         /\ UNCHANGED watch

(* Dit::open refreshes before the first read.                              *)
Open(p) ==
    /\ job[p].at = "closed"
    /\ Refresh(p, "open")
    /\ UNCHANGED <<history, lock, index, budget>>

(* A command line process exits; a hub stays.                              *)
Close(p) ==
    /\ job[p].at = "idle" /\ p \notin Hub
    /\ job' = [job EXCEPT ![p] = Closed]
    /\ UNCHANGED <<history, lock, index, watch, budget>>

-----------------------------------------------------------------------------
(* A write.  The lock is held from here until the commit is absorbed.      *)

Begin_NoLock(p) ==
    /\ job[p].at = "idle" /\ "write" \in Command
    /\ job' = [job EXCEPT ![p] = [Rest(p) EXCEPT !.at = "staged", !.mode = "write",
                                                 !.from = HEAD]]
    /\ UNCHANGED <<history, lock, index, watch, budget>>

Begin(p) ==
    /\ job[p].at = "idle" /\ "write" \in Command
    /\ lock = Free /\ lock' = p
    /\ job' = [job EXCEPT ![p] = [Rest(p) EXCEPT !.at = "staged", !.mode = "write",
                                                 !.from = HEAD]]
    /\ UNCHANGED <<history, index, watch, budget>>

CommitWrite(p) ==
    /\ job[p].at = "staged"
    /\ \E tree \in Commits :
         /\ Commit(tree)
         /\ job' = [job EXCEPT ![p].at = "absorb", ![p].head = HEAD + 1,
                      ![p].todo = {i \in Issue : At(job[p].from)[i] # tree[i]}]
    /\ UNCHANGED <<lock, index, budget>>

(* Nothing staged, or git had nothing to commit: the index stays as it is. *)
EmptyWrite(p) ==
    /\ job[p].at = "staged"
    /\ Finish(p)
    /\ UNCHANGED <<history, index, budget>>

(* absorb_commit: each file the diff prev_head..head names, as it is at    *)
(* `head'; a deleted one leaves the index.                                 *)
AbsorbFile(p) ==
    /\ job[p].at = "absorb"
    /\ \E i \in job[p].todo :
         /\ rows' = [rows EXCEPT ![i] = At(job[p].head)[i]]
         /\ job' = [job EXCEPT ![p].todo = @ \ {i}]
    /\ UNCHANGED <<history, lock, stateMark, eventMark, recorded, watch, budget>>

Absorbed(p) ==
    /\ job[p].at = "absorb" /\ job[p].todo = {}
    /\ Goto(p, "walk")
    /\ UNCHANGED <<history, lock, index, watch, budget>>

(* walk_field_events and record_field_events: a write walks prev_head..HEAD*)
(* and `reindex' whatever lies past the events watermark.                  *)
WalkedFrom(p) == IF job[p].mode = "write" THEN job[p].from ELSE eventMark

RecordEvents(p) ==
    /\ job[p].at = "walk"
    /\ recorded' = recorded \cup (WalkedFrom(p) + 1)..HEAD
    /\ Goto(p, "seal")
    /\ UNCHANGED <<history, lock, rows, stateMark, eventMark, watch, budget>>

(* The events watermark, after which a reindex is done ...                 *)
SealEvents(p) ==
    /\ job[p].at = "seal"
    /\ eventMark' = job[p].head
    /\ IF job[p].mode = "write" THEN Goto(p, "mark") /\ UNCHANGED <<lock, watch>> ELSE Finish(p)
    /\ UNCHANGED <<history, rows, stateMark, recorded, budget>>

(* ... and the state watermark, after which a write is.                    *)
AfterMark(p) ==
    CASE job[p].mode \in {"open", "watch"} -> Goto(p, "outer") /\ UNCHANGED <<lock, watch>>
      [] job[p].mode \in {"all", "sync"}   -> Goto(p, "walk") /\ UNCHANGED <<lock, watch>>
      [] OTHER                             -> Finish(p)

MarkState(p) ==
    /\ job[p].at = "mark"
    /\ stateMark' = job[p].head
    /\ AfterMark(p)
    /\ UNCHANGED <<history, rows, eventMark, recorded, budget>>

-----------------------------------------------------------------------------
(* Dit::reindex, without a lock.  `dit sync' gets here after a pull.       *)

Rebuild(p, mode) ==
    /\ job[p].at = "idle" /\ p \notin Hub
    /\ mode \in Command \cap {"state", "events", "all"}
    /\ job' = [job EXCEPT ![p] = [Rest(p) EXCEPT !.at = "capture", !.mode = mode]]
    /\ UNCHANGED <<history, lock, index, watch, budget>>

Pull(p) ==
    /\ job[p].at = "idle" /\ p \notin Hub /\ "sync" \in Command
    /\ pulls < MaxPulls /\ pulls' = pulls + 1
    /\ \E tree \in Commits : Commit(tree)
    /\ job' = [job EXCEPT ![p] = [Rest(p) EXCEPT !.at = "capture", !.mode = "sync"]]
    /\ UNCHANGED <<lock, index, raw, faults, crashes>>

(* The head a rebuild will leave in the watermarks is read first.          *)
Capture(p) ==
    /\ job[p].at = "capture"
    /\ job' = [job EXCEPT ![p].head = HEAD,
                          ![p].at = IF job[p].mode = "events" THEN "walk" ELSE "wipe"]
    /\ UNCHANGED <<history, lock, index, watch, budget>>

(* wipe_state clears the rows; wipe, for ReindexMode::All, everything.     *)
Wipe_KeepsMarks(p) ==
    /\ job[p].at = "wipe"
    /\ rows' = Empty
    /\ recorded' = IF job[p].mode \in {"all", "sync"} THEN {} ELSE recorded
    /\ Goto(p, "list")
    /\ UNCHANGED <<history, lock, stateMark, eventMark, watch, budget>>

Wipe(p) ==
    /\ job[p].at = "wipe"
    /\ rows' = Empty
    /\ IF job[p].mode \in {"all", "sync"}
       THEN stateMark' = 0 /\ eventMark' = 0 /\ recorded' = {}
       ELSE UNCHANGED <<stateMark, eventMark, recorded>>
    /\ Goto(p, "list")
    /\ UNCHANGED <<history, lock, watch, budget>>

(* ls-tree HEAD, then `git show HEAD:path' and an upsert for each file.    *)
ListFiles(p) ==
    /\ job[p].at = "list"
    /\ job' = [job EXCEPT ![p].at = "read", ![p].todo = {i \in Issue : At(HEAD)[i] # Gone}]
    /\ UNCHANGED <<history, lock, index, watch, budget>>

ReadFile(p) ==
    /\ job[p].at = "read"
    /\ \E i \in job[p].todo :
         IF At(HEAD)[i] = Gone                          \* deleted since the listing
         THEN job' = [job EXCEPT ![p].todo = @ \ {i}]
         ELSE job' = [job EXCEPT ![p].at = "upsert", ![p].held = {<<i, At(HEAD)[i]>>},
                                 ![p].todo = @ \ {i}]
    /\ UNCHANGED <<history, lock, index, watch, budget>>

UpsertFile(p) ==
    /\ job[p].at = "upsert"
    /\ \E f \in job[p].held : rows' = [rows EXCEPT ![f[1]] = f[2]]
    /\ job' = [job EXCEPT ![p].at = "read", ![p].held = {}]
    /\ UNCHANGED <<history, lock, stateMark, eventMark, recorded, watch, budget>>

FilesRead(p) ==
    /\ job[p].at = "read" /\ job[p].todo = {}
    /\ Goto(p, "mark")
    /\ UNCHANGED <<history, lock, index, watch, budget>>

(* refresh_state writes the mark once more, with the head it read itself.  *)
MarkOuter_ReadsHead(p) ==
    /\ job[p].at = "outer"
    /\ stateMark' = HEAD
    /\ Finish(p)
    /\ UNCHANGED <<history, rows, eventMark, recorded, budget>>

MarkOuter(p) ==
    /\ job[p].at = "outer"
    /\ stateMark' = job[p].outer
    /\ Finish(p)
    /\ UNCHANGED <<history, rows, eventMark, recorded, budget>>

-----------------------------------------------------------------------------
(* The watcher of a hub: seen_head is read when its thread starts; when a  *)
(* file event has come and HEAD is not seen_head it refreshes and signals. *)
(* Reading HEAD and the refresh take the mutex around Dit, the signal none.  *)

StartWatch(p) ==
    /\ job[p].at = "idle" /\ watch[p].at = "off"
    /\ watch' = [watch EXCEPT ![p] = [at |-> "quiet", seen |-> HEAD, armed |-> FALSE,
                                      told |-> HEAD]]
    /\ UNCHANGED <<history, lock, index, job, budget>>

Looks(p) == job[p].at = "idle" /\ watch[p].at = "quiet" /\ watch[p].armed

Look_WatermarkGate(p) ==
    /\ Looks(p)
    /\ watch' = [watch EXCEPT ![p].armed = FALSE, ![p].seen = HEAD,
                              ![p].at = IF stateMark = HEAD THEN "quiet" ELSE "refresh"]
    /\ UNCHANGED <<history, lock, index, job, budget>>

Look(p) ==
    /\ Looks(p)
    /\ watch' = [watch EXCEPT ![p].armed = FALSE, ![p].seen = HEAD,
                              ![p].at = IF watch[p].seen = HEAD THEN "quiet" ELSE "refresh"]
    /\ UNCHANGED <<history, lock, index, job, budget>>

WatchRefresh(p) ==
    /\ job[p].at = "idle" /\ watch[p].at = "refresh"
    /\ Refresh(p, "watch")
    /\ UNCHANGED <<history, lock, index, budget>>

Signal(p) ==
    /\ watch[p].at = "send"
    /\ watch' = [watch EXCEPT ![p].at = "quiet", ![p].told = HEAD]
    /\ UNCHANGED <<history, lock, index, job, budget>>

(* Any other file event: an editor saving a file in the workspace root.    *)
Touch(p) ==
    /\ watch[p].at # "off"
    /\ watch' = [watch EXCEPT ![p].armed = TRUE]
    /\ UNCHANGED <<history, lock, index, job, budget>>

-----------------------------------------------------------------------------
(* What happens to them.                                                   *)

(* A person commits by hand.                                               *)
RawCommit ==
    /\ raw < MaxRaw /\ raw' = raw + 1
    /\ \E tree \in Commits : Commit(tree)
    /\ UNCHANGED <<lock, index, job, pulls, faults, crashes>>

(* A git call or a SQLite transaction fails.  Before its commit a write is *)
(* undone; after it, the failure is only logged.  A refresh that fails is  *)
(* logged too.                                                             *)
Fail(p) ==
    /\ job[p].at \notin {"closed", "idle"}
    /\ faults < MaxFaults /\ faults' = faults + 1
    /\ Finish(p)
    /\ UNCHANGED <<history, index, raw, pulls, crashes>>

(* The process dies; a person removes its lock file, as `busy' advises.    *)
Crash(p) ==
    /\ job[p].at \notin {"closed", "idle"}
    /\ crashes < MaxCrashes /\ crashes' = crashes + 1
    /\ job' = [job EXCEPT ![p] = Closed]
    /\ lock' = IF lock = p THEN Free ELSE lock
    /\ watch' = IF p \in Hub THEN [watch EXCEPT ![p] = NoWatch] ELSE watch
    /\ UNCHANGED <<history, index, raw, pulls, faults>>

-----------------------------------------------------------------------------
Writing(p) ==
    \/ CommitWrite(p) \/ EmptyWrite(p) \/ AbsorbFile(p) \/ Absorbed(p)

Rebuilding(p) ==
    \/ Capture(p) \/ Wipe(p) \/ ListFiles(p) \/ ReadFile(p) \/ UpsertFile(p) \/ FilesRead(p)

Sealing(p) ==
    \/ RecordEvents(p) \/ SealEvents(p) \/ MarkState(p) \/ MarkOuter(p)

Working(p) == Writing(p) \/ Rebuilding(p) \/ Sealing(p)

Asked(p) ==
    \/ Open(p) \/ Close(p) \/ Begin(p) \/ Pull(p)
    \/ \E mode \in Command : Rebuild(p, mode)

Watching(p) == StartWatch(p) \/ Look(p) \/ WatchRefresh(p) \/ Signal(p)

Next ==
    \/ \E p \in Process : Asked(p) \/ Working(p) \/ Fail(p) \/ Crash(p)
    \/ \E p \in Hub : Watching(p) \/ Touch(p)
    \/ RawCommit

Spec == Init /\ [][Next]_vars

(* Two settings.  Nobody commits by hand, pulls or crashes; and processes  *)
(* take turns: one opens the workspace when the one before it has closed   *)
(* it or died.                                                             *)
Undisturbed == Next /\ UNCHANGED <<raw, pulls, crashes>>

OneIsOpen == \A p, q \in Process : job[p].at # "closed" /\ job[q].at # "closed" => p = q
InTurns   == Next /\ OneIsOpen'

(* A running job goes on; a watcher thread runs, and gets the mutex that   *)
(* finished jobs leave again and again; files keep being saved.  Nobody is *)
(* obliged to open, write or commit anything.                              *)
Fairness ==
    /\ \A p \in Process : WF_vars(Working(p))
    /\ \A p \in Hub : /\ WF_vars(StartWatch(p)) /\ WF_vars(Signal(p)) /\ WF_vars(Touch(p))
                      /\ SF_vars(Look(p)) /\ SF_vars(WatchRefresh(p))

FairSpec == Spec /\ Fairness
HubSpec  == Init /\ [][Undisturbed]_vars /\ Fairness

-----------------------------------------------------------------------------
(* Properties.                                                             *)

Quiet(p) == job[p].at \in {"closed", "idle"}

(* The promise of the state watermark: whenever it says HEAD and no process*)
(* is at work, the index shows exactly the files of HEAD.  It is all that  *)
(* refresh_state and the watcher ever look at, so rows that break it are   *)
(* served until the next full reindex.  It holds for processes that take   *)
(* turns, wherever they crash.                                             *)
MarkedRowsAreCurrent ==
    stateMark = HEAD /\ (\A p \in Process : Quiet(p)) => rows = At(HEAD)

(* The promise of the events watermark, on which `dit doctor' reports the  *)
(* index up to date: as long as no walk has failed, every commit up to it  *)
(* has its field events recorded, also while writers and rebuilds overlap. *)
MarkedHistoryIsComplete ==
    faults = 0 => \A c \in 1..eventMark : c \in recorded

(* Every commit that lands while a hub is watching is announced, whoever   *)
(* made it, even when its writer has already moved the shared watermarks   *)
(* (ADR 0017), unless the hub dies first.                                  *)
CommitsAreAnnounced ==
    \A p \in Hub : \A c \in 1..MaxCommits :
        (watch[p].at # "off" /\ watch[p].told < c /\ HEAD = c)
            ~> (watch[p].at = "off" \/ watch[p].told >= c)
=============================================================================
