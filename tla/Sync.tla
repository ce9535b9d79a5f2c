-------------------------------- MODULE Sync --------------------------------
(***************************************************************************)
(* Clones of one workspace and the remote they share.  `dit sync' fetches, *)
(* rebases the local commits onto the remote branch with the frontmatter   *)
(* merge driver (FieldMerge), pushes, and goes round again when the push   *)
(* loses a race.  A conflict stops the rebase and is left to a person.     *)
(*                                                                         *)
(* One issue file; a commit is one edit of one field.  A rebase is one     *)
(* step: git replays the commits in one command.  Git, the remote and the  *)
(* person who resolves a conflict are external.  sync takes no workspace   *)
(* lock, so a write of another process may overlap it.                     *)
(*                                                                         *)
(* Code: dit-vcs/src/sync.rs, dit-vcs/src/git.rs, dit-core/src/lib.rs.     *)
(***************************************************************************)
EXTENDS FieldMerge

CONSTANTS
    Clone,
    Prepared,     \* the clones with a merge driver configured
    Settable,     \* for each key, the values it may be set to
    Start,        \* the file in the first commit
    Network,      \* whether fetches and pushes may fail
    Overlap,      \* whether a write may overlap a sync in one clone
    MaxRetries,   \* bound of the retry loop (5 in the code)
    MaxEdits      \* bound: edits made in each clone

Doc == [Keys -> Value]

ASSUME SyncAssumption ==
    /\ Prepared \subseteq Clone /\ "person" \notin Clone
    /\ Keys # {} /\ DOMAIN Settable \subseteq Keys
    /\ \A k \in DOMAIN Settable : Settable[k] \subseteq Value
    /\ Start \in Doc
    /\ Network \in BOOLEAN /\ Overlap \in BOOLEAN
    /\ MaxRetries \in Nat /\ MaxEdits \in Nat

VARIABLES
    remote,    \* the remote branch
    track,     \* origin/main in each clone
    main,      \* the local branch
    rebase,    \* a rebase that stopped
    drafts,    \* a write that has read the file and not committed
    syncing,   \* the sync
    made       \* edits made in each clone

syncVars == <<remote, track, main, rebase, drafts, syncing, made>>

NoWork == [at |-> "none"]

(* A commit: who edited which key, what they saw there and wrote, and the  *)
(* file as they left it.                                                   *)
Edit     == [by : Clone \cup {"dit", "person"}, key : Keys, saw : Value, value : Value]
Revision == [edit : Edit, doc : Doc]

FirstCommit ==
    [edit |-> [by |-> "dit", key |-> CHOOSE k \in Keys : TRUE, saw |-> Missing,
               value |-> Missing],
     doc  |-> Start]

CheckedOut(c) == IF rebase[c] = NoWork THEN main[c] ELSE rebase[c].done

SyncTypeOK ==
    /\ \A b \in {remote} \cup {track[c] : c \in Clone} \cup {main[c] : c \in Clone} :
          b \in Seq(Revision) /\ b # <<>> /\ b[1] = FirstCommit
    /\ \A c \in Clone :
          /\ rebase[c] # NoWork => rebase[c].at = "stopped" /\ rebase[c].todo # <<>>
          /\ drafts[c].at \in {"none", "staged"}
          /\ syncing[c].at \in {"idle", "fetch", "rebase", "push"}
          /\ syncing[c].attempts \in 0..MaxRetries
          /\ syncing[c].ended \in {"none", "ok", "conflict", "unready", "dirty", "failed", "race"}
          /\ made[c] \in 0..MaxEdits

SyncInit ==
    /\ remote = <<FirstCommit>>
    /\ track = [c \in Clone |-> remote] /\ main = [c \in Clone |-> remote]
    /\ rebase = [c \in Clone |-> NoWork] /\ drafts = [c \in Clone |-> NoWork]
    /\ syncing = [c \in Clone |-> [at |-> "idle", attempts |-> 0, ended |-> "none"]]
    /\ made = [c \in Clone |-> 0]

-----------------------------------------------------------------------------
(* A write: the file is read when it is staged, and written as a whole     *)
(* when it is committed.  A file with markers in it does not parse.        *)

StageEdit(c) ==
    /\ drafts[c] = NoWork /\ made[c] < MaxEdits /\ rebase[c] = NoWork
    /\ Overlap \/ syncing[c].at = "idle"
    /\ LET doc == Last(main[c]).doc
       IN  \E k \in DOMAIN Settable : \E v \in Settable[k] \ {doc[k]} :
              drafts' = [drafts EXCEPT ![c] =
                    [at |-> "staged", doc |-> [doc EXCEPT ![k] = v],
                     edit |-> [by |-> c, key |-> k, saw |-> doc[k], value |-> v]]]
    /\ UNCHANGED <<remote, track, main, rebase, syncing, made>>

(* `git add' takes a stopped rebase's conflict for resolved.               *)
CommitEdit(c) ==
    /\ drafts[c] # NoWork
    /\ LET commit == [edit |-> drafts[c].edit, doc |-> drafts[c].doc]
       IN  IF rebase[c] = NoWork
           THEN main' = [main EXCEPT ![c] = Append(@, commit)] /\ UNCHANGED rebase
           ELSE /\ rebase' = [rebase EXCEPT ![c].done = Append(@, commit),
                                            ![c].open = FALSE]
                /\ UNCHANGED main
    /\ drafts' = [drafts EXCEPT ![c] = NoWork]
    /\ made' = [made EXCEPT ![c] = @ + 1]
    /\ UNCHANGED <<remote, track, syncing>>

-----------------------------------------------------------------------------
(* git rebase: each commit is merged onto what is there, with the file of  *)
(* its parent as the base; one that changes nothing is dropped; a conflict *)
(* stops.  In a rebase ours is upstream and theirs the replayed commit.    *)

RebaseContext == [DefaultContext EXCEPT !.local = "theirs", !.newer = "theirs"]

Pick(r, commit) ==
    LET upstream == Last(r.done).doc
        merged   == MergeDocuments(r.parent, upstream, commit.doc, RebaseContext)
    IN  IF r.open \/ ~IsClean(merged)
        THEN [r EXCEPT !.open = TRUE, !.todo = Append(@, commit)]
        ELSE [r EXCEPT !.parent = commit.doc,
                       !.done = IF merged = upstream THEN @
                                ELSE Append(@, [edit |-> commit.edit, doc |-> merged])]

Replay(onto, parent, commits) ==
    LET after[n \in 0..Len(commits)] ==
            IF n = 0 THEN [at |-> "stopped", open |-> FALSE, parent |-> parent,
                           done |-> onto, todo |-> <<>>]
            ELSE Pick(after[n - 1], commits[n])
    IN  after[Len(commits)]

Shared(a, b) == LongestCommonPrefix({a, b})
After(a, b)  == SubSeq(a, Len(Shared(a, b)) + 1, Len(a))     \* b..a

-----------------------------------------------------------------------------
(* The sync loop.                                                          *)

Goes(c, at) == syncing' = [syncing EXCEPT ![c].at = at]
Stops(c, how) == syncing' = [syncing EXCEPT ![c] = [at |-> "idle", attempts |-> 0, ended |-> how]]

StartSync(c) ==
    /\ syncing[c].at = "idle" /\ (Overlap \/ drafts[c] = NoWork)
    /\ syncing' = [syncing EXCEPT ![c] = [at |-> "fetch", attempts |-> 0, ended |-> "none"]]
    /\ UNCHANGED <<remote, track, main, rebase, drafts, made>>

Fetch(c) ==
    /\ syncing[c].at = "fetch"
    /\ track' = [track EXCEPT ![c] = remote]
    /\ Goes(c, "rebase")
    /\ UNCHANGED <<remote, main, rebase, drafts, made>>

FetchFails(c) ==
    /\ Network /\ syncing[c].at = "fetch"
    /\ Stops(c, "failed")
    /\ UNCHANGED <<remote, track, main, rebase, drafts, made>>

Behind(c) == After(track[c], CheckedOut(c)) # <<>>

NothingNew(c) ==
    /\ syncing[c].at = "rebase" /\ ~Behind(c)
    /\ Goes(c, "push")
    /\ UNCHANGED <<remote, track, main, rebase, drafts, made>>

Refuse(c) ==
    /\ syncing[c].at = "rebase" /\ Behind(c)
    /\ c \notin Prepared \/ rebase[c] # NoWork
    /\ Stops(c, IF c \notin Prepared THEN "unready" ELSE "dirty")
    /\ UNCHANGED <<remote, track, main, rebase, drafts, made>>

(* The mutant throws the local commits away, as `git reset' would.         *)
Rebase_Reset(c) ==
    /\ syncing[c].at = "rebase" /\ Behind(c) /\ c \in Prepared /\ rebase[c] = NoWork
    /\ main' = [main EXCEPT ![c] = track[c]]
    /\ Goes(c, "push") /\ UNCHANGED rebase
    /\ UNCHANGED <<remote, track, drafts, made>>

Rebase(c) ==
    /\ syncing[c].at = "rebase" /\ Behind(c) /\ c \in Prepared /\ rebase[c] = NoWork
    /\ LET shared == Shared(main[c], track[c])
           r == Replay(track[c], Last(shared).doc, After(main[c], track[c]))
       IN  IF r.open
           THEN /\ rebase' = [rebase EXCEPT ![c] = r]
                /\ Stops(c, "conflict") /\ UNCHANGED main
           ELSE /\ main' = [main EXCEPT ![c] = r.done]
                /\ Goes(c, "push") /\ UNCHANGED rebase
    /\ UNCHANGED <<remote, track, drafts, made>>

FastForward(c) == IsPrefix(remote, main[c])
ToPush(c) == After(CheckedOut(c), track[c]) # <<>>

(* The branch is pushed, not HEAD, and never with --force.                 *)
Push(c) ==
    /\ syncing[c].at = "push" /\ FastForward(c)
    /\ remote' = main[c]
    /\ track' = [track EXCEPT ![c] = main[c]]
    /\ Stops(c, "ok")
    /\ UNCHANGED <<main, rebase, drafts, made>>

(* Any error of the push counts as a lost race.                            *)
Again_Uncounted(c) == IF ToPush(c) THEN Goes(c, "fetch") ELSE Stops(c, "race")

Again(c) ==
    IF syncing[c].attempts < MaxRetries /\ ToPush(c)
    THEN syncing' = [syncing EXCEPT ![c].at = "fetch", ![c].attempts = @ + 1]
    ELSE Stops(c, IF syncing[c].attempts < MaxRetries THEN "race" ELSE "failed")

PushFails(c) ==
    /\ syncing[c].at = "push" /\ (Network \/ ~FastForward(c))
    /\ Again(c)
    /\ UNCHANGED <<remote, track, main, rebase, drafts, made>>

(* The remote took it and the answer was lost.                             *)
PushUnanswered(c) ==
    /\ syncing[c].at = "push" /\ Network /\ FastForward(c)
    /\ remote' = main[c]
    /\ Again(c)
    /\ UNCHANGED <<track, main, rebase, drafts, made>>

-----------------------------------------------------------------------------
(* A person settles the conflicted commit and continues, or aborts.        *)

Settle(c) ==
    /\ syncing[c].at = "idle" /\ rebase[c] # NoWork /\ rebase[c].open /\ drafts[c] = NoWork
    /\ LET r == rebase[c]
           commit == r.todo[1]
           ours == Last(r.done).doc
           Taken == {[k \in Keys |->
                        LET m == MergeField(k, r.parent[k], ours[k], commit.doc[k], RebaseContext)
                        IN  IF m = Marked THEN side[k] ELSE m] : side \in {ours, commit.doc}}
       IN  \E doc \in Taken :
              rebase' = [rebase EXCEPT ![c] =
                 [r EXCEPT !.open = FALSE, !.parent = commit.doc,
                           !.done = IF doc = ours THEN @
                                    ELSE Append(@, [edit |-> [commit.edit EXCEPT !.by = "person"],
                                                    doc |-> doc])]]
    /\ UNCHANGED <<remote, track, main, drafts, syncing, made>>

Continue(c) ==
    /\ syncing[c].at = "idle" /\ rebase[c] # NoWork /\ ~rebase[c].open /\ drafts[c] = NoWork
    /\ LET r == Replay(rebase[c].done, rebase[c].parent, Tail(rebase[c].todo))
       IN  IF r.open
           THEN rebase' = [rebase EXCEPT ![c] = r] /\ UNCHANGED main
           ELSE /\ rebase' = [rebase EXCEPT ![c] = NoWork]
                /\ main' = [main EXCEPT ![c] = r.done]
    /\ UNCHANGED <<remote, track, drafts, syncing, made>>

AbortRebase(c) ==
    /\ syncing[c].at = "idle" /\ rebase[c] # NoWork /\ drafts[c] = NoWork
    /\ rebase' = [rebase EXCEPT ![c] = NoWork]
    /\ UNCHANGED <<remote, track, main, drafts, syncing, made>>

SyncStep(c) ==
    \/ Fetch(c) \/ FetchFails(c) \/ NothingNew(c) \/ Refuse(c) \/ Rebase(c)
    \/ Push(c) \/ PushFails(c) \/ PushUnanswered(c)

SyncNext ==
    \E c \in Clone :
       \/ StageEdit(c) \/ CommitEdit(c) \/ StartSync(c) \/ SyncStep(c)
       \/ Settle(c) \/ Continue(c) \/ AbortRebase(c)

SyncSpec == SyncInit /\ [][SyncNext]_syncVars

(* A sync that was started is one process that runs to its end.            *)
SyncFairSpec == SyncSpec /\ \A c \in Clone : WF_syncVars(SyncStep(c))

-----------------------------------------------------------------------------
(* PROPERTIES                                                              *)

Branches == {remote} \cup {main[c] : c \in Clone}

Items(x) == IF x.shape = "seq" THEN ToSet(x.v) ELSE {}

(* A commit touches the key it was made for and no other; its value is the *)
(* one its author wrote; and if that is a list, the commit puts in no item *)
(* and takes out none but those its author did.                            *)
DoesNothingElse(before, commit) ==
    LET e == commit.edit  was == before[e.key]  is == commit.doc[e.key]
    IN  /\ \A k \in Keys \ {e.key} : commit.doc[k] = before[k]
        /\ IF e.value.shape # "seq" THEN is = e.value
           ELSE /\ is.shape = "seq"
                /\ Items(is) \ Items(was) \subseteq Items(e.value) \ Items(e.saw)
                /\ Items(was) \ Items(is) \subseteq Items(e.saw) \ Items(e.value)

(* ADR 0016: concurrent claims are "a fact both must see".  A claim stands *)
(* where its author saw what it replaces, or where a person put it; lists  *)
(* of claims merge as any list.                                            *)
ReplacesWhatItSaw(before, commit) ==
    LET e == commit.edit
    IN  e.key \in {"claimed_by", "claimed_at"} /\ e.value.shape # "seq"
           => before[e.key] = e.saw

(* However often a commit is replayed on top of others, on no branch does  *)
(* it take back another clone's edit of another field, nor of another item *)
(* of the same list, it settles no claim, and what does nothing to its own *)
(* field is no longer there.  (That it adds its own items is not said: of  *)
(* one that another clone added first, the replayed commit keeps nothing,  *)
(* and a later replay does not bring it back.)                             *)
ReplaysAreFaithful ==
    \A b \in Branches : \A i \in 2..Len(b) :
        LET before == b[i - 1].doc  key == b[i].edit.key
        IN  b[i].edit.by # "person" =>
               /\ DoesNothingElse(before, b[i]) /\ ReplacesWhatItSaw(before, b[i])
               /\ b[i].doc[key] # before[key]

(* What an edit does to its parent: a list gains and loses what the edit   *)
(* added and removed, a scalar gets the edit's value.                      *)
Does(e, before, after) ==
    IF e.value.shape = "seq" /\ e.saw.shape = "seq"
    THEN ToSet(after.v) = (ToSet(before.v) \ (ToSet(e.saw.v) \ ToSet(e.value.v)))
                          \cup (ToSet(e.value.v) \ ToSet(e.saw.v))
    ELSE after = e.value

(* A commit that was made is on the branch, waits in a stopped rebase, or  *)
(* did nothing any more where it was replayed: a step that takes a commit  *)
(* off the branch is a replay whose result has its edit's effect.          *)
NoCommitIsDropped ==
    [][\A c \in Clone :
         \A i \in DOMAIN main[c] :
            LET e == main[c][i].edit
            IN  main'[c] # main[c] /\ e.by = c /\ rebase[c] = NoWork =>
                   \/ \E j \in DOMAIN main'[c] : main'[c][j].edit = e
                   \/ \E j \in DOMAIN main'[c] :
                        Does(e, main'[c][j].doc[e.key], main'[c][j].doc[e.key])]_syncVars

(* A sync ends: with a remote that never answers it gives up.              *)
SyncEnds == \A c \in Clone : syncing[c].at # "idle" ~> syncing[c].at = "idle"
=============================================================================
