---------------------------- MODULE FieldHistory ----------------------------
(***************************************************************************)
(* The field history: what the index keeps of every past change, and the   *)
(* boards of the past it is asked for.                                     *)
(*                                                                         *)
(* A walk (dit-vcs/src/history.rs) lists the commits of watermark..HEAD,   *)
(* parents before children, compares each with every one of its parents    *)
(* and notes one event per changed field; the index (dit-index/src/lib.rs) *)
(* numbers the events in the order they come and ignores one it has.       *)
(* `dit reindex' (dit-core/src/lib.rs) reads HEAD first, walks later, and  *)
(* marks the HEAD it read; commits land in between, and it can die between *)
(* any two steps.  The board as of a position is the newest status event   *)
(* of each issue up to it.                                                 *)
(*                                                                         *)
(* One field, the status, stands for all.                                  *)
(***************************************************************************)
EXTENDS Naturals, Sequences, SequencesExt, FiniteSets

CONSTANTS
    Issue, Status,
    Terminal,     \* the statuses the workflow calls done
    Gone,         \* no such file
    MaxCommits,   \* bound
    MaxRewinds,   \* bound: resets and rebases
    MaxCrashes    \* bound

(* Assumed of the constants (MCAlgorithms evaluates it).                   *)
TerminalIsStatus == Terminal \subseteq Status /\ Gone \notin Status

VARIABLES
    commit,    \* the commit graph: [parents, tree] of commits 1, 2, ...
    head,
    rows,      \* field_events, in the order of their seq
    mark,      \* the `events' watermark (0: none)
    job,       \* the reindex that runs
    rewinds, crashes,
    rewritten, \* ghost: HEAD has left a commit that was walked
    paired     \* ghost: git took a deletion and a creation for a rename

history == <<commit, head>>
index   == <<rows, mark>>
ghost   == <<rewritten, paired>>
vars    == <<history, index, job, rewinds, crashes, ghost>>

Tree  == [Issue -> Status \union {Gone}]
Empty == [i \in Issue |-> Gone]
Idle  == [at |-> "idle", seen |-> 0, events |-> <<>>]

Init ==
    /\ \E t \in Tree : commit = <<[parents |-> <<>>, tree |-> t]>>
    /\ head = 1
    /\ rows = <<>> /\ mark = 0 /\ job = Idle
    /\ rewinds = 0 /\ crashes = 0 /\ rewritten = FALSE /\ paired = FALSE

-----------------------------------------------------------------------------
(* The commit graph.                                                       *)

Commits == 1..Len(commit)
AncestorsIn(graph) ==
    LET past[c \in 1..Len(graph)] ==
            {c} \union UNION {past[p] : p \in ToSet(graph[c].parents)}
    IN  past
Past(c) == IF c = 0 THEN {} ELSE AncestorsIn(commit)[c]

CommitOn(parents, tree) ==
    /\ Len(commit) < MaxCommits
    /\ commit' = Append(commit, [parents |-> parents, tree |-> tree])

(* A write, or a person, commits on HEAD.                                  *)
Edit ==
    /\ \E t \in Tree \ {commit[head].tree} : CommitOn(<<head>>, t)
    /\ head' = Len(commit')
    /\ UNCHANGED <<index, job, rewinds, crashes, ghost>>

(* A fetch brings a commit of another line.                                *)
Fetch ==
    /\ \E c \in Commits, t \in Tree :
          /\ t # commit[c].tree
          /\ CommitOn(<<c>>, t)
    /\ UNCHANGED <<head, index, job, rewinds, crashes, ghost>>

(* A person merges: each file is one side's.                               *)
Merge ==
    /\ \E c \in Commits : \E t \in Tree :
          /\ c \notin Past(head) /\ head \notin Past(c)
          /\ \A i \in Issue : t[i] \in {commit[head].tree[i], commit[c].tree[i]}
          /\ CommitOn(<<head, c>>, t)
    /\ head' = Len(commit')
    /\ UNCHANGED <<index, job, rewinds, crashes, ghost>>

(* A reset, a checkout, a rebase, a fast-forward.                          *)
Rewind ==
    /\ rewinds < MaxRewinds /\ rewinds' = rewinds + 1
    /\ \E c \in Commits \ {head} :
          /\ head' = c
          /\ rewritten' = (rewritten \/ head \notin Past(c))
    /\ UNCHANGED <<commit, index, job, crashes, paired>>

-----------------------------------------------------------------------------
(* walk_field_events.                                                      *)

(* git log --topo-order --reverse: no commit before its parents.           *)
Orders(S) == {s \in SetToSeqs(S) :
                \A m, n \in DOMAIN s : m < n => s[n] \notin Past(s[m])}
Unwalked(since) == Past(head) \ Past(since)

(* The trees a commit is compared with: every parent's, or the empty one.  *)
Bases_First(c) == IF commit[c].parents = <<>> THEN <<0>> ELSE <<commit[c].parents[1]>>

Bases(c) == IF commit[c].parents = <<>> THEN <<0>> ELSE commit[c].parents

TreeOf(c) == IF c = 0 THEN Empty ELSE commit[c].tree

(* push_field_diff: a side without the file has no fields, and the id is   *)
(* the new side's if it has one.                                           *)
Event(i, before, after, c, base) ==
    [issue |-> i, old |-> before, new |-> after, commit |-> c, parent |-> base]
FieldDiff(i, before, after, c, base) ==
    IF before = after THEN <<>> ELSE <<Event(i, before, after, c, base)>>

Deleted(c, base) == {i \in Issue : TreeOf(base)[i] # Gone /\ TreeOf(c)[i] = Gone}
Created(c, base) == {i \in Issue : TreeOf(base)[i] = Gone /\ TreeOf(c)[i] # Gone}

(* git diff -M: a deletion and a creation may be shown as one rename.      *)
Renames(c, base) == {{}} \union {{r} : r \in Deleted(c, base) \X Created(c, base)}

DiffOne(c, base, renames) ==
    FoldSet(LAMBDA i, found :
                found \o
                (IF \E r \in renames : r[1] = i THEN <<>>
                 ELSE IF \E r \in renames : r[2] = i
                 THEN FieldDiff(i, TreeOf(base)[(CHOOSE r \in renames : r[2] = i)[1]],
                                TreeOf(c)[i], c, base)
                 ELSE FieldDiff(i, TreeOf(base)[i], TreeOf(c)[i], c, base)),
            <<>>, Issue)

(* The events of one order of the commits; renames says, per commit and    *)
(* base, which pairs git matched.                                          *)
Walked(order, renames) ==
    FlattenSeq([n \in DOMAIN order |->
        FlattenSeq([k \in DOMAIN Bases(order[n]) |->
            DiffOne(order[n], Bases(order[n])[k], renames[<<order[n], Bases(order[n])[k]>>])])])

Compared(S) == {<<c, b>> \in S \X (Commits \union {0}) : b \in ToSet(Bases(c))}

(* record_field_events: INSERT OR IGNORE on a key of commit, parent, issue *)
(* and field; kept in the order given.                                     *)
SameKey(e, f) == e.commit = f.commit /\ e.parent = f.parent /\ e.issue = f.issue
RecordInto(stored, events) ==
    FoldLeft(LAMBDA kept, e : IF \E f \in ToSet(kept) : SameKey(e, f)
                              THEN kept ELSE Append(kept, e),
             stored, events)

-----------------------------------------------------------------------------
(* reindex: wipe (all) or not (events), HEAD read first.                   *)
Begin(all) ==
    /\ job.at = "idle"
    /\ job' = [Idle EXCEPT !.at = "walk", !.seen = head]
    /\ IF all THEN rows' = <<>> /\ mark' = 0 /\ rewritten' = FALSE
              ELSE UNCHANGED <<index, rewritten>>
    /\ UNCHANGED <<history, rewinds, crashes, paired>>

Walk ==
    /\ job.at = "walk"
    /\ \E order \in Orders(Unwalked(mark)) :
       \E renames \in {f \in [Compared(Unwalked(mark)) -> UNION {Renames(p[1], p[2]) :
                                  p \in Compared(Unwalked(mark))}] :
                          \A p \in DOMAIN f : f[p] \in Renames(p[1], p[2])} :
          /\ job' = [job EXCEPT !.at = "record", !.events = Walked(order, renames)]
          /\ paired' = (paired \/ \E p \in DOMAIN renames : renames[p] # {})
    /\ UNCHANGED <<history, index, rewinds, crashes, rewritten>>

Record ==
    /\ job.at = "record" /\ job' = [job EXCEPT !.at = "mark", !.events = <<>>]
    /\ rows' = RecordInto(rows, job.events)
    /\ UNCHANGED <<history, mark, rewinds, crashes, ghost>>

Mark ==
    /\ job.at = "mark" /\ job' = Idle
    /\ mark' = job.seen
    /\ UNCHANGED <<history, rows, rewinds, crashes, ghost>>

Crash ==
    /\ job.at # "idle" /\ crashes < MaxCrashes
    /\ crashes' = crashes + 1 /\ job' = Idle
    /\ UNCHANGED <<history, index, rewinds, ghost>>

Next == \/ Edit \/ Fetch \/ Merge \/ Rewind
        \/ \E all \in BOOLEAN : Begin(all)
        \/ Walk \/ Record \/ Mark \/ Crash

-----------------------------------------------------------------------------
(* What the index answers.                                                 *)

(* status_as_of: the newest event of each issue decides; none, or a status *)
(* set to nothing, and it is not on the board.                             *)
StatusAsOf(cutoff) ==
    [i \in Issue |->
        LET upTo == {n \in 1..cutoff : rows[n].issue = i}
        IN  IF upTo = {} THEN Gone ELSE rows[CHOOSE n \in upTo : \A m \in upTo : m <= n].new]

ChangesSince(cutoff) ==
    LET after == {n \in DOMAIN rows : n > cutoff}
    IN  [touched  |-> {rows[n].issue : n \in after},
         created  |-> {i \in {rows[n].issue : n \in after} :
                          \A n \in DOMAIN rows : rows[n].issue = i => n > cutoff},
         finished |-> {rows[n].issue : n \in {n \in after : rows[n].new \in Terminal}}]

-----------------------------------------------------------------------------
(* The positions of HEAD's history that every line passes through: all     *)
(* other commits come before or after.                                     *)
Junctions == {c \in Past(head) : \A d \in Past(head) : d \in Past(c) \/ c \in Past(d)}
PositionOf(c) == Cardinality({n \in DOMAIN rows : rows[n].commit \in Past(c)})

(* Whatever order git lists the commits in, however often they are walked  *)
(* and whoever died, once HEAD is marked the board as of a commit that all *)
(* of the history passes through is that commit's tree, merges settled the *)
(* way the merge was, and the counts since then are about the issues that  *)
(* really changed: as long as no walked commit has left the history, and   *)
(* git matched no deletion with a creation.                                *)
TimeTravelIsTrue ==
    (mark = head /\ job.at = "idle" /\ ~rewritten /\ ~paired) =>
        \A c \in Junctions :
            LET at == PositionOf(c)
                held(i, S) == \E d \in S : commit[d].tree[i] # Gone
            IN  /\ StatusAsOf(at) = commit[c].tree
                /\ {i \in Issue : commit[c].tree[i] # commit[head].tree[i]}
                       \subseteq ChangesSince(at).touched
                /\ ChangesSince(at).created =
                       {i \in Issue : held(i, Past(head)) /\ ~held(i, Past(c))}
                /\ {i \in Issue : /\ commit[head].tree[i] \in Terminal
                                  /\ commit[c].tree[i] \notin Terminal}
                       \subseteq ChangesSince(at).finished
=============================================================================
