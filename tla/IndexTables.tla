---------------------------- MODULE IndexTables ----------------------------
(***************************************************************************)
(* The tables of the index (dit-index/src/lib.rs) and how they follow the  *)
(* files: a write of the tool commits and then absorbs its own diff        *)
(* (dit-core/src/lib.rs, absorb_commit), row by row; `dit reindex' clears  *)
(* them and reads every file again.  Every read of the tool is answered    *)
(* from them.                                                              *)
(*                                                                         *)
(* Whether the index is brought up to date at all is IndexCoherence's      *)
(* question; this module asks what the rows say once it is.  A body is a   *)
(* version and two of the lists that side tables keep, one of those a      *)
(* rebuild clears (labels) and one of those it does not (flows); a page is *)
(* the fences in it, each naming a flow (the maps of ADR 0025 are kept     *)
(* alike).                                                                 *)
(***************************************************************************)
EXTENDS Naturals, Sequences, SequencesExt, FiniteSets

CONSTANTS
    Issue, Comment, Release, Page,
    Text,       \* the versions a body, a comment or a fence may have
    Flow,       \* the names a fence may have
    Body,       \* what an issue's file may say: [text, labels, flows]
    Plan,       \* what a release's file may include: lists of issues
    Fences,     \* what a page may hold: lists of [flow, text]
    Gone,       \* no such file, no such row
    MaxSteps    \* bound: commits

VARIABLES
    file,       \* HEAD: the issue, comment, release and page files
    row,        \* issues: the version of the body
    labels,     \* issue_labels: the members with their positions
    flows,      \* issue_flows: the same
    comment,    \* comments: the issue and the text
    release,    \* releases and release_includes
    shape,      \* flow_shapes: the page and the text
    steps,
    current,    \* ghost: no commit is missing from the tables
    contested   \* ghost: since the last rebuild two pages named one flow, or
                \* a page with fences was moved

tables == <<row, labels, flows, comment, release, shape>>
vars   == <<file, tables, steps, current, contested>>

(* Assumed of the constants (MCAlgorithms evaluates it).                   *)
FilesAreLists ==
    /\ \A b \in Body : DOMAIN b = {"text", "labels", "flows"} /\ b.text \in Text
    /\ \A p \in Plan : ToSet(p) \subseteq Issue
    /\ \A f \in Fences : ToSet(f) \subseteq [flow : Flow, text : Text]
    /\ Gone \notin Body /\ Gone \notin Plan /\ Gone \notin Fences

-----------------------------------------------------------------------------
(* The row operations.                                                     *)

(* replace_set: a member that comes twice keeps its first position.        *)
Positions(list) ==
    {[pos |-> n, member |-> list[n]] : n \in
        {n \in DOMAIN list : \A m \in 1..(n - 1) : list[m] # list[n]}}

(* One state of the tables.                                                *)
Tables == [row |-> row, labels |-> labels, flows |-> flows,
           comment |-> comment, release |-> release, shape |-> shape]

UpsertIssue(T, i, body) ==
    [T EXCEPT !.row[i]    = body.text,
              !.labels[i] = Positions(body.labels),
              !.flows[i]  = Positions(body.flows)]

(* remove_issue: the side rows and the comments with it.                   *)
RemoveIssue(T, i) ==
    [T EXCEPT !.row[i] = Gone, !.labels[i] = {}, !.flows[i] = {},
              !.comment = [c \in Comment |->
                             IF T.comment[c] # Gone /\ T.comment[c].on = i
                             THEN Gone ELSE T.comment[c]]]

(* upsert_comment: the text of a known comment, not the issue it is on.    *)
UpsertComment(T, c, on, text) ==
    [T EXCEPT !.comment[c] = IF @ = Gone THEN [on |-> on, text |-> text]
                             ELSE [@ EXCEPT !.text = text]]

UpsertRelease(T, r, plan) == [T EXCEPT !.release[r] = Positions(plan)]

(* absorb_flow_fences: the first page to name a flow keeps it; of one      *)
(* page's fences the last.                                                 *)
UpsertShape(T, page, fence) ==
    IF T.shape[fence.flow] # Gone /\ T.shape[fence.flow].page # page THEN T
    ELSE [T EXCEPT !.shape[fence.flow] = [page |-> page, text |-> fence.text]]

ClearShapesAt(T, page) ==
    [T EXCEPT !.shape = [f \in Flow |-> IF T.shape[f] # Gone /\ T.shape[f].page = page
                                        THEN Gone ELSE T.shape[f]]]

AbsorbPage(T, page, fences) ==
    FoldLeft(LAMBDA t, fence : UpsertShape(t, page, fence), T, fences)

-----------------------------------------------------------------------------
(* absorb_commit, for one line of the diff: a deletion, or a file as it is *)
(* at HEAD; git gives a rename's new path only.                            *)
AbsorbIssue(T, i, body) ==
    IF body = Gone THEN RemoveIssue(T, i) ELSE UpsertIssue(T, i, body)

AbsorbComment(T, c, said, owner) ==
    IF said = Gone THEN [T EXCEPT !.comment[c] = Gone]
    ELSE IF owner = Gone THEN T ELSE UpsertComment(T, c, said.on, said.text)


AbsorbDoc(T, page, fences) ==
    LET cleared == ClearShapesAt(T, page)
    IN  IF fences = Gone THEN cleared ELSE AbsorbPage(cleared, page, fences)

(* reindex: wipe_state, which leaves issue_flows; every issue and comment; *)
(* then the pages, in the order of their paths; then the releases.         *)
Wiped(T) ==
    [row |-> [i \in Issue |-> Gone], labels |-> [i \in Issue |-> {}], flows |-> T.flows,
     comment |-> [c \in Comment |-> Gone], release |-> [r \in Release |-> Gone],
     shape |-> [f \in Flow |-> Gone]]

There(f) == {x \in DOMAIN f : f[x] # Gone}

Rebuilt(F, T) ==
    LET issues   == FoldLeft(LAMBDA t, i : UpsertIssue(t, i, F.issue[i]),
                             Wiped(T), SetToSeq(There(F.issue)))
        said     == FoldLeft(LAMBDA t, c : AbsorbComment(t, c, F.comment[c],
                                                         F.issue[F.comment[c].on]),
                             issues, SetToSeq(There(F.comment)))
        pages    == FoldLeft(LAMBDA t, p : AbsorbPage(t, p, F.page[p]),
                             said, SetToSeq(There(F.page)))
    IN  FoldLeft(LAMBDA t, r : UpsertRelease(t, r, F.release[r]),
                 pages, SetToSeq(There(F.release)))

-----------------------------------------------------------------------------
Become(T) ==
    /\ row' = T.row /\ labels' = T.labels /\ flows' = T.flows
    /\ comment' = T.comment /\ release' = T.release /\ shape' = T.shape

Named(page, p) == IF page[p] = Gone THEN {} ELSE {fence.flow : fence \in ToSet(page[p])}
Contested(F) == \E p, q \in Page : p # q /\ Named(F.page, p) \intersect Named(F.page, q) # {}

Step == steps < MaxSteps /\ steps' = steps + 1

(* A write of the tool: F is HEAD after it, T the tables once absorbed.    *)
Write(F, T) ==
    /\ Step /\ file' = F /\ Become(T)
    /\ contested' = (contested \/ Contested(F))
    /\ UNCHANGED current

Nothing == [issue |-> [i \in Issue |-> Gone], comment |-> [c \in Comment |-> Gone],
            release |-> [r \in Release |-> Gone], page |-> [p \in Page |-> Gone]]

Init ==
    /\ file = Nothing
    /\ row = [i \in Issue |-> Gone]
    /\ labels = [i \in Issue |-> {}] /\ flows = [i \in Issue |-> {}]
    /\ comment = [c \in Comment |-> Gone] /\ release = [r \in Release |-> Gone]
    /\ shape = [f \in Flow |-> Gone]
    /\ steps = 0 /\ current = TRUE /\ contested = FALSE

(* create_issue, with an id no file knows yet; set_fields, set_body.       *)
WriteIssue(i, body) ==
    /\ \/ file.issue[i] # Gone
       \/ \A c \in Comment : file.comment[c] # Gone => file.comment[c].on # i
    /\ Write([file EXCEPT !.issue[i] = body], AbsorbIssue(Tables, i, body))

(* delete_issue takes the comments along; git lists the body first.        *)
DeleteIssue(i) ==
    /\ file.issue[i] # Gone
    /\ LET on == {c \in Comment : file.comment[c] # Gone /\ file.comment[c].on = i}
       IN  Write([file EXCEPT !.issue[i] = Gone,
                              !.comment = [c \in Comment |-> IF c \in on THEN Gone ELSE @[c]]],
                 FoldSet(LAMBDA c, t : AbsorbComment(t, c, Gone, Gone),
                         AbsorbIssue(Tables, i, Gone), on))

AddComment(c, i, text) ==
    /\ file.issue[i] # Gone /\ file.comment[c] = Gone
    /\ LET said == [on |-> i, text |-> text]
       IN  Write([file EXCEPT !.comment[c] = said],
                 AbsorbComment(Tables, c, said, file.issue[i]))

(* set_release: a plan exists before it is patched.                        *)
SetRelease(r, plan) ==
    /\ file.release[r] # Gone
    /\ Write([file EXCEPT !.release[r] = plan], UpsertRelease(Tables, r, plan))

WriteDoc(p, fences) ==
    Write([file EXCEPT !.page[p] = fences], AbsorbDoc(Tables, p, fences))

DeleteDoc(p) ==
    /\ file.page[p] # Gone
    /\ Write([file EXCEPT !.page[p] = Gone], AbsorbDoc(Tables, p, Gone))

(* move_doc: the new path alone is absorbed.                               *)
MoveDoc(p, q) ==
    /\ file.page[p] # Gone /\ file.page[q] = Gone
    /\ Step
    /\ file' = [file EXCEPT !.page[q] = file.page[p], !.page[p] = Gone]
    /\ Become(AbsorbDoc(Tables, q, file.page[p]))
    /\ contested' = (contested \/ file.page[p] # <<>>)
    /\ UNCHANGED current

(* A commit by hand, or one a sync brought: any file, the tables stay.     *)
Raw ==
    /\ Step /\ current' = FALSE
    /\ \/ \E i \in Issue, b \in Body \union {Gone} : file' = [file EXCEPT !.issue[i] = b]
       \/ \E c \in Comment, i \in Issue, t \in Text :
             file' = [file EXCEPT !.comment[c] = [on |-> i, text |-> t]]
       \/ \E r \in Release, p \in Plan \union {Gone} : file' = [file EXCEPT !.release[r] = p]
       \/ \E p \in Page, f \in Fences \union {Gone} : file' = [file EXCEPT !.page[p] = f]
    /\ UNCHANGED <<tables, contested>>

Reindex ==
    /\ Become(Rebuilt(file, Tables))
    /\ current' = TRUE /\ contested' = Contested(file)
    /\ UNCHANGED <<file, steps>>

Next ==
    \/ \E i \in Issue, b \in Body : WriteIssue(i, b)
    \/ \E i \in Issue : DeleteIssue(i)
    \/ \E c \in Comment, i \in Issue, t \in Text : AddComment(c, i, t)
    \/ \E r \in Release, p \in Plan : SetRelease(r, p)
    \/ \E p \in Page, f \in Fences : WriteDoc(p, f)
    \/ \E p \in Page : DeleteDoc(p)
    \/ \E p, q \in Page : MoveDoc(p, q)
    \/ Raw \/ Reindex

-----------------------------------------------------------------------------
(* The reads.                                                              *)

(* set_for: the members by position.                                       *)
Read(S) == LET ordered == SetToSortSeq(S, LAMBDA a, b : a.pos < b.pos)
           IN  [n \in DOMAIN ordered |-> ordered[n].member]

(* get_issue, list_issues; comments_for; releases; flow_shape.             *)
GetIssue(i) == IF row[i] = Gone THEN Gone
               ELSE [text |-> row[i], labels |-> Read(labels[i]), flows |-> Read(flows[i])]
CommentsFor(i) == {c \in Comment : comment[c] # Gone /\ comment[c].on = i}
ReadRelease(r) == IF release[r] = Gone THEN Gone ELSE Read(release[r])

(* A list as it is written, each member where it comes first.              *)
Once(list) == FoldLeft(LAMBDA kept, x : IF x \in ToSet(kept) THEN kept ELSE Append(kept, x),
                       <<>>, list)

(* Writes absorbed row by row and rebuilds, in any order, answer every     *)
(* read as the files at HEAD do: the issue with its lists in their order,  *)
(* its comments and no other's, the plans, the shape of each flow; the     *)
(* shapes as long as no two pages claimed one and none was moved.          *)
ReadsAreTheFiles ==
    current =>
        /\ \A i \in Issue :
              /\ GetIssue(i) = IF file.issue[i] = Gone THEN Gone
                               ELSE [file.issue[i] EXCEPT !.labels = Once(@), !.flows = Once(@)]
              /\ CommentsFor(i) = {c \in Comment : /\ file.comment[c] # Gone
                                                   /\ file.comment[c].on = i
                                                   /\ file.issue[i] # Gone}
        /\ \A c \in Comment : comment[c] # Gone => comment[c].text = file.comment[c].text
        /\ \A r \in Release : ReadRelease(r) = IF file.release[r] = Gone THEN Gone
                                               ELSE Once(file.release[r])
        /\ ~contested =>
              \A f \in Flow :
                 LET pages == {p \in Page : f \in Named(file.page, p)}
                 IN  IF pages = {} THEN shape[f] = Gone
                     ELSE \E p \in pages :
                            /\ shape[f].page = p
                            /\ shape[f].text =
                                 LET at == {n \in DOMAIN file.page[p] : file.page[p][n].flow = f}
                                 IN  file.page[p][CHOOSE n \in at : \A m \in at : m <= n].text
=============================================================================
