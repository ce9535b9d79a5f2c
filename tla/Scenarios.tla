----------------------------- MODULE Scenarios -----------------------------
(***************************************************************************)
(* Morse scenarios in a workspace (dit-core/src/morse.rs): fences in pages, *)
(* their rows in the index, the repository that holds the spec, and the    *)
(* proofs that readiness reads.                                            *)
(*                                                                         *)
(* A write of a page is decided on what the index and the page say, then   *)
(* published: lock, commit and absorb are one step here, the steps inside  *)
(* it being the business of WriteTransaction and IndexCoherence.  The      *)
(* absorb may fail half way, or a rebuild that began before may overwrite  *)
(* it: either is only logged, and the commit stands.                       *)
(***************************************************************************)
EXTENDS Naturals, Sequences

CONSTANTS
    Sessions,       \* calls in progress, of one process or of several
    Pages,          \* a set of numbers: reindex reads pages in their order
    Names,          \* scenario names
    Envs,           \* environments
    None,           \* no fence, no row, no session
    MaxSpec,        \* bound: commits of the repository holding the spec
    MaxCalls        \* bound: calls that begin

VARIABLES
    spec,           \* commits of the spec's repository: does each touch the document?
    pages,          \* at HEAD: the fence of each name in each page
    rows,           \* index: page and fence of each name
    judged,         \* length of spec when the row of each name was last judged
    listed,         \* names in needs_scenarios or proves of the issues a query lists
    session,        \* what each call has read and is about to write
    begun,          \* how many calls have begun
    green,          \* ghost: the green runs, with the spec each was planned on
    raced,          \* ghost: proofs whose spec was touched while the run went on
    loose,          \* ghost: names an absorb passed over, as another page's row had them
    missed          \* ghost: pages whose last commit the index does not show whole

indexed == <<pages, rows, judged, loose, missed>>
runVars == <<green, raced>>
scenarioVars == <<spec, pages, rows, judged, listed, session, begun, green, raced, loose, missed>>

Commits == 0..MaxSpec               \* 0 is the commit before the first
Unproven == [e \in Envs |-> None]
Fences == [pin : Commits, chain : 0..MaxCalls, proven : [Envs -> Commits \union {None}]]
Texts == [Names -> Fences \union {None}]
Rows == [page : Pages, fence : Fences]
Edits == {"create", "step", "rename", "delete", "sync", "save"}
Calls == [at : {"run"}, name : Names, env : Envs, planned : Commits, alone : BOOLEAN]
           \union [at : {"publish"}, op : Edits, name : Names, page : Pages,
                   text : Texts, alone : BOOLEAN]

ASSUME ScenariosAssumption ==
    /\ Pages \subseteq Nat /\ MaxSpec \in Nat /\ MaxCalls \in Nat
    /\ None \notin Commits \union Fences \union Rows \union Calls

TypeOK ==
    /\ spec \in Seq(BOOLEAN) /\ Len(spec) <= MaxSpec
    /\ pages \in [Pages -> Texts]
    /\ rows \in [Names -> Rows \union {None}]
    /\ judged \in [Names -> Commits \union {None}]
    /\ listed \subseteq Names
    /\ session \in [Sessions -> Calls \union {None}]
    /\ begun \in 0..MaxCalls
    /\ green \subseteq [env : Envs, name : Names, at : Commits]
    /\ raced \subseteq Envs \X Commits
    /\ loose \subseteq Names
    /\ missed \subseteq Pages

ScenariosInit ==
    /\ spec = <<>>
    /\ pages = [p \in Pages |-> [n \in Names |-> None]]
    /\ rows = [n \in Names |-> None]
    /\ judged = [n \in Names |-> None]
    /\ listed = {}
    /\ session = [s \in Sessions |-> None]
    /\ begun = 0
    /\ green = {} /\ raced = {} /\ loose = {} /\ missed = {}

-----------------------------------------------------------------------------
(* The index.                                                              *)

(* A page that is written loses its rows, with their proofs, and gets them *)
(* again; a name that another page holds in the index is passed over.      *)
AbsorbPage_Takes(table, p, text) ==
    [n \in Names |-> IF text[n] # None THEN [page |-> p, fence |-> text[n]] ELSE table[n]]

AbsorbPage(table, p, text) ==
    [n \in Names |->
        LET mine == table[n] # None /\ table[n].page = p
            kept == IF mine THEN None ELSE table[n]
        IN  IF text[n] # None /\ kept = None THEN [page |-> p, fence |-> text[n]] ELSE kept]

(* Reindex: the first page in order that holds a name has it.              *)
Holders(content, n) == {p \in Pages : content[p][n] # None}

First(numbers) == CHOOSE p \in numbers : \A q \in numbers : p <= q

Reindexed(content) ==
    [n \in Names |->
        IF Holders(content, n) = {} THEN None
        ELSE [page |-> First(Holders(content, n)),
              fence |-> content[First(Holders(content, n))][n]]]

(* commits_touching_since: the commits after c that touch the document.    *)
TouchedSince(c, last) == \E i \in (c + 1)..last : spec[i]

(* judge: the proof of an environment is as old as its own commit.         *)
Stale_ByPin(fence, e, last) == TouchedSince(fence.pin, last)
Stale(fence, e, last) == TouchedSince(fence.proven[e], last)

(* What readiness asks of a seam.                                          *)
Holds(n, e) ==
    /\ rows[n] # None /\ judged[n] # None
    /\ rows[n].fence.proven[e] # None
    /\ ~Stale(rows[n].fence, e, judged[n])

(* The names that more than one page holds.                                *)
Doubled(content) ==
    {n \in Names : \E p, q \in Pages : p # q /\ content[p][n] # None /\ content[q][n] # None}

(* judge_morse_scenarios: row after row, so that a failure leaves some of  *)
(* them as they were; a row of a page just read has no proofs until then.  *)
Judged(table, read, done) ==
    [n \in Names |-> IF table[n] = None THEN None
                     ELSE IF n \in done THEN Len(spec)
                     ELSE IF table[n].page \in read THEN None ELSE judged[n]]

InPages(content, n) == \E p \in Pages : content[p][n] # None

-----------------------------------------------------------------------------
(* Calls decide.  A form edits the fence the index stored and puts it in   *)
(* the page as it is now; where the row missed a commit, the form is not   *)
(* alone: it meets what the commit wrote.                                  *)

MayBegin(s) == session[s] = None /\ begun < MaxCalls

Decides(s, op, n, p, text) ==
    /\ MayBegin(s)
    /\ session' = [session EXCEPT ![s] = [at |-> "publish", op |-> op, name |-> n,
                                          page |-> p, text |-> text,
                                          alone |-> op = "step" => p \notin missed]]
    /\ begun' = begun + 1
    /\ UNCHANGED <<spec, indexed, listed, runVars>>

(* A name is refused when the index has it.  (A page that holds a fence of *)
(* the name which the index passed over is left out.)                      *)
Create(s) ==
    \E n \in Names, p \in Pages :
        /\ rows[n] = None /\ pages[p][n] = None
        /\ Decides(s, "create", n, p,
                   [pages[p] EXCEPT ![n] = [pin |-> Len(spec), chain |-> 0, proven |-> Unproven]])

Found(n) == rows[n] # None /\ pages[rows[n].page][n] # None

SavedFence_FromIndex(n) == [rows[n].fence EXCEPT !.chain = begun, !.proven = Unproven]

SavedFence(n) == [rows[n].fence EXCEPT !.chain = begun]

SaveStep(s) ==
    \E n \in Names :
        /\ Found(n)
        /\ Decides(s, "step", n, rows[n].page,
                   [pages[rows[n].page] EXCEPT ![n] = SavedFence(n)])

(* A scenario is neither renamed nor deleted while a listed issue names it: *)
(* refuse_if_named asks for the issues without a limit of its own and gets *)
(* the newest 500 of the index.                                            *)
NotNamed_WhereItHolds(n) == n \in listed => \A e \in Envs : ~Holds(n, e)

NotNamed(n) == n \notin listed

Rename(s) ==
    \E n, to \in Names :
        /\ n # to /\ rows[to] = None /\ NotNamed(n) /\ Found(n)
        /\ pages[rows[n].page][to] = None
        /\ Decides(s, "rename", n, rows[n].page,
                   [pages[rows[n].page] EXCEPT ![n] = None, ![to] = rows[n].fence])

Delete(s) ==
    \E n \in Names :
        /\ Found(n) /\ NotNamed(n)
        /\ Decides(s, "delete", n, rows[n].page, [pages[rows[n].page] EXCEPT ![n] = None])

(* A page saved in the editor: a fence written, changed or taken out.      *)
SavePage(s) ==
    \E n \in Names, p \in Pages :
        \/ /\ pages[p][n] # None
           /\ Decides(s, "save", n, p, [pages[p] EXCEPT ![n] = None])
        \/ /\ pages[p][n] = None
           /\ Decides(s, "save", n, p,
                 [pages[p] EXCEPT ![n] = [pin |-> 0, chain |-> begun, proven |-> Unproven]])

(* A sync plans on the spec at HEAD and sends the chain.  A red run leaves *)
(* everything but the last-run row as it was.                              *)
RunGreen(s) ==
    \E n \in Names, e \in Envs :
        /\ MayBegin(s) /\ rows[n] # None
        /\ session' = [session EXCEPT ![s] = [at |-> "run", name |-> n, env |-> e,
                                              planned |-> Len(spec), alone |-> TRUE]]
        /\ begun' = begun + 1
        /\ green' = green \union {[env |-> e, name |-> n, at |-> Len(spec)]}
        /\ UNCHANGED <<spec, indexed, listed, raced>>

(* Only after the run is the spec's HEAD read, and the page.               *)
Reproved(fence, e) == [fence EXCEPT !.pin = Len(spec), !.proven[e] = Len(spec)]

ReadAfterRun(s) ==
    /\ session[s] # None /\ session[s].at = "run"
    /\ LET n == session[s].name
           e == session[s].env
       IN  IF Found(n)
           THEN /\ session' = [session EXCEPT ![s] =
                        [at |-> "publish", op |-> "sync", name |-> n, page |-> rows[n].page,
                         text |-> [pages[rows[n].page] EXCEPT ![n] = Reproved(@, e)],
                         alone |-> session[s].alone]]
                /\ raced' = IF TouchedSince(session[s].planned, Len(spec))
                            THEN raced \union {<<e, Len(spec)>>} ELSE raced
           ELSE /\ session' = [session EXCEPT ![s] = None]
                /\ UNCHANGED raced
    /\ UNCHANGED <<spec, indexed, listed, begun, green>>

-----------------------------------------------------------------------------
(* Calls publish: whatever the page holds by then is replaced.             *)

Disturbs(s, calls) ==
    [t \in Sessions |-> IF t # s /\ calls[t] # None THEN [calls[t] EXCEPT !.alone = FALSE]
                        ELSE calls[t]]

Fenced(text) == {n \in Names : text[n] # None}

PassedOver(text, p) == {n \in Fenced(text) : rows'[n].page # p}

(* absorb_commit of a page.                                                *)
Absorbs(p, text) ==
    /\ rows' = AbsorbPage(rows, p, text)
    /\ judged' = Judged(rows', {p}, Names)
    /\ loose' = loose \union PassedOver(text, p)
    /\ missed' = missed \ {p}

(* Only the fences of some names, or of some pages, were read.             *)
SomeNames(text, first) == [n \in Names |-> IF n \in first THEN text[n] ELSE None]

SomePages(content, read) ==
    [p \in Pages |-> IF p \in read THEN content[p] ELSE SomeNames(content[p], {})]

(* It fails before it begins, or once the page's proofs are gone, or while *)
(* its fences are read or the rows judged; or a rebuild that had read the  *)
(* old pages puts their rows back.                                         *)
AbsorbsInPart(p, text) ==
    \/ /\ judged' \in {judged, Judged(rows, {p}, {})}
       /\ missed' = missed \union {p}
       /\ UNCHANGED <<rows, loose>>
    \/ /\ \E first \in SUBSET Fenced(text), done \in SUBSET Names :
             /\ rows' = AbsorbPage(rows, p, SomeNames(text, first))
             /\ judged' = Judged(rows', {p}, done)
             /\ done \subseteq {n \in Names : rows'[n] # None}
             /\ done # {} => first = Fenced(text)
       /\ missed' = missed \union {p}
       /\ UNCHANGED loose
    \/ /\ rows' = Reindexed(pages)
       /\ judged' = Judged(rows', Pages, Names)
       /\ loose' = Doubled(pages)
       /\ missed' = {p}

Publish(s) ==
    /\ session[s] # None /\ session[s].at = "publish"
    /\ LET p == session[s].page
           text == session[s].text
       IN  /\ pages' = [pages EXCEPT ![p] = text]
           /\ Absorbs(p, text) \/ AbsorbsInPart(p, text)
    /\ session' = Disturbs(s, [session EXCEPT ![s] = None])
    /\ UNCHANGED <<spec, listed, begun, runVars>>

(* The lock was taken, or the commit failed: the call ends.                *)
GivesUp(s) ==
    /\ session[s] # None
    /\ session' = [session EXCEPT ![s] = None]
    /\ UNCHANGED <<spec, indexed, listed, begun, runVars>>

(* A page moved in one transaction reaches the absorb as a rename: only    *)
(* the new path is read, and what the old one had stays in the index.      *)
MovePage(s) ==
    \E p, q \in Pages :
        /\ MayBegin(s) /\ p # q
        /\ \E n \in Names : pages[p][n] # None
        /\ \A n \in Names : pages[q][n] = None
        /\ pages' = [pages EXCEPT ![p] = pages[q], ![q] = pages[p]]
        /\ Absorbs(q, pages[p])
        /\ begun' = begun + 1
        /\ session' = Disturbs(s, session)
        /\ UNCHANGED <<spec, listed, runVars>>

(* A rebuild that stops leaves the pages it has not come to without rows.  *)
Reindex ==
    /\ \E read \in SUBSET Pages :
          /\ \A p \in read, q \in Pages : q < p => q \in read
          /\ rows' = Reindexed(SomePages(pages, read))
          /\ \E done \in SUBSET {n \in Names : rows'[n] # None} :
                /\ read # Pages => done = {}
                /\ judged' = Judged(rows', Pages, done)
          /\ loose' = Doubled(SomePages(pages, read))
          /\ missed' = Pages \ read
    /\ UNCHANGED <<spec, pages, listed, session, begun, runVars>>

(* An issue starts or stops naming a scenario, or newer ones push it off   *)
(* the list.                                                               *)
NameScenario(n) ==
    /\ listed' = IF n \in listed THEN listed \ {n} ELSE listed \union {n}
    /\ session' = [t \in Sessions |-> IF session[t] = None THEN None
                                      ELSE [session[t] EXCEPT !.alone = FALSE]]
    /\ UNCHANGED <<spec, indexed, begun, runVars>>

(* Somebody commits to the repository that holds the spec.                 *)
SpecMoves ==
    /\ Len(spec) < MaxSpec
    /\ \E touches \in BOOLEAN : spec' = Append(spec, touches)
    /\ UNCHANGED <<indexed, listed, session, begun, runVars>>

ScenariosNext ==
    \/ \E s \in Sessions :
          \/ Create(s) \/ SaveStep(s) \/ Rename(s) \/ Delete(s) \/ SavePage(s)
          \/ RunGreen(s) \/ ReadAfterRun(s) \/ Publish(s) \/ GivesUp(s) \/ MovePage(s)
    \/ \E n \in Names : NameScenario(n)
    \/ Reindex \/ SpecMoves

ScenariosSpec == ScenariosInit /\ [][ScenariosNext]_scenarioVars

-----------------------------------------------------------------------------
(* When readiness takes a scenario as proven in an environment, a chain    *)
(* ran green there on a spec that is, by the last judgement of its row,    *)
(* the document as it stands -- unless the document changed between the    *)
(* run and the moment its commit was read.                                 *)
HeldSeamsWereProven ==
    \A n \in Names, e \in Envs :
        Holds(n, e) =>
            \/ <<e, rows[n].fence.proven[e]>> \in raced
            \/ \E r \in green : r.env = e /\ ~TouchedSince(r.at, judged[n])

(* A rename or a delete that nothing overlaps leaves no listed issue       *)
(* naming a scenario that is nowhere, whatever the rows missed.            *)
NamedScenariosStay ==
    [][\A s \in Sessions :
          (/\ session[s] # None /\ session'[s] = None /\ pages' # pages
           /\ session[s].at = "publish" /\ session[s].op \in {"rename", "delete"}
           /\ session[s].alone)
          => \A n \in listed : InPages(pages, n) => InPages(pages', n)]_scenarioVars

(* The index has exactly the fences of the pages, as they are: of every    *)
(* page but those whose last absorb failed or was overwritten, of every    *)
(* name but those an absorb passed over.                                   *)
SettledRowsAreTheFences ==
    \A n \in Names \ loose, p \in Pages \ missed :
        pages[p][n] = IF rows[n] # None /\ rows[n].page = p THEN rows[n].fence ELSE None

(* A call that nothing overlaps loses no proof of another scenario or of   *)
(* another environment, and an edit in the form loses none at all, unless  *)
(* the row it worked from had missed a commit.                             *)
ProofsAreKept ==
    [][\A s \in Sessions :
          (/\ session[s] # None /\ session[s].at = "publish" /\ session[s].alone
           /\ session[s].op \in {"step", "sync", "create"}
           /\ session'[s] = None /\ pages' # pages)
          => LET p == session[s].page
             IN  \A n \in Names, e \in Envs :
                    (pages[p][n] # None /\ pages[p][n].proven[e] # None)
                    => /\ pages'[p][n] # None
                       /\ pages'[p][n].proven[e] # None
                       /\ pages'[p][n].proven[e] >= pages[p][n].proven[e]]_scenarioVars
=============================================================================
