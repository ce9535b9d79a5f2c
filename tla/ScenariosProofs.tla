--------------------------- MODULE ScenariosProofs ---------------------------
(***************************************************************************)
(* What holds of Morse scenarios, their rows and their proofs for any      *)
(* number of calls, pages, names, environments and commits of the spec.    *)
(***************************************************************************)
EXTENDS Scenarios, WellFoundedInduction, TLAPS

-----------------------------------------------------------------------------
(* The invariant.  Its parts are stated of any values, so that a step can  *)
(* be taken from the old ones to the new.                                  *)

Touched(commits, c, last) == \E i \in (c + 1)..last : commits[i]

(* A proof in a fence is the commit read after a green run, whose plan was *)
(* made on the same document unless the run was raced.                     *)
Vouched(fence, commits, runs, races) ==
    \A e \in Envs : fence.proven[e] # None =>
        /\ fence.proven[e] <= Len(commits)
        /\ \/ <<e, fence.proven[e]>> \in races
           \/ \E r \in runs : r.env = e /\ ~Touched(commits, r.at, fence.proven[e])

AllVouched(text, commits, runs, races) ==
    \A n \in Names : text[n] # None => Vouched(text[n], commits, runs, races)

(* A page and what will be written over it: named fences and proofs stay.  *)
KeepsNamed(old, new, names) == \A n \in names : old[n] # None => new[n] # None

KeepsProofs(old, new) ==
    \A n \in Names, e \in Envs :
        (old[n] # None /\ old[n].proven[e] # None)
        => /\ new[n] # None /\ new[n].proven[e] # None
           /\ new[n].proven[e] >= old[n].proven[e]

(* What a call in progress owes.                                           *)
PlannedGreen(c, runs) == c.at = "run" => \E r \in runs : r.env = c.env /\ r.at = c.planned

Fair(c, content, names) ==
    c.at = "publish" =>
        /\ (c.alone /\ c.op \in {"rename", "delete"})
              => KeepsNamed(content[c.page], c.text, names)
        /\ (c.alone /\ c.op \in {"step", "sync", "create"})
              => KeepsProofs(content[c.page], c.text)

TextVouched(c, commits, runs, races) ==
    c.at = "publish" => AllVouched(c.text, commits, runs, races)

Owes(c, commits, runs, races, content, names) ==
    /\ PlannedGreen(c, runs)
    /\ TextVouched(c, commits, runs, races)
    /\ Fair(c, content, names)

PagesVouched == \A p \in Pages : AllVouched(pages[p], spec, green, raced)
RowsVouched  == \A n \in Names : rows[n] # None => Vouched(rows[n].fence, spec, green, raced)
CallsOwe     == \A s \in Sessions :
    session[s] # None => Owes(session[s], spec, green, raced, pages, listed)

(* Where the page a row names has a fence of the name, it is the row's,    *)
(* unless the row missed a commit of the page.                             *)
RowsFollow ==
    \A n \in Names :
        (rows[n] # None /\ rows[n].page \notin missed /\ pages[rows[n].page][n] # None)
        => pages[rows[n].page][n] = rows[n].fence

ScenariosInv ==
    /\ TypeOK
    /\ PagesVouched /\ RowsVouched /\ CallsOwe
    /\ RowsFollow /\ SettledRowsAreTheFences

-----------------------------------------------------------------------------
(* The operators of the index.                                             *)

(* The first of some pages is one of them.                                 *)
LEMMA FirstIsOne ==
    ASSUME NEW numbers \in SUBSET Pages, numbers # {}
    PROVE  First(numbers) \in numbers
<1> DEFINE below == {ss \in Nat \X Nat : ss[1] < ss[2]}
<1>1. numbers \subseteq Nat
  BY ScenariosAssumption
<1>2. IsWellFoundedOn(below, Nat)
  BY NatLessThanWellFounded DEF OpToRel
<1> HIDE DEF below
<1>3. \E p \in numbers : \A q \in numbers : ~ (<<q, p>> \in below)
  BY <1>1, <1>2, WFMin
<1>4. PICK p \in numbers : \A q \in numbers : ~ (<<q, p>> \in below)
  BY <1>3
<1>5. ASSUME NEW q \in numbers PROVE p <= q
  <2>1. p \in Nat /\ q \in Nat
    BY <1>1
  <2>2. <<q, p>> \in Nat \X Nat /\ <<q, p>>[1] = q /\ <<q, p>>[2] = p
    BY <2>1
  <2>3. q < p => <<q, p>> \in below
    BY <2>2 DEF below
  <2> QED BY <1>4, <2>1, <2>3
<1> QED BY <1>5 DEF First

(* A name's row after its page is absorbed: the fence of the page, another *)
(* page's row as it was, or none (absorb_morse_fences).                    *)
LEMMA AbsorbedRow ==
    ASSUME NEW table, NEW p \in Pages, NEW text, NEW n \in Names
    PROVE  \/ /\ text[n] # None /\ (table[n] = None \/ table[n].page = p)
              /\ AbsorbPage(table, p, text)[n] = [page |-> p, fence |-> text[n]]
           \/ /\ table[n] # None /\ table[n].page # p
              /\ AbsorbPage(table, p, text)[n] = table[n]
           \/ /\ text[n] = None /\ (table[n] = None \/ table[n].page = p)
              /\ AbsorbPage(table, p, text)[n] = None
  BY DEF AbsorbPage

(* Absorbing a page keeps the type of the rows.                            *)
LEMMA AbsorbedType ==
    ASSUME NEW table \in [Names -> Rows \union {None}], NEW p \in Pages, NEW text \in Texts
    PROVE  AbsorbPage(table, p, text) \in [Names -> Rows \union {None}]
<1>1. \A n \in Names : AbsorbPage(table, p, text)[n] \in Rows \union {None}
  <2> TAKE n \in Names
  <2>1. text[n] # None => [page |-> p, fence |-> text[n]] \in Rows
    BY DEF Texts, Rows
  <2> QED BY <2>1, AbsorbedRow
<1> QED BY <1>1 DEF AbsorbPage

(* A name's row after a rebuild is the fence of some page that has it, and *)
(* none when no page has (reindex).                                        *)
LEMMA ReindexedRow ==
    ASSUME NEW content \in [Pages -> Texts], NEW n \in Names
    PROVE  \/ /\ Reindexed(content)[n] = None
              /\ \A p \in Pages : content[p][n] = None
           \/ \E p \in Pages :
                 /\ content[p][n] # None
                 /\ Reindexed(content)[n] = [page |-> p, fence |-> content[p][n]]
                 /\ Reindexed(content)[n] \in Rows
<1>1. CASE Holders(content, n) = {}
  BY <1>1 DEF Reindexed, Holders
<1>2. CASE Holders(content, n) # {}
  <2> DEFINE p == First(Holders(content, n))
  <2>1. p \in Holders(content, n)
    BY <1>2, FirstIsOne DEF Holders
  <2>2. Reindexed(content)[n] = [page |-> p, fence |-> content[p][n]]
    BY <1>2 DEF Reindexed
  <2> HIDE DEF p
  <2>3. p \in Pages /\ content[p][n] # None
    BY <2>1 DEF Holders
  <2>4. content[p][n] \in Fences
    BY <2>3 DEF Texts
  <2>5. [page |-> p, fence |-> content[p][n]] \in Rows
    BY <2>3, <2>4 DEF Rows
  <2> QED BY <2>2, <2>3, <2>5
<1> QED BY <1>1, <1>2

(* Judging some of the rows keeps the type of what is remembered of it     *)
(* (judge_morse_scenarios).                                                *)
LEMMA JudgedType ==
    ASSUME TypeOK, NEW table, NEW read, NEW done
    PROVE  Judged(table, read, done) \in [Names -> Commits \union {None}]
<1>1. Len(spec) \in Commits
  BY ScenariosAssumption DEF TypeOK, Commits
<1> QED BY <1>1 DEF Judged, TypeOK

(* Of a page of which only some names, or of pages of which only some are  *)
(* read, what is there is the page's own.                                  *)
LEMMA SomeTexts ==
    ASSUME NEW content \in [Pages -> Texts], NEW text \in Texts, NEW some
    PROVE  /\ SomeNames(text, some) \in Texts
           /\ \A n \in Names : SomeNames(text, some)[n] # None => SomeNames(text, some)[n] = text[n]
           /\ SomePages(content, some) \in [Pages -> Texts]
           /\ \A p \in Pages, n \in Names :
                 SomePages(content, some)[p][n] = IF p \in some THEN content[p][n] ELSE None
  BY DEF SomeNames, SomePages, Texts

(* A rebuild makes rows of their type.                                     *)
LEMMA ReindexedType ==
    ASSUME NEW content \in [Pages -> Texts]
    PROVE  Reindexed(content) \in [Names -> Rows \union {None}]
<1>1. \A n \in Names : Reindexed(content)[n] \in Rows \union {None}
  BY ReindexedRow
<1> QED BY <1>1 DEF Reindexed

(* The absence of a value is no value.                                     *)
LEMMA RowsAreNot == None \notin Rows /\ None \notin Fences /\ None \notin Calls /\ None \notin Commits
  BY ScenariosAssumption

(* More commits, more runs and more races take nothing back.               *)
LEMMA VouchingStays ==
    ASSUME NEW commits \in Seq(BOOLEAN), NEW commits2 \in Seq(BOOLEAN),
           Len(commits) <= Len(commits2),
           \A i \in 1..Len(commits) : commits2[i] = commits[i],
           NEW runs \in SUBSET [env : Envs, name : Names, at : Commits], NEW runs2, runs \subseteq runs2,
           NEW races, NEW races2, races \subseteq races2,
           NEW fence \in Fences, Vouched(fence, commits, runs, races)
    PROVE  Vouched(fence, commits2, runs2, races2)
<1> SUFFICES ASSUME NEW e \in Envs, fence.proven[e] # None
             PROVE  /\ fence.proven[e] <= Len(commits2)
                    /\ \/ <<e, fence.proven[e]>> \in races2
                       \/ \E r \in runs2 : r.env = e /\ ~Touched(commits2, r.at, fence.proven[e])
  BY DEF Vouched
<1> DEFINE c == fence.proven[e]
<1>1. c \in Nat
  BY ScenariosAssumption DEF Fences, Commits
<1>2. c <= Len(commits)
  BY DEF Vouched
<1>3. \A r \in runs : r.at \in Nat
  BY ScenariosAssumption DEF Commits
<1>4. \/ <<e, c>> \in races
      \/ \E r \in runs : r.env = e /\ ~Touched(commits, r.at, c)
  BY DEF Vouched
<1> HIDE DEF c
<1>5. Len(commits) \in Nat /\ Len(commits2) \in Nat
  OBVIOUS
<1>6. \A r \in runs : ~Touched(commits, r.at, c) => ~Touched(commits2, r.at, c)
  <2> SUFFICES ASSUME NEW r \in runs, NEW i \in (r.at + 1)..c, commits2[i]
               PROVE  commits[i]
    BY DEF Touched
  <2>1. i \in 1..Len(commits)
    BY <1>1, <1>2, <1>3, <1>5
  <2> QED BY <2>1
<1>7. c <= Len(commits2)
  BY <1>1, <1>2, <1>5
<1> QED BY <1>4, <1>6, <1>7 DEF c

-----------------------------------------------------------------------------
(* Calls.                                                                  *)

(* The call of a run that is on its way.                                   *)
LEMMA RunCall ==
    ASSUME NEW n \in Names, NEW e \in Envs, NEW k \in Commits
    PROVE  [at |-> "run", name |-> n, env |-> e, planned |-> k, alone |-> TRUE] \in Calls
  BY DEF Calls

(* The call of an edit that is on its way.                                 *)
LEMMA PublishCall ==
    ASSUME NEW op \in Edits, NEW n \in Names, NEW p \in Pages, NEW text \in Texts,
           NEW b \in BOOLEAN
    PROVE  [at |-> "publish", op |-> op, name |-> n, page |-> p, text |-> text, alone |-> b]
              \in Calls
  BY DEF Calls

(* The parts of a call.                                                    *)
LEMMA CallFields ==
    ASSUME NEW c \in Calls
    PROVE  /\ c.at = "run" => c.name \in Names /\ c.env \in Envs /\ c.planned \in Commits
           /\ c.at = "publish" => c.page \in Pages /\ c.text \in Texts /\ c.name \in Names
           /\ c.alone \in BOOLEAN
           /\ c # None
  BY RowsAreNot DEF Calls

(* A call that another overlapped is the same call, no longer alone.       *)
LEMMA DisturbedCall ==
    ASSUME NEW c \in Calls
    PROVE  LET d == [c EXCEPT !.alone = FALSE]
           IN  /\ d \in Calls /\ d.at = c.at /\ ~d.alone
               /\ c.at = "run" => d.env = c.env /\ d.planned = c.planned
               /\ c.at = "publish" => d.text = c.text /\ d.page = c.page /\ d.op = c.op
  BY DEF Calls

(* What a call owes it goes on owing, undisturbed or disturbed.            *)
LEMMA OwingStays ==
    ASSUME NEW commits \in Seq(BOOLEAN), NEW commits2 \in Seq(BOOLEAN),
           Len(commits) <= Len(commits2),
           \A i \in 1..Len(commits) : commits2[i] = commits[i],
           NEW runs \in SUBSET [env : Envs, name : Names, at : Commits], NEW runs2, runs \subseteq runs2,
           NEW races, NEW races2, races \subseteq races2,
           NEW content, NEW names, NEW c \in Calls, Owes(c, commits, runs, races, content, names)
    PROVE  /\ Owes(c, commits2, runs2, races2, content, names)
           /\ \A content2, names2 :
                 Owes([c EXCEPT !.alone = FALSE], commits2, runs2, races2, content2, names2)
<1>1. ASSUME NEW text \in Texts, AllVouched(text, commits, runs, races)
      PROVE  AllVouched(text, commits2, runs2, races2)
  <2> SUFFICES ASSUME NEW n \in Names, text[n] # None
               PROVE  Vouched(text[n], commits2, runs2, races2)
    BY DEF AllVouched
  <2>1. text[n] \in Fences /\ Vouched(text[n], commits, runs, races)
    BY <1>1 DEF AllVouched, Texts
  <2> QED BY <2>1, VouchingStays
<1>2. PlannedGreen(c, runs2)
  BY DEF Owes, PlannedGreen
<1>3. TextVouched(c, commits2, runs2, races2)
  BY <1>1, CallFields DEF Owes, TextVouched
<1>4. Fair(c, content, names)
  BY DEF Owes
<1>5. ASSUME NEW content2, NEW names2
      PROVE  Owes([c EXCEPT !.alone = FALSE], commits2, runs2, races2, content2, names2)
  <2> DEFINE d == [c EXCEPT !.alone = FALSE]
  <2>1. /\ d.at = c.at /\ ~d.alone
        /\ c.at = "run" => d.env = c.env /\ d.planned = c.planned
        /\ c.at = "publish" => d.text = c.text
    BY DisturbedCall
  <2> HIDE DEF d
  <2>2. PlannedGreen(d, runs2)
    BY <1>2, <2>1 DEF PlannedGreen
  <2>3. TextVouched(d, commits2, runs2, races2)
    BY <1>3, <2>1 DEF TextVouched
  <2>4. Fair(d, content2, names2)
    BY <2>1 DEF Fair
  <2>5. Owes(d, commits2, runs2, races2, content2, names2)
    BY <2>2, <2>3, <2>4 DEF Owes
  <2> QED BY <2>5 DEF d
<1> QED BY <1>2, <1>3, <1>4, <1>5 DEF Owes

(* The commits, runs and races of a step are those of before and more.     *)
Grows ==
    /\ spec' \in Seq(BOOLEAN) /\ Len(spec) <= Len(spec')
    /\ \A i \in 1..Len(spec) : spec'[i] = spec[i]
    /\ green \subseteq green' /\ raced \subseteq raced'

(* Calls that go on, end, are disturbed or begin with what they owe keep   *)
(* what calls owe.                                                         *)
LEMMA CallsGoOn ==
    ASSUME ScenariosInv, Grows, session' = [s \in Sessions |-> session'[s]],
           \A s \in Sessions :
              \/ session'[s] = None
              \/ session'[s] = session[s] /\ pages' = pages /\ listed' = listed
              \/ session[s] # None /\ session'[s] = [session[s] EXCEPT !.alone = FALSE]
              \/ session'[s] \in Calls /\ Owes(session'[s], spec', green', raced', pages', listed')
    PROVE  CallsOwe' /\ session' \in [Sessions -> Calls \union {None}]
<1> USE DEF ScenariosInv, TypeOK
<1>1. ASSUME NEW s \in Sessions, session'[s] # None
      PROVE  session'[s] \in Calls /\ Owes(session'[s], spec', green', raced', pages', listed')
  <2>1. CASE session'[s] = session[s] /\ pages' = pages /\ listed' = listed
    <3>1. session[s] \in Calls /\ Owes(session[s], spec, green, raced, pages, listed)
      BY <1>1, <2>1 DEF CallsOwe
    <3>2. Owes(session[s], spec', green', raced', pages, listed)
      BY <3>1, OwingStays DEF Grows
    <3> QED BY <2>1, <3>1, <3>2
  <2>2. CASE session[s] # None /\ session'[s] = [session[s] EXCEPT !.alone = FALSE]
    <3>1. session[s] \in Calls /\ Owes(session[s], spec, green, raced, pages, listed)
      BY <2>2 DEF CallsOwe
    <3>2. Owes([session[s] EXCEPT !.alone = FALSE], spec', green', raced', pages', listed')
      BY <3>1, OwingStays DEF Grows
    <3>3. [session[s] EXCEPT !.alone = FALSE] \in Calls
      BY <3>1, DisturbedCall
    <3> QED BY <2>2, <3>2, <3>3
  <2> QED BY <1>1, <2>1, <2>2
<1>2. CallsOwe'
  BY <1>1 DEF CallsOwe
<1>3. \A s \in Sessions : session'[s] \in Calls \union {None}
  BY <1>1
<1> QED BY <1>2, <1>3

-----------------------------------------------------------------------------
(* A call decides: what it is going to write is vouched for and fair.      *)

(* A page with one fence replaced by a vouched one is vouched for, keeps   *)
(* the named scenarios if the name stays, and keeps proofs if the fence    *)
(* does.                                                                   *)
LEMMA FenceWritten ==
    ASSUME NEW commits, NEW runs, NEW races, NEW names,
           NEW old \in Texts, AllVouched(old, commits, runs, races),
           NEW n \in Names, NEW f \in Fences \union {None},
           f # None => Vouched(f, commits, runs, races)
    PROVE  LET new == [old EXCEPT ![n] = f]
           IN  /\ new \in Texts /\ AllVouched(new, commits, runs, races)
               /\ (names \subseteq Names /\ (n \notin names \/ f # None)) => KeepsNamed(old, new, names)
               /\ (\A e \in Envs : (old[n] # None /\ old[n].proven[e] # None)
                      => f # None /\ f.proven[e] # None /\ f.proven[e] >= old[n].proven[e])
                  => KeepsProofs(old, new)
<1> DEFINE new == [old EXCEPT ![n] = f]
<1>1. new \in Texts /\ new[n] = f /\ \A m \in Names \ {n} : new[m] = old[m]
  BY DEF Texts
<1> HIDE DEF new
<1>2. AllVouched(new, commits, runs, races)
  BY <1>1 DEF AllVouched
<1>3. (names \subseteq Names /\ (n \notin names \/ f # None)) => KeepsNamed(old, new, names)
  BY <1>1 DEF KeepsNamed
<1>4. ASSUME \A e \in Envs : (old[n] # None /\ old[n].proven[e] # None)
                 => f # None /\ f.proven[e] # None /\ f.proven[e] >= old[n].proven[e]
      PROVE  KeepsProofs(old, new)
  <2> SUFFICES ASSUME NEW m \in Names, NEW e \in Envs, old[m] # None /\ old[m].proven[e] # None
               PROVE  /\ new[m] # None /\ new[m].proven[e] # None
                      /\ new[m].proven[e] >= old[m].proven[e]
    BY DEF KeepsProofs
  <2>1. CASE m = n
    BY <1>1, <1>4, <2>1
  <2>2. CASE m # n
    <3>1. new[m] = old[m]
      BY <1>1, <2>2
    <3>2. old[m] \in Fences
      BY DEF Texts
    <3>3. old[m].proven[e] \in Nat
      BY <3>2, ScenariosAssumption DEF Fences, Commits
    <3> QED BY <3>1, <3>3
  <2> QED BY <2>1, <2>2
<1> QED BY <1>1, <1>2, <1>3, <1>4 DEF new

(* A fresh fence and a fence of the index, as the forms write them.        *)
LEMMA FreshFence ==
    ASSUME NEW commits, NEW runs, NEW races, NEW pin \in Commits, NEW chain \in 0..MaxCalls
    PROVE  LET f == [pin |-> pin, chain |-> chain, proven |-> Unproven]
           IN  f \in Fences /\ Vouched(f, commits, runs, races)
  BY DEF Fences, Unproven, Vouched

(* A fence that is found through the index is a vouched fence of its page. *)
LEMMA FoundFence ==
    ASSUME ScenariosInv, NEW n \in Names, Found(n)
    PROVE  /\ rows[n].page \in Pages
           /\ rows[n].fence \in Fences /\ rows[n].fence # None
           /\ Vouched(rows[n].fence, spec, green, raced)
           /\ pages[rows[n].page] \in Texts
           /\ pages[rows[n].page][n] \in Fences /\ pages[rows[n].page][n] # None
           /\ Vouched(pages[rows[n].page][n], spec, green, raced)
           /\ rows[n].page \notin missed => pages[rows[n].page][n] = rows[n].fence
           /\ AllVouched(pages[rows[n].page], spec, green, raced)
<1>1. rows[n] \in Rows /\ pages[rows[n].page][n] # None
  BY DEF Found, ScenariosInv, TypeOK
<1>2. rows[n].page \in Pages /\ rows[n].fence \in Fences
  BY <1>1 DEF Rows
<1>3. rows[n].page \notin missed => pages[rows[n].page][n] = rows[n].fence
  BY <1>1, RowsAreNot DEF ScenariosInv, RowsFollow
<1>4. Vouched(rows[n].fence, spec, green, raced)
  BY <1>1, RowsAreNot DEF ScenariosInv, RowsVouched
<1>5. pages[rows[n].page] \in Texts /\ AllVouched(pages[rows[n].page], spec, green, raced)
  BY <1>2 DEF ScenariosInv, TypeOK, PagesVouched
<1>6. pages[rows[n].page][n] \in Fences /\ Vouched(pages[rows[n].page][n], spec, green, raced)
  BY <1>1, <1>5 DEF Texts, AllVouched
<1> QED BY <1>1, <1>2, <1>3, <1>4, <1>5, <1>6, RowsAreNot

(* What every decision comes to.                                           *)
Fairly(op, p, text) ==
    /\ AllVouched(text, spec, green, raced)
    /\ op \in {"rename", "delete"} => KeepsNamed(pages[p], text, listed)
    /\ op \in {"sync", "create"} => KeepsProofs(pages[p], text)
    /\ (op = "step" /\ p \notin missed) => KeepsProofs(pages[p], text)

(* What a creation is going to write is vouched for and fair               *)
(* (morse_create_scenario).                                                *)
LEMMA CreateIsFair ==
    ASSUME ScenariosInv, NEW s \in Sessions, Create(s)
    PROVE  \E op \in Edits, n \in Names, p \in Pages, text \in Texts :
              Decides(s, op, n, p, text) /\ Fairly(op, p, text)
<1>1. PICK n \in Names, p \in Pages :
         /\ pages[p][n] = None
         /\ Decides(s, "create", n, p,
                    [pages[p] EXCEPT ![n] = [pin |-> Len(spec), chain |-> 0, proven |-> Unproven]])
  BY DEF Create
<1> DEFINE f == [pin |-> Len(spec), chain |-> 0, proven |-> Unproven]
           text == [pages[p] EXCEPT ![n] = f]
<1>2. Len(spec) \in Commits /\ 0 \in 0..MaxCalls
  BY ScenariosAssumption DEF ScenariosInv, TypeOK, Commits
<1>3. f \in Fences /\ Vouched(f, spec, green, raced)
  BY <1>2, FreshFence
<1> HIDE DEF f
<1>4. pages[p] \in Texts /\ AllVouched(pages[p], spec, green, raced)
  BY DEF ScenariosInv, TypeOK, PagesVouched
<1>5. text \in Texts /\ AllVouched(text, spec, green, raced) /\ KeepsProofs(pages[p], text)
  BY <1>1, <1>3, <1>4, FenceWritten
<1>6. Decides(s, "create", n, p, text)
  BY <1>1 DEF f
<1> HIDE DEF text
<1>7. Fairly("create", p, text) /\ "create" \in Edits
  BY <1>5 DEF Fairly, Edits
<1> QED BY <1>5, <1>6, <1>7

(* What a saved step is going to write is vouched for and fair             *)
(* (morse_save_step).                                                      *)
LEMMA SaveStepIsFair ==
    ASSUME ScenariosInv, NEW s \in Sessions, SaveStep(s)
    PROVE  \E op \in Edits, n \in Names, p \in Pages, text \in Texts :
              Decides(s, op, n, p, text) /\ Fairly(op, p, text)
<1>1. PICK n \in Names :
         /\ Found(n)
         /\ Decides(s, "step", n, rows[n].page, [pages[rows[n].page] EXCEPT ![n] = SavedFence(n)])
  BY DEF SaveStep
<1> DEFINE p == rows[n].page
           f == SavedFence(n)
           text == [pages[p] EXCEPT ![n] = f]
<1>2. /\ p \in Pages /\ pages[p] \in Texts /\ AllVouched(pages[p], spec, green, raced)
      /\ rows[n].fence \in Fences /\ Vouched(rows[n].fence, spec, green, raced)
      /\ p \notin missed => pages[p][n] = rows[n].fence
  BY <1>1, FoundFence
<1>3. f \in Fences /\ f.proven = rows[n].fence.proven
  BY <1>2 DEF SavedFence, Fences, ScenariosInv, TypeOK
<1>4. f # None /\ Vouched(f, spec, green, raced)
  BY <1>2, <1>3, RowsAreNot DEF Vouched
<1>5. p \notin missed =>
         \A e \in Envs : (pages[p][n] # None /\ pages[p][n].proven[e] # None)
            => f.proven[e] # None /\ f.proven[e] >= pages[p][n].proven[e]
  <2> SUFFICES ASSUME p \notin missed, NEW e \in Envs, pages[p][n].proven[e] # None
               PROVE  f.proven[e] # None /\ f.proven[e] >= pages[p][n].proven[e]
    OBVIOUS
  <2>1. rows[n].fence.proven[e] \in Commits
    BY <1>2 DEF Fences
  <2>2. rows[n].fence.proven[e] \in Nat
    BY <2>1, ScenariosAssumption DEF Commits
  <2> QED BY <1>2, <1>3, <2>2
<1> HIDE DEF f, p
<1>6. /\ text \in Texts /\ AllVouched(text, spec, green, raced)
      /\ p \notin missed => KeepsProofs(pages[p], text)
  BY <1>2, <1>3, <1>4, <1>5, FenceWritten
<1>7. Decides(s, "step", n, p, text)
  BY <1>1 DEF f, p
<1> HIDE DEF text
<1>8. Fairly("step", p, text) /\ "step" \in Edits
  BY <1>6 DEF Fairly, Edits
<1> QED BY <1>2, <1>6, <1>7, <1>8

(* What a rename is going to write is vouched for and fair.                *)
LEMMA RenameIsFair ==
    ASSUME ScenariosInv, NEW s \in Sessions, Rename(s)
    PROVE  \E op \in Edits, n \in Names, p \in Pages, text \in Texts :
              Decides(s, op, n, p, text) /\ Fairly(op, p, text)
<1>1. PICK n \in Names, to \in Names :
         /\ n # to /\ NotNamed(n) /\ Found(n)
         /\ Decides(s, "rename", n, rows[n].page,
                    [pages[rows[n].page] EXCEPT ![n] = None, ![to] = rows[n].fence])
  BY DEF Rename
<1> DEFINE p == rows[n].page
           f == rows[n].fence
           half == [pages[p] EXCEPT ![n] = None]
           text == [pages[p] EXCEPT ![n] = None, ![to] = f]
<1>2. /\ p \in Pages /\ pages[p] \in Texts /\ AllVouched(pages[p], spec, green, raced)
      /\ f \in Fences /\ f # None /\ Vouched(f, spec, green, raced)
  BY <1>1, FoundFence
<1>3. listed \subseteq Names /\ n \notin listed
  BY <1>1 DEF NotNamed, ScenariosInv, TypeOK
<1> HIDE DEF p, f
<1>4. half \in Texts /\ AllVouched(half, spec, green, raced) /\ KeepsNamed(pages[p], half, listed)
  BY <1>2, <1>3, FenceWritten
<1>5. text = [half EXCEPT ![to] = f]
  OBVIOUS
<1> HIDE DEF half, text
<1>6. text \in Texts /\ AllVouched(text, spec, green, raced) /\ KeepsNamed(half, text, listed)
  BY <1>2, <1>3, <1>4, <1>5, FenceWritten
<1>7. KeepsNamed(pages[p], text, listed)
  BY <1>4, <1>6 DEF KeepsNamed
<1>8. Decides(s, "rename", n, p, text)
  BY <1>1 DEF f, p, text
<1>9. Fairly("rename", p, text) /\ "rename" \in Edits
  BY <1>6, <1>7 DEF Fairly, Edits
<1> QED BY <1>2, <1>6, <1>8, <1>9

(* What a delete is going to write is vouched for and fair.                *)
LEMMA DeleteIsFair ==
    ASSUME ScenariosInv, NEW s \in Sessions, Delete(s)
    PROVE  \E op \in Edits, n \in Names, p \in Pages, text \in Texts :
              Decides(s, op, n, p, text) /\ Fairly(op, p, text)
<1>1. PICK n \in Names :
         /\ Found(n) /\ NotNamed(n)
         /\ Decides(s, "delete", n, rows[n].page, [pages[rows[n].page] EXCEPT ![n] = None])
  BY DEF Delete
<1> DEFINE p == rows[n].page
           text == [pages[p] EXCEPT ![n] = None]
<1>2. p \in Pages /\ pages[p] \in Texts /\ AllVouched(pages[p], spec, green, raced)
  BY <1>1, FoundFence
<1>3. listed \subseteq Names /\ n \notin listed
  BY <1>1 DEF NotNamed, ScenariosInv, TypeOK
<1> HIDE DEF p
<1>4. text \in Texts /\ AllVouched(text, spec, green, raced) /\ KeepsNamed(pages[p], text, listed)
  BY <1>2, <1>3, FenceWritten
<1>5. Decides(s, "delete", n, p, text)
  BY <1>1 DEF p
<1> HIDE DEF text
<1>6. Fairly("delete", p, text) /\ "delete" \in Edits
  BY <1>4 DEF Fairly, Edits
<1> QED BY <1>2, <1>4, <1>5, <1>6

(* What a page saved as text is going to write is vouched for (write_doc). *)
LEMMA SavePageIsFair ==
    ASSUME ScenariosInv, NEW s \in Sessions, SavePage(s)
    PROVE  \E op \in Edits, n \in Names, p \in Pages, text \in Texts :
              Decides(s, op, n, p, text) /\ Fairly(op, p, text)
<1> DEFINE f == [pin |-> 0, chain |-> begun, proven |-> Unproven]
<1>1. PICK n \in Names, p \in Pages :
         \E g \in {None, f} : Decides(s, "save", n, p, [pages[p] EXCEPT ![n] = g])
  BY DEF SavePage
<1>2. PICK g \in {None, f} : Decides(s, "save", n, p, [pages[p] EXCEPT ![n] = g])
  BY <1>1
<1>3. 0 \in Commits /\ begun \in 0..MaxCalls
  BY ScenariosAssumption DEF Commits, ScenariosInv, TypeOK
<1>4. f \in Fences /\ Vouched(f, spec, green, raced)
  BY <1>3, FreshFence
<1> HIDE DEF f
<1> DEFINE text == [pages[p] EXCEPT ![n] = g]
<1>5. pages[p] \in Texts /\ AllVouched(pages[p], spec, green, raced)
  BY DEF ScenariosInv, TypeOK, PagesVouched
<1>6. text \in Texts /\ AllVouched(text, spec, green, raced)
  BY <1>4, <1>5, FenceWritten
<1> HIDE DEF text
<1>7. Fairly("save", p, text) /\ "save" \in Edits
  BY <1>6 DEF Fairly, Edits
<1> QED BY <1>2, <1>6, <1>7 DEF text

-----------------------------------------------------------------------------
(* Steps.                                                                  *)

(* The specification and the record of runs grow when they are left alone. *)
LEMMA GrowsAtRest ==
    ASSUME ScenariosInv, UNCHANGED spec, green \subseteq green', raced \subseteq raced'
    PROVE  Grows
  BY DEF Grows, ScenariosInv, TypeOK

(* Pages and rows of what was vouched for before.                          *)
LEMMA ShelvesGoOn ==
    ASSUME ScenariosInv, Grows,
           \A p \in Pages : pages'[p] \in Texts /\ AllVouched(pages'[p], spec, green, raced),
           \A n \in Names : rows'[n] # None =>
              rows'[n].fence \in Fences /\ Vouched(rows'[n].fence, spec, green, raced)
    PROVE  PagesVouched' /\ RowsVouched'
<1> USE DEF ScenariosInv, TypeOK, Grows
<1>1. ASSUME NEW f \in Fences, Vouched(f, spec, green, raced)
      PROVE  Vouched(f, spec', green', raced')
  BY <1>1, VouchingStays
<1>2. ASSUME NEW p \in Pages PROVE AllVouched(pages'[p], spec', green', raced')
  <2>1. pages'[p] \in Texts /\ AllVouched(pages'[p], spec, green, raced)
    OBVIOUS
  <2>2. \A n \in Names : pages'[p][n] # None => pages'[p][n] \in Fences
    BY <2>1 DEF Texts
  <2> QED BY <1>1, <2>1, <2>2 DEF AllVouched
<1>3. PagesVouched'
  BY <1>2 DEF PagesVouched
<1>4. RowsVouched'
  BY <1>1 DEF RowsVouched
<1> QED BY <1>3, <1>4

(* Every page and every row is vouched for.                                *)
LEMMA RowTypes ==
    ASSUME ScenariosInv
    PROVE  /\ \A p \in Pages : pages[p] \in Texts /\ AllVouched(pages[p], spec, green, raced)
           /\ \A n \in Names : rows[n] # None =>
                 /\ rows[n] \in Rows /\ rows[n].page \in Pages /\ rows[n].fence \in Fences
                 /\ Vouched(rows[n].fence, spec, green, raced)
<1>1. \A p \in Pages : pages[p] \in Texts /\ AllVouched(pages[p], spec, green, raced)
  BY DEF ScenariosInv, TypeOK, PagesVouched
<1>2. \A n \in Names : rows[n] # None => rows[n] \in Rows /\ Vouched(rows[n].fence, spec, green, raced)
  BY DEF ScenariosInv, TypeOK, RowsVouched
<1>3. \A r \in Rows : r.page \in Pages /\ r.fence \in Fences
  BY DEF Rows
<1> QED BY <1>1, <1>2, <1>3

(* Steps that leave the pages and their rows alone.                        *)
LEMMA UntouchedShelves ==
    ASSUME ScenariosInv, Grows, UNCHANGED <<pages, rows, loose, missed>>
    PROVE  /\ PagesVouched' /\ RowsVouched'
           /\ RowsFollow' /\ SettledRowsAreTheFences'
<1>1. PagesVouched' /\ RowsVouched'
  BY RowTypes, ShelvesGoOn
<1>2. RowsFollow'
  BY DEF RowsFollow, ScenariosInv
<1>3. SettledRowsAreTheFences'
  BY DEF SettledRowsAreTheFences, ScenariosInv
<1> QED BY <1>1, <1>2, <1>3

(* One call changes, the others stand still.                               *)
LEMMA OneCallMoves ==
    ASSUME ScenariosInv, Grows, UNCHANGED <<pages, listed>>, NEW s \in Sessions, NEW c,
           session' = [session EXCEPT ![s] = c],
           c = None \/ (c \in Calls /\ Owes(c, spec', green', raced', pages, listed))
    PROVE  CallsOwe' /\ session' \in [Sessions -> Calls \union {None}]
<1>1. session' = [t \in Sessions |-> session'[t]]
  BY DEF ScenariosInv, TypeOK
<1>2. \A t \in Sessions : session'[t] = IF t = s THEN c ELSE session[t]
  BY DEF ScenariosInv, TypeOK
<1> QED BY <1>1, <1>2, CallsGoOn

(* A call that decides on a fair text keeps the invariant.                 *)
LEMMA DecisionStep ==
    ASSUME ScenariosInv, NEW s \in Sessions,
           NEW op \in Edits, NEW n \in Names, NEW p \in Pages, NEW text \in Texts,
           Decides(s, op, n, p, text), Fairly(op, p, text)
    PROVE  ScenariosInv'
<1> DEFINE b == op = "step" => p \notin missed
           c == [at |-> "publish", op |-> op, name |-> n, page |-> p, text |-> text, alone |-> b]
<1>1. /\ session' = [session EXCEPT ![s] = c] /\ begun < MaxCalls /\ begun' = begun + 1
      /\ UNCHANGED <<spec, pages, rows, judged, listed, green, raced, loose, missed>>
  BY DEF Decides, MayBegin, indexed, runVars
<1>2. Grows
  BY <1>1, GrowsAtRest
<1>3. c \in Calls
  BY PublishCall
<1>4. /\ c.at = "publish" /\ c.op = op /\ c.page = p /\ c.text = text
      /\ c.alone => (op = "step" => p \notin missed)
  OBVIOUS
<1> HIDE DEF c
<1>5. Owes(c, spec', green', raced', pages, listed)
  BY <1>1, <1>4 DEF Owes, PlannedGreen, TextVouched, Fair, Fairly
<1>6. CallsOwe' /\ session' \in [Sessions -> Calls \union {None}]
  BY <1>1, <1>2, <1>3, <1>5, OneCallMoves
<1>7. begun' \in 0..MaxCalls
  BY <1>1, ScenariosAssumption DEF ScenariosInv, TypeOK
<1>8. TypeOK'
  BY <1>1, <1>6, <1>7 DEF ScenariosInv, TypeOK
<1>9. /\ PagesVouched' /\ RowsVouched'
      /\ RowsFollow' /\ SettledRowsAreTheFences'
  BY <1>1, <1>2, UntouchedShelves
<1> QED BY <1>6, <1>8, <1>9 DEF ScenariosInv

(* A green run keeps the invariant (morse_sync before its lock).           *)
LEMMA RunGreenStep ==
    ASSUME ScenariosInv, NEW s \in Sessions, RunGreen(s)
    PROVE  ScenariosInv'
<1>1. PICK n \in Names, e \in Envs :
         /\ session' = [session EXCEPT ![s] = [at |-> "run", name |-> n, env |-> e,
                                               planned |-> Len(spec), alone |-> TRUE]]
         /\ green' = green \union {[env |-> e, name |-> n, at |-> Len(spec)]}
  BY DEF RunGreen
<1>2. /\ begun < MaxCalls /\ begun' = begun + 1
      /\ UNCHANGED <<spec, pages, rows, judged, listed, raced, loose, missed>>
  BY DEF RunGreen, MayBegin, indexed
<1>3. Grows
  BY <1>1, <1>2, GrowsAtRest
<1>4. Len(spec) \in Commits
  BY ScenariosAssumption DEF ScenariosInv, TypeOK, Commits
<1> DEFINE c == [at |-> "run", name |-> n, env |-> e, planned |-> Len(spec), alone |-> TRUE]
           r == [env |-> e, name |-> n, at |-> Len(spec)]
<1>5. c \in Calls
  BY <1>4, RunCall
<1>6. /\ c.at = "run" /\ c.env = e /\ c.planned = Len(spec)
      /\ r.env = e /\ r.at = Len(spec) /\ r \in [env : Envs, name : Names, at : Commits]
      /\ r \in green'
  BY <1>1, <1>4
<1> HIDE DEF c, r
<1>7. Owes(c, spec', green', raced', pages, listed)
  BY <1>6 DEF Owes, PlannedGreen, TextVouched, Fair
<1>8. CallsOwe' /\ session' \in [Sessions -> Calls \union {None}]
  BY <1>1, <1>2, <1>3, <1>5, <1>7, OneCallMoves DEF c
<1>9. begun' \in 0..MaxCalls
  BY <1>2, ScenariosAssumption DEF ScenariosInv, TypeOK
<1>10. green' \subseteq [env : Envs, name : Names, at : Commits]
  BY <1>1, <1>6 DEF r, ScenariosInv, TypeOK
<1>11. TypeOK'
  BY <1>2, <1>8, <1>9, <1>10 DEF ScenariosInv, TypeOK
<1>12. /\ PagesVouched' /\ RowsVouched'
       /\ RowsFollow' /\ SettledRowsAreTheFences'
  BY <1>2, <1>3, UntouchedShelves
<1> QED BY <1>8, <1>11, <1>12 DEF ScenariosInv

(* A fence proven anew is vouched for by the run, and loses no proof       *)
(* (reproved).                                                             *)
LEMMA ReprovedFence ==
    ASSUME ScenariosInv, NEW f \in Fences, f # None, Vouched(f, spec, green, raced),
           NEW e \in Envs, NEW planned \in Commits, NEW races, raced \subseteq races,
           TouchedSince(planned, Len(spec)) => <<e, Len(spec)>> \in races,
           \E r \in green : r.env = e /\ r.at = planned
    PROVE  LET g == Reproved(f, e)
           IN  /\ g \in Fences /\ Vouched(g, spec, green, races)
               /\ \A d \in Envs : f.proven[d] # None =>
                     g.proven[d] # None /\ g.proven[d] >= f.proven[d]
<1> DEFINE g == Reproved(f, e)
<1>1. Len(spec) \in Commits /\ Len(spec) \in Nat /\ None \notin Commits
  BY ScenariosAssumption DEF ScenariosInv, TypeOK, Commits
<1>2. f.proven \in [Envs -> Commits \union {None}]
  BY DEF Fences
<1>3. g = [f EXCEPT !.pin = Len(spec), !.proven = [f.proven EXCEPT ![e] = Len(spec)]]
  BY DEF Reproved
<1>4. [f.proven EXCEPT ![e] = Len(spec)] \in [Envs -> Commits \union {None}]
  BY <1>1, <1>2
<1>5. g \in Fences /\ g.proven = [f.proven EXCEPT ![e] = Len(spec)]
  BY <1>1, <1>3, <1>4 DEF Fences
<1> HIDE DEF g
<1>6. g.proven[e] = Len(spec) /\ \A d \in Envs \ {e} : g.proven[d] = f.proven[d]
  BY <1>2, <1>5
<1>7. ASSUME NEW d \in Envs, g.proven[d] # None
      PROVE  /\ g.proven[d] <= Len(spec)
             /\ \/ <<d, g.proven[d]>> \in races
                \/ \E r \in green : r.env = d /\ ~Touched(spec, r.at, g.proven[d])
  <2>1. CASE d = e
    BY <1>1, <1>6, <2>1 DEF TouchedSince, Touched
  <2>2. CASE d # e
    BY <1>6, <1>7, <2>2 DEF Vouched
  <2> QED BY <2>1, <2>2
<1>8. Vouched(g, spec, green, races)
  BY <1>7 DEF Vouched
<1>9. ASSUME NEW d \in Envs, f.proven[d] # None
      PROVE  g.proven[d] # None /\ g.proven[d] >= f.proven[d]
  <2>1. f.proven[d] \in Nat
    BY <1>2, <1>9, ScenariosAssumption DEF Commits
  <2>4. f.proven[d] <= Len(spec)
    BY <1>9 DEF Vouched
  <2>2. CASE d = e
    BY <1>1, <1>6, <2>1, <2>2, <2>4
  <2>3. CASE d # e
    BY <1>6, <1>9, <2>1, <2>3
  <2> QED BY <2>2, <2>3
<1> QED BY <1>5, <1>8, <1>9 DEF g

(* A run that reads its page and plans its write keeps the invariant       *)
(* (morse_sync after its run).                                             *)
LEMMA ReadAfterRunStep ==
    ASSUME ScenariosInv, NEW s \in Sessions, ReadAfterRun(s)
    PROVE  ScenariosInv'
<1> DEFINE n == session[s].name
           e == session[s].env
           p == rows[n].page
           f == Reproved(pages[p][n], e)
           text == [pages[p] EXCEPT ![n] = f]
           c == [at |-> "publish", op |-> "sync", name |-> n, page |-> p,
                 text |-> text, alone |-> session[s].alone]
<1>1. /\ session[s] # None /\ session[s].at = "run"
      /\ UNCHANGED <<spec, pages, rows, judged, listed, begun, green, loose, missed>>
  BY DEF ReadAfterRun, indexed
<1>2. /\ session[s] \in Calls /\ n \in Names /\ e \in Envs /\ session[s].planned \in Commits
      /\ session[s].alone \in BOOLEAN
  BY <1>1, CallFields DEF ScenariosInv, TypeOK
<1>3. \E r \in green : r.env = e /\ r.at = session[s].planned
  BY <1>1 DEF ScenariosInv, CallsOwe, Owes, PlannedGreen
<1>4. /\ raced \subseteq raced' /\ raced' \subseteq raced \union {<<e, Len(spec)>>}
      /\ Found(n) /\ TouchedSince(session[s].planned, Len(spec)) => <<e, Len(spec)>> \in raced'
  BY DEF ReadAfterRun
<1>5. Grows
  BY <1>1, <1>4, GrowsAtRest
<1>6. CallsOwe' /\ session' \in [Sessions -> Calls \union {None}]
  <2>1. CASE ~Found(n)
    <3>1. session' = [session EXCEPT ![s] = None]
      BY <2>1 DEF ReadAfterRun
    <3> QED BY <1>1, <1>5, <3>1, OneCallMoves
  <2>2. CASE Found(n)
    <3>1. session' = [session EXCEPT ![s] = c]
      BY <2>2 DEF ReadAfterRun
    <3>2. /\ p \in Pages /\ pages[p] \in Texts /\ AllVouched(pages[p], spec, green, raced)
          /\ pages[p][n] \in Fences /\ pages[p][n] # None
          /\ Vouched(pages[p][n], spec, green, raced)
      BY <1>2, <2>2, FoundFence
    <3> HIDE DEF n, e, p
    <3>3. /\ f \in Fences /\ Vouched(f, spec, green, raced')
          /\ \A d \in Envs : pages[p][n].proven[d] # None =>
                f.proven[d] # None /\ f.proven[d] >= pages[p][n].proven[d]
      BY <1>2, <1>3, <1>4, <2>2, <3>2, ReprovedFence
    <3>4. f # None
      BY <3>3, RowsAreNot
    <3>5. AllVouched(pages[p], spec, green, raced')
      BY <1>4, <3>2 DEF AllVouched, Vouched
    <3> HIDE DEF f
    <3>6. text \in Texts /\ AllVouched(text, spec, green, raced') /\ KeepsProofs(pages[p], text)
      BY <1>2, <3>2, <3>3, <3>4, <3>5, FenceWritten
    <3> HIDE DEF text
    <3>7. c \in Calls
      BY <1>2, <3>2, <3>6, PublishCall DEF Edits
    <3>8. c.at = "publish" /\ c.op = "sync" /\ c.page = p /\ c.text = text
      OBVIOUS
    <3> HIDE DEF c
    <3>9. Owes(c, spec', green', raced', pages, listed)
      BY <1>1, <3>6, <3>8 DEF Owes, PlannedGreen, TextVouched, Fair
    <3> QED BY <1>1, <1>5, <3>1, <3>7, <3>9, OneCallMoves
  <2> QED BY <2>1, <2>2
<1>7. raced' \subseteq Envs \X Commits
  <2>1. Len(spec) \in Commits
    BY ScenariosAssumption DEF ScenariosInv, TypeOK, Commits
  <2> QED BY <1>2, <1>4, <2>1 DEF ScenariosInv, TypeOK
<1>8. TypeOK'
  BY <1>1, <1>6, <1>7 DEF ScenariosInv, TypeOK
<1>9. /\ PagesVouched' /\ RowsVouched'
      /\ RowsFollow' /\ SettledRowsAreTheFences'
  BY <1>1, <1>5, UntouchedShelves
<1> QED BY <1>6, <1>8, <1>9 DEF ScenariosInv

(* A call that gives up, an issue that names a scenario and a              *)
(* specification that moves keep the invariant.                            *)
LEMMA QuietStep ==
    ASSUME ScenariosInv,
           (\E s \in Sessions : GivesUp(s)) \/ (\E n \in Names : NameScenario(n)) \/ SpecMoves
    PROVE  ScenariosInv'
<1>1. UNCHANGED <<pages, rows, judged, begun, green, raced, loose, missed>>
  BY DEF GivesUp, NameScenario, SpecMoves, indexed, runVars
<1>2. spec' \in Seq(BOOLEAN) /\ Len(spec') <= MaxSpec /\ Grows
  <2>1. CASE UNCHANGED spec
    BY <1>1, <2>1, GrowsAtRest DEF ScenariosInv, TypeOK
  <2>2. CASE SpecMoves
    <3>1. PICK touches \in BOOLEAN : spec' = Append(spec, touches)
      BY <2>2 DEF SpecMoves
    <3>2. /\ spec' \in Seq(BOOLEAN) /\ Len(spec') = Len(spec) + 1
          /\ \A i \in 1..Len(spec) : spec'[i] = spec[i]
      BY <3>1 DEF ScenariosInv, TypeOK
    <3>3. Len(spec) < MaxSpec /\ Len(spec) \in Nat
      BY <2>2 DEF SpecMoves, ScenariosInv, TypeOK
    <3> QED BY <1>1, <3>2, <3>3, ScenariosAssumption DEF Grows
  <2> QED BY <2>1, <2>2 DEF GivesUp, NameScenario
<1>3. CallsOwe' /\ session' \in [Sessions -> Calls \union {None}]
  <2>1. CASE \E s \in Sessions : GivesUp(s)
    BY <1>1, <1>2, <2>1, OneCallMoves DEF GivesUp
  <2>2. CASE \E n \in Names : NameScenario(n)
    <3>1. session' = [t \in Sessions |-> IF session[t] = None THEN None
                                         ELSE [session[t] EXCEPT !.alone = FALSE]]
      BY <2>2 DEF NameScenario
    <3>2. session' = [t \in Sessions |-> session'[t]]
      BY <3>1
    <3> QED BY <1>2, <3>1, <3>2, CallsGoOn
  <2>3. CASE SpecMoves
    <3>1. UNCHANGED <<session, listed>>
      BY <2>3 DEF SpecMoves
    <3>2. session' = [t \in Sessions |-> session'[t]]
      BY <3>1 DEF ScenariosInv, TypeOK
    <3> QED BY <1>1, <1>2, <3>1, <3>2, CallsGoOn
  <2> QED BY <2>1, <2>2, <2>3
<1>4. listed' \subseteq Names
  BY DEF GivesUp, NameScenario, SpecMoves, ScenariosInv, TypeOK
<1>5. TypeOK'
  BY <1>1, <1>2, <1>3, <1>4 DEF ScenariosInv, TypeOK
<1>6. /\ PagesVouched' /\ RowsVouched'
      /\ RowsFollow' /\ SettledRowsAreTheFences'
  BY <1>1, <1>2, UntouchedShelves
<1> QED BY <1>3, <1>5, <1>6 DEF ScenariosInv

(* What an absorb or a rebuild leaves of the index.                        *)
Shelved ==
    /\ rows' \in [Names -> Rows \union {None}]
    /\ \A n \in Names : rows'[n] # None =>
          rows'[n].fence \in Fences /\ Vouched(rows'[n].fence, spec, green, raced)
    /\ judged' \in [Names -> Commits \union {None}]
    /\ loose' \subseteq Names /\ missed' \subseteq Pages
    /\ RowsFollow' /\ SettledRowsAreTheFences'

(* A page is written and rows of its own are made anew                     *)
(* (absorb_morse_fences).                                                  *)
LEMMA AbsorbedRowsVouched ==
    ASSUME ScenariosInv, NEW p \in Pages, NEW text \in Texts,
           AllVouched(text, spec, green, raced), rows' = AbsorbPage(rows, p, text)
    PROVE  /\ rows' \in [Names -> Rows \union {None}]
           /\ \A n \in Names : rows'[n] # None =>
                 rows'[n].fence \in Fences /\ Vouched(rows'[n].fence, spec, green, raced)
           /\ \A n \in Names :
                 \/ /\ rows'[n] = [page |-> p, fence |-> text[n]] /\ rows'[n] # None
                    /\ text[n] # None /\ (rows[n] = None \/ rows[n].page = p)
                 \/ rows'[n] = rows[n] /\ rows[n] # None /\ rows[n].page # p
                 \/ rows'[n] = None /\ text[n] = None /\ (rows[n] = None \/ rows[n].page = p)
<1>1. rows' \in [Names -> Rows \union {None}]
  BY AbsorbedType DEF ScenariosInv, TypeOK
<1>2. ASSUME NEW n \in Names
      PROVE  \/ /\ rows'[n] = [page |-> p, fence |-> text[n]] /\ rows'[n] # None
                /\ text[n] # None /\ (rows[n] = None \/ rows[n].page = p)
             \/ rows'[n] = rows[n] /\ rows[n] # None /\ rows[n].page # p
             \/ rows'[n] = None /\ text[n] = None /\ (rows[n] = None \/ rows[n].page = p)
  <2>1. rows'[n] = AbsorbPage(rows, p, text)[n]
    OBVIOUS
  <2>2. text[n] # None => [page |-> p, fence |-> text[n]] \in Rows
    BY DEF Texts, Rows
  <2> HIDE DEF ScenariosInv
  <2> QED BY <2>1, <2>2, AbsorbedRow, RowsAreNot
<1>3. ASSUME NEW n \in Names, rows'[n] # None
      PROVE  rows'[n].fence \in Fences /\ Vouched(rows'[n].fence, spec, green, raced)
  <2>1. CASE text[n] # None /\ rows'[n] = [page |-> p, fence |-> text[n]]
    BY <2>1 DEF Texts, AllVouched
  <2>2. CASE rows[n] # None /\ rows'[n] = rows[n]
    BY <2>2, RowTypes
  <2> QED BY <1>2, <1>3, <2>1, <2>2
<1> QED BY <1>1, <1>2, <1>3

(* An absorb that goes through leaves the index as it should be.  Another  *)
(* page may have lost what the page now holds, by a move.                  *)
LEMMA AbsorbsShelve ==
    ASSUME ScenariosInv, UNCHANGED spec, NEW p \in Pages, NEW text \in Texts,
           AllVouched(text, spec, green, raced), pages'[p] = text,
           \A r \in Pages \ {p}, n \in Names :
              pages'[r][n] = pages[r][n] \/ (pages'[r][n] = None /\ text[n] # None),
           Absorbs(p, text)
    PROVE  Shelved
<1>1. /\ rows' = AbsorbPage(rows, p, text)
      /\ loose' = loose \union PassedOver(text, p) /\ missed' = missed \ {p}
      /\ judged' \in [Names -> Commits \union {None}]
  BY JudgedType DEF Absorbs, ScenariosInv
<1>2. /\ rows' \in [Names -> Rows \union {None}]
      /\ \A n \in Names : rows'[n] # None =>
            rows'[n].fence \in Fences /\ Vouched(rows'[n].fence, spec, green, raced)
      /\ \A n \in Names :
            \/ /\ rows'[n] = [page |-> p, fence |-> text[n]] /\ rows'[n] # None
               /\ text[n] # None /\ (rows[n] = None \/ rows[n].page = p)
            \/ rows'[n] = rows[n] /\ rows[n] # None /\ rows[n].page # p
            \/ rows'[n] = None /\ text[n] = None /\ (rows[n] = None \/ rows[n].page = p)
  BY <1>1, AbsorbedRowsVouched
<1>3. loose' \subseteq Names /\ missed' \subseteq Pages
  BY <1>1 DEF PassedOver, Fenced, ScenariosInv, TypeOK
<1>4. RowsFollow'
  <2> SUFFICES ASSUME NEW n \in Names, rows'[n] # None, rows'[n].page \notin missed',
                      pages'[rows'[n].page][n] # None
               PROVE  pages'[rows'[n].page][n] = rows'[n].fence
    BY DEF RowsFollow
  <2>1. CASE rows'[n] = [page |-> p, fence |-> text[n]]
    BY <2>1
  <2>2. CASE rows'[n] = rows[n] /\ rows[n] # None /\ rows[n].page # p
    <3>1. rows[n].page \in Pages \ {p} /\ rows[n].page \notin missed
      BY <1>1, <2>2, RowTypes
    <3>2. pages'[rows[n].page][n] = pages[rows[n].page][n]
      BY <2>2, <3>1
    <3> QED BY <2>2, <3>1, <3>2 DEF ScenariosInv, RowsFollow
  <2> QED BY <1>2, <2>1, <2>2
<1>5. SettledRowsAreTheFences'
  <2> SUFFICES ASSUME NEW n \in Names, n \notin loose', NEW r \in Pages, r \notin missed'
               PROVE  pages'[r][n] = IF rows'[n] # None /\ rows'[n].page = r
                                     THEN rows'[n].fence ELSE None
    BY DEF SettledRowsAreTheFences
  <2>1. n \notin loose /\ (text[n] # None => rows'[n].page = p)
    BY <1>1 DEF PassedOver, Fenced
  <2>2. CASE r = p
    BY <1>2, <2>1, <2>2
  <2>3. CASE r # p
    <3>1. pages[r][n] = IF rows[n] # None /\ rows[n].page = r THEN rows[n].fence ELSE None
      BY <1>1, <2>1, <2>3 DEF ScenariosInv, SettledRowsAreTheFences
    <3>2. pages'[r][n] = pages[r][n] \/ (pages'[r][n] = None /\ text[n] # None)
      BY <2>3
    <3> QED BY <1>2, <2>1, <2>3, <3>1, <3>2
  <2> QED BY <2>2, <2>3
<1> QED BY <1>1, <1>2, <1>3, <1>4, <1>5 DEF Shelved

(* A rebuild shows every name that one page alone holds where it is.       *)
LEMMA RebuiltRows ==
    ASSUME NEW content \in [Pages -> Texts], NEW n \in Names,
           NEW row, row = Reindexed(content)[n]
    PROVE  /\ row # None => /\ row.page \in Pages /\ row.fence \in Fences
                            /\ content[row.page][n] = row.fence
           /\ n \notin Doubled(content) => \A p \in Pages :
                 content[p][n] = IF row # None /\ row.page = p THEN row.fence ELSE None
<1>1. CASE row = None /\ \A p \in Pages : content[p][n] = None
  BY <1>1
<1>2. ASSUME NEW q \in Pages, content[q][n] # None,
             row = [page |-> q, fence |-> content[q][n]], row \in Rows
      PROVE  /\ row.page \in Pages /\ row.fence \in Fences
             /\ content[row.page][n] = row.fence /\ row # None
             /\ n \notin Doubled(content) => \A p \in Pages :
                   content[p][n] = IF row # None /\ row.page = p THEN row.fence ELSE None
  <2>1. row # None /\ content[q][n] \in Fences
    BY <1>2, RowsAreNot DEF Texts
  <2>2. row.page = q /\ row.fence = content[q][n]
    BY <1>2
  <2>3. n \notin Doubled(content) => \A p \in Pages \ {q} : content[p][n] = None
    BY <1>2 DEF Doubled
  <2> QED BY <2>1, <2>2, <2>3
<1>3. \/ row = None /\ \A p \in Pages : content[p][n] = None
      \/ \E p \in Pages : /\ content[p][n] # None
                          /\ row = [page |-> p, fence |-> content[p][n]] /\ row \in Rows
  BY ReindexedRow
<1> QED BY <1>1, <1>2, <1>3

(* A rebuild of what some pages held leaves the index as it should be, for *)
(* the pages that hold it still.                                           *)
LEMMA RebuildShelves ==
    ASSUME ScenariosInv, UNCHANGED spec,
           NEW content \in [Pages -> Texts],
           \A p \in Pages : AllVouched(content[p], spec, green, raced),
           rows' = Reindexed(content), loose' = Doubled(content),
           judged' \in [Names -> Commits \union {None}], missed' \subseteq Pages,
           \A p \in Pages \ missed' : pages'[p] = content[p]
    PROVE  Shelved
<1>1. rows' \in [Names -> Rows \union {None}]
  BY ReindexedType
<1>2. ASSUME NEW n \in Names
      PROVE  /\ rows'[n] # None => /\ rows'[n].page \in Pages /\ rows'[n].fence \in Fences
                                   /\ content[rows'[n].page][n] = rows'[n].fence
             /\ n \notin Doubled(content) => \A p \in Pages :
                   content[p][n] = IF rows'[n] # None /\ rows'[n].page = p
                                   THEN rows'[n].fence ELSE None
  BY RebuiltRows
<1>3. \A n \in Names : rows'[n] # None =>
         rows'[n].fence \in Fences /\ Vouched(rows'[n].fence, spec, green, raced)
  BY <1>2, RowsAreNot DEF AllVouched
<1>4. loose' \subseteq Names
  BY DEF Doubled
<1>5. RowsFollow'
  BY <1>2 DEF RowsFollow
<1>6. SettledRowsAreTheFences'
  BY <1>2 DEF SettledRowsAreTheFences
<1> QED BY <1>1, <1>3, <1>4, <1>5, <1>6 DEF Shelved

(* An absorb that fails or is overwritten leaves the index as it should be *)
(* but for its page.                                                       *)
LEMMA FailureShelves ==
    ASSUME ScenariosInv, UNCHANGED spec, NEW p \in Pages, NEW text \in Texts,
           AllVouched(text, spec, green, raced), pages' = [pages EXCEPT ![p] = text],
           AbsorbsInPart(p, text)
    PROVE  Shelved
<1>1. pages \in [Pages -> Texts] /\ TypeOK /\ loose \subseteq Names /\ missed \subseteq Pages
  BY DEF ScenariosInv, TypeOK
<1>2. pages'[p] = text /\ \A r \in Pages \ {p} : pages'[r] = pages[r]
  BY <1>1
<1>3. CASE /\ judged' \in {judged, Judged(rows, {p}, {})}
           /\ missed' = missed \union {p}
           /\ UNCHANGED <<rows, loose>>
  <2>1. judged' \in [Names -> Commits \union {None}]
    BY <1>1, <1>3, JudgedType DEF TypeOK
  <2>2. RowsFollow'
    BY <1>2, <1>3, RowTypes DEF RowsFollow, ScenariosInv
  <2>3. SettledRowsAreTheFences'
    BY <1>2, <1>3 DEF SettledRowsAreTheFences, ScenariosInv
  <2> QED BY <1>1, <1>3, <2>1, <2>2, <2>3, RowTypes DEF Shelved, TypeOK
<1>4. CASE /\ \E first \in SUBSET Fenced(text), done \in SUBSET Names :
                 /\ rows' = AbsorbPage(rows, p, SomeNames(text, first))
                 /\ judged' = Judged(rows', {p}, done)
           /\ missed' = missed \union {p}
           /\ UNCHANGED loose
  <2>1. PICK first \in SUBSET Fenced(text), done \in SUBSET Names :
           /\ rows' = AbsorbPage(rows, p, SomeNames(text, first))
           /\ judged' = Judged(rows', {p}, done)
    BY <1>4
  <2> DEFINE part == SomeNames(text, first)
  <2>2. part \in Texts /\ \A n \in Names : part[n] # None => part[n] = text[n]
    BY <1>1, SomeTexts
  <2> HIDE DEF part
  <2>3. AllVouched(part, spec, green, raced)
    BY <2>2 DEF AllVouched
  <2>4. rows' = AbsorbPage(rows, p, part)
    BY <2>1 DEF part
  <2>5. /\ rows' \in [Names -> Rows \union {None}]
        /\ \A n \in Names : rows'[n] # None =>
              rows'[n].fence \in Fences /\ Vouched(rows'[n].fence, spec, green, raced)
        /\ \A n \in Names :
              \/ /\ rows'[n] = [page |-> p, fence |-> part[n]] /\ rows'[n] # None
                 /\ part[n] # None /\ (rows[n] = None \/ rows[n].page = p)
              \/ rows'[n] = rows[n] /\ rows[n] # None /\ rows[n].page # p
              \/ rows'[n] = None /\ part[n] = None /\ (rows[n] = None \/ rows[n].page = p)
    BY <2>2, <2>3, <2>4, AbsorbedRowsVouched
  <2>6. judged' \in [Names -> Commits \union {None}]
    BY <1>1, <2>1, JudgedType
  <2>7. RowsFollow'
    <3> SUFFICES ASSUME NEW n \in Names, rows'[n] # None, rows'[n].page \notin missed',
                        pages'[rows'[n].page][n] # None
                 PROVE  pages'[rows'[n].page][n] = rows'[n].fence
      BY DEF RowsFollow
    <3>1. rows'[n] = rows[n] /\ rows[n].page # p /\ rows[n].page \notin missed
      BY <1>4, <2>5
    <3>2. pages'[rows[n].page] = pages[rows[n].page]
      BY <1>2, <3>1, RowTypes
    <3> QED BY <3>1, <3>2 DEF ScenariosInv, RowsFollow
  <2>8. SettledRowsAreTheFences'
    <3> SUFFICES ASSUME NEW n \in Names, n \notin loose', NEW r \in Pages, r \notin missed'
                 PROVE  pages'[r][n] = IF rows'[n] # None /\ rows'[n].page = r
                                       THEN rows'[n].fence ELSE None
      BY DEF SettledRowsAreTheFences
    <3>1. r # p /\ pages'[r] = pages[r]
      BY <1>2, <1>4
    <3>2. pages[r][n] = IF rows[n] # None /\ rows[n].page = r THEN rows[n].fence ELSE None
      BY <1>4 DEF ScenariosInv, SettledRowsAreTheFences
    <3> QED BY <2>5, <3>1, <3>2
  <2> QED BY <1>1, <1>4, <2>5, <2>6, <2>7, <2>8 DEF Shelved
<1>5. CASE /\ rows' = Reindexed(pages)
           /\ judged' = Judged(rows', Pages, Names)
           /\ loose' = Doubled(pages)
           /\ missed' = {p}
  <2>1. judged' \in [Names -> Commits \union {None}]
    BY <1>1, <1>5, JudgedType
  <2>2. \A q \in Pages : AllVouched(pages[q], spec, green, raced)
    BY RowTypes
  <2>3. \A q \in Pages \ missed' : pages'[q] = pages[q]
    BY <1>2, <1>5
  <2>4. missed' \subseteq Pages
    BY <1>5
  <2> QED BY <1>1, <1>5, <2>1, <2>2, <2>3, <2>4, RebuildShelves
<1> QED BY <1>3, <1>4, <1>5 DEF AbsorbsInPart

(* A write that lands keeps the invariant, whatever became of its absorb:  *)
(* its page is what was decided.                                           *)
LEMMA PublishStep ==
    ASSUME ScenariosInv, NEW s \in Sessions, Publish(s)
    PROVE  ScenariosInv'
<1> DEFINE p == session[s].page
           text == session[s].text
<1>1. /\ session[s] # None /\ session[s].at = "publish"
      /\ pages' = [pages EXCEPT ![p] = text]
      /\ Absorbs(p, text) \/ AbsorbsInPart(p, text)
      /\ session' = Disturbs(s, [session EXCEPT ![s] = None])
      /\ UNCHANGED <<spec, listed, begun, green, raced>>
  BY DEF Publish, runVars
<1>2. p \in Pages /\ text \in Texts
  BY <1>1, CallFields DEF ScenariosInv, TypeOK
<1>3. AllVouched(text, spec, green, raced)
  BY <1>1 DEF ScenariosInv, CallsOwe, Owes, TextVouched
<1>4. Grows
  BY <1>1, GrowsAtRest
<1> HIDE DEF p, text
<1>5. /\ pages' \in [Pages -> Texts] /\ pages'[p] = text
      /\ \A q \in Pages \ {p} : pages'[q] = pages[q]
  BY <1>1, <1>2 DEF ScenariosInv, TypeOK
<1>6. Shelved
  BY <1>1, <1>2, <1>3, <1>5, AbsorbsShelve, FailureShelves
<1>7. PagesVouched' /\ RowsVouched'
  <2>1. \A q \in Pages : pages'[q] \in Texts /\ AllVouched(pages'[q], spec, green, raced)
    BY <1>2, <1>3, <1>5, RowTypes
  <2> QED BY <1>4, <1>6, <2>1, ShelvesGoOn DEF Shelved
<1>8. CallsOwe' /\ session' \in [Sessions -> Calls \union {None}]
  <2>1. session' = [t \in Sessions |-> session'[t]]
    BY <1>1 DEF Disturbs
  <2>2. \A t \in Sessions : session'[t] = None
                           \/ (session[t] # None /\ session'[t] = [session[t] EXCEPT !.alone = FALSE])
    BY <1>1 DEF Disturbs, ScenariosInv, TypeOK
  <2> QED BY <1>4, <2>1, <2>2, CallsGoOn
<1>9. TypeOK'
  BY <1>1, <1>5, <1>6, <1>8 DEF ScenariosInv, TypeOK, Shelved
<1> QED BY <1>6, <1>7, <1>8, <1>9 DEF ScenariosInv, Shelved

(* A page that moves keeps the invariant.                                  *)
LEMMA MovePageStep ==
    ASSUME ScenariosInv, NEW s \in Sessions, MovePage(s)
    PROVE  ScenariosInv'
<1>1. PICK p \in Pages, q \in Pages :
         /\ p # q /\ \A n \in Names : pages[q][n] = None
         /\ pages' = [pages EXCEPT ![p] = pages[q], ![q] = pages[p]]
         /\ Absorbs(q, pages[p])
         /\ begun < MaxCalls /\ begun' = begun + 1
         /\ session[s] = None /\ session' = Disturbs(s, session)
         /\ UNCHANGED <<spec, listed, green, raced>>
  BY DEF MovePage, MayBegin, runVars
<1>2. Grows
  BY <1>1, GrowsAtRest
<1>3. /\ pages[p] \in Texts /\ AllVouched(pages[p], spec, green, raced)
      /\ pages[q] \in Texts /\ AllVouched(pages[q], spec, green, raced)
  BY RowTypes
<1>4. /\ pages' \in [Pages -> Texts] /\ pages'[p] = pages[q] /\ pages'[q] = pages[p]
      /\ \A r \in Pages \ {p, q} : pages'[r] = pages[r]
  BY <1>1, <1>3 DEF ScenariosInv, TypeOK
<1>5. ASSUME NEW r \in Pages \ {q}, NEW n \in Names
      PROVE  pages'[r][n] = pages[r][n] \/ (pages'[r][n] = None /\ pages[p][n] # None)
  <2>1. CASE r = p
    BY <1>1, <1>4, <2>1
  <2>2. CASE r # p
    BY <1>4, <2>2
  <2> QED BY <2>1, <2>2
<1>6. Shelved
  BY <1>1, <1>3, <1>4, <1>5, AbsorbsShelve
<1>7. PagesVouched' /\ RowsVouched'
  <2>1. \A r \in Pages : pages'[r] \in Texts /\ AllVouched(pages'[r], spec, green, raced)
    BY <1>3, <1>4, RowTypes
  <2> QED BY <1>2, <1>6, <2>1, ShelvesGoOn DEF Shelved
<1>8. CallsOwe' /\ session' \in [Sessions -> Calls \union {None}]
  <2>1. session' = [t \in Sessions |-> session'[t]]
    BY <1>1 DEF Disturbs
  <2>2. \A t \in Sessions : session'[t] = None
                           \/ (session[t] # None /\ session'[t] = [session[t] EXCEPT !.alone = FALSE])
    BY <1>1 DEF Disturbs
  <2> QED BY <1>2, <2>1, <2>2, CallsGoOn
<1>9. begun' \in 0..MaxCalls
  BY <1>1, ScenariosAssumption DEF ScenariosInv, TypeOK
<1>10. TypeOK'
  BY <1>1, <1>4, <1>6, <1>8, <1>9 DEF ScenariosInv, TypeOK, Shelved
<1> QED BY <1>6, <1>7, <1>8, <1>10 DEF ScenariosInv, Shelved

(* A rebuild of the index, whole or stopped, keeps the invariant.          *)
LEMMA ReindexStep ==
    ASSUME ScenariosInv, Reindex
    PROVE  ScenariosInv'
<1>1. PICK read \in SUBSET Pages :
         /\ rows' = Reindexed(SomePages(pages, read))
         /\ \E done \in SUBSET {n \in Names : rows'[n] # None} :
               judged' = Judged(rows', Pages, done)
         /\ loose' = Doubled(SomePages(pages, read))
         /\ missed' = Pages \ read
  BY DEF Reindex
<1>2. UNCHANGED <<spec, pages, listed, session, begun, green, raced>>
  BY DEF Reindex, runVars
<1>3. Grows
  BY <1>2, GrowsAtRest
<1> DEFINE content == SomePages(pages, read)
<1>4. pages \in [Pages -> Texts] /\ TypeOK
  BY DEF ScenariosInv, TypeOK
<1>5. /\ content \in [Pages -> Texts]
      /\ \A p \in Pages, n \in Names : content[p][n] = IF p \in read THEN pages[p][n] ELSE None
  <2>1. [n \in Names |-> None] \in Texts
    BY DEF Texts
  <2> QED BY <1>4, <2>1, SomeTexts
<1>6. \A p \in read : content[p] = pages[p]
  BY DEF SomePages
<1> HIDE DEF content
<1>7. \A p \in Pages : AllVouched(content[p], spec, green, raced)
  BY <1>5, RowTypes DEF AllVouched
<1>8. judged' \in [Names -> Commits \union {None}] /\ missed' \subseteq Pages
  BY <1>1, <1>4, JudgedType
<1>9. \A p \in Pages \ missed' : pages'[p] = content[p]
  BY <1>1, <1>2, <1>6
<1>10. rows' = Reindexed(content) /\ loose' = Doubled(content)
  BY <1>1 DEF content
<1>11. Shelved
  BY <1>2, <1>5, <1>7, <1>8, <1>9, <1>10, RebuildShelves
<1>12. PagesVouched' /\ RowsVouched'
  <2>1. \A p \in Pages : pages'[p] \in Texts /\ AllVouched(pages'[p], spec, green, raced)
    BY <1>2, RowTypes
  <2> QED BY <1>3, <1>11, <2>1, ShelvesGoOn DEF Shelved
<1>13. CallsOwe' /\ session' \in [Sessions -> Calls \union {None}]
  <2>1. session' = [t \in Sessions |-> session'[t]]
    BY <1>2 DEF ScenariosInv, TypeOK
  <2> QED BY <1>2, <1>3, <2>1, CallsGoOn
<1>14. TypeOK'
  BY <1>2, <1>11, <1>13 DEF ScenariosInv, TypeOK, Shelved
<1> QED BY <1>11, <1>12, <1>13, <1>14 DEF ScenariosInv, Shelved

-----------------------------------------------------------------------------
(* The invariant holds.                                                    *)

(* The invariant holds at first.                                           *)
LEMMA InitInv == ScenariosInit => ScenariosInv
<1> SUFFICES ASSUME ScenariosInit PROVE ScenariosInv
  OBVIOUS
<1> USE DEF ScenariosInit
<1>1. Len(spec) = 0 /\ spec \in Seq(BOOLEAN)
  OBVIOUS
<1>2. pages \in [Pages -> Texts]
  BY DEF Texts
<1>3. TypeOK
  BY <1>1, <1>2, ScenariosAssumption DEF TypeOK, Commits
<1>4. PagesVouched
  BY DEF PagesVouched, AllVouched
<1>5. RowsVouched /\ RowsFollow
  BY DEF RowsVouched, RowsFollow
<1>6. CallsOwe
  BY DEF CallsOwe
<1>7. SettledRowsAreTheFences
  BY DEF SettledRowsAreTheFences
<1> QED BY <1>1, <1>3, <1>4, <1>5, <1>6, <1>7 DEF ScenariosInv

(* Every step keeps the invariant.                                         *)
LEMMA NextInv == ScenariosInv /\ [ScenariosNext]_scenarioVars => ScenariosInv'
<1> SUFFICES ASSUME ScenariosInv, [ScenariosNext]_scenarioVars PROVE ScenariosInv'
  OBVIOUS
<1>1. ASSUME NEW s \in Sessions,
             Create(s) \/ SaveStep(s) \/ Rename(s) \/ Delete(s) \/ SavePage(s)
      PROVE  ScenariosInv'
  <2>1. PICK op \in Edits, n \in Names, p \in Pages, text \in Texts :
           Decides(s, op, n, p, text) /\ Fairly(op, p, text)
    BY <1>1, CreateIsFair, SaveStepIsFair, RenameIsFair, DeleteIsFair, SavePageIsFair
  <2> QED BY <2>1, DecisionStep
<1>2. ASSUME NEW s \in Sessions, RunGreen(s) PROVE ScenariosInv'
  BY <1>2, RunGreenStep
<1>3. ASSUME NEW s \in Sessions, ReadAfterRun(s) PROVE ScenariosInv'
  BY <1>3, ReadAfterRunStep
<1>4. ASSUME NEW s \in Sessions, Publish(s) PROVE ScenariosInv'
  BY <1>4, PublishStep
<1>5. ASSUME NEW s \in Sessions, MovePage(s) PROVE ScenariosInv'
  BY <1>5, MovePageStep
<1>6. ASSUME (\E s \in Sessions : GivesUp(s)) \/ (\E n \in Names : NameScenario(n)) \/ SpecMoves
      PROVE  ScenariosInv'
  BY <1>6, QuietStep
<1>7. CASE Reindex
  BY <1>7, ReindexStep
<1>8. CASE UNCHANGED scenarioVars
  <2>1. UNCHANGED <<spec, pages, rows, judged, listed, session, begun, green, raced, loose, missed>>
    BY <1>8 DEF scenarioVars
  <2>2. Grows
    BY <2>1, GrowsAtRest
  <2>3. TypeOK' /\ CallsOwe'
    BY <2>1 DEF ScenariosInv, TypeOK, CallsOwe
  <2> QED BY <2>1, <2>2, <2>3, UntouchedShelves DEF ScenariosInv
<1> QED BY <1>1, <1>2, <1>3, <1>4, <1>5, <1>6, <1>7, <1>8 DEF ScenariosNext

(* The inductive invariant holds: what pages, rows and running calls owe   *)
(* one another, whatever order the sessions take.                          *)
THEOREM Invariance == ScenariosSpec => []ScenariosInv
<1> QED BY InitInv, NextInv, PTL DEF ScenariosSpec

(* Pages, fences, rows, calls and ghosts keep their types, for any number  *)
(* of sessions, pages, names and environments (dit-model/src/morse.rs).    *)
THEOREM TypeCorrect == ScenariosSpec => []TypeOK
<1>1. ScenariosInv => TypeOK
  BY DEF ScenariosInv
<1> QED BY <1>1, Invariance, PTL

(* A seam that readiness takes as proven was run green on the document as  *)
(* it stands by the last judgement, or on one that changed while the run   *)
(* went on (morse_sync, judge_morse_scenarios).                            *)
THEOREM SeamsWereProven == ScenariosSpec => []HeldSeamsWereProven
<1>1. ASSUME ScenariosInv PROVE HeldSeamsWereProven
  <2> SUFFICES ASSUME NEW n \in Names, NEW e \in Envs, Holds(n, e)
               PROVE  \/ <<e, rows[n].fence.proven[e]>> \in raced
                      \/ \E r \in green : r.env = e /\ ~TouchedSince(r.at, judged[n])
    BY DEF HeldSeamsWereProven
  <2> DEFINE c == rows[n].fence.proven[e]
  <2>1. rows[n] # None /\ judged[n] # None /\ c # None /\ ~TouchedSince(c, judged[n])
    BY DEF Holds, Stale
  <2>2. rows[n].fence \in Fences /\ Vouched(rows[n].fence, spec, green, raced)
    BY <1>1, <2>1, RowTypes
  <2>3. c \in Nat
    BY <2>1, <2>2, ScenariosAssumption DEF Fences, Commits
  <2>4. <<e, c>> \in raced \/ \E r \in green : r.env = e /\ ~Touched(spec, r.at, c)
    BY <2>1, <2>2 DEF Vouched
  <2> HIDE DEF c
  <2>5. \A r \in green : r.at \in Nat
    BY <1>1, ScenariosAssumption DEF ScenariosInv, TypeOK, Commits
  <2>6. judged[n] \in Nat
    BY <1>1, <2>1, ScenariosAssumption DEF ScenariosInv, TypeOK, Commits
  <2>7. \A r \in green : ~Touched(spec, r.at, c) => ~TouchedSince(r.at, judged[n])
    <3> SUFFICES ASSUME NEW r \in green, NEW i \in (r.at + 1)..judged[n], spec[i], i \notin (r.at + 1)..c
                 PROVE  FALSE
      BY DEF Touched, TouchedSince
    <3>1. i \in (c + 1)..judged[n]
      BY <2>3, <2>5, <2>6
    <3> QED BY <2>1, <3>1 DEF TouchedSince
  <2> QED BY <2>4, <2>7 DEF c
<1> QED BY <1>1, Invariance, PTL

(* The index has exactly the fences of every page whose last commit it     *)
(* shows whole, but for names an absorb passed over, whatever absorbs and  *)
(* rebuilds fail or overwrite one another (absorb_commit, reindex).        *)
THEOREM RowsAreTheFences == ScenariosSpec => []SettledRowsAreTheFences
<1>1. ScenariosInv => SettledRowsAreTheFences
  BY DEF ScenariosInv
<1> QED BY <1>1, Invariance, PTL

(* Only its own transaction ends a call with a page changed.               *)
LEMMA OwnTransaction ==
    ASSUME ScenariosInv, [ScenariosNext]_scenarioVars, NEW s \in Sessions,
           session[s] # None, session'[s] = None, pages' # pages
    PROVE  Publish(s)
<1>1. ~UNCHANGED pages
  OBVIOUS
<1>2. \E t \in Sessions : Publish(t) \/ MovePage(t)
  BY <1>1 DEF ScenariosNext, scenarioVars, Create, SaveStep, Rename, Delete, SavePage, Decides,
       RunGreen, ReadAfterRun, GivesUp, Reindex, NameScenario, SpecMoves, indexed
<1>3. PICK t \in Sessions : Publish(t) \/ MovePage(t)
  BY <1>2
<1>4. [session[s] EXCEPT !.alone = FALSE] # None
  BY DisturbedCall, RowsAreNot DEF ScenariosInv, TypeOK
<1>5. CASE Publish(t) /\ t # s
  <2>1. session' = Disturbs(t, [session EXCEPT ![t] = None])
    BY <1>5 DEF Publish
  <2>2. session'[s] = [session[s] EXCEPT !.alone = FALSE]
    BY <1>5, <2>1 DEF Disturbs, ScenariosInv, TypeOK
  <2> QED BY <1>4, <2>2
<1>6. CASE MovePage(t)
  <2>1. session[t] = None /\ session' = Disturbs(t, session)
    BY <1>6 DEF MovePage, MayBegin
  <2>2. session'[s] = [session[s] EXCEPT !.alone = FALSE]
    BY <2>1 DEF Disturbs
  <2> QED BY <1>4, <2>2
<1> QED BY <1>3, <1>5, <1>6

(* What an undisturbed write did to the pages is what its operation may    *)
(* do.                                                                     *)
LEMMA Published ==
    ASSUME ScenariosInv, NEW s \in Sessions, Publish(s), session[s].alone
    PROVE  LET p == session[s].page
           IN  /\ p \in Pages /\ \A q \in Pages \ {p} : pages'[q] = pages[q]
               /\ session[s].op \in {"rename", "delete"} => KeepsNamed(pages[p], pages'[p], listed)
               /\ session[s].op \in {"step", "sync", "create"} => KeepsProofs(pages[p], pages'[p])
<1> DEFINE c == session[s]
<1>1. c # None /\ c.at = "publish" /\ pages' = [pages EXCEPT ![c.page] = c.text]
  BY DEF Publish
<1>2. c.page \in Pages
  BY <1>1, CallFields DEF ScenariosInv, TypeOK
<1>3. Fair(c, pages, listed)
  BY <1>1 DEF ScenariosInv, CallsOwe, Owes
<1> HIDE DEF c
<1>4. pages'[c.page] = c.text /\ \A q \in Pages \ {c.page} : pages'[q] = pages[q]
  BY <1>1, <1>2 DEF ScenariosInv, TypeOK
<1> QED BY <1>1, <1>2, <1>3, <1>4 DEF Fair, c

(* A rename or a delete that nothing overlaps takes no name from the pages *)
(* that a listed issue holds (refuse_if_named).                            *)
THEOREM NamesStay == ScenariosSpec => NamedScenariosStay
<1>1. ASSUME ScenariosInv, [ScenariosNext]_scenarioVars, NEW s \in Sessions,
             session[s] # None, session'[s] = None, pages' # pages,
             session[s].op \in {"rename", "delete"}, session[s].alone,
             NEW n \in listed, InPages(pages, n)
      PROVE  InPages(pages', n)
  <2>1. Publish(s)
    BY <1>1, OwnTransaction
  <2>2. PICK q \in Pages : pages[q][n] # None
    BY <1>1 DEF InPages
  <2> DEFINE p == session[s].page
  <2>3. /\ p \in Pages /\ \A r \in Pages \ {p} : pages'[r] = pages[r]
        /\ KeepsNamed(pages[p], pages'[p], listed)
    BY <1>1, <2>1, Published
  <2> HIDE DEF p
  <2>4. pages'[q][n] # None
    BY <2>2, <2>3 DEF KeepsNamed
  <2> QED BY <2>4 DEF InPages
<1>2. ScenariosInv /\ [ScenariosNext]_scenarioVars
      => [\A s \in Sessions :
             (/\ session[s] # None /\ session'[s] = None /\ pages' # pages
              /\ session[s].at = "publish" /\ session[s].op \in {"rename", "delete"}
              /\ session[s].alone)
             => \A n \in listed : InPages(pages, n) => InPages(pages', n)]_scenarioVars
  BY <1>1
<1> QED BY <1>2, Invariance, PTL DEF ScenariosSpec, NamedScenariosStay

(* A form on a row that missed no commit, a run or a creation that nothing *)
(* overlaps loses no proof (morse_save_step, morse_sync).                  *)
THEOREM ProofsStay == ScenariosSpec => ProofsAreKept
<1>1. ASSUME ScenariosInv, [ScenariosNext]_scenarioVars, NEW s \in Sessions,
             session[s] # None, session[s].alone,
             session[s].op \in {"step", "sync", "create"},
             session'[s] = None, pages' # pages
      PROVE  KeepsProofs(pages[session[s].page], pages'[session[s].page])
  <2>1. Publish(s)
    BY <1>1, OwnTransaction
  <2> QED BY <1>1, <2>1, Published
<1>2. ScenariosInv /\ [ScenariosNext]_scenarioVars
      => [\A s \in Sessions :
             (/\ session[s] # None /\ session[s].at = "publish" /\ session[s].alone
              /\ session[s].op \in {"step", "sync", "create"}
              /\ session'[s] = None /\ pages' # pages)
             => LET p == session[s].page
                IN  \A n \in Names, e \in Envs :
                       (pages[p][n] # None /\ pages[p][n].proven[e] # None)
                       => /\ pages'[p][n] # None
                          /\ pages'[p][n].proven[e] # None
                          /\ pages'[p][n].proven[e] >= pages[p][n].proven[e]]_scenarioVars
  BY <1>1 DEF KeepsProofs
<1> QED BY <1>2, Invariance, PTL DEF ScenariosSpec, ProofsAreKept
=============================================================================
