---------------------------- MODULE CodeAnswers ----------------------------
(***************************************************************************)
(* What the code map is asked, once a refresh has filled it (CodeMap):     *)
(*   - who uses a file or a name, which imports lead from one file to      *)
(*     another, and what a folder holds;                                   *)
(*   - which registered operations the path literals of the code call,     *)
(*     and where those are proven;                                         *)
(*   - whether the places an authored map names still hold.                *)
(*                                                                         *)
(* A map is what is in the index of one root:                              *)
(*   files      where each file is, a sequence of folders and a name, with *)
(*              the names it declares                                      *)
(*   rows       its imports in the order of the table, by file and line:   *)
(*              the file, the file it leads to if any, the names it takes, *)
(*              whether it passes them on                                  *)
(*   generated  the files a tool wrote                                     *)
(* A text of the code is a sequence of pieces: "/", a word, or a name that *)
(* stands for a value, written ${name} in the source.                      *)
(*                                                                         *)
(* Code: dit-core/src/code.rs; dit-model/src/code.rs; dit-index/src/lib.rs,*)
(* code_*.                                                                 *)
(***************************************************************************)
EXTENDS Naturals, Sequences, FiniteSets, SequencesExt, FiniteSetsExt

CONSTANTS
    Name,       \* names that stand for a value
    Dotted      \* those written Obj.NAME: the object, and the name in it

MaxReexportDepth == 5
Unresolved == <<>>

Paths(map) == DOMAIN map.files
Elements(q) == {q[i] : i \in DOMAIN q}

code_importers(map, path) == SelectSeq(map.rows, LAMBDA row : row.target = path)
code_imports_of(map, path) == SelectSeq(map.rows, LAMBDA row : row.path = path)
code_edges(map) == {<<row.path, row.target>> :
                      row \in {r \in Elements(map.rows) : r.target # Unresolved}}

-----------------------------------------------------------------------------
(* Where a name points: a path of the map, the files that declare it, or   *)
(* the file with the shortest path that has it somewhere.                  *)
locate(map, name) ==
    LET declaring == {p \in Paths(map) : name \in map.files[p]}
        near      == {p \in Paths(map) : name \in Elements(p)}
        nearest   == {p \in near : \A q \in near : Len(p) <= Len(q)}
    IN  CASE <<name>> \in Paths(map) -> [at |-> "file", files |-> {<<name>>}]
          [] declaring # {} /\ <<name>> \notin Paths(map) -> [at |-> "symbol", files |-> declaring]
          [] OTHER -> [at |-> "file", files |-> IF near = {} THEN {}
                                                 ELSE {CHOOSE p \in nearest : TRUE}]

-----------------------------------------------------------------------------
(* Who uses a file.  A barrel is a hop, not a user: its own importers are, *)
(* when they take a name it passes on.                                     *)
Everything == {"*", "everything"}

Takes(names, row) ==
    \/ names = Everything
    \/ row.names # {} /\ ("*" \in row.names \/ "*" \in names \/ row.names \cap names # {})

(* Only what both hops pass on.                                            *)
Narrowed_Passed(names, row) == row.names
Narrowed(names, row) ==
    CASE names = Everything -> row.names
      [] "*" \in row.names  -> names
      [] "*" \in names      -> row.names
      [] OTHER              -> row.names \cap names

User(row, via) == [path |-> row.path, names |-> row.names, via |-> via]

(* A file is taken once, for its first import on the way.                  *)
RECURSIVE file_users(_, _, _, _, _, _)
file_users(map, path, names, via, depth, found) ==
    LET Follow(f, row) ==
            IF ~Takes(names, row) \/ row.path \in f.seen THEN f
            ELSE LET g == [f EXCEPT !.seen = @ \union {row.path}]
                 IN  IF row.reexport
                     THEN file_users(map, row.path, Narrowed(names, row), row.path,
                                     depth + 1, g)
                     ELSE [g EXCEPT !.out = Append(@, User(row, via))]
    IN  IF depth > MaxReexportDepth THEN found
        ELSE FoldLeft(Follow, found, code_importers(map, path))

Nothing == [seen |-> {}, out |-> <<>>]
Directly == <<>>

(* The code walks a name as it walks a file of which one name is passed.   *)
symbol_users(map, path, symbol, found) ==
    file_users(map, path, {symbol}, Directly, 0, found)

code_users(map, name) ==
    LET at == locate(map, name)
    IN  IF at.at = "file"
        THEN FoldSet(LAMBDA p, f : file_users(map, p, Everything, Directly, 0, f),
                     Nothing, at.files).out
        ELSE FoldLeft(LAMBDA f, p : symbol_users(map, p, name, f), Nothing,
                      SetToSeq(at.files)).out

-----------------------------------------------------------------------------
(* The shortest chain of imports, breadth first.                           *)
RECURSIVE Search(_, _, _)
Search(edges, goal, s) ==
    IF s.queue = <<>> THEN <<>>
    ELSE LET node  == Head(s.queue)
             fresh == {e[2] : e \in {d \in edges : d[1] = node}} \ DOMAIN s.chain
         IN  IF node = goal THEN s.chain[node]
             ELSE Search(edges, goal,
                         [queue |-> Tail(s.queue) \o SetToSeq(fresh),
                          chain |-> [n \in DOMAIN s.chain \union fresh |->
                                        IF n \in fresh THEN Append(s.chain[node], n)
                                        ELSE s.chain[n]]])
code_path(map, start, goal) ==
    Search(code_edges(map), goal, [queue |-> <<start>>, chain |-> [n \in {start} |-> <<start>>]])

-----------------------------------------------------------------------------
(* One folder: its units, the files and folders right inside it, with the  *)
(* imports between them and those that cross the folder's edge.            *)
Under(folder, path) ==
    Len(path) > Len(folder) /\ SubSeq(path, 1, Len(folder)) = folder
unit_of(folder, path) == SubSeq(path, 1, Len(folder) + 1)

code_overview(map, folder) ==
    LET In(p)   == Under(folder, p)
        units   == {unit_of(folder, p) : p \in {q \in Paths(map) : In(q)}}
        Of(u)   == {p \in Paths(map) : In(p) /\ unit_of(folder, p) = u}
        edges   == code_edges(map)
        inside  == {e \in edges : In(e[1]) /\ In(e[2])}
        Between(a, b) == {e \in inside : unit_of(folder, e[1]) = a /\ unit_of(folder, e[2]) = b}
    IN  [files    |-> [u \in units |-> Cardinality(Of(u))],
         inbound  |-> [u \in units |-> Cardinality({e \in edges : ~In(e[1]) /\ e[2] \in Of(u)})],
         outbound |-> [u \in units |-> Cardinality({e \in edges : e[1] \in Of(u) /\ ~In(e[2])})],
         imports  |-> [a \in units |-> [b \in units |->
                          IF a = b THEN 0 ELSE Cardinality(Between(a, b))]]]

(* The whole root: imports out of the map are left out.                    *)
code_graph(map) ==
    LET edges == {e \in code_edges(map) : e[1] # e[2] /\ e[2] \in Paths(map)}
    IN  [edges |-> edges,
         users |-> [p \in Paths(map) |-> Cardinality({e \in edges : e[2] = p})]]

(* The most imported: every file an import leads to, itself not excepted,  *)
(* and what a tool wrote only when asked for.                              *)
code_hubs(map, generated) ==
    [t \in {e[2] : e \in code_edges(map)} \ (IF generated THEN {} ELSE map.generated) |->
        Cardinality({e \in code_edges(map) : e[2] = t})]

(* A file, what imports it and what it imports: a neighbour is as big as   *)
(* the statements that lead to it.                                         *)
fan_in(map, path) == Len(code_importers(map, path))
code_neighbourhood(map, path) ==
    LET found   == file_users(map, path, Everything, Directly, 0, Nothing).out
        targets == {e[2] : e \in {d \in code_edges(map) : d[1] = path}}
    IN  [users |-> {[path |-> u.path, users |-> fan_in(map, u.path)] : u \in Elements(found)},
         uses  |-> {[path |-> t, users |-> fan_in(map, t),
                     names |-> UNION {row.names : row \in
                                   {r \in Elements(map.rows) : r.path = path /\ r.target = t}}] :
                       t \in targets}]

-----------------------------------------------------------------------------
MaxConstDepth == 4
MaxGuessed    == 1

Has(code, path, name) == name \in DOMAIN code[path].consts
Nowhere == [file |-> {}, text |-> <<>>]

-----------------------------------------------------------------------------
(* The value behind a name, and the file it is written in: the file's own, *)
(* one it imports, or the constant in the object of that name.             *)
value(code, path, name) ==
    LET from == IF name \in DOMAIN code[path].imported
                THEN {code[path].imported[name]} ELSE {}
        taken == {p \in from : Has(code, p, name)}
        in   == IF name \in DOMAIN Dotted
                THEN {p \in DOMAIN code : /\ Dotted[name].object \in code[p].declares
                                          /\ Has(code, p, Dotted[name].member)}
                ELSE {}
        Value(p, n) == [file |-> {p}, text |-> code[p].consts[n]]
    IN  CASE Has(code, path, name) -> Value(path, name)
          [] ~Has(code, path, name) /\ taken # {} -> Value(CHOOSE p \in taken : TRUE, name)
          [] ~Has(code, path, name) /\ taken = {} /\ in # {} ->
                Value(CHOOSE p \in in : TRUE, Dotted[name].member)
          [] OTHER -> Nowhere

(* A constant built from others has them put back where it is written.     *)
RECURSIVE expand(_, _, _, _)
expand(code, path, text, depth) ==
    LET Put(piece) ==
            LET v == value(code, path, piece)
            IN  IF piece \in Name /\ depth < MaxConstDepth /\ v # Nowhere
                THEN expand(code, CHOOSE p \in v.file : TRUE, v.text, depth + 1)
                ELSE <<piece>>
    IN  FlattenSeq([i \in DOMAIN text |-> Put(text[i])])

-----------------------------------------------------------------------------
(* The segments of a path: any segment with a value in it is any segment.  *)
AnySegment == <<"{}">>
api_segments(text) ==
    LET Cut(parts, piece) == IF piece = "/" THEN Append(parts, <<>>)
                             ELSE [parts EXCEPT ![Len(parts)] = Append(@, piece)]
        parts == FoldLeft(Cut, << <<>> >>, text)
        full  == SelectSeq(parts, LAMBDA part : part # <<>>)
    IN  [k \in DOMAIN full |->
            IF \E i \in DOMAIN full[k] : full[k][i] \in Name THEN AnySegment ELSE full[k]]

LinesUp(segs, spec) ==
    /\ Len(segs) = Len(spec)
    /\ \A k \in DOMAIN segs : AnySegment \in {segs[k], spec[k]} \/ segs[k] = spec[k]

(* The segments the specification names and the literal only fills.        *)
Guessed(segs, spec) == Cardinality({k \in DOMAIN segs : segs[k] = AnySegment /\ spec[k] # AnySegment})

(* A leading value nobody can read is where the host goes.                 *)
PathOf(resolved) ==
    LET segs == api_segments(resolved)
    IN  IF segs # <<>> /\ Head(segs) = AnySegment /\ Head(resolved) \in Name THEN Tail(segs) ELSE segs

(* The operations a literal calls: the closest, when they are close enough.*)
(* One that calls none is told as such, unless it is the leading part of   *)
(* a path, which others are built from; one that is all values is counted. *)
Fits(segs, ops) == {op \in ops : LinesUp(segs, op)}
Leads(segs, op) == Len(segs) < Len(op) /\ LinesUp(segs, SubSeq(op, 1, Len(segs)))

Closest(segs, fits) ==
    LET least == Min({Guessed(segs, op) : op \in fits})
    IN  {op \in fits : Guessed(segs, op) = least}

Told(is, operations) == [is |-> is, operations |-> operations]

code_api(code, path, text, ops) ==
    LET segs  == PathOf(expand(code, path, text, 0))
        roots == {Head(op) : op \in {o \in ops : o # <<>>}} \ {AnySegment}
        near  == Closest(segs, Fits(segs, ops))
    IN  IF segs = <<>> \/ ~(Head(segs) \in roots) THEN Told("no path", {})
        ELSE IF Fits(segs, ops) = {}
        THEN Told(IF \E op \in ops : Leads(segs, op) THEN "no path" ELSE "call", {})
        ELSE IF \E op \in near : Guessed(segs, op) > MaxGuessed THEN Told("generic", {})
        ELSE Told("call", near)

(* Where an operation is proven: in the environments of every proof that   *)
(* holds, of a scenario with a step that names the operation, or whose     *)
(* request takes the operation's path, with nothing guessed.               *)
Calls(step, op) ==
    \/ step.names = {op}
    \/ step.names = {} /\ LinesUp(step.request, op) /\ Guessed(step.request, op) = 0

proven(scenarios, op) ==
    UNION {s.held : s \in {t \in scenarios : \E step \in t.steps : Calls(step, op)}}

-----------------------------------------------------------------------------
(* The authored maps (ADR 0025).  A place is a glob of a registered root:  *)
(* the files it matches, and those git takes it to reach, where * goes     *)
(* through folders.  A root is the sequence of the trees its revision went *)
(* through.                                                                *)
Places(entry) == entry.change \union entry.example \union entry.never
Tree(roots, root) == Last(roots[root])
Found(roots, place) ==
    place.root \in DOMAIN roots /\ DOMAIN Tree(roots, place.root) \cap place.glob # {}

(* The commits since the pin that touch a file of the glob.                *)
Part(tree, files) == Restrict(tree, DOMAIN tree \cap files)
commits_touching_between(trees, pin, reach) ==
    Cardinality({n \in pin + 1..Len(trees) : Part(trees[n], reach) # Part(trees[n - 1], reach)})

Unconfirmed == [is |-> "unconfirmed"]
Holds       == [is |-> "holds"]
Broken      == [is |-> "broken"]
Stale(n)    == [is |-> "stale", commits |-> n]

example_health(roots, confirmed, entry) ==
    IF entry.example = {} THEN IF DOMAIN confirmed = {} THEN Unconfirmed ELSE Holds
    ELSE LET place == CHOOSE p \in entry.example : TRUE
         IN  IF place.root \notin DOMAIN confirmed \cap DOMAIN roots THEN Unconfirmed
             ELSE LET n == commits_touching_between(roots[place.root],
                                                    confirmed[place.root], place.reach)
                  IN  IF n = 0 THEN Holds ELSE Stale(n)

judge_code_maps(roots, confirmed, entries) ==
    [k \in DOMAIN entries |->
        IF \E p \in Places(entries[k]) : ~Found(roots, p) THEN Broken
        ELSE example_health(roots, confirmed, entries[k])]

(* The pins move to the heads, all of them or none, by what the last       *)
(* refresh judged.                                                         *)
RootsNamed(entries) ==
    UNION {{p.root : p \in Places(entries[k])} : k \in DOMAIN entries}
Confirms(roots, judged, entries) ==
    /\ \A k \in DOMAIN judged : judged[k] # Broken
    /\ RootsNamed(entries) \subseteq DOMAIN roots
code_map_confirm(roots, entries) ==
    [r \in RootsNamed(entries) |-> Len(roots[r])]

-----------------------------------------------------------------------------
(* What the answers promise.                                               *)

(* The files that pass a name of a file on, hop by hop, and those that     *)
(* take it from there; whoever imports a file uses all of it.              *)
Carries(row, name) == row.names \cap {name, "*"} # {}
RECURSIVE PassedOn(_, _, _)
PassedOn(map, name, at) ==
    LET next == {row.path : row \in {r \in Elements(map.rows) :
                    r.reexport /\ r.target \in at /\ Carries(r, name)}}
    IN  IF next \subseteq at THEN at ELSE PassedOn(map, name, at \union next)

Using(map, path, names) ==
    LET rows  == {r \in Elements(map.rows) : ~r.reexport}
        any   == {"any other"} \union (UNION {r.names : r \in Elements(map.rows)} \ {"*"})
        Takers(name) == {r \in rows : /\ Carries(r, name)
                                      /\ r.target \in PassedOn(map, name, {path})}
        taken == UNION {Takers(n) : n \in (IF names = Everything THEN any ELSE names)}
        all   == IF names = Everything THEN {r \in rows : r.target = path} ELSE {}
    IN  {[path |-> row.path, via |-> row.target] : row \in taken \union all}

(* A barrel only passes on, in one statement: what the walk relies on to   *)
(* find everybody.                                                         *)
OnlyPassesOn(map) ==
    \A r \in Elements(map.rows) :
        r.reexport => \A q \in Elements(map.rows) : q.path = r.path => q.reexport
InOneStatement(map) ==
    \A i, j \in DOMAIN map.rows :
        map.rows[i].reexport /\ map.rows[i].path = map.rows[j].path => i = j

PathsOf(users) == {u.path : u \in users}

(* Everybody who is named uses the file, or the name, by the way that is   *)
(* told, and is named once; and nobody is missed.                          *)
UsersAreTrue(map, name) ==
    LET at    == locate(map, name)
        names == IF at.at = "file" THEN Everything ELSE {name}
        using == UNION {Using(map, p, names) : p \in at.files}
        out   == code_users(map, name)
    IN  /\ \A i \in DOMAIN out :
              \E u \in using : /\ u.path = out[i].path
                              /\ IF out[i].via = Directly THEN u.via \in at.files
                                 ELSE u.via = out[i].via
        /\ \A i, j \in DOMAIN out : out[i].path = out[j].path => i = j
        /\ OnlyPassesOn(map) /\ (names = Everything => InOneStatement(map)) =>
              PathsOf(using) = PathsOf(Elements(out))

(* The files from which the imports lead to a file in so many steps.       *)
RECURSIVE Within(_, _, _)
Within(edges, goal, n) ==
    IF n = 0 THEN {goal}
    ELSE {e[1] : e \in {d \in edges : d[2] \in Within(edges, goal, n - 1)}}

(* A chain is made of imports, and no shorter one is.                      *)
ChainsAreShortest(map) ==
    LET edges == code_edges(map)
        most  == Cardinality(Paths(map))
    IN  \A from, to \in Paths(map) :
            LET chain == code_path(map, from, to)
                least == {n \in 0..most : from \in Within(edges, to, n)}
            IN  IF chain = <<>> THEN least = {}
                ELSE /\ Head(chain) = from /\ Last(chain) = to
                     /\ \A i \in 1..Len(chain) - 1 : <<chain[i], chain[i + 1]>> \in edges
                     /\ Len(chain) - 1 = Min(least)

(* Going into a folder shows the imports that were counted outside it, when*)
(* every file they lead to is in the map.                                  *)
Total(counts) == FoldFunction(+, 0, counts)
OverviewsAddUp(map) ==
    LET out == code_overview(map, <<>>)
    IN  (\A e \in code_edges(map) : e[2] \in Paths(map)) => \A u \in DOMAIN out.files :
            LET in == code_overview(map, u)
            IN  u \notin Paths(map) =>
                    /\ Total(in.files) = out.files[u]
                    /\ Total(in.outbound) = Total(out.imports[u]) + out.outbound[u]
                    /\ Total(in.inbound) =
                          Total([a \in DOMAIN out.files |-> out.imports[a][u]]) + out.inbound[u]

(* The three pictures agree on how much leans on a file, where every file  *)
(* takes from another in one statement and none from itself.               *)
PicturesAgree(map) ==
    (\A i, j \in DOMAIN map.rows :
        /\ map.rows[i].path # map.rows[i].target
        /\ map.rows[i].path = map.rows[j].path /\ map.rows[i].target = map.rows[j].target
              => i = j)
      => \A p \in Paths(map) :
            LET leaning == code_graph(map).users[p]
            IN  /\ leaning = IF p \in DOMAIN code_hubs(map, TRUE)
                             THEN code_hubs(map, TRUE)[p] ELSE 0
                /\ \A q \in Paths(map) :
                      \A n \in code_neighbourhood(map, q).uses :
                          n.path = p => n.users = leaning

(* The requests a path stands for, every value filled with one word.       *)
Requests(segs, words) ==
    {r \in [DOMAIN segs -> words] : \A k \in DOMAIN segs : segs[k] = AnySegment \/ segs[k] = r[k]}

(* An operation that is named is one the literal may call; one that every  *)
(* request of the literal calls is named, and then nothing but such ones;  *)
(* and a call to none is to none of them.                                  *)
CallsAreTrue(code, path, text, ops, words) ==
    LET told  == code_api(code, path, text, ops)
        segs  == PathOf(expand(code, path, text, 0))
        said  == words \union (Elements(segs) \ {AnySegment})
        asked == Requests(segs, said)
        May(op)  == asked \cap Requests(op, said) # {}
        Must(op) == asked \subseteq Requests(op, said)
        sure  == {op \in ops : op # <<>> /\ Head(op) # AnySegment /\ Must(op)}
    IN  /\ \A op \in told.operations : May(op)
        /\ sure # {} => told = Told("call", {op \in ops : Must(op)})
        /\ told = Told("call", {}) => \A op \in ops : ~May(op)

(* An operation is shown proven where a request that proved it, and every  *)
(* way to fill it, is a request to the operation.                          *)
ProofsAreOfTheOperation(scenarios, ops, words) ==
    \A op \in ops : \A env \in proven(scenarios, op) :
        \E s \in scenarios : \E step \in s.steps :
            /\ env \in s.held
            /\ \/ step.names = {op}
               \/ step.names = {} /\ Requests(step.request, words) \subseteq Requests(op, words)

(* What is said to hold is there, and its example is what was confirmed.   *)
(* A map that was judged on the trees it is confirmed against holds, every *)
(* entry of it.                                                            *)
MapsAreJudged(roots, confirmed, entries) ==
    LET judged == judge_code_maps(roots, confirmed, entries)
    IN  /\ \A k \in DOMAIN entries : judged[k] = Holds =>
              /\ \A p \in Places(entries[k]) : Found(roots, p)
              /\ \A p \in entries[k].example :
                    /\ p.root \in DOMAIN confirmed
                    /\ Part(Tree(roots, p.root), p.glob)
                          = Part(roots[p.root][confirmed[p.root]], p.glob)
        /\ Confirms(roots, judged, entries) =>
              LET after == judge_code_maps(roots, code_map_confirm(roots, entries), entries)
              IN  \A k \in DOMAIN entries : after[k] = Holds
=============================================================================
