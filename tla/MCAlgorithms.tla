---------------------------- MODULE MCAlgorithms ----------------------------
(***************************************************************************)
(* The derived stores and the pure algorithms, each on a bench of its own: *)
(* a behaviour picks one bench and stays on it.  The code map, the field   *)
(* history, the index tables and the merge driver are state machines with  *)
(* an Init and a Next of their own (the map and the driver are extended,   *)
(* the others instantiated); for the rest the bench grows the input one    *)
(* piece at a time, and the property is checked of every input on the way. *)
(***************************************************************************)
EXTENDS CodeMap, MergeDriver, TLC

CONSTANTS
    Issue, Comment, Release, Page, Text, Flow, Status, Finished,
    MaxLines,     \* bound: lines of a body
    MaxTokens,    \* bound: tokens of a query
    MaxSteps,     \* bound: steps of a scenario
    MaxTouches,   \* bound: edges, status changes and removals of a board
    MaxImports,   \* bound: rows of the import table
    MaxPieces,    \* bound: pieces of a literal of the code
    MaxTrees,     \* bound: commits of a code root
    MaxRun        \* bound: pieces of a run of text

VARIABLES
    bench,        \* the component this behaviour is about
    input,        \* the input of a pure algorithm
    \* FieldHistory
    commit, head, events, walkedTo, walk, rewinds, deaths, rewritten, paired,
    \* IndexTables
    stored, row, labels, flows, comment, release, shape, steps, current,
    contested

-----------------------------------------------------------------------------
(* Two files: b1 declares n; b2 imports the file p, the name n, and uses n *)
(* without an import.                                                      *)
MCSays == [b1 |-> [declares |-> {"n"}, files |-> {}, names |-> {}, uses |-> {}],
           b2 |-> [declares |-> {}, files |-> {"p"}, names |-> {"n"}, uses |-> {"n"}]]

FH == INSTANCE FieldHistory WITH
          Terminal <- Finished, MaxCommits <- 4, MaxRewinds <- 1, MaxCrashes <- 1,
          rows <- events, mark <- walkedTo, job <- walk, crashes <- deaths

(* The lists of the index tables: members in two orders, and members that  *)
(* come twice; of a page the fences of two flows, one of them drawn twice. *)
MCPlans  == {<<>>, <<"i", "j">>, <<"j", "i", "j">>}
MCBodies ==
    [text : {"x", "y"}, labels : {<<>>, <<"a", "b">>, <<"b", "a", "b">>},
     flows : {<<>>, <<"f", "g">>, <<"g">>}]
MCFences ==
    LET Fence(to, t) == [flow |-> to, text |-> t]
        f == Fence("f", "x")
        g == Fence("g", "x")
    IN  {<<>>, <<f>>, <<g, f>>, <<f, g, Fence("f", "y")>>, <<Fence("g", "y"), f, g>>}

IT == INSTANCE IndexTables WITH
          Body <- MCBodies, Plan <- MCPlans, Fences <- MCFences,
          MaxSteps <- 3, file <- stored

(* Comparisons of both kinds of field, both polarities, one value and two. *)
Cmp(field, not, values) == [field |-> field, not |-> not, values |-> values]
QL == INSTANCE Query WITH
          Comparisons <- {Cmp("column", FALSE, <<"x">>), Cmp("set", TRUE, <<"x", "y">>),
                          Cmp("column", TRUE, <<>>)},
          Value <- Text, Null <- Gone

FB == INSTANCE FlowBoard WITH WalkGuard <- 10
BM == INSTANCE BodyMerge
SC == INSTANCE ScenarioChain WITH Variables <- {"a", "b"}
CA == INSTANCE CodeAnswers WITH
          Name <- {"v", "BASE", "ITEMS", "Paths.ITEM"},
          Dotted <- ("Paths.ITEM" :> [object |-> "Paths", member |-> "ITEM"])

PT == INSTANCE PageTree WITH
          MaxDepth <- 4, BadInfo <- {"tick"}, BadTarget <- {""}

(* The merge driver.  Statuses 1, 2, 3 stand for todo, in_progress and     *)
(* done: 1 -> 3 is not a step of the workflow.  Few fields of a document   *)
(* are set: the fields are merged one by one, and only the workflow check  *)
(* looks at two of them.                                                   *)
With(fields) == fields @@ [k \in Keys |-> Missing]

Issues  == {With("status" :> Scalar(n)) : n \in 1..3}
Claimed == {With("status" :> Scalar(2) @@ "claimed_by" :> Scalar(n)) : n \in 1..2}
Listed  == {With("labels" :> v) : v \in {List(<<>>), List(<<1>>), List(<<2>>),
                List(<<1, 2>>), Scalar(1), Map(1)}}
Stamped == {With("status" :> Scalar(1) @@ "updated" :> Scalar(n)) : n \in 0..2}

MCLegal     == {<<1, 2>>, <<2, 3>>, <<2, 1>>}
MCDocuments == {With(<<>>)} \cup Issues \cup Claimed \cup Listed \cup Stamped

ASSUME InstancesAreAsAssumed ==
    FH!TerminalIsStatus /\ IT!FilesAreLists

historyVars == <<commit, head, events, walkedTo, walk, rewinds, deaths, rewritten,
                 paired>>
tableVars   == <<stored, row, labels, flows, comment, release, shape, steps, current,
                 contested>>

-----------------------------------------------------------------------------
(* Inputs of the pure algorithms.                                          *)

Plain == [slot |-> "none", path |-> {}, target |-> {}, content |-> {},
          expects |-> {}, captures |-> {}]
MCSteps == {Plain, [Plain EXCEPT !.slot = "bare"],
            [Plain EXCEPT !.slot = "filled", !.target = {"a"}],
            [Plain EXCEPT !.path = {"a"}],
            [Plain EXCEPT !.content = {"a", "b"}],
            [Plain EXCEPT !.expects = {"a"}],
            [Plain EXCEPT !.captures = {"a"}],
            [Plain EXCEPT !.captures = {"b"}, !.target = {"b"}],
            [Plain EXCEPT !.captures = {"a"}, !.expects = {"a"}]}
Fine == [gate |-> "open", reply |-> "held", blank |-> FALSE, missing |-> {}]
Growing == {{}, {"a"}, {"a", "b"}}
MCAnswers == {Fine, [Fine EXCEPT !.gate = "blocked"], [Fine EXCEPT !.reply = "lost"],
              [Fine EXCEPT !.reply = "refuted"], [Fine EXCEPT !.blank = TRUE],
              [Fine EXCEPT !.missing = {"a"}]}

(* After a token that the grammar allows to be followed by this one.       *)
Fits(before, tok) ==
    IF before \in QL!Atoms \union {QL!Close} THEN tok \notin QL!Atoms \union {QL!Open}
    ELSE IF before \in {QL!Order, QL!Limit} THEN tok \in {QL!Order, QL!Limit}
    ELSE tok \in QL!Atoms \union {QL!Open}
Fitting(toks) == \A i \in 1..(Len(toks) - 1) : Fits(toks[i], toks[i + 1])

Touches(w) == Cardinality({<<i, j>> \in (DOMAIN w.status) \X (DOMAIN w.status) :
                              j \in w.blocked[i]})
                + Cardinality({i \in DOMAIN w.status : w.status[i] # "todo"})
                + Cardinality(DOMAIN w.status \ w.member)

Unplanned(n, gate, cap) ==
    [blocked |-> [i \in 1..n |-> {}], status |-> [i \in 1..n |-> "todo"],
     member |-> 1..n, gate |-> gate, cap |-> cap]

(* Four files of the code map, in the order of its tables; x declares n.   *)
MCPaths == << <<"d", "x">>, <<"d", "y">>, <<"e">>, <<"z">> >>
MCFiles == [p \in CA!Elements(MCPaths) |-> IF p = <<"d", "x">> THEN {"n"} ELSE {}]
MCMap   == [files |-> MCFiles, rows |-> input, generated |-> {<<"e">>}]
RowsOf(path) ==
    LET Row(to, names, reexport) ==
            [path |-> path, target |-> to, names |-> names, reexport |-> reexport]
        others == DOMAIN MCFiles \ {path}
    IN  {Row(t, {n}, FALSE) : t \in others, n \in {"n", "m"}}
          \union {Row(t, {n}, TRUE) : t \in others, n \in {"n", "*"}}
          \union {Row(<<"outside">>, {"*"}, FALSE), Row(CA!Unresolved, {}, FALSE)}
InOrder(rows) ==
    \A i \in 1..Len(rows) - 1 :
        \E p, q \in DOMAIN MCPaths :
            p <= q /\ rows[i].path = MCPaths[p] /\ rows[i + 1].path = MCPaths[q]

(* Where the names do not matter, one name stands for them.                *)
AllTake(n) == \A i \in DOMAIN input : input[i].names = {n}

(* A file whose literals are read, the file its constants are in, and the  *)
(* operations: their paths with {id} for any segment.                      *)
MCWords == {<<"items">>, <<"bulk">>, <<"w">>}
MCOperations ==
    LET id == CA!AnySegment
    IN  {<< <<"items">> >>, << <<"items">>, id >>, << <<"items">>, <<"bulk">> >>,
         << id, <<"bulk">> >>, << <<"items">>, id, <<"bulk">> >>}
MCCode ==
    [user  |-> [consts |-> "BASE" :> <<"v", "/", "items">>,
                imported |-> [n \in {"ITEMS", "v"} |-> "paths"], declares |-> {}],
     paths |-> [consts |-> "ITEMS" :> <<"/", "items", "/", "Paths.ITEM">>
                              @@ "ITEM" :> <<"bulk">>,
                imported |-> <<>>, declares |-> {"Paths"}]]
LiteralOf(text) == CA!PathOf(CA!expand(MCCode, "user", text, 0))
MCScenarios ==
    {[held |-> {"dev"}, steps |-> {[names |-> {}, request |-> LiteralOf(input)]}],
     [held |-> {"prod"}, steps |-> {[names |-> {<< <<"items">> >>}, request |-> <<>>]}]}

(* Maps of the files a and b of one root, and of a root that is not there. *)
MCEntries ==
    LET a    == [root |-> "web", glob |-> {"a"}, reach |-> {"a"}]
        b    == [root |-> "web", glob |-> {"b"}, reach |-> {"a", "b"}]
        gone == [a EXCEPT !.root = "gone"]
        Entry(change, example, never) ==
            [change |-> change, example |-> example, never |-> never]
    IN  {<<Entry({a}, {}, {})>>, <<Entry({}, {b}, {}), Entry({a}, {}, {b})>>,
         <<Entry({a}, {a}, {}), Entry({}, {b}, {a})>>, <<Entry({a}, {}, {gone})>>}
MCTrees == UNION {[paths -> 1..2] : paths \in SUBSET {"a", "b"}}

(* Runs of a page: text, code, emphasis, two links, a wiki link.           *)
MCText == PT!Node("text", <<"t">>, <<>>)
MCCode1 == PT!Node("code", <<"c">>, <<>>)
Wraps(runs) ==
    {PT!Node("emph", <<>>, r) : r \in runs}
      \union {PT!Node("link", to, r) : to \in {"u", "w"}, r \in runs}
SmallRuns == {<<>>, <<MCText>>, <<MCCode1>>, <<MCText, MCCode1>>, <<MCCode1, MCCode1>>}
Pieces ==
    {MCText, MCCode1, PT!Node("hardBreak", "soft", <<>>)} \union Wraps(SmallRuns)
      \union {PT!Node("wikiLink", to, r) : to \in {"", "p"}, r \in {<<>>, <<MCText>>}}
      \union {PT!Node("image", "p", <<MCText>>)}
HighPieces == {MCText, MCCode1} \union Wraps({<<MCText>>})

(* Runs of a document, which an editor may have put together in any way.   *)
MCMarks ==
    LET known == {[type |-> "italic", attrs |-> <<>>], [type |-> "link", attrs |-> "u"], PT!Code}
    IN  {<<>>, <<[type |-> "unknown", attrs |-> <<>>]>>}
          \union {<<m>> : m \in known} \union {<<m, n>> : m, n \in known}
TextItems  == {PT!Json("text", <<"t">>, <<>>, m) : m \in MCMarks}
OtherItems == {PT!Json("wikiLink", "p", <<PT!Json("text", <<"t">>, <<>>, <<>>)>>, m) : m \in MCMarks}
                \union {PT!Json("paragraph", <<>>, <<>>, m) : m \in MCMarks}

(* Blocks of a page, and blocks as a document may hold them.               *)
Plots == {PT!Node("paragraph", <<>>, <<>>), PT!Node("heading", 2, <<MCText>>),
          PT!Node("horizontalRule", <<>>, <<>>), PT!Node("htmlBlock", <<"h">>, <<>>)}
           \union {PT!Node("codeBlock", [language |-> l, literal |-> <<"c">>], <<>>) :
                       l \in {"", "tick"}}
Pairs(S) == {<<>>} \union {<<x>> : x \in S} \union {<<x, y>> : x, y \in S}
Lists(blocks) ==
    {PT!Node(kind, [tight |-> TRUE], <<PT!Node("item", t, c), PT!Node("item", "none", d)>>) :
        kind \in {"bulletList", "orderedList"}, t \in PT!Tasks, c \in blocks,
        d \in {<<>>, <<PT!Node("heading", 2, <<MCText>>)>>}}
MCRow(is, cells) == PT!Node("row", is, [i \in DOMAIN cells |-> PT!Node("cell", <<>>, cells[i])])
Tables == {PT!Node("table", <<"none", "left">>, <<MCRow("header", h), MCRow("body", b)>>) :
              h, b \in [1..2 -> SmallRuns]}
Blocks ==
    LET quotes == {PT!Node("blockquote", <<>>, p) : p \in Pairs(Plots)}
        lists  == Lists(Pairs(Plots))
    IN  Plots \union quotes \union lists \union Tables
          \union {PT!Node("blockquote", <<>>, <<q>>) : q \in quotes}
          \union Lists({<<>>} \union {<<q>> : q \in quotes})

JBlock(type, attrs, content) == PT!Json(type, attrs, content, <<>>)
JParagraphs == {JBlock("paragraph", <<>>, <<>>),
                JBlock("paragraph", <<>>, <<PT!Json("text", <<"t">>, <<>>, <<PT!Code>>)>>)}
JCells == {JBlock(t, <<>>, c) : t \in {"tableHeader", "tableCell"}, c \in Pairs(JParagraphs)}
JRows  == {JBlock("tableRow", h, c) : h \in {"header", "body"},
              c \in {<<>>} \union {<<x>> : x \in JCells}}
JItems == {JBlock("listItem", t, c) : t \in {"none", "x", "y"}, c \in Pairs(JParagraphs)}
JBlocks ==
    {JBlock("bulletList", [tight |-> TRUE], c) : c \in Pairs(JItems \union JParagraphs)}
      \union {JBlock("table", <<a>>, c) : a \in {"left", "middle"}, c \in Pairs(JRows)}
      \union {JBlock("heading", n, <<>>) : n \in 0..7}
      \union {JBlock("codeBlock", l, c) : l \in {"", "tick"},
                                         c \in Pairs(JParagraphs \union TextItems)}
      \union {JBlock("htmlBlock", t, <<>>) : t \in {<<>>, <<"h">>}}
      \union {JBlock("doc", <<>>, <<>>)}

PureInit ==
    \/ bench = "chain" /\ input = <<>>
    \/ bench = "query" /\ input = <<>>
    \/ bench = "flow"  /\ input \in {Unplanned(4, "terminal", 4), Unplanned(3, "review", 2)}
    \/ bench \in {"users", "calls"} /\ input = <<>>
    \/ bench = "maps"  /\ \E t \in MCTrees : input = <<t>>
    \/ bench \in {"page", "editor"} /\ input = <<>>
    \/ bench = "blocks" /\ \E b \in Blocks : input = <<b>>
    \/ bench = "edited" /\ \E b \in JBlocks : input = <<b>>
    \/ bench = "body"  /\ input = [base |-> <<>>, ours |-> <<>>, theirs |-> <<>>]

Grow ==
    \/ /\ bench = "chain" /\ Len(input) < MaxSteps
       /\ \E s \in MCSteps : input' = Append(input, s)
    \/ /\ bench = "query"
       /\ \E t \in QL!Tokens :
             /\ \/ Len(input) < 4
                \/ Len(input) < MaxTokens /\ Fitting(Append(input, t))
             /\ input' = Append(input, t)
    \/ /\ bench = "flow" /\ Touches(input) < MaxTouches
       /\ \E i, j \in DOMAIN input.status :
             \/ input' = [input EXCEPT !.blocked[i] = @ \union {j}]
             \/ \E s \in {"review", "done", "cancelled"} :
                   i = j /\ input.status[i] = "todo" /\ input' = [input EXCEPT !.status[i] = s]
             \/ i = j /\ input' = [input EXCEPT !.member = @ \ {i}]
    \/ /\ bench = "users" /\ Len(input) < MaxImports
       /\ \E path \in DOMAIN MCFiles : \E r \in RowsOf(path) :
             /\ input' = Append(input, r)
             /\ InOrder(input')
    \/ /\ bench = "calls" /\ Len(input) < MaxPieces
       /\ \E piece \in {"/", "items", "bulk"} \union {"v", "BASE", "ITEMS", "Paths.ITEM"} :
             /\ input' = Append(input, piece)
             /\ Len(LiteralOf(input')) <= 4
    \/ /\ bench = "maps" /\ Len(input) < MaxTrees
       /\ \E t \in MCTrees : input' = Append(input, t)
    \/ /\ bench = "page"
       /\ LET high == PT!Height(input)
          IN  \/ Len(input) < MaxRun /\ high < 3 /\ \E p \in Pieces : input' = Append(input, p)
              \/ Len(input) < 2 /\ \E p \in HighPieces : input' = Append(input, p)
              \/ Len(input) = 2 /\ high < 3 /\ \E w \in Wraps({input}) : input' = <<w>>
    \/ /\ bench = "editor" /\ Len(input) < MaxRun
       /\ \E v \in TextItems \union (IF input = <<>> THEN OtherItems ELSE {}) :
             input' = Append(input, v)
    \/ /\ bench = "body"
       /\ \E side \in DOMAIN input, line \in Text :
             /\ Len(input[side]) < MaxLines
             /\ input' = [input EXCEPT ![side] = Append(@, line)]

-----------------------------------------------------------------------------
Init ==
    /\ MapInit /\ tree = [p \in {"p", "q"} |-> IF p = "p" THEN "b1" ELSE "b2"]
    /\ FH!Init /\ Cardinality({i \in Issue : commit[1].tree[i] = Gone}) = 1
               /\ commit[1].tree["i"] = "todo"
    /\ IT!Init
    /\ \/ /\ PureInit \/ (bench \in {"map", "history", "tables"} /\ input = <<>>)
          /\ op = "merge" /\ newer = "ours" /\ shown = {} /\ files = <<>> /\ pc = "read"
          /\ result = Nothing /\ disk = AsOurs /\ exit = Running
       \/ bench = "merge" /\ input = <<>> /\ DriverInit

Next ==
    \/ /\ bench = "map" /\ MapNext
       /\ UNCHANGED <<bench, input, historyVars, tableVars, driverVars>>
    \/ /\ bench = "history" /\ FH!Next
       /\ UNCHANGED <<bench, input, mapVars, tableVars, driverVars>>
    \/ /\ bench = "tables" /\ IT!Next
       /\ UNCHANGED <<bench, input, mapVars, historyVars, driverVars>>
    \/ /\ bench = "merge" /\ DriverNext
       /\ UNCHANGED <<bench, input, mapVars, historyVars, tableVars>>
    \/ Grow /\ UNCHANGED <<bench, mapVars, historyVars, tableVars, driverVars>>

(* Refreshes of the map do not overlap; a history of three commits is      *)
(* rewound, or its walk dies; a fourth commit is a merge.                  *)
Bounded  == /\ ~torn
            /\ rewinds + deaths < 2 /\ rewinds + deaths + Len(commit) < 5
            /\ Len(commit) = 4 => Len(commit[4].parents) = 2
Symmetry == Permutations(Process)

-----------------------------------------------------------------------------

(* A scenario saved with the form, checked and run: for every environment  *)
(* and every way the server may answer.                                    *)
ChainsAreJudgedAsTheyRun ==
    bench = "chain" =>
        \A requires \in Growing :
            /\ SC!SavedChain(requires, input)
            /\ \A answers \in [DOMAIN input -> MCAnswers] :
                  /\ SC!GreenChain(input, requires, answers)
                  /\ \A env \in Growing :
                        SC!CheckedChain(requires, input, env, answers)

(* What is offered for picking, and the diagram of a flow.                 *)
BoardsAreTrue ==
    bench = "flow" =>
        /\ FB!NeverReadyTooSoon(input) /\ FB!ReadyWhenItIs(input)
        /\ FB!BoardAgrees(input)
        /\ FB!StagesAreLongestPaths(input) /\ FB!MainPathIsCritical(input)

(* Whoever is named as a user is one and nobody is missed, a chain of      *)
(* imports is a shortest one, and the pictures of the code agree; a call   *)
(* is to the operations it may call and no other; and a place an authored  *)
(* map says holds is there, as it was confirmed.                           *)
CodeIsToldTruly ==
    /\ bench = "users" =>
          /\ CA!UsersAreTrue(MCMap, "x") /\ CA!UsersAreTrue(MCMap, "n")
          /\ AllTake("n") => /\ CA!ChainsAreShortest(MCMap)
                             /\ CA!OverviewsAddUp(MCMap)
                             /\ CA!PicturesAgree(MCMap)
    /\ bench = "calls" =>
          /\ CA!CallsAreTrue(MCCode, "user", input, MCOperations, MCWords)
          /\ CA!ProofsAreOfTheOperation(MCScenarios, MCOperations, MCWords)
    /\ bench = "maps" =>
          \A confirmed \in {<<>>} \union {("web" :> n) : n \in DOMAIN input} :
              \A entries \in MCEntries :
                  CA!MapsAreJudged("web" :> input, confirmed, entries)

(* A page that is opened in the editor and saved is the page `dit fmt`     *)
(* prints, and what the editor saves it opens and saves again unchanged.   *)
(* No line of anybody is lost, doubled or moved by a merge of two bodies.  *)
TextsAreKept ==
    /\ bench = "page" => PT!PagesAreKept(<<PT!Node("paragraph", <<>>, input)>>)
    /\ bench = "blocks" => PT!PagesAreKept(input)
    /\ bench = "editor" => PT!SavesAreSteady(<<JBlock("paragraph", <<>>, input)>>)
    /\ bench = "edited" => PT!SavesAreSteady(input)
    /\ bench = "body" => BM!BodiesAreKept(input.base, input.ours, input.theirs)
=============================================================================
