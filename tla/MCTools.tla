------------------------------- MODULE MCTools -------------------------------
(***************************************************************************)
(* What a person's tools do around the write path, each on a bench of its  *)
(* own: a behaviour picks one bench and stays on it.  The server with its  *)
(* list of workspaces and its tray (Tray), the pages of the web            *)
(* application (LiveUpdates), the Morse workbench and the calls of         *)
(* requests and commands (Calls) are extended, the others instantiated.    *)
(***************************************************************************)
EXTENDS Tray, LiveUpdates, Workbench, Calls, TLC

CONSTANTS
    Line,         \* a line of a frontmatter: SomeLines
    Char,         \* a character of a value
    fa, fb

VARIABLES
    bench,        \* the component this behaviour is about
    \* Documents, Scalars and MorseText
    lines, text

-----------------------------------------------------------------------------
(* Two requests and a command, of which two are called.                    *)
HD == INSTANCE Handlers
AllPlans == HD!Routes \union HD!AllCommands
InOrder  == called["t2"] # NotCalled => called["t1"] # NotCalled

(* A listed workspace, and a folder that `create' may take or one that     *)
(* only a command may add.                                                 *)
OneListed == {[entries |-> {[name |-> <<fa, 1>>, path |-> fa]}, default |-> <<fa, 1>>]}
TwoFolders == {fa :> "workspace" @@ fb :> other : other \in {"empty", "plain"}}

(* Lines of a file by hand: keys twice, blocks, remarks, a list that has a *)
(* note behind it.                                                         *)
DC == INSTANCE Documents WITH Key <- {"title", "lane", "labels", "updated", "more"}
SL == INSTANCE Scalars

SomeLines ==
    {DC!KeyLine("title", DC!Scalar("a"), noted) : noted \in BOOLEAN}
      \union {DC!KeyLine(k, DC!Empty, FALSE) : k \in {"lane", "labels", "more"}}
      \union {DC!KeyLine("labels", DC!List(<<"a">>), TRUE),
              DC!KeyLine("updated", DC!Scalar("a"), FALSE),
              DC!ItemLine("a"), DC!NestedLine, DC!RemarkLine, DC!LooseLine}
SomePatches ==
    [set : UNION {[keys -> {DC!Scalar("b")}] : keys \in SUBSET {"title", "lane"}}
             \union {"labels" :> DC!List(<<"b">>)},
     clear : SUBSET {"lane"}]

(* Lines of a config file; lines of a page with fences; and what a person  *)
(* may put behind a step of a scenario.                                    *)
MT == INSTANCE MorseText
Word(w) == MT!Str(MT!T(w))
YamlLines ==
    UNION {{MT!KeyLine(n, "a", MT!Absent), MT!KeyLine(n, "b", Word("x")), MT!KeyLine(n, "c", MT!Bar),
            MT!DashLine(n, MT!NoKey, MT!Absent), MT!DashLine(n, MT!NoKey, Word("x")),
            MT!DashLine(n, "a", Word("x")), MT!WordLine(n, "word")} : n \in {0, 2, 4}}
      \union {MT!BlankLine, MT!WordLine(2, "# remark")}
PageLines ==
    {MT!WordLine(0, w) : w \in {"3 ticks", "4 ticks", "3 ticks, dit-morse", "4 ticks, dit-morse"}}
      \union {MT!BlankLine} \union {MT!KeyLine(0, "scenario", Word(s)) : s \in {"s1", "s2"}}
Bodies == {<<MT!KeyLine(0, "scenario", Word("s1")), MT!BlankLine>>,
           <<MT!KeyLine(0, "scenario", Word("s2")), MT!WordLine(8, "3 ticks")>>}

Flow(k, node) == MT!MapOf(<<MT!Pair(k, node)>>)
Heads ==
    {<<MT!DashLine(0, "id", Word("one")), MT!KeyLine(2, "request", Word("r"))>>,
     <<MT!DashLine(0, "id", Word("one")), MT!KeyLine(2, "operation", Word("spec/op"))>>,
     <<MT!DashLine(0, "id", Word("one")), MT!KeyLine(2, "request", Word("other"))>>}
Params ==
    {<<>>, <<MT!KeyLine(2, "params", Flow("$.a[0]", Word("x")))>>,
     <<MT!KeyLine(2, "params", Flow("p", MT!ListOf(<<MT!Null, Word(MT!Quotes)>>)))>>}
BlockLines == {MT!WordLine(8, "3 ticks"), MT!WordLine(7, "y"), MT!WordLine(5, "z"),
               MT!WordLine(2, "w"), MT!BlankLine, MT!WordLine(6, "# remark")}
Block(more) == <<MT!KeyLine(2, "raw", MT!Absent), MT!KeyLine(4, "type", Word("text/plain")),
                 MT!KeyLine(4, "text", MT!Bar)>> \o more
Sent ==
    {<<>>, <<MT!KeyLine(2, "body", Flow("p", MT!Null))>>, <<MT!KeyLine(2, "body", Flow("run", Word("x")))>>,
     <<MT!KeyLine(2, "form", Word("x"))>>, <<MT!KeyLine(2, "form", Flow("p", Flow("q", Word("x"))))>>,
     <<MT!KeyLine(2, "raw", MT!MapOf(<<MT!Pair("type", Word("text/plain")),
                                      MT!Pair("text", MT!Str(<<<<1, "x">>>>))>>))>>,
     <<MT!KeyLine(2, "multipart", MT!Absent), MT!DashLine(2, "name", Word("part")),
       MT!KeyLine(4, "value", Word("x"))>>}
      \union {Block(<<a, b>>) : a, b \in BlockLines}
Expected ==
    {<<>>} \union
    {<<MT!KeyLine(2, "expect", MT!Absent), MT!KeyLine(4, "status", Word("200")),
       MT!KeyLine(4, "jsonpath", MT!Absent), check>> :
         check \in {MT!KeyLine(6, "$.a[0]", Word("x")), MT!KeyLine(6, "$.a", Flow("exists", Word("true")))}}
Captured == {<<>>, <<MT!KeyLine(2, "capture", Flow("v", Word("$.a[0]")))>>}

Fence ==
    <<MT!KeyLine(0, "scenario", Word("s1")),
      MT!KeyLine(0, "spec", MT!MapOf(<<MT!Pair("id", Word("spec")), MT!Pair("commit", Word("c"))>>)),
      MT!KeyLine(0, "env", MT!Str(<<<<1, "local">>>>)),
      MT!KeyLine(0, "requires", Word("s0")),
      MT!KeyLine(0, "requests", MT!Absent),
      MT!DashLine(0, MT!NoKey, MT!MapOf(<<MT!Pair("id", Word("r")), MT!Pair("method", Word("GET")),
                                        MT!Pair("path", Word("/p"))>>)),
      MT!KeyLine(0, "proven", Flow("local", MT!MapOf(<<MT!Pair("commit", Word("c")),
                                                       MT!Pair("on", Word("day"))>>)))>>
FenceLines == Fence \o (IF lines = <<>> THEN <<>> ELSE <<MT!KeyLine(0, "steps", MT!Absent)>> \o lines)

(* A hub that keeps the workspace open and a pipeline's command line.      *)
Upsert(name, server, values) ==
    [kind |-> "upsert", name |-> name, server |-> server, plain |-> TRUE, set |-> values, unset |-> {}]
Tasks ==
    {[op |-> "allow", host |-> "h1"], [op |-> "import env", server |-> "h2", vars |-> {"v"}],
     [op |-> "register", id |-> "a"], [op |-> "register", id |-> "b"], [op |-> "unregister", id |-> "a"],
     [op |-> "import", spec |-> "a"]}
      \union {[op |-> "edit", edit |-> e] : e \in
                 {Upsert("default", "h2", {}), [Upsert("pm", "keep", {"v"}) EXCEPT !.unset = {"w"}],
                  [Upsert("pm", "keep", {"w"}) EXCEPT !.plain = FALSE],
                  [kind |-> "rename", name |-> "default", to |-> "pm"], [kind |-> "delete", name |-> "pm"]}}
      \union {[op |-> "send", spec |-> "a", env |-> "default", file |-> sends] :
                                sends \in {"ignored", None}}
      \union {[op |-> "send", spec |-> "a", env |-> None, file |-> None]}
Servers   == "a" :> "h1" @@ "b" :> None
FreeNames == <<"pm", "pm-2">>
Pipelines == "hub" :> [allow |-> {}, vars |-> {}] @@ "cli" :> [allow |-> {"h3"}, vars |-> {"ci"}]

-----------------------------------------------------------------------------
BenchInit ==
    /\ bench \in {"calls", "live", "server", "files", "values", "yaml", "fences", "scenarios",
                  "workbench"}
    /\ CallsInit /\ LiveInit /\ TrayInit /\ WorkbenchInit
    /\ config \in IF bench = "workbench" THEN {{}, {"a"}} ELSE {{}}
    /\ bench # "calls" => ~codeOnly
    /\ bench # "server" => folder[fb] = "empty"
    /\ lines = <<>> /\ text = <<>>

BenchNext ==
    \/ /\ bench = "calls" /\ CallsNext
       /\ UNCHANGED <<bench, liveVars, all, workbenchVars, lines, text>>
    \/ /\ bench = "live" /\ LiveNext
       /\ UNCHANGED <<bench, callVars, all, workbenchVars, lines, text>>
    \/ /\ bench = "server" /\ Next
       /\ UNCHANGED <<bench, callVars, liveVars, workbenchVars, lines, text>>
    \/ /\ \/ /\ bench = "files" /\ Len(lines) < 4
             /\ \E line \in Line : lines' = Append(lines, line)
             /\ UNCHANGED text
          \/ /\ bench = "values" /\ Len(text) < 4
             /\ \E char \in Char : text' = Append(text, char)
             /\ UNCHANGED lines
          \/ /\ \/ /\ bench = "yaml" /\ Len(lines) < 3
                   /\ \E line \in YamlLines : lines' = Append(lines, line)
                \/ /\ bench = "fences" /\ Len(lines) < 5
                   /\ \E line \in PageLines : lines' = Append(lines, line)
                \/ /\ bench = "scenarios" /\ lines = <<>>
                   /\ \E head \in Heads, params \in Params, sent \in Sent, expected \in Expected,
                         captured \in Captured :
                         lines' = lines \o head \o params \o sent \o expected \o captured
             /\ UNCHANGED text
       /\ UNCHANGED <<bench, callVars, liveVars, all, workbenchVars>>
    \/ /\ bench = "workbench" /\ WorkbenchNext
       /\ UNCHANGED <<bench, callVars, liveVars, all, lines, text>>

BenchSpec == BenchInit /\ [][BenchNext]_<<bench, callVars, liveVars, all, workbenchVars, lines, text>>

Bounded == InOrder /\ starts + calls < 4

-----------------------------------------------------------------------------
(* The small YAML drops no line; an edit of a page changes the fence it    *)
(* names; and a scenario the screen saves is the one that is read again.   *)
TextsAreKept ==
    /\ bench = "yaml" => MT!NothingIsDropped(lines)
    /\ bench = "fences" =>
         \A body \in Bodies, s \in {"s1", "s2"} : MT!PageEditsAreSurgical(lines, MT!T(s), body)
    /\ bench = "scenarios" =>
         \A ticks \in {"3 ticks, dit-morse", "4 ticks, dit-morse"} :
            MT!ScenariosAreKept(FenceLines, ticks)

(* A title that is written to a file is read back from it as it was        *)
(* (serialize_scalar, validate_value, parse_value).                        *)
WrittenValuesAreRead == bench = "values" => SL!ScalarIsRead(text)

(* An edit leaves every other line of a file where it was, and a value it  *)
(* writes is read back (Values: without brackets, commas, double quotes    *)
(* and backslashes).  The texts are kept too.                              *)
EditsAreSurgical ==
    /\ bench = "files" =>
         /\ \A kind \in {DC!Issue, DC!Release}, patch \in SomePatches :
               DC!EditsAreSurgical(kind, lines, patch, DC!Scalar("b"))
         /\ \A kind \in {DC!Issue, DC!Comment, DC!Release} : DC!NewIsRead(kind, lines)
    /\ TextsAreKept
    /\ bench = "values" =>
         /\ SL!ScalarIsRead(text)
         /\ \A items \in {<<text>>, <<text, <<"x">>>>, <<<<"x">>, text>>} : SL!ListIsRead(items)
=============================================================================
