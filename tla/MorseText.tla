------------------------------ MODULE MorseText ------------------------------
(***************************************************************************)
(* A Morse scenario as text: the fence that holds it in a page, how it is  *)
(* found, replaced, taken out and added there, and what is read from it    *)
(* and written back by the screen.                                         *)
(*                                                                         *)
(* Code: dit-parse/src/morse.rs, morse_write.rs, flowshape.rs.             *)
(***************************************************************************)
EXTENDS SmallYaml

Quotes  == "both quotes"         \* a word that holds both kinds of quote
BadKeys == {"$.a[0]", ""}       \* keys that would need quotes

-----------------------------------------------------------------------------
(* Fences: an opening line has a word behind its backticks, or none.       *)
MORSE_FENCE == "dit-morse"
Backticks(line) ==
    CASE WordOf(line) \in {"3 ticks", "3 ticks, dit-morse"} -> 3
      [] WordOf(line) \in {"4 ticks", "4 ticks, dit-morse"} -> 4
      [] OTHER                                              -> 0
Info(line) ==
    IF WordOf(line) \in {"3 ticks, dit-morse", "4 ticks, dit-morse"} THEN MORSE_FENCE ELSE ""
Closes(line, ticks) == Backticks(line) >= ticks /\ Info(line) = ""

RECURSIVE trim_end(_)
trim_end(lines) ==
    IF lines # <<>> /\ Last(lines) = BlankLine THEN trim_end(Front(lines)) ELSE lines

(* From an opening line to the next with as many backticks and nothing     *)
(* behind them, or to the end of the page.                                 *)
Fence(page, from, to) == [line |-> from, info |-> Info(page[from]),
                          body |-> trim_end(SubSeq(page, from + 1, to - 1))]
AllOf(page, end) ==
    IF end.open = 0 THEN end.found ELSE Append(end.found, Fence(page, end.open, Len(page) + 1))
fences(page) ==
    LET Step(state, i) ==
            IF state.open = 0
            THEN IF Backticks(page[i]) >= 3 THEN [state EXCEPT !.open = i] ELSE state
            ELSE IF Closes(page[i], Backticks(page[state.open]))
                 THEN [found |-> Append(state.found, Fence(page, state.open, i)), open |-> 0]
                 ELSE state
    IN  AllOf(page, FoldLeft(Step, [found |-> <<>>, open |-> 0], [i \in DOMAIN page |-> i]))
morse_fences(page) == SelectSeq(fences(page), LAMBDA f : f.info = MORSE_FENCE)

scenario_in_fence(body) ==
    LET i == SelectInSeq(body, LAMBDA line : /\ ~line.dash /\ line.key = "scenario"
                                             /\ line.value.is = "text")
    IN  IF i = 0 THEN NoText ELSE body[i].value.text

(* Remarks would be lost: such a fence is edited in its page.              *)
has_comments(body) == \E i \in DOMAIN body : IsRemark(body[i])

(* The opening and the closing line of the fence that names a scenario.    *)
NotThere == <<0, 0>>
UpToEnd(page, open) ==
    LET close == {i \in open + 1..Len(page) : Closes(page[i], Backticks(page[open]))}
    IN  IF close = {} THEN NotThere ELSE <<open, Min(close)>>
FirstOf(page, named) == IF named = <<>> THEN NotThere ELSE UpToEnd(page, Head(named).line)
fence_bounds(page, scenario) ==
    FirstOf(page, SelectSeq(morse_fences(page), LAMBDA f : scenario_in_fence(f.body) = scenario))

Between(page, at, body) == SubSeq(page, 1, at[1]) \o body \o SubSeq(page, at[2], Len(page))
replace_morse_fence(page, scenario, body) ==
    Between(page, fence_bounds(page, scenario), trim_end(body))
Without(page, at) ==
    LET Blank(i) == i \in DOMAIN page /\ page[i] = BlankLine
        from == IF ~Blank(at[2] + 1) /\ Blank(at[1] - 1) THEN at[1] - 1 ELSE at[1]
        to   == IF Blank(at[2] + 1) THEN at[2] + 1 ELSE at[2]
    IN  SubSeq(page, 1, from - 1) \o SubSeq(page, to + 1, Len(page))
remove_morse_fence(page, scenario) == Without(page, fence_bounds(page, scenario))
append_morse_fence(page, body) ==
    LET before == trim_end(page)
    IN  before \o (IF before = <<>> THEN <<>> ELSE <<BlankLine>>)
          \o <<WordLine(0, "3 ticks, dit-morse")>> \o trim_end(body) \o <<WordLine(0, "3 ticks")>>

-----------------------------------------------------------------------------
(* Reading.  A field is a text that is not blank.                          *)
Trim(text) == IF text \in {NoText, T("")} THEN NoText ELSE [text EXCEPT ![1][1] = 0]
entry_str(node, k) == Trim(as_str(Get(node, k)))
Pairs(node, k) == IF Get(node, k).is = "map" THEN Get(node, k).pairs ELSE <<>>
Items(node, k) == IF Get(node, k).is = "seq" THEN Get(node, k).items ELSE <<>>
Each(Op(_), s)   == [i \in DOMAIN s |-> Op(s[i])]
All(Test(_), s)  == \A i \in DOMAIN s : Test(s[i])
Distinct(s)      == \A i, j \in DOMAIN s : s[i] = s[j] => i = j
Fields(s, name)  == {s[i][name] : i \in DOMAIN s}

(* Names of what could be run or fetched are refused wherever they stand.  *)
FORBIDDEN_KEYS == {"run", "url"}
RECURSIVE Allowed(_)
Allowed(node) ==
    /\ node.is = "map" => All(LAMBDA p : p.key \notin FORBIDDEN_KEYS /\ Allowed(p.node), node.pairs)
    /\ node.is = "seq" => All(Allowed, node.items)

(* A value keeps its tree; nothing is an empty text.                       *)
RECURSIVE value(_)
value(node) ==
    CASE node.is = "null" -> Str(T(""))
      [] node.is = "seq"  -> ListOf(Each(value, node.items))
      [] node.is = "map"  -> MapOf(Each(LAMBDA p : Pair(p.key, value(p.node)), node.pairs))
      [] OTHER            -> node

METHODS == {T("GET"), T("POST")}
is_plain_path(text)  == text \in {T("/p"), T("/q")}
IsOperation(text)    == text = T("spec/op")
is_media_type(text)  == text = T("text/plain")
IsSelector(text)     == text \in {T("status"), T("header:h"), T("$.a"), T("$.a[0]")}
IsStatus(text)       == text \in {NoText, T("200")}
IsRule(node)         == node.is = "text" \/ as_str(Get(node, "exists")) = T("true")
expect_rule(node)    == IF node.is = "text" THEN node ELSE [is |-> "exists"]

(* One body at most, in one of four shapes.                                *)
Shapes(node) == SelectSeq(<<"body", "form", "raw", "multipart">>, LAMBDA k : Has(node, k))
PartReads(part) ==
    /\ entry_str(part, "name") \notin {NoText, T(Quotes)}
    /\ Has(part, "value") # (entry_str(part, "file") # NoText)
    /\ entry_str(part, "type") # NoText => is_media_type(entry_str(part, "type"))
BodyReads(node) ==
    LET shape == Get(node, Head(Shapes(node))) IN
    /\ Len(Shapes(node)) <= 1
    /\ Has(node, "form") => shape.is = "map"
    /\ Has(node, "raw") =>
         /\ is_media_type(entry_str(shape, "type"))
         /\ (as_str(Get(shape, "text")) # NoText) # (entry_str(shape, "file") # NoText)
    /\ Has(node, "multipart") => shape.is = "seq" /\ All(PartReads, shape.items)
MultipartPart(part) ==
    [name |-> entry_str(part, "name"), file |-> entry_str(part, "file"),
     value |-> IF Has(part, "value") THEN value(Get(part, "value")) ELSE Absent,
     type |-> entry_str(part, "type")]
request_body(node) ==
    LET k == Head(Shapes(node)) shape == Get(node, k) IN
    IF Shapes(node) = <<>> THEN [is |-> "none"]
    ELSE CASE k = "body" -> [is |-> "json", value |-> value(shape)]
           [] k = "form" -> [is |-> "form", pairs |-> value(shape).pairs]
           [] k = "raw"  -> [is |-> "raw", type |-> entry_str(shape, "type"),
                             text |-> as_str(Get(shape, "text")), file |-> entry_str(shape, "file")]
           [] OTHER      -> [is |-> "multipart", parts |-> Each(MultipartPart, shape.items)]

(* A step names an operation or a request of its fence, never both.  Its   *)
(* params stand for its query and headers too.                             *)
StepReads(node, requests) ==
    LET operation == entry_str(node, "operation") request == entry_str(node, "request") IN
    /\ entry_str(node, "id") # NoText
    /\ operation = NoText \/ request = NoText
    /\ IF request = NoText THEN IsOperation(operation) ELSE request \in Fields(requests, "id")
    /\ IsStatus(entry_str(Get(node, "expect"), "status"))
    /\ All(LAMBDA p : IsRule(p.node), Pairs(Get(node, "expect"), "jsonpath"))
    /\ All(LAMBDA p : IsSelector(Trim(as_str(p.node))), Pairs(node, "capture"))
    /\ BodyReads(node)
step(node) ==
    [id |-> entry_str(node, "id"),
     operation |-> entry_str(node, "operation"), request |-> entry_str(node, "request"),
     params |-> Each(LAMBDA p : Pair(p.key, value(p.node)), Pairs(node, "params")),
     body |-> request_body(node),
     status |-> entry_str(Get(node, "expect"), "status"),
     json |-> Each(LAMBDA p : Pair(p.key, expect_rule(p.node)), Pairs(Get(node, "expect"), "jsonpath")),
     capture |-> Each(LAMBDA p : Pair(p.key, Trim(as_str(p.node))), Pairs(node, "capture"))]

Request(node) ==
    [id |-> entry_str(node, "id"), method |-> entry_str(node, "method"),
     path |-> entry_str(node, "path"), summary |-> entry_str(node, "summary")]
RequestReads(request) ==
    request.id # NoText /\ request.method \in METHODS /\ is_plain_path(request.path)
Proof(p) == [env |-> p.key, commit |-> entry_str(p.node, "commit"), on |-> entry_str(p.node, "on")]
requires(node) ==
    LET named == SelectSeq(Each(LAMBDA item : Trim(as_str(item)), Items(node, "requires")),
                           LAMBDA text : text # NoText)
    IN  IF entry_str(node, "requires") # NoText THEN <<entry_str(node, "requires")>> ELSE named

Unread == [is |-> "unread"]
Readable(root, spec, requests, steps, proven) ==
    LET IsList(k) == Has(root, k) => Get(root, k).is = "seq" IN
    /\ Allowed(root)
    /\ entry_str(root, "scenario") # NoText
    /\ entry_str(spec, "id") # NoText /\ entry_str(spec, "commit") # NoText
    /\ IsList("requests") /\ IsList("steps")
    /\ All(RequestReads, requests) /\ Distinct([i \in DOMAIN requests |-> requests[i].id])
    /\ All(LAMBDA node : StepReads(node, requests), steps)
    /\ Distinct([i \in DOMAIN steps |-> entry_str(steps[i], "id")])
    /\ All(LAMBDA proof : proof.commit # NoText /\ proof.on # NoText, proven)
Scenario(root, spec, requests, steps, proven) ==
    IF ~Readable(root, spec, requests, steps, proven) THEN Unread
    ELSE [is |-> "scenario", scenario |-> entry_str(root, "scenario"),
          id |-> entry_str(spec, "id"), commit |-> entry_str(spec, "commit"),
          env |-> entry_str(root, "env"), requires |-> requires(root),
          requests |-> requests, steps |-> Each(step, steps), proven |-> proven]
ScenarioOf(root) ==
    Scenario(root, Get(root, "spec"), Each(Request, Items(root, "requests")), Items(root, "steps"),
             Each(Proof, Pairs(root, "proven")))
WhenRead(read) == IF read.ok THEN ScenarioOf(read.node) ELSE Unread
parse_morse_scenario(text) == WhenRead(parse(text))

-----------------------------------------------------------------------------
(* Writing.  A key is bare, a text of one line bare or between the quotes  *)
(* it does not hold; there is no spelling for any other.                   *)
scalar(text) == Len(text) = 1 /\ text # T(Quotes)
key(k)       == k \notin BadKeys
RECURSIVE flow(_)
flow(node) ==
    CASE node.is = "seq" -> All(flow, node.items)
      [] node.is = "map" -> All(LAMBDA p : key(p.key) /\ flow(p.node), node.pairs)
      [] OTHER           -> scalar(node.text)
Given(text) == text = NoText \/ scalar(text)

Spells(s) ==
    LET Part(part) == /\ scalar(part.name) /\ Given(part.file) /\ Given(part.type)
                      /\ part.value # Absent => flow(part.value)
        Body(body) ==
            CASE body.is = "json"      -> flow(body.value)
              [] body.is = "form"      -> flow(MapOf(body.pairs))
              [] body.is = "raw"       -> scalar(body.type) /\ Given(body.file)
                                            /\ (Len(body.text) <= 1 => Given(body.text))
              [] body.is = "multipart" -> All(Part, body.parts)
              [] OTHER                 -> TRUE
        Rule(p)  == key(p.key) /\ (p.node.is = "text" => scalar(p.node.text))
        Step(st) == /\ scalar(st.id) /\ Given(st.operation) /\ Given(st.request)
                    /\ flow(MapOf(st.params)) /\ Body(st.body) /\ All(Rule, st.json)
                    /\ All(LAMBDA c : key(c.key) /\ scalar(c.node), st.capture)
    IN  /\ scalar(s.scenario) /\ scalar(s.id) /\ scalar(s.commit) /\ Given(s.env)
        /\ All(scalar, s.requires)
        /\ All(LAMBDA r : scalar(r.id) /\ scalar(r.path) /\ Given(r.summary), s.requests)
        /\ All(Step, s.steps)
        /\ All(LAMBDA p : key(p.env) /\ scalar(p.commit) /\ scalar(p.on), s.proven)

When(present, lines) == IF present THEN lines ELSE <<>>
Texts(fields) ==        \* the fields of a flow map that are given
    MapOf(Each(LAMBDA f : Pair(f[1], Str(f[2])), SelectSeq(fields, LAMBDA f : f[2] # NoText)))

(* A raw text of several lines is a block, the one form that holds lines.  *)
emit_body(body) ==
    LET Part(part) ==
            DashLine(6, NoKey, MapOf(
                <<Pair("name", Str(part.name))>>
                  \o When(part.value # Absent, <<Pair("value", part.value)>>)
                  \o When(part.file # NoText, <<Pair("file", Str(part.file))>>)
                  \o When(part.type # NoText, <<Pair("type", Str(part.type))>>)))
        Written(line) == IF line[2] = "" THEN BlankLine ELSE WordLine(8 + line[1], line[2])
    IN  CASE body.is = "none" -> <<>>
          [] body.is = "json" -> <<KeyLine(4, "body", body.value)>>
          [] body.is = "form" -> <<KeyLine(4, "form", MapOf(body.pairs))>>
          [] body.is = "multipart" -> <<KeyLine(4, "multipart", Absent)>> \o Each(Part, body.parts)
          [] OTHER ->
               IF Len(body.text) <= 1
               THEN <<KeyLine(4, "raw", Texts(<<<<"type", body.type>>, <<"text", body.text>>,
                                                <<"file", body.file>>>>))>>
               ELSE <<KeyLine(4, "raw", Absent), KeyLine(6, "type", Str(body.type)),
                      KeyLine(6, "text", Bar)>> \o Each(Written, body.text)

emit_step(st) ==
    LET target == IF st.request # NoText THEN KeyLine(4, "request", Str(st.request))
                  ELSE KeyLine(4, "operation", Str(st.operation))
        Check(p) == KeyLine(8, p.key, IF p.node.is = "text" THEN p.node
                                      ELSE MapOf(<<Pair("exists", Str(T("true")))>>))
        From(c) == Pair(c.key, Str(c.node))
    IN  <<DashLine(2, "id", Str(st.id)), target>>
          \o When(st.params # <<>>, <<KeyLine(4, "params", MapOf(st.params))>>)
          \o emit_body(st.body)
          \o When(st.status # NoText \/ st.json # <<>>, <<KeyLine(4, "expect", Absent)>>)
          \o When(st.status # NoText, <<KeyLine(6, "status", Str(st.status))>>)
          \o When(st.json # <<>>, <<KeyLine(6, "jsonpath", Absent)>> \o Each(Check, st.json))
          \o When(st.capture # <<>>, <<KeyLine(4, "capture", MapOf(Each(From, st.capture)))>>)

emit(s) ==
    LET Inline(r) == DashLine(2, NoKey, Texts(<<<<"id", r.id>>, <<"method", r.method>>,
                                                <<"path", r.path>>, <<"summary", r.summary>>>>))
        Proven(p) == KeyLine(2, p.env, Texts(<<<<"commit", p.commit>>, <<"on", p.on>>>>))
    IN  <<KeyLine(0, "scenario", Str(s.scenario)),
          KeyLine(0, "spec", Texts(<<<<"id", s.id>>, <<"commit", s.commit>>>>))>>
          \o When(s.env # NoText, <<KeyLine(0, "env", Str(s.env))>>)
          \o When(s.requires # <<>>, <<KeyLine(0, "requires", ListOf(Each(Str, s.requires)))>>)
          \o When(s.requests # <<>>, <<KeyLine(0, "requests", Absent)>> \o Each(Inline, s.requests))
          \o When(s.steps # <<>>, <<KeyLine(0, "steps", Absent)>>)
          \o FlattenSeq(Each(emit_step, s.steps))
          \o When(s.proven # <<>>, <<KeyLine(0, "proven", Absent)>> \o Each(Proven, s.proven))

(* What is written is read again first, and refused when it reads          *)
(* differently.                                                            *)
Refused == <<>>
IfReadAgain(s, text) == IF parse_morse_scenario(text) = s THEN text ELSE Refused
write_morse_scenario(s) == IF Spells(s) THEN IfReadAgain(s, emit(s)) ELSE Refused

-----------------------------------------------------------------------------
(* An edit of a page changes the one fence it names, and keeps what every  *)
(* fence is: a body that would close its own fence, and a page that ends   *)
(* inside of one, are left out.                                            *)
Kinds(found) == Each(LAMBDA f : <<f.info, f.body>>, found)
EditsOne(page, found, at, scenario, body) ==
    LET k == SelectInSeq(found, LAMBDA f : f.line = at[1])
        fence == <<MORSE_FENCE, trim_end(body)>>
        Fits(n)  == \A i \in DOMAIN body : ~Closes(body[i], n)
        isClosed == \A i \in DOMAIN found :
                        \E j \in found[i].line + 1..Len(page) :
                            Closes(page[j], Backticks(page[found[i].line]))
    IN  /\ at # NotThere /\ Fits(Backticks(page[at[1]])) =>
               Kinds(fences(replace_morse_fence(page, scenario, body)))
                 = [Kinds(found) EXCEPT ![k] = fence]
        /\ at # NotThere =>
               Kinds(fences(remove_morse_fence(page, scenario))) = RemoveAt(Kinds(found), k)
        /\ isClosed /\ Fits(3) =>
               Kinds(fences(append_morse_fence(page, body))) = Append(Kinds(found), fence)
PageEditsAreSurgical(page, scenario, body) ==
    EditsOne(page, fences(page), fence_bounds(page, scenario), scenario, body)

(* A raw text that a block gives back as it is: its first word stands at   *)
(* the left, and no blank line at its end.                                 *)
HeldByBlock(text) ==
    LET words == SelectSeq(text, LAMBDA line : line[2] # "")
    IN  Len(text) <= 1 \/ (words # <<>> /\ Head(words)[1] = 0 /\ Last(text)[2] # "")

(* A scenario that a person wrote can be written by the screen, unless it  *)
(* holds a text or a key without a spelling; and saved in its page it is   *)
(* there again, with nothing changed, unless a line of it closes the fence.*)
IsThere(saved, s) ==
    LET found == SelectSeq(saved, LAMBDA f : scenario_in_fence(f.body) = s.scenario)
    IN  Len(found) = 1 /\ parse_morse_scenario(found[1].body) = s
IsKept(s, written, ticks) ==
    LET page == <<WordLine(0, "prose"), WordLine(0, ticks), KeyLine(0, "scenario", Str(s.scenario)),
                  WordLine(0, "3 ticks"), WordLine(0, "4 ticks"), WordLine(0, "prose")>>
        Raw(st) == st.body.is = "raw" => HeldByBlock(st.body.text)
    IN  /\ Spells(s) /\ All(Raw, s.steps) <=> written # Refused
        /\ written # Refused /\ (\A i \in DOMAIN written : ~Closes(written[i], Backticks(page[2]))) =>
               IsThere(morse_fences(replace_morse_fence(page, s.scenario, written)), s)
CanBeKept(s, ticks) == s # Unread => IsKept(s, write_morse_scenario(s), ticks)
ScenariosAreKept(text, ticks) == CanBeKept(parse_morse_scenario(text), ticks)
=============================================================================
