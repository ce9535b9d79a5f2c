-------------------------------- MODULE Setup --------------------------------
(***************************************************************************)
(* The commands that write into other people's repositories: `dit init',   *)
(* `dit workflow init', `dit ai init', `dit docs build --index'.  Each     *)
(* writes files, adds them to git's index and commits the index, without   *)
(* the lock of the workspace (but for the last), and can fail or die at    *)
(* every step.                                                             *)
(*                                                                         *)
(* A file is a sequence of pieces: lines somebody wrote, entries, sections *)
(* and marked blocks, or bytes that make it no text, so that reading it    *)
(* fails.  Wording is left out: what DIT writes is the version that wrote  *)
(* it and the names it lists.                                              *)
(*                                                                         *)
(* Code: dit-core/src/lib.rs, dit-core/src/agent.rs, dit-vcs/src/git.rs.   *)
(***************************************************************************)
EXTENDS Naturals, FiniteSets, SequencesExt

CONSTANTS
    MaxCommands,  \* bound: commands begun
    MaxEdits,     \* bound: what a person does in between
    MaxFaults     \* bound: steps that fail, and deaths

VARIABLES
    disk, stage, head,  \* the working tree, git's index, HEAD: files and what they hold
    folders,      \* where content roots stand: at the top, below .dit
    theirs,       \* those at the top were there before DIT
    binary,       \* the version of dit
    issues,       \* changes of the issues
    call,         \* the command that runs, or what the last one came to
    commands, edits, faults

setupVars == <<disk, stage, head, folders, theirs, binary, issues, call, commands, edits, faults>>

Ignore   == ".gitignore"
Readme   == "README.md"
Config   == ".dit/config.yaml"
Template == ".dit/templates"
Report   == ".dit/templates/integration-report.md"
Schema   == ".dit/schema/workflow.yaml"
Secrets  == ".dit/morse.local.yaml"
Guide    == "docs/dit-for-agents.md"
Listing  == "issues/README.md"
Attributes    == [root |-> ".gitattributes", dotdir |-> ".dit/.gitattributes"]
ToolFiles == <<"AGENTS.md", "CLAUDE.md">>
RuleFileNames == {"AGENTS.md", "CLAUDE.md"}
DitFolder == {Config, Template, Report, Schema, Secrets, Attributes.dotdir}

(* A piece: what it is, the version that wrote it, the names it lists.     *)
Piece(is)           == [is |-> is, by |-> 0, lists |-> {}]
Text(version, names) == [is |-> "text", by |-> version, lists |-> names]
Own                 == Piece("own")
Holds(text, is)     == \E i \in DOMAIN text : text[i].is = is
Read(tree, f)       == IF f \in DOMAIN tree THEN tree[f] ELSE <<>>

(* read_to_string fails on a file that is no text; where the code goes on, *)
(* it goes on as if the file were not there.                               *)
Unreadable(tree, f) == Holds(Read(tree, f), "bytes")
ReadText(tree, f)   == IF Unreadable(tree, f) THEN <<>> ELSE Read(tree, f)

-----------------------------------------------------------------------------
(* Marked blocks: from the first start to the first end, wherever that is. *)
First(text, is) == SelectInSeq(text, LAMBDA piece : piece.is = is)
Before(text, n) == SubSeq(text, 1, n - 1)
After(text, n)  == SubSeq(text, n + 1, Len(text))
upsert_marked_block(text, body) ==
    LET block == <<Piece("start"), body, Piece("end")>>
        from == First(text, "start") to == First(text, "end")
    IN  IF from # 0 /\ to > from THEN Before(text, from) \o block \o After(text, to)
        ELSE text \o block
remove_marked_block(text) ==
    LET from == First(text, "legacy") to == First(text, "legacy end")
    IN  IF from # 0 /\ to > from THEN Before(text, from) \o After(text, to) ELSE text
render_document(text, spec) == upsert_marked_block(text, spec)
render_pointer(text)        == upsert_marked_block(remove_marked_block(text), Text(0, {}))

-----------------------------------------------------------------------------
(* Steps of a command.                                                     *)
Writes(f, text)  == <<[do |-> "write", file |-> f, text |-> text, add |-> {}]>>
Adds(fs)         == <<[do |-> "add", file |-> "", text |-> <<>>, add |-> fs]>>
Does(what)       == <<[do |-> what, file |-> "", text |-> <<>>, add |-> {}]>>
WhenMissing(f, text) == IF f \in DOMAIN disk THEN <<>> ELSE Writes(f, text)

(* dit init: every piece only when it is missing, the configuration before *)
(* the folders it makes sense of, and one commit.                          *)
re_init == Config \in DOMAIN disk
init_refuses(layout) ==
    ~re_init /\ ("dotdir" \in folders \/ (layout = "root" /\ "root" \in folders))
init_fails == Unreadable(disk, Ignore)
Entries == <<Piece("cache"), Piece("secrets")>>
WithEntries ==
    LET text == Read(disk, Ignore) IN text \o SelectSeq(Entries, LAMBDA e : ~Holds(text, e.is))
init_with_layout(layout) ==
    (IF WithEntries = Read(disk, Ignore) THEN <<>> ELSE Writes(Ignore, WithEntries))
    \o WhenMissing(Readme, <<Text(0, {})>>)
    \o WhenMissing(Config, <<Text(0, {layout})>>)
    \o WhenMissing(Attributes[layout], <<Text(0, {})>>)
    \o WhenMissing(Template, <<Text(0, {})>>)
    \o (IF layout \in folders THEN <<>> ELSE Does(layout))
    \o Adds({Ignore})
    \o (IF Readme \in DOMAIN disk THEN <<>> ELSE Adds({Readme}))
    \o Adds(DitFolder)
    \o (IF layout = "root" THEN Adds({Attributes.root}) ELSE <<>>)
    \o Does("commit") \o Does("driver")

(* dit workflow init: the blocks that are missing, or a whole schema; and  *)
(* the template of a report.                                               *)
Blocks == <<Piece("lanes"), Piece("coordination")>>
WithBlocks ==
    IF Schema \notin DOMAIN disk \/ Unreadable(disk, Schema) THEN <<Text(0, {})>> \o Blocks
    ELSE disk[Schema] \o SelectSeq(Blocks, LAMBDA b : ~Holds(disk[Schema], b.is))
init_workflow ==
    LET writes_schema == WithBlocks # Read(disk, Schema)
        writes_report == Report \notin DOMAIN disk
    IN  (IF writes_schema THEN Writes(Schema, WithBlocks) ELSE <<>>)
        \o WhenMissing(Report, <<Text(0, {})>>)
        \o (IF writes_schema THEN Adds({Schema}) ELSE <<>>)
        \o (IF writes_report THEN Adds({Report}) ELSE <<>>)
        \o (IF writes_schema \/ writes_report THEN Does("commit") ELSE <<>>)

(* dit ai init: the document lists the files of rules there are at HEAD,   *)
(* and those that are about to be committed with it.                       *)
targets(only, all) ==
    SelectSeq(ToolFiles, LAMBDA f :
        /\ only = {} \/ f \in only
        /\ f \in only \/ all \/ f = "AGENTS.md" \/ f \in DOMAIN disk)
rule_files == RuleFileNames \cap DOMAIN head
agent_context_HeadOnly(pending) == rule_files
agent_context(pending) == rule_files \union (Range(pending) \cap RuleFileNames)
agent_spec_with(pending) == Text(binary, agent_context(pending))

Changes(f, text) == IF text = ReadText(disk, f) THEN <<>> ELSE Writes(f, text) \o Adds({f})
write_agent_docs(only, all) ==
    LET files == targets(only, all)
        steps == Changes(Guide, render_document(ReadText(disk, Guide), agent_spec_with(files)))
                 \o FlattenSeq([i \in DOMAIN files |->
                        Changes(files[i], render_pointer(ReadText(disk, files[i])))])
    IN  IF steps = <<>> THEN <<>> ELSE steps \o Does("commit")

(* dit docs build --index: the list of the issues, made anew.              *)
render_issue_index == <<Text(binary, {issues})>>
build_docs_index ==
    IF ReadText(disk, Listing) = render_issue_index THEN <<>>
    ELSE Writes(Listing, render_issue_index) \o Adds({Listing}) \o Does("commit")

-----------------------------------------------------------------------------
Command == [does : {"init"}, layout : {"root", "dotdir"}, only : {{}}, all : {FALSE}]
    \union [does : {"workflow", "listing"}, layout : {"root"}, only : {{}}, all : {FALSE}]
    \union [does : {"agents"}, layout : {"root"}, only : {{}, {"CLAUDE.md"}}, all : BOOLEAN]
Refuses(c) == IF c.does = "init" THEN init_refuses(c.layout) ELSE ~re_init
Fails(c) == c.does = "init" /\ init_fails
Plan(c) ==
    IF c.does = "init" THEN init_with_layout(c.layout)
    ELSE IF c.does = "workflow" THEN init_workflow
    ELSE IF c.does = "agents" THEN write_agent_docs(c.only, c.all)
    ELSE build_docs_index

NoCall == [at |-> "idle", does |-> [does |-> "init", layout |-> "root", only |-> {}, all |-> FALSE],
           todo |-> <<>>, was |-> <<>>, clean |-> FALSE, tidy |-> FALSE]

(* A folder in which older agents have worked already.                     *)
Used == [f \in {Secrets, "CLAUDE.md"} |->
           IF f = Secrets THEN <<Own>>
           ELSE <<Own, Piece("legacy"), Text(0, {}), Piece("legacy end"), Own>>]
SetupInit ==
    /\ disk \in {<<>>, Used}
    /\ stage = <<>> /\ head = <<>>
    /\ theirs \in BOOLEAN /\ folders = IF theirs THEN {"root"} ELSE {}
    /\ binary = 1 /\ issues = 0 /\ call = NoCall /\ commands = 0 /\ edits = 0 /\ faults = 0

Begin(c) ==
    /\ call.at # "running" /\ commands < MaxCommands
    /\ call' = [at |-> IF Refuses(c) THEN "refused" ELSE IF Fails(c) THEN "failed"
                       ELSE IF Plan(c) = <<>> THEN "ok" ELSE "running",
                does |-> c, todo |-> IF Refuses(c) \/ Fails(c) THEN <<>> ELSE Plan(c), was |-> disk,
                clean |-> stage = head,
                tidy |-> \A f \in DOMAIN disk \ {Secrets} : f \in DOMAIN head /\ head[f] = disk[f]]
    /\ commands' = commands + 1
    /\ UNCHANGED <<disk, stage, head, folders, theirs, binary, issues, edits, faults>>

(* git add takes what is there, and what is ignored only if git has it     *)
(* already; a commit takes the whole index.  Where nothing is staged git   *)
(* says so, which is no error; in other words where the tree differs from  *)
(* HEAD by untracked files alone, and those are not understood.            *)
Taken(fs) == {f \in fs \cap DOMAIN disk :
                f # Secrets \/ f \in DOMAIN stage \/ ~Holds(Read(disk, Ignore), "secrets")}
With(tree, f, text) == [g \in DOMAIN tree \union {f} |-> IF g = f THEN text ELSE tree[g]]
Without(tree, fs)   == [g \in DOMAIN tree \ fs |-> tree[g]]
Staged(fs) == [g \in (DOMAIN stage \ fs) \union Taken(fs) |->
                 IF g \in Taken(fs) THEN disk[g] ELSE stage[g]]
Untracked  == {f \in DOMAIN disk \ DOMAIN stage :
                 f # Secrets \/ ~Holds(Read(disk, Ignore), "secrets")}
Modified   == {f \in DOMAIN stage : Read(disk, f) # stage[f]}
Understood == stage # head \/ Modified # {} \/ Untracked = {}

Goes == call' = [call EXCEPT !.todo = Tail(@), !.at = IF Len(call.todo) = 1 THEN "ok" ELSE @]
Step ==
    /\ call.at = "running" /\ Goes
    /\ LET s == Head(call.todo) IN
       \/ s.do = "write" /\ disk' = With(disk, s.file, s.text) /\ UNCHANGED <<stage, head, folders>>
       \/ s.do = "add" /\ stage' = Staged(s.add) /\ UNCHANGED <<disk, head, folders>>
       \/ s.do \in {"root", "dotdir"} /\ folders' = folders \union {s.do} /\ UNCHANGED <<disk, stage, head>>
       \/ s.do = "driver" /\ UNCHANGED <<disk, stage, head, folders>>
       \/ s.do = "commit" /\ Understood /\ head' = stage /\ UNCHANGED <<disk, stage, folders>>
    /\ UNCHANGED <<theirs, binary, issues, commands, edits, faults>>

(* A step fails, the commit also where git is not understood.  The list of *)
(* issues is put back as it was; the others leave what they have done.     *)
PutBack ==
    IF call.does.does = "listing" /\ Head(call.todo).do # "write"
    THEN IF Listing \in DOMAIN call.was /\ ~Unreadable(call.was, Listing) THEN With(disk, Listing, call.was[Listing])
         ELSE Without(disk, {Listing})
    ELSE disk
Fail ==
    /\ call.at = "running"
    /\ \/ faults < MaxFaults /\ faults' = faults + 1
       \/ Head(call.todo).do = "commit" /\ ~Understood /\ UNCHANGED faults
    /\ call' = [call EXCEPT !.at = "failed", !.todo = <<>>]
    /\ disk' = PutBack
    /\ UNCHANGED <<stage, head, folders, theirs, binary, issues, commands, edits>>
Stop ==
    /\ call.at = "running" /\ faults < MaxFaults /\ faults' = faults + 1
    /\ call' = NoCall
    /\ UNCHANGED <<disk, stage, head, folders, theirs, binary, issues, commands, edits>>

(* A person writes a line or bytes that are no text, cuts a piece of a     *)
(* file, removes a file (but not the configuration, which makes a          *)
(* workspace), commits everything, changes the issues, or upgrades dit.    *)
Edited == {Ignore, Guide, "CLAUDE.md", Schema}
Person ==
    /\ call.at # "running" /\ edits < MaxEdits /\ edits' = edits + 1 /\ call' = NoCall
    /\ \/ /\ \/ \E f \in Edited : disk' = With(disk, f, Read(disk, f) \o <<Own>>)
             \/ \E f \in Edited \union {Listing} : disk' = With(disk, f, Read(disk, f) \o <<Piece("bytes")>>)
             \/ \E f \in Edited \cap DOMAIN disk : \E i \in DOMAIN disk[f] :
                   disk' = With(disk, f, RemoveAt(disk[f], i))
             \/ \E f \in DOMAIN disk \ {Config, Secrets} : disk' = Without(disk, {f})
          /\ UNCHANGED <<stage, head, binary, issues>>
       \/ /\ stage' = Without(disk, {Secrets}) /\ stage' # head /\ head' \in {head, stage'}
          /\ UNCHANGED <<disk, binary, issues>>
       \/ issues' = issues + 1 /\ UNCHANGED <<disk, stage, head, binary>>
       \/ binary' = binary + 1 /\ UNCHANGED <<disk, stage, head, issues>>
    /\ UNCHANGED <<folders, theirs, commands, faults>>

SetupNext == (\E c \in Command : Begin(c)) \/ Step \/ Fail \/ Stop \/ Person
SetupSpec == SetupInit /\ [][SetupNext]_setupVars

-----------------------------------------------------------------------------
(* A file whose blocks are whole: each start has its end before the next,  *)
(* and nothing generated stands outside of them.                           *)
Marks(text) == SelectSeq(text, LAMBDA p : p.is \in {"start", "end", "legacy", "legacy end", "text"})
Framed(text) ==
    LET marks == Marks(text) IN
    /\ Len(marks) % 3 = 0
    /\ \A i \in DOMAIN marks :
          /\ i % 3 = 1 => marks[i].is \in {"start", "legacy"}
          /\ i % 3 = 2 => marks[i].is = "text"
          /\ i % 3 = 0 => marks[i].is = (IF marks[i - 2].is = "start" THEN "end" ELSE "legacy end")
(* What a person has written outside of the blocks.                        *)
Outside(text) ==
    LET inside(i) == \E from, to \in DOMAIN text :
            /\ from < i /\ i < to /\ text[from].is \in {"start", "legacy"}
            /\ text[to].is \in {"end", "legacy end"}
            /\ \A j \in (from + 1)..(to - 1) : text[j].is \notin {"start", "legacy", "end", "legacy end"}
    IN  Cardinality({i \in DOMAIN text : text[i].is = "own" /\ ~inside(i)})

WholeFiles == \A f \in {Guide} \union Range(ToolFiles) : Framed(Read(call.was, f))

(* No command takes a line somebody wrote out of a file that is text and   *)
(* whose blocks are whole (upsert_marked_block: everything outside         *)
(* survives).  What is no text is written over by the blocks alone.        *)
OwnLinesStay ==
    call.at # "idle" =>
        \A f \in DOMAIN call.was \ {Listing} :
            /\ f \in {Guide} \union Range(ToolFiles) => Framed(call.was[f])
            /\ f \in {Guide, Schema} \union Range(ToolFiles) => ~Unreadable(call.was, f)
            => Outside(Read(disk, f)) = Outside(call.was[f])

(* The secrets of this machine never reach git's index by a command.       *)
SecretsStayHere == Secrets \notin DOMAIN stage \union DOMAIN head

(* A command that ended well has what it is for at HEAD; the ones that     *)
(* commit only what they wrote, where the tree was tidy.                   *)
Owed(c) ==
    IF c.does = "init" THEN {Ignore, Config, Template, Attributes[c.layout]}
    ELSE IF c.does = "workflow" THEN {Schema, Report}
    ELSE IF c.does = "agents" THEN {Guide} \union Range(targets(c.only, c.all))
    ELSE {Listing}
EndedWellIsCommitted ==
    call.at = "ok" /\ (call.does.does = "init" \/ call.tidy) =>
        \A f \in Owed(call.does) : f \in DOMAIN head /\ head[f] = Read(disk, f)

(* The same command again would write nothing (write_agent_docs: a second  *)
(* run writes nothing).                                                    *)
SecondRunSettles ==
    call.at = "ok" /\ call.clean /\ WholeFiles =>
        \A i \in DOMAIN Plan(call.does) : Plan(call.does)[i].do # "write"

(* What doctor asks after: the cache is ignored once a workspace is made,  *)
(* the guide is this binary's once it was written.                         *)
DoctorAgrees ==
    call.at = "ok" =>
        /\ call.does.does = "init" => Holds(disk[Ignore], "cache")
        /\ call.does.does = "agents" /\ WholeFiles =>
              disk[Guide][First(disk[Guide], "text")].by = binary

(* An init is refused only for folders that are not DIT's, so that one     *)
(* that died can be repeated; a list that could not be committed is as it  *)
(* was, or gone when it was no text.                                       *)
RetriesAreOpen ==
    /\ call.at = "refused" /\ call.does.does = "init" => theirs
    /\ call.at = "failed" /\ call.does.does = "listing" =>
          \/ Read(disk, Listing) = Read(call.was, Listing)
          \/ Unreadable(call.was, Listing) /\ Listing \notin DOMAIN disk

SetupIsSafe ==
    /\ OwnLinesStay /\ SecretsStayHere /\ EndedWellIsCommitted
    /\ SecondRunSettles /\ DoctorAgrees /\ RetriesAreOpen
=============================================================================
