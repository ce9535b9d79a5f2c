-------------------------------- MODULE Calls --------------------------------
(***************************************************************************)
(* How a request or a command turns into steps on the workspace, and what  *)
(* its caller is told.  A handler of the server and a command of dit are a *)
(* plan: a sequence of steps.  The threads of one server share an opened   *)
(* workspace under a mutex that is held from the first step to the last;   *)
(* a command opens the workspace for itself.  All share the files, the     *)
(* index and the lock of the write path, so a command may act between two  *)
(* steps of a request, and after its commit before it is read back.        *)
(*                                                                         *)
(* An issue, a page or a release is a thing; its contents are the call     *)
(* that last wrote it; a scenario stands once on its page (Scenarios has   *)
(* the others).  How the write path does a commit is in WriteTransaction:  *)
(* here it is one step that fails and leaves nothing, lands without being  *)
(* seen, or succeeds, with an absorb that may fail.                        *)
(*                                                                         *)
(* Code: dit-server/src/routes.rs, state.rs; dit-cli/src/main.rs;          *)
(* dit-core/src/error.rs, lib.rs.                                          *)
(***************************************************************************)
EXTENDS Naturals, Sequences, FiniteSets, Functions

CONSTANTS
    Thread,       \* requests of one server
    Command,      \* processes of dit
    Plans,        \* of both: [steps, write]
    MaxBegun      \* bound: calls begun

Caller == Thread \union Command
Things == {"old"} \union Caller      \* one that was there, one for each call to make

VARIABLES
    file,         \* who wrote the thing in the tree, or "gone"
    row,          \* the same in the index
    talk,         \* who wrote the comments of the old thing
    alias,        \* who the server says it is: the call that set it
    lock,         \* the lock of the write path
    mutex,        \* the server's workspace: a thread, "free" or "poisoned"
    codeOnly,     \* whether the server shows the code map of a repository
    unheard,      \* calls that saw their commit land, and no frame followed
    lag,          \* whether an absorb failed
    called

callVars == <<file, row, talk, alias, lock, mutex, codeOnly, unheard, lag, called>>

NotCalled == [plan |-> "none"]
Begun == {c \in Caller : called[c] # NotCalled}

(* What may end a call where it only looks: a value that is none, a query  *)
(* that does not parse, a reply to no comment, a claim that is refused, a  *)
(* request that is not sent, an editor that fails.                         *)
Objections(step) ==
    CASE step = "validate"  -> {"BadRequest"}
      [] step = "query"     -> {"Query"}
      [] step = "thread"    -> {"BadRequest"}
      [] step = "template"  -> {"TemplateMissing"}
      [] step = "named"     -> {"Missing"}
      [] step = "form"      -> {"Refuse"}
      [] step = "guard"     -> {"Refuse", "Missing"}
      [] step = "claimable" -> {"Unclaimable"}
      [] step = "verdict"   -> {"Unclean"}
      [] step = "outside"   -> {"Refuse", "Missing", "Io"}
Looks == {"validate", "query", "thread", "template", "named", "form", "guard",
          "claimable", "verdict", "outside"}

(* What may go wrong when a change is staged, by what is staged.           *)
Refusals(step) ==
    CASE step = "create" -> {"Refuse"}
      [] step = "edit"   -> {"Refuse"}
      [] step = "put"    -> {"DocPath", "Refuse", "TooLarge", "Attachment"}
      [] step = "append" -> {"DocPath", "Refuse"}
      [] step = "remove" -> {"DocPath"}
      [] step = "say"    -> {"Store"}
      [] step = "config" -> {"Refuse"}
      [] step = "generate" -> {}
Stages == {"create", "edit", "put", "append", "remove", "say", "config", "generate"}

(* What every handler and every command keeps to (Handlers).  A commit     *)
(* ends a transaction in which something was staged; a handler commits on  *)
(* a workspace that it has asked to write.  What is read back is what the  *)
(* commits before it wrote.  Once there is a commit or an alias no value   *)
(* is judged any more; and behind its only commit a handler only reads     *)
(* back, a command only asks the index.                                    *)
ReadBacks == {"find", "release", "scenario", "read", "last", "index"}
StepNames == Looks \union Stages \union ReadBacks
               \union {"workspace", "open", "resolve", "begin", "commit", "me"}
Judging   == {"validate", "query", "thread", "put", "append", "remove"}
Writing   == {"create", "edit", "put", "append"}
CommitsOf(plan) == Cardinality({i \in DOMAIN plan.steps : plan.steps[i] = "commit"})

IsPlan(plan) ==
    /\ plan \in [by : {"server", "command"}, write : BOOLEAN, steps : Seq(StepNames)]
    /\ \A i \in DOMAIN plan.steps :
          /\ plan.steps[i] = "commit" =>
                /\ i > 1 /\ plan.steps[i - 1] \in Stages
                /\ plan.by = "server" =>
                      plan.write /\ \E j \in 1..i - 1 : plan.steps[j] = "workspace"
          /\ plan.steps[i] = "workspace" => plan.by = "server"
          /\ plan.steps[i] \in ReadBacks =>
                /\ \E j \in 1..i - 1 : plan.steps[j] = "commit"
                /\ plan.steps[i] # "index" =>
                      \A j \in 1..i - 1 : plan.steps[j] = "commit" =>
                         plan.steps[j - 1] \in IF plan.steps[i] = "last" THEN {"say"} ELSE Writing
          /\ \A j \in 1..i - 1 : plan.steps[j] \in {"commit", "me"} =>
                /\ plan.steps[i] \notin Judging
                /\ plan.steps[j] = "commit" /\ CommitsOf(plan) <= 1 =>
                      plan.steps[i] \in IF plan.by = "server" THEN ReadBacks ELSE {"index"}

ASSUME CallsAssumption ==
    /\ {"free", "poisoned", "gone", "old", "none"} \cap Caller = {}
    /\ \A plan \in Plans : IsPlan(plan)

(* What a thing that is not there is called when it is staged.             *)
Absent(step) == IF step = "remove" THEN "Missing" ELSE "Store"

(* The status of an answer, by the error.                                  *)
Status(error) ==
    CASE error \in {"Busy", "Ambiguous", "Refuse", "Unclaimable"} -> 409
      [] error \in {"BadRequest", "Query", "DocPath", "Attachment"} -> 400
      [] error \in {"NotFound", "Missing"}                          -> 404
      [] error = "TooLarge"                                         -> 413
      [] error = "none"                                             -> 200
      [] OTHER                                                      -> 500

(* The exit code of a command, by the error; a claim that is refused has   *)
(* the code of what is not there.                                          *)
ExitCode(error) ==
    CASE error = "Busy"                                             -> 3
      [] error \in {"NotFound", "Missing", "TemplateMissing", "BadRequest", "Unclaimable"} -> 2
      [] error = "none"                                             -> 0
      [] OTHER                                                      -> 1

CallsInit ==
    /\ file = [t \in Things |-> IF t = "old" THEN "old" ELSE "gone"]
    /\ row = file
    /\ talk = <<>> /\ alias = "old" /\ lock = "free" /\ mutex = "free"
    /\ codeOnly \in BOOLEAN
    /\ unheard = {} /\ lag = FALSE
    /\ called = [c \in Caller |-> NotCalled]

-----------------------------------------------------------------------------
Running(c) == called[c] # NotCalled /\ called[c].error = "running"
Step(c)    == IF called[c].at <= Len(called[c].plan.steps)
              THEN called[c].plan.steps[called[c].at] ELSE "answer"
AtStep(c, steps) == Running(c) /\ Step(c) \in steps
Appends(c) == "append" \in Range(called[c].plan.steps)

Onward(c) == called' = [called EXCEPT ![c].at = @ + 1]
Shows(c, who) == called' = [called EXCEPT ![c].at = @ + 1, ![c].shows = who]

(* The call ends: what it held is given back.                              *)
Leave(c) ==
    /\ lock' = IF lock = c THEN "free" ELSE lock
    /\ mutex' = IF mutex = c THEN "free" ELSE mutex
FailWith(c, error) ==
    /\ called' = [called EXCEPT ![c].error = error]
    /\ Leave(c)
    /\ UNCHANGED <<file, row, talk, alias, codeOnly, unheard, lag>>

(* A request arrives, or a command is started; it names a thing.           *)
BeginCall(c) ==
    /\ called[c] = NotCalled /\ Cardinality(Begun) < MaxBegun
    /\ \E plan \in Plans :
          /\ plan.by = IF c \in Thread THEN "server" ELSE "command"
          /\ called' = [called EXCEPT ![c] =
                [plan |-> plan, at |-> 1, landed |-> 0, error |-> "running",
                 thing |-> IF "create" \in Range(plan.steps) THEN c ELSE "old",
                 shows |-> "none", alone |-> TRUE, set |-> FALSE]]
    /\ UNCHANGED <<file, row, talk, alias, lock, mutex, codeOnly, unheard, lag>>

(* A handler that works on the workspace without the mutex.                *)
read_dit_NoMutex(c) ==
    /\ AtStep(c, {"workspace"})
    /\ IF codeOnly /\ called[c].plan.write THEN FailWith(c, "Refuse")
       ELSE /\ Onward(c)
            /\ UNCHANGED <<file, row, talk, alias, lock, mutex, codeOnly, unheard, lag>>

(* The mutex is taken for the whole of the work; a code map is not written. *)
read_dit(c) ==
    /\ AtStep(c, {"workspace"})
    /\ mutex \in {"free", "poisoned"}
    /\ IF mutex = "poisoned" THEN FailWith(c, "Internal")
       ELSE IF codeOnly /\ called[c].plan.write THEN FailWith(c, "Refuse")
       ELSE /\ mutex' = c /\ Onward(c)
            /\ UNCHANGED <<file, row, talk, alias, lock, codeOnly, unheard, lag>>

(* A command opens the workspace, which brings the index to HEAD.          *)
open_dit(c) ==
    /\ AtStep(c, {"open"})
    /\ \/ /\ row' = file /\ Onward(c)
          /\ UNCHANGED <<file, talk, alias, lock, mutex, codeOnly, unheard, lag>>
       \/ FailWith(c, "Vcs")

(* A reference finds one issue of the index, none, or several.             *)
resolve(c) ==
    /\ AtStep(c, {"resolve"})
    /\ \/ /\ row[called[c].thing] # "gone" /\ Onward(c)
          /\ UNCHANGED <<file, row, talk, alias, lock, mutex, codeOnly, unheard, lag>>
       \/ row[called[c].thing] = "gone" /\ FailWith(c, "NotFound")
       \/ FailWith(c, "Ambiguous")

(* Something is looked at that may end the call: what it says, before the  *)
(* workspace is asked; the index; the world outside.                       *)
Look(c) ==
    /\ AtStep(c, Looks)
    /\ \/ Onward(c) /\ UNCHANGED <<file, row, talk, alias, lock, mutex, codeOnly, unheard, lag>>
       \/ \E error \in Objections(Step(c)) : FailWith(c, error)

transaction(c) ==
    /\ AtStep(c, {"begin"})
    /\ IF lock = "free"
       THEN /\ lock' = c /\ Onward(c)
            /\ UNCHANGED <<file, row, talk, alias, mutex, codeOnly, unheard, lag>>
       ELSE FailWith(c, "Busy")

(* A change is staged: the file is read under the lock.                    *)
Stage(c) ==
    /\ AtStep(c, Stages)
    /\ \/ /\ Step(c) \in {"edit", "remove", "say"} => file[called[c].thing] # "gone"
          /\ Onward(c)
          /\ UNCHANGED <<file, row, talk, alias, lock, mutex, codeOnly, unheard, lag>>
       \/ /\ Step(c) \in {"edit", "remove", "say"} /\ file[called[c].thing] = "gone"
          /\ FailWith(c, Absent(Step(c)))
       \/ \E error \in Refusals(Step(c)) : FailWith(c, error)

(* The commit lands and the lock is given back.  A failed absorb costs     *)
(* only the row.                                                           *)
Committed(c, absorbed) ==
    LET what == called[c].plan.steps[called[c].at - 1]
        t == called[c].thing
        after == IF what \in Writing THEN c
                 ELSE IF what = "remove" THEN "gone" ELSE file[t] IN
    /\ file' = [file EXCEPT ![t] = after]
    /\ talk' = IF what = "say" THEN Append(talk, c) ELSE talk
    /\ row' = IF absorbed THEN [row EXCEPT ![t] = after] ELSE row
    /\ lag' = (lag \/ ~absorbed)
    /\ lock' = "free"
    /\ unheard' = unheard \union {c}
    /\ called' = [d \in Caller |->
          IF d = c THEN [called[c] EXCEPT !.at = @ + 1, !.landed = @ + 1]
          ELSE IF called[d] # NotCalled /\ ~({c, d} \subseteq Thread)
          THEN [called[d] EXCEPT !.alone = FALSE] ELSE called[d]]
    /\ UNCHANGED <<alias, mutex, codeOnly>>
(* It lands, but git does not say where HEAD is: the files are put back.   *)
CommitUnseen(c) ==
    /\ called' = [called EXCEPT ![c].at = @ + 1, ![c].landed = @ + 1, ![c].error = "Vcs"]
    /\ Leave(c)
    /\ UNCHANGED <<file, row, talk, alias, codeOnly, unheard, lag>>
commit(c) ==
    /\ AtStep(c, {"commit"})
    /\ \/ Committed(c, TRUE) \/ Committed(c, FALSE)
       \/ FailWith(c, "Vcs") \/ CommitUnseen(c)

(* Behind the commit the answer is read back: from the index, from the     *)
(* file, or the newest comment; others only bring the index on.  Both may  *)
(* fail.  A new scenario may stand in a block of code that its page leaves *)
(* open, and no row has it; one that another process has written since may *)
(* not parse.                                                              *)
Found(c) ==
    CASE Step(c) = "read" -> file[called[c].thing]
      [] Step(c) = "last" -> IF talk = <<>> THEN "gone" ELSE talk[Len(talk)]
      [] OTHER            -> row[called[c].thing]
Vanished(step) ==
    CASE step = "find" -> "NotFound"
      [] step \in {"scenario", "read"} -> "Missing"
      [] OTHER -> "Internal"
ReadBack(c) ==
    /\ AtStep(c, ReadBacks)
    /\ \/ FailWith(c, IF Step(c) = "read" THEN "Io" ELSE "Index")
       \/ /\ \/ Step(c) = "index" /\ Onward(c)
             \/ Step(c) # "index" /\ Found(c) # "gone" /\ Shows(c, Found(c))
          /\ UNCHANGED <<file, row, talk, alias, lock, mutex, codeOnly, unheard, lag>>
       \/ Step(c) # "index" /\ Found(c) = "gone" /\ FailWith(c, Vanished(Step(c)))
       \/ /\ Step(c) = "scenario"
          /\ \/ Appends(c) /\ FailWith(c, "Missing")
             \/ ~called[c].alone /\ Found(c) \notin {c, "gone"} /\ FailWith(c, "Refuse")

(* The alias is saved with the clone, then the server goes by it.          *)
set_me(c) ==
    /\ AtStep(c, {"me"})
    /\ \/ /\ alias' = c /\ called' = [called EXCEPT ![c].at = @ + 1, ![c].set = TRUE]
          /\ UNCHANGED <<file, row, talk, lock, mutex, codeOnly, unheard, lag>>
       \/ FailWith(c, "Vcs")

(* A panic in the work: the mutex is poisoned, the transaction dropped.    *)
Panic(c) ==
    /\ c \in Thread /\ mutex = c /\ Running(c) /\ Step(c) # "commit"
    /\ mutex' = "poisoned"
    /\ lock' = IF lock = c THEN "free" ELSE lock
    /\ called' = [called EXCEPT ![c].error = "Internal"]
    /\ UNCHANGED <<file, row, talk, alias, codeOnly, unheard, lag>>

(* The work is done: the mutex is free, and a write is announced.          *)
write_dit(c) ==
    /\ AtStep(c, {"answer"})
    /\ called' = [called EXCEPT ![c].error = "none"]
    /\ unheard' = IF c \in Thread /\ called[c].plan.write THEN {} ELSE unheard
    /\ Leave(c)
    /\ UNCHANGED <<file, row, talk, alias, codeOnly, lag>>

CallsNext ==
    \E c \in Caller :
       \/ BeginCall(c) \/ Look(c) \/ read_dit(c) \/ open_dit(c) \/ resolve(c)
       \/ transaction(c) \/ Stage(c) \/ commit(c) \/ ReadBack(c)
       \/ set_me(c) \/ Panic(c) \/ write_dit(c)
CallsSpec == CallsInit /\ [][CallsNext]_callVars

-----------------------------------------------------------------------------
Ended(c) == called[c] # NotCalled /\ called[c].error # "running"
Code(c)  == IF c \in Thread THEN Status(called[c].error) ELSE ExitCode(called[c].error)
Commits(c) == CommitsOf(called[c].plan)

(* An answer that tells the caller to change the request, to retry or to   *)
(* skip (400, 409, 413; exit 2, 3) is true: the call has changed nothing   *)
(* (error.rs).  Of calls with several commits only the request that is no  *)
(* request is promised that (put_settings validates every value before it  *)
(* writes any), as of a save of a scenario that another process came       *)
(* between: reading it back may refuse what that one wrote.  A server that *)
(* shows a code map, or whose workspace panicked, never writes.            *)
Promises(c) ==
    \/ Code(c) = 400
    \/ /\ Code(c) \in IF c \in Thread THEN {409, 413} ELSE {2, 3}
       /\ Commits(c) <= 1
       /\ called[c].alone \/ "scenario" \notin Range(called[c].plan.steps)
RefusalsChangeNothing ==
    /\ \A c \in Begun :
          Ended(c) /\ Promises(c) => called[c].landed = 0 /\ (Code(c) = 400 => ~called[c].set)
    /\ codeOnly => \A c \in Thread \cap Begun : called[c].landed = 0
    /\ \A c \in Thread : mutex = c => Running(c)

(* With no other process in between, and while the index absorbs, what a   *)
(* call reads back is what it wrote, and it is not told that what it has   *)
(* written is not there, but for a new scenario in an open block (read_dit *)
(* holds the workspace to the end); a write that succeeds was announced    *)
(* after it landed.                                                        *)
SuccessesAreTrue ==
    \A c \in Begun :
        /\ Ended(c) /\ called[c].landed > 0 /\ called[c].alone /\ ~lag
              => /\ called[c].shows \in {"none", c}
                 /\ Commits(c) = 1 => \/ Code(c) \in IF c \in Thread THEN {200, 500} ELSE {0, 1}
                                      \/ Appends(c) /\ Code(c) = 404
        /\ c \in Thread /\ Ended(c) /\ Code(c) = 200 => c \notin unheard

(* Both, for every call and however calls overlap.                         *)
AnswersAreTrue == RefusalsChangeNothing /\ SuccessesAreTrue
=============================================================================
