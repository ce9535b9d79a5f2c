----------------------------- MODULE Workspaces -----------------------------
(***************************************************************************)
(* The list of workspaces on a machine (dit-core/src/registry.rs) and the  *)
(* one server that serves them (dit-server/src/hub.rs).                    *)
(*                                                                         *)
(* The list is a file.  Every call -- a command in a terminal, a handler   *)
(* of the server -- reads it whole, changes what it read and writes it     *)
(* whole; there is no lock.  The server opens a workspace on the first     *)
(* request for it and keeps its router under the name.                     *)
(***************************************************************************)
EXTENDS Naturals

CONSTANTS
    Threads,        \* requests the server works on
    Commands,       \* `dit workspace ...' in terminals
    Folders,        \* folders on the machine
    None,
    Lists, Held,    \* what the list and the folders may be to begin with
    MaxCalls        \* bound: calls that change the list

(* A name comes from the folder's own; `add' numbers it when it is taken.  *)
Numbers == 1..3         \* bound: workspaces of one name, numbered
Names   == Folders \X Numbers
Entries == SUBSET [name : Names, path : Folders]
Tables  == [entries : Entries, default : Names \union {None}]

Listed(l) == {e.name : e \in l.entries}

(* A list gives a name to one folder only and marks as default, if any,    *)
(* one that it lists.                                                      *)
SoundList(l) ==
    /\ \A e, d \in l.entries : e.name = d.name => e = d
    /\ l.default # None => l.default \in Listed(l)

ASSUME WorkspacesAssumption ==
    /\ Threads \intersect Commands = {}
    /\ None \notin Folders \union Names
    /\ Lists \subseteq Tables /\ \A l \in Lists : SoundList(l)
    /\ Held \subseteq [Folders -> {"absent", "empty", "plain", "workspace"}]
    /\ MaxCalls \in Nat

VARIABLES
    list,           \* workspaces.yaml
    folder,         \* what each folder holds
    call,           \* what each call is doing
    hub,            \* the server process
    open,           \* its routers: the folder each name was opened on
    calls,          \* how many calls have begun
    adrift          \* ghost: names whose entry changed under an opened router

vars == <<list, folder, call, hub, open, calls, adrift>>

Callers == Threads \union Commands

Idle == [at |-> "idle"]

-----------------------------------------------------------------------------
(* The list.                                                               *)

PathsOf(l, n) == {e.path : e \in {d \in l.entries : d.name = n}}
FolderListed(l, f) == \E e \in l.entries : e.path = f

With_Replaces(l, n, f) ==
    [entries |-> {e \in l.entries : e.name[1] # n[1]} \union {[name |-> n, path |-> f]},
     default |-> None]

With(l, n, f) == [l EXCEPT !.entries = @ \union {[name |-> n, path |-> f]}]

Without_KeepsDefault(l, n) == [l EXCEPT !.entries = {e \in @ : e.name # n}]

Without(l, n) ==
    [entries |-> {e \in l.entries : e.name # n},
     default |-> IF l.default = n THEN None ELSE l.default]

(* The base name, or the first number after it that is free.               *)
IsFreeName(l, n) ==
    n \notin Listed(l) /\ \A k \in 1..(n[2] - 1) : <<n[1], k>> \in Listed(l)

-----------------------------------------------------------------------------
Init ==
    /\ list \in Lists
    /\ folder \in Held
    /\ call = [c \in Callers |-> Idle]
    /\ hub = "down"
    /\ open = [n \in Names |-> None]
    /\ calls = 0
    /\ adrift = {}

CanAsk(c) ==
    /\ call[c] = Idle
    /\ c \in Threads => hub = "up"

(* A call has read the list, made its change in memory, and will save it.  *)
WillSave(c, op, n, l) ==
    /\ CanAsk(c) /\ calls < MaxCalls
    /\ calls' = calls + 1
    /\ call' = [call EXCEPT ![c] = [at |-> IF op = "create" THEN "make" ELSE "save",
                                    op |-> op, name |-> n, next |-> l, alone |-> TRUE]]
    /\ UNCHANGED <<list, folder, hub, open, adrift>>

(* `create' wants a new or an empty folder under the root, and makes it a  *)
(* workspace before the list is saved.                                     *)
Create(c) ==
    \E f \in Folders :
        /\ <<f, 1>> \notin Listed(list)
        /\ folder[f] \in {"absent", "empty"}
        /\ WillSave(c, "create", <<f, 1>>, With(list, <<f, 1>>, f))

Make(c) ==
    /\ call[c].at = "make"
    /\ folder' = [folder EXCEPT ![call[c].name[1]] = "workspace"]
    /\ call' = [call EXCEPT ![c].at = "save"]
    /\ UNCHANGED <<list, hub, open, calls, adrift>>

(* A folder already listed keeps its name; a browser may add a workspace   *)
(* only.                                                                   *)
Add(c) ==
    \E f \in Folders, n \in Names :
        /\ folder[f] # "absent" /\ ~FolderListed(list, f)
        /\ c \in Threads => folder[f] = "workspace"
        /\ IsFreeName(list, n)
        /\ WillSave(c, "add", n, With(list, n, f))

Remove(c) ==
    \E n \in Listed(list) : WillSave(c, "remove", n, Without(list, n))

SetDefault(c) ==
    \E n \in Listed(list) : WillSave(c, "default", n, [list EXCEPT !.default = n])

(* What the server has under a name, or is about to have.                  *)
Opening(n) == \E t \in Threads : call[t].at \in {"opening", "insert"} /\ call[t].name = n

Moved(l, k) == {n \in Names : PathsOf(l, n) # PathsOf(k, n)}

Removes(c) == c \in Threads /\ call[c].op = "remove"

Drifting(c) ==
    {n \in Moved(list, call[c].next) :
        Opening(n) \/ (open[n] # None /\ ~(Removes(c) /\ n = call[c].name))}

Save(c) ==
    /\ call[c].at = "save"
    /\ list' = call[c].next
    /\ call' = [d \in Callers |->
          CASE d = c -> IF Removes(c) THEN [at |-> "close", name |-> call[c].name] ELSE Idle
            [] d # c /\ call[d].at \in {"make", "save"} -> [call[d] EXCEPT !.alone = FALSE]
            [] OTHER -> call[d]]
    /\ adrift' = adrift \union Drifting(c)
    /\ UNCHANGED <<folder, hub, open, calls>>

(* The handler of a removal forgets the router.                            *)
Close_Keeps(t) ==
    /\ call[t].at = "close"
    /\ call' = [call EXCEPT ![t] = Idle]
    /\ UNCHANGED <<list, folder, hub, open, calls, adrift>>

Close(t) ==
    /\ call[t].at = "close"
    /\ open' = [open EXCEPT ![call[t].name] = None]
    /\ call' = [call EXCEPT ![t] = Idle]
    /\ UNCHANGED <<list, folder, hub, calls, adrift>>

(* The folder cannot be made, the file cannot be written, or the command   *)
(* is stopped: nothing was saved.                                          *)
Fail(c) ==
    /\ call[c].at \in {"make", "save"}
    /\ call' = [call EXCEPT ![c] = Idle]
    /\ UNCHANGED <<list, folder, hub, open, calls, adrift>>

-----------------------------------------------------------------------------
(* A request for a workspace.  The lock of `open' is taken twice: to look, *)
(* and to insert.                                                          *)

Request(t) ==
    \E n \in Names :
        /\ CanAsk(t)
        /\ call' = [call EXCEPT ![t] = IF open[n] # None THEN [at |-> "serving"]
                                       ELSE [at |-> "lookup", name |-> n]]
        /\ n \in Listed(list) \/ open[n] # None        \* others are answered 404
        /\ UNCHANGED <<list, folder, hub, open, calls, adrift>>

LookUp(t) ==
    /\ call[t].at = "lookup"
    /\ call' = [call EXCEPT ![t] =
          IF call[t].name \notin Listed(list) THEN Idle
          ELSE [at |-> "opening", name |-> call[t].name,
                path |-> CHOOSE f \in PathsOf(list, call[t].name) : TRUE]]
    /\ UNCHANGED <<list, folder, hub, open, calls, adrift>>

(* open_for_ui: a workspace, or the code map of a plain repository.        *)
OpenDit(t) ==
    /\ call[t].at = "opening"
    /\ call' = [call EXCEPT ![t] =
          IF folder[call[t].path] \in {"plain", "workspace"} THEN [@ EXCEPT !.at = "insert"]
          ELSE Idle]
    /\ UNCHANGED <<list, folder, hub, open, calls, adrift>>

Insert(t) ==
    /\ call[t].at = "insert"
    /\ open' = [open EXCEPT ![call[t].name] = call[t].path]
    /\ call' = [call EXCEPT ![t] = [at |-> "serving"]]
    /\ UNCHANGED <<list, folder, hub, calls, adrift>>

Answer(t) ==
    /\ call[t].at = "serving"
    /\ call' = [call EXCEPT ![t] = Idle]
    /\ UNCHANGED <<list, folder, hub, open, calls, adrift>>

ThreadStep(t) ==
    Make(t) \/ Save(t) \/ Close(t) \/ LookUp(t) \/ OpenDit(t) \/ Insert(t) \/ Answer(t)

Machine ==
    \/ \E c \in Callers : Create(c) \/ Add(c) \/ Remove(c) \/ SetDefault(c) \/ Fail(c)
    \/ \E c \in Commands : Make(c) \/ Save(c)
    \/ \E t \in Threads : Request(t) \/ ThreadStep(t)

-----------------------------------------------------------------------------
(* Whatever overlaps, each list that is written gives a name to one folder *)
(* only and marks as default one it lists: a name that is taken off and    *)
(* given again does not come back as the default.                          *)
ListIsSound == SoundList(list)

(* A call that no other save overlapped leaves every entry but its own,    *)
(* whichever process wrote it.                                             *)
OthersEntriesStay ==
    [][\A c \in Callers :
          (call[c].at = "save" /\ call[c].alone /\ call'[c].at # "save" /\ list' # list)
          => Moved(list, list') \subseteq {call[c].name}]_vars

(* The server serves under a name the folder the list has under it: what   *)
(* was removed through it is gone at the end of the call, and stays gone.  *)
(* A command that takes a name off, or a removal while a first request is  *)
(* opening the name, leaves the router there.                              *)
ServedIsListed ==
    \A n \in Names :
        \/ open[n] = None \/ n \in adrift
        \/ open[n] \in PathsOf(list, n)
        \/ \E t \in Threads : call[t].at = "close" /\ call[t].name = n
=============================================================================
