----------------------------- MODULE LiveUpdates -----------------------------
(***************************************************************************)
(* What an open page of the web application shows while the workspace      *)
(* moves: writes of the server, which announce themselves, and commits of  *)
(* other processes, which the watcher announces.  A frame says only that   *)
(* the index moved; a page that gets one fetches again.  A page that is    *)
(* cut off subscribes again later and does not fetch for that: it is       *)
(* promised nothing until the next frame.                                  *)
(*                                                                         *)
(* Commits are counted.                                                    *)
(*                                                                         *)
(* Code: dit-server/src/state.rs, routes.rs; dit-core/src/watch.rs;        *)
(* apps/web/src/lib/events.ts, queries.ts.                                 *)
(***************************************************************************)
EXTENDS Naturals

CONSTANTS
    Tab,          \* pages that are open
    Room,         \* frames a subscriber may lag behind (16 in the code)
    MaxCommits    \* bound: commits

ASSUME LiveAssumption == Room \in Nat \ {0} /\ MaxCommits \in Nat

VARIABLES
    commits,      \* commits of the branch
    shown,        \* the one the index shows
    seen,         \* the one the watcher looked at last
    telling,      \* who has an announcement on its way: "server", "watcher"
    live,         \* tabs that are subscribed
    queue,        \* frames a tab has not read
    fetch,        \* a tab's request: "none", "asked", "answered"
    answer,       \* the commit it was answered from
    cache,        \* the commit a tab shows
    cut           \* tabs a frame did not reach since they asked last

liveVars == <<commits, shown, seen, telling, live, queue, fetch, answer, cache, cut>>

LiveInit ==
    /\ commits = 0 /\ shown = 0 /\ seen = 0 /\ telling = {}
    /\ live = {} /\ cut = {}
    /\ queue = [t \in Tab |-> 0]
    /\ fetch = [t \in Tab |-> "none"]
    /\ answer = [t \in Tab |-> 0]
    /\ cache = [t \in Tab |-> 0]

-----------------------------------------------------------------------------
(* A request writes: its commit is absorbed, and announced afterwards.     *)
ServerWrites ==
    /\ commits < MaxCommits
    /\ commits' = commits + 1 /\ shown' = commits + 1
    /\ telling' = telling \union {"server"}
    /\ UNCHANGED <<seen, live, queue, fetch, answer, cache, cut>>

(* Another process commits; a write of dit absorbs it, a person does not.  *)
Elsewhere ==
    /\ commits < MaxCommits
    /\ commits' = commits + 1 /\ shown' \in {shown, commits + 1}
    /\ UNCHANGED <<seen, telling, live, queue, fetch, answer, cache, cut>>

(* A watcher that looks at the index alone takes what another process      *)
(* absorbed as told.                                                       *)
look_now_IndexGate ==
    /\ seen # commits
    /\ seen' = commits /\ shown' = commits
    /\ telling' = IF shown = commits THEN telling ELSE telling \union {"watcher"}
    /\ UNCHANGED <<commits, live, queue, fetch, answer, cache, cut>>

(* The watcher finds HEAD moved, brings the index to it and announces.     *)
look_now ==
    /\ seen # commits
    /\ seen' = commits /\ shown' = commits
    /\ telling' = telling \union {"watcher"}
    /\ UNCHANGED <<commits, live, queue, fetch, answer, cache, cut>>

(* A frame goes to every subscriber; one that is Room behind loses the     *)
(* oldest and still has Room to read.                                      *)
announce(who) ==
    /\ who \in telling /\ telling' = telling \ {who}
    /\ queue' = [t \in Tab |-> IF t \in live /\ queue[t] < Room THEN queue[t] + 1 ELSE queue[t]]
    /\ cut' = cut \union (Tab \ live)
    /\ UNCHANGED <<commits, shown, seen, live, fetch, answer, cache>>

(* The socket of a page: opened, lost with the frames in it.               *)
subscribe(t) ==
    /\ t \notin live /\ live' = live \union {t}
    /\ UNCHANGED <<commits, shown, seen, telling, queue, fetch, answer, cache, cut>>
onclose(t) ==
    /\ t \in live /\ live' = live \ {t}
    /\ cut' = IF queue[t] > 0 THEN cut \union {t} ELSE cut
    /\ queue' = [queue EXCEPT ![t] = 0]
    /\ UNCHANGED <<commits, shown, seen, telling, fetch, answer, cache>>

(* A frame is read: everything cached is asked for again, and an answer on *)
(* its way is not waited for.                                              *)
index_updated(t) ==
    /\ queue[t] > 0 /\ queue' = [queue EXCEPT ![t] = @ - 1]
    /\ fetch' = [fetch EXCEPT ![t] = "asked"] /\ cut' = cut \ {t}
    /\ UNCHANGED <<commits, shown, seen, telling, live, answer, cache>>

(* A page opens, or its view is opened again, and asks.                    *)
Ask(t) ==
    /\ fetch[t] = "none"
    /\ fetch' = [fetch EXCEPT ![t] = "asked"] /\ cut' = cut \ {t}
    /\ UNCHANGED <<commits, shown, seen, telling, live, queue, answer, cache>>

(* The server answers from the index; the answer arrives later.            *)
ServerAnswers(t) ==
    /\ fetch[t] = "asked"
    /\ fetch' = [fetch EXCEPT ![t] = "answered"]
    /\ answer' = [answer EXCEPT ![t] = shown]
    /\ UNCHANGED <<commits, shown, seen, telling, live, queue, cache, cut>>
Arrive(t) ==
    /\ fetch[t] = "answered"
    /\ fetch' = [fetch EXCEPT ![t] = "none"]
    /\ cache' = [cache EXCEPT ![t] = answer[t]]
    /\ UNCHANGED <<commits, shown, seen, telling, live, queue, answer, cut>>

LiveNext ==
    \/ ServerWrites \/ Elsewhere \/ look_now
    \/ \E who \in {"server", "watcher"} : announce(who)
    \/ \E t \in Tab : \/ subscribe(t) \/ onclose(t) \/ index_updated(t)
                      \/ Ask(t) \/ ServerAnswers(t) \/ Arrive(t)

LiveSpec == LiveInit /\ [][LiveNext]_liveVars

-----------------------------------------------------------------------------
(* With nothing on its way, a page that is subscribed shows the last       *)
(* commit, however often it lagged, was cut off or had older answers on    *)
(* their way, unless a frame missed it since it asked last.                *)
QuietPagesAreCurrent ==
    telling = {} /\ seen = commits =>
        \A t \in live : queue[t] = 0 /\ fetch[t] = "none" /\ t \notin cut
                            => cache[t] = commits
=============================================================================
