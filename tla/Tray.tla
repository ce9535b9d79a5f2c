-------------------------------- MODULE Tray --------------------------------
(***************************************************************************)
(* The menu bar application (dit-tray/src/app.rs, server.rs) and the life  *)
(* of the server it starts: `dit ui --all --stop-with-parent'.             *)
(***************************************************************************)
EXTENDS Workspaces

CONSTANT MaxStarts      \* bound: servers that are started

ASSUME TrayAssumption == MaxStarts \in Nat

VARIABLES
    app,            \* the application
    git,            \* whether it has found git
    handle,         \* its child: none, the server, one that could not bind
    impatient,      \* it has waited PATIENCE for the server to stop
    parent,         \* the server's parent is the process it knew at its start
    starts

tray == <<app, git, handle, impatient, parent, starts>>
world == <<list, folder, call, open, calls, adrift>>
all == <<vars, tray>>

TrayInit ==
    /\ Init
    /\ app = "down" /\ git = FALSE
    /\ handle = "none" /\ impatient = FALSE
    /\ parent = "none" /\ starts = 0

InFlight == {t \in Threads : call[t] # Idle}

-----------------------------------------------------------------------------
(* The server.                                                             *)

(* It dies with whatever its threads were doing; a new one opens anew.     *)
Gone ==
    /\ hub' = "down"
    /\ call' = [c \in Callers |-> IF c \in Threads THEN Idle ELSE call[c]]
    /\ open' = [n \in Names |-> None]
    /\ adrift' = {}
    /\ parent' = "none"
    /\ UNCHANGED <<list, folder, calls>>

(* Server::start.  While an orphan still has the port, the new one fails.  *)
Spawn ==
    /\ starts < MaxStarts /\ starts' = starts + 1
    /\ IF hub = "down"
       THEN hub' = "starting" /\ handle' = "server" /\ parent' = "app"
       ELSE handle' = "failed" /\ UNCHANGED <<hub, parent>>
    /\ UNCHANGED <<world, impatient>>

(* Only when it serves does the process ask who its parent is.             *)
Bind ==
    /\ hub = "starting"
    /\ hub' = "up"
    /\ parent' = IF parent = "app" THEN "known" ELSE "other"
    /\ UNCHANGED <<world, app, git, handle, impatient, starts>>

(* parent_gone: another parent than the one it knew.                       *)
ParentGone_WhenIdle ==
    /\ hub = "up" /\ parent = "gone" /\ InFlight = {}
    /\ hub' = "stopping"
    /\ UNCHANGED <<world, tray>>

ParentGone ==
    /\ hub = "up" /\ parent = "gone"
    /\ hub' = "stopping"
    /\ UNCHANGED <<world, tray>>

(* Requests in flight are finished, those that never finish are given a    *)
(* grace period; work handed to the blocking pool always runs to its end.  *)
Exit_Abrupt ==
    /\ hub = "stopping"
    /\ Gone
    /\ UNCHANGED <<app, git, handle, impatient, starts>>

Exit ==
    /\ hub = "stopping" /\ InFlight = {}
    /\ Gone
    /\ UNCHANGED <<app, git, handle, impatient, starts>>

-----------------------------------------------------------------------------
(* The application.                                                        *)

Launch ==
    /\ app = "down" /\ starts < MaxStarts
    /\ app' = "up"
    /\ git' \in BOOLEAN
    /\ IF git' THEN Spawn
       ELSE UNCHANGED <<world, hub, handle, impatient, parent, starts>>

(* Every second: git may have come, and a server that ended on its own is  *)
(* let go of, so that Start tries again.                                   *)
GitCame ==
    /\ app = "up" /\ ~git /\ handle = "none"
    /\ git' = TRUE
    /\ Spawn
    /\ UNCHANGED app

Tick ==
    /\ app = "up"
    /\ handle = "failed" \/ (handle = "server" /\ hub = "down")
    /\ handle' = "none"
    /\ UNCHANGED <<world, hub, app, git, impatient, parent, starts>>

Start ==
    /\ app = "up" /\ git /\ handle = "none"
    /\ Spawn
    /\ UNCHANGED <<app, git>>

(* Server::stop: a TERM, and the event loop waits for the server's end.    *)
(* Before it serves, a TERM has its default action.                        *)
Stop(at) ==
    /\ app = "up" /\ app' = at
    /\ IF hub = "up" THEN hub' = "stopping" /\ UNCHANGED <<world, parent>>
       ELSE IF hub = "starting" THEN Gone
       ELSE UNCHANGED <<world, hub, parent>>
    /\ impatient' = FALSE
    /\ UNCHANGED <<git, handle, starts>>

MenuStop == handle = "server" /\ Stop("stops")
Quit == handle = "server" /\ Stop("quits")
QuitAlone == app = "up" /\ handle # "server" /\ app' = "down" /\ handle' = "none"
             /\ UNCHANGED <<world, hub, git, impatient, parent, starts>>

Waits == app \in {"stops", "quits"}

(* try_wait found the child's end.                                         *)
Stopped ==
    /\ Waits /\ hub = "down"
    /\ app' = IF app = "stops" THEN "up" ELSE "down"
    /\ handle' = "none"
    /\ UNCHANGED <<world, hub, git, impatient, parent, starts>>

Patience ==
    /\ Waits /\ ~impatient
    /\ impatient' = TRUE
    /\ UNCHANGED <<world, hub, app, git, handle, parent, starts>>

Kill ==
    /\ Waits /\ impatient /\ hub # "down"
    /\ Gone
    /\ UNCHANGED <<app, git, handle, impatient, starts>>

(* The application is killed: its child gets another parent.               *)
Killed ==
    /\ app # "down" /\ app' = "down"
    /\ handle' = "none"
    /\ parent' = CASE parent = "known" -> "gone"
                   [] parent = "app" -> "lost"
                   [] OTHER -> parent
    /\ UNCHANGED <<world, hub, git, impatient, starts>>

-----------------------------------------------------------------------------
ServerStep == Bind \/ ParentGone \/ Exit

AppStep ==
    \/ Launch \/ GitCame \/ Tick \/ Start \/ MenuStop \/ Quit \/ QuitAlone
    \/ Stopped \/ Patience \/ Kill \/ Killed

Next == (Machine /\ UNCHANGED tray) \/ ServerStep \/ AppStep

Spec == TrayInit /\ [][Next]_all

(* The server's threads are scheduled.  Nobody has to ask for anything.    *)
FairSpec ==
    /\ Spec
    /\ WF_all(ServerStep)
    /\ \A t \in Threads : WF_all(ThreadStep(t) /\ UNCHANGED tray)

-----------------------------------------------------------------------------
(* A server never ends under a request it works on, unless the application *)
(* has waited its whole patience.  (Stop while the server is starting ends *)
(* it at once; nothing is in flight then.)                                 *)
StopsBetweenRequests ==
    [][hub # "down" /\ hub' = "down" /\ InFlight # {} => Waits /\ impatient]_all

(* A server that has come to serve does not outlive its application, also  *)
(* when that was killed.                                                   *)
NoOrphanServes == hub = "up" /\ parent = "gone" ~> hub = "down"
=============================================================================
