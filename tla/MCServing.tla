----------------------------- MODULE MCServing -----------------------------
(***************************************************************************)
(* The processes of one machine, in two settings: writers of one workspace *)
(* (WriteTransaction, with the fairness that implements AtomicCommit), and *)
(* the server with the menu bar application that starts it (Tray).         *)
(***************************************************************************)
EXTENDS WriteTransaction, TLC

CONSTANTS t1, fa

VARIABLES
    setting,      \* "writers" or "server"
    list, folder, call, hub, open, calls, adrift,
    app, found, handle, impatient, parent, starts

(* One workspace, one thread that answers its requests, one removal.       *)
TR == INSTANCE Tray WITH
          Threads <- {t1}, Commands <- {}, Folders <- {fa}, None <- Absent,
          Lists <- {[entries |-> {[name |-> <<fa, 1>>, path |-> fa]},
                     default |-> <<fa, 1>>]},
          Held <- {fa :> "workspace"},
          MaxCalls <- 1, MaxStarts <- 2, git <- found

ASSUME ServerIsAsAssumed == TR!WorkspacesAssumption /\ TR!TrayAssumption

serverVars == <<list, folder, call, hub, open, calls, adrift,
                app, found, handle, impatient, parent, starts>>

(* The workspace starts empty, the writes fill it.                         *)
MCInit ==
    /\ setting \in {"writers", "server"}
    /\ Init /\ TR!TrayInit
    /\ head = NoFiles

OnWrite(step)  == setting = "writers" /\ step /\ UNCHANGED <<setting, serverVars>>
OnServer(step) == setting = "server" /\ step /\ UNCHANGED <<setting, vars>>
MCNext ==
    \/ setting = "writers" /\ Next /\ UNCHANGED <<setting, serverVars>>
    \/ setting = "server" /\ TR!Next /\ UNCHANGED <<setting, vars>>

(* The fairness of WriteTransaction and of Tray.                           *)
all == <<setting, vars, serverVars>>
MCSpec ==
    /\ MCInit /\ [][MCNext]_all
    /\ \A p \in Process : WF_all(OnWrite(Decides(p))) /\ WF_all(OnWrite(Runs(p)))
    /\ WF_all(OnServer(TR!ServerStep))
    /\ WF_all(OnServer(TR!ThreadStep(t1) /\ UNCHANGED <<app, found, handle, impatient, parent, starts>>))

-----------------------------------------------------------------------------
(* A server that has come to serve does not outlive its application.       *)
NoOrphanServes == TR!NoOrphanServes
=============================================================================
