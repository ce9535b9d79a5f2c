----------------------------- MODULE MCProgress -----------------------------
(***************************************************************************)
(* What must come to its end although processes die and networks fail, in  *)
(* three settings.  IndexCoherence with one process: a command line that   *)
(* writes, rebuilds and syncs on a fresh clone and dies anywhere (the      *)
(* constants of Progress.cfg); a hub that only reads while a person commits*)
(* by hand.  Sync with two clones, one of them unprepared, a remote that   *)
(* fails or does not answer, and writes that overlap a sync.               *)
(***************************************************************************)
EXTENDS IndexCoherence, Sync, TLC

CONSTANTS p1, i1, i2, a, b

VARIABLE
    setting       \* "commands", "reader" or "network"

R == INSTANCE IndexCoherence WITH
         Hub <- {p1}, Command <- {}, MaxCommits <- 3, MaxRaw <- 2, MaxPulls <- 0, MaxCrashes <- 1

MCSettable == "status" :> {Scalar(2), Scalar(3)}
MCStart    == "status" :> Scalar(1)

allVars == <<setting, vars, syncVars>>

ProgressInit ==
    /\ \/ setting \in {"commands", "network"} /\ Init
       \/ setting = "reader" /\ R!Init
    /\ SyncInit

ProgressNext ==
    \/ setting = "commands" /\ Next   /\ UNCHANGED <<setting, syncVars>>
    \/ setting = "reader"   /\ R!Next /\ UNCHANGED <<setting, syncVars>>
    \/ setting = "network"  /\ SyncNext /\ UNCHANGED <<setting, vars>>

(* The fairness of IndexCoherence, for the reader, and of Sync.            *)
Reads(step)  == setting = "reader" /\ step /\ UNCHANGED <<setting, syncVars>>
OnSync(step) == setting = "network" /\ step /\ UNCHANGED <<setting, vars>>
ProgressSpec ==
    /\ ProgressInit /\ [][ProgressNext]_allVars
    /\ WF_allVars(Reads(R!Working(p1)))    /\ WF_allVars(Reads(R!StartWatch(p1)))
    /\ WF_allVars(Reads(R!Signal(p1)))     /\ WF_allVars(Reads(R!Touch(p1)))
    /\ SF_allVars(Reads(R!Look(p1)))       /\ SF_allVars(Reads(R!WatchRefresh(p1)))
    /\ WF_allVars(OnSync(SyncStep(a)))   /\ WF_allVars(OnSync(SyncStep(b)))

-----------------------------------------------------------------------------
(* A hub that only reads shows, in the end, every commit it was told of:   *)
(* once HEAD has moved away from what its watcher saw, the index comes to  *)
(* the files of HEAD or the hub dies.                                      *)
ReaderCatchesUp ==
    (setting = "reader" /\ watch[p1].at # "off" /\ watch[p1].seen # HEAD)
        ~> (setting = "reader" => watch[p1].at = "off" \/ rows = At(HEAD))
=============================================================================
