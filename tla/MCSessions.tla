----------------------------- MODULE MCSessions -----------------------------
(***************************************************************************)
(* What several sessions remember of the files and write back: the numbers *)
(* of issues, the proofs of Morse scenarios with their index, the layout   *)
(* of the tree, the commits of another clone, the binary of dit itself,    *)
(* what commands set up in a repository.                                   *)
(* Each is a state machine of its own; a behaviour picks one of them and   *)
(* stays on it.                                                            *)
(***************************************************************************)
EXTENDS LayoutMigration, Scenarios, Numbering, Upgrade, Sync, TLC

CONSTANTS
    s1, s2, n1, n2, e1, e2

VARIABLES
    bench,        \* the component this behaviour is about
    \* Setup
    tree, added, tip, tops, theirs, version, changes, command, begunSetups, edited, faulty

-----------------------------------------------------------------------------
(* Two clones claim an issue and edit its labels; three edits are enough   *)
(* for one to be replayed over both others.                                *)
MCSettable == "claimed_by" :> {Missing, Scalar(1), Scalar(2)}
              @@ "labels" :> {List(<<>>), List(<<2>>), List(<<1, 2>>)}
MCStart    == "claimed_by" :> Missing @@ "labels" :> List(<<1>>)

SU == INSTANCE Setup WITH
          MaxCommands <- 3, MaxEdits <- 1, MaxFaults <- 1,
          disk <- tree, stage <- added, head <- tip, folders <- tops, binary <- version,
          issues <- changes, call <- command, commands <- begunSetups, edits <- edited,
          faults <- faulty

setupVars == <<tree, added, tip, tops, theirs, version, changes, command, begunSetups,
               edited, faulty>>

BenchInit ==
    /\ bench \in {"numbers", "scenarios", "layout", "clones", "upgrade", "setup"}
    /\ NumberingInit /\ (bench = "numbers" \/ (policy = "local" /\ born = 0))
    /\ ScenariosInit /\ SyncInit /\ UpgradeInit
    /\ SU!SetupInit /\ (bench = "setup" \/ (tree = <<>> /\ ~theirs))
    /\ Init /\ (bench = "layout" \/ (disk.layout = "unstated" /\ ~foreign
                                     /\ disk.home["issue"] = {<<"dotdir", "issue.md">>}))

BenchNext ==
    \/ /\ bench = "numbers" /\ NumberingNext
       /\ UNCHANGED <<bench, scenarioVars, vars, syncVars, upgradeVars, setupVars>>
    \/ /\ bench = "scenarios" /\ ScenariosNext
       /\ UNCHANGED <<bench, numberVars, vars, syncVars, upgradeVars, setupVars>>
    \/ /\ bench = "layout" /\ Next
       /\ UNCHANGED <<bench, numberVars, scenarioVars, syncVars, upgradeVars, setupVars>>
    \/ /\ bench = "clones" /\ SyncNext
       /\ UNCHANGED <<bench, numberVars, scenarioVars, vars, upgradeVars, setupVars>>
    \/ /\ bench = "upgrade" /\ UpgradeNext
       /\ UNCHANGED <<bench, numberVars, scenarioVars, vars, syncVars, setupVars>>
    \/ /\ bench = "setup" /\ SU!SetupNext
       /\ UNCHANGED <<bench, numberVars, scenarioVars, vars, syncVars, upgradeVars>>

benchVars == <<bench, numberVars, scenarioVars, vars, syncVars, upgradeVars, setupVars>>
BenchSpec == BenchInit /\ [][BenchNext]_benchVars

(* Bounds: commits of the spec and calls begun, together, one less while   *)
(* the index lacks a commit of a page (never of all pages) and two fewer   *)
(* while a row waits to be judged, and never all names listed; commands    *)
(* that set a repository up, what a person does between them and what goes *)
(* wrong, together, a command counted for two; and nothing is promised of  *)
(* numbers once an absorb has failed, so that no behaviour is followed     *)
(* further.                                                                *)
Wanting == (IF missed # {} THEN 1 ELSE 0)
           + (IF \E n \in Names : rows[n] # None /\ judged[n] = None THEN 2 ELSE 0)

Bounded ==
    /\ Len(spec) + begun + Wanting <= 4 /\ missed # Pages /\ listed # Names
    /\ ~failed /\ \E c \in Clone : made[c] < 2
    /\ 2 * begunSetups + edited + faulty <= 6

(* Sessions, which are the clones too, names and environments are          *)
(* interchangeable.                                                        *)
Symmetry == Permutations(Session) \union Permutations(Names) \union Permutations(Envs)

-----------------------------------------------------------------------------
(* Whatever dies or fails while a repository is set up, no line of anybody *)
(* is lost, nothing that must stay here is added, what ended well is at    *)
(* HEAD and settled, and what did not can be repeated.                     *)
SetupIsSafe == bench = "setup" => SU!SetupIsSafe
=============================================================================
