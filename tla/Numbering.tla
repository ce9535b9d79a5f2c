------------------------------ MODULE Numbering ------------------------------
(***************************************************************************)
(* Issue numbers.  Under the policy `local' an issue is numbered when it   *)
(* is created: the transaction, holding the workspace lock, takes one more *)
(* than the highest number the index knows, and a cursor carries the count *)
(* through the transaction.  `dit renumber' backfills the issues that have *)
(* none; it chooses the issues and their numbers from the index before it  *)
(* takes the lock.  Under `on-merge' no number is assigned here.           *)
(*                                                                         *)
(* A rebuild of the index is one step in this module, a commit another;    *)
(* IndexCoherence and WriteTransaction take them apart.                    *)
(*                                                                         *)
(* Code: dit-core/src/lib.rs (create_issue, assign_number, set_numbering,  *)
(* renumber), dit-index/src/lib.rs (max_number), docs/adr/0007, 0009.      *)
(***************************************************************************)
EXTENDS Integers, FiniteSets, FiniteSetsExt, Functions

CONSTANTS
    Session,     \* the open workspaces
    Ops,         \* what they do: of Operations
    Nobody,      \* no lock holder
    Gone,        \* not minted yet, or deleted
    Unnumbered,  \* an issue with no number
    MaxIssues,   \* bound: issues ever created
    Batch,       \* bound: issues created by one transaction
    Limit        \* bound: the highest number (u32::MAX in the code)

Operations == {"create", "delete", "renumber", "policy"}
Policy     == {"local", "on-merge"}

ASSUME NumberingAssumption ==
    /\ Ops \subseteq Operations
    /\ MaxIssues \in Nat /\ Batch \in Nat \ {0} /\ Limit \in Nat \ {0}
    /\ Nobody \notin Session
    /\ Gone \notin Nat /\ Unnumbered \notin Nat /\ Gone # Unnumbered

Slot   == 1..MaxIssues      \* ids in minting order, which is ULID order
Number == 1..Limit

VARIABLES
    numbers,     \* the number of each issue at HEAD
    numberRow,   \* the same in the index
    born,        \* how many ids were minted
    policy,      \* `numbering:' in config.yaml
    known,       \* the config each session holds in memory
    numberLock,
    call,        \* what each session is doing
    alone,       \* ghost: no other session has held the lock since the call began
    failed       \* ghost: an absorb has failed

numberVars == <<numbers, numberRow, born, policy, known, numberLock, call, alone, failed>>

Cell  == Number \cup {Gone, Unnumbered}
Plans == UNION {[S -> Cell] : S \in SUBSET Slot}
NothingYet == [i \in {} |-> Gone]
NoCall == [at |-> "idle"]
Jobs == {NoCall} \cup
         [at : {"decided", "locked", "absorb"}, op : Operations, plan : Plans,
          cursor : Number \cup {0}, policy : Policy]

NumberingTypeOK ==
    /\ numbers \in [Slot -> Cell] /\ numberRow \in [Slot -> Cell]
    /\ born \in 0..MaxIssues
    /\ policy \in Policy /\ known \in [Session -> Policy]
    /\ numberLock \in Session \cup {Nobody}
    /\ call \in [Session -> Jobs]
    /\ alone \in [Session -> BOOLEAN] /\ failed \in BOOLEAN

-----------------------------------------------------------------------------
Living(view)   == {i \in Slot : view[i] # Gone}
Numbered(view) == {i \in Slot : view[i] \in Number}

(* max_number, 0 when nothing is numbered; saturating_add.                 *)
Top(view) == IF Numbered(view) = {} THEN 0 ELSE Max({view[i] : i \in Numbered(view)})

Plus(n, k) == IF n + k > Limit THEN Limit ELSE n + k

(* `renumber' keeps the issues that have no number.                        *)
Targets(view) == {i \in Living(view) : view[i] = Unnumbered}
Backfill(view) ==
    LET targets == Targets(view)
    IN  [i \in targets |-> Plus(Top(view), Cardinality({j \in targets : j <= i}))]

(* A workspace with unnumbered issues: one that predates numbers, or that  *)
(* was `on-merge' before.                                                  *)
NumberingInit ==
    /\ born \in 0..(IF "renumber" \in Ops THEN MaxIssues - 1 ELSE 0)
    /\ numbers = [i \in Slot |-> IF i <= born THEN Unnumbered ELSE Gone]
    /\ numberRow = numbers
    /\ policy \in IF "policy" \in Ops THEN Policy ELSE {"local"}
    /\ known = [s \in Session |-> policy]
    /\ numberLock = Nobody
    /\ call = [s \in Session |-> NoCall]
    /\ alone = [s \in Session |-> FALSE] /\ failed = FALSE

Decide(s, op, plan, p) ==
    /\ op \in Ops /\ call[s] = NoCall
    /\ call' = [call EXCEPT ![s] =
                  [at |-> "decided", op |-> op, plan |-> plan, cursor |-> 0, policy |-> p]]
    /\ alone' = [alone EXCEPT ![s] = numberLock = Nobody]
    /\ UNCHANGED <<numbers, numberRow, born, policy, known, numberLock, failed>>

CreateIssue(s) == Decide(s, "create", NothingYet, known[s])

DeleteIssue(s, i) == i \in Living(numberRow) /\ Decide(s, "delete", [j \in {i} |-> Gone], known[s])

Renumber(s) ==
    /\ known[s] = "local" /\ Targets(numberRow) # {}
    /\ Decide(s, "renumber", Backfill(numberRow), known[s])

SetPolicy(s, p) == p # known[s] /\ Decide(s, "policy", NothingYet, p)

TakeLock(s) ==
    /\ call[s].at = "decided" /\ numberLock = Nobody
    /\ numberLock' = s
    /\ call' = [call EXCEPT ![s].at = "locked"]
    /\ alone' = [t \in Session |-> t = s /\ alone[s]]
    /\ UNCHANGED <<numbers, numberRow, born, policy, known, failed>>

CallEnds(s) ==
    /\ call' = [call EXCEPT ![s] = NoCall]
    /\ alone' = [alone EXCEPT ![s] = FALSE]

CallGivesUp(s) == CallEnds(s) /\ UNCHANGED <<numbers, numberRow, born, policy, known>>

Busy(s) ==
    /\ call[s].at = "decided" /\ numberLock # Nobody
    /\ CallGivesUp(s) /\ UNCHANGED <<numberLock, failed>>

(* assign_number, and a mutant that forgets the cursor.                    *)
Assigned_NoCursor(s) ==
    IF known[s] # "local" THEN Unnumbered ELSE Plus(Top(numberRow), 1)
Assigned(s) ==
    IF known[s] # "local" THEN Unnumbered
    ELSE IF call[s].cursor # 0 THEN call[s].cursor + 1 ELSE Plus(Top(numberRow), 1)

StageCreate(s) ==
    /\ call[s].at = "locked" /\ call[s].op = "create"
    /\ born < MaxIssues /\ Cardinality(DOMAIN call[s].plan) < Batch /\ call[s].cursor < Limit
    /\ born' = born + 1
    /\ LET n == Assigned(s)
           plan == [i \in DOMAIN call[s].plan \cup {born'} |->
                       IF i = born' THEN n ELSE call[s].plan[i]]
       IN  call' = [call EXCEPT ![s].plan = plan,
                              ![s].cursor = IF n = Unnumbered THEN 0 ELSE n]
    /\ UNCHANGED <<numbers, numberRow, policy, known, numberLock, alone, failed>>

(* Files to be patched or removed are looked up on disk, under the lock.   *)
PlanFound(s) == call[s].op = "create" \/ DOMAIN call[s].plan \subseteq Living(numbers)

CommitNumbers(s) ==
    /\ call[s].at = "locked" /\ call[s].op # "policy"
    /\ DOMAIN call[s].plan # {} /\ PlanFound(s)
    /\ numbers' = [i \in Slot |-> IF i \in DOMAIN call[s].plan THEN call[s].plan[i] ELSE numbers[i]]
    /\ call' = [call EXCEPT ![s].at = "absorb"]
    /\ UNCHANGED <<numberRow, born, policy, known, numberLock, alone, failed>>

(* NotFound, or nothing staged: the transaction is dropped.                *)
Abort(s) ==
    /\ call[s].at = "locked" /\ call[s].op # "policy"
    /\ DOMAIN call[s].plan = {} \/ ~PlanFound(s)
    /\ numberLock' = Nobody /\ CallGivesUp(s) /\ UNCHANGED failed

CommitPolicy(s) ==
    /\ call[s].at = "locked" /\ call[s].op = "policy"
    /\ policy' = call[s].policy
    /\ known' = [known EXCEPT ![s] = policy']
    /\ numberLock' = Nobody /\ CallEnds(s)
    /\ UNCHANGED <<numbers, numberRow, born, failed>>

Absorb(s) ==
    /\ call[s].at = "absorb"
    /\ numberRow' = [i \in Slot |-> IF i \in DOMAIN call[s].plan THEN numbers[i] ELSE numberRow[i]]
    /\ numberLock' = Nobody /\ CallEnds(s)
    /\ UNCHANGED <<numbers, born, policy, known, failed>>

(* The commit stands, the error is logged and the caller is told nothing.  *)
AbsorbFails(s) ==
    /\ call[s].at = "absorb"
    /\ failed' = TRUE
    /\ numberLock' = Nobody /\ CallGivesUp(s)

(* ensure_fresh, or a new process: the index is rebuilt, the config read.  *)
Refresh(s) ==
    /\ call[s] = NoCall
    /\ numberRow' = numbers
    /\ known' = [known EXCEPT ![s] = policy]
    /\ UNCHANGED <<numbers, born, policy, numberLock, call, alone, failed>>

NumberingNext ==
    \E s \in Session :
       \/ CreateIssue(s) \/ Renumber(s)
       \/ \E i \in Slot : DeleteIssue(s, i)
       \/ \E p \in Policy : SetPolicy(s, p)
       \/ TakeLock(s) \/ Busy(s) \/ StageCreate(s) \/ CommitNumbers(s) \/ Abort(s)
       \/ CommitPolicy(s) \/ Absorb(s) \/ AbsorbFails(s) \/ Refresh(s)

NumberingSpec == NumberingInit /\ [][NumberingNext]_numberVars

-----------------------------------------------------------------------------
(* PROPERTIES                                                              *)

(* Issues are numbered from the index, so what follows is promised while   *)
(* no absorb has failed; and `renumber' chooses before it takes the lock,  *)
(* so of it only when no other session's write came in between.            *)
Sound == /\ ~failed
         /\ numberLock \in Session => call[numberLock].op # "renumber" \/ alone[numberLock]

Distinct(view) == \A i, j \in Numbered(view) : view[i] = view[j] => i = j

(* ADR 0007: "duplicates on one branch are a `dit validate' error".  No    *)
(* sound commit makes two issues share a number, whoever creates, deletes  *)
(* and backfills, and through whichever process.                           *)
NumbersUnique == [][Sound /\ Distinct(numbers) => Distinct(numbers')]_numberVars

(* ADR 0007: "assigns `max(existing) + 1`"; ADR 0009: "Append-only".  A    *)
(* number given out is above every number in use, so that order of numbers *)
(* is order of assignment while the top issue is not deleted.              *)
NumbersAreAppended ==
    [][Sound => \A i \in Slot :
          numbers'[i] \in Number /\ numbers'[i] # numbers[i]
             => \A j \in Numbered(numbers) : numbers[j] < numbers'[i]]_numberVars

(* ADR 0009: "An existing number is never moved".                          *)
NumbersStay ==
    [][Sound => \A i \in Numbered(numbers) : numbers'[i] \in {numbers[i], Gone}]_numberVars

(* A number is unique, above all in use when given, and never moves        *)
(* (assign_number, renumber).                                              *)
NumbersAreSound == NumbersUnique /\ NumbersAreAppended /\ NumbersStay
=============================================================================
