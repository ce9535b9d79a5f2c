----------------------- MODULE WriteTransactionProofs -----------------------
(***************************************************************************)
(* What holds of the write path for any number of processes, paths, staged *)
(* writes, faults, crashes and hand edits.                                 *)
(***************************************************************************)
EXTENDS WriteTransaction, SequenceTheorems, TLAPS

(* Where a process is in its list of staged writes: the indices the code   *)
(* reads are indices the list has.                                         *)
Counters ==
    \A p \in Process :
        /\ pc[p] = "finish" => applied[p] < Len(staged[p])
        /\ pc[p] = "add" => added[p] < Len(staged[p])
        /\ applied[p] <= Len(staged[p])
        /\ pc[p] \in {"add", "commit"} => applied[p] = Len(staged[p])
        /\ pc[p] \in {"idle", "open", "finish"} => added[p] = 0
        /\ pc[p] \in {"idle", "open"} => applied[p] = 0
        /\ pc[p] = "idle" => staged[p] = <<>>

TypeInv == TypeOK /\ Counters

(* A path may be absent or hold any text, and an empty tree is a tree.     *)
LEMMA ContentType ==
    /\ Absent \in Content
    /\ \A p \in Process : {p} \in Content
    /\ \A p \in Process, t \in Content : t # Absent => t \cup {p} \in Content
    /\ \A t \in Content : t # Absent => t \cup {Human} \in Content
    /\ {Human} \in Content /\ {} \in Content
    /\ NoFiles \in Tree
BY DEF Content, Text, NoFiles, Tree

(* Staging keeps the list a list of entries. *)
LEMMA PushStagedType ==
    ASSUME NEW s \in Seq(Entry), NEW x \in Path, NEW w \in Content
    PROVE  PushStaged(s, x, w) \in Seq(Entry)
<1>1. CASE \E i \in DOMAIN s : s[i].path = x
  <2> DEFINE t == [i \in DOMAIN s |-> IF s[i].path = x THEN [s[i] EXCEPT !.write = w] ELSE s[i]]
  <2>1. DOMAIN s = 1..Len(s) /\ Len(s) \in Nat
    BY LenProperties
  <2>2. \A i \in 1..Len(s) : s[i] \in Entry
    BY ElementOfSeq
  <2>3. \A i \in 1..Len(s) : t[i] \in Entry
    BY <2>1, <2>2 DEF Entry
  <2>4. t \in Seq(Entry)
    BY <2>1, <2>3, IsASeq
  <2> QED BY <1>1, <2>4 DEF PushStaged
<1>2. CASE ~ \E i \in DOMAIN s : s[i].path = x
  <2>1. [path |-> x, write |-> w] \in Entry
    BY DEF Entry
  <2> QED BY <1>2, <2>1, AppendProperties DEF PushStaged
<1> QED BY <1>1, <1>2

(* What a staged path is to be written with is one of the staged contents. *)
LEMMA StagedWriteType ==
    ASSUME TypeOK, NEW p \in Process
    PROVE  /\ Paths(p) \subseteq Path
           /\ \A x \in Paths(p) : StagedWrite(p, x) \in Content
<1>1. staged[p] \in Seq(Entry)
  BY DEF TypeOK
<1>2. \A i \in DOMAIN staged[p] : staged[p][i] \in Entry
  BY <1>1, ElementOfSeq, LenProperties
<1>3. Paths(p) \subseteq Path
  BY <1>2 DEF Paths, Entry
<1>4. ASSUME NEW x \in Paths(p) PROVE StagedWrite(p, x) \in Content
  <2> DEFINE S == {staged[p][i] : i \in DOMAIN staged[p]}
  <2>1. \E e \in S : e.path = x
    BY DEF Paths
  <2>2. (CHOOSE e \in S : e.path = x) \in S
    BY <2>1
  <2>3. S \subseteq Entry
    BY <1>2
  <2> QED BY <2>2, <2>3 DEF StagedWrite, Entry
<1> QED BY <1>3, <1>4

(* A step of a rollback, but for the temporary file it may leave.          *)
LEMMA RollbackStep ==
    ASSUME NEW p \in Process, Rollback(p)
    PROVE  /\ pc[p] = "rollback" /\ applied[p] > 0 /\ UNCHANGED pc
           /\ \/ /\ disk' = [disk EXCEPT ![staged[p][applied[p]].path] = previous[p][staged[p][applied[p]].path]]
                 /\ UNCHANGED budget
              \/ UndoFault /\ UNCHANGED disk
           /\ applied' = [applied EXCEPT ![p] = @ - 1]
           /\ UNCHANGED <<git, lock, staged, previous, added, result, before, disowned>>
<1>1. applied' = [applied EXCEPT ![p] = @ - 1]
  BY Zenon DEF Rollback
<1> QED BY <1>1, Zenon DEF Rollback

(* The clean checkout a behaviour starts from has the right types.         *)
LEMMA InitTypeInv == Init => TypeInv
<1> SUFFICES ASSUME Init PROVE TypeInv
  OBVIOUS
<1>1. head \in Tree
  BY ContentType DEF Init, Tree
<1>2. disk \in Tree /\ stage \in Tree
  BY <1>1 DEF Init
<1>3. staged \in [Process -> Seq(Entry)] /\ \A p \in Process : Len(staged[p]) = 0
  BY DEF Init
<1>4. previous \in [Process -> Tree] /\ before \in [disk : Tree, stage : Tree]
  BY ContentType DEF Init
<1>5. /\ lock \in Process \cup {Free}
      /\ faults \in 0..MaxFaults /\ undoFaults \in 0..MaxUndoFaults
      /\ crashes \in 0..MaxCrashes /\ human \in 0..MaxHuman
  BY BoundsAreNat DEF Init
<1>6. /\ pc \in [Process -> PC]
      /\ applied \in [Process -> Nat] /\ added \in [Process -> Nat]
      /\ result \in [Process -> {"none", "committed", "nothing", "failed"}]
  BY DEF Init, PC
<1>7a. litter \in BOOLEAN /\ disowned \subseteq Path
  BY DEF Init
<1>7. TypeOK
  BY <1>1, <1>2, <1>3, <1>4, <1>5, <1>6, <1>7a DEF TypeOK
<1>8. Counters
  <2> SUFFICES ASSUME NEW p \in Process
               PROVE  /\ pc[p] = "idle" /\ staged[p] = <<>> /\ added[p] = 0
                      /\ applied[p] = 0 /\ applied[p] <= Len(staged[p])
    BY DEF Counters
  <2>1. applied[p] = 0 /\ Len(staged[p]) = 0
    BY <1>3 DEF Init
  <2> QED BY <2>1 DEF Init
<1> QED BY <1>7, <1>8 DEF TypeInv

(* Every step keeps the type invariant.                                    *)
LEMMA NextTypeInv == TypeInv /\ [Next]_vars => TypeInv'
<1> SUFFICES ASSUME TypeInv, [Next]_vars PROVE TypeInv'
  OBVIOUS
<1> USE DEF Goto, Ends, vars, git, tx, budget
<1>0. /\ \A q \in Process : staged[q] \in Seq(Entry) /\ Len(staged[q]) \in Nat
      /\ \A q \in Process : \A i \in 1..Len(staged[q]) : staged[q][i] \in Entry
      /\ \A q \in Process : staged[q] # <<>> => Len(staged[q]) > 0
  BY ElementOfSeq, EmptySeq, LenProperties DEF TypeInv, TypeOK
<1>1. ASSUME NEW p \in Process, Begin(p) PROVE TypeInv'
  BY <1>1 DEF Begin, TakesLock, TypeInv, TypeOK, Counters, PC
<1>2. ASSUME NEW p \in Process, CallCommit(p) PROVE TypeInv'
  <2>1. TypeOK'
    BY <1>2 DEF CallCommit, TypeInv, TypeOK, PC
  <2>2. Counters'
    BY <1>0, <1>2 DEF CallCommit, TypeInv, TypeOK, Counters, PC
  <2> QED BY <2>1, <2>2 DEF TypeInv
<1>3. ASSUME NEW p \in Process, Abort(p) PROVE TypeInv'
  BY <1>3 DEF Abort, TypeInv, TypeOK, Counters, PC
<1>4. ASSUME NEW p \in Process, Apply(p) PROVE TypeInv'
  <2> DEFINE e == staged[p][applied[p] + 1]
  <2>1. e \in Entry /\ applied[p] \in Nat
    BY <1>0, <1>4 DEF Apply, Applies, TypeInv, TypeOK, Counters
  <2>2. disk' \in Tree /\ previous' \in [Process -> Tree]
    BY <1>4, <2>1 DEF Apply, Applies, TypeInv, TypeOK, Tree, Entry
  <2>3. pc' \in [Process -> PC] /\ applied' \in [Process -> Nat]
    <3>1. pc' = [pc EXCEPT ![p] = "add"] \/ pc' = pc
      BY <1>4 DEF Apply, Applies
    <3>3. pc \in [Process -> PC] /\ applied \in [Process -> Nat]
      BY DEF TypeInv, TypeOK
    <3>2. applied' = [applied EXCEPT ![p] = @ + 1]
      BY <1>4 DEF Apply, Applies
    <3> QED BY <3>1, <3>2, <3>3 DEF PC
  <2>3a. UNCHANGED <<stage, head, lock, staged, added, result, litter, before, disowned, faults, undoFaults, crashes, human>>
    BY <1>4 DEF Apply, Applies
  <2>4. TypeOK'
    BY <2>2, <2>3, <2>3a DEF TypeInv, TypeOK
  <2>5. Counters'
    BY <1>0, <1>4, <2>1 DEF Apply, Applies, TypeInv, TypeOK, Counters, PC
  <2> QED BY <2>4, <2>5 DEF TypeInv
<1>4a. ASSUME NEW p \in Process, ApplyUnread(p) PROVE TypeInv'
  <2> DEFINE e == staged[p][applied[p] + 1]
  <2>1. e \in Entry /\ applied[p] \in Nat
    BY <1>0, <1>4a DEF ApplyUnread, TypeInv, TypeOK, Counters
  <2>2. disk' \in Tree /\ previous' \in [Process -> Tree]
    <3>1. e.path \in Path /\ e.write \in Content /\ Absent \in Content
      BY <2>1, ContentType DEF Entry
    <3>2. disk' = disk \/ disk' = [disk EXCEPT ![e.path] = e.write]
      BY <1>4a DEF ApplyUnread
    <3>3. previous' = [previous EXCEPT ![p][e.path] = Absent]
      BY <1>4a DEF ApplyUnread
    <3> HIDE DEF e
    <3> QED BY <3>1, <3>2, <3>3 DEF TypeInv, TypeOK, Tree
  <2>3. pc' \in [Process -> PC] /\ applied' \in [Process -> Nat]
    <3>1. pc' = [pc EXCEPT ![p] = "add"] \/ pc' = pc
      BY <1>4a DEF ApplyUnread
    <3>2. applied' = [applied EXCEPT ![p] = @ + 1]
      BY <1>4a DEF ApplyUnread
    <3>3. pc \in [Process -> PC] /\ applied \in [Process -> Nat]
      BY DEF TypeInv, TypeOK
    <3> QED BY <3>1, <3>2, <3>3 DEF PC
  <2>4. undoFaults' \in 0..MaxUndoFaults
    BY <1>4a, BoundsAreNat DEF ApplyUnread, UndoFault, TypeInv, TypeOK
  <2>5. UNCHANGED <<stage, head, lock, staged, added, result, litter, before, disowned, faults, crashes, human>>
    BY <1>4a DEF ApplyUnread, UndoFault
  <2>6. TypeOK'
    BY <2>2, <2>3, <2>4, <2>5 DEF TypeInv, TypeOK
  <2>7. Counters'
    BY <1>0, <1>4a, <2>1 DEF ApplyUnread, TypeInv, TypeOK, Counters, PC
  <2> QED BY <2>6, <2>7 DEF TypeInv
<1>5. ASSUME NEW p \in Process, ApplyFails(p) PROVE TypeInv'
  <2>1. faults' \in 0..MaxFaults
    BY <1>5, BoundsAreNat DEF ApplyFails, Fault, TypeInv, TypeOK
  <2>1a. litter' \in BOOLEAN
    BY <1>5, Zenon DEF ApplyFails, TypeInv, TypeOK
  <2>2. TypeOK'
    BY <1>5, <2>1, <2>1a DEF ApplyFails, Fault, TypeInv, TypeOK, PC
  <2>3. Counters'
    BY <1>0, <1>5 DEF ApplyFails, TypeInv, TypeOK, Counters, PC
  <2> QED BY <2>2, <2>3 DEF TypeInv
<1>6. ASSUME NEW p \in Process, Add(p) PROVE TypeInv'
  <2> DEFINE e == staged[p][added[p] + 1]
  <2>1. e \in Entry /\ added[p] \in Nat
    BY <1>0, <1>6 DEF Add, TypeInv, TypeOK, Counters
  <2>2. stage' \in Tree
    BY <1>6, <2>1 DEF Add, TypeInv, TypeOK, Tree, Entry
  <2>3. pc' \in [Process -> PC] /\ added' \in [Process -> Nat]
    <3>1. pc' = [pc EXCEPT ![p] = "commit"] \/ pc' = pc
      BY <1>6 DEF Add
    <3>3. pc \in [Process -> PC] /\ added \in [Process -> Nat]
      BY DEF TypeInv, TypeOK
    <3>2. added' = [added EXCEPT ![p] = @ + 1]
      BY <1>6 DEF Add
    <3> QED BY <3>1, <3>2, <3>3 DEF PC
  <2>3a. UNCHANGED <<disk, head, lock, staged, previous, applied, result, litter, before, disowned, faults, undoFaults, crashes, human>>
    BY <1>6 DEF Add
  <2>4. TypeOK'
    BY <2>2, <2>3, <2>3a DEF TypeInv, TypeOK
  <2>5. Counters'
    BY <1>0, <1>6, <2>1 DEF Add, TypeInv, TypeOK, Counters, PC
  <2> QED BY <2>4, <2>5 DEF TypeInv
<1>7. ASSUME NEW p \in Process, AddFails(p) PROVE TypeInv'
  <2>1. faults' \in 0..MaxFaults
    BY <1>7, BoundsAreNat DEF AddFails, Fault, TypeInv, TypeOK
  <2>2. TypeOK'
    BY <1>7, <2>1 DEF AddFails, Fault, TypeInv, TypeOK, PC
  <2>3. Counters'
    BY <1>0, <1>7 DEF AddFails, TypeInv, TypeOK, Counters, PC
  <2> QED BY <2>2, <2>3 DEF TypeInv
<1>8. ASSUME NEW p \in Process, GitCommit(p) PROVE TypeInv'
  BY <1>8 DEF GitCommit, TypeInv, TypeOK, Counters, PC
<1>9. ASSUME NEW p \in Process, NothingToCommit(p) PROVE TypeInv'
  BY <1>9 DEF NothingToCommit, TypeInv, TypeOK, Counters, PC
<1>10. ASSUME NEW p \in Process, CommitFails(p) PROVE TypeInv'
  <2>1. faults' \in 0..MaxFaults
    BY <1>10, BoundsAreNat DEF CommitFails, Fault, TypeInv, TypeOK
  <2>2. TypeOK'
    BY <1>10, <2>1 DEF CommitFails, Fault, TypeInv, TypeOK, PC
  <2>3. Counters'
    BY <1>0, <1>10 DEF CommitFails, TypeInv, TypeOK, Counters, PC
  <2> QED BY <2>2, <2>3 DEF TypeInv
<1>10a. ASSUME NEW p \in Process, CommitUnseen(p) PROVE TypeInv'
  <2>1. faults' \in 0..MaxFaults
    BY <1>10a, BoundsAreNat DEF CommitUnseen, Fault, TypeInv, TypeOK
  <2>2. disowned' \subseteq Path
    BY <1>10a, StagedWriteType DEF CommitUnseen, TypeInv, TypeOK
  <2>3. TypeOK'
    BY <1>10a, <2>1, <2>2 DEF CommitUnseen, Fault, TypeInv, TypeOK, PC
  <2>4. Counters'
    BY <1>0, <1>10a DEF CommitUnseen, TypeInv, TypeOK, Counters, PC
  <2> QED BY <2>3, <2>4 DEF TypeInv
<1>11. ASSUME NEW p \in Process, Unstage(p) PROVE TypeInv'
  <2>1. stage' \in Tree
    BY <1>11 DEF Unstage, UnstageTo, TypeInv, TypeOK, Tree
  <2>2. undoFaults' \in 0..MaxUndoFaults /\ UNCHANGED <<faults, crashes, human>>
    BY <1>11, BoundsAreNat DEF Unstage, UnstageTo, UndoFault, TypeInv, TypeOK
  <2>3. TypeOK'
    BY <1>11, <2>1, <2>2 DEF Unstage, UnstageTo, TypeInv, TypeOK, PC
  <2>4. Counters'
    BY <1>0, <1>11 DEF Unstage, UnstageTo, TypeInv, TypeOK, Counters, PC
  <2> QED BY <2>3, <2>4 DEF TypeInv
<1>12. ASSUME NEW p \in Process, Rollback(p) PROVE TypeInv'
  <2> DEFINE e == staged[p][applied[p]]
  <2>1. e \in Entry /\ applied[p] \in Nat /\ applied[p] > 0
    BY <1>0, <1>12 DEF Rollback, TypeInv, TypeOK, Counters
  <2>2. disk' \in Tree
    <3>1. previous[p] \in Tree /\ disk \in Tree /\ e.path \in Path
      BY <2>1 DEF TypeInv, TypeOK, Entry
    <3>2. disk' = [disk EXCEPT ![e.path] = previous[p][e.path]] \/ disk' = disk
      BY <1>12, RollbackStep
    <3> QED BY <3>1, <3>2 DEF Tree
  <2>3. undoFaults' \in 0..MaxUndoFaults /\ UNCHANGED <<faults, crashes, human>>
    BY <1>12, RollbackStep, BoundsAreNat DEF UndoFault, TypeInv, TypeOK
  <2>4. applied' \in [Process -> Nat]
    BY <1>12, <2>1 DEF Rollback, TypeInv, TypeOK
  <2>4a. litter' \in BOOLEAN
    BY <1>12, Zenon DEF Rollback, TypeInv, TypeOK
  <2>5. TypeOK'
    BY <1>12, <2>2, <2>3, <2>4, <2>4a DEF Rollback, TypeInv, TypeOK
  <2>6. Counters'
    BY <1>0, <1>12, <2>1 DEF Rollback, TypeInv, TypeOK, Counters, PC
  <2> QED BY <2>5, <2>6 DEF TypeInv
<1>13. ASSUME NEW p \in Process, RolledBack(p) PROVE TypeInv'
  BY <1>13 DEF RolledBack, TypeInv, TypeOK, Counters, PC
<1>14. ASSUME NEW p \in Process, Forget(p) PROVE
         /\ staged' \in [Process -> Seq(Entry)] /\ previous' \in [Process -> Tree]
         /\ applied' \in [Process -> Nat] /\ added' \in [Process -> Nat]
         /\ result' \in [Process -> {"none", "committed", "nothing", "failed"}]
         /\ before' \in [disk : Tree, stage : Tree] /\ pc' \in [Process -> PC]
         /\ Counters'
  <2>1. <<>> \in Seq(Entry)
    OBVIOUS
  <2>2. staged' \in [Process -> Seq(Entry)]
    BY <1>14, <2>1 DEF Forget, TypeInv, TypeOK
  <2>3. previous' \in [Process -> Tree] /\ before' \in [disk : Tree, stage : Tree]
    BY <1>14, ContentType DEF Forget, TypeInv, TypeOK
  <2>4. /\ applied' \in [Process -> Nat] /\ added' \in [Process -> Nat]
        /\ result' \in [Process -> {"none", "committed", "nothing", "failed"}]
        /\ pc' \in [Process -> PC]
    BY <1>14 DEF Forget, TypeInv, TypeOK, PC
  <2>5. Counters'
    BY <1>14, <1>0 DEF Forget, TypeInv, TypeOK, Counters, PC
  <2> QED BY <2>2, <2>3, <2>4, <2>5
<1>15. ASSUME NEW p \in Process, Release(p) PROVE TypeInv'
  BY <1>15, <1>14 DEF Release, Releases, TypeInv, TypeOK
<1>16. ASSUME NEW p \in Process, Crash(p) PROVE TypeInv'
  <2>1. crashes' \in 0..MaxCrashes
    BY <1>16, BoundsAreNat DEF Crash, TypeInv, TypeOK
  <2>2. litter' \in BOOLEAN
    BY <1>16, Zenon DEF Crash, TypeInv, TypeOK
  <2> QED BY <1>16, <1>14, <2>1, <2>2 DEF Crash, TypeInv, TypeOK
<1>17. ASSUME NEW p \in Process, NEW s \in Seq(Entry), Staging(p, s) PROVE TypeInv'
  BY <1>17 DEF Staging, TypeInv, TypeOK, Counters, PC
<1>18. ASSUME NEW p \in Process, Stages(p) PROVE TypeInv'
  <2>1. \A x \in Path, w \in Content : PushStaged(staged[p], x, w) \in Seq(Entry)
    BY <1>0, PushStagedType
  <2>2. \A x \in Path : CurrentBytes(p, x) \in Content
    BY StagedWriteType DEF CurrentBytes, TypeInv, TypeOK, Tree
  <2>3. \A x \in Path : MoveSource(p, x) \in Content
    BY StagedWriteType DEF MoveSource, TypeInv, TypeOK, Tree
  <2>4. \A x, y \in Path, w \in Content :
            PushStaged(PushStaged(staged[p], y, w), x, Absent) \in Seq(Entry)
    BY <2>1, PushStagedType, ContentType
  <2>5. ASSUME NEW x \in Path, \/ StageNewFile(p, x) \/ StageEdit(p, x) \/ StageRemoveIssue(p, x)
                               \/ StageWriteDoc(p, x) \/ StageRemoveDoc(p, x)
        PROVE  \E s \in Seq(Entry) : Staging(p, s)
    BY <2>1, <2>2, <2>5, ContentType DEF StageNewFile, StageEdit, StageRemoveIssue, StageWriteDoc, StageRemoveDoc
  <2>6. ASSUME NEW x \in Path, NEW y \in Path, StageMoveDoc(p, x, y)
        PROVE  \E s \in Seq(Entry) : Staging(p, s)
    BY <2>3, <2>4, <2>6 DEF StageMoveDoc, Moves
  <2> QED BY <1>17, <1>18, <2>5, <2>6 DEF Stages
<1>19. CASE ClearLock
  BY <1>19 DEF ClearLock, TypeInv, TypeOK, Counters
<1>20. ASSUME NEW x \in Path, HumanEdit(x) PROVE TypeInv'
  <2>1. disk' \in Tree
    BY <1>20, ContentType DEF HumanEdit, TypeInv, TypeOK, Tree
  <2>2. before' \in [disk : Tree, stage : Tree]
    BY <1>20, <2>1 DEF HumanEdit, TypeInv, TypeOK, Tree
  <2>3. human' \in 0..MaxHuman
    BY <1>20, BoundsAreNat DEF HumanEdit, HumanActs, TypeInv, TypeOK
  <2> QED BY <1>20, <2>1, <2>2, <2>3 DEF HumanEdit, HumanActs, TypeInv, TypeOK, Counters
<1>21. ASSUME NEW x \in Path, HumanAdd(x) PROVE TypeInv'
  <2>1. stage' \in Tree
    BY <1>21 DEF HumanAdd, TypeInv, TypeOK, Tree
  <2>2. before' \in [disk : Tree, stage : Tree]
    BY <1>21, <2>1 DEF HumanAdd, TypeInv, TypeOK, Tree
  <2>3. human' \in 0..MaxHuman
    BY <1>21, BoundsAreNat DEF HumanAdd, HumanActs, TypeInv, TypeOK
  <2> QED BY <1>21, <2>1, <2>2, <2>3 DEF HumanAdd, HumanActs, TypeInv, TypeOK, Counters
<1>22. CASE UNCHANGED vars
  BY <1>22 DEF TypeInv, TypeOK, Counters
<1> QED
  BY <1>1, <1>2, <1>3, <1>4, <1>4a, <1>5, <1>6, <1>7, <1>8, <1>9, <1>10, <1>10a, <1>11, <1>12, <1>13,
     <1>15, <1>16, <1>18, <1>19, <1>20, <1>21, <1>22 DEF Next, Runs, Decides

(* Every variable keeps its type.                                          *)
THEOREM TypeCorrect == Spec => []TypeOK
<1>1. Spec => []TypeInv
  BY InitTypeInv, NextTypeInv, PTL DEF Spec
<1>2. TypeInv => TypeOK
  BY DEF TypeInv
<1> QED BY <1>1, <1>2, PTL

-----------------------------------------------------------------------------
(* Every step of a process except Begin and Forget leaves the lock alone,  *)
(* and no other process's pc moves.                                        *)
LEMMA NextSingleWriter ==
    TypeInv /\ SingleWriter /\ [Next]_vars => SingleWriter'
<1> SUFFICES ASSUME TypeInv, SingleWriter, [Next]_vars PROVE SingleWriter'
  OBVIOUS
<1> USE DEF Goto, Ends, vars, git, tx, budget
<1>0. /\ pc \in [Process -> PC] /\ Free \notin Process
      /\ \A q \in Process : pc[q] # "idle" => lock = q
  BY MarksDistinct DEF TypeInv, TypeOK, SingleWriter
<1>1. ASSUME NEW p \in Process, Begin(p) PROVE SingleWriter'
  BY <1>0, <1>1 DEF Begin, TakesLock, SingleWriter
<1>2. ASSUME NEW p \in Process, pc[p] # "idle", lock' = lock,
             NEW l, pc' = [pc EXCEPT ![p] = l] \/ pc' = pc
      PROVE  SingleWriter'
  BY <1>0, <1>2 DEF SingleWriter
<1>3. ASSUME NEW p \in Process, Stages(p) \/ Decides(p) PROVE SingleWriter'
  BY <1>2, <1>3 DEF Stages, Decides, StageNewFile, StageEdit, StageRemoveIssue, StageWriteDoc,
     StageRemoveDoc, StageMoveDoc, Moves, Staging, CallCommit, Abort
<1>4. ASSUME NEW p \in Process,
             \/ Apply(p) \/ ApplyUnread(p) \/ ApplyFails(p) \/ Add(p) \/ AddFails(p)
             \/ GitCommit(p) \/ CommitUnseen(p) \/ NothingToCommit(p) \/ CommitFails(p)
             \/ Unstage(p) \/ Rollback(p) \/ RolledBack(p)
      PROVE  SingleWriter'
  BY <1>2, <1>4 DEF Apply, Applies, ApplyUnread, ApplyFails, Add, AddFails, GitCommit, CommitUnseen,
     NothingToCommit, CommitFails, Unstage, UnstageTo, Rollback, RolledBack
<1>5. ASSUME NEW p \in Process, Release(p) PROVE SingleWriter'
  BY <1>0, <1>5 DEF Release, Releases, Forget, SingleWriter
<1>6. ASSUME NEW p \in Process, Crash(p) PROVE SingleWriter'
  BY <1>0, <1>6 DEF Crash, Forget, SingleWriter
<1>7. CASE ClearLock
  BY <1>0, <1>7 DEF ClearLock, StaleLock, SingleWriter
<1>8. ASSUME NEW x \in Path, HumanEdit(x) \/ HumanAdd(x) PROVE SingleWriter'
  BY <1>8 DEF HumanEdit, HumanAdd, SingleWriter
<1>9. CASE UNCHANGED vars
  BY <1>9 DEF SingleWriter
<1> QED
  BY <1>1, <1>3, <1>4, <1>5, <1>6, <1>7, <1>8, <1>9 DEF Next, Runs

(* The lock file excludes: at most one process writes, whoever dies and    *)
(* whenever a stale lock is cleared.                                       *)
THEOREM OneWriter == Spec => []SingleWriter
<1>1. Init => TypeInv /\ SingleWriter
  BY InitTypeInv DEF Init, SingleWriter
<1>2. TypeInv /\ SingleWriter /\ [Next]_vars => (TypeInv /\ SingleWriter)'
  BY NextTypeInv, NextSingleWriter
<1> QED BY <1>1, <1>2, PTL DEF Spec

-----------------------------------------------------------------------------
(* What undo relies on at every point of a running write: no path is       *)
(* staged twice, the bytes remembered for an applied path are those of     *)
(* before the write, no other file has changed since, and git's index      *)
(* differs only where the write has put its own paths.                     *)
PathsOnce(p) == \A i, j \in DOMAIN staged[p] : staged[p][i].path = staged[p][j].path => i = j

FilesUndoable(p) ==
    /\ \A i \in 1..applied[p] : previous[p][staged[p][i].path] = before.disk[staged[p][i].path]
    /\ \A x \in Path : disk[x] # before.disk[x] => \E i \in 1..applied[p] : staged[p][i].path = x
    /\ pc[p] = "release" /\ result[p] = "failed" => applied[p] = 0

IndexUndoable(p) ==
    /\ pc[p] \in {"open", "finish"} => stage = before.stage
    /\ pc[p] \in {"add", "commit", "unstage"} =>
          \A x \in Path : stage[x] # before.stage[x] => x \in Paths(p)
    /\ pc[p] = "rollback" \/ (pc[p] = "release" /\ result[p] = "failed") =>
          \A x \in Path : \/ stage[x] = before.stage[x]
                          \/ x \in Paths(p) /\ stage[x] = head[x]

Undoable ==
    undoFaults = 0 =>
      \A p \in Process : pc[p] # "idle" => PathsOnce(p) /\ FilesUndoable(p) /\ IndexUndoable(p)

WriteInv == TypeInv /\ SingleWriter /\ Undoable

(* A repeated path replaces its entry, so no path is ever staged twice.    *)
LEMMA PushStagedOnce ==
    ASSUME NEW s \in Seq(Entry), NEW x \in Path, NEW w \in Content,
           \A i, j \in DOMAIN s : s[i].path = s[j].path => i = j
    PROVE  \A i, j \in DOMAIN PushStaged(s, x, w) :
              PushStaged(s, x, w)[i].path = PushStaged(s, x, w)[j].path => i = j
<1>1. DOMAIN s = 1..Len(s) /\ Len(s) \in Nat /\ \A i \in DOMAIN s : s[i] \in Entry
  BY LenProperties, ElementOfSeq
<1>2. CASE \E i \in DOMAIN s : s[i].path = x
  <2> DEFINE t == [i \in DOMAIN s |-> IF s[i].path = x THEN [s[i] EXCEPT !.write = w] ELSE s[i]]
  <2>1. DOMAIN t = DOMAIN s /\ \A i \in DOMAIN s : t[i].path = s[i].path
    BY <1>1 DEF Entry
  <2> QED BY <1>2, <2>1 DEF PushStaged
<1>3. CASE ~ \E i \in DOMAIN s : s[i].path = x
  <2> DEFINE e == [path |-> x, write |-> w]
             t == Append(s, e)
  <2>1. DOMAIN t = 1..(Len(s) + 1) /\ t[Len(s) + 1] = e /\ \A i \in 1..Len(s) : t[i] = s[i]
    BY <1>1, AppendProperties DEF Entry
  <2>2. e.path = x
    OBVIOUS
  <2> HIDE DEF e, t
  <2>3. \A i, j \in DOMAIN t : t[i].path = t[j].path => i = j
    BY <1>1, <1>3, <2>1, <2>2
  <2> QED BY <1>3, <2>3 DEF PushStaged, e, t
<1> QED BY <1>2, <1>3

(* Every step of a write keeps it undoable.                                *)
LEMMA NextUndoable == WriteInv /\ [Next]_vars => Undoable'
<1> SUFFICES ASSUME WriteInv, [Next]_vars PROVE Undoable'
  OBVIOUS
<1> USE DEF Goto, Ends, vars, git, tx, budget, Fault
<1> DEFINE Ready(p) == /\ undoFaults = 0 /\ lock = p /\ pc[p] # "idle"
                       /\ PathsOnce(p) /\ FilesUndoable(p) /\ IndexUndoable(p)
<1>0. /\ pc \in [Process -> PC] /\ result \in [Process -> {"none", "committed", "nothing", "failed"}]
      /\ applied \in [Process -> Nat] /\ added \in [Process -> Nat] /\ undoFaults \in Nat
      /\ disk \in Tree /\ stage \in Tree /\ head \in Tree /\ previous \in [Process -> Tree]
      /\ before \in [disk : Tree, stage : Tree] /\ staged \in [Process -> Seq(Entry)]
      /\ \A q \in Process : /\ DOMAIN staged[q] = 1..Len(staged[q]) /\ Len(staged[q]) \in Nat
                             /\ \A i \in DOMAIN staged[q] : staged[q][i] \in Entry
      /\ \A q \in Process : pc[q] # "idle" => lock = q
      /\ undoFaults = 0 => \A q \in Process : pc[q] # "idle" => Ready(q)
  BY LenProperties, ElementOfSeq, BoundsAreNat DEF WriteInv, TypeInv, TypeOK, SingleWriter, Undoable
<1> HIDE DEF Ready
<1>1. ASSUME NEW p \in Process, \A q \in Process \ {p} : pc'[q] = pc[q], pc[p] # "idle",
             pc'[p] # "idle" => (PathsOnce(p) /\ FilesUndoable(p) /\ IndexUndoable(p))'
      PROVE  Undoable'
  BY <1>0, <1>1 DEF Undoable
<1>2. ASSUME NEW p \in Process, Abort(p), undoFaults' = 0 PROVE Undoable'
  <2>1. Ready(p) /\ pc[p] # "idle" /\ pc'[p] = "release" /\ \A q \in Process \ {p} : pc'[q] = pc[q]
    BY <1>0, <1>2 DEF Abort, Ready
  <2>2. (PathsOnce(p) /\ FilesUndoable(p) /\ IndexUndoable(p))'
    BY <1>0, <1>2, <2>1 DEF Abort, Ready, PathsOnce, FilesUndoable, IndexUndoable, Paths
  <2> QED BY <1>1, <2>1, <2>2
<1>3. ASSUME NEW p \in Process, GitCommit(p), undoFaults' = 0 PROVE Undoable'
  <2>1. Ready(p) /\ pc[p] # "idle" /\ pc'[p] = "release" /\ \A q \in Process \ {p} : pc'[q] = pc[q]
    BY <1>0, <1>3 DEF GitCommit, Ready
  <2>2. (PathsOnce(p) /\ FilesUndoable(p) /\ IndexUndoable(p))'
    BY <1>0, <1>3, <2>1 DEF GitCommit, Ready, PathsOnce, FilesUndoable, IndexUndoable, Paths
  <2> QED BY <1>1, <2>1, <2>2
<1>4. ASSUME NEW p \in Process, NothingToCommit(p), undoFaults' = 0 PROVE Undoable'
  <2>1. Ready(p) /\ pc[p] # "idle" /\ pc'[p] = "release" /\ \A q \in Process \ {p} : pc'[q] = pc[q]
    BY <1>0, <1>4 DEF NothingToCommit, Ready
  <2>2. (PathsOnce(p) /\ FilesUndoable(p) /\ IndexUndoable(p))'
    BY <1>0, <1>4, <2>1 DEF NothingToCommit, Ready, PathsOnce, FilesUndoable, IndexUndoable, Paths
  <2> QED BY <1>1, <2>1, <2>2
<1>5. ASSUME NEW p \in Process, CommitFails(p), undoFaults' = 0 PROVE Undoable'
  <2>1. Ready(p) /\ pc[p] # "idle" /\ pc'[p] = "unstage" /\ \A q \in Process \ {p} : pc'[q] = pc[q]
    BY <1>0, <1>5 DEF CommitFails, Ready
  <2>2. (PathsOnce(p) /\ FilesUndoable(p) /\ IndexUndoable(p))'
    BY <1>0, <1>5, <2>1 DEF CommitFails, Ready, PathsOnce, FilesUndoable, IndexUndoable, Paths
  <2> QED BY <1>1, <2>1, <2>2
<1>5a. ASSUME NEW p \in Process, CommitUnseen(p), undoFaults' = 0 PROVE Undoable'
  <2>1. Ready(p) /\ pc[p] # "idle" /\ pc'[p] = "unstage" /\ \A q \in Process \ {p} : pc'[q] = pc[q]
    BY <1>0, <1>5a DEF CommitUnseen, Ready
  <2>2. (PathsOnce(p) /\ FilesUndoable(p) /\ IndexUndoable(p))'
    BY <1>0, <1>5a, <2>1 DEF CommitUnseen, Ready, PathsOnce, FilesUndoable, IndexUndoable, Paths
  <2> QED BY <1>1, <2>1, <2>2
<1>5b. ASSUME NEW p \in Process, ApplyUnread(p) PROVE undoFaults' # 0
  BY <1>0, <1>5b DEF ApplyUnread, UndoFault
<1>6. ASSUME NEW p \in Process, AddFails(p), undoFaults' = 0 PROVE Undoable'
  <2>1. Ready(p) /\ pc[p] # "idle" /\ pc'[p] = "unstage" /\ \A q \in Process \ {p} : pc'[q] = pc[q]
    BY <1>0, <1>6 DEF AddFails, Ready
  <2>2. (PathsOnce(p) /\ FilesUndoable(p) /\ IndexUndoable(p))'
    BY <1>0, <1>6, <2>1 DEF AddFails, Ready, PathsOnce, FilesUndoable, IndexUndoable, Paths
  <2> QED BY <1>1, <2>1, <2>2
<1>7. ASSUME NEW p \in Process, ApplyFails(p), undoFaults' = 0 PROVE Undoable'
  <2>1. Ready(p) /\ pc[p] # "idle" /\ pc'[p] = "rollback" /\ \A q \in Process \ {p} : pc'[q] = pc[q]
    BY <1>0, <1>7 DEF ApplyFails, Ready
  <2>2. (PathsOnce(p) /\ FilesUndoable(p) /\ IndexUndoable(p))'
    BY <1>0, <1>7, <2>1 DEF ApplyFails, Ready, PathsOnce, FilesUndoable, IndexUndoable, Paths
  <2> QED BY <1>1, <2>1, <2>2
<1>8. ASSUME NEW p \in Process, RolledBack(p), undoFaults' = 0 PROVE Undoable'
  <2>1. Ready(p) /\ pc[p] # "idle" /\ pc'[p] = "release" /\ \A q \in Process \ {p} : pc'[q] = pc[q]
    BY <1>0, <1>8 DEF RolledBack, Ready
  <2>2. (PathsOnce(p) /\ FilesUndoable(p) /\ IndexUndoable(p))'
    BY <1>0, <1>8, <2>1 DEF RolledBack, Ready, PathsOnce, FilesUndoable, IndexUndoable, Paths
  <2> QED BY <1>1, <2>1, <2>2
<1>9. ASSUME NEW p \in Process, Begin(p), undoFaults' = 0 PROVE Undoable'
  <2>1. (PathsOnce(p) /\ FilesUndoable(p) /\ IndexUndoable(p))'
    <3>1. pc'[p] = "open" /\ applied'[p] = 0 /\ staged' = staged /\ pc[p] = "idle"
      BY <1>0, <1>9 DEF Begin, TakesLock, WriteInv, TypeInv, Counters
    <3>2. staged[p] = <<>>
      BY <3>1 DEF WriteInv, TypeInv, Counters
    <3>3. before'.disk = disk /\ before'.stage = stage /\ UNCHANGED <<disk, stage>>
      BY <1>9 DEF Begin, TakesLock
    <3>4. DOMAIN staged[p] = {} /\ 1..0 = {}
      BY <3>2
    <3> QED BY <3>1, <3>3, <3>4 DEF PathsOnce, FilesUndoable, IndexUndoable
  <2>2. \A q \in Process \ {p} : pc'[q] = "idle"
    BY <1>0, <1>9, MarksDistinct DEF Begin, TakesLock
  <2> QED BY <2>1, <2>2 DEF Undoable
<1>10. ASSUME NEW p \in Process, CallCommit(p), undoFaults' = 0 PROVE Undoable'
  <2>1. /\ Ready(p) /\ pc[p] # "idle" /\ \A q \in Process \ {p} : pc'[q] = pc[q]
        /\ \/ pc'[p] = "finish"
           \/ pc'[p] = "release" /\ result'[p] = "nothing"
    BY <1>0, <1>10 DEF CallCommit, Ready
  <2>2. (PathsOnce(p) /\ FilesUndoable(p) /\ IndexUndoable(p))'
    BY <1>0, <1>10, <2>1 DEF CallCommit, Ready, PathsOnce, FilesUndoable, IndexUndoable, Paths
  <2> QED BY <1>1, <2>1, <2>2
<1>11. ASSUME NEW p \in Process, Apply(p), undoFaults' = 0 PROVE Undoable'
  <2> DEFINE n == applied[p]
             y == staged[p][n + 1].path
  <2>1. /\ Ready(p) /\ pc[p] = "finish" /\ \A q \in Process \ {p} : pc'[q] = pc[q]
        /\ pc'[p] \in {"finish", "add"}
    BY <1>0, <1>11 DEF Apply, Applies, Ready
  <2>2. n \in Nat /\ n + 1 \in DOMAIN staged[p] /\ y \in Path
    BY <1>0, <2>1 DEF WriteInv, TypeInv, Counters, Entry
  <2>3. /\ disk' = [disk EXCEPT ![y] = staged[p][n + 1].write]
        /\ previous' = [previous EXCEPT ![p][y] = disk[y]]
        /\ applied' = [applied EXCEPT ![p] = n + 1]
        /\ UNCHANGED <<staged, stage, head, before, result>>
    BY <1>11 DEF Apply, Applies
  <2>4. \A i \in 1..n : i \in DOMAIN staged[p] /\ staged[p][i].path \in Path /\ staged[p][i].path # y
    <3>1. \A i \in 1..n : i \in DOMAIN staged[p] /\ i # n + 1
      BY <1>0, <2>2
    <3>2. \A i, j \in DOMAIN staged[p] : staged[p][i].path = staged[p][j].path => i = j
      BY <2>1 DEF Ready, PathsOnce
    <3>3. \A i \in DOMAIN staged[p] : staged[p][i].path \in Path
      BY <1>0 DEF Entry
    <3> QED BY <2>2, <3>1, <3>2, <3>3
  <2>5. disk[y] = before.disk[y]
    BY <2>1, <2>2, <2>4 DEF Ready, FilesUndoable
  <2>6. \A i \in 1..(n + 1) : previous'[p][staged[p][i].path] = before.disk[staged[p][i].path]
    <3>1. previous'[p][y] = before.disk[y]
      BY <1>0, <2>2, <2>3, <2>5 DEF Tree
    <3>2. \A i \in 1..n : previous'[p][staged[p][i].path] = before.disk[staged[p][i].path]
      BY <1>0, <2>1, <2>3, <2>4 DEF Ready, FilesUndoable, Tree
    <3> QED BY <2>2, <3>1, <3>2
  <2>7. \A x \in Path : disk'[x] # before.disk[x] => \E i \in 1..(n + 1) : staged[p][i].path = x
    <3>1. \A x \in Path : x # y => disk'[x] = disk[x]
      BY <1>0, <2>3 DEF Tree
    <3>2. n + 1 \in 1..(n + 1) /\ \A i \in 1..n : i \in 1..(n + 1)
      BY <2>2
    <3>3. \A x \in Path : disk[x] # before.disk[x] => \E i \in 1..n : staged[p][i].path = x
      BY <2>1 DEF Ready, FilesUndoable
    <3> QED BY <3>1, <3>2, <3>3
  <2>8. FilesUndoable(p)'
    BY <1>0, <2>1, <2>2, <2>3, <2>6, <2>7 DEF FilesUndoable
  <2>9. (PathsOnce(p) /\ IndexUndoable(p))'
    BY <2>1, <2>3 DEF Ready, PathsOnce, IndexUndoable, Paths
  <2> QED BY <1>1, <2>1, <2>8, <2>9
<1>12. ASSUME NEW p \in Process, Add(p), undoFaults' = 0 PROVE Undoable'
  <2> DEFINE y == staged[p][added[p] + 1].path
  <2>1. /\ Ready(p) /\ pc[p] = "add" /\ \A q \in Process \ {p} : pc'[q] = pc[q]
        /\ pc'[p] \in {"add", "commit"}
    BY <1>0, <1>12 DEF Add, Ready
  <2>2. y \in Path /\ y \in Paths(p)
    BY <1>0, <2>1 DEF WriteInv, TypeInv, Counters, Entry, Paths
  <2>3. stage' = [stage EXCEPT ![y] = disk[y]] /\ UNCHANGED <<disk, head, staged, previous, applied, result, before>>
    BY <1>12 DEF Add
  <2>4. (PathsOnce(p) /\ FilesUndoable(p))'
    BY <2>1, <2>3 DEF Ready, PathsOnce, FilesUndoable
  <2>5. IndexUndoable(p)'
    BY <1>0, <2>1, <2>2, <2>3 DEF Ready, IndexUndoable, Paths, Tree
  <2> QED BY <1>1, <2>1, <2>4, <2>5
<1>13. ASSUME NEW p \in Process, Unstage(p), undoFaults' = 0 PROVE Undoable'
  <2>1. /\ Ready(p) /\ pc[p] = "unstage" /\ \A q \in Process \ {p} : pc'[q] = pc[q]
        /\ pc'[p] = "rollback"
    BY <1>0, <1>13 DEF Unstage, UnstageTo, UndoFault, Ready
  <2>2. /\ stage' = [x \in Path |-> IF x \in Paths(p) THEN head[x] ELSE stage[x]]
        /\ UNCHANGED <<disk, head, staged, previous, applied, result, before>>
    BY <1>0, <1>13 DEF Unstage, UnstageTo, UndoFault
  <2>3. (PathsOnce(p) /\ FilesUndoable(p) /\ IndexUndoable(p))'
    BY <2>1, <2>2 DEF Ready, PathsOnce, FilesUndoable, IndexUndoable, Paths
  <2> QED BY <1>1, <2>1, <2>3
<1>14. ASSUME NEW p \in Process, Rollback(p), undoFaults' = 0 PROVE Undoable'
  <2> DEFINE n == applied[p]
             y == staged[p][n].path
  <2>0. undoFaults = 0 /\ pc[p] = "rollback" /\ pc' = pc /\ applied[p] > 0
    BY <1>0, <1>14, RollbackStep DEF UndoFault
  <2>1. Ready(p) /\ pc[p] = "rollback" /\ pc' = pc /\ n \in Nat /\ n > 0
    BY <1>0, <2>0
  <2>2. n \in DOMAIN staged[p] /\ y \in Path
    <3>1. n \in 1..Len(staged[p])
      BY <1>0, <2>1 DEF WriteInv, TypeInv, Counters
    <3> QED BY <1>0, <3>1 DEF Entry
  <2>3. /\ disk' = [disk EXCEPT ![y] = previous[p][y]]
        /\ applied' = [applied EXCEPT ![p] = n - 1]
        /\ UNCHANGED <<staged, stage, head, before, result, previous>>
    BY <1>0, <1>14, RollbackStep DEF UndoFault
  <2>4. previous[p][y] = before.disk[y]
    <3>1. n \in 1..n
      BY <2>1
    <3> QED BY <2>1, <3>1 DEF Ready, FilesUndoable
  <2>5. \A x \in Path : disk'[x] # before.disk[x] => \E i \in 1..(n - 1) : staged[p][i].path = x
    <3>1. disk'[y] = before.disk[y]
      BY <1>0, <2>2, <2>3, <2>4 DEF Tree
    <3>2. \A x \in Path : x # y => disk'[x] = disk[x]
      BY <1>0, <2>3 DEF Tree
    <3>3. \A x \in Path : disk[x] # before.disk[x] => \E i \in 1..n : staged[p][i].path = x
      BY <2>1 DEF Ready, FilesUndoable
    <3>4. \A i \in 1..n : i = n \/ i \in 1..(n - 1)
      BY <2>1
    <3> QED BY <3>1, <3>2, <3>3, <3>4
  <2>6. FilesUndoable(p)'
    <3>1. applied'[p] = n - 1 /\ \A i \in 1..(n - 1) : i \in 1..n
      BY <1>0, <2>1, <2>3
    <3>2. \A i \in 1..n : previous[p][staged[p][i].path] = before.disk[staged[p][i].path]
      BY <2>1 DEF Ready, FilesUndoable
    <3> QED BY <2>1, <2>3, <2>5, <3>1, <3>2 DEF FilesUndoable
  <2>7. (PathsOnce(p) /\ IndexUndoable(p))'
    BY <2>1, <2>3 DEF Ready, PathsOnce, IndexUndoable, Paths
  <2> QED BY <1>1, <2>1, <2>6, <2>7
<1>15. ASSUME NEW p \in Process, Forget(p), UNCHANGED undoFaults, undoFaults' = 0, pc[p] # "idle" PROVE Undoable'
  <2>1. \A q \in Process : pc'[q] = "idle"
    BY <1>0, <1>15 DEF Forget
  <2> QED BY <2>1 DEF Undoable
<1>16. ASSUME NEW p \in Process, Release(p) \/ Crash(p), undoFaults' = 0 PROVE Undoable'
  BY <1>15, <1>16 DEF Release, Releases, Crash
<1>17. ASSUME NEW p \in Process, NEW s \in Seq(Entry), Staging(p, s), undoFaults' = 0,
              Ready(p) => \A i, j \in DOMAIN s : s[i].path = s[j].path => i = j
       PROVE  Undoable'
  <2>1. /\ Ready(p) /\ pc[p] = "open" /\ pc' = pc /\ staged'[p] = s
        /\ UNCHANGED <<disk, stage, head, previous, applied, result, before>>
    BY <1>0, <1>17 DEF Staging
  <2>2. applied[p] = 0 /\ 1..0 = {}
    BY <2>1 DEF WriteInv, TypeInv, Counters
  <2>3. (PathsOnce(p) /\ FilesUndoable(p) /\ IndexUndoable(p))'
    BY <1>17, <2>1, <2>2 DEF Ready, PathsOnce, FilesUndoable, IndexUndoable
  <2> QED BY <1>1, <2>1, <2>3
<1>18. ASSUME NEW p \in Process, Stages(p), undoFaults' = 0 PROVE Undoable'
  <2> DEFINE Once(s) == \A i, j \in DOMAIN s : s[i].path = s[j].path => i = j
             Good(s) == s \in Seq(Entry) /\ (Ready(p) => Once(s))
  <2>1. Good(staged[p])
    BY <1>0 DEF Ready, PathsOnce
  <2>2. ASSUME NEW s, Good(s), NEW x \in Path, NEW w \in Content PROVE Good(PushStaged(s, x, w))
    BY <2>2, PushStagedType, PushStagedOnce
  <2>3. \A x \in Path : CurrentBytes(p, x) \in Content /\ MoveSource(p, x) \in Content
    BY <1>0, StagedWriteType DEF CurrentBytes, MoveSource, WriteInv, TypeInv, TypeOK, Tree
  <2> HIDE DEF Good
  <2>4. ASSUME NEW x \in Path, \/ StageNewFile(p, x) \/ StageEdit(p, x) \/ StageRemoveIssue(p, x)
                               \/ StageWriteDoc(p, x) \/ StageRemoveDoc(p, x)
        PROVE  \E s : Good(s) /\ Staging(p, s)
    BY <2>1, <2>2, <2>3, <2>4, ContentType
       DEF StageNewFile, StageEdit, StageRemoveIssue, StageWriteDoc, StageRemoveDoc
  <2>5. ASSUME NEW x \in Path, NEW y \in Path, StageMoveDoc(p, x, y)
        PROVE  \E s : Good(s) /\ Staging(p, s)
    BY <2>1, <2>2, <2>3, <2>5, ContentType DEF StageMoveDoc, Moves
  <2>6. PICK s : Good(s) /\ Staging(p, s)
    BY <1>18, <2>4, <2>5 DEF Stages
  <2> QED BY <1>17, <1>18, <2>6 DEF Good
<1>19. ASSUME NEW x \in Path, HumanEdit(x) \/ HumanAdd(x), undoFaults' = 0 PROVE Undoable'
  <2> SUFFICES ASSUME NEW p \in Process, pc'[p] # "idle"
               PROVE  (PathsOnce(p) /\ FilesUndoable(p) /\ IndexUndoable(p))'
    BY DEF Undoable
  <2>1. /\ Ready(p) /\ Writing /\ x \notin Paths(p) /\ pc' = pc
        /\ UNCHANGED <<head, staged, previous, applied, result>>
    BY <1>0, <1>19 DEF HumanEdit, HumanAdd, HumanActs, Untouched, Writing
  <2>2. \A i \in DOMAIN staged[p] : staged[p][i].path # x
    BY <2>1 DEF Paths
  <2>3. \A i \in 1..applied[p] : staged[p][i].path \in Path \ {x}
    <3>1. applied[p] \in Nat /\ applied[p] <= Len(staged[p])
      BY <1>0 DEF WriteInv, TypeInv, Counters
    <3>2. \A i \in 1..applied[p] : i \in DOMAIN staged[p]
      BY <1>0, <3>1
    <3> QED BY <1>0, <2>2, <3>2 DEF Entry
  <2>4. PathsOnce(p)'
    BY <2>1 DEF Ready, PathsOnce
  <2>5. CASE HumanEdit(x)
    <3>1. /\ disk' = [disk EXCEPT ![x] = disk'[x]] /\ before' = [before EXCEPT !.disk[x] = disk'[x]]
          /\ stage' = stage
      BY <1>0, <2>1, <2>5 DEF HumanEdit, Tree
    <3>2. /\ before'.disk[x] = disk'[x] /\ before'.stage = before.stage
          /\ \A y \in Path \ {x} : before'.disk[y] = before.disk[y] /\ disk'[y] = disk[y]
      BY <1>0, <3>1 DEF Tree
    <3>3. FilesUndoable(p)'
      <4>1. \A i \in 1..applied[p] : previous[p][staged[p][i].path] = before.disk[staged[p][i].path]
        BY <2>1 DEF Ready, FilesUndoable
      <4>2. \A y \in Path : disk[y] # before.disk[y] => \E i \in 1..applied[p] : staged[p][i].path = y
        BY <2>1 DEF Ready, FilesUndoable
      <4>3. \A y \in Path : disk'[y] # before'.disk[y] => \E i \in 1..applied[p] : staged[p][i].path = y
        BY <3>2, <4>2
      <4>4. \A i \in 1..applied[p] : previous[p][staged[p][i].path] = before'.disk[staged[p][i].path]
        BY <2>3, <3>2, <4>1
      <4>5. pc[p] = "release" /\ result[p] = "failed" => applied[p] = 0
        BY <2>1 DEF Ready, FilesUndoable
      <4> QED BY <2>1, <4>3, <4>4, <4>5 DEF FilesUndoable
    <3>4. IndexUndoable(p)'
      BY <2>1, <3>1, <3>2 DEF Ready, IndexUndoable, Paths
    <3> QED BY <2>4, <3>3, <3>4
  <2>6. CASE HumanAdd(x)
    <3>1. /\ stage' = [stage EXCEPT ![x] = stage'[x]] /\ before' = [before EXCEPT !.stage[x] = stage'[x]]
          /\ disk' = disk
      BY <1>0, <2>1, <2>6 DEF HumanAdd, Tree
    <3>2. /\ before'.stage[x] = stage'[x] /\ before'.disk = before.disk
          /\ \A y \in Path \ {x} : before'.stage[y] = before.stage[y] /\ stage'[y] = stage[y]
          /\ stage' \in Tree /\ before'.stage \in Tree
      BY <1>0, <3>1, <2>6 DEF HumanAdd, Tree
    <3>3. FilesUndoable(p)'
      BY <2>1, <3>1, <3>2 DEF Ready, FilesUndoable
    <3>4. stage = before.stage => stage' = before'.stage
      BY <3>2 DEF Tree
    <3>5. IndexUndoable(p)'
      BY <2>1, <3>2, <3>4 DEF Ready, IndexUndoable, Paths
    <3> QED BY <2>4, <3>3, <3>5
  <2> QED BY <1>19, <2>5, <2>6
<1>20. CASE ClearLock \/ UNCHANGED vars
  BY <1>20 DEF ClearLock, WriteInv, Undoable, PathsOnce, FilesUndoable, IndexUndoable, Paths
<1>21. undoFaults' # 0 => Undoable'
  BY DEF Undoable
<1> QED
  BY <1>2, <1>3, <1>4, <1>5, <1>5a, <1>5b, <1>6, <1>7, <1>8, <1>9, <1>10, <1>11, <1>12, <1>13, <1>14, <1>16, <1>18,
     <1>19, <1>20, <1>21 DEF Next, Runs, Decides

(* A write that failed, whatever failed in it and whatever dirt it started *)
(* from, has put back every file and taken its own paths out of git's      *)
(* index.                                                                  *)
THEOREM FailureIsUndone == Spec => []FailedWriteLeavesNothing
<1>1. Init => WriteInv
  <2>1. Init => Undoable
    BY DEF Init, Undoable
  <2> QED BY <2>1, InitTypeInv DEF Init, WriteInv, SingleWriter
<1>2. WriteInv /\ [Next]_vars => WriteInv'
  BY NextTypeInv, NextSingleWriter, NextUndoable DEF WriteInv
<1>3. WriteInv => FailedWriteLeavesNothing
  <2> SUFFICES ASSUME WriteInv, undoFaults = 0, NEW p \in Process, pc[p] = "release", result[p] = "failed"
               PROVE  /\ disk = before.disk
                      /\ \A x \in Path : \/ stage[x] = before.stage[x]
                                         \/ x \in Paths(p) /\ stage[x] = head[x]
    BY DEF FailedWriteLeavesNothing
  <2>1. FilesUndoable(p) /\ IndexUndoable(p)
    BY DEF WriteInv, Undoable
  <2>2. disk \in Tree /\ before.disk \in Tree
    BY DEF WriteInv, TypeInv, TypeOK
  <2>3. applied[p] = 0 /\ 1..0 = {}
    BY <2>1 DEF FilesUndoable
  <2>4. \A x \in Path : disk[x] = before.disk[x]
    BY <2>1, <2>3 DEF FilesUndoable
  <2>5. disk = before.disk
    BY <2>2, <2>4 DEF Tree
  <2> QED BY <2>1, <2>5 DEF IndexUndoable
<1> QED BY <1>1, <1>2, <1>3, PTL DEF Spec
-----------------------------------------------------------------------------
(* Why no committed edit is lost.  Of every issue whose commits were       *)
(* answered as such, the commit, git's index and the file on disk hold     *)
(* ever more edits, wherever they hold it at all; so do the bytes a        *)
(* running write would put back, and the bytes it is still to write.       *)
(* What a write has added is what the file holds, so that a commit that is *)
(* answered makes its issues such again.  All of it as long as no undo has *)
(* itself failed.                                                          *)
Answered == IssuePath \ disowned

Below(a, b) == a # Absent /\ b # Absent => a \subseteq b

Nested(x) == Below(head[x], stage[x]) /\ Below(head[x], disk[x]) /\ Below(stage[x], disk[x])

Undoing(p) == pc[p] \notin {"idle", "release"}

RestoresEdits(p, x) ==
    Undoing(p) => Below(head[x], before.disk[x]) /\ Below(before.stage[x], before.disk[x])

Keeps(x, w) ==
    w # Absent => IF disk[x] = Absent THEN stage[x] = Absent /\ head[x] = Absent ELSE disk[x] \subseteq w

WritesKeepEdits(p) ==
    pc[p] \in {"open", "finish"} =>
        \A i \in (applied[p] + 1)..Len(staged[p]) :
            staged[p][i].path \in Answered => Keeps(staged[p][i].path, staged[p][i].write)

AddedIsOnDisk(p) ==
    /\ pc[p] \in {"add", "commit"} =>
          \A i \in 1..added[p] : stage[staged[p][i].path] = disk[staged[p][i].path]
    /\ pc[p] = "commit" => added[p] = Len(staged[p])

EditsKept ==
    undoFaults = 0 =>
        /\ \A x \in Answered : Nested(x)
        /\ \A p \in Process, x \in Answered : RestoresEdits(p, x)
        /\ \A p \in Process : WritesKeepEdits(p)
        /\ \A p \in Process : AddedIsOnDisk(p)

EditsInv == WriteInv /\ EditsKept

(* An entry of the new list is the staged one, or one that was there.      *)
LEMMA PushStagedEntries ==
    ASSUME NEW s \in Seq(Entry), NEW x \in Path, NEW w \in Content, NEW i \in DOMAIN PushStaged(s, x, w)
    PROVE  \/ PushStaged(s, x, w)[i].path = x /\ PushStaged(s, x, w)[i].write = w
           \/ i \in DOMAIN s /\ PushStaged(s, x, w)[i] = s[i]
<1>1. DOMAIN s = 1..Len(s) /\ Len(s) \in Nat /\ \A j \in DOMAIN s : s[j] \in Entry
  BY LenProperties, ElementOfSeq
<1>2. CASE \E j \in DOMAIN s : s[j].path = x
  <2> DEFINE t == [j \in DOMAIN s |-> IF s[j].path = x THEN [s[j] EXCEPT !.write = w] ELSE s[j]]
  <2>1. PushStaged(s, x, w) = t
    BY <1>2 DEF PushStaged
  <2>2. i \in DOMAIN s /\ t[i] = IF s[i].path = x THEN [s[i] EXCEPT !.write = w] ELSE s[i]
    BY <2>1
  <2>3. s[i].path = x => t[i].path = x /\ t[i].write = w
    BY <1>1, <2>2 DEF Entry
  <2> HIDE DEF t
  <2> QED BY <2>1, <2>2, <2>3
<1>3. CASE ~ \E j \in DOMAIN s : s[j].path = x
  <2> DEFINE e == [path |-> x, write |-> w]
             t == Append(s, e)
  <2>1. DOMAIN t = 1..(Len(s) + 1) /\ t[Len(s) + 1] = e /\ \A j \in 1..Len(s) : t[j] = s[j]
    BY <1>1, AppendProperties DEF Entry
  <2>2. e.path = x /\ e.write = w /\ PushStaged(s, x, w) = t
    BY <1>3 DEF PushStaged
  <2> HIDE DEF e, t
  <2> QED BY <1>1, <2>1, <2>2
<1> QED BY <1>2, <1>3

(* Where no path is staged twice, a path's staged write is its entry's.    *)
LEMMA StagedOnce ==
    ASSUME NEW p \in Process, PathsOnce(p), NEW i \in DOMAIN staged[p]
    PROVE  staged[p][i].path \in Paths(p) /\ StagedWrite(p, staged[p][i].path) = staged[p][i].write
<1> DEFINE S == {staged[p][j] : j \in DOMAIN staged[p]}
           x == staged[p][i].path
<1>1. staged[p][i] \in S /\ staged[p][i].path = x
  OBVIOUS
<1>2. (CHOOSE e \in S : e.path = x) \in S /\ (CHOOSE e \in S : e.path = x).path = x
  BY <1>1
<1>3. \A e \in S : e.path = x => e = staged[p][i]
  BY DEF PathsOnce
<1>4. (CHOOSE e \in S : e.path = x) = staged[p][i]
  BY <1>2, <1>3
<1> QED BY <1>4 DEF StagedWrite, Paths

(* Every step keeps the edits in order.                                    *)
LEMMA NextEditsKept == EditsInv /\ [Next]_vars => EditsKept'
<1> SUFFICES ASSUME EditsInv, [Next]_vars, undoFaults' = 0 PROVE EditsKept'
  BY DEF EditsKept
<1> USE DEF Goto, Ends, vars, git, tx, budget, Fault, Answered
<1>0. /\ pc \in [Process -> PC] /\ applied \in [Process -> Nat] /\ added \in [Process -> Nat]
      /\ undoFaults \in Nat
      /\ disk \in Tree /\ stage \in Tree /\ head \in Tree /\ previous \in [Process -> Tree]
      /\ before \in [disk : Tree, stage : Tree] /\ staged \in [Process -> Seq(Entry)]
      /\ \A q \in Process : /\ DOMAIN staged[q] = 1..Len(staged[q]) /\ Len(staged[q]) \in Nat
                             /\ \A i \in DOMAIN staged[q] : staged[q][i] \in Entry
      /\ \A q \in Process : pc[q] # "idle" => lock = q
      /\ WriteInv /\ TypeOK /\ Counters /\ \A x \in IssuePath : x \in Path
  BY LenProperties, ElementOfSeq, BoundsAreNat DEF EditsInv, WriteInv, TypeInv, TypeOK, SingleWriter, Path
<1>1. undoFaults = 0
  <2>1. ASSUME NEW p \in Process, Unstage(p) \/ Rollback(p) \/ ApplyUnread(p) PROVE undoFaults = 0
    BY <1>0, <2>1, RollbackStep DEF Unstage, UnstageTo, UndoFault, ApplyUnread
  <2>2. ASSUME NEW p \in Process, Stages(p) PROVE UNCHANGED undoFaults
    BY <2>2 DEF Stages, StageNewFile, StageEdit, StageRemoveIssue, StageWriteDoc, StageRemoveDoc,
                StageMoveDoc, Moves, Staging
  <2>3. ASSUME NEW p \in Process, Begin(p) \/ Decides(p) \/ Release(p) \/ Crash(p) PROVE UNCHANGED undoFaults
    BY <2>3 DEF Begin, TakesLock, Decides, CallCommit, Abort, Release, Releases, Crash
  <2>4. ASSUME NEW p \in Process, \/ Apply(p) \/ ApplyFails(p) \/ Add(p) \/ AddFails(p) \/ GitCommit(p)
                                  \/ CommitUnseen(p) \/ NothingToCommit(p) \/ CommitFails(p) \/ RolledBack(p)
        PROVE  UNCHANGED undoFaults
    BY <2>4 DEF Apply, Applies, ApplyFails, Add, AddFails, GitCommit, CommitUnseen, NothingToCommit,
                CommitFails, RolledBack
  <2>5. ASSUME NEW x \in Path, HumanEdit(x) \/ HumanAdd(x) PROVE UNCHANGED undoFaults
    BY <2>5 DEF HumanEdit, HumanAdd, HumanActs
  <2>6. CASE ClearLock \/ UNCHANGED vars
    BY <2>6 DEF ClearLock
  <2> QED BY <2>1, <2>2, <2>3, <2>4, <2>5, <2>6 DEF Next, Runs
<1>2. /\ \A x \in Answered : Nested(x) /\ x \in Path
      /\ \A p \in Process, x \in Answered : RestoresEdits(p, x)
      /\ \A p \in Process : WritesKeepEdits(p) /\ AddedIsOnDisk(p)
      /\ \A p \in Process : pc[p] # "idle" => PathsOnce(p) /\ FilesUndoable(p) /\ IndexUndoable(p)
  BY <1>1 DEF EditsInv, EditsKept, WriteInv, Undoable, Path
<1>3. ASSUME UNCHANGED <<disk, stage, head, before, staged, applied, added, disowned>>,
             \A q \in Process : Undoing(q)' => Undoing(q),
             \A q \in Process : pc'[q] \in {"open", "finish"} => pc[q] \in {"open", "finish"},
             \A q \in Process : pc'[q] \in {"add", "commit"} => pc[q] = pc'[q]
      PROVE  EditsKept'
  <2>1. \A x \in Answered' : Nested(x)'
    BY <1>2, <1>3 DEF Nested, Below
  <2>2. \A p \in Process, x \in Answered' : RestoresEdits(p, x)'
    BY <1>2, <1>3 DEF RestoresEdits, Below
  <2>3. \A p \in Process : WritesKeepEdits(p)'
    BY <1>2, <1>3 DEF WritesKeepEdits, Keeps
  <2>4. \A p \in Process : AddedIsOnDisk(p)'
    BY <1>2, <1>3 DEF AddedIsOnDisk
  <2> QED BY <2>1, <2>2, <2>3, <2>4 DEF EditsKept
<1>4. ASSUME NEW p \in Process,
             \/ Abort(p) \/ NothingToCommit(p) \/ CommitFails(p) \/ AddFails(p) \/ ApplyFails(p)
             \/ RolledBack(p) \/ CallCommit(p)
      PROVE  EditsKept'
  <2>1. UNCHANGED <<disk, stage, head, before, staged, applied, added, disowned>>
    BY <1>4 DEF Abort, NothingToCommit, CommitFails, AddFails, ApplyFails, RolledBack, CallCommit
  <2>2. /\ pc[p] \notin {"idle", "release"} /\ \A q \in Process \ {p} : pc'[q] = pc[q]
        /\ pc'[p] \in {"open", "finish"} => pc[p] \in {"open", "finish"}
        /\ pc'[p] \notin {"add", "commit"}
    BY <1>0, <1>4 DEF Abort, NothingToCommit, CommitFails, AddFails, ApplyFails, RolledBack, CallCommit
  <2> QED BY <1>3, <2>1, <2>2 DEF Undoing
<1>5. CASE ClearLock \/ UNCHANGED vars
  BY <1>3, <1>5 DEF ClearLock, Undoing
<1>6. ASSUME NEW p \in Process, Begin(p) PROVE EditsKept'
  <2>1. /\ lock = Free /\ pc' = [pc EXCEPT ![p] = "open"] /\ before' = [disk |-> disk, stage |-> stage]
        /\ UNCHANGED <<disk, stage, head, staged, applied, disowned>>
    BY <1>6 DEF Begin, TakesLock
  <2>2. \A q \in Process \ {p} : pc'[q] = "idle"
    BY <1>0, <2>1, MarksDistinct
  <2>3. staged[p] = <<>> /\ Len(staged[p]) = 0 /\ applied[p] = 0
    BY <1>0, <1>6 DEF Begin, TakesLock, Counters
  <2>4. \A x \in Answered' : Nested(x)'
    BY <1>2, <2>1 DEF Nested, Below
  <2>5. \A q \in Process, x \in Answered' : RestoresEdits(q, x)'
    BY <1>2, <2>1 DEF RestoresEdits, Nested, Below
  <2>6. \A q \in Process : WritesKeepEdits(q)'
    <3>1. WritesKeepEdits(p)'
      <4>1. (0 + 1)..0 = {}
        OBVIOUS
      <4> QED BY <2>1, <2>3, <4>1 DEF WritesKeepEdits
    <3>2. \A q \in Process \ {p} : WritesKeepEdits(q)'
      BY <2>2 DEF WritesKeepEdits
    <3> QED BY <3>1, <3>2
  <2>7. \A q \in Process : AddedIsOnDisk(q)'
    BY <1>0, <2>1, <2>2 DEF AddedIsOnDisk
  <2> QED BY <2>4, <2>5, <2>6, <2>7 DEF EditsKept
<1>7. ASSUME NEW p \in Process, Release(p) \/ Crash(p) PROVE EditsKept'
  <2>1. Forget(p) /\ UNCHANGED <<disk, stage, head, disowned>> /\ pc[p] # "idle"
    BY <1>7 DEF Release, Releases, Crash
  <2>2. \A q \in Process : pc'[q] = "idle"
    BY <1>0, <2>1 DEF Forget
  <2>3. \A x \in Answered' : Nested(x)'
    BY <1>2, <2>1 DEF Nested, Below
  <2> QED BY <2>2, <2>3 DEF EditsKept, RestoresEdits, WritesKeepEdits, AddedIsOnDisk, Undoing
<1>8. ASSUME NEW p \in Process, pc[p] # "idle", NEW q \in Process \ {p} PROVE pc[q] = "idle"
  BY <1>0, <1>8
<1>9. ASSUME NEW p \in Process, Apply(p) PROVE EditsKept'
  <2> DEFINE n == applied[p]
             y == staged[p][n + 1].path
             w == staged[p][n + 1].write
  <2>1. /\ pc[p] = "finish" /\ \A q \in Process \ {p} : pc'[q] = pc[q]
        /\ pc'[p] \in {"finish", "add"} /\ PathsOnce(p)
    BY <1>0, <1>2, <1>9 DEF Apply, Applies
  <2>2. n \in Nat /\ n + 1 \in DOMAIN staged[p] /\ y \in Path /\ n + 1 \in (n + 1)..Len(staged[p])
    <3>1. n \in Nat /\ n + 1 \in 1..Len(staged[p]) /\ n + 1 \in (n + 1)..Len(staged[p])
      BY <1>0, <2>1 DEF Counters
    <3> QED BY <1>0, <3>1 DEF Entry
  <2>3. /\ disk' = [disk EXCEPT ![y] = w]
        /\ applied' = [applied EXCEPT ![p] = n + 1]
        /\ UNCHANGED <<staged, stage, head, before, added, disowned>>
    BY <1>9 DEF Apply, Applies
  <2>4. y \in Answered => Keeps(y, w)
    BY <1>2, <2>1, <2>2 DEF WritesKeepEdits
  <2>5. \A x \in Path : disk'[x] = IF x = y THEN w ELSE disk[x]
    BY <1>0, <2>3 DEF Tree
  <2>6. \A x \in Answered' : Nested(x)'
    <3> TAKE x \in Answered'
    <3>1. CASE x # y
      BY <1>2, <2>3, <2>5, <3>1 DEF Nested
    <3>2. CASE x = y
      BY <1>2, <2>3, <2>4, <2>5, <3>2 DEF Nested, Keeps, Below
    <3> QED BY <3>1, <3>2
  <2>7. \A q \in Process, x \in Answered' : RestoresEdits(q, x)'
    <3> TAKE q \in Process, x \in Answered'
    <3>1. Undoing(q)' => Undoing(q)
      BY <1>0, <2>1 DEF Undoing
    <3> QED BY <1>2, <2>3, <3>1 DEF RestoresEdits
  <2>8. \A q \in Process : WritesKeepEdits(q)'
    <3>1. \A q \in Process \ {p} : WritesKeepEdits(q)'
      BY <1>8, <2>1 DEF WritesKeepEdits
    <3>2. WritesKeepEdits(p)'
      <4> SUFFICES ASSUME NEW i \in (n + 2)..Len(staged[p]), staged[p][i].path \in Answered
                   PROVE  Keeps(staged[p][i].path, staged[p][i].write)'
        <5>1. applied'[p] + 1 = n + 2 /\ staged'[p] = staged[p]
          BY <1>0, <2>2, <2>3
        <5> QED BY <2>3, <5>1 DEF WritesKeepEdits
      <4>1. i \in (n + 1)..Len(staged[p]) /\ i \in DOMAIN staged[p] /\ i # n + 1
        BY <1>0, <2>2
      <4>2. Keeps(staged[p][i].path, staged[p][i].write)
        BY <1>2, <2>1, <4>1 DEF WritesKeepEdits
      <4>3. staged[p][i].path # y /\ staged[p][i].path \in Path
        BY <1>2, <2>1, <2>2, <4>1 DEF PathsOnce
      <4> QED BY <2>3, <2>5, <4>2, <4>3 DEF Keeps
    <3> QED BY <3>1, <3>2
  <2>9. \A q \in Process : AddedIsOnDisk(q)'
    <3>1. \A q \in Process \ {p} : AddedIsOnDisk(q)'
      BY <1>8, <2>1 DEF AddedIsOnDisk
    <3>2. added'[p] = 0 /\ pc'[p] # "commit" /\ 1..0 = {}
      BY <1>0, <2>1, <2>3 DEF Counters
    <3> QED BY <3>1, <3>2 DEF AddedIsOnDisk
  <2> QED BY <2>6, <2>7, <2>8, <2>9 DEF EditsKept
<1>10. ASSUME NEW p \in Process, Add(p) PROVE EditsKept'
  <2> DEFINE y == staged[p][added[p] + 1].path
  <2>1. /\ pc[p] = "add" /\ \A q \in Process \ {p} : pc'[q] = pc[q]
        /\ pc'[p] \in {"add", "commit"}
    BY <1>0, <1>10 DEF Add
  <2>2. stage' = [stage EXCEPT ![y] = disk[y]] /\ UNCHANGED <<disk, head, before, staged, disowned>>
    BY <1>10 DEF Add
  <2>3. \A x \in Path : stage'[x] = IF x = y THEN disk[x] ELSE stage[x]
    BY <1>0, <2>2 DEF Tree
  <2>4. \A x \in Answered' : Nested(x)'
    BY <1>2, <2>2, <2>3 DEF Nested, Below
  <2>5. \A q \in Process, x \in Answered' : RestoresEdits(q, x)'
    <3> TAKE q \in Process, x \in Answered'
    <3>1. Undoing(q)' => Undoing(q)
      BY <1>0, <2>1 DEF Undoing
    <3> QED BY <1>2, <2>2, <3>1 DEF RestoresEdits
  <2>6. \A q \in Process : WritesKeepEdits(q)'
    BY <1>8, <2>1 DEF WritesKeepEdits
  <2>7. \A q \in Process : AddedIsOnDisk(q)'
    <3> DEFINE n == added[p]
    <3>1. \A q \in Process \ {p} : AddedIsOnDisk(q)'
      BY <1>8, <2>1 DEF AddedIsOnDisk
    <3>2. n \in Nat /\ n < Len(staged[p]) /\ added'[p] = n + 1
      BY <1>0, <1>10 DEF Add, Counters
    <3>3. pc'[p] = "commit" => n + 1 = Len(staged[p])
      BY <1>0, <1>10, <2>1 DEF Add
    <3>4. \A i \in 1..(n + 1) : stage'[staged[p][i].path] = disk[staged[p][i].path]
      <4> TAKE i \in 1..(n + 1)
      <4>1. i \in DOMAIN staged[p]
        BY <1>0, <3>2
      <4>2. staged[p][i].path \in Path
        BY <1>0, <4>1 DEF Entry
      <4>3. i = n + 1 \/ i \in 1..n
        BY <3>2
      <4> QED BY <1>2, <2>1, <2>3, <4>2, <4>3 DEF AddedIsOnDisk
    <3>5. AddedIsOnDisk(p)'
      BY <2>2, <3>2, <3>3, <3>4 DEF AddedIsOnDisk
    <3> QED BY <3>1, <3>5
  <2> QED BY <2>4, <2>5, <2>6, <2>7 DEF EditsKept
<1>11. ASSUME NEW p \in Process, GitCommit(p) PROVE EditsKept'
  <2>1. /\ pc[p] = "commit" /\ \A q \in Process \ {p} : pc'[q] = pc[q] /\ pc[q] = "idle"
        /\ pc'[p] = "release"
    BY <1>0, <1>8, <1>11 DEF GitCommit
  <2>2. head' = stage /\ disowned' = disowned \ Paths(p) /\ UNCHANGED <<disk, stage>>
    BY <1>11 DEF GitCommit
  <2>3. \A x \in Answered' : Nested(x)'
    <3> TAKE x \in Answered'
    <3>1. CASE x \in Answered
      BY <1>2, <2>2, <3>1 DEF Nested, Below
    <3>2. CASE x \in Paths(p)
      <4>1. PICK i \in DOMAIN staged[p] : staged[p][i].path = x
        BY <3>2 DEF Paths
      <4>2. stage[x] = disk[x]
        BY <1>0, <1>2, <2>1, <4>1 DEF AddedIsOnDisk
      <4> QED BY <2>2, <4>2 DEF Nested, Below
    <3> QED BY <2>2, <3>1, <3>2
  <2>4. \A q \in Process : pc'[q] \in {"idle", "release"}
    BY <2>1
  <2> QED BY <2>3, <2>4 DEF EditsKept, RestoresEdits, WritesKeepEdits, AddedIsOnDisk, Undoing
<1>11a. ASSUME NEW p \in Process, CommitUnseen(p) PROVE EditsKept'
  <2>1. /\ pc[p] = "commit" /\ pc'[p] = "unstage"
        /\ \A q \in Process \ {p} : pc'[q] = pc[q] /\ pc[q] = "idle"
    BY <1>0, <1>8, <1>11a DEF CommitUnseen
  <2>2. head' = stage /\ disowned' = disowned \cup Paths(p) /\ UNCHANGED <<disk, stage, before>>
    BY <1>11a DEF CommitUnseen
  <2>3. \A x \in Answered' : x \in Answered /\ x \notin Paths(p)
    BY <2>2
  <2>4. \A x \in Answered' : Nested(x)'
    BY <1>2, <2>2, <2>3 DEF Nested, Below
  <2>5. \A x \in Answered' : stage[x] = before.stage[x]
    BY <1>2, <2>1, <2>3 DEF IndexUndoable
  <2>6. \A x \in Answered' : Below(before.stage[x], before.disk[x])
    BY <1>2, <2>1, <2>3 DEF RestoresEdits, Undoing
  <2>7. \A q \in Process, x \in Answered' : RestoresEdits(q, x)'
    BY <2>2, <2>5, <2>6 DEF RestoresEdits
  <2>8. \A q \in Process : WritesKeepEdits(q)' /\ AddedIsOnDisk(q)'
    BY <2>1 DEF WritesKeepEdits, AddedIsOnDisk
  <2> QED BY <2>4, <2>7, <2>8 DEF EditsKept
<1>12. ASSUME NEW p \in Process, Unstage(p) PROVE EditsKept'
  <2>1. /\ pc[p] = "unstage" /\ \A q \in Process \ {p} : pc'[q] = pc[q]
        /\ pc'[p] = "rollback"
    BY <1>0, <1>12 DEF Unstage, UnstageTo
  <2>2. /\ stage' = [x \in Path |-> IF x \in Paths(p) THEN head[x] ELSE stage[x]]
        /\ UNCHANGED <<disk, head, before, disowned>>
    BY <1>0, <1>1, <1>12 DEF Unstage, UnstageTo, UndoFault
  <2>3. \A x \in Answered' : Nested(x)'
    BY <1>2, <2>2 DEF Nested, Below
  <2>4. \A q \in Process, x \in Answered' : RestoresEdits(q, x)'
    <3> TAKE q \in Process, x \in Answered'
    <3>1. Undoing(q)' => Undoing(q)
      BY <1>0, <2>1 DEF Undoing
    <3> QED BY <1>2, <2>2, <3>1 DEF RestoresEdits
  <2>5. \A q \in Process : WritesKeepEdits(q)' /\ AddedIsOnDisk(q)'
    BY <1>8, <2>1 DEF WritesKeepEdits, AddedIsOnDisk
  <2> QED BY <2>3, <2>4, <2>5 DEF EditsKept
<1>13. ASSUME NEW p \in Process, Rollback(p) PROVE EditsKept'
  <2> DEFINE n == applied[p]
             y == staged[p][n].path
  <2>1. pc[p] = "rollback" /\ pc' = pc /\ n \in Nat /\ n > 0
    BY <1>0, <1>13 DEF Rollback
  <2>2. n \in DOMAIN staged[p] /\ y \in Path
    <3>1. n \in 1..Len(staged[p])
      BY <1>0, <2>1 DEF Counters
    <3> QED BY <1>0, <3>1 DEF Entry
  <2>3. disk' = [disk EXCEPT ![y] = previous[p][y]] /\ UNCHANGED <<stage, head, before, disowned>>
    BY <1>0, <1>1, <1>13, RollbackStep DEF UndoFault
  <2>4. previous[p][y] = before.disk[y]
    <3>1. n \in 1..n /\ FilesUndoable(p)
      BY <1>2, <2>1
    <3> QED BY <3>1 DEF FilesUndoable
  <2>5. \A x \in Path : disk'[x] = IF x = y THEN before.disk[x] ELSE disk[x]
    BY <1>0, <2>3, <2>4 DEF Tree
  <2>6. \A x \in Answered' : Nested(x)'
    <3> TAKE x \in Answered'
    <3>1. CASE x # y
      BY <1>2, <2>3, <2>5, <3>1 DEF Nested
    <3>2. CASE x = y
      <4>1. disk'[x] = before.disk[x] /\ UNCHANGED <<stage, head>>
        BY <1>2, <2>3, <2>5, <3>2
      <4>2. Below(head[x], before.disk[x]) /\ Below(before.stage[x], before.disk[x])
        BY <1>2, <2>1, <2>3 DEF RestoresEdits, Undoing
      <4>3. stage[x] = before.stage[x] \/ stage[x] = head[x]
        BY <1>2, <2>1, <2>3 DEF IndexUndoable
      <4>4. Nested(x)
        BY <1>2, <2>3
      <4> QED BY <4>1, <4>2, <4>3, <4>4 DEF Nested
    <3> QED BY <3>1, <3>2
  <2>7. \A q \in Process, x \in Answered' : RestoresEdits(q, x)'
    BY <1>2, <2>1, <2>3 DEF RestoresEdits, Undoing
  <2>8. \A q \in Process : WritesKeepEdits(q)' /\ AddedIsOnDisk(q)'
    BY <1>8, <2>1 DEF WritesKeepEdits, AddedIsOnDisk
  <2> QED BY <2>6, <2>7, <2>8 DEF EditsKept
<1>14. ASSUME NEW p \in Process, NEW s, Staging(p, s),
              \A i \in 1..Len(s) : s[i].path \in Answered => Keeps(s[i].path, s[i].write)
       PROVE  EditsKept'
  <2>1. /\ pc[p] = "open" /\ pc' = pc /\ staged'[p] = s
        /\ UNCHANGED <<disk, stage, head, before, applied, disowned>>
    BY <1>0, <1>14 DEF Staging
  <2>2. applied[p] = 0 /\ 0 + 1 = 1
    BY <1>0, <2>1 DEF Counters
  <2>3. \A x \in Answered' : Nested(x)'
    BY <1>2, <2>1 DEF Nested
  <2>4. \A q \in Process, x \in Answered' : RestoresEdits(q, x)'
    BY <1>2, <2>1 DEF RestoresEdits, Undoing
  <2>5. WritesKeepEdits(p)'
    BY <1>14, <2>1, <2>2 DEF WritesKeepEdits, Keeps
  <2>6. \A q \in Process \ {p} : WritesKeepEdits(q)'
    BY <1>8, <2>1 DEF WritesKeepEdits
  <2>7. \A q \in Process : AddedIsOnDisk(q)'
    BY <1>8, <2>1 DEF AddedIsOnDisk
  <2> QED BY <2>3, <2>4, <2>5, <2>6, <2>7 DEF EditsKept
<1>15. ASSUME NEW p \in Process, Stages(p) PROVE EditsKept'
  <2> DEFINE Kept(s) == \A i \in 1..Len(s) : s[i].path \in Answered => Keeps(s[i].path, s[i].write)
             Good(s) == s \in Seq(Entry) /\ Kept(s)
  <2>0. pc[p] = "open"
    BY <1>15 DEF Stages, StageNewFile, StageEdit, StageRemoveIssue, StageWriteDoc, StageRemoveDoc,
                 StageMoveDoc, Moves, Staging
  <2>1. Good(staged[p])
    <3>1. applied[p] = 0 /\ 0 + 1 = 1
      BY <1>0, <2>0 DEF Counters
    <3> QED BY <1>0, <1>2, <2>0, <3>1 DEF WritesKeepEdits
  <2>2. ASSUME NEW s, Good(s), NEW x \in Path, NEW w \in Content, x \in Answered => Keeps(x, w)
        PROVE  Good(PushStaged(s, x, w))
    <3>1. PushStaged(s, x, w) \in Seq(Entry)
      BY <2>2, PushStagedType
    <3>2. DOMAIN PushStaged(s, x, w) = 1..Len(PushStaged(s, x, w)) /\ DOMAIN s = 1..Len(s)
      BY <2>2, <3>1, LenProperties
    <3>3. \A i \in 1..Len(PushStaged(s, x, w)) :
             \/ PushStaged(s, x, w)[i].path = x /\ PushStaged(s, x, w)[i].write = w
             \/ i \in 1..Len(s) /\ PushStaged(s, x, w)[i] = s[i]
      BY <2>2, <3>2, PushStagedEntries
    <3> HIDE DEF Good
    <3> DEFINE t == PushStaged(s, x, w)
    <3> HIDE DEF t
    <3>4. \A i \in 1..Len(t) : (t[i].path = x /\ t[i].write = w) \/ (i \in 1..Len(s) /\ t[i] = s[i])
      BY <3>3 DEF t
    <3>5. Kept(s)
      BY <2>2 DEF Good
    <3>6. Kept(t)
      BY <2>2, <3>4, <3>5
    <3> QED BY <3>1, <3>6 DEF Good, t
  <2>3. \A x \in Path : CurrentBytes(p, x) \in Content /\ MoveSource(p, x) \in Content
    BY <1>0, StagedWriteType DEF CurrentBytes, MoveSource, Tree
  <2>4. ASSUME NEW x \in Paths(p), x \in Answered PROVE Keeps(x, StagedWrite(p, x))
    <3>1. PICK i \in DOMAIN staged[p] : staged[p][i].path = x
      BY DEF Paths
    <3>2. StagedWrite(p, x) = staged[p][i].write
      BY <1>2, <2>0, <3>1, StagedOnce
    <3>3. i \in 1..Len(staged[p])
      BY <1>0
    <3> QED BY <2>1, <2>4, <3>1, <3>2, <3>3
  <2>5. DocPath \cap IssuePath = {} /\ DocPath \subseteq Path
    BY PathsDisjoint DEF Path
  <2>6. ASSUME NEW x \in Answered, CurrentBytes(p, x) # Absent PROVE Keeps(x, CurrentBytes(p, x) \cup {p})
    <3>1. CASE x \in Paths(p) /\ StagedWrite(p, x) # Absent
      <4>1. CurrentBytes(p, x) = StagedWrite(p, x)
        BY <3>1 DEF CurrentBytes
      <4> QED BY <2>4, <3>1, <4>1 DEF Keeps
    <3>2. CASE ~(x \in Paths(p) /\ StagedWrite(p, x) # Absent)
      <4>1. CurrentBytes(p, x) = disk[x]
        BY <3>2 DEF CurrentBytes
      <4> QED BY <2>6, <4>1 DEF Keeps
    <3> QED BY <3>1, <3>2
  <2> HIDE DEF Good
  <2>7. ASSUME NEW x \in Path, StageNewFile(p, x) PROVE \E s : Good(s) /\ Staging(p, s)
    <3>1. Keeps(x, {p}) /\ {p} \in Content
      BY <2>7, ContentType DEF StageNewFile, Keeps
    <3> QED BY <2>1, <2>2, <2>7, <3>1 DEF StageNewFile
  <2>8. ASSUME NEW x \in Path, StageEdit(p, x) PROVE \E s : Good(s) /\ Staging(p, s)
    <3>1. (x \in Answered => Keeps(x, CurrentBytes(p, x) \cup {p})) /\ CurrentBytes(p, x) \cup {p} \in Content
      BY <2>3, <2>6, <2>8, ContentType DEF StageEdit
    <3> QED BY <2>1, <2>2, <2>8, <3>1 DEF StageEdit
  <2>9. Absent \in Content /\ {p} \in Content /\ \A x : Keeps(x, Absent)
    BY ContentType DEF Keeps
  <2>10. ASSUME NEW x \in Path, StageRemoveIssue(p, x) \/ StageRemoveDoc(p, x) PROVE \E s : Good(s) /\ Staging(p, s)
    BY <2>1, <2>2, <2>9, <2>10 DEF StageRemoveIssue, StageRemoveDoc
  <2>11. ASSUME NEW x \in Path, StageWriteDoc(p, x) PROVE \E s : Good(s) /\ Staging(p, s)
    BY <2>1, <2>2, <2>5, <2>9, <2>11 DEF StageWriteDoc
  <2>12. ASSUME NEW x \in Path, NEW y \in Path, StageMoveDoc(p, x, y) PROVE \E s : Good(s) /\ Staging(p, s)
    <3>1. x \notin IssuePath /\ y \notin IssuePath
      BY <2>5, <2>12 DEF StageMoveDoc, Moves
    <3>2. Good(PushStaged(staged[p], y, MoveSource(p, x)))
      BY <2>1, <2>2, <2>3, <3>1
    <3>3. Good(PushStaged(PushStaged(staged[p], y, MoveSource(p, x)), x, Absent))
      BY <2>2, <2>9, <3>2
    <3> QED BY <2>12, <3>3 DEF StageMoveDoc, Moves
  <2>13. PICK s : Good(s) /\ Staging(p, s)
    BY <1>15, <2>7, <2>8, <2>10, <2>11, <2>12 DEF Stages
  <2> QED BY <1>14, <2>13 DEF Good
<1>16. ASSUME NEW x \in Path, HumanEdit(x) \/ HumanAdd(x) PROVE EditsKept'
  <2>1. /\ pc' = pc /\ UNCHANGED <<head, staged, applied, added, disowned>>
        /\ \A q \in Process : pc[q] # "idle" => x \notin Paths(q) /\ Writing
    BY <1>16 DEF HumanEdit, HumanAdd, HumanActs, Untouched, Writing
  <2>2. \A q \in Process : pc[q] # "idle" => \A i \in DOMAIN staged[q] : staged[q][i].path # x
    BY <2>1 DEF Paths
  <2>3. ASSUME NEW q \in Process, pc[q] # "idle" PROVE disk[x] = before.disk[x]
    <3>1. FilesUndoable(q) /\ \A i \in 1..applied[q] : i \in DOMAIN staged[q]
      <4>1. applied[q] \in Nat /\ applied[q] <= Len(staged[q]) /\ Len(staged[q]) \in Nat
        BY <1>0 DEF Counters
      <4>2. \A i \in 1..applied[q] : i \in 1..Len(staged[q])
        BY <4>1
      <4> QED BY <1>0, <1>2, <2>3, <4>2
    <3> QED BY <2>2, <2>3, <3>1 DEF FilesUndoable
  <2>4. \A q \in Process : pc[q] # "idle" =>
           \A i \in (applied[q] + 1)..Len(staged[q]) : staged[q][i].path # x /\ staged[q][i].path \in Path
    <3> TAKE q \in Process
    <3>1. \A i \in (applied[q] + 1)..Len(staged[q]) : i \in DOMAIN staged[q]
      BY <1>0
    <3> QED BY <1>0, <2>2, <3>1 DEF Entry
  <2>4a. \A q \in Process : pc[q] \in {"add", "commit"} =>
           \A i \in 1..added[q] : staged[q][i].path # x /\ staged[q][i].path \in Path
    <3> SUFFICES ASSUME NEW q \in Process, pc[q] \in {"add", "commit"}, NEW i \in 1..added[q]
                 PROVE  staged[q][i].path # x /\ staged[q][i].path \in Path
      OBVIOUS
    <3>1. i \in DOMAIN staged[q]
      BY <1>0, <1>2 DEF Counters, AddedIsOnDisk
    <3> QED BY <1>0, <2>2, <3>1 DEF Entry
  <2>5. CASE HumanEdit(x)
    <3> DEFINE w == IF disk[x] = Absent THEN {Human} ELSE disk[x] \cup {Human}
    <3>1. /\ disk' = [disk EXCEPT ![x] = w] /\ stage' = stage /\ (x \in IssuePath => disk[x] # Absent)
          /\ before' = IF Writing THEN [before EXCEPT !.disk[x] = disk'[x]] ELSE before
      BY <2>5 DEF HumanEdit
    <3>2. \A y \in Path : disk'[y] = IF y = x THEN w ELSE disk[y]
      BY <1>0, <3>1 DEF Tree
    <3>3. \A y \in Answered' : Nested(y)'
      BY <1>2, <2>1, <3>1, <3>2 DEF Nested, Below
    <3>4. \A q \in Process, y \in Answered' : RestoresEdits(q, y)'
      <4> SUFFICES ASSUME NEW q \in Process, NEW y \in Answered', Undoing(q)
                   PROVE  (Below(head[y], before.disk[y]) /\ Below(before.stage[y], before.disk[y]))'
        BY <2>1 DEF RestoresEdits, Undoing
      <4>1. before' = [before EXCEPT !.disk[x] = disk'[x]] /\ disk[x] = before.disk[x]
        BY <2>1, <2>3, <3>1 DEF Undoing
      <4>2. before'.stage = before.stage /\ \A z \in Path : before'.disk[z] = IF z = x THEN disk'[x] ELSE before.disk[z]
        BY <1>0, <4>1 DEF Tree
      <4>3. Below(head[y], before.disk[y]) /\ Below(before.stage[y], before.disk[y])
        BY <1>2, <2>1 DEF RestoresEdits
      <4> QED BY <1>2, <2>1, <3>1, <3>2, <4>1, <4>2, <4>3 DEF Below
    <3>5. \A q \in Process : WritesKeepEdits(q)'
      BY <1>2, <2>1, <2>4, <3>1, <3>2 DEF WritesKeepEdits, Keeps
    <3>6. \A q \in Process : AddedIsOnDisk(q)'
      BY <1>2, <2>1, <2>4a, <3>1, <3>2 DEF AddedIsOnDisk
    <3> QED BY <3>3, <3>4, <3>5, <3>6 DEF EditsKept
  <2>6. CASE HumanAdd(x)
    <3>1. /\ stage' = [stage EXCEPT ![x] = disk[x]] /\ disk' = disk
          /\ before' = IF Writing THEN [before EXCEPT !.stage[x] = disk[x]] ELSE before
      BY <2>6 DEF HumanAdd
    <3>2. \A y \in Path : stage'[y] = IF y = x THEN disk[y] ELSE stage[y]
      BY <1>0, <3>1 DEF Tree
    <3>3. \A y \in Answered' : Nested(y)'
      BY <1>2, <2>1, <3>1, <3>2 DEF Nested, Below
    <3>4. \A q \in Process, y \in Answered' : RestoresEdits(q, y)'
      <4> SUFFICES ASSUME NEW q \in Process, NEW y \in Answered', Undoing(q)
                   PROVE  (Below(head[y], before.disk[y]) /\ Below(before.stage[y], before.disk[y]))'
        BY <2>1 DEF RestoresEdits, Undoing
      <4>1. before' = [before EXCEPT !.stage[x] = disk[x]] /\ disk[x] = before.disk[x]
        BY <2>1, <2>3, <3>1 DEF Undoing
      <4>2. before'.disk = before.disk /\ \A z \in Path : before'.stage[z] = IF z = x THEN disk[x] ELSE before.stage[z]
        BY <1>0, <4>1 DEF Tree
      <4>3. Below(head[y], before.disk[y]) /\ Below(before.stage[y], before.disk[y])
        BY <1>2, <2>1 DEF RestoresEdits
      <4> QED BY <1>2, <2>1, <4>1, <4>2, <4>3 DEF Below
    <3>5. \A q \in Process : WritesKeepEdits(q)'
      BY <1>2, <2>1, <2>4, <3>1, <3>2 DEF WritesKeepEdits, Keeps
    <3>6. \A q \in Process : AddedIsOnDisk(q)'
      BY <1>2, <2>1, <2>4a, <3>1, <3>2 DEF AddedIsOnDisk
    <3> QED BY <3>3, <3>4, <3>5, <3>6 DEF EditsKept
  <2> QED BY <1>16, <2>5, <2>6
<1>17. ASSUME NEW p \in Process, ApplyUnread(p) PROVE FALSE
  BY <1>0, <1>17 DEF ApplyUnread, UndoFault
<1> QED
  BY <1>4, <1>5, <1>6, <1>7, <1>9, <1>10, <1>11, <1>11a, <1>12, <1>17, <1>13, <1>15, <1>16 DEF Next, Runs, Decides

(* What the edits' invariant says holds always.                            *)
LEMMA EditsAlways == Spec => []EditsInv
<1>1. Init => EditsInv
  <2> SUFFICES ASSUME Init PROVE EditsInv
    OBVIOUS
  <2>1. WriteInv
    <3>1. Undoable
      BY DEF Init, Undoable
    <3> QED BY <3>1, InitTypeInv DEF Init, WriteInv, SingleWriter
  <2>2. disk = head /\ stage = head /\ \A p \in Process : pc[p] = "idle"
    BY DEF Init
  <2>3. \A x \in IssuePath : Nested(x)
    BY <2>2 DEF Nested, Below
  <2> QED BY <2>1, <2>2, <2>3
       DEF EditsInv, EditsKept, Answered, RestoresEdits, Undoing, WritesKeepEdits, AddedIsOnDisk
<1>2. EditsInv /\ [Next]_vars => EditsInv'
  BY NextTypeInv, NextSingleWriter, NextUndoable, NextEditsKept DEF EditsInv, WriteInv
<1> QED BY <1>1, <1>2, PTL DEF Spec

(* No commit drops an edit of an issue that an earlier one holds, whatever *)
(* fails, dies and is edited by hand in between, save the edits of a       *)
(* commit that was answered with an error.                                 *)
THEOREM EditsStay == Spec => NoCommittedEditLost
<1>1. EditsInv /\ [Next]_vars =>
        [\A x \in IssuePath \ disowned :
            undoFaults = 0 /\ head[x] # Absent /\ head'[x] # Absent
                => head[x] \subseteq head'[x]]_vars
  <2> SUFFICES ASSUME EditsInv, Next, NEW x \in IssuePath \ disowned, undoFaults = 0,
                      head[x] # Absent, head'[x] # Absent
               PROVE  head[x] \subseteq head'[x]
    OBVIOUS
  <2>1. Nested(x)
    BY DEF EditsInv, EditsKept, Answered
  <2>2. head' = head \/ head' = stage
    <3>1. ASSUME NEW p \in Process, Stages(p) PROVE head' = head
      BY <3>1 DEF Stages, StageNewFile, StageEdit, StageRemoveIssue, StageWriteDoc, StageRemoveDoc,
                  StageMoveDoc, Moves, Staging, git
    <3>2. ASSUME NEW p \in Process, Begin(p) \/ Decides(p) \/ Crash(p) PROVE head' = head
      BY <3>2 DEF Begin, TakesLock, Decides, CallCommit, Abort, Crash, git
    <3>3. ASSUME NEW p \in Process, Runs(p) PROVE head' = head \/ head' = stage
      BY <3>3 DEF Runs, Apply, Applies, ApplyUnread, ApplyFails, Add, AddFails, GitCommit, CommitUnseen,
                  NothingToCommit, CommitFails, Unstage, UnstageTo, Rollback, RolledBack, Release, Releases, git
    <3>4. ASSUME NEW y \in Path, HumanEdit(y) \/ HumanAdd(y) PROVE head' = head
      BY <3>4 DEF HumanEdit, HumanAdd, git
    <3>5. CASE ClearLock
      BY <3>5 DEF ClearLock, git
    <3> QED BY <3>1, <3>2, <3>3, <3>4, <3>5 DEF Next
  <2> QED BY <2>1, <2>2 DEF Nested, Below
<1> QED BY <1>1, EditsAlways, PTL DEF Spec, NoCommittedEditLost
-----------------------------------------------------------------------------
(* A write is atomic.  The plan of a list of staged writes: each path with *)
(* the bytes staged for it last.                                           *)
PathsIn(s)    == {s[i].path : i \in DOMAIN s}
WriteIn(s, x) == (CHOOSE e \in {s[i] : i \in DOMAIN s} : e.path = x).write
PlanIn(s)     == [x \in PathsIn(s) |-> WriteIn(s, x)]
Once(s)       == \A i, j \in DOMAIN s : s[i].path = s[j].path => i = j

(* In a staging that names each path once, a path's write is the one       *)
(* staged for it.                                                          *)
LEMMA WriteOnce ==
    ASSUME NEW s, Once(s), NEW i \in DOMAIN s
    PROVE  s[i].path \in PathsIn(s) /\ WriteIn(s, s[i].path) = s[i].write
<1> DEFINE S == {s[j] : j \in DOMAIN s}
           x == s[i].path
<1>1. s[i] \in S /\ s[i].path = x
  OBVIOUS
<1>2. (CHOOSE e \in S : e.path = x) \in S /\ (CHOOSE e \in S : e.path = x).path = x
  BY <1>1
<1>3. \A e \in S : e.path = x => e = s[i]
  BY DEF Once
<1>4. (CHOOSE e \in S : e.path = x) = s[i]
  BY <1>2, <1>3
<1> QED BY <1>4 DEF WriteIn, PathsIn

(* Staging a path puts it into the plan and changes no other path of it.   *)
LEMMA PushStagedPlans ==
    ASSUME NEW s \in Seq(Entry), Once(s), NEW x \in Path, NEW w \in Content
    PROVE  /\ PushStaged(s, x, w) \in Seq(Entry) /\ Once(PushStaged(s, x, w))
           /\ PlanIn(PushStaged(s, x, w)) = Atomic!Put(PlanIn(s), x, w)
<1> DEFINE t == PushStaged(s, x, w)
<1>1. DOMAIN s = 1..Len(s) /\ Len(s) \in Nat /\ \A i \in DOMAIN s : s[i] \in Entry
  BY LenProperties, ElementOfSeq
<1>2. t \in Seq(Entry)
  BY PushStagedType
<1>3. Once(t)
  BY PushStagedOnce DEF Once
<1>4. \A i \in DOMAIN t : (t[i].path = x /\ t[i].write = w) \/ (i \in DOMAIN s /\ t[i] = s[i])
  BY PushStagedEntries
<1>5. (\A i \in DOMAIN s : i \in DOMAIN t /\ t[i].path = s[i].path)
      /\ \E i \in DOMAIN t : t[i].path = x /\ t[i].write = w
  <2>1. CASE \E i \in DOMAIN s : s[i].path = x
    <3> DEFINE u == [i \in DOMAIN s |-> IF s[i].path = x THEN [s[i] EXCEPT !.write = w] ELSE s[i]]
    <3>1. t = u
      BY <2>1 DEF PushStaged
    <3>2. DOMAIN u = DOMAIN s /\ \A i \in DOMAIN s : u[i].path = s[i].path /\ (s[i].path = x => u[i].write = w)
      BY <1>1 DEF Entry
    <3> HIDE DEF t, u
    <3> QED BY <2>1, <3>1, <3>2
  <2>2. CASE ~ \E i \in DOMAIN s : s[i].path = x
    <3> DEFINE e == [path |-> x, write |-> w]
    <3>1. t = Append(s, e) /\ e.path = x /\ e.write = w
      BY <2>2 DEF PushStaged
    <3>2. e \in Entry
      BY DEF Entry
    <3> HIDE DEF t, e
    <3>3. DOMAIN t = 1..(Len(s) + 1) /\ t[Len(s) + 1] = e /\ \A i \in 1..Len(s) : t[i] = s[i]
      BY <3>1, <3>2, AppendProperties
    <3> QED BY <1>1, <3>1, <3>3
  <2> QED BY <2>1, <2>2
<1> HIDE DEF t
<1>6. PathsIn(t) = PathsIn(s) \cup {x}
  BY <1>4, <1>5 DEF PathsIn
<1>7. \A y \in PathsIn(t) : WriteIn(t, y) = IF y = x THEN w ELSE WriteIn(s, y)
  <2> TAKE y \in PathsIn(t)
  <2>1. CASE y = x
    <3>1. PICK i \in DOMAIN t : t[i].path = x /\ t[i].write = w
      BY <1>5
    <3> QED BY <1>3, <2>1, <3>1, WriteOnce
  <2>2. CASE y # x
    <3>1. PICK i \in DOMAIN t : t[i].path = y
      BY DEF PathsIn
    <3>2. i \in DOMAIN s /\ t[i] = s[i]
      BY <1>4, <2>2, <3>1
    <3>3. WriteIn(t, y) = t[i].write /\ WriteIn(s, y) = s[i].write
      BY <1>3, <3>1, <3>2, WriteOnce
    <3> QED BY <2>2, <3>2, <3>3
  <2> QED BY <2>1, <2>2
<1>8. PlanIn(t) = Atomic!Put(PlanIn(s), x, w)
  BY <1>6, <1>7 DEF PlanIn, Atomic!Put
<1> QED BY <1>2, <1>3, <1>8 DEF t

(* Without crashes, hand edits and failing undos: between writes git's     *)
(* index and HEAD agree; a write starts from that, what it has applied and *)
(* added is what it has staged, and an undo leads back to it, from the     *)
(* HEAD that is there, whether the commit landed or not.                   *)
Clean == stage = head

CleanAt(p) ==
    /\ pc[p] \in {"open", "rollback", "release"} => Clean
    /\ Pending(p) => before.stage = head
    /\ pc[p] = "unstage" => \A x \in Path : stage[x] # head[x] => x \in Paths(p)

Written(p) ==
    /\ pc[p] \in {"finish", "add", "commit"} =>
          \A i \in 1..applied[p] : disk[staged[p][i].path] = staged[p][i].write
    /\ pc[p] \in {"add", "commit"} =>
          /\ \A i \in 1..added[p] : stage[staged[p][i].path] = staged[p][i].write
          /\ \A x \in Path : stage[x] # head[x] => \E i \in 1..added[p] : staged[p][i].path = x
    /\ pc[p] = "commit" => added[p] = Len(staged[p])

LockHeld == lock # Free => pc[lock] # "idle"

CleanInv ==
    /\ LockHeld
    /\ lock = Free => Clean
    /\ \A p \in Process : CleanAt(p) /\ Written(p)

(* What was staged is what is on disk and in the index when git commits.   *)
LEMMA AllWritten ==
    ASSUME WriteInv, CleanInv, undoFaults = 0, NEW p \in Process, pc[p] = "commit"
    PROVE  /\ disk \in Tree /\ stage \in Tree /\ head \in Tree
           /\ \A x \in Path : stage[x] = IF x \in PathsIn(staged[p]) THEN WriteIn(staged[p], x) ELSE head[x]
           /\ \A x \in Path : disk[x] = IF x \in PathsIn(staged[p]) THEN WriteIn(staged[p], x) ELSE before.disk[x]
<1>1. /\ disk \in Tree /\ stage \in Tree /\ head \in Tree /\ before \in [disk : Tree, stage : Tree]
      /\ staged[p] \in Seq(Entry) /\ DOMAIN staged[p] = 1..Len(staged[p])
      /\ applied[p] = Len(staged[p]) /\ added[p] = Len(staged[p])
  BY LenProperties DEF WriteInv, TypeInv, TypeOK, Counters, CleanInv, Written
<1>2. Once(staged[p]) /\ FilesUndoable(p)
  BY DEF WriteInv, Undoable, PathsOnce, Once
<1>3. \A i \in DOMAIN staged[p] : /\ disk[staged[p][i].path] = staged[p][i].write
                                  /\ stage[staged[p][i].path] = staged[p][i].write
  BY <1>1 DEF CleanInv, Written
<1>4. \A x \in Path \ PathsIn(staged[p]) : disk[x] = before.disk[x] /\ stage[x] = head[x]
  BY <1>1, <1>2 DEF CleanInv, Written, FilesUndoable, PathsIn
<1>5. \A x \in PathsIn(staged[p]) : stage[x] = WriteIn(staged[p], x) /\ disk[x] = stage[x]
  <2> TAKE x \in PathsIn(staged[p])
  <2>1. PICK i \in DOMAIN staged[p] : staged[p][i].path = x
    BY DEF PathsIn
  <2>2. WriteIn(staged[p], x) = staged[p][i].write
    BY <1>2, <2>1, WriteOnce
  <2> QED BY <1>3, <2>1, <2>2
<1> QED BY <1>1, <1>4, <1>5

(* With no failed undo, no death and no edits by hand, every step keeps    *)
(* the tree clean between writes.                                          *)
LEMMA NextClean ==
    ASSUME MaxUndoFaults = 0, MaxCrashes = 0, MaxHuman = 0, WriteInv, CleanInv, [Next]_vars
    PROVE  CleanInv'
<1> USE DEF Goto, Ends, vars, git, tx, budget, Fault
<1>0. /\ pc \in [Process -> PC] /\ applied \in [Process -> Nat] /\ added \in [Process -> Nat]
      /\ undoFaults = 0 /\ crashes = 0 /\ human = 0
      /\ disk \in Tree /\ stage \in Tree /\ head \in Tree
      /\ before \in [disk : Tree, stage : Tree] /\ staged \in [Process -> Seq(Entry)]
      /\ \A q \in Process : /\ DOMAIN staged[q] = 1..Len(staged[q]) /\ Len(staged[q]) \in Nat
                             /\ \A i \in DOMAIN staged[q] : staged[q][i] \in Entry
      /\ \A q \in Process : pc[q] # "idle" => lock = q
      /\ Free \notin Process /\ Counters
  BY LenProperties, ElementOfSeq, MarksDistinct DEF WriteInv, TypeInv, TypeOK, SingleWriter
<1>1. \A q \in Process : pc[q] # "idle" => /\ PathsOnce(q) /\ FilesUndoable(q) /\ IndexUndoable(q)
                                           /\ CleanAt(q) /\ Written(q)
  BY <1>0 DEF WriteInv, Undoable, CleanInv
<1>2. ASSUME NEW p \in Process, pc[p] # "idle", NEW l \in PC \ {"idle"},
             pc' = [pc EXCEPT ![p] = l] \/ (pc' = pc /\ l = pc[p]), lock' = lock,
             pc'[p] = l => CleanAt(p)' /\ Written(p)'
      PROVE  CleanInv'
  <2>1. pc'[p] = l /\ lock = p /\ lock' = p /\ p # Free
    BY <1>0, <1>2
  <2>2. \A q \in Process \ {p} : pc'[q] = "idle"
    BY <1>0, <1>2
  <2>3. \A q \in Process \ {p} : CleanAt(q)' /\ Written(q)'
    BY <2>2 DEF CleanAt, Written, Pending
  <2>4. LockHeld'
    BY <1>2, <2>1 DEF LockHeld
  <2> QED BY <1>2, <2>1, <2>3, <2>4 DEF CleanInv
<1>3. ASSUME NEW p \in Process, Begin(p) PROVE CleanInv'
  <2>1. Clean /\ lock = Free /\ lock' = p /\ pc' = [pc EXCEPT ![p] = "open"]
        /\ before' = [disk |-> disk, stage |-> stage] /\ UNCHANGED <<disk, stage, head>>
    BY <1>3 DEF Begin, TakesLock, CleanInv
  <2>2. pc'[p] = "open" /\ \A q \in Process \ {p} : pc'[q] = "idle"
    BY <1>0, <2>1
  <2>3. LockHeld' /\ lock' # Free
    BY <1>0, <2>1, <2>2 DEF LockHeld
  <2>4. CleanAt(p)' /\ Written(p)'
    BY <2>1, <2>2 DEF Clean, CleanAt, Written, Pending
  <2>5. \A q \in Process \ {p} : CleanAt(q)' /\ Written(q)'
    BY <2>2 DEF CleanAt, Written, Pending
  <2> QED BY <2>3, <2>4, <2>5 DEF CleanInv
<1>4. ASSUME NEW p \in Process, Stages(p) PROVE CleanInv'
  <2>1. PICK s : Staging(p, s)
    BY <1>4 DEF Stages, StageNewFile, StageEdit, StageRemoveIssue, StageWriteDoc, StageRemoveDoc, StageMoveDoc, Moves
  <2>2. pc[p] = "open" /\ pc' = pc /\ lock' = lock /\ UNCHANGED <<disk, stage, head, before>>
    BY <2>1 DEF Staging
  <2>3. CleanAt(p)' /\ Written(p)'
    BY <1>1, <2>2 DEF CleanAt, Written, Clean, Pending
  <2> QED BY <1>2, <2>2, <2>3 DEF PC
<1>5. ASSUME NEW p \in Process, Abort(p) \/ CallCommit(p) PROVE CleanInv'
  <2>1. /\ pc[p] = "open" /\ lock' = lock /\ UNCHANGED <<disk, stage, head, before, staged, applied>>
        /\ \E l \in {"release", "finish"} : pc' = [pc EXCEPT ![p] = l]
    BY <1>5 DEF Abort, CallCommit
  <2>2. PICK l \in {"release", "finish"} : pc' = [pc EXCEPT ![p] = l]
    BY <2>1
  <2>3. applied[p] = 0 /\ 1..0 = {}
    BY <1>0, <2>1 DEF Counters
  <2>4. pc'[p] = l => CleanAt(p)' /\ Written(p)'
    BY <1>1, <2>1, <2>2, <2>3 DEF CleanAt, Written, Clean, Pending
  <2> QED BY <1>2, <2>1, <2>2, <2>4 DEF PC
<1>6. ASSUME NEW p \in Process, Apply(p) PROVE CleanInv'
  <2> DEFINE n == applied[p]
             y == staged[p][n + 1].path
             w == staged[p][n + 1].write
  <2>1. pc[p] = "finish" /\ lock' = lock /\ PathsOnce(p) /\ added[p] = 0 /\ stage = head
        /\ before.stage = head
    BY <1>0, <1>1, <1>6 DEF Apply, Applies, Counters, CleanAt, IndexUndoable, Pending
  <2>2. n \in Nat /\ n + 1 \in DOMAIN staged[p] /\ y \in Path
    BY <1>0, <2>1 DEF Counters, Entry
  <2>3. /\ disk' = [disk EXCEPT ![y] = w] /\ applied' = [applied EXCEPT ![p] = n + 1]
        /\ UNCHANGED <<staged, stage, head, before, added>>
        /\ \E l \in {"finish", "add"} : pc' = [pc EXCEPT ![p] = l] \/ (pc' = pc /\ l = pc[p])
    BY <1>6 DEF Apply, Applies
  <2>4. \A i \in 1..(n + 1) : disk'[staged[p][i].path] = staged[p][i].write
    <3>1. disk'[y] = w
      BY <1>0, <2>2, <2>3 DEF Tree
    <3>2. \A i \in 1..n : disk[staged[p][i].path] = staged[p][i].write
      BY <1>1, <2>1 DEF Written
    <3>3. \A i \in 1..n : i \in DOMAIN staged[p] /\ i # n + 1
      BY <1>0, <2>2
    <3>4. \A i \in 1..n : staged[p][i].path # y /\ staged[p][i].path \in Path
      BY <1>0, <2>1, <2>2, <3>3 DEF PathsOnce, Entry
    <3>5. \A i \in 1..(n + 1) : i \in 1..n \/ i = n + 1
      BY <2>2
    <3>6. \A i \in 1..n : disk'[staged[p][i].path] = disk[staged[p][i].path]
      BY <1>0, <2>3, <3>4 DEF Tree
    <3> QED BY <3>1, <3>2, <3>5, <3>6
  <2>5. PICK l \in {"finish", "add"} : pc' = [pc EXCEPT ![p] = l] \/ (pc' = pc /\ l = pc[p])
    BY <2>3
  <2>6. applied'[p] = n + 1 /\ added'[p] = 0 /\ 1..0 = {}
    BY <1>0, <2>1, <2>3
  <2>7. pc'[p] = l => CleanAt(p)' /\ Written(p)'
    BY <2>1, <2>3, <2>4, <2>5, <2>6 DEF CleanAt, Written, Pending
  <2> QED BY <1>2, <2>1, <2>5, <2>7 DEF PC
<1>7. ASSUME NEW p \in Process, ApplyFails(p) \/ Rollback(p) PROVE CleanInv'
  <2>1. /\ pc[p] \in {"finish", "rollback"} /\ lock' = lock /\ UNCHANGED <<stage, head, before>>
        /\ pc' = [pc EXCEPT ![p] = "rollback"] \/ (pc' = pc /\ pc[p] = "rollback")
    BY <1>7, RollbackStep DEF ApplyFails
  <2>2. stage = head
    BY <1>1, <2>1 DEF CleanAt, IndexUndoable, Pending, Clean
  <2>3. pc'[p] = "rollback" => CleanAt(p)' /\ Written(p)'
    BY <2>1, <2>2 DEF CleanAt, Written, Clean, Pending
  <2> QED BY <1>2, <2>1, <2>3 DEF PC
<1>7a. ASSUME NEW p \in Process, AddFails(p) \/ CommitFails(p) \/ CommitUnseen(p) PROVE CleanInv'
  <2>1. /\ pc[p] \in {"add", "commit"} /\ lock' = lock /\ UNCHANGED <<stage, before, staged>>
        /\ pc' = [pc EXCEPT ![p] = "unstage"] /\ head' \in {head, stage}
    BY <1>7a DEF AddFails, CommitFails, CommitUnseen
  <2>2. \A x \in Path : stage[x] # head[x] => x \in Paths(p)
    BY <1>1, <2>1 DEF CleanAt, IndexUndoable, Pending
  <2>3. \A x \in Path : stage'[x] # head'[x] => x \in Paths(p)'
    BY <2>1, <2>2 DEF Paths
  <2>4. pc'[p] = "unstage" => CleanAt(p)' /\ Written(p)'
    BY <2>3 DEF CleanAt, Written, Pending
  <2> QED BY <1>2, <2>1, <2>4 DEF PC
<1>7b. ASSUME NEW p \in Process, Unstage(p) PROVE CleanInv'
  <2>1. /\ pc[p] = "unstage" /\ lock' = lock /\ head' = head /\ pc' = [pc EXCEPT ![p] = "rollback"]
        /\ stage' = [x \in Path |-> IF x \in Paths(p) THEN head[x] ELSE stage[x]]
    BY <1>0, <1>7b DEF Unstage, UnstageTo, UndoFault
  <2>2. \A x \in Path : stage'[x] = head[x]
    BY <1>1, <2>1 DEF CleanAt
  <2>3. stage' = head'
    BY <1>0, <2>1, <2>2 DEF Tree
  <2>4. pc'[p] = "rollback" => CleanAt(p)' /\ Written(p)'
    BY <2>3 DEF CleanAt, Written, Clean, Pending
  <2> QED BY <1>2, <2>1, <2>4 DEF PC
<1>8. ASSUME NEW p \in Process, Add(p) PROVE CleanInv'
  <2> DEFINE n == added[p]
             y == staged[p][n + 1].path
  <2>1. pc[p] = "add" /\ lock' = lock /\ PathsOnce(p) /\ before.stage = head
        /\ applied[p] = Len(staged[p]) /\ n < Len(staged[p])
    BY <1>0, <1>1, <1>8 DEF Add, Counters, CleanAt, Pending
  <2>2. n \in Nat /\ n + 1 \in DOMAIN staged[p] /\ y \in Path /\ n + 1 \in 1..applied[p]
    <3>1. n \in Nat
      BY <1>0
    <3>2. applied[p] \in Nat /\ n + 1 \in 1..applied[p]
      BY <1>0, <2>1, <3>1
    <3>3. n + 1 \in DOMAIN staged[p]
      BY <1>0, <2>1, <3>2
    <3>4. staged[p][n + 1] \in Entry
      BY <1>0, <3>3
    <3>5. y \in Path
      BY <3>4 DEF Entry
    <3> QED BY <3>1, <3>2, <3>3, <3>5
  <2>3. /\ stage' = [stage EXCEPT ![y] = disk[y]] /\ added' = [added EXCEPT ![p] = n + 1]
        /\ UNCHANGED <<staged, disk, head, before, applied>>
    BY <1>8 DEF Add
  <2>4. IF n + 1 = Len(staged[p]) THEN pc' = [pc EXCEPT ![p] = "commit"] ELSE pc' = pc
    BY <1>8 DEF Add
  <2>5. \A x \in Path : stage'[x] = IF x = y THEN disk[y] ELSE stage[x]
    BY <1>0, <2>3 DEF Tree
  <2>6. disk[y] = staged[p][n + 1].write
    BY <1>1, <2>1, <2>2 DEF Written
  <2>7. \A i \in 1..(n + 1) : stage'[staged[p][i].path] = staged[p][i].write
    <3>1. \A i \in 1..n : stage[staged[p][i].path] = staged[p][i].write
      BY <1>1, <2>1 DEF Written
    <3>2. \A i \in 1..n : i \in DOMAIN staged[p] /\ i # n + 1
      BY <1>0, <2>2
    <3>3. \A i \in 1..n : staged[p][i].path # y /\ staged[p][i].path \in Path
      BY <1>0, <2>1, <2>2, <3>2 DEF PathsOnce, Entry
    <3>4. \A i \in 1..(n + 1) : i \in 1..n \/ i = n + 1
      BY <2>2
    <3> QED BY <2>2, <2>5, <2>6, <3>1, <3>3, <3>4
  <2>8. \A x \in Path : stage'[x] # head[x] => \E i \in 1..(n + 1) : staged[p][i].path = x
    <3>1. \A x \in Path : stage[x] # head[x] => \E i \in 1..n : staged[p][i].path = x
      BY <1>1, <2>1 DEF Written
    <3>2. n + 1 \in 1..(n + 1) /\ \A i \in 1..n : i \in 1..(n + 1)
      BY <2>2
    <3> QED BY <2>5, <3>1, <3>2
  <2>9. \A i \in 1..applied[p] : disk[staged[p][i].path] = staged[p][i].write
    BY <1>1, <2>1 DEF Written
  <2>10. added'[p] = n + 1
    BY <1>0, <2>3
  <2>11. CleanAt(p)'
    BY <1>0, <2>1, <2>3, <2>4 DEF CleanAt, Pending
  <2>12. Written(p)'
    BY <1>0, <2>1, <2>3, <2>4, <2>7, <2>8, <2>9, <2>10 DEF Written
  <2> QED BY <1>2, <2>1, <2>4, <2>11, <2>12 DEF PC
<1>9. ASSUME NEW p \in Process, GitCommit(p) \/ NothingToCommit(p) PROVE CleanInv'
  <2>1. pc[p] = "commit" /\ lock' = lock /\ head' = stage /\ stage' = stage
        /\ pc' = [pc EXCEPT ![p] = "release"]
    BY <1>9 DEF GitCommit, NothingToCommit
  <2>2. pc'[p] = "release" => CleanAt(p)' /\ Written(p)'
    BY <2>1 DEF CleanAt, Clean, Pending, Written
  <2> QED BY <1>2, <2>1, <2>2 DEF PC
<1>10. ASSUME NEW p \in Process, RolledBack(p) PROVE CleanInv'
  <2>1. /\ pc[p] = "rollback" /\ lock' = lock /\ UNCHANGED <<stage, head>>
        /\ pc' = [pc EXCEPT ![p] = "release"]
    BY <1>10 DEF RolledBack
  <2>2. Clean'
    BY <1>1, <2>1 DEF CleanAt, Clean
  <2>3. pc'[p] = "release" => CleanAt(p)' /\ Written(p)'
    BY <2>1, <2>2 DEF CleanAt, Pending, Written
  <2> QED BY <1>2, <2>1, <2>3 DEF PC
<1>11. ASSUME NEW p \in Process, Release(p) PROVE CleanInv'
  <2>1. pc[p] = "release" /\ lock' = Free /\ pc' = [pc EXCEPT ![p] = "idle"] /\ UNCHANGED <<disk, stage, head>>
    BY <1>11 DEF Release, Releases, Forget
  <2>2. \A q \in Process : pc'[q] = "idle"
    BY <1>0, <2>1
  <2>3. Clean'
    BY <1>1, <2>1 DEF CleanAt, Clean
  <2> QED BY <2>1, <2>2, <2>3 DEF CleanInv, CleanAt, Written, LockHeld, Pending
<1>12. CASE UNCHANGED vars
  BY <1>12 DEF CleanInv, CleanAt, Clean, Written, LockHeld, Pending, Paths
<1>13. ~ClearLock /\ (\A p \in Process : ~Crash(p) /\ ~ApplyUnread(p)) /\ \A x \in Path : ~HumanEdit(x) /\ ~HumanAdd(x)
  <2>1. ~ClearLock
    BY DEF ClearLock, StaleLock, CleanInv, LockHeld
  <2>2. \A p \in Process : ~Crash(p) /\ ~ApplyUnread(p)
    BY <1>0 DEF Crash, ApplyUnread, UndoFault
  <2>3. \A x \in Path : ~HumanEdit(x) /\ ~HumanAdd(x)
    BY <1>0 DEF HumanEdit, HumanAdd, HumanActs
  <2> QED BY <2>1, <2>2, <2>3
<1> QED
  BY <1>3, <1>4, <1>5, <1>6, <1>7, <1>7a, <1>7b, <1>8, <1>9, <1>10, <1>11, <1>12, <1>13 DEF Next, Runs, Decides

(* So the tree is clean between writes, always.                            *)
LEMMA CleanAlways ==
    ASSUME MaxUndoFaults = 0, MaxCrashes = 0, MaxHuman = 0
    PROVE  Spec => [](WriteInv /\ CleanInv)
<1>1. Init => WriteInv
  <2>1. Init => Undoable
    BY DEF Init, Undoable
  <2> QED BY <2>1, InitTypeInv DEF Init, WriteInv, SingleWriter
<1>2. Init => CleanInv
  BY DEF Init, CleanInv, LockHeld, Clean, CleanAt, Written, Pending
<1>3. WriteInv /\ CleanInv /\ [Next]_vars => (WriteInv /\ CleanInv)'
  BY NextTypeInv, NextSingleWriter, NextUndoable, NextClean DEF WriteInv
<1> QED BY <1>1, <1>2, <1>3, PTL DEF Spec

(* A plan is a partial tree, never the sign for having none.               *)
LEMMA PlansAreTrees ==
    ASSUME NEW s \in Seq(Entry)
    PROVE  PlanIn(s) # NoPlan
<1>1. \A i \in DOMAIN s : s[i] \in Entry
  BY LenProperties, ElementOfSeq
<1>2. PathsIn(s) \in SUBSET Path
  BY <1>1 DEF PathsIn, Entry
<1>3. \A x \in PathsIn(s) : WriteIn(s, x) \in Content
  <2> TAKE x \in PathsIn(s)
  <2> DEFINE S == {s[j] : j \in DOMAIN s}
  <2>1. \E e \in S : e.path = x
    BY DEF PathsIn
  <2>2. (CHOOSE e \in S : e.path = x) \in S
    BY <2>1
  <2>3. S \subseteq Entry
    BY <1>1
  <2> QED BY <2>2, <2>3 DEF WriteIn, Entry
<1>4. PlanIn(s) \in [PathsIn(s) -> Content]
  BY <1>3 DEF PlanIn
<1> QED BY <1>2, <1>4, NoPlanIsNoTree

(* The plan a process has is that of its staged writes, until it commits   *)
(* or gives up.                                                            *)
PlanOf(p) == IF Pending(p) THEN PlanIn(staged[p]) ELSE NoPlan

(* The abstract plan of a process is what it has staged until its write    *)
(* ends.                                                                   *)
LEMMA PlanIs == AbstractPlan = [p \in Process |-> PlanOf(p)]
<1>1. ASSUME NEW p \in Process
      PROVE  [x \in Paths(p) |-> StagedWrite(p, x)] = PlanIn(staged[p])
  BY DEF Paths, StagedWrite, PlanIn, PathsIn, WriteIn
<1> QED BY <1>1 DEF AbstractPlan, PlanOf

(* Every step of the write path is one of the steps it promises, or none.  *)
LEMMA StepImplements ==
    ASSUME MaxUndoFaults = 0, MaxCrashes = 0, MaxHuman = 0, WriteInv, CleanInv, [Next]_vars
    PROVE  [Atomic!Next]_(Atomic!vars)
<1> USE DEF Goto, Ends, vars, git, tx, budget, Fault
<1>0. /\ pc \in [Process -> PC] /\ staged \in [Process -> Seq(Entry)]
      /\ undoFaults = 0 /\ crashes = 0 /\ human = 0
      /\ disk \in Tree /\ stage \in Tree /\ head \in Tree
      /\ \A q \in Process : pc[q] # "idle" => lock = q
      /\ \A q \in Process : pc[q] = "idle" => staged[q] = <<>>
      /\ Free \notin Process
  BY MarksDistinct DEF WriteInv, TypeInv, TypeOK, SingleWriter, Counters
<1>1. \A q \in Process : pc[q] # "idle" => /\ PathsOnce(q) /\ CleanAt(q) /\ FilesUndoable(q)
  BY <1>0 DEF WriteInv, Undoable, CleanInv
<1>1a. ASSUME NEW p \in Process, pc[p] # "idle", applied[p] = 0 PROVE disk = before.disk
  <2>1. \A x \in Path : disk[x] = before.disk[x]
    <3>1. 1..0 = {}
      OBVIOUS
    <3> QED BY <1>1, <1>1a, <3>1 DEF FilesUndoable
  <2>2. before.disk \in Tree
    BY DEF WriteInv, TypeInv, TypeOK
  <2> QED BY <1>0, <2>1, <2>2 DEF Tree
<1>2. AbstractPlan' = [q \in Process |-> PlanOf(q)']
  <2>1. ASSUME NEW q \in Process
        PROVE  [x \in Paths(q)' |-> StagedWrite(q, x)'] = PlanIn(staged'[q])
    BY DEF Paths, StagedWrite, PlanIn, PathsIn, WriteIn
  <2> QED BY <2>1 DEF AbstractPlan, PlanOf
<1>3. ASSUME NEW p \in Process, \A q \in Process \ {p} : pc'[q] = pc[q] /\ staged'[q] = staged[q]
      PROVE  AbstractPlan' = [AbstractPlan EXCEPT ![p] = PlanOf(p)']
  <2>1. \A q \in Process \ {p} : PlanOf(q)' = PlanOf(q)
    BY <1>3 DEF PlanOf, Pending
  <2> QED BY <1>2, <2>1, PlanIs
<1>4. ASSUME NEW p \in Process, pc[p] # "idle", lock' = lock
      PROVE  /\ Shown = IF pc[p] = "release" THEN disk ELSE before.disk
             /\ Shown' = IF pc'[p] = "release" THEN disk' ELSE before'.disk
  BY <1>0, <1>4 DEF Shown
<1>5. ASSUME AbstractPlan' = AbstractPlan, Shown' = Shown, head' = head
      PROVE  [Atomic!Next]_(Atomic!vars)
  BY <1>5 DEF Atomic!vars
(* the plan is made *)
<1>6. ASSUME NEW p \in Process, Begin(p) PROVE [Atomic!Next]_(Atomic!vars)
  <2>1. /\ pc[p] = "idle" /\ lock = Free /\ lock' = p /\ pc' = [pc EXCEPT ![p] = "open"]
        /\ before'.disk = disk /\ UNCHANGED <<staged, disk, head>>
    BY <1>6 DEF Begin, TakesLock
  <2>2. \A q \in Process : pc[q] = "idle"
    BY <1>0, <2>1
  <2>3. \A q \in Process : AbstractPlan[q] = NoPlan
    BY <2>2, PlanIs DEF PlanOf, Pending
  <2>4. Shown' = Shown
    <3>1. Shown = disk
      BY <2>1 DEF Shown
    <3>2. pc'[p] = "open" /\ lock' # Free
      BY <1>0, <2>1
    <3> QED BY <2>1, <3>1, <3>2 DEF Shown
  <2>5. staged'[p] = <<>> /\ PlanOf(p)' = PlanIn(<<>>)
    BY <1>0, <2>1 DEF PlanOf, Pending
  <2>6. PlanIn(<<>>) = [x \in {} |-> head[x]]
    <3>1. DOMAIN <<>> = {}
      OBVIOUS
    <3>2. PathsIn(<<>>) = {}
      BY <3>1 DEF PathsIn
    <3> QED BY <3>2 DEF PlanIn
  <2>7. AbstractPlan' = [AbstractPlan EXCEPT ![p] = [x \in {} |-> head[x]]]
    BY <1>0, <1>3, <2>1, <2>5, <2>6
  <2>8. Atomic!Open(p)
    BY <2>1, <2>3, <2>4, <2>7 DEF Atomic!Open
  <2> QED BY <2>8 DEF Atomic!Next
<1>7. ASSUME NEW p \in Process, NEW s, Staging(p, s)
      PROVE  /\ pc[p] = "open" /\ AbstractPlan[p] = PlanIn(staged[p]) /\ AbstractPlan[p] # NoPlan
             /\ AbstractPlan' = [AbstractPlan EXCEPT ![p] = PlanIn(s)]
             /\ UNCHANGED <<head, Shown>>
  <2>1. pc[p] = "open" /\ staged' = [staged EXCEPT ![p] = s] /\ UNCHANGED <<pc, lock, disk, head, before>>
    BY <1>7 DEF Staging
  <2>2. AbstractPlan[p] = PlanIn(staged[p])
    BY <2>1, PlanIs DEF PlanOf, Pending
  <2>3. PlanOf(p)' = PlanIn(s)
    BY <1>0, <2>1 DEF PlanOf, Pending
  <2>4. AbstractPlan' = [AbstractPlan EXCEPT ![p] = PlanIn(s)]
    BY <1>0, <1>3, <2>1, <2>3
  <2>5. UNCHANGED Shown
    BY <2>1 DEF Shown
  <2> QED BY <1>0, <2>1, <2>2, <2>4, <2>5, PlansAreTrees
<1>8. ASSUME NEW p \in Process, NEW x \in Path, NEW w \in Content,
             Staging(p, PushStaged(staged[p], x, w))
      PROVE  [Atomic!Next]_(Atomic!vars)
  <2>1. pc[p] = "open" /\ staged[p] \in Seq(Entry) /\ Once(staged[p])
    BY <1>0, <1>1, <1>8 DEF Staging, PathsOnce, Once
  <2>2. PlanIn(PushStaged(staged[p], x, w)) = Atomic!Put(PlanIn(staged[p]), x, w)
    BY <2>1, PushStagedPlans
  <2>3. Atomic!Change(p, x, w)
    BY <1>7, <1>8, <2>2 DEF Atomic!Change
  <2> QED BY <2>3 DEF Atomic!Next
<1>9. ASSUME NEW p \in Process, Stages(p) PROVE [Atomic!Next]_(Atomic!vars)
  <2>1. pc[p] = "open" /\ staged[p] \in Seq(Entry) /\ Once(staged[p])
    BY <1>0, <1>1, <1>9 DEF Stages, StageNewFile, StageEdit, StageRemoveIssue, StageWriteDoc,
         StageRemoveDoc, StageMoveDoc, Moves, Staging, PathsOnce, Once
  <2>1a. Shown = disk
    <3>1. applied[p] = 0
      BY <2>1 DEF WriteInv, TypeInv, Counters
    <3> QED BY <1>0, <1>1a, <2>1, <3>1 DEF Shown
  <2>2. /\ {p} \in Content /\ Absent \in Content
        /\ \A t \in Content : t # Absent => t \cup {p} \in Content
    BY ContentType
  <2>3. \A y \in Path : disk[y] \in Content
    BY <1>0 DEF Tree
  <2>4. \A y \in Paths(p) : StagedWrite(p, y) \in Content
    BY StagedWriteType DEF WriteInv, TypeInv
  <2>5. ASSUME NEW x \in Path, StageNewFile(p, x) \/ StageWriteDoc(p, x) PROVE [Atomic!Next]_(Atomic!vars)
    BY <1>8, <2>2, <2>5 DEF StageNewFile, StageWriteDoc
  <2>6. ASSUME NEW x \in Path, StageEdit(p, x) PROVE [Atomic!Next]_(Atomic!vars)
    <3>1. CurrentBytes(p, x) \in Content /\ CurrentBytes(p, x) # Absent
      BY <2>3, <2>4, <2>6 DEF StageEdit, CurrentBytes
    <3>2. CurrentBytes(p, x) \cup {p} \in Content
      BY <2>2, <3>1
    <3> QED BY <1>8, <2>6, <3>2 DEF StageEdit
  <2>7. ASSUME NEW x \in Path, StageRemoveIssue(p, x) \/ StageRemoveDoc(p, x) PROVE [Atomic!Next]_(Atomic!vars)
    BY <1>8, <2>2, <2>7 DEF StageRemoveIssue, StageRemoveDoc
  <2>8. ASSUME NEW x \in Path, NEW y \in Path, StageMoveDoc(p, x, y) PROVE [Atomic!Next]_(Atomic!vars)
    <3> DEFINE c == MoveSource(p, x)
               t == PushStaged(staged[p], y, c)
    <3>1. /\ x # y /\ y \notin Paths(p) /\ disk[y] = Absent
          /\ Staging(p, PushStaged(t, x, Absent))
      BY <2>8 DEF StageMoveDoc, Moves
    <3>2. c \in Content
      BY <2>3, <2>4 DEF MoveSource
    <3>3. t \in Seq(Entry) /\ Once(t) /\ PlanIn(t) = Atomic!Put(PlanIn(staged[p]), y, c)
      BY <2>1, <3>2, PushStagedPlans
    <3> HIDE DEF c, t
    <3>4. PlanIn(PushStaged(t, x, Absent)) = Atomic!Put(PlanIn(t), x, Absent)
      BY <2>2, <3>3, PushStagedPlans
    <3>5. y \notin DOMAIN PlanIn(staged[p]) /\ Shown[y] = Absent
      BY <2>1a, <3>1 DEF PlanIn, PathsIn, Paths
    <3>6. Atomic!Relocate(p, x, y, c)
      BY <1>7, <3>1, <3>3, <3>4, <3>5 DEF Atomic!Relocate
    <3>7. y \in Path \ {x}
      BY <3>1
    <3> QED BY <3>2, <3>6, <3>7 DEF Atomic!Next
  <2> QED BY <1>9, <2>5, <2>6, <2>7, <2>8 DEF Stages
(* it is given up *)
<1>10. ASSUME NEW p \in Process, pc[p] \in {"open", "finish", "add", "commit"},
              NEW l \in {"release", "rollback", "unstage"}, pc' = [pc EXCEPT ![p] = l],
              l = "release" => pc[p] = "open", UNCHANGED <<staged, disk, head, lock, before>>
       PROVE  [Atomic!Next]_(Atomic!vars)
  <2>1. AbstractPlan[p] # NoPlan
    BY <1>0, <1>10, PlanIs, PlansAreTrees DEF PlanOf, Pending
  <2>2. PlanOf(p)' = NoPlan
    BY <1>0, <1>10 DEF PlanOf, Pending
  <2>3. AbstractPlan' = [AbstractPlan EXCEPT ![p] = NoPlan]
    BY <1>0, <1>3, <1>10, <2>2
  <2>4. Shown' = Shown
    <3>1. pc[p] # "release" /\ pc'[p] = l
      BY <1>0, <1>10
    <3>2. l = "release" => disk = before.disk
      BY <1>0, <1>1a, <1>10 DEF WriteInv, TypeInv, Counters
    <3> QED BY <1>4, <1>10, <3>1, <3>2
  <2>5. Atomic!Abandon(p)
    BY <1>10, <2>1, <2>3, <2>4 DEF Atomic!Abandon
  <2> QED BY <2>5 DEF Atomic!Next
<1>11. ASSUME NEW p \in Process,
              \/ Abort(p) \/ ApplyFails(p) \/ AddFails(p) \/ CommitFails(p)
              \/ CallCommit(p) /\ staged[p] = <<>>
       PROVE  [Atomic!Next]_(Atomic!vars)
  <2>1. /\ pc[p] \in {"open", "finish", "add", "commit"} /\ UNCHANGED <<staged, disk, head, lock, before>>
        /\ \E l \in {"release", "rollback", "unstage"} :
              pc' = [pc EXCEPT ![p] = l] /\ (l = "release" => pc[p] = "open")
    BY <1>11 DEF Abort, ApplyFails, AddFails, CommitFails, CallCommit
  <2> QED BY <1>10, <2>1
(* it is carried out *)
<1>12. ASSUME NEW p \in Process, GitCommit(p) \/ NothingToCommit(p) \/ CommitUnseen(p)
       PROVE  [Atomic!Next]_(Atomic!vars)
  <2>1. /\ pc[p] = "commit" /\ head' = stage /\ UNCHANGED <<staged, disk, lock, before>>
        /\ \E l \in {"release", "unstage"} : pc' = [pc EXCEPT ![p] = l]
    BY <1>12 DEF GitCommit, NothingToCommit, CommitUnseen
  <2>2. AbstractPlan[p] = PlanIn(staged[p]) /\ AbstractPlan[p] # NoPlan
    BY <1>0, <2>1, PlanIs, PlansAreTrees DEF PlanOf, Pending
  <2>3. PlanOf(p)' = NoPlan
    BY <1>0, <2>1 DEF PlanOf, Pending
  <2>4. AbstractPlan' = [AbstractPlan EXCEPT ![p] = NoPlan]
    BY <1>0, <1>3, <2>1, <2>3
  <2>5. /\ \A x \in Path : stage[x] = IF x \in PathsIn(staged[p]) THEN WriteIn(staged[p], x) ELSE head[x]
        /\ \A x \in Path : disk[x] = IF x \in PathsIn(staged[p]) THEN WriteIn(staged[p], x) ELSE before.disk[x]
    BY <1>0, <2>1, AllWritten
  <2>6. /\ stage = Atomic!Over(head, PlanIn(staged[p]))
        /\ disk = Atomic!Over(before.disk, PlanIn(staged[p]))
    BY <1>0, <2>5 DEF Atomic!Over, PlanIn, Tree
  <2>7. Atomic!Commits(p)
    BY <2>1, <2>2, <2>4, <2>6 DEF Atomic!Commits
  <2>8. Shown = before.disk /\ Shown' = IF pc'[p] = "release" THEN disk ELSE before.disk
    BY <1>4, <2>1
  <2>9. Atomic!Publish(p) \/ Atomic!PublishUnseen(p)
    BY <2>2, <2>6, <2>7, <2>8 DEF Atomic!Publish, Atomic!PublishUnseen
  <2> QED BY <2>9 DEF Atomic!Next
(* what it takes to carry it out or to undo it, nobody sees *)
<1>13. ASSUME NEW p \in Process, pc[p] \notin {"idle", "release"}, UNCHANGED <<lock, staged, head, before>>,
              pc'[p] = "release" => disk' = before.disk,
              Pending(p)' = Pending(p), \A q \in Process \ {p} : pc'[q] = pc[q]
       PROVE  [Atomic!Next]_(Atomic!vars)
  <2>1. Shown' = Shown
    BY <1>4, <1>13
  <2>2. \A q \in Process : PlanOf(q)' = PlanOf(q)
    BY <1>13 DEF PlanOf, Pending
  <2>3. AbstractPlan' = AbstractPlan
    BY <1>2, <2>2, PlanIs
  <2> QED BY <1>5, <1>13, <2>1, <2>3
<1>14. ASSUME NEW p \in Process, Apply(p) \/ Add(p) \/ (CallCommit(p) /\ staged[p] # <<>>)
       PROVE  [Atomic!Next]_(Atomic!vars)
  <2>1. /\ pc[p] \in {"open", "finish", "add"} /\ UNCHANGED <<lock, staged, head, before>>
        /\ pc' = pc \/ \E l \in {"finish", "add", "commit"} : pc' = [pc EXCEPT ![p] = l]
    BY <1>14 DEF Apply, Applies, Add, CallCommit
  <2>2. Pending(p) /\ Pending(p)' /\ pc'[p] # "release"
    BY <1>0, <2>1 DEF Pending
  <2>3. \A q \in Process \ {p} : pc'[q] = pc[q]
    BY <1>0, <2>1
  <2> QED BY <1>13, <2>1, <2>2, <2>3
<1>15. ASSUME NEW p \in Process, Unstage(p) \/ Rollback(p) \/ RolledBack(p)
       PROVE  [Atomic!Next]_(Atomic!vars)
  <2>1. /\ pc[p] \in {"unstage", "rollback"} /\ UNCHANGED <<lock, staged, head, before>>
        /\ \/ pc' = pc
           \/ pc' = [pc EXCEPT ![p] = "rollback"]
           \/ pc' = [pc EXCEPT ![p] = "release"] /\ applied[p] = 0 /\ disk' = disk
    BY <1>15, RollbackStep DEF Unstage, UnstageTo, RolledBack
  <2>1a. pc'[p] = "release" => disk' = before.disk
    BY <1>0, <1>1a, <2>1
  <2>2. Pending(p)' = Pending(p)
    BY <1>0, <2>1 DEF Pending
  <2>3. \A q \in Process \ {p} : pc'[q] = pc[q]
    BY <1>0, <2>1
  <2> QED BY <1>13, <2>1, <2>1a, <2>2, <2>3
<1>16. ASSUME NEW p \in Process, Release(p) PROVE [Atomic!Next]_(Atomic!vars)
  <2>1. /\ pc[p] = "release" /\ lock' = Free /\ pc' = [pc EXCEPT ![p] = "idle"]
        /\ UNCHANGED <<disk, head>> /\ staged' = [staged EXCEPT ![p] = <<>>]
    BY <1>16 DEF Release, Releases, Forget
  <2>2. lock = p
    BY <1>0, <2>1
  <2>3. Shown' = Shown
    BY <1>0, <2>1, <2>2 DEF Shown
  <2>4. \A q \in Process : PlanOf(q)' = PlanOf(q)
    BY <1>0, <2>1 DEF PlanOf, Pending
  <2>5. AbstractPlan' = AbstractPlan
    BY <1>2, <2>4, PlanIs
  <2> QED BY <1>5, <2>1, <2>3, <2>5
<1>17. CASE UNCHANGED vars
  <2>1. Shown' = Shown
    BY <1>17 DEF Shown
  <2>2. \A q \in Process : PlanOf(q)' = PlanOf(q)
    BY <1>17 DEF PlanOf, Pending
  <2>3. AbstractPlan' = AbstractPlan
    BY <1>2, <2>2, PlanIs
  <2> QED BY <1>5, <1>17, <2>1, <2>3
<1>18. ~ClearLock /\ (\A p \in Process : ~Crash(p) /\ ~ApplyUnread(p)) /\ \A x \in Path : ~HumanEdit(x) /\ ~HumanAdd(x)
  <2>1. ~ClearLock
    BY DEF ClearLock, StaleLock, CleanInv, LockHeld
  <2>2. \A p \in Process : ~Crash(p) /\ ~ApplyUnread(p)
    BY <1>0 DEF Crash, ApplyUnread, UndoFault
  <2>3. \A x \in Path : ~HumanEdit(x) /\ ~HumanAdd(x)
    BY <1>0 DEF HumanEdit, HumanAdd, HumanActs
  <2> QED BY <2>1, <2>2, <2>3
<1> QED
  BY <1>6, <1>9, <1>11, <1>12, <1>14, <1>15, <1>16, <1>17, <1>18 DEF Next, Runs, Decides

(* A write is one atomic step of AtomicCommit, whatever fails in it, as    *)
(* long as no undo fails, nobody dies and nobody edits by hand: the commit *)
(* holds all that was staged and nothing else, on top of the HEAD the write*)
(* began from, and a write that fails is no step at all, or the commit     *)
(* that the files do not show (PublishUnseen).                             *)
THEOREM WriteIsAtomic ==
    ASSUME MaxUndoFaults = 0, MaxCrashes = 0, MaxHuman = 0
    PROVE  Spec => ImplementsAtomicCommit
<1>1. Init => Atomic!Init
  <2> SUFFICES ASSUME Init PROVE Atomic!Init
    OBVIOUS
  <2>1. head \in [Path -> {{}, Absent}] /\ disk = head /\ lock = Free /\ \A p \in Process : pc[p] = "idle"
    BY DEF Init
  <2>2. {} \in Content /\ Absent \in Content
    BY ContentType
  <2>3. head \in [Path -> Content]
    BY <2>1, <2>2
  <2>4. Shown = head
    BY <2>1 DEF Shown
  <2>5. AbstractPlan = [p \in Process |-> NoPlan]
    BY <2>1 DEF AbstractPlan, Pending
  <2> QED BY <2>3, <2>4, <2>5 DEF Atomic!Init, Atomic!Tree
<1>2. WriteInv /\ CleanInv /\ [Next]_vars => [Atomic!Next]_(Atomic!vars)
  BY StepImplements
<1> QED BY <1>1, <1>2, CleanAlways, PTL DEF Spec, ImplementsAtomicCommit, Atomic!Spec
=============================================================================
