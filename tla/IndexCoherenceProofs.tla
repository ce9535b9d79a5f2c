------------------------ MODULE IndexCoherenceProofs ------------------------
(***************************************************************************)
(* What holds of the index and its two watermarks for any number of        *)
(* processes, hubs and issues, and any bounds.                             *)
(***************************************************************************)
EXTENDS IndexCoherence, SequenceTheorems, TLAPS

(* A head that a job remembers is one the history has.                     *)
Remembered ==
    \A p \in Process : job[p].outer <= HEAD /\ job[p].from <= HEAD /\ job[p].head <= HEAD

TypeInv == TypeOK /\ Remembered

(* A commit in the history holds a tree, and so does "no commit".          *)
LEMMA TreesOfHistory ==
    ASSUME TypeOK
    PROVE  /\ HEAD \in Nat /\ HEAD >= 1 /\ HEAD <= MaxCommits
           /\ \A c \in 0..HEAD : At(c) \in Tree
           /\ Empty \in Tree
<1>1. HEAD \in Nat /\ HEAD >= 1 /\ HEAD <= MaxCommits
  BY BoundsAreNat DEF TypeOK
<1>2. Empty \in Tree
  BY BoundsAreNat DEF Empty, Tree, Version, Gone
<1>3. ASSUME NEW c \in 0..HEAD PROVE At(c) \in Tree
  <2>1. CASE c = 0
    BY <1>2, <2>1 DEF At
  <2>2. CASE c # 0
    <3>1. c \in 1..Len(history)
      BY <1>1, <2>2 DEF HEAD
    <3> QED BY <2>2, <3>1, ElementOfSeq DEF At, TypeOK, HEAD
  <2> QED BY <2>1, <2>2
<1> QED BY <1>1, <1>2, <1>3

(* A commit adds to the history and changes nothing in it; the watchers    *)
(* that run are armed.                                                     *)
LEMMA CommitGrowsHistory ==
    ASSUME TypeOK, NEW tree \in Commits, Commit(tree)
    PROVE  /\ history' \in Seq(Tree) /\ HEAD' = HEAD + 1 /\ HEAD' \in 1..MaxCommits
           /\ \A c \in 0..HEAD : At(c)' = At(c)
           /\ history'[HEAD + 1] = tree
           /\ watch' \in [Hub -> Watch]
<1>1. HEAD \in Nat /\ HEAD >= 1 /\ HEAD <= MaxCommits
  BY TreesOfHistory
<1>2. tree \in Tree
  BY DEF Commits
<1>3. /\ history' \in Seq(Tree) /\ Len(history') = Len(history) + 1
      /\ \A c \in 1..Len(history) : history'[c] = history[c]
      /\ history'[Len(history) + 1] = tree
  BY <1>2, AppendProperties DEF TypeOK, Commit
<1>4. HEAD' = HEAD + 1 /\ HEAD' \in 1..MaxCommits
  BY <1>1, <1>3, BoundsAreNat DEF HEAD, Commit
<1>5. \A c \in 0..HEAD : At(c)' = At(c)
  BY <1>1, <1>3 DEF At, HEAD, Empty
<1>6. history'[HEAD + 1] = tree
  BY <1>3 DEF HEAD
<1>7. watch' \in [Hub -> Watch]
  BY DEF Commit, TypeOK, Watch
<1> QED BY <1>3, <1>4, <1>5, <1>6, <1>7

(* A process that rests, and a command it may be given.                    *)
LEMMA RestType ==
    ASSUME NEW p
    PROVE  /\ Closed \in Job /\ Closed.outer = 0 /\ Closed.from = 0 /\ Closed.head = 0
           /\ Rest(p) \in Job /\ Rest(p).outer = 0 /\ Rest(p).from = 0 /\ Rest(p).head = 0
           /\ Rest(p).at = "idle"
           /\ Command \subseteq Modes /\ "sync" \in Modes /\ "write" \in Modes
BY BoundsAreNat, CommandsAreKnown DEF Rest, Closed, Job, Steps, Modes, Version, Commands

(* Whoever finishes keeps the types. *)
LEMMA FinishType ==
    ASSUME TypeOK, NEW p \in Process, Finish(p)
    PROVE  /\ job' \in [Process -> Job] /\ lock' \in Process \cup {Free}
           /\ watch' \in [Hub -> Watch]
           /\ job' = [job EXCEPT ![p] = Rest(p)]
BY RestType DEF Finish, TypeOK, Watch

(* A process that begins a refresh leaves the watch alone or takes it up,  *)
(* and its job knows no head but HEAD (refresh_state).                     *)
LEMMA RefreshType ==
    ASSUME TypeOK, NEW p \in Process, NEW mode \in {"open", "watch"}, Refresh(p, mode)
    PROVE  /\ watch' \in [Hub -> Watch]
           /\ \E j \in Job : /\ job' = [job EXCEPT ![p] = j]
                             /\ j.outer \in {0, HEAD} /\ j.from = 0 /\ j.head = 0
<1>1. HEAD \in Version
  BY TreesOfHistory DEF Version
<1>2. watch' \in [Hub -> Watch]
  BY DEF Refresh, TypeOK, Watch
<1>3. CASE stateMark = HEAD
  BY <1>2, <1>3, RestType DEF Refresh
<1>4. CASE stateMark # HEAD
  <2> DEFINE j == [Rest(p) EXCEPT !.at = "capture", !.mode = mode, !.outer = HEAD]
  <2>1. j \in Job /\ j.outer = HEAD /\ j.from = 0 /\ j.head = 0
    BY <1>1, RestType DEF Job, Steps, Modes
  <2>2. job' = [job EXCEPT ![p] = j]
    BY <1>4 DEF Refresh
  <2> QED BY <1>2, <2>1, <2>2
<1> QED BY <1>3, <1>4

(* The types hold at first.                                                *)
LEMMA InitTypeInv == Init => TypeInv
<1> SUFFICES ASSUME Init PROVE TypeInv
  OBVIOUS
<1>1. 1 \in Version /\ 0 \in Version
  BY BoundsAreNat DEF Version
<1>2. [i \in Issue |-> 1] \in Tree /\ Empty \in Tree
  BY <1>1 DEF Tree, Empty, Gone
<1>3. history \in Seq(Tree) /\ Len(history) = 1 /\ history[1] \in Tree
  BY <1>2 DEF Init
<1>4. Closed \in Job /\ NoWatch \in Watch
  BY <1>1 DEF Closed, Job, Steps, Modes, NoWatch, Watch
<1>5. HEAD = 1 /\ HEAD \in 1..MaxCommits /\ rows \in Tree
  BY <1>2, <1>3, BoundsAreNat DEF Init, HEAD, At
<1> QED
  BY <1>3, <1>4, <1>5, BoundsAreNat DEF Init, TypeInv, TypeOK, Remembered, Closed

(* Every action keeps the types.                                           *)
LEMMA NextTypeInv == TypeInv /\ [Next]_vars => TypeInv'
<1> SUFFICES ASSUME TypeInv, [Next]_vars PROVE TypeInv'
  OBVIOUS
<1> DEFINE Same == UNCHANGED history
<1>0. TypeOK /\ HEAD \in Nat /\ HEAD >= 1 /\ HEAD <= MaxCommits /\ HEAD \in Version
  BY TreesOfHistory DEF TypeInv, Version
<1>1. ASSUME NEW p \in Process, NEW j \in Job, job' = [job EXCEPT ![p] = j],
             j.outer <= HEAD, j.from <= HEAD, j.head <= HEAD, Same
      PROVE  job' \in [Process -> Job] /\ Remembered'
  BY <1>0, <1>1 DEF TypeInv, TypeOK, Remembered, HEAD
<1>2. ASSUME NEW p \in Process, Open(p) \/ (p \in Hub /\ WatchRefresh(p)) PROVE TypeInv'
  <2>1. PICK mode \in {"open", "watch"} : Refresh(p, mode)
    BY <1>2 DEF Open, WatchRefresh
  <2>2. UNCHANGED <<history, lock, index, budget>>
    BY <1>2 DEF Open, WatchRefresh
  <2>3. watch' \in [Hub -> Watch]
    BY <1>0, <2>1, RefreshType
  <2>4. PICK j \in Job : job' = [job EXCEPT ![p] = j] /\ j.outer \in {0, HEAD} /\ j.from = 0 /\ j.head = 0
    BY <1>0, <2>1, RefreshType
  <2>5. job' \in [Process -> Job] /\ Remembered'
    <3>1. j.outer <= HEAD /\ j.from <= HEAD /\ j.head <= HEAD
      BY <1>0, <2>4
    <3>2. Same
      BY <2>2
    <3> QED BY <1>1, <2>4, <3>1, <3>2
  <2> QED BY <1>0, <2>2, <2>3, <2>5 DEF TypeInv, TypeOK, HEAD, index, budget
<1>3. ASSUME NEW p \in Process, Close(p) PROVE TypeInv'
  <2>1. job' = [job EXCEPT ![p] = Closed] /\ UNCHANGED <<history, lock, index, watch, budget>>
    BY <1>3 DEF Close
  <2>2. job' \in [Process -> Job] /\ Remembered'
    <3>1. Closed.outer <= HEAD /\ Closed.from <= HEAD /\ Closed.head <= HEAD
      BY <1>0, RestType
    <3>2. Same /\ Closed \in Job
      BY <2>1, RestType
    <3> QED BY <1>1, <2>1, <3>1, <3>2
  <2> QED BY <1>0, <2>1, <2>2 DEF TypeInv, TypeOK, HEAD, index, budget
<1>4. ASSUME NEW p \in Process, Begin(p) PROVE TypeInv'
  <2> DEFINE j == [Rest(p) EXCEPT !.at = "staged", !.mode = "write", !.from = HEAD]
  <2>1. j \in Job /\ j.outer = 0 /\ j.from = HEAD /\ j.head = 0
    BY <1>0, RestType DEF Job, Steps
  <2>2. job' = [job EXCEPT ![p] = j] /\ lock' = p /\ UNCHANGED <<history, index, watch, budget>>
    BY <1>4 DEF Begin
  <2> HIDE DEF j
  <2>3. job' \in [Process -> Job] /\ Remembered'
    <3>1. j.outer <= HEAD /\ j.from <= HEAD /\ j.head <= HEAD
      BY <1>0, <2>1
    <3>2. Same
      BY <2>2
    <3> QED BY <1>1, <2>1, <2>2, <3>1, <3>2
  <2> QED BY <1>0, <2>2, <2>3 DEF TypeInv, TypeOK, HEAD, index, budget
<1>5. ASSUME NEW p \in Process, NEW mode \in Command, Rebuild(p, mode) PROVE TypeInv'
  <2> DEFINE j == [Rest(p) EXCEPT !.at = "capture", !.mode = mode]
  <2>1. j \in Job /\ j.outer = 0 /\ j.from = 0 /\ j.head = 0
    BY <1>0, RestType DEF Job, Steps
  <2>2. job' = [job EXCEPT ![p] = j] /\ UNCHANGED <<history, lock, index, watch, budget>>
    BY <1>5 DEF Rebuild
  <2> HIDE DEF j
  <2>3. job' \in [Process -> Job] /\ Remembered'
    <3>1. j.outer <= HEAD /\ j.from <= HEAD /\ j.head <= HEAD
      BY <1>0, <2>1
    <3>2. Same
      BY <2>2
    <3> QED BY <1>1, <2>1, <2>2, <3>1, <3>2
  <2> QED BY <1>0, <2>2, <2>3 DEF TypeInv, TypeOK, HEAD, index, budget
<1>6. ASSUME NEW tree \in Commits, Commit(tree), NEW p \in Process, NEW j \in Job, j.outer <= HEAD + 1,
             j.from <= HEAD + 1, j.head <= HEAD + 1, job' = job \/ job' = [job EXCEPT ![p] = j],
             UNCHANGED index
      PROVE  /\ history' \in Seq(Tree) /\ HEAD' \in 1..MaxCommits /\ watch' \in [Hub -> Watch]
             /\ job' \in [Process -> Job] /\ Remembered'
             /\ stateMark' \in 0..HEAD' /\ eventMark' \in 0..HEAD' /\ recorded' \subseteq 1..HEAD'
  <2>1. history' \in Seq(Tree) /\ HEAD' = HEAD + 1 /\ HEAD' \in 1..MaxCommits /\ watch' \in [Hub -> Watch]
    BY <1>0, <1>6, CommitGrowsHistory
  <2>2. job' \in [Process -> Job]
    BY <1>0, <1>6 DEF TypeOK
  <2>3. \A q \in Process : job[q] \in Job /\ job[q].outer <= HEAD /\ job[q].from <= HEAD /\ job[q].head <= HEAD
    BY <1>0 DEF TypeInv, TypeOK, Remembered
  <2>4. Remembered'
    <3>1. \A q \in Process : job'[q] = job[q] \/ job'[q] = j
      BY <1>0, <1>6 DEF TypeOK
    <3>2. \A q \in Process : job[q].outer \in Nat /\ job[q].from \in Nat /\ job[q].head \in Nat
      BY <2>3 DEF Job, Version
    <3>3. \A q \in Process : /\ job[q].outer <= HEAD + 1 /\ job[q].from <= HEAD + 1
                             /\ job[q].head <= HEAD + 1
      BY <1>0, <2>3, <3>2
    <3> QED BY <1>6, <2>1, <3>1, <3>3 DEF Remembered
  <2>5. stateMark' \in 0..HEAD' /\ eventMark' \in 0..HEAD' /\ recorded' \subseteq 1..HEAD'
    BY <1>0, <1>6, <2>1 DEF TypeOK, index
  <2> QED BY <2>1, <2>2, <2>4, <2>5
<1>7. ASSUME NEW p \in Process, CommitWrite(p) PROVE TypeInv'
  <2>1. PICK tree \in Commits :
          /\ Commit(tree)
          /\ job' = [job EXCEPT ![p].at = "absorb", ![p].head = HEAD + 1,
                                ![p].todo = {i \in Issue : At(job[p].from)[i] # tree[i]}]
    BY <1>7 DEF CommitWrite
  <2> DEFINE j == [job[p] EXCEPT !.at = "absorb", !.head = HEAD + 1,
                                 !.todo = {i \in Issue : At(job[p].from)[i] # tree[i]}]
  <2>2. HEAD + 1 \in Version
    BY <1>0, <2>1, BoundsAreNat DEF Commit, Version
  <2>3. j \in Job /\ j.outer <= HEAD /\ j.from <= HEAD /\ j.head = HEAD + 1
    BY <1>0, <2>2 DEF Job, Steps, TypeInv, TypeOK, Remembered
  <2>4. job' = [job EXCEPT ![p] = j]
    BY <1>0, <2>1 DEF TypeOK
  <2>5. j.outer <= HEAD + 1 /\ j.from <= HEAD + 1 /\ j.head <= HEAD + 1
    <3>1. j.outer \in Nat /\ j.from \in Nat
      <4> HIDE DEF j
      <4> QED BY <2>3 DEF Job, Version
    <3> QED BY <1>0, <2>3, <3>1
  <2> HIDE DEF j
  <2>6. UNCHANGED <<lock, index, budget>>
    BY <1>7 DEF CommitWrite
  <2>7. /\ history' \in Seq(Tree) /\ HEAD' \in 1..MaxCommits /\ watch' \in [Hub -> Watch]
        /\ job' \in [Process -> Job] /\ Remembered'
        /\ stateMark' \in 0..HEAD' /\ eventMark' \in 0..HEAD' /\ recorded' \subseteq 1..HEAD'
    BY <1>6, <2>1, <2>3, <2>4, <2>5, <2>6
  <2> QED BY <1>0, <2>6, <2>7 DEF TypeInv, TypeOK, index, budget
<1>8. ASSUME NEW p \in Process, Pull(p) PROVE TypeInv'
  <2>1. PICK tree \in Commits : Commit(tree)
    BY <1>8 DEF Pull
  <2> DEFINE j == [Rest(p) EXCEPT !.at = "capture", !.mode = "sync"]
  <2>2. j \in Job /\ j.outer = 0 /\ j.from = 0 /\ j.head = 0
    BY <1>0, RestType DEF Job, Steps
  <2>3. job' = [job EXCEPT ![p] = j] /\ UNCHANGED <<lock, index, raw, faults, crashes>>
    BY <1>8 DEF Pull
  <2>4. pulls' \in 0..MaxPulls
    BY <1>0, <1>8, BoundsAreNat DEF Pull, TypeOK
  <2> HIDE DEF j
  <2>5. j.outer <= HEAD + 1 /\ j.from <= HEAD + 1 /\ j.head <= HEAD + 1
    BY <1>0, <2>2
  <2>6. /\ history' \in Seq(Tree) /\ HEAD' \in 1..MaxCommits /\ watch' \in [Hub -> Watch]
        /\ job' \in [Process -> Job] /\ Remembered'
        /\ stateMark' \in 0..HEAD' /\ eventMark' \in 0..HEAD' /\ recorded' \subseteq 1..HEAD'
    BY <1>6, <2>1, <2>2, <2>3, <2>5
  <2> QED BY <1>0, <2>3, <2>4, <2>6 DEF TypeInv, TypeOK, index
<1>9. ASSUME RawCommit PROVE TypeInv'
  <2>1. PICK tree \in Commits : Commit(tree)
    BY <1>9 DEF RawCommit
  <2>2. UNCHANGED <<lock, index, job, pulls, faults, crashes>> /\ raw' \in 0..MaxRaw
    BY <1>0, <1>9, BoundsAreNat DEF RawCommit, TypeOK
  <2>3. history' \in Seq(Tree) /\ HEAD' = HEAD + 1 /\ HEAD' \in 1..MaxCommits /\ watch' \in [Hub -> Watch]
    BY <1>0, <2>1, CommitGrowsHistory
  <2>4. \A q \in Process : job[q] \in Job /\ job[q].outer <= HEAD /\ job[q].from <= HEAD /\ job[q].head <= HEAD
    BY <1>0 DEF TypeInv, TypeOK, Remembered
  <2>5. Remembered'
    BY <1>0, <2>2, <2>3, <2>4 DEF Remembered, Job, Version
  <2> QED BY <1>0, <2>2, <2>3, <2>5 DEF TypeInv, TypeOK, index
<1>10. ASSUME NEW p \in Process, Finish(p), Same
       PROVE  /\ job' \in [Process -> Job] /\ lock' \in Process \cup {Free}
              /\ watch' \in [Hub -> Watch] /\ Remembered'
  BY <1>0, <1>1, <1>10, RestType, FinishType
<1>11. ASSUME NEW p \in Process, EmptyWrite(p) \/ Fail(p) PROVE TypeInv'
  <2>1. Finish(p) /\ UNCHANGED <<history, index, raw, pulls, crashes>> /\ faults' \in 0..MaxFaults
    BY <1>0, <1>11, BoundsAreNat DEF EmptyWrite, Fail, TypeOK, budget
  <2> QED BY <1>0, <1>10, <2>1 DEF TypeInv, TypeOK, index, HEAD
<1>12. ASSUME NEW p \in Process, NEW l \in Steps, Goto(p, l), Same
       PROVE  job' \in [Process -> Job] /\ Remembered'
  <2> DEFINE j == [job[p] EXCEPT !.at = l]
  <2>1. j \in Job /\ j.outer <= HEAD /\ j.from <= HEAD /\ j.head <= HEAD /\ job' = [job EXCEPT ![p] = j]
    BY <1>0, <1>12 DEF Job, TypeInv, TypeOK, Remembered, Goto
  <2> HIDE DEF j
  <2> QED BY <1>1, <1>12, <2>1
<1>13. ASSUME NEW p \in Process, AbsorbFile(p) PROVE TypeInv'
  <2>1. PICK i \in job[p].todo : /\ rows' = [rows EXCEPT ![i] = At(job[p].head)[i]]
                                 /\ job' = [job EXCEPT ![p].todo = @ \ {i}]
    BY <1>13 DEF AbsorbFile
  <2>2. job[p] \in Job /\ job[p].outer <= HEAD /\ job[p].from <= HEAD /\ job[p].head <= HEAD
    BY <1>0 DEF TypeInv, TypeOK, Remembered
  <2>3. job[p].head \in 0..HEAD
    BY <1>0, <2>2 DEF Job, Version
  <2>4. At(job[p].head) \in Tree
    BY <1>0, <2>3, TreesOfHistory
  <2>5. rows' \in Tree
    BY <1>0, <2>1, <2>4 DEF TypeOK, Tree
  <2> DEFINE j == [job[p] EXCEPT !.todo = @ \ {i}]
  <2>6. j \in Job /\ j.outer <= HEAD /\ j.from <= HEAD /\ j.head <= HEAD
    BY <2>2 DEF Job
  <2>8. job' = [job EXCEPT ![p] = j]
    BY <2>1
  <2> HIDE DEF j
  <2>7. UNCHANGED <<history, lock, stateMark, eventMark, recorded, watch, budget>>
    BY <1>13 DEF AbsorbFile
  <2>9. job' \in [Process -> Job] /\ Remembered'
    BY <1>0, <1>1, <2>6, <2>7, <2>8
  <2> QED BY <1>0, <2>5, <2>7, <2>9 DEF TypeInv, TypeOK, HEAD, budget
<1>14. ASSUME NEW p \in Process, Absorbed(p) \/ FilesRead(p) PROVE TypeInv'
  <2>1. PICK l \in Steps : Goto(p, l) /\ UNCHANGED <<history, lock, index, watch, budget>>
    BY <1>14 DEF Absorbed, FilesRead, Steps
  <2> QED BY <1>0, <1>12, <2>1 DEF TypeInv, TypeOK, HEAD, index, budget
<1>15. ASSUME NEW p \in Process, RecordEvents(p) PROVE TypeInv'
  <2>1. Goto(p, "seal") /\ UNCHANGED <<history, lock, rows, stateMark, eventMark, watch, budget>>
        /\ recorded' = recorded \cup (WalkedFrom(p) + 1)..HEAD
    BY <1>15 DEF RecordEvents
  <2>2. WalkedFrom(p) \in Nat
    BY <1>0 DEF WalkedFrom, TypeOK, Job, Version
  <2>3. recorded' \subseteq 1..HEAD
    <3>1. recorded \subseteq 1..HEAD
      BY <1>0 DEF TypeOK
    <3>2. (WalkedFrom(p) + 1)..HEAD \subseteq 1..HEAD
      BY <1>0, <2>2
    <3> QED BY <2>1, <3>1, <3>2
  <2>4. "seal" \in Steps
    BY DEF Steps
  <2> QED BY <1>0, <1>12, <2>1, <2>3, <2>4 DEF TypeInv, TypeOK, HEAD, budget
<1>16. ASSUME NEW p \in Process, NEW l \in Steps,
              (Goto(p, l) /\ UNCHANGED <<lock, watch>>) \/ Finish(p), Same
       PROVE  /\ job' \in [Process -> Job] /\ lock' \in Process \cup {Free}
              /\ watch' \in [Hub -> Watch] /\ Remembered'
  BY <1>0, <1>10, <1>12, <1>16 DEF TypeOK
<1>17. ASSUME NEW p \in Process, SealEvents(p) \/ MarkState(p) \/ MarkOuter(p) PROVE TypeInv'
  <2>1. PICK l \in Steps : (Goto(p, l) /\ UNCHANGED <<lock, watch>>) \/ Finish(p)
    BY <1>17 DEF SealEvents, MarkState, MarkOuter, AfterMark, Steps
  <2>2. UNCHANGED <<history, rows, recorded, budget>>
    BY <1>17 DEF SealEvents, MarkState, MarkOuter
  <2>3. job[p].head \in 0..HEAD /\ job[p].outer \in 0..HEAD
    BY <1>0 DEF TypeInv, TypeOK, Remembered, Job, Version
  <2>4. stateMark' \in 0..HEAD /\ eventMark' \in 0..HEAD
    BY <1>0, <1>17, <2>3 DEF SealEvents, MarkState, MarkOuter, TypeOK
  <2> QED BY <1>0, <1>16, <2>1, <2>2, <2>4 DEF TypeInv, TypeOK, HEAD, budget
<1>18. ASSUME NEW p \in Process, Capture(p) PROVE TypeInv'
  <2> DEFINE l == IF job[p].mode = "events" THEN "walk" ELSE "wipe"
             j == [job[p] EXCEPT !.head = HEAD, !.at = l]
  <2>1. j \in Job /\ j.outer <= HEAD /\ j.from <= HEAD /\ j.head <= HEAD
    <3>1. job[p] \in Job /\ job[p].outer <= HEAD /\ job[p].from <= HEAD
      BY <1>0 DEF TypeInv, TypeOK, Remembered
    <3>2. l \in Steps
      BY DEF Steps
    <3> HIDE DEF l
    <3>3. HEAD \in Version
      BY <1>0
    <3>4. j \in Job
      BY <3>1, <3>2, <3>3 DEF Job
    <3>5. j.outer = job[p].outer /\ j.from = job[p].from /\ j.head = HEAD
      BY <3>1 DEF Job
    <3> HIDE DEF j
    <3> QED BY <1>0, <3>1, <3>4, <3>5
  <2>2. job' = [job EXCEPT ![p] = j] /\ UNCHANGED <<history, lock, index, watch, budget>>
    BY <1>18 DEF Capture
  <2> HIDE DEF j
  <2> QED BY <1>0, <1>1, <2>1, <2>2 DEF TypeInv, TypeOK, HEAD, index, budget
<1>19. ASSUME NEW p \in Process, Wipe(p) PROVE TypeInv'
  <2>1. Goto(p, "list") /\ "list" \in Steps /\ UNCHANGED <<history, lock, watch, budget>>
    BY <1>19 DEF Wipe, Steps
  <2>2. rows' \in Tree
    BY <1>0, <1>19, TreesOfHistory DEF Wipe
  <2>3. stateMark' \in 0..HEAD /\ eventMark' \in 0..HEAD /\ recorded' \subseteq 1..HEAD
    <3>1. stateMark \in 0..HEAD /\ eventMark \in 0..HEAD /\ recorded \subseteq 1..HEAD
      BY <1>0 DEF TypeOK
    <3>2. \/ stateMark' = 0 /\ eventMark' = 0 /\ recorded' = {}
          \/ UNCHANGED <<stateMark, eventMark, recorded>>
      BY <1>19 DEF Wipe
    <3>3. 0 \in 0..HEAD
      BY <1>0
    <3>4. stateMark' \in 0..HEAD
      BY <3>1, <3>2, <3>3
    <3>5. eventMark' \in 0..HEAD
      BY <3>1, <3>2, <3>3
    <3>6. recorded' \subseteq 1..HEAD
      BY <3>1, <3>2
    <3> QED BY <3>4, <3>5, <3>6
  <2> QED BY <1>0, <1>12, <2>1, <2>2, <2>3 DEF TypeInv, TypeOK, HEAD, budget
<1>20. ASSUME NEW p \in Process, ListFiles(p) \/ ReadFile(p) PROVE TypeInv'
  <2>1. job[p] \in Job /\ job[p].outer <= HEAD /\ job[p].from <= HEAD /\ job[p].head <= HEAD
    BY <1>0 DEF TypeInv, TypeOK, Remembered
  <2>2. \A i \in Issue : At(HEAD)[i] \in Version
    BY <1>0, TreesOfHistory DEF Tree
  <2>3. \E j \in Job : /\ job' = [job EXCEPT ![p] = j]
                       /\ j.outer <= HEAD /\ j.from <= HEAD /\ j.head <= HEAD
    <3>1. CASE ListFiles(p)
      <4> DEFINE j == [job[p] EXCEPT !.at = "read", !.todo = {i \in Issue : At(HEAD)[i] # Gone}]
      <4>1. j \in Job /\ job' = [job EXCEPT ![p] = j] /\ j.outer <= HEAD /\ j.from <= HEAD /\ j.head <= HEAD
        BY <1>0, <2>1, <3>1 DEF ListFiles, Job, Steps, TypeOK
      <4> QED BY <4>1
    <3>2. CASE ReadFile(p)
      <4>1. PICK i \in job[p].todo :
                \/ job' = [job EXCEPT ![p].todo = @ \ {i}]
                \/ job' = [job EXCEPT ![p].at = "upsert", ![p].held = {<<i, At(HEAD)[i]>>},
                                      ![p].todo = @ \ {i}]
        BY <3>2 DEF ReadFile
      <4> DEFINE j == [job[p] EXCEPT !.todo = @ \ {i}]
                 k == [job[p] EXCEPT !.at = "upsert", !.held = {<<i, At(HEAD)[i]>>}, !.todo = @ \ {i}]
      <4>2. i \in Issue /\ <<i, At(HEAD)[i]>> \in Issue \X Version
        BY <2>1, <2>2 DEF Job
      <4>3. j \in Job /\ j.outer <= HEAD /\ j.from <= HEAD /\ j.head <= HEAD
        BY <2>1 DEF Job
      <4>4. k \in Job /\ k.outer <= HEAD /\ k.from <= HEAD /\ k.head <= HEAD
        BY <2>1, <4>2 DEF Job, Steps
      <4>5. job' = [job EXCEPT ![p] = j] \/ job' = [job EXCEPT ![p] = k]
        BY <1>0, <4>1 DEF TypeOK
      <4> QED BY <4>3, <4>4, <4>5
    <3> QED BY <1>20, <3>1, <3>2
  <2>4. UNCHANGED <<history, lock, index, watch, budget>>
    BY <1>20 DEF ListFiles, ReadFile
  <2> QED BY <1>0, <1>1, <2>3, <2>4 DEF TypeInv, TypeOK, HEAD, index, budget
<1>21. ASSUME NEW p \in Process, UpsertFile(p) PROVE TypeInv'
  <2>1. PICK f \in job[p].held : rows' = [rows EXCEPT ![f[1]] = f[2]]
    BY <1>21 DEF UpsertFile
  <2>2. job[p] \in Job /\ job[p].outer <= HEAD /\ job[p].from <= HEAD /\ job[p].head <= HEAD
    BY <1>0 DEF TypeInv, TypeOK, Remembered
  <2>3. rows' \in Tree
    BY <1>0, <2>1, <2>2 DEF Job, TypeOK, Tree
  <2> DEFINE j == [job[p] EXCEPT !.at = "read", !.held = {}]
  <2>4. j \in Job /\ j.outer <= HEAD /\ j.from <= HEAD /\ j.head <= HEAD
    BY <2>2 DEF Job, Steps
  <2>5. job' = [job EXCEPT ![p] = j] /\ UNCHANGED <<history, lock, stateMark, eventMark, recorded, watch, budget>>
    BY <1>0, <1>21 DEF UpsertFile, TypeOK
  <2> HIDE DEF j
  <2> QED BY <1>0, <1>1, <2>3, <2>4, <2>5 DEF TypeInv, TypeOK, HEAD, budget
<1>22. ASSUME NEW p \in Process, Crash(p) PROVE TypeInv'
  <2>2. NoWatch \in Watch
    BY BoundsAreNat DEF NoWatch, Watch, Version
  <2>3. /\ job' = [job EXCEPT ![p] = Closed] /\ lock' \in Process \cup {Free}
        /\ watch' \in [Hub -> Watch] /\ crashes' \in 0..MaxCrashes
        /\ UNCHANGED <<history, index, raw, pulls, faults>>
    BY <1>0, <1>22, <2>2, BoundsAreNat DEF Crash, TypeOK
  <2>4. job' \in [Process -> Job] /\ Remembered'
    <3>1. Closed.outer <= HEAD /\ Closed.from <= HEAD /\ Closed.head <= HEAD
      BY <1>0, RestType
    <3>2. Same /\ Closed \in Job
      BY <2>3, RestType
    <3> QED BY <1>1, <2>3, <3>1, <3>2
  <2> QED BY <1>0, <2>3, <2>4 DEF TypeInv, TypeOK, HEAD, index
<1>23. ASSUME NEW p \in Hub, StartWatch(p) \/ Look(p) \/ Signal(p) \/ Touch(p) PROVE TypeInv'
  <2>1. HEAD \in Version
    BY <1>0
  <2>2. watch[p] \in Watch /\ UNCHANGED <<history, lock, index, job, budget>>
    BY <1>0, <1>23 DEF StartWatch, Look, Signal, Touch, TypeOK
  <2>3. \E w \in Watch : watch' = [watch EXCEPT ![p] = w]
    <3>1. CASE StartWatch(p)
      <4> DEFINE w == [at |-> "quiet", seen |-> HEAD, armed |-> FALSE, told |-> HEAD]
      <4>1. w \in Watch /\ watch' = [watch EXCEPT ![p] = w]
        BY <2>1, <3>1 DEF StartWatch, Watch
      <4> QED BY <4>1
    <3>2. CASE Look(p)
      <4> DEFINE l == IF watch[p].seen = HEAD THEN "quiet" ELSE "refresh"
                 w == [watch[p] EXCEPT !.armed = FALSE, !.seen = HEAD, !.at = l]
      <4>1. l \in {"off", "quiet", "refresh", "send"}
        OBVIOUS
      <4>2. watch' = [watch EXCEPT ![p] = w]
        BY <3>2 DEF Look
      <4> HIDE DEF l
      <4>3. w \in Watch
        BY <2>1, <2>2, <4>1 DEF Watch
      <4> QED BY <4>2, <4>3
    <3>3. CASE Signal(p)
      <4> DEFINE w == [watch[p] EXCEPT !.at = "quiet", !.told = HEAD]
      <4>1. w \in Watch /\ watch' = [watch EXCEPT ![p] = w]
        BY <2>1, <2>2, <3>3 DEF Signal, Watch
      <4> QED BY <4>1
    <3>4. CASE Touch(p)
      <4> DEFINE w == [watch[p] EXCEPT !.armed = TRUE]
      <4>1. w \in Watch /\ watch' = [watch EXCEPT ![p] = w]
        BY <2>2, <3>4 DEF Touch, Watch
      <4> QED BY <4>1
    <3> QED BY <1>23, <3>1, <3>2, <3>3, <3>4
  <2>4. watch' \in [Hub -> Watch]
    BY <1>0, <2>3 DEF TypeOK
  <2> QED BY <1>0, <2>2, <2>4 DEF TypeInv, TypeOK, Remembered, HEAD, index, budget
<1>24. CASE UNCHANGED vars
  BY <1>24 DEF TypeInv, TypeOK, Remembered, HEAD, vars, index, budget
<1> QED
  BY <1>2, <1>3, <1>4, <1>5, <1>7, <1>8, <1>9, <1>11, <1>13, <1>14, <1>15, <1>17, <1>18, <1>19, <1>20,
     <1>21, <1>22, <1>23, <1>24, HubsAreProcesses
     DEF Next, Asked, Working, Writing, Rebuilding, Sealing, Watching

(* Every variable of the index model keeps its type, and no watermark or   *)
(* remembered head runs ahead of the history.                              *)
THEOREM TypeCorrect == Spec => []TypeOK
<1>1. TypeInv => TypeOK
  BY DEF TypeInv
<1> QED BY <1>1, InitTypeInv, NextTypeInv, PTL DEF Spec

-----------------------------------------------------------------------------
(* The events watermark.                                                   *)

(* A write holds the workspace lock, so that no other write commits before *)
(* it has walked its own commit, which is then the last one.               *)
WriterHoldsLock == \A p \in Process : job[p].mode = "write" => lock = p

WriterIsLast ==
    \A p \in Process :
       /\ job[p].mode = "write" =>
             /\ job[p].at \in {"staged", "absorb", "walk", "seal", "mark"}
             /\ job[p].at = "staged" => job[p].from = HEAD
             /\ job[p].at \in {"absorb", "walk"} => job[p].head = HEAD /\ job[p].from + 1 = HEAD
       /\ job[p].mode # "write" => job[p].at \notin {"staged", "absorb"}

(* Nobody asked for a rebuild that starts the history anew.                *)
NobodyStartsAnew == \A p \in Process : job[p].mode \notin {"all", "sync"}

(* The one commit that may not be recorded is the last, while its writer   *)
(* is on its way to walk it; what a job is about to seal is recorded.      *)
Unwalked(c) ==
    c = HEAD /\ \E p \in Process : job[p].mode = "write" /\ job[p].at \in {"absorb", "walk"}

RecordedButLast == \A c \in 1..HEAD : c \in recorded \/ Unwalked(c)

RecordedToSeal ==
    \A p \in Process : job[p].at = "seal" => \A c \in 1..job[p].head : c \in recorded

RecordedToMark == \A c \in 1..eventMark : c \in recorded

HistoryInv ==
    /\ TypeInv
    /\ WriterHoldsLock /\ WriterIsLast /\ NobodyStartsAnew
    /\ faults = 0 => RecordedButLast /\ RecordedToSeal /\ RecordedToMark

(* What a step may do to the job of p, and to the lock and the history.    *)
LEMMA WriterSteps ==
    ASSUME HistoryInv, [Undisturbed]_vars, Command \cap {"all", "sync"} = {}
    PROVE  WriterHoldsLock' /\ WriterIsLast' /\ NobodyStartsAnew'
<1>0. TypeOK /\ WriterHoldsLock /\ WriterIsLast /\ NobodyStartsAnew /\ HEAD \in Nat /\ Free \notin Process
  BY TreesOfHistory, HubsAreProcesses DEF HistoryInv, TypeInv
<1> DEFINE Others(p) == \A q \in Process \ {p} : job'[q] = job[q]
           Good(p) == /\ job'[p].mode \notin {"all", "sync"}
                      /\ job'[p].mode = "write" =>
                            /\ lock' = p
                            /\ job'[p].at \in {"staged", "absorb", "walk", "seal", "mark"}
                            /\ job'[p].at = "staged" => job'[p].from = HEAD'
                            /\ job'[p].at \in {"absorb", "walk"} =>
                                  job'[p].head = HEAD' /\ job'[p].from + 1 = HEAD'
                      /\ job'[p].mode # "write" => job'[p].at \notin {"staged", "absorb"}
<1>1. ASSUME NEW p \in Process, Others(p), Good(p),
             HEAD' = HEAD \/ \A q \in Process \ {p} : job[q].mode # "write",
             \A q \in Process \ {p} : lock = q => lock' = q
      PROVE  WriterHoldsLock' /\ WriterIsLast' /\ NobodyStartsAnew'
  <2>1. WriterHoldsLock'
    <3> SUFFICES ASSUME NEW q \in Process, job'[q].mode = "write" PROVE lock' = q
      BY DEF WriterHoldsLock
    <3>1. CASE q = p
      BY <1>1, <3>1
    <3>2. CASE q # p
      BY <1>0, <1>1, <3>2 DEF WriterHoldsLock
    <3> QED BY <3>1, <3>2
  <2>2. WriterIsLast'
    <3> DEFINE Last(j, h) ==
             /\ j.mode = "write" =>
                   /\ j.at \in {"staged", "absorb", "walk", "seal", "mark"}
                   /\ j.at = "staged" => j.from = h
                   /\ j.at \in {"absorb", "walk"} => j.head = h /\ j.from + 1 = h
             /\ j.mode # "write" => j.at \notin {"staged", "absorb"}
    <3>1. Last(job'[p], HEAD')
      BY <1>1
    <3>2. \A q \in Process : Last(job[q], HEAD)
      BY <1>0 DEF WriterIsLast
    <3>3. ASSUME NEW q \in Process, q # p PROVE Last(job'[q], HEAD')
      <4>1. job'[q] = job[q] /\ (HEAD' = HEAD \/ job[q].mode # "write")
        BY <1>1, <3>3
      <4> QED BY <3>2, <4>1
    <3> QED BY <3>1, <3>3 DEF WriterIsLast
  <2>3. NobodyStartsAnew'
    BY <1>0, <1>1 DEF NobodyStartsAnew
  <2> QED BY <2>1, <2>2, <2>3
<1>2. ASSUME NEW p \in Process, NEW j, job' = [job EXCEPT ![p] = j], j.mode \notin {"all", "sync", "write"},
             j.at \notin {"staged", "absorb"}, UNCHANGED history,
             \A q \in Process \ {p} : lock = q => lock' = q
      PROVE  WriterHoldsLock' /\ WriterIsLast' /\ NobodyStartsAnew'
  BY <1>0, <1>1, <1>2 DEF TypeOK, HEAD
<1>3. ASSUME NEW p \in Process, Finish(p), UNCHANGED history
      PROVE  WriterHoldsLock' /\ WriterIsLast' /\ NobodyStartsAnew'
  <2>1. Rest(p).mode = "open" /\ Rest(p).at = "idle"
    BY DEF Rest, Closed
  <2> QED BY <1>0, <1>2, <1>3, <2>1 DEF Finish
<1>4. ASSUME NEW p \in Process, NEW l \in {"walk", "seal", "mark", "list", "read", "upsert", "wipe", "outer"},
             Goto(p, l), UNCHANGED <<history, lock>>,
             job[p].mode = "write" => l \in {"walk", "seal", "mark"},
             job[p].mode = "write" /\ l = "walk" => job[p].at = "absorb"
      PROVE  WriterHoldsLock' /\ WriterIsLast' /\ NobodyStartsAnew'
  <2>1. /\ job'[p].mode = job[p].mode /\ job'[p].head = job[p].head /\ job'[p].from = job[p].from
        /\ job'[p].at = l /\ Others(p)
    BY <1>0, <1>4 DEF Goto, TypeOK, Job
  <2>2. Good(p)
    BY <1>0, <1>4, <2>1 DEF WriterHoldsLock, WriterIsLast, NobodyStartsAnew, HEAD
  <2> QED BY <1>0, <1>1, <1>4, <2>1, <2>2 DEF HEAD
<1>5. ASSUME NEW p \in Process, Open(p) \/ (p \in Hub /\ WatchRefresh(p))
      PROVE  WriterHoldsLock' /\ WriterIsLast' /\ NobodyStartsAnew'
  <2>1. PICK mode \in {"open", "watch"} : Refresh(p, mode)
    BY <1>5 DEF Open, WatchRefresh
  <2>2. UNCHANGED <<history, lock>>
    BY <1>5 DEF Open, WatchRefresh
  <2>3. \E j : job' = [job EXCEPT ![p] = j] /\ j.mode \in {"open", "watch"} /\ j.at \in {"idle", "capture"}
    <3>1. CASE stateMark = HEAD
      <4>1. job' = [job EXCEPT ![p] = Rest(p)] /\ Rest(p).mode = "open" /\ Rest(p).at = "idle"
        BY <2>1, <3>1 DEF Refresh, Rest, Closed
      <4> QED BY <4>1
    <3>2. CASE stateMark # HEAD
      <4> DEFINE k == [Rest(p) EXCEPT !.at = "capture", !.mode = mode, !.outer = HEAD]
      <4>1. k.mode = mode /\ k.at = "capture"
        BY DEF Rest, Closed
      <4>2. job' = [job EXCEPT ![p] = k]
        BY <2>1, <3>2 DEF Refresh
      <4> QED BY <4>1, <4>2
    <3> QED BY <3>1, <3>2
  <2> QED BY <1>2, <2>2, <2>3
<1>6. ASSUME NEW p \in Process, Close(p) PROVE WriterHoldsLock' /\ WriterIsLast' /\ NobodyStartsAnew'
  BY <1>2, <1>6 DEF Close, Closed
<1>7. ASSUME NEW p \in Process, Begin(p) PROVE WriterHoldsLock' /\ WriterIsLast' /\ NobodyStartsAnew'
  <2> DEFINE j == [Rest(p) EXCEPT !.at = "staged", !.mode = "write", !.from = HEAD]
  <2>1. j.mode = "write" /\ j.at = "staged" /\ j.from = HEAD
    BY DEF Rest, Closed
  <2>2. job' = [job EXCEPT ![p] = j] /\ lock = Free /\ lock' = p /\ UNCHANGED history
    BY <1>7 DEF Begin
  <2> HIDE DEF j
  <2>3. job'[p] = j /\ Others(p) /\ HEAD' = HEAD
    BY <1>0, <2>2 DEF TypeOK, HEAD
  <2>4. Good(p)
    BY <2>1, <2>2, <2>3
  <2>5. \A q \in Process \ {p} : lock # q
    BY <1>0, <2>2
  <2> QED BY <1>1, <2>3, <2>4, <2>5
<1>8. ASSUME NEW p \in Process, NEW mode \in Command, Rebuild(p, mode)
      PROVE  WriterHoldsLock' /\ WriterIsLast' /\ NobodyStartsAnew'
  <2> DEFINE j == [Rest(p) EXCEPT !.at = "capture", !.mode = mode]
  <2>1. j.mode = mode /\ j.at = "capture" /\ mode \in {"state", "events"}
    BY <1>8 DEF Rest, Closed, Rebuild
  <2>2. job' = [job EXCEPT ![p] = j] /\ UNCHANGED <<history, lock>>
    BY <1>8 DEF Rebuild
  <2> QED BY <1>2, <2>1, <2>2
<1>9. ASSUME NEW p \in Process, CommitWrite(p) PROVE WriterHoldsLock' /\ WriterIsLast' /\ NobodyStartsAnew'
  <2>1. PICK tree \in Commits :
          /\ Commit(tree)
          /\ job' = [job EXCEPT ![p].at = "absorb", ![p].head = HEAD + 1,
                                ![p].todo = {i \in Issue : At(job[p].from)[i] # tree[i]}]
    BY <1>9 DEF CommitWrite
  <2>2. HEAD' = HEAD + 1
    BY <1>0, <2>1, CommitGrowsHistory
  <2>3. job[p].at = "staged" /\ job[p].mode = "write" /\ lock = p /\ lock' = lock /\ job[p].from = HEAD
    BY <1>0, <1>9 DEF CommitWrite, WriterIsLast, WriterHoldsLock
  <2>4. /\ job'[p].mode = "write" /\ job'[p].at = "absorb" /\ job'[p].head = HEAD + 1
        /\ job'[p].from = job[p].from /\ Others(p)
    BY <1>0, <2>1, <2>3 DEF TypeOK, Job
  <2>5. Good(p)
    BY <2>2, <2>3, <2>4
  <2>6. \A q \in Process \ {p} : job[q].mode # "write"
    BY <1>0, <2>3 DEF WriterHoldsLock
  <2> QED BY <1>1, <2>3, <2>4, <2>5, <2>6
<1>10. ASSUME NEW p \in Process, EmptyWrite(p) \/ Fail(p)
       PROVE  WriterHoldsLock' /\ WriterIsLast' /\ NobodyStartsAnew'
  BY <1>3, <1>10 DEF EmptyWrite, Fail
<1>11. ASSUME NEW p \in Process, NEW j, job' = [job EXCEPT ![p] = j], UNCHANGED <<history, lock>>,
              j.mode = job[p].mode, j.from = job[p].from, j.at # "staged",
              j.at = job[p].at \/ (job[p].mode # "write" /\ j.at # "absorb"), j.head = job[p].head \/ j.mode # "write"
       PROVE  WriterHoldsLock' /\ WriterIsLast' /\ NobodyStartsAnew'
  <2>1. job'[p] = j /\ Others(p)
    BY <1>0, <1>11 DEF TypeOK
  <2>2. Good(p)
    BY <1>0, <1>11, <2>1 DEF WriterHoldsLock, WriterIsLast, NobodyStartsAnew, HEAD
  <2> QED BY <1>0, <1>1, <1>11, <2>1, <2>2 DEF HEAD
<1>12. ASSUME NEW p \in Process, AbsorbFile(p) PROVE WriterHoldsLock' /\ WriterIsLast' /\ NobodyStartsAnew'
  <2>1. PICK i \in job[p].todo : job' = [job EXCEPT ![p].todo = @ \ {i}]
    BY <1>12 DEF AbsorbFile
  <2> DEFINE j == [job[p] EXCEPT !.todo = @ \ {i}]
  <2>2. job' = [job EXCEPT ![p] = j] /\ UNCHANGED <<history, lock>>
    BY <1>12, <2>1 DEF AbsorbFile
  <2>3. j.mode = job[p].mode /\ j.from = job[p].from /\ j.at = job[p].at /\ j.head = job[p].head
        /\ j.at = "absorb"
    BY <1>0, <1>12 DEF TypeOK, Job, AbsorbFile
  <2> HIDE DEF j
  <2> QED BY <1>11, <2>2, <2>3
<1>13. ASSUME NEW p \in Process, Capture(p) \/ ListFiles(p) \/ ReadFile(p) \/ UpsertFile(p)
       PROVE  WriterHoldsLock' /\ WriterIsLast' /\ NobodyStartsAnew'
  <2>1. job[p].mode # "write"
    BY <1>0, <1>13 DEF Capture, ListFiles, ReadFile, UpsertFile, WriterIsLast
  <2>2. UNCHANGED <<history, lock>>
    BY <1>13 DEF Capture, ListFiles, ReadFile, UpsertFile
  <2>3. /\ job'[p].mode = job[p].mode /\ Others(p)
        /\ job'[p].at \in {"walk", "wipe", "read", "upsert"}
    <3>1. CASE Capture(p)
      BY <1>0, <3>1 DEF Capture, TypeOK, Job
    <3>2. CASE ListFiles(p)
      BY <1>0, <3>2 DEF ListFiles, TypeOK, Job
    <3>3. CASE ReadFile(p)
      <4>1. PICK i \in job[p].todo :
                \/ job' = [job EXCEPT ![p].todo = @ \ {i}]
                \/ job' = [job EXCEPT ![p].at = "upsert", ![p].held = {<<i, At(HEAD)[i]>>},
                                      ![p].todo = @ \ {i}]
        BY <3>3 DEF ReadFile
      <4>2. job[p].at = "read"
        BY <3>3 DEF ReadFile
      <4> QED BY <1>0, <4>1, <4>2 DEF TypeOK, Job
    <3>4. CASE UpsertFile(p)
      BY <1>0, <3>4 DEF UpsertFile, TypeOK, Job
    <3> QED BY <1>13, <3>1, <3>2, <3>3, <3>4
  <2>4. Good(p)
    BY <1>0, <2>1, <2>3 DEF NobodyStartsAnew
  <2> QED BY <1>1, <2>2, <2>3, <2>4 DEF HEAD
<1>14. ASSUME NEW p \in Process, Absorbed(p) \/ FilesRead(p) \/ RecordEvents(p) \/ Wipe(p)
       PROVE  WriterHoldsLock' /\ WriterIsLast' /\ NobodyStartsAnew'
  <2>1. job[p].at = "absorb" => job[p].mode = "write"
    BY <1>0 DEF WriterIsLast
  <2>2. job[p].at \in {"read", "wipe"} => job[p].mode # "write"
    BY <1>0 DEF WriterIsLast
  <2>3. UNCHANGED <<history, lock>>
    BY <1>14 DEF Absorbed, FilesRead, RecordEvents, Wipe
  <2> QED BY <1>4, <1>14, <2>1, <2>2, <2>3 DEF Absorbed, FilesRead, RecordEvents, Wipe
<1>15. ASSUME NEW p \in Process, SealEvents(p) \/ MarkState(p) \/ MarkOuter(p)
       PROVE  WriterHoldsLock' /\ WriterIsLast' /\ NobodyStartsAnew'
  <2>1. UNCHANGED history
    BY <1>15 DEF SealEvents, MarkState, MarkOuter
  <2>2. \/ Finish(p)
        \/ job[p].mode = "write" /\ Goto(p, "mark") /\ UNCHANGED lock
        \/ job[p].mode # "write" /\ Goto(p, "outer") /\ UNCHANGED lock
        \/ job[p].mode # "write" /\ Goto(p, "walk") /\ UNCHANGED lock
    BY <1>15 DEF SealEvents, MarkState, MarkOuter, AfterMark
  <2> QED BY <1>3, <1>4, <2>1, <2>2
<1>16. ASSUME UNCHANGED <<history, lock, job>> PROVE WriterHoldsLock' /\ WriterIsLast' /\ NobodyStartsAnew'
  BY <1>0, <1>16 DEF WriterHoldsLock, WriterIsLast, NobodyStartsAnew, HEAD
<1>17. ASSUME NEW p \in Hub, StartWatch(p) \/ Look(p) \/ Signal(p) \/ Touch(p)
       PROVE  UNCHANGED <<history, lock, job>>
  BY <1>17 DEF StartWatch, Look, Signal, Touch
<1>18. ~RawCommit /\ \A p \in Process : ~Pull(p) /\ ~Crash(p)
  <2>1. raw \in Nat /\ pulls \in Nat /\ crashes \in Nat
    BY <1>0, BoundsAreNat DEF TypeOK
  <2>2. raw' = raw /\ pulls' = pulls /\ crashes' = crashes
    BY DEF Undisturbed, vars, budget
  <2>3. raw' # raw + 1 /\ pulls' # pulls + 1 /\ crashes' # crashes + 1
    BY <2>1, <2>2
  <2> QED BY <2>3 DEF RawCommit, Pull, Crash
<1> QED
  BY <1>5, <1>6, <1>7, <1>8, <1>9, <1>10, <1>12, <1>13, <1>14, <1>15, <1>16, <1>17, <1>18, HubsAreProcesses
     DEF Undisturbed, Next, Asked, Working, Writing, Rebuilding, Sealing, Watching, vars

(* A step that neither commits nor records nor seals keeps what is         *)
(* recorded: it starts no seal and ends no walk of a write.                *)
LEMMA QuietSteps ==
    ASSUME HistoryInv, NEW p \in Process, UNCHANGED <<history, recorded, eventMark>>,
           RecordedButLast, RecordedToSeal, RecordedToMark,
           \A q \in Process \ {p} : job'[q] = job[q],
           job'[p].at # "seal",
           job[p].mode = "write" /\ job[p].at \in {"absorb", "walk"} =>
              job'[p].mode = "write" /\ job'[p].at \in {"absorb", "walk"}
    PROVE  RecordedButLast' /\ RecordedToSeal' /\ RecordedToMark'
<1>1. HEAD' = HEAD
  BY DEF HEAD
<1>2. ASSUME NEW c \in 1..HEAD, Unwalked(c) PROVE Unwalked(c)'
  BY <1>1, <1>2 DEF Unwalked
<1>3. RecordedButLast'
  BY <1>1, <1>2 DEF RecordedButLast
<1>4. RecordedToSeal'
  BY DEF RecordedToSeal
<1>5. RecordedToMark'
  BY DEF RecordedToMark
<1> QED BY <1>3, <1>4, <1>5

(* What the index has recorded stays complete up to the mark while a       *)
(* writer, a rebuild or a hub works on it.                                 *)
LEMMA RecordedSteps ==
    ASSUME HistoryInv, [Undisturbed]_vars, Command \cap {"all", "sync"} = {}, faults' = 0
    PROVE  RecordedButLast' /\ RecordedToSeal' /\ RecordedToMark'
<1>0. TypeOK /\ Remembered /\ WriterHoldsLock /\ WriterIsLast /\ NobodyStartsAnew /\ HEAD \in Nat
  BY TreesOfHistory DEF HistoryInv, TypeInv
<1> DEFINE Done == RecordedButLast' /\ RecordedToSeal' /\ RecordedToMark'
<1>1. faults = 0 /\ \A p \in Process : ~Fail(p) \/ faults # 0
  <2>1. faults \in Nat
    BY <1>0, BoundsAreNat DEF TypeOK
  <2>2. faults' = faults \/ faults' = faults + 1
    BY DEF Undisturbed, Next, Asked, Working, Writing, Rebuilding, Sealing, Watching, vars, budget,
           Open, Close, Begin, Pull, Rebuild, CommitWrite, EmptyWrite, AbsorbFile, Absorbed, Capture, Wipe,
           ListFiles, ReadFile, UpsertFile, FilesRead, RecordEvents, SealEvents, MarkState, MarkOuter,
           Fail, Crash, StartWatch, Look, WatchRefresh, Signal, Touch, RawCommit
  <2>3. \A p \in Process : Fail(p) => faults' = faults + 1
    BY DEF Fail
  <2> QED BY <2>1, <2>2, <2>3
<1>2. RecordedButLast /\ RecordedToSeal /\ RecordedToMark
  BY <1>1 DEF HistoryInv
<1>3. ASSUME UNCHANGED <<history, recorded, eventMark, job>> PROVE Done
  BY <1>2, <1>3 DEF RecordedButLast, RecordedToSeal, RecordedToMark, Unwalked, HEAD
<1>4. ASSUME NEW p \in Process, NEW j, job' = [job EXCEPT ![p] = j], j.at # "seal",
             UNCHANGED <<history, recorded, eventMark>>,
             job[p].mode = "write" /\ job[p].at \in {"absorb", "walk"} =>
                j.mode = "write" /\ j.at \in {"absorb", "walk"}
      PROVE  Done
  <2>1. job'[p] = j /\ \A q \in Process \ {p} : job'[q] = job[q]
    BY <1>0, <1>4 DEF TypeOK
  <2> QED BY <1>2, <1>4, <2>1, QuietSteps
<1>5. ASSUME NEW p \in Process, Finish(p), UNCHANGED <<history, recorded, eventMark>>,
             job[p].at \notin {"absorb", "walk"}
      PROVE  Done
  <2>1. Rest(p).at = "idle"
    BY RestType
  <2> QED BY <1>4, <1>5, <2>1 DEF Finish
<1>6. ASSUME NEW p \in Process, Open(p) \/ Close(p) \/ Begin(p) \/ (p \in Hub /\ WatchRefresh(p))
      PROVE  Done
  <2>1. job[p].at \notin {"absorb", "walk"} /\ UNCHANGED <<history, recorded, eventMark>>
    BY <1>6 DEF Open, Close, Begin, WatchRefresh, index
  <2>2. \E j : job' = [job EXCEPT ![p] = j] /\ j.at # "seal"
    <3>1. CASE Close(p)
      <4>1. job' = [job EXCEPT ![p] = Closed] /\ Closed.at = "closed"
        BY <3>1 DEF Close, Closed
      <4> QED BY <4>1
    <3>2. CASE Begin(p)
      <4> DEFINE k == [Rest(p) EXCEPT !.at = "staged", !.mode = "write", !.from = HEAD]
      <4>1. k.at = "staged" /\ job' = [job EXCEPT ![p] = k]
        BY <3>2 DEF Begin, Rest, Closed
      <4> QED BY <4>1
    <3>3. CASE Open(p) \/ WatchRefresh(p)
      <4>1. PICK mode \in {"open", "watch"} : Refresh(p, mode)
        BY <3>3 DEF Open, WatchRefresh
      <4> DEFINE k == [Rest(p) EXCEPT !.at = "capture", !.mode = mode, !.outer = HEAD]
      <4>2. job' = [job EXCEPT ![p] = Rest(p)] \/ job' = [job EXCEPT ![p] = k]
        BY <4>1 DEF Refresh
      <4>3. Rest(p).at = "idle" /\ k.at = "capture"
        BY DEF Rest, Closed
      <4> HIDE DEF k
      <4> QED BY <4>2, <4>3
    <3> QED BY <1>6, <3>1, <3>2, <3>3
  <2> QED BY <1>4, <2>1, <2>2
<1>7. ASSUME NEW p \in Process, NEW mode \in Command, Rebuild(p, mode) PROVE Done
  <2> DEFINE j == [Rest(p) EXCEPT !.at = "capture", !.mode = mode]
  <2>1. j.at = "capture" /\ job' = [job EXCEPT ![p] = j] /\ job[p].at = "idle"
        /\ UNCHANGED <<history, recorded, eventMark>>
    BY <1>7 DEF Rebuild, Rest, Closed, index
  <2> HIDE DEF j
  <2> QED BY <1>4, <2>1
<1>8. ASSUME NEW p \in Process, CommitWrite(p) PROVE Done
  <2>1. PICK tree \in Commits :
          /\ Commit(tree)
          /\ job' = [job EXCEPT ![p].at = "absorb", ![p].head = HEAD + 1,
                                ![p].todo = {i \in Issue : At(job[p].from)[i] # tree[i]}]
    BY <1>8 DEF CommitWrite
  <2>2. HEAD' = HEAD + 1
    BY <1>0, <2>1, CommitGrowsHistory
  <2>3. job[p].at = "staged" /\ job[p].mode = "write" /\ lock = p /\ UNCHANGED <<recorded, eventMark>>
    BY <1>0, <1>8 DEF CommitWrite, WriterIsLast, WriterHoldsLock, index
  <2>4. /\ job'[p].mode = "write" /\ job'[p].at = "absorb"
        /\ \A q \in Process \ {p} : job'[q] = job[q]
    BY <1>0, <2>1, <2>3 DEF TypeOK, Job
  <2>5. \A c \in Nat : ~Unwalked(c)
    BY <1>0, <2>3 DEF Unwalked, WriterHoldsLock
  <2>6. RecordedButLast'
    <3>1. \A c \in 1..HEAD : c \in recorded
      BY <1>2, <2>5 DEF RecordedButLast
    <3>2. \A c \in Nat : c = HEAD + 1 => Unwalked(c)'
      BY <2>2, <2>4 DEF Unwalked
    <3>3. \A c \in 1..HEAD' : c \in 1..HEAD \/ c = HEAD + 1
      BY <1>0, <2>2
    <3>4. \A c \in 1..HEAD' : c \in recorded' \/ Unwalked(c)'
      BY <1>0, <2>3, <3>1, <3>2, <3>3
    <3> QED BY <3>4 DEF RecordedButLast
  <2>7. RecordedToSeal'
    BY <1>2, <2>3, <2>4 DEF RecordedToSeal
  <2>8. RecordedToMark'
    BY <1>2, <2>3 DEF RecordedToMark
  <2> QED BY <2>6, <2>7, <2>8
<1>9. ASSUME NEW p \in Process, EmptyWrite(p) \/ MarkOuter(p) PROVE Done
  BY <1>5, <1>9 DEF EmptyWrite, MarkOuter, index
<1>10. ASSUME NEW p \in Process, AbsorbFile(p) PROVE Done
  <2>1. PICK i \in job[p].todo : job' = [job EXCEPT ![p].todo = @ \ {i}]
    BY <1>10 DEF AbsorbFile
  <2> DEFINE j == [job[p] EXCEPT !.todo = @ \ {i}]
  <2>2. job' = [job EXCEPT ![p] = j] /\ UNCHANGED <<history, recorded, eventMark>>
    BY <1>10, <2>1 DEF AbsorbFile
  <2>3. j.mode = job[p].mode /\ j.at = "absorb"
    BY <1>0, <1>10 DEF TypeOK, Job, AbsorbFile
  <2> HIDE DEF j
  <2> QED BY <1>4, <2>2, <2>3
<1>11. ASSUME NEW p \in Process, NEW l, Goto(p, l), l # "seal", UNCHANGED <<history, recorded, eventMark>>,
              job[p].mode = "write" /\ job[p].at \in {"absorb", "walk"} => l = "walk"
       PROVE  Done
  <2>1. job' = [job EXCEPT ![p] = [job[p] EXCEPT !.at = l]]
    BY <1>11 DEF Goto
  <2>2. [job[p] EXCEPT !.at = l].at = l /\ [job[p] EXCEPT !.at = l].mode = job[p].mode
    BY <1>0 DEF TypeOK, Job
  <2> QED BY <1>4, <1>11, <2>1, <2>2
<1>12. ASSUME NEW p \in Process, Absorbed(p) \/ FilesRead(p) \/ Wipe(p) PROVE Done
  <2>1. UNCHANGED <<history, recorded, eventMark>>
    BY <1>0, <1>12 DEF Absorbed, FilesRead, Wipe, NobodyStartsAnew, index
  <2> QED BY <1>11, <1>12, <2>1 DEF Absorbed, FilesRead, Wipe
<1>13. ASSUME NEW p \in Process, MarkState(p) PROVE Done
  <2>1. job[p].at = "mark" /\ UNCHANGED <<history, recorded, eventMark>>
    BY <1>13 DEF MarkState
  <2>2. Finish(p) \/ Goto(p, "outer")
    BY <1>0, <1>13 DEF MarkState, AfterMark, NobodyStartsAnew
  <2> QED BY <1>5, <1>11, <2>1, <2>2
<1>14. ASSUME NEW p \in Process, Capture(p) \/ ListFiles(p) \/ ReadFile(p) \/ UpsertFile(p) PROVE Done
  <2>1. job[p].at \notin {"absorb", "walk"} /\ UNCHANGED <<history, recorded, eventMark>>
    BY <1>14 DEF Capture, ListFiles, ReadFile, UpsertFile, index
  <2>2. \A q \in Process \ {p} : job'[q] = job[q]
    BY <1>0, <1>14 DEF Capture, ListFiles, ReadFile, UpsertFile, TypeOK
  <2>3. job'[p].at # "seal"
    <3>1. CASE Capture(p)
      BY <1>0, <3>1 DEF Capture, TypeOK, Job
    <3>2. CASE ListFiles(p)
      BY <1>0, <3>2 DEF ListFiles, TypeOK, Job
    <3>3. CASE ReadFile(p)
      <4>1. PICK i \in job[p].todo :
                \/ job' = [job EXCEPT ![p].todo = @ \ {i}]
                \/ job' = [job EXCEPT ![p].at = "upsert", ![p].held = {<<i, At(HEAD)[i]>>},
                                      ![p].todo = @ \ {i}]
        BY <3>3 DEF ReadFile
      <4>2. job[p].at = "read"
        BY <3>3 DEF ReadFile
      <4> QED BY <1>0, <4>1, <4>2 DEF TypeOK, Job
    <3>4. CASE UpsertFile(p)
      BY <1>0, <3>4 DEF UpsertFile, TypeOK, Job
    <3> QED BY <1>14, <3>1, <3>2, <3>3, <3>4
  <2> QED BY <1>2, <2>1, <2>2, <2>3, QuietSteps
<1>15. ASSUME NEW p \in Process, RecordEvents(p) PROVE Done
  <2>1. /\ job[p].at = "walk" /\ UNCHANGED <<history, eventMark>>
        /\ recorded' = recorded \cup (WalkedFrom(p) + 1)..HEAD
    BY <1>15 DEF RecordEvents
  <2>2. /\ job'[p].at = "seal" /\ job'[p].head = job[p].head
        /\ \A q \in Process \ {p} : job'[q] = job[q]
    BY <1>0, <1>15 DEF RecordEvents, Goto, TypeOK, Job
  <2>3. HEAD' = HEAD
    BY <2>1 DEF HEAD
  <2>4. \A c \in 1..HEAD : c \in recorded'
    <3>1. CASE job[p].mode = "write"
      <4>1. WalkedFrom(p) + 1 = HEAD
        BY <1>0, <2>1, <3>1 DEF WalkedFrom, WriterIsLast
      <4>2. HEAD \in recorded'
        BY <1>0, <2>1, <4>1
      <4> QED BY <1>2, <2>1, <4>2 DEF RecordedButLast, Unwalked
    <3>2. CASE job[p].mode # "write"
      <4>1. WalkedFrom(p) = eventMark /\ eventMark \in Nat
        BY <1>0, <3>2 DEF WalkedFrom, TypeOK
      <4>2. \A c \in 1..HEAD : c \in 1..eventMark \/ c \in (eventMark + 1)..HEAD
        BY <1>0, <4>1
      <4> QED BY <1>2, <2>1, <4>1, <4>2 DEF RecordedToMark
    <3> QED BY <3>1, <3>2
  <2>5. \A q \in Process : job[q].head \in Nat /\ job[q].head <= HEAD
    BY <1>0 DEF TypeOK, Job, Version, Remembered
  <2>6. RecordedToSeal'
    <3> SUFFICES ASSUME NEW q \in Process, job'[q].at = "seal", NEW c \in 1..job'[q].head PROVE c \in recorded'
      BY DEF RecordedToSeal
    <3>1. job'[q].head = job[q].head
      BY <2>2
    <3>2. c \in 1..HEAD
      BY <1>0, <2>5, <3>1
    <3> QED BY <2>4, <3>2
  <2>7. RecordedButLast' /\ RecordedToMark'
    BY <1>2, <2>1, <2>3, <2>4 DEF RecordedButLast, RecordedToMark
  <2> QED BY <2>6, <2>7
<1>16. ASSUME NEW p \in Process, SealEvents(p) PROVE Done
  <2>1. job[p].at = "seal" /\ eventMark' = job[p].head /\ UNCHANGED <<history, recorded>>
    BY <1>16 DEF SealEvents
  <2>2. \E j : job' = [job EXCEPT ![p] = j] /\ j.at \in {"mark", "idle"}
    <3>1. CASE Finish(p)
      <4>1. job' = [job EXCEPT ![p] = Rest(p)] /\ Rest(p).at = "idle"
        BY <3>1, RestType DEF Finish
      <4> QED BY <4>1
    <3>2. CASE Goto(p, "mark")
      <4> DEFINE k == [job[p] EXCEPT !.at = "mark"]
      <4>1. job' = [job EXCEPT ![p] = k] /\ k.at = "mark"
        BY <1>0, <3>2 DEF Goto, TypeOK, Job
      <4> QED BY <4>1
    <3> QED BY <1>16, <3>1, <3>2 DEF SealEvents
  <2>3. /\ job'[p].at \in {"mark", "idle"} /\ \A q \in Process \ {p} : job'[q] = job[q]
    BY <1>0, <2>2 DEF TypeOK
  <2>4. RecordedToMark'
    BY <1>2, <2>1 DEF RecordedToMark, RecordedToSeal
  <2>5. RecordedToSeal'
    BY <1>2, <2>1, <2>3 DEF RecordedToSeal
  <2>6. \A c \in 1..HEAD : Unwalked(c) => Unwalked(c)'
    BY <2>1, <2>3 DEF Unwalked, HEAD
  <2>7. RecordedButLast'
    BY <1>2, <2>1, <2>6 DEF RecordedButLast, HEAD
  <2> QED BY <2>4, <2>5, <2>7
<1>17. ASSUME NEW p \in Hub, StartWatch(p) \/ Look(p) \/ Signal(p) \/ Touch(p) PROVE Done
  BY <1>3, <1>17 DEF StartWatch, Look, Signal, Touch, index
<1>18. CASE UNCHANGED vars
  BY <1>3, <1>18 DEF vars, index
<1>19. ~RawCommit /\ \A p \in Process : (~Pull(p) /\ ~Crash(p)) \/ UNCHANGED vars
  <2>1. raw \in Nat /\ pulls \in Nat /\ crashes \in Nat
    BY <1>0, BoundsAreNat DEF TypeOK
  <2>2. raw' = raw /\ pulls' = pulls /\ crashes' = crashes
    BY DEF Undisturbed, vars, budget
  <2>3. raw' # raw + 1 /\ pulls' # pulls + 1 /\ crashes' # crashes + 1
    BY <2>1, <2>2
  <2> QED BY <2>3 DEF RawCommit, Pull, Crash
<1> QED
  BY <1>1, <1>6, <1>7, <1>8, <1>9, <1>10, <1>12, <1>13, <1>14, <1>15, <1>16, <1>17, <1>18, <1>19,
     HubsAreProcesses
     DEF Undisturbed, Next, Asked, Working, Writing, Rebuilding, Sealing, Watching

(* As long as nobody commits by hand, pulls or crashes, and nobody wipes   *)
(* the history to start it anew, the events watermark keeps its promise,   *)
(* however writers, rebuilds and hubs overlap.                             *)
THEOREM HistoryIsComplete ==
    ASSUME Indexed, Command \cap {"all", "sync"} = {}
    PROVE  Init /\ [][Undisturbed]_vars => []MarkedHistoryIsComplete
<1>1. Init => HistoryInv
  <2> SUFFICES ASSUME Init PROVE HistoryInv
    OBVIOUS
  <2>1. HEAD = 1 /\ recorded = {1} /\ eventMark = 1 /\ job = [p \in Process |-> Closed]
    BY DEF Init, HEAD
  <2>2. Closed.mode = "open" /\ Closed.at = "closed"
    BY DEF Closed
  <2> QED BY <2>1, <2>2, InitTypeInv
             DEF HistoryInv, WriterHoldsLock, WriterIsLast, NobodyStartsAnew,
                 RecordedButLast, RecordedToSeal, RecordedToMark
<1>2. HistoryInv /\ [Undisturbed]_vars => HistoryInv'
  <2> SUFFICES ASSUME HistoryInv, [Undisturbed]_vars PROVE HistoryInv'
    OBVIOUS
  <2>1. TypeInv'
    BY NextTypeInv DEF HistoryInv, Undisturbed
  <2> QED BY <2>1, WriterSteps, RecordedSteps DEF HistoryInv
<1>3. HistoryInv => MarkedHistoryIsComplete
  BY DEF HistoryInv, RecordedToMark, MarkedHistoryIsComplete
<1> QED BY <1>1, <1>2, <1>3, PTL

-----------------------------------------------------------------------------
(* The state watermark, for processes that take turns.                     *)

Writers == "write" \in Command

(* What is known while a job rests or works, by what it works on.  As long *)
(* as HEAD is the one a rebuild started from, the rows it has been through *)
(* are those of HEAD, and while rows are missing the mark is not HEAD.     *)
AtRest(p) ==
    Quiet(p) => job[p].mode = "open" /\ (Writers /\ job[p].at = "idle" => rows = At(HEAD))

InWrite(p) ==
    job[p].mode = "write" =>
        /\ Writers /\ job[p].at \in {"staged", "absorb", "walk", "seal", "mark"}
        /\ job[p].at = "staged" => job[p].from = HEAD /\ rows = At(HEAD)
        /\ job[p].at # "staged" => job[p].head = HEAD
        /\ job[p].at = "absorb" =>
              stateMark # HEAD /\ \A i \in Issue : i \in job[p].todo \/ rows[i] = At(HEAD)[i]
        /\ job[p].at \in {"walk", "seal", "mark"} => rows = At(HEAD)

InEvents(p) ==
    job[p].mode = "events" =>
        /\ job[p].at \in {"capture", "walk", "seal"}
        /\ Writers => rows = At(HEAD)

Rebuilds(p) == job[p].mode \notin {"write", "events"} /\ ~Quiet(p)

InRebuild(p) ==
    Rebuilds(p) =>
        /\ job[p].at \notin {"staged", "absorb"}
        /\ job[p].mode = "state" => "state" \in Command
        /\ Writers /\ job[p].at # "capture" => job[p].head = HEAD
        /\ job[p].at \in {"list", "read", "upsert", "mark"} => job[p].mode = "state" \/ stateMark # HEAD
        /\ job[p].at = "list" => rows = Empty
        /\ job[p].at = "read" /\ job[p].head = HEAD =>
              \A i \in Issue : IF i \in job[p].todo THEN At(HEAD)[i] # Gone ELSE rows[i] = At(HEAD)[i]
        /\ job[p].at = "upsert" /\ job[p].head = HEAD =>
              /\ \A i \in job[p].todo : At(HEAD)[i] # Gone
              /\ \E i \in Issue : /\ job[p].held = {<<i, At(HEAD)[i]>>}
                                  /\ \A k \in Issue \ {i} : k \in job[p].todo \/ rows[k] = At(HEAD)[k]
        /\ job[p].at \in {"mark", "outer", "walk", "seal"} /\ job[p].head = HEAD => rows = At(HEAD)

InRefresh(p) ==
    Rebuilds(p) /\ job[p].mode \in {"open", "watch"} =>
        /\ job[p].at \in {"capture", "wipe"} => stateMark # HEAD
        /\ job[p].at # "capture" => job[p].outer <= job[p].head
        /\ Writers => job[p].outer = HEAD

OnlyRefreshHasOuter(p) == job[p].at = "outer" => Rebuilds(p) /\ job[p].mode \in {"open", "watch"}

JobInv(p) ==
    AtRest(p) /\ InWrite(p) /\ InEvents(p) /\ InRebuild(p) /\ InRefresh(p) /\ OnlyRefreshHasOuter(p)

(* `dit reindex' of the state alone empties the rows and leaves the mark.  *)
Emptied(p) == job[p].mode = "state" /\ job[p].at \in {"list", "read", "upsert", "mark"}

Shown == stateMark = HEAD => rows = At(HEAD)

TurnsInv ==
    /\ TypeInv /\ OneIsOpen
    /\ \A p \in Process : JobInv(p)
    /\ (\A p \in Process : ~Emptied(p)) => Shown

(* Two trees that agree on every issue are the same.                       *)
LEMMA SameTree ==
    ASSUME NEW t \in Tree, NEW u \in Tree, \A i \in Issue : t[i] = u[i]
    PROVE  t = u
BY DEF Tree

(* A process that has closed the workspace asks nothing of the index.      *)
LEMMA ClosedJob ==
    ASSUME NEW p \in Process, job'[p].at = "closed", job'[p].mode = "open"
    PROVE  JobInv(p)' /\ ~Emptied(p)'
BY DEF JobInv, AtRest, InWrite, InEvents, InRebuild, InRefresh, OnlyRefreshHasOuter, Rebuilds, Quiet, Emptied

(* One process acts; the others are closed.                                *)
LEMMA OneTurn ==
    ASSUME TurnsInv, OneIsOpen', TypeInv', NEW p \in Process,
           \A q \in Process \ {p} : job'[q] = job[q] /\ job[q].at = "closed",
           JobInv(p)', Emptied(p)' \/ Shown'
    PROVE  TurnsInv'
<1>1. ASSUME NEW q \in Process \ {p} PROVE JobInv(q)' /\ ~Emptied(q)'
  <2>1. job'[q].at = "closed" /\ job'[q].mode = "open"
    BY DEF TurnsInv, JobInv, AtRest, Quiet
  <2> QED BY <2>1, ClosedJob
<1>2. \A q \in Process : JobInv(q)'
  BY <1>1
<1> QED BY <1>1, <1>2 DEF TurnsInv

(* Every step of processes that take turns keeps the invariant.            *)
LEMMA TurnSteps ==
    ASSUME MaxFaults = 0, Writers => MaxRaw = 0, "state" \in Command => MaxCrashes = 0,
           TurnsInv, [InTurns]_vars
    PROVE  TurnsInv'
<1> DEFINE Mine(p)   == \A q \in Process \ {p} : job'[q] = job[q] /\ job[q].at = "closed"
           Current   == rows = At(HEAD)
<1>0. /\ TypeInv /\ TypeOK /\ OneIsOpen /\ HEAD \in Nat /\ HEAD >= 1
      /\ stateMark \in Nat /\ stateMark <= HEAD /\ rows \in Tree /\ At(HEAD) \in Tree
  <2>1. TypeInv /\ TypeOK /\ OneIsOpen
    BY DEF TurnsInv, TypeInv
  <2>2. HEAD \in Nat /\ HEAD >= 1
    BY <2>1, TreesOfHistory
  <2>3. stateMark \in Nat /\ stateMark <= HEAD /\ rows \in Tree
    BY <2>1, <2>2 DEF TypeOK
  <2>4. At(HEAD) \in Tree
    <3>1. HEAD \in 0..HEAD
      BY <2>2
    <3> QED BY <2>1, <3>1, TreesOfHistory
  <2> QED BY <2>1, <2>2, <2>3, <2>4
<1>1. CASE UNCHANGED vars
  <2>1. TypeInv'
    BY <1>0, <1>1, NextTypeInv
  <2>2. UNCHANGED <<history, rows, stateMark, job>>
    BY <1>1 DEF vars, index
  <2>3. HEAD' = HEAD /\ At(HEAD)' = At(HEAD)
    BY <2>2 DEF HEAD, At, Empty
  <2>4. \A p \in Process : JobInv(p)'
    <3> TAKE p \in Process
    <3>1. JobInv(p)
      BY DEF TurnsInv
    <3> QED BY <2>2, <2>3, <3>1 DEF JobInv, AtRest, InWrite, InEvents, InRebuild, InRefresh,
                                 OnlyRefreshHasOuter, Rebuilds, Quiet
  <2>5. OneIsOpen' /\ ((\A p \in Process : ~Emptied(p)') => Shown')
    BY <1>0, <2>2, <2>3 DEF TurnsInv, OneIsOpen, Emptied, Shown
  <2> QED BY <2>1, <2>4, <2>5 DEF TurnsInv
<1> SUFFICES ASSUME InTurns PROVE TurnsInv'
  BY <1>1
<1>2. TypeInv' /\ OneIsOpen'
  BY <1>0, NextTypeInv DEF InTurns
<1>3. ASSUME NEW p \in Process, NEW j, job' = [job EXCEPT ![p] = j],
             job[p].at # "closed" \/ j.at # "closed"
      PROVE  job'[p] = j /\ Mine(p)
  <2>1. job'[p] = j /\ \A q \in Process \ {p} : job'[q] = job[q]
    BY <1>0, <1>3 DEF TypeOK
  <2> QED BY <1>0, <1>2, <1>3, <2>1 DEF OneIsOpen
<1>4. ASSUME NEW p \in Process, Mine(p) PROVE JobInv(p) /\ (Emptied(p) \/ Shown)
  <2>1. \A q \in Process : JobInv(q)
    BY DEF TurnsInv
  <2>2. \A q \in Process \ {p} : ~Emptied(q)
    BY <1>4 DEF Emptied
  <2> QED BY <2>1, <2>2 DEF TurnsInv
<1>5. UNCHANGED history => HEAD' = HEAD /\ At(HEAD)' = At(HEAD)
  BY DEF HEAD, At, Empty
<1>6. ASSUME NEW p \in Process, job' = [job EXCEPT ![p] = Rest(p)], UNCHANGED history,
             Writers => rows' = At(HEAD), stateMark' = HEAD => rows' = At(HEAD)
      PROVE  TurnsInv'
  <2>1. Rest(p).at = "idle" /\ Rest(p).mode = "open"
    BY DEF Rest, Closed
  <2>2. job'[p] = Rest(p) /\ Mine(p)
    BY <1>3, <1>6, <2>1
  <2>3. JobInv(p)'
    BY <1>5, <1>6, <2>1, <2>2 DEF JobInv, AtRest, InWrite, InEvents, InRebuild, InRefresh,
                                  OnlyRefreshHasOuter, Rebuilds, Quiet
  <2>4. Shown'
    BY <1>5, <1>6 DEF Shown
  <2> QED BY <1>2, <2>2, <2>3, <2>4, OneTurn
<1>7. ASSUME NEW p \in Process, Close(p) \/ Crash(p) PROVE TurnsInv'
  <2>1. job' = [job EXCEPT ![p] = Closed] /\ job[p].at # "closed" /\ UNCHANGED <<history, rows, stateMark>>
    BY <1>7 DEF Close, Crash, index
  <2>2. job'[p] = Closed /\ Mine(p)
    BY <1>3, <2>1
  <2>3. JobInv(p) /\ (Emptied(p) \/ Shown)
    BY <1>4, <2>2
  <2>4. ~Emptied(p)
    <3>1. CASE Close(p)
      BY <3>1 DEF Close, Emptied
    <3>2. CASE Crash(p)
      <4>1. MaxCrashes # 0
        BY <1>0, <3>2 DEF Crash, TypeOK
      <4>2. "state" \notin Command
        BY <4>1
      <4> QED BY <2>3, <4>2 DEF JobInv, InRebuild, Rebuilds, Emptied, Quiet
    <3> QED BY <1>7, <3>1, <3>2
  <2>5. Shown'
    BY <1>5, <2>1, <2>3, <2>4 DEF Shown
  <2>6. JobInv(p)'
    BY <2>2, ClosedJob DEF Closed
  <2> QED BY <1>2, <2>2, <2>5, <2>6, OneTurn
<1>8. ASSUME NEW p \in Process, Open(p) \/ (p \in Hub /\ WatchRefresh(p)) PROVE TurnsInv'
  <2>1. PICK mode \in {"open", "watch"} : Refresh(p, mode)
    BY <1>8 DEF Open, WatchRefresh
  <2>2. UNCHANGED <<history, rows, stateMark>> /\ Quiet(p)
    BY <1>8 DEF Open, WatchRefresh, index, Quiet
  <2> DEFINE j == [Rest(p) EXCEPT !.at = "capture", !.mode = mode, !.outer = HEAD]
  <2>3. j.at = "capture" /\ j.mode = mode /\ j.outer = HEAD /\ Rest(p).at = "idle"
    BY DEF Rest, Closed
  <2>4. \/ stateMark = HEAD /\ job' = [job EXCEPT ![p] = Rest(p)]
        \/ stateMark # HEAD /\ job' = [job EXCEPT ![p] = j]
    BY <2>1 DEF Refresh
  <2> HIDE DEF j
  <2>5. Mine(p)
    BY <1>3, <2>3, <2>4
  <2>6. Shown
    BY <1>4, <2>2, <2>5 DEF Quiet, Emptied
  <2>7. CASE stateMark = HEAD
    BY <1>6, <2>2, <2>4, <2>6, <2>7 DEF Shown
  <2>8. CASE stateMark # HEAD
    <3>1. job'[p] = j
      BY <1>3, <2>3, <2>4, <2>8
    <3>2. JobInv(p)'
      BY <1>5, <2>2, <2>3, <2>8, <3>1 DEF JobInv, AtRest, InWrite, InEvents, InRebuild, InRefresh,
                                  OnlyRefreshHasOuter, Rebuilds, Quiet
    <3>3. Shown'
      BY <1>5, <2>2, <2>8 DEF Shown
    <3> QED BY <1>2, <2>5, <3>2, <3>3, OneTurn
  <2> QED BY <2>7, <2>8
<1>9. ASSUME NEW p \in Process, Begin(p) PROVE TurnsInv'
  <2> DEFINE j == [Rest(p) EXCEPT !.at = "staged", !.mode = "write", !.from = HEAD]
  <2>1. j.at = "staged" /\ j.mode = "write" /\ j.from = HEAD
    BY DEF Rest, Closed
  <2>2. job' = [job EXCEPT ![p] = j] /\ job[p].at = "idle" /\ Writers /\ UNCHANGED <<history, rows, stateMark>>
    BY <1>9 DEF Begin, index, Writers
  <2> HIDE DEF j
  <2>3. job'[p] = j /\ Mine(p)
    BY <1>3, <2>1, <2>2
  <2>4. Current /\ Shown
    BY <1>4, <2>2, <2>3 DEF JobInv, AtRest, Quiet, Emptied
  <2>5. JobInv(p)'
    BY <1>5, <2>1, <2>2, <2>3, <2>4 DEF JobInv, AtRest, InWrite, InEvents, InRebuild, InRefresh,
                                  OnlyRefreshHasOuter, Rebuilds, Quiet
  <2>6. Shown'
    BY <1>5, <2>2, <2>4 DEF Shown
  <2> QED BY <1>2, <2>3, <2>5, <2>6, OneTurn
<1>10. ASSUME NEW p \in Process, NEW mode \in Command, Rebuild(p, mode) PROVE TurnsInv'
  <2> DEFINE j == [Rest(p) EXCEPT !.at = "capture", !.mode = mode]
  <2>1. j.at = "capture" /\ j.mode = mode /\ mode \in {"state", "events", "all"}
    BY <1>10 DEF Rest, Closed, Rebuild
  <2>2. job' = [job EXCEPT ![p] = j] /\ job[p].at = "idle" /\ UNCHANGED <<history, rows, stateMark>>
    BY <1>10 DEF Rebuild, index
  <2> HIDE DEF j
  <2>3. job'[p] = j /\ Mine(p)
    BY <1>3, <2>1, <2>2
  <2>4. (Writers => Current) /\ Shown
    BY <1>4, <2>2, <2>3 DEF JobInv, AtRest, Quiet, Emptied
  <2>5. JobInv(p)'
    BY <1>5, <2>1, <2>2, <2>3, <2>4 DEF JobInv, AtRest, InWrite, InEvents, InRebuild, InRefresh,
                                  OnlyRefreshHasOuter, Rebuilds, Quiet
  <2>6. Shown'
    BY <1>5, <2>2, <2>4 DEF Shown
  <2> QED BY <1>2, <2>3, <2>5, <2>6, OneTurn
<1>11. ASSUME NEW p \in Process, Pull(p) PROVE TurnsInv'
  <2>1. PICK tree \in Commits : Commit(tree)
    BY <1>11 DEF Pull
  <2>2. HEAD' = HEAD + 1
    BY <1>0, <2>1, CommitGrowsHistory
  <2> DEFINE j == [Rest(p) EXCEPT !.at = "capture", !.mode = "sync"]
  <2>3. j.at = "capture" /\ j.mode = "sync"
    BY DEF Rest, Closed
  <2>4. job' = [job EXCEPT ![p] = j] /\ UNCHANGED <<rows, stateMark>>
    BY <1>11 DEF Pull, index
  <2> HIDE DEF j
  <2>5. job'[p] = j /\ Mine(p)
    BY <1>3, <2>3, <2>4
  <2>6. stateMark' # HEAD'
    BY <1>0, <2>2, <2>4
  <2>7. JobInv(p)'
    BY <2>3, <2>5 DEF JobInv, AtRest, InWrite, InEvents, InRebuild, InRefresh,
                                  OnlyRefreshHasOuter, Rebuilds, Quiet
  <2>8. Shown'
    BY <2>6 DEF Shown
  <2> QED BY <1>2, <2>5, <2>7, <2>8, OneTurn
<1>12. ASSUME NEW p \in Process, NEW j, job' = [job EXCEPT ![p] = j], job[p].at # "closed",
              UNCHANGED history
       PROVE  /\ job'[p] = j /\ Mine(p) /\ JobInv(p) /\ (Emptied(p) \/ Shown)
              /\ HEAD' = HEAD /\ At(HEAD)' = At(HEAD)
              /\ job[p].outer <= HEAD /\ job[p].head <= HEAD
              /\ job[p].outer \in Nat /\ job[p].head \in Nat
  <2>1. job'[p] = j /\ Mine(p)
    BY <1>3, <1>12
  <2>2. job[p].outer \in Nat /\ job[p].head \in Nat
    BY <1>0 DEF TypeOK, Job, Version
  <2>3. job[p].outer <= HEAD /\ job[p].head <= HEAD
    BY <1>0 DEF TypeInv, Remembered
  <2> QED BY <1>4, <1>5, <1>12, <2>1, <2>2, <2>3
<1>13. ASSUME NEW p \in Process, job[p].at # "closed", \A q \in Process \ {p} : job'[q] = job[q],
              JobInv(p)', Emptied(p)' \/ Shown'
       PROVE  TurnsInv'
  <2>1. Mine(p)
    BY <1>0, <1>13 DEF OneIsOpen
  <2> QED BY <1>2, <1>13, <2>1, OneTurn
<1>14. ASSUME NEW p \in Process, Capture(p) PROVE TurnsInv'
  <2> DEFINE l == IF job[p].mode = "events" THEN "walk" ELSE "wipe"
             j == [job[p] EXCEPT !.head = HEAD, !.at = l]
  <2>1. job' = [job EXCEPT ![p] = j] /\ job[p].at = "capture" /\ UNCHANGED <<history, rows, stateMark>>
    BY <1>0, <1>14 DEF Capture, index, TypeOK
  <2>2. j.at = l /\ j.mode = job[p].mode /\ j.outer = job[p].outer /\ j.head = HEAD
    BY <1>0 DEF TypeOK, Job
  <2> HIDE DEF j
  <2>3. /\ job'[p] = j /\ JobInv(p) /\ (Emptied(p) \/ Shown)
        /\ HEAD' = HEAD /\ At(HEAD)' = At(HEAD)
        /\ job[p].outer <= HEAD
    BY <1>12, <2>1
  <2>4. JobInv(p)'
    BY <2>1, <2>2, <2>3 DEF JobInv, AtRest, InWrite, InEvents, InRebuild, InRefresh,
                                  OnlyRefreshHasOuter, Rebuilds, Quiet
  <2>5. Shown'
    BY <2>1, <2>3 DEF Shown, Emptied
  <2>6. \A q \in Process \ {p} : job'[q] = job[q]
    BY <1>0, <2>1 DEF TypeOK
  <2> QED BY <1>13, <2>1, <2>4, <2>5, <2>6
<1>15. ASSUME NEW p \in Process, NEW l, Goto(p, l), job[p].at # "closed", UNCHANGED history
       PROVE  /\ job'[p].at = l /\ job'[p].mode = job[p].mode /\ job'[p].outer = job[p].outer
              /\ job'[p].from = job[p].from /\ job'[p].head = job[p].head /\ job'[p].todo = job[p].todo
              /\ job'[p].held = job[p].held
              /\ JobInv(p) /\ (Emptied(p) \/ Shown)
              /\ HEAD' = HEAD /\ At(HEAD)' = At(HEAD)
              /\ job[p].outer <= HEAD /\ job[p].head <= HEAD
              /\ job[p].outer \in Nat /\ job[p].head \in Nat
              /\ \A q \in Process \ {p} : job'[q] = job[q]
  <2> DEFINE j == [job[p] EXCEPT !.at = l]
  <2>1. job' = [job EXCEPT ![p] = j]
    BY <1>15 DEF Goto
  <2>2. /\ j.at = l /\ j.mode = job[p].mode /\ j.outer = job[p].outer /\ j.from = job[p].from
        /\ j.head = job[p].head /\ j.todo = job[p].todo /\ j.held = job[p].held
    BY <1>0 DEF TypeOK, Job
  <2> HIDE DEF j
  <2> QED BY <1>12, <1>15, <2>1, <2>2
<1>16. ASSUME NEW p \in Process, Wipe(p) PROVE TurnsInv'
  <2>1. job[p].at = "wipe" /\ Goto(p, "list") /\ UNCHANGED history /\ rows' = Empty
        /\ stateMark' = IF job[p].mode \in {"all", "sync"} THEN 0 ELSE stateMark
    BY <1>16 DEF Wipe
  <2>2. /\ job'[p].at = "list" /\ job'[p].mode = job[p].mode /\ job'[p].outer = job[p].outer
        /\ job'[p].head = job[p].head /\ JobInv(p) /\ HEAD' = HEAD
        /\ \A q \in Process \ {p} : job'[q] = job[q]
    BY <1>15, <2>1
  <2>3. job[p].mode \in Modes
    BY <1>0 DEF TypeOK, Job
  <2>4. job[p].mode \in {"open", "watch", "state", "all", "sync"} /\ Rebuilds(p)
    BY <2>1, <2>2, <2>3, CommandsAreKnown
       DEF JobInv, InWrite, InEvents, Modes, Commands, Rebuilds, Quiet
  <2>5. job[p].mode = "state" \/ stateMark' # HEAD
    BY <1>0, <2>1, <2>2, <2>4 DEF JobInv, InRefresh
  <2>6. JobInv(p)'
    BY <2>1, <2>2, <2>4, <2>5 DEF JobInv, AtRest, InWrite, InEvents, InRebuild, InRefresh,
                                  OnlyRefreshHasOuter, Rebuilds, Quiet
  <2>7. Emptied(p)' \/ Shown'
    BY <2>2, <2>5 DEF Shown, Emptied
  <2> QED BY <1>13, <2>1, <2>2, <2>6, <2>7
<1>17. ASSUME NEW p \in Process, ListFiles(p) PROVE TurnsInv'
  <2> DEFINE t == {i \in Issue : At(HEAD)[i] # Gone}
             j == [job[p] EXCEPT !.at = "read", !.todo = t]
  <2>1. job' = [job EXCEPT ![p] = j] /\ job[p].at = "list" /\ UNCHANGED <<history, rows, stateMark>>
    BY <1>0, <1>17 DEF ListFiles, index, TypeOK
  <2>2. j.at = "read" /\ j.mode = job[p].mode /\ j.outer = job[p].outer /\ j.head = job[p].head /\ j.todo = t
    BY <1>0 DEF TypeOK, Job
  <2> HIDE DEF j
  <2>3. /\ job'[p] = j /\ JobInv(p) /\ (Emptied(p) \/ Shown)
        /\ HEAD' = HEAD /\ At(HEAD)' = At(HEAD)
    BY <1>12, <2>1
  <2>4. \A i \in Issue : Empty[i] = Gone
    BY DEF Empty
  <2>5. JobInv(p)'
    BY <2>1, <2>2, <2>3, <2>4 DEF JobInv, AtRest, InWrite, InEvents, InRebuild, InRefresh,
                                  OnlyRefreshHasOuter, Rebuilds, Quiet
  <2>6. Emptied(p)' \/ Shown'
    BY <2>1, <2>2, <2>3 DEF Shown, Emptied
  <2>7. \A q \in Process \ {p} : job'[q] = job[q]
    BY <1>0, <2>1 DEF TypeOK
  <2> QED BY <1>13, <2>1, <2>5, <2>6, <2>7
<1>18. ASSUME NEW p \in Process, ReadFile(p) PROVE TurnsInv'
  <2>1. PICK i \in job[p].todo :
           IF At(HEAD)[i] = Gone
           THEN job' = [job EXCEPT ![p].todo = @ \ {i}]
           ELSE job' = [job EXCEPT ![p].at = "upsert", ![p].held = {<<i, At(HEAD)[i]>>},
                                   ![p].todo = @ \ {i}]
    BY <1>18 DEF ReadFile
  <2>2. job[p].at = "read" /\ UNCHANGED <<history, rows, stateMark>> /\ i \in Issue
    BY <1>0, <1>18 DEF ReadFile, index, TypeOK, Job
  <2> DEFINE j == IF At(HEAD)[i] = Gone THEN [job[p] EXCEPT !.todo = @ \ {i}]
                  ELSE [job[p] EXCEPT !.at = "upsert", !.held = {<<i, At(HEAD)[i]>>}, !.todo = @ \ {i}]
  <2>3. job' = [job EXCEPT ![p] = j]
    BY <1>0, <2>1 DEF TypeOK
  <2>4. /\ j.mode = job[p].mode /\ j.outer = job[p].outer /\ j.head = job[p].head
        /\ j.todo = job[p].todo \ {i}
        /\ At(HEAD)[i] = Gone => j.at = "read"
        /\ At(HEAD)[i] # Gone => j.at = "upsert" /\ j.held = {<<i, At(HEAD)[i]>>}
    BY <1>0, <2>2 DEF TypeOK, Job
  <2> HIDE DEF j
  <2>5. /\ job'[p] = j /\ JobInv(p) /\ (Emptied(p) \/ Shown)
        /\ HEAD' = HEAD /\ At(HEAD)' = At(HEAD)
    BY <1>12, <2>2, <2>3
  <2>6. \A q \in Process \ {p} : job'[q] = job[q]
    BY <1>0, <2>3 DEF TypeOK
  <2>7. Rebuilds(p) /\ Rebuilds(p)' /\ job'[p].at \in {"read", "upsert"}
    BY <2>2, <2>4, <2>5 DEF JobInv, InWrite, InEvents, Rebuilds, Quiet
  <2>8. AtRest(p)' /\ InWrite(p)' /\ InEvents(p)' /\ InRefresh(p)' /\ OnlyRefreshHasOuter(p)'
    BY <2>2, <2>4, <2>5, <2>7 DEF JobInv, AtRest, InWrite, InEvents, InRefresh,
                                  OnlyRefreshHasOuter, Rebuilds, Quiet
  <2>9. InRebuild(p)'
    <3>1. /\ job[p].mode = "state" => "state" \in Command
          /\ Writers => job[p].head = HEAD
          /\ job[p].mode = "state" \/ stateMark # HEAD
      BY <2>2, <2>5, <2>7 DEF JobInv, InRebuild
    <3>2. job[p].head = HEAD =>
             \A k \in Issue : IF k \in job[p].todo THEN At(HEAD)[k] # Gone ELSE rows[k] = At(HEAD)[k]
      BY <2>2, <2>5, <2>7 DEF JobInv, InRebuild
    <3>3. ASSUME job[p].head = HEAD PROVE At(HEAD)[i] # Gone
      BY <2>2, <3>2, <3>3
    <3>4. ASSUME job[p].head = HEAD
          PROVE  /\ \A k \in job'[p].todo : At(HEAD)[k] # Gone
                 /\ job'[p].at = "upsert" /\ job'[p].held = {<<i, At(HEAD)[i]>>}
                 /\ \A k \in Issue \ {i} : k \in job'[p].todo \/ rows'[k] = At(HEAD)[k]
      <4>1. \A k \in job[p].todo : k \in Issue
        BY <1>0 DEF TypeOK, Job
      <4> QED BY <2>2, <2>4, <2>5, <3>2, <3>3, <3>4, <4>1
    <3>5. job'[p].head = job[p].head /\ job'[p].mode = job[p].mode
      BY <2>4, <2>5
    <3> QED BY <2>2, <2>5, <2>7, <3>1, <3>4, <3>5 DEF InRebuild
  <2>10. Emptied(p)' \/ Shown'
    BY <2>2, <2>4, <2>5, <2>7 DEF Shown, Emptied
  <2> QED BY <1>13, <2>2, <2>6, <2>8, <2>9, <2>10 DEF JobInv
<1>19. ASSUME NEW p \in Process, UpsertFile(p) PROVE TurnsInv'
  <2>1. PICK f \in job[p].held : rows' = [rows EXCEPT ![f[1]] = f[2]]
    BY <1>19 DEF UpsertFile
  <2> DEFINE j == [job[p] EXCEPT !.at = "read", !.held = {}]
  <2>2. job' = [job EXCEPT ![p] = j] /\ job[p].at = "upsert" /\ UNCHANGED <<history, stateMark>>
    BY <1>0, <1>19 DEF UpsertFile, TypeOK
  <2>3. /\ j.at = "read" /\ j.mode = job[p].mode /\ j.outer = job[p].outer /\ j.head = job[p].head
        /\ j.todo = job[p].todo
    BY <1>0 DEF TypeOK, Job
  <2> HIDE DEF j
  <2>4. /\ job'[p] = j /\ JobInv(p) /\ (Emptied(p) \/ Shown)
        /\ HEAD' = HEAD /\ At(HEAD)' = At(HEAD)
    BY <1>12, <2>2
  <2>5. \A q \in Process \ {p} : job'[q] = job[q]
    BY <1>0, <2>2 DEF TypeOK
  <2>6. Rebuilds(p) /\ Rebuilds(p)'
    BY <2>2, <2>3, <2>4 DEF JobInv, InWrite, InEvents, Rebuilds, Quiet
  <2>7. AtRest(p)' /\ InWrite(p)' /\ InEvents(p)' /\ InRefresh(p)' /\ OnlyRefreshHasOuter(p)'
    BY <2>2, <2>3, <2>4, <2>6 DEF JobInv, AtRest, InWrite, InEvents, InRefresh,
                                  OnlyRefreshHasOuter, Rebuilds, Quiet
  <2>8. ASSUME job[p].head = HEAD
        PROVE  \A i \in Issue : IF i \in job[p].todo THEN At(HEAD)[i] # Gone ELSE rows'[i] = At(HEAD)[i]
    <3>1. PICK i \in Issue : /\ job[p].held = {<<i, At(HEAD)[i]>>}
                             /\ \A k \in Issue \ {i} : k \in job[p].todo \/ rows[k] = At(HEAD)[k]
      BY <2>2, <2>4, <2>6, <2>8 DEF JobInv, InRebuild
    <3>2. \A k \in job[p].todo : At(HEAD)[k] # Gone
      BY <2>2, <2>4, <2>6, <2>8 DEF JobInv, InRebuild
    <3>3. rows' = [rows EXCEPT ![i] = At(HEAD)[i]]
      <4>1. f = <<i, At(HEAD)[i]>>
        BY <3>1
      <4>2. f[1] = i /\ f[2] = At(HEAD)[i]
        BY <4>1
      <4> QED BY <2>1, <4>2
    <3>4. \A k \in Issue : rows'[k] = IF k = i THEN At(HEAD)[i] ELSE rows[k]
      BY <1>0, <3>3 DEF Tree
    <3> QED BY <3>1, <3>2, <3>4
  <2>9. InRebuild(p)'
    BY <2>2, <2>3, <2>4, <2>6, <2>8 DEF JobInv, InRebuild
  <2>10. Emptied(p)' \/ Shown'
    BY <2>2, <2>3, <2>4, <2>6 DEF Shown, Emptied, JobInv, InRebuild
  <2> QED BY <1>13, <2>2, <2>5, <2>7, <2>9, <2>10 DEF JobInv
<1>20. ASSUME NEW p \in Process, FilesRead(p) PROVE TurnsInv'
  <2>1. job[p].at = "read" /\ job[p].todo = {} /\ Goto(p, "mark") /\ UNCHANGED <<history, rows, stateMark>>
    BY <1>20 DEF FilesRead, index
  <2>2. /\ job'[p].at = "mark" /\ job'[p].mode = job[p].mode /\ job'[p].outer = job[p].outer
        /\ job'[p].head = job[p].head /\ JobInv(p) /\ (Emptied(p) \/ Shown)
        /\ HEAD' = HEAD /\ At(HEAD)' = At(HEAD)
        /\ \A q \in Process \ {p} : job'[q] = job[q]
    BY <1>15, <2>1
  <2>3. Rebuilds(p) /\ Rebuilds(p)'
    BY <2>1, <2>2 DEF JobInv, InWrite, InEvents, Rebuilds, Quiet
  <2>4. job[p].head = HEAD => rows = At(HEAD)
    BY <1>0, <2>1, <2>2, <2>3, SameTree DEF JobInv, InRebuild
  <2>5. JobInv(p)'
    BY <2>1, <2>2, <2>3, <2>4 DEF JobInv, AtRest, InWrite, InEvents, InRebuild, InRefresh,
                                  OnlyRefreshHasOuter, Rebuilds, Quiet
  <2>6. Emptied(p)' \/ Shown'
    BY <2>1, <2>2 DEF Shown, Emptied
  <2> QED BY <1>13, <2>1, <2>2, <2>5, <2>6
<1>21. ASSUME NEW p \in Process, MarkState(p) PROVE TurnsInv'
  <2>1. job[p].at = "mark" /\ stateMark' = job[p].head /\ UNCHANGED <<history, rows>>
    BY <1>21 DEF MarkState
  <2>2. JobInv(p)
    BY DEF TurnsInv
  <2>3. job[p].mode = "write" \/ Rebuilds(p)
    BY <2>1, <2>2 DEF JobInv, InEvents, Rebuilds, Quiet
  <2>4. job[p].head = HEAD => rows = At(HEAD)
    BY <2>1, <2>2, <2>3 DEF JobInv, InWrite, InRebuild
  <2>5. Writers \/ job[p].mode = "write" => job[p].head = HEAD
    BY <2>1, <2>2, <2>3 DEF JobInv, InWrite, InRebuild
  <2>6. CASE Finish(p)
    BY <1>6, <2>1, <2>4, <2>5, <2>6 DEF Finish
  <2>7. ASSUME NEW l, Goto(p, l), Rebuilds(p),
               \/ l = "outer" /\ job[p].mode \in {"open", "watch"}
               \/ l = "walk" /\ job[p].mode \in {"all", "sync"}
        PROVE  TurnsInv'
    <3>1. /\ job'[p].at = l /\ job'[p].mode = job[p].mode /\ job'[p].outer = job[p].outer
          /\ job'[p].head = job[p].head /\ HEAD' = HEAD /\ At(HEAD)' = At(HEAD)
          /\ \A q \in Process \ {p} : job'[q] = job[q]
      BY <1>15, <2>1, <2>7
    <3>2. JobInv(p)'
      BY <2>1, <2>2, <2>4, <2>5, <2>7, <3>1 DEF JobInv, AtRest, InWrite, InEvents, InRebuild,
                                  InRefresh, OnlyRefreshHasOuter, Rebuilds, Quiet
    <3>3. Shown'
      BY <2>1, <2>4, <3>1 DEF Shown
    <3> QED BY <1>13, <2>1, <3>1, <3>2, <3>3
  <2>8. CASE job[p].mode \in {"open", "watch"}
    BY <1>21, <2>3, <2>7, <2>8 DEF MarkState, AfterMark
  <2>9. CASE job[p].mode \in {"all", "sync"}
    BY <1>21, <2>3, <2>7, <2>9 DEF MarkState, AfterMark
  <2>10. CASE job[p].mode \notin {"open", "watch", "all", "sync"}
    BY <1>21, <2>6, <2>10 DEF MarkState, AfterMark
  <2> QED BY <2>8, <2>9, <2>10
<1>22. ASSUME NEW p \in Process, MarkOuter(p) PROVE TurnsInv'
  <2>1. /\ job[p].at = "outer" /\ stateMark' = job[p].outer /\ UNCHANGED <<history, rows>>
        /\ job' = [job EXCEPT ![p] = Rest(p)]
    BY <1>22 DEF MarkOuter, Finish
  <2>2. JobInv(p) /\ job[p].head <= HEAD /\ job[p].head \in Nat /\ job[p].outer \in Nat
    BY <1>12, <2>1
  <2>3. Rebuilds(p) /\ job[p].mode \in {"open", "watch"} /\ job[p].outer <= job[p].head
        /\ (Writers => job[p].outer = HEAD) /\ (job[p].head = HEAD => rows = At(HEAD))
    BY <2>1, <2>2 DEF JobInv, OnlyRefreshHasOuter, InRefresh, InRebuild
  <2>4. job[p].outer = HEAD => rows = At(HEAD)
    <3>1. job[p].outer = HEAD => job[p].head = HEAD
      BY <1>0, <2>2, <2>3
    <3> QED BY <2>3, <3>1
  <2> QED BY <1>6, <2>1, <2>3, <2>4
<1>23. ASSUME NEW p \in Process, SealEvents(p) PROVE TurnsInv'
  <2>1. job[p].at = "seal" /\ UNCHANGED <<history, rows, stateMark>>
    BY <1>23 DEF SealEvents
  <2>2. JobInv(p) /\ Shown
    BY <2>1 DEF TurnsInv, JobInv, AtRest, Quiet, Emptied, OneIsOpen
  <2>3. CASE job[p].mode = "write"
    <3>1. Goto(p, "mark")
      BY <1>23, <2>3 DEF SealEvents
    <3>2. /\ job'[p].at = "mark" /\ job'[p].mode = "write"
          /\ job'[p].head = job[p].head /\ HEAD' = HEAD /\ At(HEAD)' = At(HEAD)
          /\ \A q \in Process \ {p} : job'[q] = job[q]
      BY <1>15, <2>1, <2>3, <3>1
    <3>3. JobInv(p)'
      BY <2>1, <2>2, <2>3, <3>2 DEF JobInv, AtRest, InWrite, InEvents, InRebuild,
                                  InRefresh, OnlyRefreshHasOuter, Rebuilds, Quiet
    <3>4. Shown'
      BY <2>1, <2>2, <3>2 DEF Shown
    <3> QED BY <1>13, <2>1, <3>2, <3>3, <3>4
  <2>4. CASE job[p].mode # "write"
    <3>1. job' = [job EXCEPT ![p] = Rest(p)]
      BY <1>23, <2>4 DEF SealEvents, Finish
    <3>2. Writers => rows = At(HEAD)
      BY <2>1, <2>2, <2>4 DEF JobInv, InEvents, InRebuild, Rebuilds, Quiet
    <3> QED BY <1>6, <2>1, <2>2, <3>1, <3>2 DEF Shown
  <2> QED BY <2>3, <2>4
<1>24. ASSUME NEW p \in Process, RecordEvents(p) PROVE TurnsInv'
  <2>1. job[p].at = "walk" /\ Goto(p, "seal") /\ UNCHANGED <<history, rows, stateMark>>
    BY <1>24 DEF RecordEvents
  <2>2. /\ job'[p].at = "seal" /\ job'[p].mode = job[p].mode /\ job'[p].outer = job[p].outer
        /\ job'[p].head = job[p].head /\ JobInv(p) /\ (Emptied(p) \/ Shown)
        /\ HEAD' = HEAD /\ At(HEAD)' = At(HEAD)
        /\ \A q \in Process \ {p} : job'[q] = job[q]
    BY <1>15, <2>1
  <2>3. JobInv(p)'
    BY <2>1, <2>2 DEF JobInv, AtRest, InWrite, InEvents, InRebuild,
                                  InRefresh, OnlyRefreshHasOuter, Rebuilds, Quiet
  <2>4. Shown'
    BY <2>1, <2>2 DEF Shown, Emptied
  <2> QED BY <1>13, <2>1, <2>2, <2>3, <2>4
<1>25. ASSUME NEW p \in Process, job[p].at = "absorb"
       PROVE  /\ job[p].mode = "write" /\ Writers /\ job[p].head = HEAD /\ stateMark # HEAD
              /\ \A i \in Issue : i \in job[p].todo \/ rows[i] = At(HEAD)[i]
  <2>1. JobInv(p)
    BY DEF TurnsInv
  <2>2. job[p].mode = "write"
    BY <1>25, <2>1 DEF JobInv, InEvents, InRebuild, Rebuilds, Quiet
  <2> QED BY <1>25, <2>1, <2>2 DEF JobInv, InWrite
<1>26. ASSUME NEW p \in Process, Absorbed(p) PROVE TurnsInv'
  <2>1. job[p].at = "absorb" /\ job[p].todo = {} /\ Goto(p, "walk") /\ UNCHANGED <<history, rows, stateMark>>
    BY <1>26 DEF Absorbed, index
  <2>2. /\ job'[p].at = "walk" /\ job'[p].mode = job[p].mode
        /\ job'[p].head = job[p].head
        /\ HEAD' = HEAD /\ At(HEAD)' = At(HEAD)
        /\ \A q \in Process \ {p} : job'[q] = job[q]
    BY <1>15, <2>1
  <2>3. rows = At(HEAD)
    BY <1>0, <1>25, <2>1, SameTree
  <2>4. JobInv(p)'
    BY <1>25, <2>1, <2>2, <2>3 DEF JobInv, AtRest, InWrite, InEvents, InRebuild,
                                  InRefresh, OnlyRefreshHasOuter, Rebuilds, Quiet
  <2>5. Shown'
    BY <2>1, <2>2, <2>3 DEF Shown
  <2> QED BY <1>13, <2>1, <2>2, <2>4, <2>5
<1>27. ASSUME NEW p \in Process, AbsorbFile(p) PROVE TurnsInv'
  <2>1. PICK i \in job[p].todo : /\ rows' = [rows EXCEPT ![i] = At(job[p].head)[i]]
                                 /\ job' = [job EXCEPT ![p].todo = @ \ {i}]
    BY <1>27 DEF AbsorbFile
  <2>2. job[p].at = "absorb" /\ UNCHANGED <<history, stateMark>>
    BY <1>27 DEF AbsorbFile
  <2> DEFINE j == [job[p] EXCEPT !.todo = @ \ {i}]
  <2>3. job' = [job EXCEPT ![p] = j]
    BY <2>1
  <2>4. /\ j.at = "absorb" /\ j.mode = job[p].mode /\ j.head = job[p].head /\ j.todo = job[p].todo \ {i}
    BY <1>0, <2>2 DEF TypeOK, Job
  <2> HIDE DEF j
  <2>5. job'[p] = j /\ HEAD' = HEAD /\ At(HEAD)' = At(HEAD)
    BY <1>12, <2>2, <2>3
  <2>6. \A q \in Process \ {p} : job'[q] = job[q]
    BY <1>0, <2>3 DEF TypeOK
  <2>7. \A k \in Issue : rows'[k] = IF k = i THEN At(HEAD)[k] ELSE rows[k]
    BY <1>0, <1>25, <2>1, <2>2 DEF Tree
  <2>8. \A k \in Issue : k \in j.todo \/ rows'[k] = At(HEAD)[k]
    BY <1>25, <2>2, <2>4, <2>7
  <2>9. JobInv(p)'
    BY <1>25, <2>2, <2>4, <2>5, <2>8 DEF JobInv, AtRest, InWrite, InEvents, InRebuild,
                                  InRefresh, OnlyRefreshHasOuter, Rebuilds, Quiet
  <2>10. Shown'
    BY <1>25, <2>2, <2>5 DEF Shown
  <2> QED BY <1>13, <2>2, <2>6, <2>9, <2>10
<1>28. ASSUME NEW p \in Process, job[p].at = "staged"
       PROVE  job[p].mode = "write" /\ Writers /\ job[p].from = HEAD /\ rows = At(HEAD)
  <2>1. JobInv(p)
    BY DEF TurnsInv
  <2>2. job[p].mode = "write"
    BY <1>28, <2>1 DEF JobInv, InEvents, InRebuild, Rebuilds, Quiet
  <2> QED BY <1>28, <2>1, <2>2 DEF JobInv, InWrite
<1>29. ASSUME NEW p \in Process, CommitWrite(p) PROVE TurnsInv'
  <2>1. PICK tree \in Commits :
          /\ Commit(tree)
          /\ job' = [job EXCEPT ![p].at = "absorb", ![p].head = HEAD + 1,
                                ![p].todo = {i \in Issue : At(job[p].from)[i] # tree[i]}]
    BY <1>29 DEF CommitWrite
  <2>2. job[p].at = "staged" /\ UNCHANGED <<rows, stateMark>>
    BY <1>29 DEF CommitWrite, index
  <2> DEFINE t == {i \in Issue : At(job[p].from)[i] # tree[i]}
             j == [job[p] EXCEPT !.at = "absorb", !.head = HEAD + 1, !.todo = t]
  <2>3. job' = [job EXCEPT ![p] = j]
    BY <1>0, <2>1 DEF TypeOK
  <2>4. j.at = "absorb" /\ j.mode = job[p].mode /\ j.head = HEAD + 1 /\ j.todo = t
    BY <1>0 DEF TypeOK, Job
  <2> HIDE DEF j
  <2>5. HEAD' = HEAD + 1 /\ history'[HEAD + 1] = tree
    BY <1>0, <2>1, CommitGrowsHistory
  <2>6. At(HEAD)' = tree
    <3>1. HEAD' # 0 /\ history'[HEAD'] = tree
      BY <1>0, <2>5
    <3> QED BY <3>1 DEF At
  <2>7. stateMark' # HEAD'
    BY <1>0, <2>2, <2>5
  <2>8. job'[p] = j /\ \A q \in Process \ {p} : job'[q] = job[q]
    BY <1>0, <2>3 DEF TypeOK
  <2>9. \A i \in Issue : i \in t \/ rows[i] = tree[i]
    BY <1>28, <2>2
  <2>10. JobInv(p)'
    BY <1>28, <2>2, <2>4, <2>5, <2>6, <2>7, <2>8, <2>9
       DEF JobInv, AtRest, InWrite, InEvents, InRebuild, InRefresh, OnlyRefreshHasOuter, Rebuilds, Quiet
  <2>11. Shown'
    BY <2>7 DEF Shown
  <2> QED BY <1>13, <2>2, <2>8, <2>10, <2>11
<1>30. ASSUME NEW p \in Process, EmptyWrite(p) PROVE TurnsInv'
  BY <1>6, <1>28, <1>30 DEF EmptyWrite, Finish, index
<1>31. ASSUME NEW p \in Process, Fail(p) PROVE FALSE
  BY <1>0, <1>31 DEF Fail, TypeOK
<1>32. ASSUME NEW p \in Hub, StartWatch(p) \/ Look(p) \/ Signal(p) \/ Touch(p) PROVE TurnsInv'
  <2>1. UNCHANGED <<history, rows, stateMark, job>>
    BY <1>32 DEF StartWatch, Look, Signal, Touch, index
  <2>2. HEAD' = HEAD /\ At(HEAD)' = At(HEAD)
    BY <1>5, <2>1
  <2>3. \A q \in Process : JobInv(q)'
    <3> TAKE q \in Process
    <3>1. JobInv(q)
      BY DEF TurnsInv
    <3> QED BY <2>1, <2>2, <3>1 DEF JobInv, AtRest, InWrite, InEvents, InRebuild, InRefresh,
                                 OnlyRefreshHasOuter, Rebuilds, Quiet
  <2>4. (\A q \in Process : ~Emptied(q)') => Shown'
    BY <2>1, <2>2 DEF TurnsInv, Emptied, Shown
  <2> QED BY <1>2, <2>3, <2>4 DEF TurnsInv
<1>33. ASSUME RawCommit PROVE TurnsInv'
  <2>1. PICK tree \in Commits : Commit(tree)
    BY <1>33 DEF RawCommit
  <2>2. HEAD' = HEAD + 1
    BY <1>0, <2>1, CommitGrowsHistory
  <2>3. UNCHANGED <<rows, stateMark, job>> /\ MaxRaw # 0
    BY <1>0, <1>33 DEF RawCommit, index, TypeOK
  <2>4. ~Writers /\ stateMark' # HEAD'
    BY <1>0, <2>2, <2>3
  <2>5. \A q \in Process : job[q].head # HEAD'
    <3> TAKE q \in Process
    <3>1. job[q].head \in Nat /\ job[q].head <= HEAD
      BY <1>0 DEF TypeOK, Job, Version, TypeInv, Remembered
    <3> QED BY <1>0, <2>2, <3>1
  <2>6. \A q \in Process : JobInv(q)'
    <3> TAKE q \in Process
    <3>1. JobInv(q) /\ job'[q].head # HEAD'
      BY <2>3, <2>5 DEF TurnsInv
    <3> QED BY <2>3, <2>4, <3>1 DEF JobInv, AtRest, InWrite, InEvents, InRebuild, InRefresh,
                                 OnlyRefreshHasOuter, Rebuilds, Quiet
  <2>7. Shown'
    BY <2>4 DEF Shown
  <2> QED BY <1>2, <2>6, <2>7 DEF TurnsInv
<1> QED
  BY <1>7, <1>8, <1>9, <1>10, <1>11, <1>14, <1>16, <1>17, <1>18, <1>19, <1>20, <1>21, <1>22, <1>23,
     <1>24, <1>26, <1>27, <1>29, <1>30, <1>31, <1>32, <1>33, HubsAreProcesses
     DEF InTurns, Next, Asked, Working, Writing, Rebuilding, Sealing, Watching

(* The state watermark keeps its promise to processes that take turns,     *)
(* wherever they die and whatever they ask for, as long as git and SQLite  *)
(* answer; as long as nobody commits by hand next to a writer, whose own   *)
(* commit would carry the mark over the other one; and as long as nobody   *)
(* dies in a `dit reindex' of the state alone, which leaves the mark on    *)
(* rows it has emptied.                                                    *)
THEOREM RowsAreCurrent ==
    ASSUME MaxFaults = 0, "write" \in Command => MaxRaw = 0, "state" \in Command => MaxCrashes = 0
    PROVE  Init /\ [][InTurns]_vars => []MarkedRowsAreCurrent
<1>1. Init => TurnsInv
  <2> SUFFICES ASSUME Init PROVE TurnsInv
    OBVIOUS
  <2>1. TypeInv
    BY InitTypeInv
  <2>2. \A p \in Process : job[p].at = "closed" /\ job[p].mode = "open"
    BY DEF Init, Closed
  <2>3. \A p \in Process : JobInv(p)
    BY <2>2 DEF JobInv, AtRest, InWrite, InEvents, InRebuild, InRefresh,
                OnlyRefreshHasOuter, Rebuilds, Quiet
  <2>4. OneIsOpen
    BY <2>2 DEF OneIsOpen
  <2>5. Shown
    <3>1. HEAD = 1
      BY DEF Init, HEAD
    <3> QED BY <3>1 DEF Init, Shown
  <2> QED BY <2>1, <2>3, <2>4, <2>5 DEF TurnsInv
<1>2. TurnsInv /\ [InTurns]_vars => TurnsInv'
  BY TurnSteps DEF Writers
<1>3. TurnsInv => MarkedRowsAreCurrent
  BY DEF TurnsInv, MarkedRowsAreCurrent, Shown, Emptied, Quiet
<1> QED BY <1>1, <1>2, <1>3, PTL
=============================================================================
