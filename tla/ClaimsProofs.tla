---------------------------- MODULE ClaimsProofs ----------------------------
(***************************************************************************)
(* What holds of claims for any sessions, actors, issues, blockers and     *)
(* time to live.                                                           *)
(***************************************************************************)
EXTENDS Claims, TLAPS

(* The lock is held by the session that is past it, and by no other.       *)
Locked == \A s \in Session : job[s].at \in {"locked", "absorb"} <=> lock = s

(* The index shows HEAD in every issue but those that missed a commit and  *)
(* the one whose commit is being absorbed.                                 *)
Absorbing(i) == \E s \in Session : job[s].at = "absorb" /\ job[s].issue = i
Follows == \A i \in Issue \ missed : row[i] = file[i] \/ Absorbing(i)

(* What a call that nobody disturbed has decided still holds of HEAD,      *)
(* where it looked at rows that had missed nothing.                        *)
Guarded(s) ==
    LET i == job[s].issue
    IN  /\ job[s].at = "decided" => lock = Nobody
        /\ job[s].stamp <= now
        /\ i \in known[s] =>
              /\ Plain(s) /\ job[s].op # "status"
                    => ~HeldByOther(file[i], job[s].actor, job[s].stamp)
              /\ job[s].opts = {} /\ job[s].op # "status" /\ file[i].status \in PickFrom
                    => \A b \in Blockers[i] \cap known[s] : Satisfied(file[b].status)

Decided == \A s \in Session :
    job[s].at \in {"decided", "locked"} /\ known[s] # {} => Guarded(s)

Inv == TypeOK /\ Locked /\ Follows /\ Decided

(* A patched issue is an issue.                                            *)
LEMMA PatchedType ==
    ASSUME NEW f \in Fields, NEW j \in Work
    PROVE  Patched(f, j) \in Fields
<1>0. 0 \in Time
  BY TimesAreNat DEF Time
<1>1. CASE j.op = "claim"
  BY <1>1 DEF Patched, Fields, Work
<1>2. CASE j.op = "release"
  BY <1>0, <1>2 DEF Patched, Fields, Work
<1>3. CASE j.op = "status"
  BY <1>3 DEF Patched, Fields, Work
<1> QED BY <1>1, <1>2, <1>3 DEF Work

(* An idle session does no work, and one at work holds a work record.      *)
LEMMA AtWork ==
    ASSUME TypeOK, NEW s \in Session
    PROVE  /\ job[s] \in Work \/ job[s] = Idle \/ job[s] \in Landed
           /\ job[s].at \in {"idle", "decided", "locked", "absorb"}
           /\ job[s].at \in {"decided", "locked"} => job[s] \in Work
           /\ job[s].at = "absorb" => job[s].issue \in Issue
           /\ job[s] = Idle => job[s].at = "idle"
BY DEF TypeOK, Jobs, Work, Landed, Idle

(* The invariant holds at first.                                           *)
LEMMA InitInv == Init => Inv
<1> SUFFICES ASSUME Init PROVE Inv
  OBVIOUS
<1>1. TypeOK
  BY TimesAreNat DEF Init, TypeOK, Fields, Time, Jobs
<1>2. Locked
  BY NobodyIsNobody DEF Init, Locked, Idle
<1>3. Follows /\ Decided
  BY DEF Init, Follows, Decided, Idle
<1> QED BY <1>1, <1>2, <1>3 DEF Inv

(* A verdict that asks for no way out was given on a claim that is not     *)
(* another's and live, and a plain claim on an issue that is not blocked.  *)
LEMMA VerdictGuards ==
    ASSUME NEW i \in Issue, NEW a \in Actor, NEW opts \in Options, Verdict(i, a, opts) # "refused"
    PROVE  /\ Verdict(i, a, opts) = "claim" /\ opts \cap {"takeover", "force"} = {}
                 => ~HeldByOther(row[i], a, now)
           /\ Verdict(i, a, opts) = "release" /\ "force" \notin opts
                 => ~HeldByOther(row[i], a, now)
           /\ Verdict(i, a, opts) \in {"claim", "release"}
           /\ opts = {} => Readiness(row, i) # "blocked"
<1>1. Verdict(i, a, opts) = "claim" /\ opts \cap {"takeover", "force"} = {}
         => ~HeldByOther(row[i], a, now)
  BY DEF Verdict, HolderAllows, HeldByOther
<1>2. Verdict(i, a, opts) = "release" /\ "force" \notin opts => ~HeldByOther(row[i], a, now)
  BY DEF Verdict, MayRelease
<1>3. Verdict(i, a, opts) \in {"claim", "release"}
  BY DEF Verdict
<1>4. opts = {} => Readiness(row, i) # "blocked"
  BY DEF Verdict, ReadinessAllows
<1> QED BY <1>1, <1>2, <1>3, <1>4

(* One action after the other keeps the invariant.                         *)

(* Where nothing is being absorbed, a row that missed nothing shows HEAD.  *)
LEMMA RowsAreTrue ==
    ASSUME Inv, lock = Nobody, NEW i \in Issue \ missed
    PROVE  row[i] = file[i]
BY NobodyIsNobody DEF Inv, Locked, Follows, Absorbing

(* What a call has decided while the lock was free.                        *)
Sound(j) ==
    /\ j.stamp <= now
    /\ j.issue \notin missed =>
          /\ j.op # "status" /\ (IF j.op = "claim" THEN j.opts \cap {"takeover", "force"} = {}
                                                   ELSE "force" \notin j.opts)
                => ~HeldByOther(file[j.issue], j.actor, j.stamp)
          /\ j.opts = {} /\ j.op # "status" /\ file[j.issue].status \in PickFrom
                => \A b \in Blockers[j.issue] \ missed : Satisfied(file[b].status)

(* A session that asks for a decided job keeps the invariant, if what it   *)
(* decided on is still so when it finds the lock free.                     *)
LEMMA AsksInv ==
    ASSUME Inv, NEW s \in Session, NEW j \in Work, Asks(s, j), j.at = "decided",
           lock = Nobody => Sound(j)
    PROVE  Inv'
<1>1. TypeOK'
  BY DEF Inv, TypeOK, Asks, Jobs, index
<1>2. \A t \in Session : job'[t] = IF t = s THEN j ELSE job[t]
  BY DEF Inv, TypeOK, Asks
<1>3. \A t \in Session :
         known'[t] = IF t = s THEN (IF lock = Nobody THEN Issue \ missed ELSE {}) ELSE known[t]
  BY DEF Inv, TypeOK, Asks
<1>4. UNCHANGED <<file, row, missed, now, lock>> /\ job[s].at = "idle"
  BY DEF Asks, Idle, index
<1>5. Locked'
  BY <1>2, <1>4 DEF Inv, Locked
<1>6. Follows'
  BY <1>2, <1>4 DEF Inv, Follows, Absorbing
<1>7. Decided'
  <2> SUFFICES ASSUME NEW t \in Session, known'[t] # {}, job'[t].at \in {"decided", "locked"}
               PROVE  Guarded(t)'
    BY DEF Decided
  <2>1. CASE t = s
    <3>1. lock = Nobody /\ known'[t] = Issue \ missed /\ job'[t] = j
      BY <2>1, <1>2, <1>3
    <3>2. Blockers[j.issue] \subseteq Issue /\ j.issue \in Issue
      BY BlockersAreIssues DEF Work
    <3>3. Sound(j)
      BY <3>1
    <3> QED BY <3>1, <3>2, <3>3, <1>4 DEF Sound, Guarded, Plain, HeldByOther, Liveness
  <2>2. CASE t # s
    BY <2>2, <1>2, <1>3, <1>4 DEF Inv, Decided, Guarded, Plain, HeldByOther, Liveness
  <2> QED BY <2>1, <2>2
<1> QED BY <1>1, <1>5, <1>6, <1>7 DEF Inv

(* A claim or release that asks keeps the invariant (claim).               *)
LEMMA ClaimInv ==
    ASSUME Inv, NEW s \in Session, NEW i \in Issue, NEW a \in Actor, NEW opts \in Options,
           Claim(s, i, a, opts)
    PROVE  Inv'
<1> DEFINE j == [at |-> "decided", issue |-> i, op |-> Verdict(i, a, opts),
                 status |-> row[i].status, actor |-> a, opts |-> opts, stamp |-> now]
<1>1. j \in Work
  BY VerdictGuards DEF Inv, TypeOK, Claim, Work, Fields
<1>2. Asks(s, j) /\ Verdict(i, a, opts) # "refused"
  BY DEF Claim
<1>3. now <= now
  BY TimesAreNat DEF Inv, TypeOK, Time
<1> HIDE DEF j
<1>4. /\ j.at = "decided" /\ j.op = Verdict(i, a, opts) /\ j.issue = i
      /\ j.actor = a /\ j.opts = opts /\ j.stamp = now
  BY DEF j
<1>5. ASSUME lock = Nobody PROVE Sound(j)
  <2> SUFFICES ASSUME i \notin missed PROVE Sound(j)
    BY <1>3, <1>4 DEF Sound
  <2>1. row[i] = file[i]
    BY <1>5, RowsAreTrue
  <2>2. \A b \in Blockers[i] \ missed : row[b] = file[b]
    BY <1>5, RowsAreTrue, BlockersAreIssues
  <2>3. opts = {} /\ row[i].status \in PickFrom => \A b \in Blockers[i] : Satisfied(row[b].status)
    BY <1>2, VerdictGuards DEF Readiness
  <2> QED BY <1>2, <1>3, <1>4, <2>1, <2>2, <2>3, VerdictGuards DEF Sound
<1> QED BY <1>1, <1>2, <1>4, <1>5, AsksInv

(* A status edit that asks keeps the invariant.                            *)
LEMMA SetStatusInv ==
    ASSUME Inv, NEW s \in Session, NEW i \in Issue, NEW status \in InUse, SetStatus(s, i, status)
    PROVE  Inv'
<1> DEFINE j == [at |-> "decided", issue |-> i, op |-> "status",
                 status |-> status, actor |-> Nobody, opts |-> {}, stamp |-> 0]
<1>1. j \in Work
  BY TimesAreNat DEF Work, Time
<1>2. Asks(s, j)
  BY DEF SetStatus
<1>3. 0 <= now
  BY TimesAreNat DEF Inv, TypeOK, Time
<1> HIDE DEF j
<1>4. j.at = "decided" /\ j.op = "status" /\ j.stamp = 0
  BY DEF j
<1>5. Sound(j)
  BY <1>3, <1>4 DEF Sound
<1> QED BY <1>1, <1>2, <1>4, <1>5, AsksInv

(* The lock is taken: whoever else had decided is disturbed.               *)
LEMMA TakeLockInv ==
    ASSUME Inv, NEW s \in Session, TakeLock(s)
    PROVE  Inv'
<1>1. job[s] \in Work
  BY AtWork DEF Inv, TakeLock
<1>2. \A t \in Session : job'[t] = IF t = s THEN [job[s] EXCEPT !.at = "locked"] ELSE job[t]
  BY DEF Inv, TypeOK, TakeLock
<1>3. /\ [job[s] EXCEPT !.at = "locked"] \in Work
      /\ job'[s].at = "locked" /\ job'[s].op = job[s].op
      /\ job'[s].issue = job[s].issue /\ job'[s].actor = job[s].actor
      /\ job'[s].opts = job[s].opts /\ job'[s].stamp = job[s].stamp
  BY <1>1, <1>2 DEF Work
<1>4. \A t \in Session : known'[t] = IF t = s THEN known[s] ELSE {}
  BY DEF TakeLock
<1>5. UNCHANGED <<file, row, copy, upsets, missed, now>> /\ lock = Nobody /\ lock' = s
      /\ job[s].at = "decided"
  BY DEF TakeLock, index
<1>6. TypeOK'
  <2>1. job' \in [Session -> Jobs]
    BY <1>3 DEF Inv, TypeOK, TakeLock, Jobs
  <2>2. known' \in [Session -> SUBSET Issue]
    BY DEF Inv, TypeOK, TakeLock
  <2> QED BY <1>5, <2>1, <2>2 DEF Inv, TypeOK
<1>7. Locked'
  BY <1>2, <1>3, <1>5, NobodyIsNobody DEF Inv, Locked
<1>8. Follows'
  BY <1>2, <1>3, <1>5 DEF Inv, Follows, Absorbing
<1>9. Decided'
  <2> SUFFICES ASSUME NEW t \in Session, known'[t] # {}, job'[t].at \in {"decided", "locked"}
               PROVE  Guarded(t)'
    BY DEF Decided
  <2>1. t = s /\ Guarded(s)
    BY <1>4, <1>5 DEF Inv, Decided
  <2> QED BY <2>1, <1>3, <1>4, <1>5 DEF Guarded, Plain, HeldByOther, Liveness
<1> QED BY <1>6, <1>7, <1>8, <1>9 DEF Inv

(* A session that was refused, or is done, is idle.                        *)
LEMMA EndsType ==
    ASSUME TypeOK, NEW s \in Session, Ends(s)
    PROVE  /\ job' \in [Session -> Jobs] /\ known' \in [Session -> SUBSET Issue]
           /\ job'[s].at = "idle" /\ known'[s] = {}
           /\ \A t \in Session \ {s} : job'[t] = job[t] /\ known'[t] = known[t]
<1>1. job' \in [Session -> Jobs] /\ known' \in [Session -> SUBSET Issue]
  BY DEF TypeOK, Ends, Jobs
<1>2. job'[s] = Idle /\ known'[s] = {}
  BY DEF TypeOK, Ends
<1>3. \A t \in Session \ {s} : job'[t] = job[t] /\ known'[t] = known[t]
  BY DEF TypeOK, Ends
<1> QED BY <1>1, <1>2, <1>3 DEF Idle

(* A session that gives up at the lock keeps the invariant.                *)
LEMMA BusyInv ==
    ASSUME Inv, NEW s \in Session, Busy(s)
    PROVE  Inv'
<1>1. UNCHANGED <<file, row, copy, upsets, missed, now, lock>> /\ job[s].at = "decided" /\ Ends(s)
  BY DEF Busy, index
<1>2. TypeOK'
  BY <1>1, EndsType DEF Inv, TypeOK
<1>3. Locked'
  BY <1>1, EndsType DEF Inv, Locked
<1>4. Follows'
  <2>1. \A t \in Session : job[t].at = "absorb" => t # s /\ job'[t] = job[t]
    BY <1>1, EndsType DEF Inv
  <2> QED BY <1>1, <2>1 DEF Inv, Follows, Absorbing
<1>5. Decided'
  <2> SUFFICES ASSUME NEW t \in Session, known'[t] # {}, job'[t].at \in {"decided", "locked"}
               PROVE  Guarded(t)'
    BY DEF Decided
  <2>1. t # s /\ job'[t] = job[t] /\ known'[t] = known[t]
    BY <1>1, EndsType DEF Inv
  <2> QED BY <2>1, <1>1 DEF Inv, Decided, Guarded, Plain, HeldByOther, Liveness
<1> QED BY <1>2, <1>3, <1>4, <1>5 DEF Inv

(* The holder of the lock has decided nothing any more once it commits,    *)
(* and nobody else that has decided is undisturbed.                        *)
LEMMA OthersDisturbed ==
    ASSUME Inv, NEW s \in Session, lock = s, NEW t \in Session \ {s},
           job[t].at \in {"decided", "locked"}
    PROVE  known[t] = {}
<1>1. job[t].at = "decided"
  BY DEF Inv, Locked
<1> QED BY <1>1, NobodyIsNobody DEF Inv, Decided, Guarded

LEMMA CommitInv ==
    ASSUME Inv, NEW s \in Session, Commit(s)
    PROVE  Inv'
<1> DEFINE i == job[s].issue
           landed == [at |-> "absorb", issue |-> i]
<1>1. job[s] \in Work /\ i \in Issue /\ job[s].at = "locked"
  BY AtWork DEF Inv, Commit, Work
<1>2. Patched(file[i], job[s]) \in Fields
  BY <1>1, PatchedType DEF Inv, TypeOK
<1>3. file' \in [Issue -> Fields] /\ \A k \in Issue \ {i} : file'[k] = file[k]
  BY <1>1, <1>2 DEF Inv, TypeOK, Commit
<1>4. \A t \in Session : job'[t] = IF t = s THEN landed ELSE job[t]
  BY DEF Inv, TypeOK, Commit
<1>5. landed \in Landed /\ job'[s].at = "absorb" /\ job'[s].issue = i
  BY <1>1, <1>4 DEF Landed
<1>6. /\ UNCHANGED <<row, copy, upsets, missed, now, lock>> /\ lock = s
      /\ \A t \in Session : known'[t] = IF t = s THEN {} ELSE known[t]
  BY <1>1 DEF Inv, TypeOK, Locked, Commit, index
<1>7. TypeOK'
  <2>1. job' \in [Session -> Jobs] /\ known' \in [Session -> SUBSET Issue]
    BY <1>5 DEF Inv, TypeOK, Commit, Jobs
  <2> QED BY <1>3, <1>6, <2>1 DEF Inv, TypeOK
<1>8. Locked'
  BY <1>1, <1>4, <1>5, <1>6 DEF Inv, Locked
<1>9. Follows'
  <2> SUFFICES ASSUME NEW k \in Issue \ missed PROVE row[k] = file'[k] \/ Absorbing(k)'
    BY <1>6 DEF Follows
  <2>1. CASE k = i
    BY <2>1, <1>5 DEF Absorbing
  <2>2. CASE k # i
    <3>1. ~Absorbing(k)
      BY <1>1, <1>6 DEF Inv, Locked, Absorbing
    <3> QED BY <2>2, <3>1, <1>3 DEF Inv, Follows
  <2> QED BY <2>1, <2>2
<1>10. Decided'
  <2> SUFFICES ASSUME NEW t \in Session, known'[t] # {}, job'[t].at \in {"decided", "locked"}
               PROVE  FALSE
    BY DEF Decided
  <2>1. t # s /\ job'[t] = job[t] /\ known'[t] = known[t]
    BY <1>4, <1>6
  <2> QED BY <2>1, <1>6, OthersDisturbed
<1> QED BY <1>7, <1>8, <1>9, <1>10 DEF Inv

(* The end of a call that committed: whether it was absorbed or not, what  *)
(* matters is that its issue shows HEAD or counts as missed.               *)
LEMMA GivesBackInv ==
    ASSUME Inv, NEW s \in Session, job[s].at = "absorb", Ends(s), lock' = Nobody,
           UNCHANGED <<file, copy, now>>, missed' \in SUBSET Issue, upsets' \in 0..MaxUpsets,
           row' \in [Issue -> Fields],
           \A i \in Issue \ missed' :
              \/ row'[i] = file[i]
              \/ i # job[s].issue /\ i \notin missed /\ row'[i] = row[i]
    PROVE  Inv'
<1>1. lock = s /\ job[s].issue \in Issue
  BY AtWork DEF Inv, Locked
<1>2. TypeOK'
  BY EndsType DEF Inv, TypeOK
<1>3. Locked'
  BY <1>1, EndsType, NobodyIsNobody DEF Inv, Locked
<1>4. Follows'
  <2> SUFFICES ASSUME NEW i \in Issue \ missed' PROVE row'[i] = file[i]
    BY DEF Follows
  <2> SUFFICES ASSUME i # job[s].issue, i \notin missed, row'[i] = row[i] PROVE row[i] = file[i]
    OBVIOUS
  <2>1. ~Absorbing(i)
    BY <1>1 DEF Inv, Locked, Absorbing
  <2> QED BY <2>1 DEF Inv, Follows
<1>5. Decided'
  <2> SUFFICES ASSUME NEW t \in Session, known'[t] # {}, job'[t].at \in {"decided", "locked"}
               PROVE  FALSE
    BY DEF Decided
  <2>1. t # s /\ job'[t] = job[t] /\ known'[t] = known[t]
    BY EndsType DEF Inv
  <2> QED BY <2>1, <1>1, OthersDisturbed
<1> QED BY <1>2, <1>3, <1>4, <1>5 DEF Inv

(* The index has caught up when the lock is given back.                    *)
LEMMA AbsorbInv ==
    ASSUME Inv, NEW s \in Session, Absorb(s)
    PROVE  Inv'
<1> DEFINE i == job[s].issue
<1>1. job[s].at = "absorb" /\ i \in Issue
  BY AtWork DEF Inv, Absorb, Absorbed
<1>2. row' \in [Issue -> Fields] /\ \A k \in Issue : row'[k] = IF k = i THEN file[k] ELSE row[k]
  BY <1>1 DEF Inv, TypeOK, Absorb, Absorbed
<1>3. missed' = missed \ {i} /\ missed' \in SUBSET Issue /\ upsets' \in 0..MaxUpsets
  BY DEF Inv, TypeOK, Absorb, Absorbed
<1>4. Ends(s) /\ lock' = Nobody /\ UNCHANGED <<file, copy, now>>
  BY DEF Absorb, Absorbed
<1> QED BY <1>1, <1>2, <1>3, <1>4, GivesBackInv

(* An issue whose absorb failed counts as missed.                          *)
LEMMA AbsorbFailsInv ==
    ASSUME Inv, NEW s \in Session, AbsorbFails(s)
    PROVE  Inv'
<1> DEFINE i == job[s].issue
<1>1. job[s].at = "absorb" /\ i \in Issue
  BY AtWork DEF Inv, AbsorbFails
<1>2. row' \in [Issue -> Fields] /\ row' = row
  BY DEF Inv, TypeOK, AbsorbFails
<1>3. missed' = missed \cup {i} /\ missed' \in SUBSET Issue /\ upsets' \in 0..MaxUpsets
  BY <1>1, TimesAreNat DEF Inv, TypeOK, AbsorbFails, Upset
<1>4. Ends(s) /\ lock' = Nobody /\ UNCHANGED <<file, copy, now>>
  BY DEF AbsorbFails
<1> QED BY <1>1, <1>2, <1>3, <1>4, GivesBackInv

(* What calls have decided does not depend on the index any more.          *)
LEMMA DecidedStays ==
    ASSUME Inv, UNCHANGED <<file, now, lock, job, known>>
    PROVE  Locked' /\ Decided'
BY DEF Inv, Locked, Decided, Guarded, Plain, HeldByOther, Liveness

(* A rebuild reads, and writes what it has read.                           *)
LEMMA RebuildInv ==
    ASSUME Inv, RebuildWrites \/ \E i \in Issue : RebuildReads(i)
    PROVE  Inv'
<1>1. ASSUME NEW i \in Issue, RebuildReads(i) PROVE Inv'
  <2>1. UNCHANGED <<file, row, missed, now, lock, job, known>>
    BY <1>1 DEF RebuildReads
  <2>2. TypeOK'
    <3>1. copy' \in [issue : Issue, fields : Fields] /\ upsets' \in 0..MaxUpsets
      BY <1>1, TimesAreNat DEF RebuildReads, Upset, Inv, TypeOK
    <3> QED BY <2>1, <3>1 DEF Inv, TypeOK
  <2>3. Follows'
    BY <2>1 DEF Inv, Follows, Absorbing
  <2> QED BY <2>1, <2>2, <2>3, DecidedStays DEF Inv
<1>2. CASE RebuildWrites
  <2>1. copy \in [issue : Issue, fields : Fields]
    BY <1>2 DEF RebuildWrites, Inv, TypeOK
  <2> DEFINE i == copy.issue
  <2>2. i \in Issue /\ copy.fields \in Fields
    BY <2>1
  <2>3. UNCHANGED <<file, upsets, now, lock, job, known>>
    BY <1>2 DEF RebuildWrites
  <2>4. row' \in [Issue -> Fields] /\ \A k \in Issue : row'[k] = IF k = i THEN copy.fields ELSE row[k]
    BY <1>2, <2>2 DEF RebuildWrites, Inv, TypeOK
  <2>5. missed' = IF copy.fields = file[i] THEN missed \ {i} ELSE missed \cup {i}
    BY <1>2 DEF RebuildWrites
  <2>6. copy' = NoCopy
    BY <1>2 DEF RebuildWrites
  <2>7. TypeOK'
    BY <2>2, <2>3, <2>4, <2>5, <2>6 DEF Inv, TypeOK
  <2>8. Follows'
    <3> SUFFICES ASSUME NEW k \in Issue \ missed' PROVE row'[k] = file[k] \/ Absorbing(k)
      BY <2>3 DEF Follows, Absorbing
    <3>1. CASE k = i
      BY <3>1, <2>4, <2>5
    <3>2. CASE k # i
      BY <3>2, <2>4, <2>5 DEF Inv, Follows
    <3> QED BY <3>1, <3>2
  <2> QED BY <2>3, <2>7, <2>8, DecidedStays DEF Inv
<1> QED BY <1>1, <1>2

(* Time only moves on.                                                     *)
LEMMA TickInv ==
    ASSUME Inv, Tick
    PROVE  Inv'
<1>1. now \in Nat /\ now' = now + 1 /\ now' \in Time
  BY TimesAreNat DEF Inv, TypeOK, Time, Tick
<1>2. UNCHANGED <<file, row, copy, upsets, missed, lock, job, known>>
  BY DEF Tick, index
<1>3. TypeOK'
  BY <1>1, <1>2 DEF Inv, TypeOK
<1>4. Locked' /\ Follows'
  BY <1>2 DEF Inv, Locked, Follows, Absorbing
<1>5. Decided'
  <2> SUFFICES ASSUME NEW t \in Session, known[t] # {}, job[t].at \in {"decided", "locked"}
               PROVE  Guarded(t)'
    BY <1>2 DEF Decided
  <2>1. Guarded(t) /\ job[t].stamp \in Nat
    BY AtWork, TimesAreNat DEF Inv, Decided, Work, Time
  <2>2. (job[t].stamp <= now)'
    BY <2>1, <1>1, <1>2 DEF Guarded
  <2> QED BY <2>1, <2>2, <1>2 DEF Guarded, Plain, HeldByOther, Liveness
<1> QED BY <1>3, <1>4, <1>5 DEF Inv

(* Every step keeps the invariant.                                         *)
LEMMA NextInv == Inv /\ [Next]_vars => Inv'
<1> SUFFICES ASSUME Inv, [Next]_vars PROVE Inv'
  OBVIOUS
<1>1. ASSUME NEW s \in Session, NEW i \in Issue, NEW a \in Actor, NEW opts \in Options,
             Claim(s, i, a, opts)
      PROVE  Inv'
  BY <1>1, ClaimInv
<1>2. ASSUME NEW s \in Session, NEW i \in Issue, NEW status \in InUse, SetStatus(s, i, status)
      PROVE  Inv'
  BY <1>2, SetStatusInv
<1>3. ASSUME NEW s \in Session,
             TakeLock(s) \/ Busy(s) \/ Commit(s) \/ Absorb(s) \/ AbsorbFails(s)
      PROVE  Inv'
  BY <1>3, TakeLockInv, BusyInv, CommitInv, AbsorbInv, AbsorbFailsInv
<1>4. CASE Tick \/ RebuildWrites \/ \E i \in Issue : RebuildReads(i)
  BY <1>4, TickInv, RebuildInv
<1>5. CASE UNCHANGED vars
  <2>1. Locked' /\ Decided'
    BY <1>5, DecidedStays DEF vars
  <2> QED BY <1>5, <2>1 DEF vars, index, Inv, TypeOK, Follows, Absorbing
<1> QED BY <1>1, <1>2, <1>3, <1>4, <1>5 DEF Next

(* What the session that may change an issue at this step has decided.     *)
LEMMA OnlyCommits ==
    ASSUME Inv, [Next]_vars, file' # file
    PROVE  \E s \in Session : Commit(s)
BY DEF Next, vars, Claim, SetStatus, Asks, TakeLock, Busy, Absorb, Absorbed, AbsorbFails,
       RebuildReads, RebuildWrites, Tick

-----------------------------------------------------------------------------
(* The invariant holds.                                                    *)
THEOREM Invariance == Spec => []Inv
BY InitInv, NextInv, PTL DEF Spec

(* Claims, the index, the clock and the lock keep their types.             *)
THEOREM TypeCorrect == Spec => []TypeOK
<1>1. Inv => TypeOK
  BY DEF Inv
<1> QED BY <1>1, Invariance, PTL

(* An undisturbed plain claim or release never replaces another actor's    *)
(* live claim, however many sessions there are, absorbs fail and rebuilds  *)
(* are overtaken: what it read in the index is what HEAD holds when it     *)
(* commits, unless its row had missed a commit.                            *)
THEOREM LiveClaimsKept == Spec => LiveClaimsAreRespected
<1> DEFINE Respected == \A s \in Session, i \in Issue :
                           Undisturbed(s, i) /\ file'[i] # file[i]
                              => ~HeldByOther(file[i], job[s].actor, job[s].stamp)
<1>1. Inv /\ [Next]_vars => [Respected]_vars
  BY DEF Inv, Decided, Guarded, Undisturbed, Claims
<1> HIDE DEF Respected
<1>2. Spec => [][Respected]_vars
  BY <1>1, Invariance, PTL DEF Spec
<1> QED BY <1>2 DEF LiveClaimsAreRespected, Respected

(* A claim is never replaced before its time to live has passed in full,   *)
(* by an undisturbed plain claim of another actor.                         *)
THEOREM TtlGranted == Spec => TtlIsGranted
<1> DEFINE Granted == \A s \in Session, i \in Issue :
                         Undisturbed(s, i) /\ file[i].by \notin {Nobody, job[s].actor}
                            /\ file'[i] # file[i] => now > file[i].at + Ttl
<1>1. Inv => \A s \in Session, i \in Issue :
                Undisturbed(s, i) /\ file[i].by \notin {Nobody, job[s].actor}
                   => now > file[i].at + Ttl
  <2> SUFFICES ASSUME Inv, NEW s \in Session, NEW i \in Issue,
                      Undisturbed(s, i), file[i].by \notin {Nobody, job[s].actor}
               PROVE  now > file[i].at + Ttl
    OBVIOUS
  <2>1. job[s].stamp <= now /\ ~HeldByOther(file[i], job[s].actor, job[s].stamp)
    BY DEF Inv, Decided, Guarded, Undisturbed, Claims
  <2>2. Liveness(file[i], job[s].stamp) # "live"
    BY <2>1 DEF HeldByOther
  <2>3. job[s].stamp > file[i].at + Ttl
    BY <2>2 DEF Liveness
  <2>4. now \in Nat /\ file[i].at \in Nat /\ job[s].stamp \in Nat
    BY AtWork, TimesAreNat DEF Inv, TypeOK, Fields, Work, Time, Undisturbed, Claims
  <2> QED BY <2>1, <2>3, <2>4, TimesAreNat
<1>2. Inv /\ [Next]_vars => [Granted]_vars
  BY <1>1
<1> HIDE DEF Granted
<1>3. Spec => [][Granted]_vars
  BY <1>2, Invariance, PTL DEF Spec
<1> QED BY <1>3 DEF TtlIsGranted, Granted

(* An undisturbed plain claim of work to be picked up commits while all of *)
(* its blockers are done, however they are linked.                         *)
THEOREM BlockersDone == Spec => BlockersAreDone
<1> DEFINE Done == \A s \in Session, i \in Issue :
                      Undisturbed(s, i) /\ job[s].opts = {} /\ file'[i] # file[i]
                         /\ file[i].status \in PickFrom
                            => \A b \in Blockers[i] \cap known[s] : file[b].status = "done"
<1>1. Inv /\ [Next]_vars => [Done]_vars
  BY DEF Inv, Decided, Guarded, Undisturbed, Claims, Satisfied, GateStatuses, Terminal, Exits
<1> HIDE DEF Done
<1>2. Spec => [][Done]_vars
  BY <1>1, Invariance, PTL DEF Spec
<1> QED BY <1>2 DEF BlockersAreDone, Done

(* A claim never changes a status and a status edit never changes a holder,*)
(* whatever the two sessions saw when they decided.                        *)
THEOREM EditsStayApart == Spec => EditsDoNotCross
<1> DEFINE Apart == \A i \in Issue :
              /\ file'[i].status # file[i].status
                   => \E s \in Session : /\ lock = s /\ job[s].at = "locked" /\ job[s].issue = i
                                         /\ job[s].op = "status" /\ job[s].status = file'[i].status
              /\ file'[i].by # file[i].by
                   => \E s \in Session : lock = s /\ Claims(s, i)
<1>1. ASSUME Inv, NEW s \in Session, Commit(s) PROVE Apart
  <2>1. job[s] \in Work /\ job[s].at = "locked" /\ lock = s
    BY <1>1, AtWork DEF Inv, Locked, Commit
  <2> SUFFICES ASSUME NEW i \in Issue, file'[i] # file[i]
               PROVE  /\ file'[i].status # file[i].status
                           => job[s].issue = i /\ job[s].op = "status" /\ job[s].status = file'[i].status
                      /\ file'[i].by # file[i].by => Claims(s, i)
    BY <2>1
  <2>2. job[s].issue = i /\ file'[i] = Patched(file[i], job[s]) /\ file[i] \in Fields
    BY <1>1 DEF Inv, TypeOK, Commit
  <2>3. CASE job[s].op = "status"
    BY <2>1, <2>2, <2>3 DEF Patched, Fields
  <2>4. CASE job[s].op = "claim"
    BY <2>1, <2>2, <2>4 DEF Patched, Fields, Claims
  <2>5. CASE job[s].op = "release"
    BY <2>1, <2>2, <2>5 DEF Patched, Fields, Claims
  <2> QED BY <2>1, <2>3, <2>4, <2>5 DEF Work
<1>2. file' = file => Apart
  OBVIOUS
<1> HIDE DEF Apart
<1>3. Inv /\ [Next]_vars => [Apart]_vars
  BY <1>1, <1>2, OnlyCommits
<1>4. Spec => [][Apart]_vars
  BY <1>3, Invariance, PTL DEF Spec
<1> QED BY <1>4 DEF EditsDoNotCross, Apart
=============================================================================
