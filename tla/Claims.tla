------------------------------- MODULE Claims -------------------------------
(***************************************************************************)
(* Claims: actors (people, agents) assert exclusive intent on an issue.    *)
(* `Dit::claim' reads the index and the clock, runs its guards, and only   *)
(* then takes the workspace lock, patches `claimed_by' and `claimed_at',   *)
(* commits, and absorbs the commit into the index.  A failed absorb is     *)
(* only logged, and a rebuild of the index that a commit overtook writes   *)
(* what it read before: either leaves an old row, and calls decide on it   *)
(* until the issue is absorbed or rebuilt again.  A session is a sequence  *)
(* of calls made one after the other: a server's, whose alias may be       *)
(* changed in its settings, or commands run in turn under various aliases. *)
(* Two sessions overlap: a server and a terminal, or two agents' terminals.*)
(*                                                                         *)
(* Code: dit-core/src/lib.rs (claim), dit-model/src/readiness.rs,          *)
(* dit-model/src/workflow.rs, docs/adr/0015.                               *)
(***************************************************************************)
EXTENDS Naturals, Sequences

CONSTANTS
    Session,     \* the open workspaces
    Actor,       \* the aliases claims are made under
    Issue,
    Blockers,    \* blocked_by: for each issue, the issues it waits for
    InUse,       \* the statuses issues are moved between
    Options,     \* the sets of flags claims are made with
    Nobody,      \* no claim; no lock holder
    Ttl,         \* claim_ttl_minutes
    MaxTime,     \* bound: minutes
    MaxUpsets    \* bound: absorbs that fail and rebuilds that begin

Flags == {"release", "renew", "takeover", "force"}

(* The default workflow, in declaration order.                             *)
Statuses == <<"backlog", "todo", "in_progress", "review", "done", "cancelled">>
PickFrom == {"backlog", "todo"}              \* category: todo
Terminal == {"done", "cancelled"}
Exits    == {"cancelled"}                    \* targets of `from: ["*"]'

ASSUME NobodyIsNobody == Nobody \notin Session \cup Actor
ASSUME FlagsAreKnown  == Options \subseteq SUBSET Flags
ASSUME InUseIsKnown   == \A s \in InUse : \E k \in DOMAIN Statuses : Statuses[k] = s
ASSUME BlockersAreIssues == Blockers \in [Issue -> SUBSET Issue]
ASSUME TimesAreNat    == Ttl \in Nat /\ MaxTime \in Nat /\ MaxUpsets \in Nat

VARIABLES
    file,    \* the issues at HEAD
    row,     \* the issues as the index shows them
    now,     \* the clock
    lock,    \* who holds the workspace lock
    job,     \* what each session is doing
    copy,    \* the issue a rebuild of the index has read and not yet written
    upsets,
    missed,  \* ghost: issues a failed absorb or an overtaken rebuild left old
    known    \* ghost: issues whose row was not missed when the call looked,
             \* none once another session held the lock

index == <<row, copy, upsets, missed>>
vars  == <<file, index, now, lock, job, known>>

Time   == 0..MaxTime
Fields == [by : Actor \cup {Nobody}, at : Time, status : InUse]
Idle   == [at |-> "idle"]
NoCopy == [fields |-> "none"]
Work   == [at : {"decided", "locked"}, issue : Issue, op : {"claim", "release", "status"},
           status : InUse, actor : Actor \cup {Nobody}, opts : Options \cup {{}}, stamp : Time]
Landed == [at : {"absorb"}, issue : Issue]
Jobs   == {Idle} \cup Work \cup Landed

TypeOK ==
    /\ file \in [Issue -> Fields] /\ row \in [Issue -> Fields]
    /\ now \in Time
    /\ lock \in Session \cup {Nobody}
    /\ job \in [Session -> Jobs]
    /\ copy \in {NoCopy} \cup [issue : Issue, fields : Fields]
    /\ missed \in SUBSET Issue /\ upsets \in 0..MaxUpsets
    /\ known \in [Session -> SUBSET Issue]

Init ==
    /\ file \in [Issue -> [by : {Nobody}, at : {0}, status : InUse]]
    /\ row = file
    /\ now = 0 /\ lock = Nobody
    /\ job = [s \in Session |-> Idle]
    /\ copy = NoCopy /\ missed = {} /\ upsets = 0
    /\ known = [s \in Session |-> {}]

-----------------------------------------------------------------------------
(* Pure judgments (readiness.rs).  The gate is the terminal one.           *)

GateStatuses == Terminal \ Exits
Satisfied(status) == status \in GateStatuses

Readiness(view, i) ==
    IF view[i].status \notin PickFrom THEN "not_pickable"
    ELSE IF \A b \in Blockers[i] : Satisfied(view[b].status) THEN "ready"
    ELSE "blocked"

(* A claim is live up to and at its TTL.                                   *)
Liveness_Strict(f, t) ==
    IF f.by = Nobody THEN "none" ELSE IF t >= f.at + Ttl THEN "stale" ELSE "live"

Liveness(f, t) ==
    IF f.by = Nobody THEN "none" ELSE IF t > f.at + Ttl THEN "stale" ELSE "live"

HeldByOther(f, a, t) == f.by \notin {a, Nobody} /\ Liveness(f, t) = "live"

-----------------------------------------------------------------------------
(* What `claim' decides from the index and the clock.                      *)

MayRelease(i, a, opts) ==
    HeldByOther(row[i], a, now) => "force" \in opts

ReadinessAllows_TerminalOnly(i, opts) ==
    "renew" \in opts \/ row[i].status \notin Terminal

ReadinessAllows(i, opts) ==
    \/ "renew" \in opts
    \/ /\ row[i].status \notin Terminal
       /\ Readiness(row, i) = "blocked" => "force" \in opts

HolderAllows(i, a, opts) ==
    LET f == row[i]
        named == "takeover" \in opts \/ "force" \in opts
    IN  CASE f.by # a /\ Liveness(f, now) = "live"  -> named
          [] f.by # a /\ Liveness(f, now) = "stale" -> "renew" \in opts => named
          [] f.by = a /\ Liveness(f, now) = "live"  -> "renew" \in opts \/ "force" \in opts
          [] OTHER                                  -> TRUE

Verdict(i, a, opts) ==
    IF "release" \in opts
    THEN IF MayRelease(i, a, opts) THEN "release" ELSE "refused"
    ELSE IF ReadinessAllows(i, opts) /\ HolderAllows(i, a, opts) THEN "claim" ELSE "refused"

Asks(s, j) ==
    /\ job[s] = Idle
    /\ job' = [job EXCEPT ![s] = j]
    /\ known' = [known EXCEPT ![s] = IF lock = Nobody THEN Issue \ missed ELSE {}]
    /\ UNCHANGED <<file, index, now, lock>>

Claim(s, i, a, opts) ==
    /\ Verdict(i, a, opts) # "refused"
    /\ Asks(s, [at |-> "decided", issue |-> i, op |-> Verdict(i, a, opts),
                status |-> row[i].status, actor |-> a, opts |-> opts, stamp |-> now])

(* `dit issue set status=...', or a card dragged on the board.             *)
SetStatus(s, i, status) ==
    Asks(s, [at |-> "decided", issue |-> i, op |-> "status",
             status |-> status, actor |-> Nobody, opts |-> {}, stamp |-> 0])

-----------------------------------------------------------------------------
(* The transaction.  The patch is applied to the file on disk, and touches *)
(* the named fields only.                                                  *)

TakeLock(s) ==
    /\ job[s].at = "decided" /\ lock = Nobody
    /\ lock' = s
    /\ job' = [job EXCEPT ![s].at = "locked"]
    /\ known' = [t \in Session |-> IF t = s THEN known[s] ELSE {}]
    /\ UNCHANGED <<file, index, now>>

Ends(s) ==
    /\ job' = [job EXCEPT ![s] = Idle]
    /\ known' = [known EXCEPT ![s] = {}]

Busy(s) ==
    /\ job[s].at = "decided" /\ lock # Nobody
    /\ Ends(s)
    /\ UNCHANGED <<file, index, now, lock>>

(* The whole issue, as the index showed it when the claim was decided.     *)
Patched_WholeIssue(f, j) ==
    CASE j.op = "claim"   -> [by |-> j.actor, at |-> j.stamp, status |-> j.status]
      [] j.op = "release" -> [f EXCEPT !.by = Nobody, !.at = 0]
      [] j.op = "status"  -> [f EXCEPT !.status = j.status]

Patched(f, j) ==
    CASE j.op = "claim"   -> [f EXCEPT !.by = j.actor, !.at = j.stamp]
      [] j.op = "release" -> [f EXCEPT !.by = Nobody, !.at = 0]
      [] j.op = "status"  -> [f EXCEPT !.status = j.status]

Commit(s) ==
    /\ job[s].at = "locked"
    /\ file' = [file EXCEPT ![job[s].issue] = Patched(@, job[s])]
    /\ job' = [job EXCEPT ![s] = [at |-> "absorb", issue |-> job[s].issue]]
    /\ known' = [known EXCEPT ![s] = {}]
    /\ UNCHANGED <<index, now, lock>>

Absorbed(s, rows) ==
    /\ job[s].at = "absorb"
    /\ row' = rows
    /\ missed' = missed \ {job[s].issue}
    /\ lock' = Nobody /\ Ends(s)
    /\ UNCHANGED <<file, copy, upsets, now>>

Absorb_Skipped(s) == Absorbed(s, row)       \* mutant: the row is not written

Absorb(s) == Absorbed(s, [row EXCEPT ![job[s].issue] = file[job[s].issue]])

Upset == upsets < MaxUpsets /\ upsets' = upsets + 1

(* The commit stands, the failure is logged, the call succeeds.            *)
AbsorbFails(s) ==
    /\ job[s].at = "absorb" /\ Upset
    /\ missed' = missed \cup {job[s].issue}
    /\ lock' = Nobody /\ Ends(s)
    /\ UNCHANGED <<file, row, copy, now>>

(* A rebuild (`dit reindex', opening a workspace, a watcher) takes the     *)
(* issues one by one and no lock: one is read, then its row is written.    *)
(* (The rows it has wiped are left out: a call that finds none is refused, *)
(* and a blocker that has none counts as broken.)                          *)
RebuildReads(i) ==
    /\ copy = NoCopy /\ Upset
    /\ copy' = [issue |-> i, fields |-> file[i]]
    /\ UNCHANGED <<file, row, missed, now, lock, job, known>>

RebuildWrites ==
    /\ copy # NoCopy
    /\ row' = [row EXCEPT ![copy.issue] = copy.fields]
    /\ missed' = IF copy.fields = file[copy.issue] THEN missed \ {copy.issue}
                                                   ELSE missed \cup {copy.issue}
    /\ copy' = NoCopy
    /\ UNCHANGED <<file, upsets, now, lock, job, known>>

Tick == now < MaxTime /\ now' = now + 1 /\ UNCHANGED <<file, index, lock, job, known>>

Next ==
    \/ \E s \in Session, i \in Issue :
          \/ \E a \in Actor, opts \in Options : Claim(s, i, a, opts)
          \/ \E status \in InUse : SetStatus(s, i, status)
    \/ \E s \in Session : TakeLock(s) \/ Busy(s) \/ Commit(s) \/ Absorb(s) \/ AbsorbFails(s)
    \/ \E i \in Issue : RebuildReads(i)
    \/ RebuildWrites
    \/ Tick

Spec == Init /\ [][Next]_vars

-----------------------------------------------------------------------------
(* PROPERTIES                                                              *)

Claims(s, i) == job[s].at = "locked" /\ job[s].op # "status" /\ job[s].issue = i
Plain(s)     == IF job[s].op = "claim" THEN job[s].opts \cap {"takeover", "force"} = {}
                                       ELSE "force" \notin job[s].opts

(* No call of another session held the lock from the moment this one was   *)
(* decided on to its commit, and the row it was decided on was none that a *)
(* failed absorb or an overtaken rebuild had left old.                     *)
Undisturbed(s, i) == Claims(s, i) /\ Plain(s) /\ i \in known[s]

(* ADR 0015: `claim' refuses "an issue another actor holds a live claim    *)
(* on".  No claim or release made without a named way out, and not         *)
(* overlapped by another session's write, replaces another actor's claim   *)
(* that was live when it was asked for, whoever wrote that claim, with one *)
(* exception: an issue whose row missed a commit.                          *)
LiveClaimsAreRespected ==
    [][\A s \in Session, i \in Issue :
         Undisturbed(s, i) /\ file'[i] # file[i]
            => ~HeldByOther(file[i], job[s].actor, job[s].stamp)]_vars

(* The holder of a stale claim has lost nothing it was promised: a plain   *)
(* claim by another replaces a claim only when the TTL has passed in full  *)
(* since it was asserted (liveness_respects_the_ttl_and_ignores_...).      *)
TtlIsGranted ==
    [][\A s \in Session, i \in Issue :
         Undisturbed(s, i) /\ file[i].by \notin {Nobody, job[s].actor}
            /\ file'[i] # file[i] => now > file[i].at + Ttl]_vars

(* ADR 0015: a claim is refused on "an issue with unsatisfied or broken    *)
(* blockers", and a cancelled blocker does not satisfy.  A plain claim of  *)
(* work that is still to be picked up, undisturbed, commits while every    *)
(* blocker is done, unless the row of one of them missed a commit.         *)
BlockersAreDone ==
    [][\A s \in Session, i \in Issue :
         Undisturbed(s, i) /\ job[s].opts = {} /\ file'[i] # file[i] /\ file[i].status \in PickFrom
            => \A b \in Blockers[i] \cap known[s] : file[b].status = "done"]_vars

(* Two sessions that decide on the same view of an issue and then take the *)
(* lock in turn lose nothing of each other's: only a status edit changes   *)
(* the status, to the value it asked for, and only a claim or a release    *)
(* changes the holder.  set_fields patches the file under the lock, not    *)
(* the row it was decided on.                                              *)
EditsDoNotCross ==
    [][\A i \in Issue :
         /\ file'[i].status # file[i].status
              => \E s \in Session : /\ lock = s /\ job[s].at = "locked" /\ job[s].issue = i
                                    /\ job[s].op = "status" /\ job[s].status = file'[i].status
         /\ file'[i].by # file[i].by
              => \E s \in Session : lock = s /\ Claims(s, i)]_vars

(* The refusals of `claim' as its comment states them, for calls that may  *)
(* overlap: "an issue another actor holds live is refused with the way out *)
(* named".  The guards run before the lock is taken and not again under it.*)
NoLiveClaimIsReplaced ==
    [][\A s \in Session, i \in Issue :
         Claims(s, i) /\ Plain(s) /\ file'[i] # file[i]
            => ~HeldByOther(file[i], job[s].actor, job[s].stamp)]_vars
=============================================================================
