---------------------------- MODULE AtomicCommit ----------------------------
(***************************************************************************)
(* What a DIT write promises its callers: it plans file contents, then     *)
(* either one commit with exactly the planned contents appears on top of   *)
(* the commit that was there when it began, and the files say the same, or *)
(* nothing happens at all.  One write at a time.  The promise has one      *)
(* hole: a commit that lands though the write is answered with an error,   *)
(* and the files are as before it.                                         *)
(***************************************************************************)
CONSTANTS Process, Path, Content, Absent, NoPlan

VARIABLES
    head,       \* the tree of HEAD
    plan,       \* what each process plans to write: a partial tree, or NoPlan
    shown       \* the working tree, as other tools see it between writes

vars == <<head, plan, shown>>

Tree     == [Path -> Content]
Over(t, f) == [x \in Path |-> IF x \in DOMAIN f THEN f[x] ELSE t[x]]
Put(f, x, c) == [y \in DOMAIN f \cup {x} |-> IF y = x THEN c ELSE f[y]]

Init ==
    /\ head \in Tree
    /\ shown = head
    /\ plan = [p \in Process |-> NoPlan]

(* Nobody else is writing. *)
Open(p) ==
    /\ \A q \in Process : plan[q] = NoPlan
    /\ plan' = [plan EXCEPT ![p] = [x \in {} |-> head[x]]]
    /\ UNCHANGED <<head, shown>>

(* Plan a file's new contents, or its removal. *)
Change(p, x, c) ==
    /\ plan[p] # NoPlan
    /\ plan' = [plan EXCEPT ![p] = Put(@, x, c)]
    /\ UNCHANGED <<head, shown>>

(* Plan a file's new place, which must be free. *)
Relocate(p, x, y, c) ==
    /\ plan[p] # NoPlan
    /\ y \notin DOMAIN plan[p] /\ shown[y] = Absent
    /\ plan' = [plan EXCEPT ![p] = Put(Put(@, y, c), x, Absent)]
    /\ UNCHANGED <<head, shown>>

(* The commit: all of the plan and nothing else. *)
Commits(p) ==
    /\ plan[p] # NoPlan
    /\ head' = Over(head, plan[p])
    /\ plan' = [plan EXCEPT ![p] = NoPlan]

Publish(p)       == Commits(p) /\ shown' = Over(shown, plan[p])
PublishUnseen(p) == Commits(p) /\ UNCHANGED shown

(* An error, an abort, or an empty plan. *)
Abandon(p) ==
    /\ plan[p] # NoPlan
    /\ plan' = [plan EXCEPT ![p] = NoPlan]
    /\ UNCHANGED <<head, shown>>

Next == \E p \in Process :
    \/ Open(p) \/ Publish(p) \/ PublishUnseen(p) \/ Abandon(p)
    \/ \E x \in Path, c \in Content :
         Change(p, x, c) \/ \E y \in Path \ {x} : Relocate(p, x, y, c)

Spec == Init /\ [][Next]_vars
=============================================================================
