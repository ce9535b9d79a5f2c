----------------------------- MODULE FieldMerge -----------------------------
(***************************************************************************)
(* The three-way merge of an issue's frontmatter, field by field.  A value *)
(* is a scalar, a list, a nested mapping or nothing; scalars and items are *)
(* numbers, a scalar 0 is one that does not parse as a timestamp.  A       *)
(* document is a function from keys to values; comments and key order are  *)
(* left out.                                                               *)
(*                                                                         *)
(* Code: dit-vcs/src/merge_driver.rs (merge_documents and what it calls).  *)
(***************************************************************************)
EXTENDS Naturals, FiniteSets, SequencesExt

CONSTANTS
    Keys,     \* the frontmatter keys
    Legal     \* the legal status steps, as pairs, of the workflow

LegalAreSteps == Legal \subseteq Nat \X Nat

Missing   == [shape |-> "missing", v |-> <<>>]
Scalar(n) == [shape |-> "scalar", v |-> <<n>>]
List(s)   == [shape |-> "seq", v |-> s]
Map(n)    == [shape |-> "map", v |-> <<n>>]
Marked    == [shape |-> "marked", v |-> <<>>]    \* conflict markers

(* What may stand behind a key: a scalar and a mapping are one number.     *)
Value == {x \in [shape : {"missing", "scalar", "seq", "map"}, v : Seq(Nat)] :
             x.shape # "seq" => Len(x.v) = IF x.shape = "missing" THEN 0 ELSE 1}

Sides == {"ours", "theirs"}
Flip(side) == IF side = "ours" THEN "theirs" ELSE "ours"

(* What the driver knows of the merge: whose edits are local, which side   *)
(* git considers newer, the policies, and whether it found the workflow.   *)
Policies == {"commit_order", "prefer_local", "prefer_incoming", "conflict"}

Contexts == [local : Sides, newer : Sides, policies : [Keys -> Policies], workflow : BOOLEAN]

DefaultContext ==
    [local |-> "ours", newer |-> "ours", workflow |-> FALSE,
     policies |-> [k \in Keys |-> "commit_order"]]

-----------------------------------------------------------------------------
(* The number of a set that has k - 1 of them below it.                    *)
Nth(S, k) == CHOOSE i \in S : Cardinality({j \in S : j < i}) = k - 1

(* base, then ours, then theirs, each item once, without what either side  *)
(* removed from the base.                                                  *)
SetMerge_KeepsRemoved(base, ours, theirs) ==
    LET all   == base \o ours \o theirs
        First == {i \in DOMAIN all : \A j \in 1..(i - 1) : all[j] # all[i]}
    IN  [k \in 1..Cardinality(First) |-> all[Nth(First, k)]]

SetMerge(base, ours, theirs) ==
    LET all   == base \o ours \o theirs
        Removed(x) == /\ x \in ToSet(base)
                      /\ x \notin ToSet(ours) \/ x \notin ToSet(theirs)
        First == {i \in DOMAIN all : /\ \A j \in 1..(i - 1) : all[j] # all[i]
                                     /\ ~Removed(all[i])}
    IN  [k \in 1..Cardinality(First) |-> all[Nth(First, k)]]

(* ADR 0016: a claim is never settled by an order of commits.              *)
FieldPolicy_NoBuiltin(key, ctx) == ctx.policies[key]

FieldPolicy(key, ctx) ==
    IF key \in {"claimed_by", "claimed_at"} THEN "conflict" ELSE ctx.policies[key]

Winner(key, ctx) ==
    CASE FieldPolicy(key, ctx) = "commit_order"    -> ctx.newer
      [] FieldPolicy(key, ctx) = "prefer_local"    -> ctx.local
      [] FieldPolicy(key, ctx) = "prefer_incoming" -> Flip(ctx.local)

IsTime(x) == x.shape = "scalar" /\ x.v # <<0>>
IsCollection(x) == x.shape \in {"seq", "map"}

DoubleEdit(key, b, o, t, ctx) ==
    CASE key = "updated" /\ IsTime(o) /\ IsTime(t) ->
            IF o.v[1] >= t.v[1] THEN o ELSE t
      [] o.shape = "seq" /\ t.shape = "seq" ->
            List(SetMerge(IF b.shape = "seq" THEN b.v ELSE <<>>, o.v, t.v))
      [] \/ o.shape = "map" /\ t.shape = "map"
         \/ o.shape # t.shape /\ (IsCollection(o) \/ IsCollection(t)) -> Marked
      [] OTHER ->
            IF FieldPolicy(key, ctx) = "conflict" THEN Marked
            ELSE IF Winner(key, ctx) = "ours" THEN o ELSE t

MergeField(key, b, o, t, ctx) ==
    IF o = t THEN o
    ELSE IF o = b THEN t
    ELSE IF t = b THEN o
    ELSE DoubleEdit(key, b, o, t, ctx)

(* The merged status must be a legal step from the base's.                 *)
IllegalStatus(from, to, ctx) ==
    /\ ctx.workflow
    /\ from.shape = "scalar" /\ to.shape = "scalar" /\ from # to
    /\ <<from.v[1], to.v[1]>> \notin Legal

MergeDocuments(b, o, t, ctx) ==
    [k \in Keys |->
        LET merged == MergeField(k, b[k], o[k], t[k], ctx)
        IN  IF k = "status" /\ IllegalStatus(b[k], merged, ctx) THEN Marked ELSE merged]

IsClean(doc) == \A k \in Keys : doc[k] # Marked
=============================================================================
