----------------------------- MODULE MergeDriver -----------------------------
(***************************************************************************)
(* One invocation of `dit merge-driver' by git: it finds out which kind of *)
(* merge is running, reads three versions of a file, merges them, writes   *)
(* the result over ours and exits 0 if nothing is left for a human.  On    *)
(* any failure it writes the three versions between markers and exits 1.   *)
(* The body's merge is a choice here: clean or conflicted.                 *)
(*                                                                         *)
(* Git is external.  While `git merge' or `git rebase' runs the driver,    *)
(* MERGE_HEAD is not written yet and the index has no stage 1 entries;     *)
(* both exist when `git checkout --merge' runs it again on a conflict.     *)
(*                                                                         *)
(* Code: dit-vcs/src/merge_driver.rs (drive_with, context_from_cwd).       *)
(***************************************************************************)
EXTENDS FieldMerge

CONSTANTS
    Documents,   \* the frontmatter of a version, by key
    GitShows,    \* what git's state may show the driver
    Kinds        \* what a version of the file may be

ASSUME DriverAssumption ==
    /\ \A d \in Documents : DOMAIN d = Keys /\ \A k \in Keys : d[k] \in Value
    /\ GitShows \subseteq SUBSET {"MERGE_HEAD", "stage1"}
    /\ Kinds \subseteq {"doc", "broken", "unreadable"}
    /\ LegalAreSteps

VARIABLES
    op,       \* "merge" or "rebase"
    newer,    \* the side whose head commit has the later date
    shown,    \* of MERGE_HEAD and the base stage, what git shows
    files,    \* the three versions
    pc,
    result,   \* what is to be written
    disk,     \* the file git takes as the result
    exit

git  == <<op, newer, shown>>
driverVars == <<git, files, pc, result, disk, exit>>

Blank == [k \in Keys |-> Missing]

(* Only a document's contents are told apart.                              *)
File == ([kind : Kinds \cap {"doc"}, doc : Documents]) \cup [kind : Kinds \ {"doc"}, doc : {Blank}]

Running == 255                     \* no exit code yet
Nothing == [kind |-> "nothing"]
AsOurs  == [kind |-> "ours"]       \* ours, untouched
Partial == [kind |-> "partial"]    \* truncated by a write that failed

DriverTypeOK ==
    /\ op \in {"merge", "rebase"} /\ newer \in Sides /\ shown \in GitShows
    /\ files \in [{"base", "ours", "theirs"} -> File]
    /\ pc \in {"read", "merge", "fallback", "write", "done"}
    /\ result.kind \in {"nothing", "merged", "whole"}
    /\ disk.kind \in {"ours", "partial", "merged", "whole"}
    /\ exit \in {0, 1, Running}

DriverInit ==
    /\ op \in {"merge", "rebase"} /\ newer \in Sides /\ shown \in GitShows
    /\ files \in [{"base", "ours", "theirs"} -> File]
    /\ pc = "read" /\ result = Nothing /\ disk = AsOurs /\ exit = Running

(* context_from_cwd, and the mutant that forgets that a rebase turns the   *)
(* sides round.                                                            *)
MergeContext_Ours ==
    IF "MERGE_HEAD" \in shown
    THEN [DefaultContext EXCEPT !.newer = newer, !.workflow = "stage1" \in shown]
    ELSE DefaultContext

MergeContext ==
    IF op = "rebase"
    THEN [DefaultContext EXCEPT !.local = "theirs", !.newer = "theirs",
                                !.workflow = "stage1" \in shown]
    ELSE IF "MERGE_HEAD" \in shown
    THEN [DefaultContext EXCEPT !.newer = newer, !.workflow = "stage1" \in shown]
    ELSE DefaultContext

(* A base that cannot be read is an empty one: the add/add case.           *)
Base == IF files["base"].kind = "unreadable" THEN Blank ELSE files["base"].doc

Read ==
    /\ pc = "read"
    /\ pc' = IF \E s \in Sides : files[s].kind = "unreadable" THEN "fallback" ELSE "merge"
    /\ UNCHANGED <<git, files, result, disk, exit>>

Merge ==
    /\ pc = "merge"
    /\ IF \E f \in DOMAIN files : files[f].kind = "broken"
       THEN pc' = "fallback" /\ UNCHANGED result
       ELSE /\ pc' = "write"
            /\ \E body \in {"clean", "conflicted"} :
                  result' = [kind |-> "merged", body |-> body,
                             doc |-> MergeDocuments(Base, files["ours"].doc,
                                                    files["theirs"].doc, MergeContext)]
    /\ UNCHANGED <<git, files, disk, exit>>

Panic ==
    /\ pc = "merge"
    /\ pc' = "fallback"
    /\ UNCHANGED <<git, files, result, disk, exit>>

TextOf(f) == IF f.kind = "unreadable" THEN Nothing ELSE f

Fallback ==
    /\ pc = "fallback"
    /\ result' = [kind |-> "whole", ours |-> TextOf(files["ours"]),
                  base |-> TextOf(files["base"]), theirs |-> TextOf(files["theirs"])]
    /\ pc' = "write"
    /\ UNCHANGED <<git, files, disk, exit>>

Settled == result.kind = "merged" /\ result.body = "clean" /\ IsClean(result.doc)

Write ==
    /\ pc = "write"
    /\ disk' = result
    /\ exit' = IF Settled THEN 0 ELSE 1
    /\ pc' = "done"
    /\ UNCHANGED <<git, files, result>>

WriteFails ==
    /\ pc = "write"
    /\ disk' \in {AsOurs, Partial}
    /\ exit' = 1 /\ pc' = "done"
    /\ UNCHANGED <<git, files, result>>

DriverNext == Read \/ Merge \/ Panic \/ Fallback \/ Write \/ WriteFails

DriverSpec == DriverInit /\ [][DriverNext]_driverVars /\ WF_driverVars(DriverNext)

-----------------------------------------------------------------------------
(* PROPERTIES                                                              *)

BaseOf(k)   == Base[k]
OursOf(k)   == files["ours"].doc[k]
TheirsOf(k) == files["theirs"].doc[k]

(* A merge git takes as resolved holds every edit only one side made, the  *)
(* additions to a list of both sides without the removals of either, and   *)
(* for a value both changed, one of the two; never anything else.          *)
ResolvedKeepsEdits ==
    exit = 0 =>
        \A k \in Keys :
            LET b == BaseOf(k)  o == OursOf(k)  t == TheirsOf(k)  m == disk.doc[k]
                was == IF b.shape = "seq" THEN ToSet(b.v) ELSE {}
            IN  IF o # b /\ t # b
                THEN IF o.shape = "seq" /\ t.shape = "seq"
                     THEN /\ m.shape = "seq"
                          /\ ToSet(m.v) = (ToSet(o.v) \cap ToSet(t.v))
                                          \cup (ToSet(o.v) \ was) \cup (ToSet(t.v) \ was)
                     ELSE m \in {o, t}
                ELSE m = IF t = b THEN o ELSE t

(* ADR 0016: "if two actors asserted concurrently, that is a fact both     *)
(* must see, not a race to be resolved by commit order"; unless both wrote *)
(* a list of claims by hand, which merges as any list.                     *)
ClaimsAreNotSettled ==
    exit = 0 =>
        \A k \in Keys \cap {"claimed_by", "claimed_at"} :
            \/ OursOf(k) = TheirsOf(k) \/ BaseOf(k) \in {OursOf(k), TheirsOf(k)}
            \/ OursOf(k).shape = "seq" /\ TheirsOf(k).shape = "seq"

(* "If anything at all goes wrong ... the driver still writes full diff3   *)
(* conflict markers into the output file and exits 1": ours is not left as *)
(* it was unless the file could not be written, and both sides that could  *)
(* be read are between the markers.                                        *)
FailureIsLoud ==
    exit = 1 /\ disk.kind # "partial" =>
        \/ result.kind # "nothing" /\ disk = AsOurs     \* the write failed
        \/ disk.kind = "merged" /\ ~Settled
        \/ /\ disk.kind = "whole"
           /\ disk.ours = TextOf(files["ours"]) /\ disk.theirs = TextOf(files["theirs"])

(* Which file git calls ours decides nothing: with the sides and the       *)
(* context turned round the same fields conflict, and the others have the  *)
(* same values, lists up to their order.                                   *)
Turned(ctx) == [ctx EXCEPT !.local = Flip(@), !.newer = Flip(@)]
Same(x, y)  == x.shape = y.shape /\ ToSet(x.v) = ToSet(y.v)

MergeIsSymmetric ==
    result.kind = "merged" =>
        \A k \in Keys :
            Same(result.doc[k],
                 MergeDocuments(Base, files["theirs"].doc, files["ours"].doc,
                                Turned(MergeContext))[k])

(* "Our own commits are replayed on top of upstream, so they are the       *)
(* newest": in a rebase a scalar changed on both sides keeps the value of  *)
(* the replayed commit, which git hands over as theirs.                    *)
RebaseKeepsReplayed ==
    exit = 0 /\ op = "rebase" =>
        \A k \in Keys \ {"updated"} :
            TheirsOf(k).shape = "scalar" /\ TheirsOf(k) # BaseOf(k)
               => disk.doc[k] = TheirsOf(k)

(* Together: no merge is taken as resolved that a person would have to     *)
(* look at, and none depends on which side git calls ours.                 *)
MergesAreRight ==
    /\ ResolvedKeepsEdits /\ ClaimsAreNotSettled /\ RebaseKeepsReplayed
    /\ FailureIsLoud /\ MergeIsSymmetric
=============================================================================
