----------------------------- MODULE BodyMerge -----------------------------
(***************************************************************************)
(* The merge of two edits of one markdown body: diff3_merge of             *)
(* dit-vcs/src/merge_driver.rs.  A body is its lines; each side is         *)
(* compared with the base, and the edits of both are walked in step, those *)
(* that overlap or touch as one region.                                    *)
(*                                                                         *)
(* Which lines the comparison (the `similar' library) takes for the same   *)
(* is not assumed: any way of matching equal lines in order is one.        *)
(***************************************************************************)
EXTENDS Naturals, Sequences, SequencesExt, FiniteSets, FiniteSetsExt

(* External: the ways to match lines of base with lines of other, as pairs *)
(* of positions that grow together.                                        *)
Matchings(base, other) ==
    LET pairs == {<<i, j>> \in (DOMAIN base) \X (DOMAIN other) : base[i] = other[j]}
    IN  {m \in SUBSET pairs : \A p, q \in m :
            p # q => \/ p[1] < q[1] /\ p[2] < q[2]
                     \/ q[1] < p[1] /\ q[2] < p[2]}

(* line_edits: what lies between two matches replaces base[start, end).    *)
LineEdits(base, other, matching) ==
    LET ends  == {<<0, 0>>, <<Len(base) + 1, Len(other) + 1>>}
        order == SetToSortSeq(matching \union ends, LAMBDA p, q : p[1] < q[1])
        gap(n) == [start |-> order[n][1], end |-> order[n + 1][1] - 1,
                   repl  |-> SubSeq(other, order[n][2] + 1, order[n + 1][2] - 1)]
    IN  SelectSeq([n \in 1..(Len(order) - 1) |-> gap(n)],
                  LAMBDA e : e.start < e.end \/ e.repl # <<>>)

(* The base lines [from, to).                                              *)
Lines(base, from, to) == SubSeq(base, from + 1, to)

(* render, shift_edits: the region with the edits of one side in it.       *)
Render(base, start, end, edits) ==
    LET last == Len(edits)
        from(n) == IF n = 0 THEN start ELSE edits[n].end
        to(n)   == IF n = last THEN end ELSE edits[n + 1].start
        text(n) == (IF n = 0 THEN <<>> ELSE edits[n].repl) \o Lines(base, from(n), to(n))
    IN  FlattenSeq([n \in 1..(last + 1) |-> text(n - 1)])

(* The region grows while an edit of either side starts at or before its   *)
(* end; at is the next edit of ours and of theirs, and that end.           *)
Takes(edits, n, end) == n <= Len(edits) /\ edits[n].start <= end

RECURSIVE Grow(_, _, _)
Grow(oe, te, at) ==
    LET o == IF Takes(oe, at.ours, at.end)
             THEN [at EXCEPT !.ours = @ + 1, !.end = Max({@, oe[at.ours].end})] ELSE at
        t == IF Takes(te, o.theirs, o.end)
             THEN [o EXCEPT !.theirs = @ + 1, !.end = Max({@, te[o.theirs].end})] ELSE o
    IN  IF t = at THEN at ELSE Grow(oe, te, t)

Start(oe, te, ours, theirs) ==
    IF ours <= Len(oe) /\ (theirs > Len(te) \/ oe[ours].start <= te[theirs].start)
    THEN oe[ours].start ELSE te[theirs].start

Kind(ours, theirs, oEdits, tEdits) ==
    IF oEdits = <<>> THEN "theirs"
    ELSE IF tEdits = <<>> \/ ours = theirs THEN "ours"
    ELSE "conflict"

(* The result, chunk by chunk: the base lines up to a region, then it.     *)
RECURSIVE Chunks(_, _, _, _, _, _)
Chunks(base, oe, te, pos, ours, theirs) ==
    IF ours > Len(oe) /\ theirs > Len(te)
    THEN LET rest == Lines(base, pos, Len(base))
         IN  <<[kind |-> "kept", base |-> rest, ours |-> rest, theirs |-> rest]>>
    ELSE LET start  == Start(oe, te, ours, theirs)
             at     == Grow(oe, te, [ours |-> ours, theirs |-> theirs, end |-> start])
             kept   == Lines(base, pos, start)
             oEdits == SubSeq(oe, ours, at.ours - 1)
             tEdits == SubSeq(te, theirs, at.theirs - 1)
             o      == Render(base, start, at.end, oEdits)
             t      == Render(base, start, at.end, tEdits)
         IN  <<[kind |-> "kept", base |-> kept, ours |-> kept, theirs |-> kept],
               [kind |-> Kind(o, t, oEdits, tEdits), base |-> Lines(base, start, at.end),
                ours |-> o, theirs |-> t]>>
             \o Chunks(base, oe, te, at.end, at.ours, at.theirs)

Diff3(base, ours, theirs, om, tm) ==
    Chunks(base, LineEdits(base, ours, om), LineEdits(base, theirs, tm), 0, 1, 1)

Conflicted(chunks) == \E n \in DOMAIN chunks : chunks[n].kind = "conflict"

(* The merged text of a clean merge.                                       *)
Merged(chunks) ==
    FlattenSeq([n \in DOMAIN chunks |->
        CASE chunks[n].kind = "kept"   -> chunks[n].base
          [] chunks[n].kind = "theirs" -> chunks[n].theirs
          [] OTHER                     -> chunks[n].ours])

(* The text one side is left with when every region is settled its way.    *)
Side(chunks, side) == FlattenSeq([n \in DOMAIN chunks |-> chunks[n][side]])

-----------------------------------------------------------------------------
(* However the lines were matched, no line of anybody is lost, doubled or  *)
(* moved: taking back the other side's regions gives each side's text and  *)
(* the base exactly, so a conflict shows all three; with one side          *)
(* unchanged the other's text is the result; and it does not matter which  *)
(* side git calls ours.                                                    *)
BodiesAreKept(base, ours, theirs) ==
    \A om \in Matchings(base, ours), tm \in Matchings(base, theirs) :
        LET merge == Diff3(base, ours, theirs, om, tm)
            other == Diff3(base, theirs, ours, tm, om)
        IN  /\ Side(merge, "base") = base
            /\ Side(merge, "ours") = ours
            /\ Side(merge, "theirs") = theirs
            /\ (theirs = base /\ Cardinality(tm) = Len(base)) =>
                  ~Conflicted(merge) /\ Merged(merge) = ours
            /\ Conflicted(merge) = Conflicted(other)
            /\ ~Conflicted(merge) => Merged(merge) = Merged(other)
=============================================================================
