----------------------------- MODULE FlowBoard -----------------------------
(***************************************************************************)
(* What may be picked, and the diagram of a flow.  Both are derived from   *)
(* the issues a read returns, and never stored: `dit ready'                *)
(* (dit-core/src/lib.rs, dit-model/src/readiness.rs) judges every issue,   *)
(* the board (dit-core/src/flow.rs) judges the members of a flow with a    *)
(* derivation of its own, lays them out in stages and finds the main path. *)
(*                                                                         *)
(* Issues are numbered in the order of their ids, which is the order they  *)
(* were created in.  A workspace is a record:                              *)
(*   blocked  the blockers of each issue                                   *)
(*   status   the status of each issue                                     *)
(*   member   the issues that carry the flow's name                        *)
(*   gate     what a blocker must have reached: "terminal", or a status    *)
(*   cap      DEFAULT_LIMIT: the issues a read without a limit returns     *)
(***************************************************************************)
EXTENDS Naturals, Sequences, FiniteSets, SequencesExt, FiniteSetsExt

CONSTANT WalkGuard   \* where following the main path back gives up

(* The workflow: declaration order, categories, and the exit that any      *)
(* status may take.                                                        *)
Statuses  == <<"todo", "review", "done", "cancelled">>
Category  == [todo |-> "todo", review |-> "doing", done |-> "done", cancelled |-> "done"]
Terminal  == {"done", "cancelled"}
Exits     == {"cancelled"}

Issues(w) == DOMAIN w.status

-----------------------------------------------------------------------------
(* The statuses that satisfy a gate: never an exit.                        *)
GateStatuses(gate) ==
    (IF gate = "terminal" THEN Terminal
     ELSE {Statuses[k] : k \in {k \in DOMAIN Statuses :
                                   \E j \in 1..k : Statuses[j] = gate}}) \ Exits

(* The read behind both: no filter, no limit, newest first.                *)
Shown(w) == {i \in Issues(w) : Cardinality({j \in Issues(w) : j > i}) < w.cap}

(* A blocker the read does not return counts as cancelled.                 *)
StatusSeen(w, i) == IF i \in Shown(w) THEN w.status[i] ELSE "cancelled"

(* Dit::ready, for an issue the read returns.                              *)
Ready(w, i) ==
    IF Category[w.status[i]] # "todo" THEN [is |-> "not pickable"]
    ELSE LET waiting == {b \in w.blocked[i] : StatusSeen(w, b) \notin GateStatuses(w.gate)}
             broken  == {b \in waiting : StatusSeen(w, b) \in Exits}
         IN  IF waiting = {} THEN [is |-> "ready"]
             ELSE [is |-> "blocked", unsatisfied |-> waiting \ broken, broken |-> broken]

-----------------------------------------------------------------------------
(* The board.                                                              *)

Members(w)    == w.member \intersect Shown(w)
Preds(w, i)   == w.blocked[i] \intersect Members(w)
Edges(w)      == {<<b, i>> \in Members(w) \X Members(w) : b \in w.blocked[i]}

Disposition(w, b) ==
    IF w.status[b] \in GateStatuses(w.gate) THEN "satisfied"
    ELSE IF w.status[b] \in Exits THEN "broken" ELSE "unsatisfied"

(* The node's own readiness, derived blocker by blocker; a blocker that is *)
(* no member draws no arrow but still holds the node.                      *)
NodeReadiness_Drawn(w, i) ==
    LET seen    == w.blocked[i] \intersect Members(w)
        holding == {b \in seen : w.status[b] \notin GateStatuses(w.gate)}
        broken  == {b \in holding : w.status[b] \in Exits}
    IN  IF Category[w.status[i]] # "todo" THEN [is |-> "not pickable"]
        ELSE IF holding = {} THEN [is |-> "ready"]
        ELSE [is |-> "blocked", unsatisfied |-> holding \ broken, broken |-> broken]

NodeReadiness(w, i) ==
    LET known       == w.blocked[i] \intersect Shown(w)
        holding     == {b \in known : w.status[b] \notin GateStatuses(w.gate)}
        broken      == {b \in holding : w.status[b] \in Exits} \union (w.blocked[i] \ known)
        unsatisfied == {b \in holding : w.status[b] \notin Exits}
    IN  IF Category[w.status[i]] # "todo" THEN [is |-> "not pickable"]
        ELSE IF unsatisfied \union broken = {} THEN [is |-> "ready"]
        ELSE [is |-> "blocked", unsatisfied |-> unsatisfied, broken |-> broken]

InOrder(S) == SetToSortSeq(S, LAMBDA a, b : a < b)

(* depth_of: depth first, each member once; a member being visited counts  *)
(* as depth 0, so that a cycle ends.                                       *)
RECURSIVE DepthOf(_, _, _)
DepthOf(w, stage, i) ==
    IF i \in DOMAIN stage THEN stage
    ELSE LET walked == FoldLeft(LAMBDA acc, p :
                                    LET next == DepthOf(w, acc.stage, p)
                                    IN  [stage |-> next,
                                         depth |-> Max({acc.depth, next[p] + 1})],
                                [stage |-> (i :> 0) @@ stage, depth |-> 0],
                                InOrder(Preds(w, i)))
         IN  (i :> walked.depth) @@ walked.stage

Stages(w) == FoldLeft(LAMBDA acc, i : DepthOf(w, acc, i), <<>>, InOrder(Members(w)))

(* best_chain: the work left on the best chain that ends here, its length, *)
(* and the member before this one (0: none).                               *)
Unfinished(w, i) == IF Category[w.status[i]] = "done" THEN 0 ELSE 1

Before(a, b) == \/ a.work < b.work
                \/ a.work = b.work /\ a.hops < b.hops
                \/ a.work = b.work /\ a.hops = b.hops /\ a.from < b.from

RECURSIVE BestChain(_, _, _)
BestChain(w, memo, i) ==
    IF i \in DOMAIN memo THEN memo
    ELSE LET alone == [work |-> Unfinished(w, i), hops |-> 0, from |-> 0]
             walked == FoldLeft(LAMBDA acc, p :
                                    LET next == BestChain(w, acc.memo, p)
                                        via  == [work |-> next[p].work + Unfinished(w, i),
                                                 hops |-> next[p].hops + 1, from |-> p]
                                    IN  [memo |-> next,
                                         best |-> IF Before(acc.best, via) THEN via ELSE acc.best],
                                [memo |-> (i :> alone) @@ memo, best |-> alone],
                                InOrder(Preds(w, i)))
         IN  (i :> walked.best) @@ walked.memo

Chains(w) == FoldLeft(LAMBDA acc, i : BestChain(w, acc, i), <<>>, InOrder(Members(w)))

(* The tip is the best end of a chain, the id the last to decide.          *)
Tip(w) ==
    LET chains == Chains(w)
        Rank(i) == [work |-> chains[i].work, hops |-> chains[i].hops, from |-> i]
    IN  CHOOSE i \in Members(w) : \A j \in Members(w) : i = j \/ Before(Rank(j), Rank(i))

RECURSIVE Back(_, _, _)
Back(chains, path, i) ==
    IF i = 0 \/ Len(path) = WalkGuard THEN path
    ELSE Back(chains, <<i>> \o path, chains[i].from)

MainPath(w) == IF Members(w) = {} THEN <<>> ELSE Back(Chains(w), <<>>, Tip(w))

-----------------------------------------------------------------------------
(* What a reader takes from them.                                          *)

Acyclic(w) == \A S \in SUBSET Members(w) :
                  S # {} => \E i \in S : Preds(w, i) \intersect S = {}

(* Nothing is offered for picking before every blocker it names is through *)
(* the gate, however many issues the read leaves out: the cap can hold an  *)
(* issue back, never release it.                                           *)
NeverReadyTooSoon(w) ==
    \A i \in Shown(w) :
        (Ready(w, i).is = "ready" \/ NodeReadiness(w, i).is = "ready")
            => \A b \in w.blocked[i] : b \in Issues(w) /\ w.status[b] \in GateStatuses(w.gate)

(* And as long as the read returns every issue, one whose blockers are all *)
(* through is offered.                                                     *)
ReadyWhenItIs(w) ==
    Cardinality(Issues(w)) <= w.cap =>
        \A i \in Issues(w) :
            (/\ Category[w.status[i]] = "todo"
             /\ \A b \in w.blocked[i] : b \in Issues(w) /\ w.status[b] = "done")
            => Ready(w, i).is = "ready"

(* The two derivations agree on every node of every board.                 *)
BoardAgrees(w) == \A i \in Members(w) : NodeReadiness(w, i) = Ready(w, i)

(* Without a cycle every dependency points strictly rightward, and no      *)
(* further than it must: a stage is the longest chain of blockers.         *)
StagesAreLongestPaths(w) ==
    Acyclic(w) =>
        /\ DOMAIN Stages(w) = Members(w)
        /\ \A e \in Edges(w) : Stages(w)[e[1]] < Stages(w)[e[2]]
        /\ \A i \in Members(w) : Stages(w)[i] > 0 =>
               \E p \in Preds(w, i) : Stages(w)[p] + 1 = Stages(w)[i]

IsChain(w, path) ==
    /\ IsInjective(path)
    /\ \A k \in 1..(Len(path) - 1) : <<path[k], path[k + 1]>> \in Edges(w)

Work(w, path) == Cardinality({k \in DOMAIN path : Unfinished(w, path[k]) = 1})

(* Without a cycle the main path is a chain of blockers, and no chain of   *)
(* the board has more work left.                                           *)
MainPathIsCritical(w) ==
    Acyclic(w) =>
        /\ IsChain(w, MainPath(w))
        /\ \A n \in 1..Cardinality(Members(w)) : \A path \in [1..n -> Members(w)] :
               IsChain(w, path) => Work(w, path) <= Work(w, MainPath(w))
=============================================================================
