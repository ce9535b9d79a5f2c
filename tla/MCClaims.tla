------------------------------ MODULE MCClaims ------------------------------
(* Instances of Claims for TLC: the second issue waits for the first.      *)
EXTENDS Claims, TLC

CONSTANTS s1, s2, a1, a2, first, second

Chain == (first :> {}) @@ (second :> {first})

(* Sessions are interchangeable, and so are actors.                        *)
Symmetry == Permutations(Session) \cup Permutations(Actor)

(* Where the index is upset, the first issue is a blocker and no more: it  *)
(* is not claimed.                                                         *)
Bounded ==
    upsets > 0 =>
        /\ file[first].by = Nobody
        /\ \A s \in Session :
              job[s].at \in {"decided", "locked"} /\ job[s].issue = first => job[s].op = "status"
=============================================================================
