------------------------ MODULE MCWriteTransaction ------------------------
(* Instances of WriteTransaction for TLC. *)
EXTENDS WriteTransaction, TLC

CONSTANTS p1, p2, moved

(* Processes are interchangeable; only safety runs use it. *)
Symmetry == Permutations(Process)

(* Three things go wrong at most, a death counted for two, and none where  *)
(* a page is moved.                                                        *)
Touched == \/ disk[moved] # Absent \/ stage[moved] # Absent \/ head[moved] # Absent
           \/ \E p \in Process : moved \in Paths(p)
Bounded == faults + undoFaults + 2 * crashes + human <= IF Touched THEN 0 ELSE 3
============================================================================
