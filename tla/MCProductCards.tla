--------------------------- MODULE MCProductCards ---------------------------
(* Small instances of ProductCards for TLC. *)
EXTENDS ProductCards, TLC

CONSTANTS p1, p2, o1, o2, r1, r2, r3, w1, w2

(* Both orders change the first product. *)
MCLines == [o \in Orders |-> IF o = o1 THEN {p1} ELSE Products]
MCTarget == [r \in Gets |-> p1]
Symm == Permutations(Gets) \cup Permutations(Workers)
=============================================================================
