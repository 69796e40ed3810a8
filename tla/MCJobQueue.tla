----------------------------- MODULE MCJobQueue -----------------------------
(* Three workers on four jobs, no two with the same ids. *)
EXTENDS JobQueue, TLC

CONSTANTS w1, w2, w3

Overlapping ==
  (w1 :> {1, 2, 3} @@ w2 :> {2, 3, 4}) @@ w3 :> {3, 4}
=============================================================================
