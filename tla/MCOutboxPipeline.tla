-------------------------- MODULE MCOutboxPipeline --------------------------
(* Small instances of OutboxPipeline for TLC. *)
EXTENDS OutboxPipeline, TLC

CONSTANTS w1, w2, c1, c2

Symm == Permutations({w1, w2}) \cup Permutations({c1, c2})
=============================================================================
