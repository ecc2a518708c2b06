---------------------------- MODULE MCStatusFeed ----------------------------
(* Instances of StatusFeed for TLC. *)
EXTENDS StatusFeed, TLC

NoneStuck == {}
Symmetry == Permutations(Sessions)
=============================================================================
