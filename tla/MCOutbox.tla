------------------------------ MODULE MCOutbox ------------------------------
(* Values for model checking Outbox.                                       *)
EXTENDS Outbox, TLC

Symmetry == Permutations(Sends)
=============================================================================
