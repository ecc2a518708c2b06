----------------------------- MODULE MCSession -----------------------------
(* Instances of Session for TLC. *)
EXTENDS Session, TLC

NoneStuck == {}
AllStuck == Sessions
Symmetry == Permutations(Sessions)
=============================================================================
