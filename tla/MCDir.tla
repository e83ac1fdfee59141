------------------------------- MODULE MCDir -------------------------------
(* Instance of Dir for TLC. *)
EXTENDS Dir, TLC

AnyNames == Permutations(NameSet)
=============================================================================
