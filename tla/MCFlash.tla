------------------------------ MODULE MCFlash ------------------------------
(* Instance of Flash for TLC. *)
EXTENDS Flash
=============================================================================
