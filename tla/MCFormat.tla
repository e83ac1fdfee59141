----------------------------- MODULE MCFormat -----------------------------
(***************************************************************************)
(* Instance of Format for TLC: options on both sides of every check, of    *)
(* the block a summary must fit and of the segment a checkpoint must fit.  *)
(***************************************************************************)
EXTENDS Format

MCOptions == [l : {0, 1, 2, 8, 16, 32, 64},
              s : {250, 256, 1024, 1984, 2000, 4096},
              b : {0, 1, 2, 3, 8, 16}]
=============================================================================
