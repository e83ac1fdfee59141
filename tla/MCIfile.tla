------------------------------ MODULE MCIfile ------------------------------
(***************************************************************************)
(* Instance of Ifile for TLC.  Every byte of an inode in use tells whose   *)
(* it is.  The one that lies across two blocks comes in two images.        *)
(***************************************************************************)
EXTENDS Ifile

ImageOf(n) == [k \in 0 .. ISize - 1 |-> n]

MCImages == [i \in Inums |-> {ImageOf(i + 1)} \cup
                             (IF i = 1 THEN {ImageOf(i + 6)} ELSE {})]

\* After a gap InodeTable allows everything: such states are checked when they
\* are reached, and not explored further.
NoGap == ~gapped
=============================================================================
