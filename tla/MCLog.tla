------------------------------- MODULE MCLog -------------------------------
(***************************************************************************)
(* Instance of Log for TLC: a super segment, a checkpoint segment and a    *)
(* few log segments of two blocks.                                         *)
(***************************************************************************)
EXTENDS Log, TLC

CONSTANTS f1, f2

MCOneBlock == [f \in Files |-> 0]

AnyFile == Permutations(Files)

\* A log that is worn out is followed to the end of its session, through pushes
\* that fail; one whose checkpoint is lost promises nothing.  States beyond are
\* checked when they are reached, and not explored further.
ToEndOfSession == ~lost /\ (worn => Mounted)
=============================================================================
