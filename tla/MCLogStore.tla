----------------------------- MODULE MCLogStore -----------------------------
(* Instance of LogStore for TLC: inodes of two files in two ifile blocks.  *)
EXTENDS LogStore, TLC

CONSTANTS f1, f2

MCTwoBlocks == [f \in Files |-> IF f = f1 THEN 0 ELSE 1]

AnyValue == Permutations(Vals)

\* Once the promise has ended Store allows everything: such states are checked
\* when they are reached, and not explored further.
StillPromised == Promised
=============================================================================
