------------------------------ MODULE MCFileIO ------------------------------
(* Instance of FileIO for TLC. *)
EXTENDS FileIO

\* No action reads req, got or ret: states that differ in them only have the
\* same successors, and ImplementsByteFile is checked on every step in any
\* case.
InodeView == <<file, holed>>
=============================================================================
