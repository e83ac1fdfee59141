------------------------------ MODULE LogStore ------------------------------
(***************************************************************************)
(* Log implements Store.  A file's value is what Log_Read finds where its  *)
(* inode points: in the running process the inode in memory, after a crash *)
(* the one that the checkpoint's ifile leads to on flash.  The promise     *)
(* ends with Promised: when the tail wraps (live ifile blocks count as     *)
(* free), when a segment fails to reach the flash, when a torn checkpoint  *)
(* is mounted (its tail lies before ifile blocks in use).                  *)
(***************************************************************************)
EXTENDS Log

RunningValue(f) == IF inode[f] \in Addr THEN LogRead(inode[f]).data ELSE Blank

DurableValue(f) ==
    LET a == FlashInode(f)
    IN  IF a \in Addr THEN disk[a.seg][a.bk].data ELSE Blank

DurableView == [f \in Files |-> IF Promised THEN DurableValue(f) ELSE Blank]
RunningView == IF Mounted /\ Promised
               THEN [f \in Files |-> RunningValue(f)] ELSE DurableView

S == INSTANCE Store WITH vol <- RunningView, dur <- DurableView,
                         running <- Mounted, sound <- Promised

\* Every step of the log is a step of the store or leaves it alone: a flush of
\* an inode, a push, a move of the tail and half an unmount are invisible, a
\* write shows one new value, an unmount saves every one of them, a crash takes
\* all files back to what was saved last, together; and a kill in the write of
\* the checkpoint does the one or the other, never some of each.
ImplementsStore == S!Spec
=============================================================================
