---------------------------- MODULE SegmentFlash ----------------------------
(***************************************************************************)
(* What a segment's writer gets from the flash when it erases and rewrites *)
(* the segment without looking at the results: the whole image, or nothing *)
(* if the segment is worn out and was not left erased; and after a kill, a *)
(* part of the image from its beginning, if anything.                      *)
(***************************************************************************)
EXTENDS Integers

CONSTANTS Segs, CpSeg, Sectors(_), Vals, Blank, WearLimit

VARIABLES
    wear,      \* how often a segment was erased
    written,   \* something in it has been written since
    data,      \* its sectors
    killed     \* the last rewrite was cut short

vars == <<wear, written, data, killed>>

\* as mklfs leaves it: it writes every segment once, the checkpoint's after
\* an erase
Init == /\ wear = [s \in Segs |-> IF s = CpSeg THEN 1 ELSE 0]
        /\ written = [s \in Segs |-> TRUE]
        /\ data = [s \in Segs |-> [x \in Sectors(s) |-> Blank]]
        /\ killed = FALSE

EraseOk(s) == wear[s] < WearLimit
WriteOk(s) == EraseOk(s) \/ ~written[s]

Erased(s)  == [wear EXCEPT ![s] = IF EraseOk(s) THEN @ + 1 ELSE @]

\* The image v as far as the sector k
Upto(s, v, k) == [data EXCEPT ![s] = [x \in Sectors(s) |-> IF x <= k THEN v ELSE @[x]]]

Last(s, k) == \A x \in Sectors(s) : x <= k

Rewrite(s, v) ==
    /\ killed' = FALSE
    /\ wear' = Erased(s)
    /\ IF WriteOk(s)
       THEN /\ written' = [written EXCEPT ![s] = TRUE]
            /\ \E k \in Sectors(s) : Last(s, k) /\ data' = Upto(s, v, k)
       ELSE UNCHANGED <<written, data>>

\* killed before anything has changed
KilledEarly == killed' = TRUE /\ UNCHANGED <<wear, written, data>>

\* killed while erasing, or before anything was written
KilledErasing(s) ==
    /\ killed' = TRUE
    /\ EraseOk(s)
    /\ wear' = Erased(s)
    /\ written' \in {written, [written EXCEPT ![s] = FALSE]}
    /\ UNCHANGED data

\* killed while writing: the sectors count as erased until the last is there
KilledWriting(s, v) ==
    /\ killed' = TRUE
    /\ WriteOk(s)
    /\ wear' = Erased(s)
    /\ \E k \in Sectors(s) :
        /\ data' = Upto(s, v, k)
        /\ \/ written' = [written EXCEPT ![s] = FALSE]
           \/ Last(s, k) /\ written' = [written EXCEPT ![s] = TRUE]

Next == \/ KilledEarly
        \/ \E s \in Segs :
            \/ KilledErasing(s)
            \/ \E v \in Vals : Rewrite(s, v) \/ KilledWriting(s, v)

Spec == Init /\ [][Next]_vars
=============================================================================
