---------------------------- MODULE FlashProofs ----------------------------
(***************************************************************************)
(* Theorems about module Flash, for a flash of any shape: its types, what  *)
(* is written only when erased, why an erase is never refused half way,    *)
(* and that it implements SegmentFlash.                                    *)
(***************************************************************************)
EXTENDS Flash, TLAPS

-----------------------------------------------------------------------------
(* Where segments lie. *)

\* The multiplications of the layout, which the lemmas below keep to themselves
LEMMA Scaled ==
    ASSUME NEW a \in Nat, NEW b \in Nat, NEW k \in Nat, a <= b
    PROVE  k * a \in Nat /\ k * b \in Nat /\ k * a <= k * b
OBVIOUS

LEMMA Regrouped ==
    ASSUME NEW a \in Nat, NEW b \in Nat, NEW k \in Nat
    PROVE  a * b * k = b * (a * k)
OBVIOUS

\* The erase blocks and the sectors of a segment are there, and there is at
\* least one of each.
LEMMA SegmentPlace ==
    ASSUME NEW s \in Segs
    PROVE  /\ FirstBlock(s) \in Nat /\ LastBlock(s) \in Nat
           /\ FirstBlock(s) <= LastBlock(s)
           /\ FirstBlock(s) .. LastBlock(s) \subseteq EBlocks
           /\ FirstSector(s) \in Nat /\ LastSector(s) \in Nat
           /\ SegSize * s \in Nat /\ SegSize * s <= FirstSector(s)
           /\ FirstSector(s) <= LastSector(s)
           /\ SectorsOf(s) \subseteq AllSectors
<1> USE FlashAssumption
<1>1. s \in Nat /\ s + 1 \in Nat /\ s + 1 <= NumSegs
  BY DEF Segs
<1>2. SegSize \in Nat \ {0}
  BY Scaled DEF SegSize
<1>3. /\ BlocksPerSeg * s \in Nat /\ BlocksPerSeg * (s + 1) = BlocksPerSeg * s + BlocksPerSeg
      /\ BlocksPerSeg * (s + 1) <= NumSegs * BlocksPerSeg
      /\ NumSegs * BlocksPerSeg \in Nat
  BY <1>1, Scaled
<1>4. /\ SegSize * s \in Nat /\ SegSize * (s + 1) = SegSize * s + SegSize
      /\ SegSize * (s + 1) <= NumSegs * SegSize
      /\ NumSegs * SegSize \in Nat
  BY <1>1, <1>2, Scaled
<1>5. BkSize \in Nat /\ BkSize < SegSize
  BY <1>2 DEF SegSize
<1> QED
  BY <1>3, <1>4, <1>5, <1>2 DEF FirstBlock, LastBlock, FirstSector, LastSector,
     SectorsOf, EBlocks, AllSectors

\* No two segments share an erase block or a sector.
LEMMA SegmentsApart ==
    ASSUME NEW s \in Segs, NEW t \in Segs, s # t
    PROVE  /\ \A b \in FirstBlock(s) .. LastBlock(s) : b \notin FirstBlock(t) .. LastBlock(t)
           /\ \A x \in SegSize * s .. LastSector(s) : x \notin SectorsOf(t)
<1> USE FlashAssumption
<1>1. s \in Nat /\ t \in Nat /\ (s + 1 <= t \/ t + 1 <= s)
  BY DEF Segs
<1>2. SegSize \in Nat /\ BkSize \in Nat
  BY Scaled DEF SegSize
<1>3. /\ BlocksPerSeg * s \in Nat /\ BlocksPerSeg * t \in Nat
      /\ BlocksPerSeg * (s + 1) \in Nat /\ BlocksPerSeg * (t + 1) \in Nat
      /\ BlocksPerSeg * (s + 1) <= BlocksPerSeg * t \/ BlocksPerSeg * (t + 1) <= BlocksPerSeg * s
  BY <1>1, Scaled
<1>4. /\ SegSize * s \in Nat /\ SegSize * t \in Nat
      /\ SegSize * (s + 1) \in Nat /\ SegSize * (t + 1) \in Nat
      /\ SegSize * (s + 1) <= SegSize * t \/ SegSize * (t + 1) <= SegSize * s
  BY <1>1, <1>2, Scaled
<1>5. \A x \in SectorsOf(t) : x \in Int /\ SegSize * t <= x /\ x < SegSize * (t + 1)
  BY <1>2, <1>4 DEF SectorsOf, FirstSector, LastSector
<1>6. /\ \A b \in FirstBlock(s) .. LastBlock(s) : b \notin FirstBlock(t) .. LastBlock(t)
  BY <1>3 DEF FirstBlock, LastBlock
<1>7. \A x \in SegSize * s .. LastSector(s) : x \notin SectorsOf(t)
  BY <1>4, <1>5 DEF LastSector
<1> QED
  BY <1>6, <1>7

\* The sectors of the erase blocks of a segment are the segment.
LEMMA BlockSectors ==
    ASSUME NEW s \in Segs, NEW b \in FirstBlock(s) .. LastBlock(s)
    PROVE  /\ SectorsPerBlock * b \in Nat
           /\ SectorsPerBlock * (b + 1) = SectorsPerBlock * b + SectorsPerBlock
           /\ SectorsPerBlock * FirstBlock(s) = SegSize * s
           /\ SegSize * s <= SectorsPerBlock * b
           /\ SectorsPerBlock * (b + 1) - 1 <= LastSector(s)
           /\ SectorsPerBlock * (LastBlock(s) + 1) - 1 = LastSector(s)
<1> USE FlashAssumption
<1>1. s \in Nat /\ s + 1 \in Nat
  BY DEF Segs
<1>2. FirstBlock(s) \in Nat /\ LastBlock(s) \in Nat /\ b \in Nat
      /\ FirstBlock(s) <= b /\ b + 1 <= LastBlock(s) + 1
  BY SegmentPlace
<1>3. SectorsPerBlock * FirstBlock(s) = SegSize * s
  BY <1>1, Regrouped DEF FirstBlock, SegSize
<1>4. SectorsPerBlock * (LastBlock(s) + 1) = SegSize * (s + 1)
  <2>1. LastBlock(s) + 1 = BlocksPerSeg * (s + 1)
    BY <1>1, Scaled DEF LastBlock
  <2> QED
    BY <2>1, <1>1, Regrouped DEF SegSize
<1>5. /\ SectorsPerBlock * FirstBlock(s) <= SectorsPerBlock * b
      /\ SectorsPerBlock * (b + 1) <= SectorsPerBlock * (LastBlock(s) + 1)
      /\ SectorsPerBlock * b \in Nat /\ SectorsPerBlock * (b + 1) \in Nat
      /\ SectorsPerBlock * (LastBlock(s) + 1) \in Nat
  BY <1>2, Scaled
<1>6. SectorsPerBlock * (b + 1) = SectorsPerBlock * b + SectorsPerBlock
  BY <1>2
<1> QED
  BY <1>3, <1>4, <1>5, <1>6 DEF LastSector
-----------------------------------------------------------------------------
(* Types. *)

LEMMA InitTyped == Init => TypeOK
<1> SUFFICES ASSUME Init PROVE TypeOK
  OBVIOUS
<1>1. CpSeg \in Segs /\ WearLimit \in Nat /\ 1 \in 0 .. WearLimit /\ 0 \in 0 .. WearLimit
  BY FlashAssumption DEF CpSeg, Segs
<1> QED
  BY <1>1 DEF Init, TypeOK, NoCall, Steps, Snapshot

LEMMA NextTyped == TypeOK /\ [Next]_vars => TypeOK'
<1> SUFFICES ASSUME TypeOK, [Next]_vars PROVE TypeOK'
  OBVIOUS
<1> USE FlashAssumption DEF TypeOK
<1>c. CpSeg \in Segs
  BY DEF CpSeg, Segs
<1>1. CASE UNCHANGED vars
  BY <1>1 DEF vars, tables
<1>2. ASSUME NEW s \in Segs, NEW v \in Vals, StartRewrite(s, v)
      PROVE  TypeOK'
  BY <1>2, SegmentPlace DEF StartRewrite, tables, EraseFrom, Steps, Snapshot
<1>3. CASE EraseRefused
  BY <1>3 DEF EraseRefused, Goto, tables, Steps
<1>4. CASE WearBlock
  <2>1. call.seg \in Segs /\ at \in FirstBlock(call.seg) .. LastBlock(call.seg)
    BY <1>4 DEF WearBlock
  <2>2. at \in EBlocks /\ wear[at] + 1 \in 0 .. WearLimit
    BY <1>4, <2>1, SegmentPlace DEF WearBlock, WornOut
  <2>3. SectorsPerBlock * at \in SectorsPerBlock * at .. SectorsPerBlock * (at + 1) - 1
    BY <2>1, BlockSectors
  <2> QED
    BY <1>4, <2>1, <2>2, <2>3 DEF WearBlock, Goto, Steps
<1>5. CASE ClearSector
  <2>1. /\ call.seg \in Segs /\ at \in FirstBlock(call.seg) .. LastBlock(call.seg)
        /\ sec \in SectorsPerBlock * at .. SectorsPerBlock * (at + 1) - 1
        /\ call.step = "clear"
    BY <1>5 DEF ClearSector
  <2>2. /\ SectorsPerBlock * at \in Nat /\ SectorsPerBlock * (at + 1) \in Nat
        /\ FirstBlock(call.seg) \in Nat /\ LastBlock(call.seg) \in Nat
    BY <2>1, BlockSectors, SegmentPlace
  <2>3. state' \in [AllSectors -> {"EMPTY", "FULL"}]
    BY <1>5 DEF ClearSector, Cleared
  <2>4. CASE sec < SectorsPerBlock * (at + 1) - 1
    BY <1>5, <2>1, <2>2, <2>3, <2>4 DEF ClearSector
  <2>5. CASE ~(sec < SectorsPerBlock * (at + 1) - 1) /\ at < LastBlock(call.seg)
    BY <1>5, <2>1, <2>2, <2>3, <2>5 DEF ClearSector, Goto, Steps
  <2>6. CASE ~(sec < SectorsPerBlock * (at + 1) - 1) /\ ~(at < LastBlock(call.seg))
    BY <1>5, <2>1, <2>2, <2>3, <2>6 DEF ClearSector, Goto, Steps
  <2> QED
    BY <2>4, <2>5, <2>6
<1>6. CASE WriteRefused
  BY <1>6, <1>c DEF WriteRefused, Return, NoCall, tables, Steps
<1>7. CASE WriteStarts
  BY <1>7, SegmentPlace DEF WriteStarts, Goto, tables, Steps, SectorsOf
<1>8. CASE WriteSector
  <2>1. /\ call.seg \in Segs /\ at \in SectorsOf(call.seg) /\ call.step = "data"
        /\ FirstSector(call.seg) \in Nat /\ LastSector(call.seg) \in Nat
        /\ FirstSector(call.seg) <= LastSector(call.seg)
    BY <1>8, SegmentPlace DEF WriteSector
  <2>2. data' \in [AllSectors -> Vals \cup {Blank}]
    BY <1>8 DEF WriteSector
  <2>3. CASE at < LastSector(call.seg)
    BY <1>8, <2>1, <2>2, <2>3 DEF WriteSector, SectorsOf
  <2>4. CASE ~(at < LastSector(call.seg))
    BY <1>8, <2>1, <2>2, <2>4 DEF WriteSector, SectorsOf, Goto, Steps
  <2> QED
    BY <2>3, <2>4
<1>9. CASE MarkSector
  <2>1. /\ call.seg \in Segs /\ at \in SectorsOf(call.seg) /\ call.step = "mark"
        /\ FirstSector(call.seg) \in Nat /\ LastSector(call.seg) \in Nat
    BY <1>9, SegmentPlace DEF MarkSector
  <2>2. state' \in [AllSectors -> {"EMPTY", "FULL"}]
    BY <1>9 DEF MarkSector
  <2>3. CASE at < LastSector(call.seg)
    BY <1>9, <2>1, <2>2, <2>3 DEF MarkSector, SectorsOf
  <2>4. CASE ~(at < LastSector(call.seg))
    <3>1. call' = NoCall /\ killed' = FALSE /\ UNCHANGED <<wear, data, before, at, sec>>
      BY <1>9, <2>4 DEF MarkSector, Return
    <3> QED
      BY <3>1, <1>c, <2>2 DEF NoCall, Steps
  <2> QED
    BY <2>3, <2>4
<1>10. CASE Kill
  BY <1>10, <1>c DEF Kill, NoCall, tables, Steps
<1> QED
  BY <1>1, <1>2, <1>3, <1>4, <1>5, <1>6, <1>7, <1>8, <1>9, <1>10 DEF Next, Writer

\* The tables and the position in them are always of their types, however a
\* rewrite is cut short: the loops of Flash_Erase and Flash_Write stay inside
\* the segment.
THEOREM TypeCorrect == Spec => []TypeOK
<1>1. Init => TypeOK
  BY InitTyped
<1>2. TypeOK /\ [Next]_vars => TypeOK'
  BY NextTyped
<1> QED
  BY <1>1, <1>2, PTL DEF Spec
-----------------------------------------------------------------------------
(* Only the first erase block of a segment is ever refused. *)

\* Past the first block, what an erase has not reached yet has worn less than
\* the first block.
NotReached == LET first == FirstBlock(call.seg)
                  from  == IF call.step = "clear" THEN at + 1 ELSE at
              IN  call.step = "clear" \/ (call.step = "erase" /\ at # first) =>
                      \A b \in from .. LastBlock(call.seg) : wear[b] < wear[first]

WearInv == FirstBlockWearsMost /\ NotReached

LEMMA NextWear == TypeOK /\ WearInv /\ [Next]_vars => WearInv'
<1> SUFFICES ASSUME TypeOK, WearInv, [Next]_vars PROVE WearInv'
  OBVIOUS
<1> USE DEF WearInv
<1>1. CASE UNCHANGED vars
  BY <1>1 DEF vars, tables, FirstBlockWearsMost, NotReached
<1>2. ASSUME NEW s \in Segs, NEW v \in Vals, StartRewrite(s, v)
      PROVE  WearInv'
  BY <1>2 DEF StartRewrite, tables, EraseFrom, FirstBlockWearsMost, NotReached
<1>3. CASE WearBlock
  <2> DEFINE seg == call.seg
             first == FirstBlock(seg)
  <2>1. /\ seg \in Segs /\ at \in first .. LastBlock(seg) /\ call.step = "erase"
        /\ wear \in [EBlocks -> Int] /\ wear' = [wear EXCEPT ![at] = @ + 1]
        /\ call' = [call EXCEPT !.step = "clear"] /\ at' = at
    BY <1>3, FlashAssumption DEF WearBlock, TypeOK, Goto
  <2>2. /\ first \in Nat /\ LastBlock(seg) \in Nat /\ first .. LastBlock(seg) \subseteq EBlocks
    BY <2>1, SegmentPlace
  <2>3. \A b \in first .. LastBlock(seg) : wear[b] <= wear[first]
    BY <2>1 DEF FirstBlockWearsMost
  <2>4. at # first => \A b \in at .. LastBlock(seg) : wear[b] < wear[first]
    BY <2>1 DEF NotReached
  <2> HIDE DEF seg, first
  <2>5. \A b \in first .. LastBlock(seg) : wear'[b] <= wear'[first]
    BY <2>1, <2>2, <2>3, <2>4
  <2>6. \A b \in at + 1 .. LastBlock(seg) : wear'[b] < wear'[first]
    BY <2>1, <2>2, <2>3, <2>4
  <2>7. ASSUME NEW t \in Segs, t # seg, NEW b \in FirstBlock(t) .. LastBlock(t)
        PROVE  wear'[b] <= wear'[FirstBlock(t)]
    <3>1. wear[b] <= wear[FirstBlock(t)]
      BY DEF FirstBlockWearsMost
    <3>2. FirstBlock(t) \in FirstBlock(t) .. LastBlock(t)
      BY SegmentPlace
    <3>3. at \notin FirstBlock(t) .. LastBlock(t)
      BY <2>1, <2>7, SegmentsApart DEF first
    <3> QED
      BY <2>1, <3>1, <3>2, <3>3
  <2>8. FirstBlockWearsMost'
    BY <2>5, <2>7 DEF FirstBlockWearsMost, first
  <2>9. call'.seg = seg
    BY <2>1 DEF seg, TypeOK
  <2>10. NotReached'
    BY <2>1, <2>6, <2>9 DEF NotReached, first, seg, TypeOK
  <2> QED
    BY <2>8, <2>10
<1>4. CASE ClearSector
  <2>1. UNCHANGED wear /\ FirstBlockWearsMost'
    BY <1>4 DEF ClearSector, FirstBlockWearsMost
  <2>2. NotReached'
    BY <1>4, <2>1 DEF ClearSector, Goto, NotReached, TypeOK
  <2> QED
    BY <2>1, <2>2
<1>5. CASE EraseRefused \/ WriteRefused \/ WriteStarts \/ WriteSector \/ MarkSector \/ Kill
  <2>1. UNCHANGED wear /\ call'.step \notin {"erase", "clear"}
    BY <1>5 DEF EraseRefused, WriteRefused, WriteStarts, WriteSector, MarkSector, Kill,
       Goto, Return, NoCall, tables, TypeOK
  <2> QED
    BY <2>1 DEF FirstBlockWearsMost, NotReached
<1> QED
  BY <1>1, <1>2, <1>3, <1>4, <1>5 DEF Next, Writer

LEMMA InitWear == Init => WearInv
<1> SUFFICES ASSUME Init PROVE WearInv
  OBVIOUS
<1>1. ASSUME NEW s \in Segs, NEW b \in FirstBlock(s) .. LastBlock(s)
      PROVE  wear[b] <= wear[FirstBlock(s)]
  <2>1. FirstBlock(s) \in FirstBlock(s) .. LastBlock(s)
        /\ FirstBlock(s) .. LastBlock(s) \subseteq EBlocks
    BY SegmentPlace
  <2>2. CASE s = CpSeg
    BY <2>1, <2>2 DEF Init
  <2>3. CASE s # CpSeg
    <3>1. CpSeg \in Segs
      BY FlashAssumption DEF CpSeg, Segs
    <3>2. \A c \in FirstBlock(s) .. LastBlock(s) : c \notin FirstBlock(CpSeg) .. LastBlock(CpSeg)
      BY <2>3, <3>1, SegmentsApart
    <3> QED
      BY <2>1, <3>2 DEF Init
  <2> QED
    BY <2>2, <2>3
<1> QED
  BY <1>1 DEF Init, NoCall, WearInv, FirstBlockWearsMost, NotReached

\* However often rewrites of a segment were cut short, no erase block of it
\* has worn more than its first: Flash_Erase, which refuses a worn out block,
\* refuses a segment before it has erased any of it.
THEOREM FirstBlockDecides == Spec => []FirstBlockWearsMost
<1>1. Init => TypeOK /\ WearInv
  BY InitTyped, InitWear
<1>2. TypeOK /\ WearInv /\ [Next]_vars => (TypeOK /\ WearInv)'
  BY NextTyped, NextWear
<1>3. WearInv => FirstBlockWearsMost
  BY DEF WearInv
<1> QED
  BY <1>1, <1>2, <1>3, PTL DEF Spec
-----------------------------------------------------------------------------
(* How far a rewrite has come, against the flash it has started from. *)

Untouched(s) ==
    /\ wear[FirstBlock(s)] = before.wear[FirstBlock(s)]
    /\ \A x \in SectorsOf(s) : state[x] = before.state[x] /\ data[x] = before.data[x]

Erasable(s) == before.wear[FirstBlock(s)] < WearLimit

\* Erased up to the sector k
ErasedTo(s, k) ==
    /\ Erasable(s)
    /\ wear[FirstBlock(s)] = before.wear[FirstBlock(s)] + 1
    /\ \A x \in SectorsOf(s) :
           /\ data[x] = before.data[x]
           /\ state[x] = "EMPTY" \/ state[x] = before.state[x]
           /\ x < k => state[x] = "EMPTY"

\* Erased now, or left erased by a rewrite that was killed
Ready(s) ==
    IF Erasable(s)
    THEN wear[FirstBlock(s)] = before.wear[FirstBlock(s)] + 1
    ELSE /\ wear[FirstBlock(s)] = before.wear[FirstBlock(s)]
         /\ \A x \in SectorsOf(s) : before.state[x] = "EMPTY"

\* Written up to the sector k
WrittenTo(s, k) ==
    /\ Ready(s)
    /\ \A x \in SectorsOf(s) :
           /\ state[x] = "EMPTY"
           /\ x < k => data[x] = call.val
           /\ ~(x < k) => data[x] = before.data[x]

\* Written, and marked up to the sector k
MarkedTo(s, k) ==
    /\ Ready(s)
    /\ \A x \in SectorsOf(s) :
           /\ data[x] = call.val
           /\ x < k => state[x] = "FULL"
           /\ ~(x < k) => state[x] = "EMPTY"

ProgressInv ==
    call.step # "none" =>
        /\ call.val \in Vals
        /\ \A s \in Segs : s # call.seg => Untouched(s)
        /\ call.step = "erase" => IF at = FirstBlock(call.seg) THEN Untouched(call.seg)
                                  ELSE ErasedTo(call.seg, SectorsPerBlock * at)
        /\ call.step = "clear" => ErasedTo(call.seg, sec)
        /\ call.step = "check" => \/ Untouched(call.seg) /\ ~Erasable(call.seg)
                                  \/ ErasedTo(call.seg, LastSector(call.seg) + 1)
        /\ call.step = "data"  => WrittenTo(call.seg, at)
        /\ call.step = "mark"  => MarkedTo(call.seg, at)

FlashInv == TypeOK /\ WearInv /\ ProgressInv

LEMMA NextProgress == FlashInv /\ [Next]_vars => ProgressInv'
<1> SUFFICES ASSUME FlashInv, [Next]_vars PROVE ProgressInv'
  OBVIOUS
<1> USE DEF FlashInv
<1> DEFINE seg == call.seg
<1>1. CASE UNCHANGED vars
  BY <1>1 DEF vars, tables, ProgressInv, Untouched, ErasedTo, Erasable, WrittenTo,
     MarkedTo, Ready
<1>2. ASSUME NEW s \in Segs, NEW v \in Vals, StartRewrite(s, v)
      PROVE  ProgressInv'
  <2>1. \A t \in Segs : Untouched(t)'
    BY <1>2 DEF StartRewrite, tables, Snapshot, Untouched
  <2> QED
    BY <1>2, <2>1 DEF StartRewrite, EraseFrom, ProgressInv
<1>3. CASE EraseRefused
  <2>1. /\ seg \in Segs /\ at \in FirstBlock(seg) .. LastBlock(seg) /\ call.step = "erase"
        /\ UNCHANGED <<wear, state, data, before>> /\ call'.step = "check"
        /\ call'.seg = seg /\ call'.val = call.val /\ wear[at] >= WearLimit
    BY <1>3 DEF EraseRefused, TypeOK, tables, Goto, WornOut
  <2>2. FirstBlock(seg) \in EBlocks /\ at \in EBlocks /\ LastBlock(seg) \in Nat /\ FirstBlock(seg) \in Nat
    BY <2>1, SegmentPlace
  <2>3. at = FirstBlock(seg)
    <3>1. wear[FirstBlock(seg)] <= WearLimit /\ wear[FirstBlock(seg)] \in Int /\ wear[at] \in Int
      BY <2>2, FlashAssumption DEF TypeOK
    <3>2. at # FirstBlock(seg) => wear[at] < wear[FirstBlock(seg)]
      BY <2>1, <2>2 DEF WearInv, NotReached
    <3> QED
      BY <2>1, <3>1, <3>2, FlashAssumption
  <2>4. Untouched(seg) /\ ~Erasable(seg)
    <3>1. before.wear[FirstBlock(seg)] \in Int
      BY <2>2, FlashAssumption DEF TypeOK
    <3> QED
      BY <2>1, <2>3, <3>1, FlashAssumption DEF ProgressInv, Untouched, Erasable
  <2> QED
    BY <2>1, <2>4 DEF ProgressInv, Untouched, Erasable
<1>4. CASE WearBlock
  <2>1. /\ seg \in Segs /\ at \in FirstBlock(seg) .. LastBlock(seg) /\ call.step = "erase"
        /\ wear' = [wear EXCEPT ![at] = @ + 1] /\ wear \in [EBlocks -> Int]
        /\ ~(wear[at] >= WearLimit)
        /\ UNCHANGED <<state, data, at, before>> /\ call'.step = "clear"
        /\ call'.seg = seg /\ call'.val = call.val /\ sec' = SectorsPerBlock * at
    BY <1>4, FlashAssumption DEF WearBlock, TypeOK, Goto, WornOut
  <2>2. FirstBlock(seg) \in EBlocks /\ at \in EBlocks
    BY <2>1, SegmentPlace
  <2>3. ASSUME NEW t \in Segs, t # seg
        PROVE  Untouched(t)'
    <3>1. Untouched(t)
      BY <2>1, <2>3 DEF ProgressInv
    <3>2. FirstBlock(t) # at
      BY <2>1, <2>3, SegmentsApart, SegmentPlace
    <3> QED
      BY <2>1, <3>1, <3>2 DEF Untouched
  <2>4. ErasedTo(seg, SectorsPerBlock * at)'
    <3>1. CASE at = FirstBlock(seg)
      <4>1. Untouched(seg)
        BY <2>1, <3>1 DEF ProgressInv
      <4>2. \A x \in SectorsOf(seg) : ~(x < SectorsPerBlock * at)
        <5>1. SectorsPerBlock * at = SegSize * seg /\ SegSize * seg \in Nat
          BY <2>1, <3>1, BlockSectors
        <5> QED
          BY <2>1, <5>1, SegmentPlace DEF SectorsOf
      <4> QED
        BY <2>1, <2>2, <3>1, <4>1, <4>2, FlashAssumption DEF Untouched, ErasedTo, Erasable
    <3>2. CASE at # FirstBlock(seg)
      <4>1. ErasedTo(seg, SectorsPerBlock * at)
        BY <2>1, <3>2 DEF ProgressInv
      <4> QED
        BY <2>1, <2>2, <3>2, <4>1 DEF ErasedTo, Erasable
    <3> QED
      BY <3>1, <3>2
  <2> QED
    BY <2>1, <2>3, <2>4 DEF ProgressInv, ErasedTo, Erasable
<1>5. CASE ClearSector
  <2>1. /\ seg \in Segs /\ at \in FirstBlock(seg) .. LastBlock(seg) /\ call.step = "clear"
        /\ sec \in SectorsPerBlock * at .. SectorsPerBlock * (at + 1) - 1
        /\ state' = [state EXCEPT ![sec] = "EMPTY"] /\ UNCHANGED <<wear, data, before>>
        /\ call'.seg = seg /\ call'.val = call.val
        /\ state \in [AllSectors -> {"EMPTY", "FULL"}]
    BY <1>5 DEF ClearSector, Cleared, TypeOK, Goto
  <2>2. /\ SectorsPerBlock * at \in Nat /\ SectorsPerBlock * (at + 1) \in Nat /\ sec \in Nat
        /\ SegSize * seg \in Nat
        /\ SegSize * seg <= sec /\ sec <= LastSector(seg) /\ LastSector(seg) \in Nat
        /\ FirstBlock(seg) \in Nat /\ LastBlock(seg) \in Nat /\ at \in Nat
        /\ SectorsPerBlock * (LastBlock(seg) + 1) - 1 = LastSector(seg)
    <3>1. /\ SectorsPerBlock * at \in Nat
          /\ SectorsPerBlock * (at + 1) = SectorsPerBlock * at + SectorsPerBlock
          /\ SectorsPerBlock * FirstBlock(seg) = SegSize * seg
          /\ SegSize * seg <= SectorsPerBlock * at
          /\ SectorsPerBlock * (at + 1) - 1 <= LastSector(seg)
          /\ SectorsPerBlock * (LastBlock(seg) + 1) - 1 = LastSector(seg)
      BY <2>1, BlockSectors
    <3>2. FirstBlock(seg) \in Nat /\ LastBlock(seg) \in Nat /\ LastSector(seg) \in Nat
      BY <2>1, SegmentPlace
    <3>3. SectorsPerBlock * FirstBlock(seg) \in Nat
      BY <3>2, Scaled, FlashAssumption
    <3> QED
      BY <2>1, <3>1, <3>2, <3>3, FlashAssumption
  <2>3. ASSUME NEW t \in Segs, t # seg
        PROVE  Untouched(t)'
    <3>1. Untouched(t)
      BY <2>1, <2>3 DEF ProgressInv
    <3>2. sec \notin SectorsOf(t)
      BY <2>1, <2>2, <2>3, SegmentsApart
    <3> QED
      BY <2>1, <3>1, <3>2 DEF Untouched
  <2>4. PICK k \in Nat : k = sec + 1
    BY <2>2
  <2>5. ErasedTo(seg, k)'
    <3>1. ErasedTo(seg, sec)
      BY <2>1 DEF ProgressInv
    <3>2. ASSUME NEW x \in SectorsOf(seg)
          PROVE  /\ data'[x] = before.data[x]
                 /\ state'[x] = "EMPTY" \/ state'[x] = before.state[x]
                 /\ x < k => state'[x] = "EMPTY"
      <4>1. x \in Int /\ x \in AllSectors
        BY <2>1, SegmentPlace DEF SectorsOf
      <4> QED
        BY <2>1, <2>2, <2>4, <3>1, <4>1 DEF ErasedTo
    <3> QED
      BY <2>1, <3>1, <3>2 DEF ErasedTo, Erasable
  <2>6. CASE sec < SectorsPerBlock * (at + 1) - 1
    <3>1. call' = call /\ sec' = k
      BY <1>5, <2>4, <2>6 DEF ClearSector
    <3> QED
      BY <2>1, <2>3, <2>5, <3>1 DEF ProgressInv
  <2>7. CASE ~(sec < SectorsPerBlock * (at + 1) - 1) /\ at < LastBlock(seg)
    <3>1. call'.step = "erase" /\ at' = at + 1
      BY <1>5, <2>7 DEF ClearSector, Goto, TypeOK
    <3>2. at' # FirstBlock(seg) /\ SectorsPerBlock * at' = k
      BY <2>1, <2>2, <2>4, <2>7, <3>1
    <3> QED
      BY <2>1, <2>3, <2>5, <3>1, <3>2 DEF ProgressInv
  <2>8. CASE ~(sec < SectorsPerBlock * (at + 1) - 1) /\ ~(at < LastBlock(seg))
    <3>1. call'.step = "check"
      BY <1>5, <2>8 DEF ClearSector, Goto, TypeOK
    <3>2. k = LastSector(seg) + 1
      BY <2>1, <2>2, <2>4, <2>8
    <3> QED
      BY <2>1, <2>3, <2>5, <3>1, <3>2 DEF ProgressInv
  <2> QED
    BY <2>6, <2>7, <2>8
<1>6. CASE WriteRefused \/ Kill
  BY <1>6 DEF WriteRefused, Kill, Return, NoCall, ProgressInv
<1>7. CASE WriteStarts
  <2>1. /\ seg \in Segs /\ call.step = "check" /\ call'.step = "data"
        /\ call'.seg = seg /\ call'.val = call.val
        /\ UNCHANGED <<wear, state, data, before>>
        /\ at' = FirstSector(seg)
        /\ state \in [AllSectors -> {"EMPTY", "FULL"}]
    BY <1>7 DEF WriteStarts, Goto, TypeOK, tables
  <2>2. \A x \in SectorsOf(seg) : state[x] = "EMPTY"
    BY <1>7, <2>1, SegmentPlace DEF WriteStarts, FullIn
  <2>3. \A x \in SectorsOf(seg) : ~(x < FirstSector(seg))
    BY <2>1, SegmentPlace DEF SectorsOf
  <2>4. Ready(seg) /\ \A x \in SectorsOf(seg) : data[x] = before.data[x]
    BY <2>1, <2>2 DEF ProgressInv, Untouched, ErasedTo, Ready
  <2>5. WrittenTo(seg, at)'
    BY <2>1, <2>2, <2>3, <2>4 DEF WrittenTo, Ready, Erasable
  <2> QED
    BY <2>1, <2>5 DEF ProgressInv, Untouched
<1>8. CASE WriteSector
  <2>1. /\ seg \in Segs /\ at \in SectorsOf(seg) /\ call.step = "data"
        /\ data' = [data EXCEPT ![at] = call.val] /\ data \in [AllSectors -> Vals \cup {Blank}]
        /\ call'.seg = seg /\ call'.val = call.val
        /\ UNCHANGED <<wear, state, before>>
    BY <1>8 DEF WriteSector, TypeOK, Goto
  <2>2. FirstSector(seg) \in Nat /\ LastSector(seg) \in Nat /\ SectorsOf(seg) \subseteq AllSectors
        /\ at \in Int /\ at <= LastSector(seg)
    BY <2>1, SegmentPlace DEF SectorsOf
  <2>3. ASSUME NEW t \in Segs, t # seg
        PROVE  Untouched(t)'
    <3>1. Untouched(t)
      BY <2>1, <2>3 DEF ProgressInv
    <3>2. at \notin SectorsOf(t)
      <4>1. at \in SegSize * seg .. LastSector(seg)
        <5>1. SegSize * seg \in Nat /\ SegSize * seg <= FirstSector(seg)
          BY <2>1, SegmentPlace
        <5> QED
          BY <2>1, <2>2, <5>1 DEF SectorsOf
      <4> QED
        BY <2>1, <2>3, <4>1, SegmentsApart
    <3> QED
      BY <2>1, <3>1, <3>2 DEF Untouched
  <2>4. WrittenTo(seg, at)
    BY <2>1 DEF ProgressInv
  <2>5. CASE at < LastSector(seg)
    <3>1. call' = call /\ at' = at + 1
      BY <1>8, <2>5 DEF WriteSector
    <3>2. WrittenTo(seg, at)'
      <4>1. \A x \in SectorsOf(seg) : x \in Int /\ x \in AllSectors
        BY <2>2 DEF SectorsOf
      <4>2. Ready(seg)'
        BY <2>1, <2>4 DEF WrittenTo, Ready, Erasable
      <4>3. ASSUME NEW x \in SectorsOf(seg)
            PROVE  /\ state'[x] = "EMPTY"
                   /\ x < at + 1 => data'[x] = call.val
                   /\ ~(x < at + 1) => data'[x] = before.data[x]
        <5>1. /\ state[x] = "EMPTY"
              /\ x < at => data[x] = call.val
              /\ ~(x < at) => data[x] = before.data[x]
          BY <2>4 DEF WrittenTo
        <5>2. x \in Int /\ x \in AllSectors
          BY <4>1
        <5>3. data'[x] = IF x = at THEN call.val ELSE data[x]
          BY <2>1, <5>2
        <5> QED
          BY <2>1, <2>2, <5>1, <5>2, <5>3
      <4> QED
        BY <2>1, <3>1, <4>2, <4>3 DEF WrittenTo
    <3> QED
      BY <2>1, <2>3, <3>1, <3>2 DEF ProgressInv
  <2>6. CASE ~(at < LastSector(seg))
    <3>1. call'.step = "mark" /\ at' = FirstSector(seg)
      BY <1>8, <2>6 DEF WriteSector, Goto, TypeOK
    <3>2. MarkedTo(seg, at)'
      <4>1. \A x \in SectorsOf(seg) : /\ x \in AllSectors
                                      /\ ~(x < FirstSector(seg))
                                      /\ x < at \/ x = at
        BY <2>2, <2>6 DEF SectorsOf
      <4>2. Ready(seg)'
        BY <2>1, <2>4 DEF WrittenTo, Ready, Erasable
      <4>3. ASSUME NEW x \in SectorsOf(seg)
            PROVE  data'[x] = call.val /\ state'[x] = "EMPTY"
        BY <2>1, <2>2, <2>4, <4>1 DEF WrittenTo
      <4> QED
        BY <2>1, <3>1, <4>1, <4>2, <4>3 DEF MarkedTo
    <3> QED
      BY <2>1, <2>3, <3>1, <3>2 DEF ProgressInv
  <2> QED
    BY <2>5, <2>6
<1>9. CASE MarkSector
  <2>1. /\ seg \in Segs /\ at \in SectorsOf(seg) /\ call.step = "mark"
        /\ state' = [state EXCEPT ![at] = "FULL"]
        /\ state \in [AllSectors -> {"EMPTY", "FULL"}]
        /\ UNCHANGED <<wear, data, before>>
    BY <1>9 DEF MarkSector, TypeOK
  <2>2. CASE at < LastSector(seg)
    <3>1. call' = call /\ at' = at + 1
      BY <1>9, <2>2 DEF MarkSector
    <3>2. MarkedTo(seg, at)
      BY <2>1 DEF ProgressInv
    <3>3. MarkedTo(seg, at)'
      <4>1. SectorsOf(seg) \subseteq AllSectors /\ at \in Int
            /\ \A x \in SectorsOf(seg) : x \in Int
        BY <2>1, SegmentPlace DEF SectorsOf
      <4>2. Ready(seg)'
        BY <2>1, <3>1, <3>2 DEF MarkedTo, Ready, Erasable
      <4>3. ASSUME NEW x \in SectorsOf(seg)
            PROVE  /\ data'[x] = call.val
                   /\ x < at + 1 => state'[x] = "FULL"
                   /\ ~(x < at + 1) => state'[x] = "EMPTY"
        BY <2>1, <3>2, <4>1 DEF MarkedTo
      <4> QED
        BY <2>1, <3>1, <4>2, <4>3 DEF MarkedTo
    <3>4. ASSUME NEW t \in Segs, t # seg
          PROVE  Untouched(t)'
      <4>1. Untouched(t)
        BY <2>1, <3>4 DEF ProgressInv
      <4>2. at \notin SectorsOf(t)
        <5>1. SegSize * seg \in Nat /\ SegSize * seg <= FirstSector(seg)
              /\ FirstSector(seg) \in Nat /\ LastSector(seg) \in Nat
          BY <2>1, SegmentPlace
        <5>2. at \in SegSize * seg .. LastSector(seg)
          BY <2>1, <5>1 DEF SectorsOf
        <5> QED
          BY <2>1, <3>4, <5>2, SegmentsApart
      <4> QED
        BY <2>1, <4>1, <4>2 DEF Untouched
    <3> QED
      BY <2>1, <3>1, <3>3, <3>4 DEF ProgressInv
  <2>3. CASE ~(at < LastSector(seg))
    BY <1>9, <2>3 DEF MarkSector, Return, NoCall, ProgressInv
  <2> QED
    BY <2>2, <2>3
<1> QED
  BY <1>1, <1>2, <1>3, <1>4, <1>5, <1>6, <1>7, <1>8, <1>9 DEF Next, Writer

LEMMA Invariant == Spec => []FlashInv
<1>1. Init => FlashInv
  BY InitTyped, InitWear DEF FlashInv, ProgressInv, Init, NoCall
<1>2. FlashInv /\ [Next]_vars => FlashInv'
  BY NextTyped, NextWear, NextProgress DEF FlashInv
<1> QED
  BY <1>1, <1>2, PTL DEF Spec

\* The flash never takes an overwrite: a sector changes only while it counts
\* as erased, whatever was killed before.
THEOREM ErasedBeforeWritten == Spec => OnlyErasedWritten
<1>1. FlashInv /\ [Next]_vars
          => [\A x \in AllSectors : data'[x] # data[x] => state[x] = "EMPTY"]_vars
  <2> SUFFICES ASSUME FlashInv, Next, NEW x \in AllSectors, data'[x] # data[x]
               PROVE  state[x] = "EMPTY"
    OBVIOUS
  <2>1. WriteSector
    BY DEF Next, Writer, StartRewrite, EraseRefused, WearBlock, ClearSector, WriteRefused,
       WriteStarts, MarkSector, Kill, tables
  <2>2. x = at /\ call.step = "data" /\ at \in SectorsOf(call.seg) /\ call.seg \in Segs
    BY <2>1 DEF WriteSector, FlashInv, TypeOK
  <2>3. WrittenTo(call.seg, at)
    BY <2>2 DEF FlashInv, ProgressInv
  <2> QED
    BY <2>2, <2>3 DEF WrittenTo
<1> QED
  BY <1>1, Invariant, PTL DEF Spec, OnlyErasedWritten
-----------------------------------------------------------------------------
(* The refinement of SegmentFlash. *)

\* A rewrite that goes on is not seen.
LEMMA Unseen ==
    ASSUME Seen' = Seen, killed' = killed
    PROVE  UNCHANGED SF!vars
BY DEF SF!vars, SegWear, SegWritten, SegData

\* A rewrite that ends shows what it has done to its segment, and nothing else.
LEMMA Ended ==
    ASSUME FlashInv, call.step # "none", call'.step = "none", UNCHANGED before,
           \A s \in Segs : s # call.seg => Untouched(s)',
           NEW seg, seg = call.seg
    PROVE  /\ SegWear' = [SegWear EXCEPT ![seg] = wear'[FirstBlock(seg)]]
           /\ SegWritten' = [SegWritten EXCEPT ![seg] = \E x \in SectorsOf(seg) : state'[x] = "FULL"]
           /\ SegData' = [SegData EXCEPT ![seg] = [x \in SectorsOf(seg) |-> data'[x]]]
<1>1. Seen = before /\ Seen' = [wear |-> wear', state |-> state', data |-> data']
  BY DEF Seen, Snapshot
<1>2. \A s \in Segs : s # seg =>
          /\ wear'[FirstBlock(s)] = before.wear[FirstBlock(s)]
          /\ \A x \in SectorsOf(s) : state'[x] = before.state[x] /\ data'[x] = before.data[x]
  BY DEF Untouched
<1>3. Seen'.wear = wear' /\ Seen'.state = state' /\ Seen'.data = data'
  BY <1>1
<1>4. SegWear' = [SegWear EXCEPT ![seg] = wear'[FirstBlock(seg)]]
  BY <1>1, <1>2, <1>3 DEF SegWear
<1>5. SegWritten' = [SegWritten EXCEPT ![seg] = \E x \in SectorsOf(seg) : state'[x] = "FULL"]
  <2> DEFINE Now(s) == \E x \in SectorsOf(s) : state'[x] = "FULL"
             Old(s) == \E x \in SectorsOf(s) : before.state[x] = "FULL"
  <2>1. ASSUME NEW s \in Segs, s # seg PROVE Now(s) = Old(s)
    <3>1. Now(s) <=> Old(s)
      BY <1>2, <2>1
    <3>2. Now(s) \in BOOLEAN /\ Old(s) \in BOOLEAN
      OBVIOUS
    <3> HIDE DEF Now, Old
    <3> QED
      BY <3>1, <3>2
  <2>2. SegWritten = [s \in Segs |-> Old(s)] /\ SegWritten' = [s \in Segs |-> Now(s)]
    BY <1>1, <1>3 DEF SegWritten
  <2> HIDE DEF Now, Old
  <2>3. [s \in Segs |-> Now(s)] = [[s \in Segs |-> Old(s)] EXCEPT ![seg] = Now(seg)]
    BY <2>1
  <2> QED
    BY <2>2, <2>3 DEF Now
<1>6. SegData' = [SegData EXCEPT ![seg] = [x \in SectorsOf(seg) |-> data'[x]]]
  BY <1>1, <1>2, <1>3 DEF SegData
<1> QED
  BY <1>4, <1>5, <1>6

\* SegmentFlash's terms, in the middle of a rewrite of seg
LEMMA Terms ==
    ASSUME FlashInv, call.step # "none", NEW seg \in Segs
    PROVE  /\ SF!EraseOk(seg) <=> Erasable(seg)
           /\ SegWritten[seg] <=> \E x \in SectorsOf(seg) : before.state[x] = "FULL"
           /\ SegWritten[seg] \in BOOLEAN
           /\ SegWear[seg] = before.wear[FirstBlock(seg)]
           /\ SegData[seg] = [x \in SectorsOf(seg) |-> before.data[x]]
           /\ SegWear = [SegWear EXCEPT ![seg] = SegWear[seg]]
           /\ SegWritten = [SegWritten EXCEPT ![seg] = SegWritten[seg]]
           /\ SegData = [SegData EXCEPT ![seg] = SegData[seg]]
<1>1. Seen = before
  BY DEF Seen
<1>2. SegWear[seg] = before.wear[FirstBlock(seg)]
  BY <1>1 DEF SegWear
<1>3. SegData[seg] = [x \in SectorsOf(seg) |-> before.data[x]]
  BY <1>1 DEF SegData
<1>4. /\ SegWritten[seg] <=> \E x \in SectorsOf(seg) : before.state[x] = "FULL"
      /\ SegWritten[seg] \in BOOLEAN
  BY <1>1 DEF SegWritten
<1>5. SF!EraseOk(seg) <=> Erasable(seg)
  BY <1>2 DEF SF!EraseOk, Erasable
<1>6. SegWear = [SegWear EXCEPT ![seg] = SegWear[seg]]
  BY DEF SegWear
<1>7. SegWritten = [SegWritten EXCEPT ![seg] = SegWritten[seg]]
  BY DEF SegWritten
<1>8. SegData = [SegData EXCEPT ![seg] = SegData[seg]]
  BY DEF SegData
<1> QED
  BY <1>2, <1>3, <1>4, <1>5, <1>6, <1>7, <1>8

\* A kill is one of the three kills of SegmentFlash.
LEMMA KillMaps ==
    ASSUME FlashInv, Kill
    PROVE  SF!Next
<1> DEFINE seg == call.seg
           W   == wear[FirstBlock(seg)]
           B   == before.wear[FirstBlock(seg)]
<1>1. /\ seg \in Segs /\ call.step # "none" /\ call'.step = "none" /\ killed' = TRUE
      /\ UNCHANGED <<wear, state, data, before>> /\ call.val \in Vals /\ call.step \in Steps
  BY DEF Kill, tables, NoCall, FlashInv, TypeOK, ProgressInv
<1>2. \A s \in Segs : s # seg => Untouched(s)'
  BY <1>1 DEF FlashInv, ProgressInv, Untouched
<1>3. /\ SegWear' = [SegWear EXCEPT ![seg] = W]
      /\ SegWritten' = [SegWritten EXCEPT ![seg] = \E x \in SectorsOf(seg) : state[x] = "FULL"]
      /\ SegData' = [SegData EXCEPT ![seg] = [x \in SectorsOf(seg) |-> data[x]]]
  BY <1>1, <1>2, Ended
<1>4. /\ SF!EraseOk(seg) <=> Erasable(seg)
      /\ SegWritten[seg] <=> \E x \in SectorsOf(seg) : before.state[x] = "FULL"
      /\ SegWritten[seg] \in BOOLEAN
      /\ SegWear[seg] = B
      /\ SegData[seg] = [x \in SectorsOf(seg) |-> before.data[x]]
      /\ SegWear = [SegWear EXCEPT ![seg] = SegWear[seg]]
      /\ SegWritten = [SegWritten EXCEPT ![seg] = SegWritten[seg]]
      /\ SegData = [SegData EXCEPT ![seg] = SegData[seg]]
  BY <1>1, Terms
<1>5. /\ FirstSector(seg) \in Nat /\ LastSector(seg) \in Nat /\ FirstSector(seg) <= LastSector(seg)
      /\ SectorsOf(seg) = FirstSector(seg) .. LastSector(seg)
  BY <1>1, SegmentPlace DEF SectorsOf
<1> DEFINE Full == \E x \in SectorsOf(seg) : state[x] = "FULL"
<1>6. Full \in BOOLEAN
  OBVIOUS
\* Before the erase: nothing has changed
<1>7. CASE Untouched(seg)
  <2>1. W = SegWear[seg] /\ (Full <=> SegWritten[seg])
        /\ [x \in SectorsOf(seg) |-> data[x]] = SegData[seg]
    BY <1>4, <1>7 DEF Untouched
  <2>2. Full = SegWritten[seg]
    <3> HIDE DEF Full
    <3> QED
      BY <2>1, <1>4, <1>6
  <2> QED
    BY <1>1, <1>3, <1>4, <2>1, <2>2 DEF SF!Next, SF!KilledEarly
\* Erased, in part or all of it
<1>8. ASSUME Erasable(seg), W = B + 1, \A x \in SectorsOf(seg) : data[x] = before.data[x],
             \A x \in SectorsOf(seg) : state[x] = "EMPTY" \/ state[x] = before.state[x]
      PROVE  SF!Next
  <2>1. SegWear' = SF!Erased(seg)
    BY <1>3, <1>4, <1>8 DEF SF!Erased
  <2>2. UNCHANGED SegData
    <3>1. [x \in SectorsOf(seg) |-> data[x]] = SegData[seg]
      BY <1>4, <1>8
    <3> QED
      BY <1>3, <1>4, <3>1
  <2>3. SegWritten' \in {SegWritten, [SegWritten EXCEPT ![seg] = FALSE]}
    <3>1. Full => SegWritten[seg]
      BY <1>4, <1>8
    <3>2. Full = SegWritten[seg] \/ Full = FALSE
      <4> HIDE DEF Full
      <4> QED
        BY <3>1, <1>4, <1>6
    <3> QED
      BY <1>3, <1>4, <3>2
  <2> QED
    BY <1>1, <1>4, <1>8, <2>1, <2>2, <2>3 DEF SF!Next, SF!KilledErasing
\* Written up to k, at least a sector
<1>9. ASSUME Ready(seg), NEW k \in SectorsOf(seg),
             \A x \in SectorsOf(seg) : data[x] = IF x <= k THEN call.val ELSE before.data[x],
             ~Full \/ (Full /\ k = LastSector(seg))
      PROVE  SF!Next
  <2>1. SF!WriteOk(seg)
    BY <1>4, <1>9 DEF SF!WriteOk, Ready
  <2>2. SegWear' = SF!Erased(seg)
    BY <1>3, <1>4, <1>9 DEF SF!Erased, Ready
  <2>3. SegData' = SF!Upto(seg, call.val, k)
    <3>1. [x \in SectorsOf(seg) |-> data[x]]
              = [x \in SectorsOf(seg) |-> IF x <= k THEN call.val ELSE before.data[x]]
      BY <1>9
    <3>2. [x \in SectorsOf(seg) |-> IF x <= k THEN call.val ELSE before.data[x]]
              = [x \in SectorsOf(seg) |-> IF x <= k THEN call.val ELSE SegData[seg][x]]
      BY <1>4
    <3> QED
      BY <1>1, <1>3, <3>1, <3>2 DEF SF!Upto, SegData
  <2>4. \/ SegWritten' = [SegWritten EXCEPT ![seg] = FALSE]
        \/ SF!Last(seg, k) /\ SegWritten' = [SegWritten EXCEPT ![seg] = TRUE]
    <3>1. k = LastSector(seg) => SF!Last(seg, k)
      BY <1>5 DEF SF!Last
    <3>2. Full = FALSE \/ (Full = TRUE /\ SF!Last(seg, k))
      <4> HIDE DEF Full
      <4> QED
        BY <3>1, <1>6, <1>9
    <3> QED
      BY <1>3, <3>2
  <2> QED
    BY <1>1, <2>1, <2>2, <2>3, <2>4 DEF SF!Next, SF!KilledWriting
<1>10. CASE call.step \in {"erase", "clear", "check"}
  <2>1. Untouched(seg) \/ \E k : ErasedTo(seg, k)
    BY <1>1, <1>10 DEF FlashInv, ProgressInv
  <2> QED
    BY <2>1, <1>7, <1>8 DEF ErasedTo
<1>11. CASE call.step = "data"
  <2>1. WrittenTo(seg, at) /\ at \in SectorsOf(seg) /\ ~Full
    BY <1>1, <1>11 DEF FlashInv, ProgressInv, TypeOK, WrittenTo
  <2>2. CASE at = FirstSector(seg)
    <3>1. \A x \in SectorsOf(seg) : data[x] = before.data[x] /\ state[x] = "EMPTY"
      BY <2>1, <2>2, <1>5 DEF WrittenTo
    <3>2. CASE Erasable(seg)
      BY <2>1, <3>1, <3>2, <1>8 DEF WrittenTo, Ready
    <3>3. CASE ~Erasable(seg)
      <4>1. Untouched(seg)
        BY <2>1, <3>1, <3>3 DEF WrittenTo, Ready, Untouched
      <4> QED
        BY <4>1, <1>7
    <3> QED
      BY <3>2, <3>3
  <2>3. CASE at # FirstSector(seg)
    <3>1. PICK k \in SectorsOf(seg) : k = at - 1
      BY <2>1, <2>3, <1>5
    <3>2. \A x \in SectorsOf(seg) : x <= k <=> x < at
      BY <2>1, <3>1, <1>5
    <3>3. \A x \in SectorsOf(seg) : data[x] = IF x <= k THEN call.val ELSE before.data[x]
      BY <2>1, <3>2 DEF WrittenTo
    <3>4. Ready(seg)
      BY <2>1 DEF WrittenTo
    <3> QED
      BY <2>1, <3>3, <3>4, <1>9
  <2> QED
    BY <2>2, <2>3
<1>12. CASE call.step = "mark"
  <2>1. MarkedTo(seg, at) /\ at \in SectorsOf(seg)
    BY <1>1, <1>12 DEF FlashInv, ProgressInv, TypeOK
  <2>2. PICK k \in SectorsOf(seg) : k = LastSector(seg)
    BY <1>5
  <2>3. \A x \in SectorsOf(seg) : data[x] = IF x <= k THEN call.val ELSE before.data[x]
    BY <2>1, <2>2, <1>5 DEF MarkedTo
  <2>4. Ready(seg)
    BY <2>1 DEF MarkedTo
  <2> QED
    BY <2>2, <2>3, <2>4, <1>9
<1> QED
  BY <1>1, <1>10, <1>11, <1>12 DEF Steps

\* A write is refused where the segment is worn out and was not left erased.
LEMMA RefusalMaps ==
    ASSUME FlashInv, WriteRefused
    PROVE  SF!Next
<1> DEFINE seg == call.seg
<1>1. /\ seg \in Segs /\ call.step = "check" /\ call'.step = "none" /\ killed' = FALSE
      /\ UNCHANGED <<wear, state, data, before>> /\ call.val \in Vals
      /\ \E x \in SectorsOf(seg) : state[x] = "FULL"
  BY DEF WriteRefused, Return, FullIn, tables, NoCall, FlashInv, TypeOK, ProgressInv
<1>2. Untouched(seg) /\ ~Erasable(seg)
  <2>1. \A x \in SectorsOf(seg) : x < LastSector(seg) + 1
    BY <1>1, SegmentPlace DEF SectorsOf
  <2> QED
    BY <1>1, <2>1 DEF FlashInv, ProgressInv, ErasedTo
<1>3. \A s \in Segs : Untouched(s) /\ Untouched(s)'
  BY <1>1, <1>2 DEF FlashInv, ProgressInv, Untouched
<1>4. /\ SegWear' = [SegWear EXCEPT ![seg] = wear[FirstBlock(seg)]]
      /\ SegWritten' = [SegWritten EXCEPT ![seg] = \E x \in SectorsOf(seg) : state[x] = "FULL"]
      /\ SegData' = [SegData EXCEPT ![seg] = [x \in SectorsOf(seg) |-> data[x]]]
  BY <1>1, <1>3, Ended
<1>5. /\ SF!EraseOk(seg) <=> Erasable(seg)
      /\ SegWritten[seg] <=> \E x \in SectorsOf(seg) : before.state[x] = "FULL"
      /\ SegWritten[seg] \in BOOLEAN
      /\ SegWear[seg] = before.wear[FirstBlock(seg)]
      /\ SegData[seg] = [x \in SectorsOf(seg) |-> before.data[x]]
      /\ SegWear = [SegWear EXCEPT ![seg] = SegWear[seg]]
      /\ SegWritten = [SegWritten EXCEPT ![seg] = SegWritten[seg]]
      /\ SegData = [SegData EXCEPT ![seg] = SegData[seg]]
  BY <1>1, Terms
<1>6. SegWritten[seg] = TRUE /\ (\E x \in SectorsOf(seg) : state[x] = "FULL") = TRUE
  BY <1>1, <1>2, <1>5 DEF Untouched
<1>7. UNCHANGED <<SegWear, SegWritten, SegData>>
  <2>1. [x \in SectorsOf(seg) |-> data[x]] = SegData[seg] /\ wear[FirstBlock(seg)] = SegWear[seg]
    BY <1>2, <1>5 DEF Untouched
  <2> QED
    BY <1>4, <1>5, <1>6, <2>1
<1>8. ~SF!WriteOk(seg) /\ SF!Erased(seg) = SegWear
  BY <1>2, <1>5, <1>6 DEF SF!WriteOk, SF!Erased
<1> QED
  BY <1>1, <1>7, <1>8 DEF SF!Next, SF!Rewrite

\* A rewrite that reaches its end has written the whole image.
LEMMA EndMaps ==
    ASSUME FlashInv, MarkSector, ~(at < LastSector(call.seg)), ProgressInv'
    PROVE  SF!Next
<1> DEFINE seg == call.seg
<1>1. /\ seg \in Segs /\ call.step = "mark" /\ call'.step = "none" /\ killed' = FALSE
      /\ UNCHANGED <<wear, data, before>> /\ call.val \in Vals
      /\ at \in SectorsOf(seg) /\ state' = [state EXCEPT ![at] = "FULL"]
      /\ state \in [AllSectors -> {"EMPTY", "FULL"}]
  BY DEF MarkSector, Return, NoCall, FlashInv, TypeOK, ProgressInv
<1>2. /\ FirstSector(seg) \in Nat /\ LastSector(seg) \in Nat
      /\ SectorsOf(seg) = FirstSector(seg) .. LastSector(seg)
      /\ SectorsOf(seg) \subseteq AllSectors
      /\ FirstSector(seg) <= LastSector(seg)
      /\ SegSize * seg \in Nat /\ SegSize * seg <= FirstSector(seg)
  BY <1>1, SegmentPlace DEF SectorsOf
<1>3. ASSUME NEW s \in Segs, s # seg
      PROVE  Untouched(s)'
  <2>1. Untouched(s)
    BY <1>1, <1>3 DEF FlashInv, ProgressInv
  <2>2. at \in SegSize * seg .. LastSector(seg)
    BY <1>1, <1>2
  <2>3. at \notin SectorsOf(s)
    BY <1>1, <1>3, <2>2, SegmentsApart
  <2> QED
    BY <1>1, <2>1, <2>3 DEF Untouched
<1>4. /\ SegWear' = [SegWear EXCEPT ![seg] = wear[FirstBlock(seg)]]
      /\ SegWritten' = [SegWritten EXCEPT ![seg] = \E x \in SectorsOf(seg) : state'[x] = "FULL"]
      /\ SegData' = [SegData EXCEPT ![seg] = [x \in SectorsOf(seg) |-> data[x]]]
  BY <1>1, <1>3, Ended
<1>5. /\ SF!EraseOk(seg) <=> Erasable(seg)
      /\ SegWritten[seg] <=> \E x \in SectorsOf(seg) : before.state[x] = "FULL"
      /\ SegWear[seg] = before.wear[FirstBlock(seg)]
      /\ SegWear = [SegWear EXCEPT ![seg] = SegWear[seg]]
  BY <1>1, Terms
<1>6. MarkedTo(seg, at)
  BY <1>1 DEF FlashInv, ProgressInv
<1>7. (\E x \in SectorsOf(seg) : state'[x] = "FULL") = TRUE
  BY <1>1, <1>2
<1>8. SF!WriteOk(seg)
  BY <1>5, <1>6 DEF SF!WriteOk, MarkedTo, Ready
<1>9. SegWear' = SF!Erased(seg)
  BY <1>4, <1>5, <1>6 DEF SF!Erased, MarkedTo, Ready
<1>10. \E k \in SectorsOf(seg) : SF!Last(seg, k) /\ SegData' = SF!Upto(seg, call.val, k)
  <2>1. PICK k \in SectorsOf(seg) : k = LastSector(seg)
    BY <1>2
  <2>2. \A x \in SectorsOf(seg) : x <= k
    BY <2>1, <1>2
  <2>3. [x \in SectorsOf(seg) |-> data[x]]
            = [x \in SectorsOf(seg) |-> IF x <= k THEN call.val ELSE SegData[seg][x]]
    BY <2>2, <1>6 DEF MarkedTo
  <2>4. SF!Last(seg, k)
    BY <2>2 DEF SF!Last
  <2>5. SegData' = SF!Upto(seg, call.val, k)
    BY <1>4, <2>3 DEF SF!Upto
  <2> QED
    BY <2>4, <2>5, Zenon
<1> QED
  BY <1>1, <1>4, <1>7, <1>8, <1>9, <1>10 DEF SF!Next, SF!Rewrite

LEMMA InitMaps == Init => SF!Init
<1> SUFFICES ASSUME Init PROVE SF!Init
  OBVIOUS
<1>1. Seen.wear = wear /\ Seen.state = state /\ Seen.data = data
  BY DEF Init, Seen, Snapshot, NoCall
<1>c. CpSeg \in Segs
  BY FlashAssumption DEF CpSeg, Segs
<1>2. ASSUME NEW s \in Segs
      PROVE  wear[FirstBlock(s)] = IF s = CpSeg THEN 1 ELSE 0
  <2>1. FirstBlock(s) \in FirstBlock(s) .. LastBlock(s) /\ FirstBlock(s) \in EBlocks
    BY SegmentPlace
  <2>2. s # CpSeg => FirstBlock(s) \notin FirstBlock(CpSeg) .. LastBlock(CpSeg)
    BY <1>c, <2>1, SegmentsApart
  <2> QED
    BY <2>1, <2>2 DEF Init
<1>3. ASSUME NEW s \in Segs
      PROVE  \E x \in SectorsOf(s) : state[x] = "FULL"
  <2>1. LastSector(s) \in SectorsOf(s) /\ LastSector(s) \in AllSectors
    BY SegmentPlace DEF SectorsOf
  <2>2. LastSector(s) \notin SegSize * CpSeg .. FirstSector(CpSeg) - 1
    <3>1. CASE s = CpSeg
      BY <3>1, SegmentPlace
    <3>2. CASE s # CpSeg
      <4>1. FirstSector(CpSeg) - 1 <= LastSector(CpSeg) /\ FirstSector(CpSeg) \in Nat
            /\ LastSector(CpSeg) \in Nat
        BY <1>c, SegmentPlace
      <4>2. SegSize * CpSeg \in Nat
        BY <1>c, SegmentPlace
      <4> QED
        BY <1>c, <2>1, <3>2, <4>1, <4>2, SegmentsApart
    <3> QED
      BY <3>1, <3>2
  <2> QED
    BY <2>1, <2>2 DEF Init
<1>4. \A s \in Segs : \A x \in SectorsOf(s) : data[x] = Blank
  BY SegmentPlace DEF Init
<1>5. SegWear = [s \in Segs |-> IF s = CpSeg THEN 1 ELSE 0]
  BY <1>1, <1>2 DEF SegWear
<1>6. SegWritten = [s \in Segs |-> TRUE]
  BY <1>1, <1>3 DEF SegWritten
<1>7. SegData = [s \in Segs |-> [x \in SectorsOf(s) |-> Blank]]
  BY <1>1, <1>4 DEF SegData
<1> QED
  BY <1>5, <1>6, <1>7 DEF Init, SF!Init

LEMMA StepMaps == FlashInv /\ ProgressInv' /\ [Next]_vars => [SF!Next]_(SF!vars)
<1> SUFFICES ASSUME FlashInv, ProgressInv', [Next]_vars
             PROVE  SF!Next \/ UNCHANGED SF!vars
  OBVIOUS
<1>1. CASE UNCHANGED vars
  BY <1>1, Unseen DEF vars, tables, Seen, Snapshot
<1>2. ASSUME NEW s \in Segs, NEW v \in Vals, StartRewrite(s, v)
      PROVE  UNCHANGED SF!vars
  BY <1>2, Unseen DEF StartRewrite, Seen, Snapshot
<1>3. CASE EraseRefused \/ WearBlock \/ ClearSector \/ WriteStarts \/ WriteSector
  <2>1. call.step # "none" /\ call'.step # "none" /\ UNCHANGED <<before, killed>>
    BY <1>3 DEF EraseRefused, WearBlock, ClearSector, WriteStarts, WriteSector, Goto,
       FlashInv, TypeOK
  <2> QED
    BY <2>1, Unseen DEF Seen
<1>4. CASE MarkSector /\ at < LastSector(call.seg)
  <2>1. call.step # "none" /\ call'.step # "none" /\ UNCHANGED <<before, killed>>
    BY <1>4 DEF MarkSector
  <2> QED
    BY <2>1, Unseen DEF Seen
<1> QED
  BY <1>1, <1>2, <1>3, <1>4, EndMaps, RefusalMaps, KillMaps DEF Next, Writer

\* A rewrite of a segment, whether it ends, is refused or is killed before any
\* write to the underlying file, has one of the outcomes of SegmentFlash, the
\* ones on which module Log is built.
THEOREM Implements == Spec => ImplementsSegmentFlash
<1>1. FlashInv /\ FlashInv' /\ [Next]_vars => [SF!Next]_(SF!vars)
  BY StepMaps DEF FlashInv
<1> QED
  BY <1>1, InitMaps, Invariant, PTL DEF Spec, ImplementsSegmentFlash, SF!Spec
=============================================================================
