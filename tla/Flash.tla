------------------------------- MODULE Flash -------------------------------
(***************************************************************************)
(* The virtual flash (flash.c) under its one kind of writer: log.c erases  *)
(* the erase blocks of a segment with Flash_Erase, writes its sectors with *)
(* Flash_Write, and looks at neither result (pushToDisk, Log_Destroy,      *)
(* store_checkpoint).  Every write to the underlying file is a step, and   *)
(* the process may be killed before any of them.  Within a write of data   *)
(* the sectors reach the file in order.                                    *)
(***************************************************************************)
EXTENDS Integers

CONSTANTS
    NumSegs,          \* segments, the super segment (0) included
    BlocksPerSeg,     \* erase blocks of a segment: seg_size / SectorsPerBlock
    SectorsPerBlock,  \* FLASH_SECTORS_PER_BLOCK (16 in the code)
    BkSize,           \* bk_size: sectors of a log block
    WearLimit,
    Vals,             \* images a segment is rewritten with
    Blank             \* the image mklfs has written

ASSUME FlashAssumption ==
    /\ NumSegs \in Nat /\ NumSegs >= 2
    /\ BlocksPerSeg \in Nat \ {0} /\ SectorsPerBlock \in Nat \ {0}
    /\ BkSize \in 1 .. BlocksPerSeg * SectorsPerBlock - 1
    /\ WearLimit \in Nat \ {0}

CpSeg   == 1
SegSize == BlocksPerSeg * SectorsPerBlock
Segs    == 1 .. NumSegs - 1               \* the super segment is written once
EBlocks == 0 .. NumSegs * BlocksPerSeg - 1
AllSectors == 0 .. NumSegs * SegSize - 1

FirstBlock(s) == BlocksPerSeg * s
LastBlock(s)  == BlocksPerSeg * (s + 1) - 1

\* store_checkpoint leaves block 0 of its segment alone
FirstSector(s) == SegSize * s + (IF s = CpSeg THEN BkSize ELSE 0)
LastSector(s)  == SegSize * (s + 1) - 1
SectorsOf(s)   == FirstSector(s) .. LastSector(s)

VARIABLES
    wear,     \* the wear table: erase count of an erase block
    state,    \* the state table: EMPTY or FULL, per sector
    data,     \* the sectors
    call,     \* where the writer is: the step, the segment, the image
    at,       \* the loop variable i of Flash_Erase and Flash_Write
    sec,      \* the inner loop's sector in Flash_Erase
    before,   \* history: the flash when the writer started
    killed    \* history: the last writer was killed

tables == <<wear, state, data>>
vars   == <<wear, state, data, call, at, sec, before, killed>>

Steps    == {"none", "erase", "clear", "check", "data", "mark"}
NoCall   == [step |-> "none", seg |-> CpSeg, val |-> Blank]
Snapshot == [wear |-> wear, state |-> state, data |-> data]

TypeOK ==
    /\ wear \in [EBlocks -> 0 .. WearLimit]
    /\ state \in [AllSectors -> {"EMPTY", "FULL"}]
    /\ data \in [AllSectors -> Vals \cup {Blank}]
    /\ call \in [step : Steps, seg : Segs, val : Vals \cup {Blank}]
    /\ call.step \in {"erase", "clear"} => at \in FirstBlock(call.seg) .. LastBlock(call.seg)
    /\ call.step = "clear" => sec \in SectorsPerBlock * at .. SectorsPerBlock * (at + 1) - 1
    /\ call.step \in {"data", "mark"} => at \in SectorsOf(call.seg)
    /\ before \in [wear : [EBlocks -> 0 .. WearLimit],
                   state : [AllSectors -> {"EMPTY", "FULL"}],
                   data : [AllSectors -> Vals \cup {Blank}]]
    /\ killed \in BOOLEAN

\* Flash_Create and Log_Create: every segment written once, the checkpoint's
\* by store_checkpoint
Init ==
    /\ wear = [b \in EBlocks |->
                  IF b \in FirstBlock(CpSeg) .. LastBlock(CpSeg) THEN 1 ELSE 0]
    /\ state = [x \in AllSectors |->
                   IF x \in SegSize * CpSeg .. FirstSector(CpSeg) - 1
                   THEN "EMPTY" ELSE "FULL"]
    /\ data = [x \in AllSectors |-> Blank]
    /\ call = NoCall /\ at = 0 /\ sec = 0
    /\ before = Snapshot /\ killed = FALSE

Goto(step) == call' = [call EXCEPT !.step = step] /\ UNCHANGED killed
Return     == call' = NoCall /\ killed' = FALSE /\ UNCHANGED <<at, sec>>

\* The number of the erase block pushToDisk, Log_Destroy and store_checkpoint
\* pass on; a variant numbers the blocks of the flash from 1
EraseFromOne(s) == FirstBlock(s) + 1
EraseFrom(s)    == FirstBlock(s)

StartRewrite(s, v) ==
    /\ call.step = "none"
    /\ call' = [step |-> "erase", seg |-> s, val |-> v]
    /\ at' = EraseFrom(s)
    /\ before' = Snapshot
    /\ UNCHANGED <<tables, sec, killed>>

\* Flash_Erase refuses a block at the limit; a variant allows one erase more
WornOutLate(b) == wear[b] > WearLimit
WornOut(b)     == wear[b] >= WearLimit

EraseRefused ==
    /\ call.step = "erase" /\ WornOut(at)
    /\ Goto("check")
    /\ UNCHANGED <<tables, at, sec, before>>

WearBlock ==
    /\ call.step = "erase" /\ ~WornOut(at)
    /\ wear' = [wear EXCEPT ![at] = @ + 1]
    /\ sec' = SectorsPerBlock * at
    /\ Goto("clear")
    /\ UNCHANGED <<state, data, at, before>>

\* A variant in which an erase leaves the state of the sectors alone
ClearedNot(x) == state
Cleared(x)    == [state EXCEPT ![x] = "EMPTY"]

ClearSector ==
    /\ call.step = "clear"
    /\ state' = Cleared(sec)
    /\ IF sec < SectorsPerBlock * (at + 1) - 1
       THEN sec' = sec + 1 /\ UNCHANGED <<call, at, killed>>
       ELSE IF at < LastBlock(call.seg)
            THEN at' = at + 1 /\ Goto("erase") /\ UNCHANGED sec
            ELSE Goto("check") /\ UNCHANGED <<at, sec>>
    /\ UNCHANGED <<wear, data, before>>

\* Flash_Write asks for all its sectors first; a variant asks for one of them
FullFirst(s) == state[FirstSector(s)] = "FULL"
FullIn(s)    == \E x \in SectorsOf(s) : state[x] = "FULL"

WriteRefused ==
    /\ call.step = "check" /\ FullIn(call.seg)
    /\ Return
    /\ UNCHANGED <<tables, before>>

WriteStarts ==
    /\ call.step = "check" /\ ~FullIn(call.seg)
    /\ at' = FirstSector(call.seg)
    /\ Goto("data")
    /\ UNCHANGED <<tables, sec, before>>

WriteSector ==
    /\ call.step = "data"
    /\ data' = [data EXCEPT ![at] = call.val]
    /\ IF at < LastSector(call.seg)
       THEN at' = at + 1 /\ UNCHANGED <<call, killed>>
       ELSE at' = FirstSector(call.seg) /\ Goto("mark")
    /\ UNCHANGED <<wear, state, sec, before>>

MarkSector ==
    /\ call.step = "mark"
    /\ state' = [state EXCEPT ![at] = "FULL"]
    /\ IF at < LastSector(call.seg)
       THEN at' = at + 1 /\ UNCHANGED <<call, sec, killed>>
       ELSE Return
    /\ UNCHANGED <<wear, data, before>>

Kill ==
    /\ call.step # "none"
    /\ call' = NoCall /\ killed' = TRUE
    /\ UNCHANGED <<tables, at, sec, before>>

Writer == \/ EraseRefused \/ WearBlock \/ ClearSector
          \/ WriteRefused \/ WriteStarts \/ WriteSector \/ MarkSector

Next ==
    \/ \E s \in Segs, v \in Vals : StartRewrite(s, v)
    \/ Writer
    \/ Kill

Spec == Init /\ [][Next]_vars

\* A process that runs goes on with its loops; it need not start a rewrite, and
\* need not be killed.
FairSpec == Spec /\ WF_vars(Writer)
-----------------------------------------------------------------------------
\* Only erased sectors are ever written, kill or no kill: the flash never
\* takes an overwrite (FlashGetState, checked for the whole range first).
OnlyErasedWritten ==
    [][\A x \in AllSectors : data'[x] # data[x] => state[x] = "EMPTY"]_vars

\* Within a segment no erase block has worn more than the first.  A segment's
\* erase can thus be refused at its first block only, before anything of it
\* is erased, however often earlier erases were cut short by a kill.
FirstBlockWearsMost ==
    \A s \in Segs : \A b \in FirstBlock(s) .. LastBlock(s) :
        wear[b] <= wear[FirstBlock(s)]

\* A rewrite of a segment that can still be erased comes to an end, and unless
\* the process is killed in it the segment then holds the new image, whole:
\* whatever state earlier kills have left its sectors in.
RewriteLands ==
    \A s \in Segs, v \in Vals :
        (/\ call = [step |-> "erase", seg |-> s, val |-> v]
         /\ at = EraseFrom(s) /\ ~WornOut(at))
        ~> (/\ call.step = "none"
            /\ killed \/ \A x \in SectorsOf(s) : data[x] = v)

\* Project_Goal, section 3: "You'll need two checkpoints in case you crash
\* while writing a checkpoint."  The one there is holds one checkpoint, whole,
\* whenever nobody is writing it.
CheckpointWhole ==
    call.step = "none" =>
        \A x, y \in SectorsOf(CpSeg) : data[x] = data[y]

\* What the flash is to the segments' writer, who sees nothing in between
Seen == IF call.step = "none" THEN Snapshot ELSE before

SegWear    == [s \in Segs |-> Seen.wear[FirstBlock(s)]]
SegWritten == [s \in Segs |-> \E x \in SectorsOf(s) : Seen.state[x] = "FULL"]
SegData    == [s \in Segs |-> [x \in SectorsOf(s) |-> Seen.data[x]]]

SF == INSTANCE SegmentFlash WITH
    Sectors <- SectorsOf, wear <- SegWear, written <- SegWritten, data <- SegData

\* A rewrite, run to its end or killed anywhere, comes out as one of the few
\* outcomes of SegmentFlash: all, nothing, erased, or cut off in the middle.
ImplementsSegmentFlash == SF!Spec
=============================================================================
