------------------------------- MODULE Format -------------------------------
(***************************************************************************)
(* mklfs and Log_Create make the file system, LFS's main reads it back:    *)
(* which segment becomes what, from the options -l, -s and -b.  One write  *)
(* of a segment per step; a kill may come between any two.                 *)
(*                                                                         *)
(* Sizes are those of a 64-bit build, in bytes.  Of what a segment holds   *)
(* the model keeps what it is for; the checkpoint is laid out as far as    *)
(* the address of the log's tail at its end is concerned.                  *)
(***************************************************************************)
EXTENDS Integers

CONSTANT Options   \* bound: the options tried, [l, s, b : Nat]

ASSUME OptionsAssumption == Options \subseteq [l : Nat, s : Nat, b : Nat]

Sector == 512          \* FLASH_SECTOR_SIZE
EraseSectors == 16     \* FLASH_SECTORS_PER_BLOCK
SizeCheckpoint == 32
SizeInode == 104
SizeUsage == 32        \* Seg_usage_table
SizeTime == 8
SizeAddr == 8          \* LogAddress
SizeHead == 40         \* Seg, Begin_bk, Seg_sum_bk
SizeEntry == 24        \* Seg_sum_entry

SegSize(o) == o.l * o.b
SegNum(o)  == (o.s \div o.b) \div o.l
BlockBytes(o) == o.b * Sector
PartBytes(o)  == (o.l - 1) * BlockBytes(o)   \* of a segment, without block 0

Ceil(a, b) == (a + b - 1) \div b

\* A variant that forgets the inode of the ifile
CalTmpNoInode(o) == SizeCheckpoint + SizeUsage * (SegNum(o) - 1) + SizeAddr

\* The bytes Log_Create counts on for a checkpoint, and those that
\* store_checkpoint writes: a time stamp more
CalTmp(o) == SizeCheckpoint + SizeInode + SizeUsage * (SegNum(o) - 1) + SizeAddr
LastAddrAt(o) == SizeCheckpoint + SizeInode + SizeUsage * (SegNum(o) - 1) + SizeTime
Stored(o) == LastAddrAt(o) + SizeAddr

\* checkpoint_size, in blocks, and the segments of a checkpoint
CheckpointSize(o) == Ceil(Ceil(CalTmp(o), BlockBytes(o)), o.l - 1) * (o.l - 1)
Parts(o) == CheckpointSize(o) \div (o.l - 1)

\* A variant that forgets the checkpoint's own segments
FirstDataAtOne(o) == 1
FirstData(o) == Parts(o) + 1

SummaryFits(o) == SizeHead + SizeEntry * (o.l - 1) <= BlockBytes(o)

\* A variant that takes part of a segment for one more
LastSegRoundedUp(o) == Ceil(o.s, SegSize(o)) - 1
LastSeg(o) == SegNum(o) - 1

\* Calls that divide by zero, for seg_num in mklfs, for bks_per_seg - 1 in
\* Log_Create, and those that are refused.  A number of blocks that is no whole
\* number of segments is reported only.
Stops(o) == \/ o.b = 0 \/ o.l \in {0, 1}
            \/ SegNum(o) < 16
            \/ o.s % EraseSectors # 0
            \/ SegSize(o) % EraseSectors # 0
            \/ SegSize(o) > o.s
            \/ o.s % o.b # 0
-----------------------------------------------------------------------------
VARIABLES
    opt,     \* the options mklfs was called with
    pc,      \* where mklfs, and then LFS, stands
    next,    \* the next segment mklfs writes
    flash,   \* what the segments hold
    tail,    \* tail_log_addr of LFS, <<segment, block>>
    killed   \* history: mklfs did not come to its end

vars == <<opt, pc, next, flash, tail, killed>>

Segs  == DOMAIN flash
Kinds == {"blank", "super", "checkpoint", "segment", "overlapped"}

TypeOK ==
    /\ opt \in Options
    /\ pc \in {"start", "super", "checkpoint", "segments", "over", "mounted", "stopped"}
    /\ pc \notin {"start", "stopped"} =>
           /\ next \in 0 .. SegNum(opt)
           /\ flash \in [0 .. SegNum(opt) - 1 -> Kinds]
           /\ tail \in (0 .. SegNum(opt) - 1) \X (0 .. opt.l - 1)
    /\ killed \in BOOLEAN

Init == /\ opt \in Options
        /\ pc = "start" /\ next = 0 /\ flash = [s \in {} |-> "blank"] /\ tail = <<0, 0>>
        /\ killed = FALSE
-----------------------------------------------------------------------------
\* mklfs looks at its options, Flash_Create makes the flash
Check ==
    /\ pc = "start"
    /\ IF Stops(opt) THEN pc' = "stopped" /\ UNCHANGED flash
       ELSE pc' = "super" /\ flash' = [s \in 0 .. SegNum(opt) - 1 |-> "blank"]
    /\ UNCHANGED <<opt, next, tail, killed>>

WriteNext(what) == flash' = [flash EXCEPT ![next] = what]

\* Log_Create: the superblock, with a list of one checkpoint segment; in memory
\* the list is then made as long as the checkpoint needs.
WriteSuper ==
    /\ pc = "super" /\ WriteNext("super")
    /\ pc' = "checkpoint" /\ next' = 1
    /\ UNCHANGED <<opt, tail, killed>>

\* store_checkpoint, one segment of that list
StorePart ==
    /\ pc = "checkpoint" /\ WriteNext("checkpoint")
    /\ IF next < Parts(opt) THEN next' = next + 1 /\ UNCHANGED pc
       ELSE next' = FirstData(opt) /\ pc' = "segments"
    /\ UNCHANGED <<opt, tail, killed>>

\* An empty segment.  Its summary begins in block 0, and runs on into block 1
\* if it is too long.
FormatSegment ==
    /\ pc = "segments" /\ next <= LastSeg(opt)
    /\ WriteNext(IF SummaryFits(opt) THEN "segment" ELSE "overlapped")
    /\ next' = next + 1
    /\ UNCHANGED <<opt, pc, tail, killed>>

Finish == /\ pc = "segments" /\ next > LastSeg(opt) /\ pc' = "over"
          /\ UNCHANGED <<opt, next, flash, tail, killed>>

Kill == /\ pc \in {"super", "checkpoint", "segments"}
        /\ pc' = "over" /\ killed' = TRUE
        /\ UNCHANGED <<opt, next, flash, tail>>

\* get_checkpoint_to_memory reads what the list in the superblock leads to, one
\* segment; past that its buffer holds zeros.
LastAddr == IF flash[1] = "checkpoint" /\ Stored(opt) <= PartBytes(opt)
            THEN <<2, 1>> ELSE <<0, 0>>

\* LFS: without a superblock it divides by bk_size = 0.
Mount ==
    /\ pc = "over"
    /\ IF flash[0] = "super"
       THEN pc' = "mounted" /\ tail' = LastAddr
       ELSE pc' = "stopped" /\ UNCHANGED tail
    /\ UNCHANGED <<opt, next, flash, killed>>

Next == Check \/ WriteSuper \/ StorePart \/ FormatSegment \/ Finish \/ Kill \/ Mount

Spec == Init /\ [][Next]_vars
-----------------------------------------------------------------------------
\* The buffer that store_checkpoint fills has room for all it puts there, the
\* time stamp that Log_Create has not counted included.
CheckpointFits ==
    pc \notin {"start", "stopped"} =>
        Stored(opt) <= CheckpointSize(opt) * BlockBytes(opt)

\* No segment is written over: mklfs erases none but those of the checkpoint,
\* and Flash_Write refuses what is not erased.
WrittenOnce == [][\A s \in Segs : flash[s] # "blank" => flash'[s] = flash[s]]_vars

\* The file system that module Log is about
LogLayout ==
    /\ flash = [s \in 0 .. SegNum(opt) - 1 |->
                   IF s = 0 THEN "super" ELSE IF s = 1 THEN "checkpoint" ELSE "segment"]
    /\ tail = <<2, 1>>

\* What mklfs makes is mounted as the file system module Log is about if, and
\* only if, a checkpoint fits one segment and a summary one block.  mklfs
\* refuses no other options.
LayoutForLog ==
    pc = "mounted" /\ ~killed =>
        (LogLayout <=> Stored(opt) <= PartBytes(opt) /\ SummaryFits(opt))

\* log.h:211 of tail_log_addr: it points to the address where "could start to
\* write data": a block of a segment made for it.
TailWritable ==
    pc = "mounted" /\ ~killed =>
        flash[tail[1]] \in {"segment", "overlapped"} /\ tail[2] # 0
=============================================================================
