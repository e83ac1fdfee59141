-------------------------------- MODULE Log --------------------------------
(***************************************************************************)
(* The log layer (log.c), the guard of the cleaner (clean.c) and the mount *)
(* and unmount code of LFS.c, at the granularity of one Log_Write.         *)
(*                                                                         *)
(* The flash is an array of segments; every segment but the super segment  *)
(* and the checkpoint segment holds BksPerSeg - 1 data blocks and, in      *)
(* block 0, a summary that names the file of each block.  One segment, the *)
(* tail segment, is kept in memory (seg_in_memory) and rewritten to flash  *)
(* as a whole when nothing after the tail is usable in it.                 *)
(*                                                                         *)
(* Lost in a crash: tail, mem, avail, ifile, inode, pend.                  *)
(* On flash:        disk, wear, written, cp.                               *)
(* The clients are the File_Write of a data block followed by the          *)
(* Flush_Ino that rewrites the ifile block with the file's inode (dir.c).  *)
(* A file has one block here, and an inode is the address of that block.   *)
(* Inodes are used from memory and loaded from the ifile by a mount only.  *)
(***************************************************************************)
EXTENDS Integers

CONSTANTS
    NumSegs,      \* seg_num: segments of the flash, super segment included
    BksPerSeg,    \* bks_per_seg: blocks of a segment, the summary included
    MinAvail,     \* MIN_AVAILABLE_SEG_NUM of clean.c (6 in the code)
    WearLimit,    \* wearlimit given to mklfs
    Files,        \* inode numbers >= 0
    IFILE,        \* -1: the ifile's inode number, and the mark of an unused
                  \* block in a summary: one and the same number in the code
    IfBlks,       \* blocks of the ifile
    IfBlkOf,      \* the ifile block that holds the inode of a file
    Vals,         \* contents of a data block
    Blank,        \* content of a block mklfs has formatted
    Null,         \* FREE_BLOCK_NUM in a block pointer
    Garbage       \* an inode read from a block that is not the ifile's

ASSUME SizesAssumption ==
    /\ NumSegs \in Nat /\ NumSegs >= 4
    /\ BksPerSeg \in Nat /\ BksPerSeg >= 3
    /\ MinAvail \in 1 .. NumSegs
    /\ WearLimit \in Nat /\ WearLimit >= 1
ASSUME NamesAssumption ==
    /\ IFILE \notin Files
    /\ IfBlkOf \in [Files -> IfBlks]

CpSeg   == 1                          \* the checkpoint segment, fixed by mklfs
LogSegs == 2 .. NumSegs - 1
Segs    == {CpSeg} \cup LogSegs
Blks    == 1 .. BksPerSeg - 1
Addr    == [seg : LogSegs, bk : Blks]
PtrType == Addr \cup {Null}
At(s, b) == [seg |-> s, bk |-> b]

ASSUME NullAssumption == Null \notin Addr

FilesOf(i) == {f \in Files : IfBlkOf[f] = i}
Inodes     == PtrType \cup {Garbage}
Tables(i)  == [FilesOf(i) -> Inodes]        \* the inodes of one ifile block
Content    == {Blank} \cup Vals \cup UNION {Tables(i) : i \in IfBlks}
Block      == [file_no : Files \cup {IFILE}, data : Content]
SegImage   == [Blks -> Block]
Version    == [addr : PtrType, data : Content]
NoData     == [addr |-> Null, data |-> Blank]

VARIABLES
    disk,     \* the data blocks and their summary entries, per log segment
    wear,     \* erase count of a segment
    written,  \* the sectors of the segment are in state FULL
    cp,       \* the checkpoint: last_log_addr and the inode of the ifile
    tail,     \* tail_log_addr
    mem,      \* seg_in_memory, with the number in its begin_bk
    avail,    \* available_seg_num
    ifile,    \* inode_ifile (checkpoint->ifile): where each ifile block is
    inode,    \* the array ifile[] of dir.c: the inodes in memory
    pend,     \* the file whose inode is changed and not yet flushed
    pc        \* where the process is

(***************************************************************************)
(* History of what the clients did, read by no action.                     *)
(***************************************************************************)
VARIABLES
    cur,      \* per file, where its block was last written, and what
    saved,    \* cur as of the last unmount whose ifile reached the checkpoint
    overrun,  \* setLogTail once found no usable block anywhere
    wrapped,  \* setLogTail once searched again from the first segment
    worn,     \* a segment or a checkpoint once failed to reach the flash
    torn,     \* cp has the ifile of an unmount that was cut short, and the
              \* tail of the one before
    lost      \* a checkpoint was once stored by a log overrun or worn, or
              \* once mounted from when torn

flash    == <<disk, wear, written, cp>>
volatile == <<tail, mem, avail, ifile, inode, pend>>
history  == <<cur, saved, overrun, wrapped, worn, torn, lost>>
vars     == <<flash, volatile, pc, history>>

Mounted == pc \in {"idle", "flush", "ckpt"}

TypeOK ==
    /\ disk \in [LogSegs -> SegImage]
    /\ wear \in [Segs -> 0 .. WearLimit]
    /\ written \in [Segs -> BOOLEAN]
    /\ cp \in [tail : Addr, ifile : [IfBlks -> PtrType]]
    /\ tail \in Addr
    /\ mem \in [seg_no : LogSegs, bks : SegImage]
    /\ avail \in MinAvail - 1 .. NumSegs
    /\ ifile \in [IfBlks -> PtrType]
    /\ inode \in [Files -> Inodes]
    /\ pend \in Files \cup {Null}
    /\ pc \in {"down", "idle", "flush", "ckpt", "segv"}
    /\ pc = "flush" => pend \in Files
    /\ cur \in [Files -> Version]
    /\ saved \in [Files -> Version]
    /\ overrun \in BOOLEAN /\ wrapped \in BOOLEAN /\ worn \in BOOLEAN
    /\ torn \in BOOLEAN /\ lost \in BOOLEAN

-----------------------------------------------------------------------------
(***************************************************************************)
(* The tail.  d and w are the flash contents and the wear the C code reads *)
(* at that point: pushToDisk asks before it writes the segment, setLogTail *)
(* after.                                                                  *)
(***************************************************************************)
FreshSeg == [b \in Blks |-> [file_no |-> IFILE, data |-> Blank]]

\* find_wear_bk numbers the sectors from 1, so the wear that is looked up is
\* that of the next erase block (one per segment here); past the last one
\* Flash_GetWear reads what follows the wear table: the superblock's first
\* word, its seg_no, 0.
WearSeen(w, a)    == IF a.seg + 1 \in Segs THEN w[a.seg + 1] ELSE 0
InWearLimit(w, a) == ~(WearSeen(w, a) > WearLimit)

\* A variant of InUse that trusts no summary
InUseForgotten(d, a) == FALSE

\* is_bk_in_use reads the summary on flash, never seg_in_memory
InUse(d, a)       == d[a.seg][a.bk].file_no # IFILE

Usable(d, w, a)   == InWearLimit(w, a) /\ ~InUse(d, a)

\* is_remain_seg_not_usable: nothing usable strictly after a in its segment
RemainNotUsable(d, w, a) ==
    \A b \in Blks : b > a.bk => ~Usable(d, w, At(a.seg, b))

\* A variant of FirstUsable that starts at a given block without looking
NextBlockUnchecked(d, w, s, from, t) == t = At(s, from)

\* locate_tail_log_addr_bk: t is the first usable block of s at or after from
FirstUsable(d, w, s, from, t) ==
    /\ t.seg = s /\ t.bk >= from
    /\ Usable(d, w, t)
    /\ \A b \in from .. t.bk - 1 : ~Usable(d, w, At(s, b))

\* A segment is only entered if one of its blocks 2, 3, ... is usable.
HasRoom(d, w, s) == ~RemainNotUsable(d, w, At(s, 1))

FirstWithRoom(d, w, S, s) ==
    s \in S /\ HasRoom(d, w, s) /\ \A r \in S : HasRoom(d, w, r) => s <= r

\* A variant of After: the search starts again from the first segment
AnyOther(s)        == LogSegs \ {s}
After(s)           == {r \in LogSegs : r > s}
RoomIn(d, w, S)    == \E s \in S : HasRoom(d, w, s)
Wraps(d, w)        == /\ RemainNotUsable(d, w, tail)
                      /\ ~RoomIn(d, w, After(tail.seg))
NoRoomAtAll(d, w)  == Wraps(d, w) /\ ~RoomIn(d, w, LogSegs)

\* setLogTail: t is the next tail.  The checkpoint segment is no candidate:
\* is_checkpoint is looked up for tail.seg + 1 only, which is never CpSeg.
SetLogTail(d, w, t) ==
    \/ /\ ~RemainNotUsable(d, w, tail)
       /\ FirstUsable(d, w, tail.seg, tail.bk + 1, t)
    \/ /\ RemainNotUsable(d, w, tail) /\ RoomIn(d, w, After(tail.seg))
       /\ FirstWithRoom(d, w, After(tail.seg), t.seg)
       /\ FirstUsable(d, w, t.seg, 1, t)
    \/ /\ Wraps(d, w) /\ RoomIn(d, w, LogSegs)
       /\ FirstWithRoom(d, w, LogSegs, t.seg)
       /\ FirstUsable(d, w, t.seg, 1, t)
    \/ NoRoomAtAll(d, w) /\ t = tail
-----------------------------------------------------------------------------
(***************************************************************************)
(* Flash_Erase followed by Flash_Write of a whole segment, return codes    *)
(* ignored by every caller.  An erase at the wear limit is refused and     *)
(* then a write over FULL sectors is refused too.                          *)
(***************************************************************************)
EraseOk(s)    == wear[s] < WearLimit
WriteOk(s)    == EraseOk(s) \/ ~written[s]
WearErased(s) == IF EraseOk(s) THEN [wear EXCEPT ![s] = @ + 1] ELSE wear

Persisted(s, img) == IF WriteOk(s) THEN [disk EXCEPT ![s] = img] ELSE disk

\* writeToLog: the block and its summary entry, in seg_in_memory
WrittenTail(inum, data) ==
    [mem.bks EXCEPT ![tail.bk] = [file_no |-> inum, data |-> data]]

\* A variant of Loaded that only renumbers the buffer it has
LoadedStale(d, s) == [seg_no |-> s, bks |-> mem.bks]

\* get_log_to_memory
Loaded(d, s) == [seg_no |-> s, bks |-> d[s]]

\* Log_Write = writeToLog; pushToDisk; setLogTail
LogWrite(inum, data) ==
    LET img  == WrittenTail(inum, data)
        push == RemainNotUsable(disk, wear, tail)
        d    == IF push THEN Persisted(tail.seg, img) ELSE disk
        w    == IF push THEN WearErased(tail.seg) ELSE wear
    IN  /\ disk' = d
        /\ wear' = w
        /\ written' = IF push THEN [written EXCEPT ![tail.seg] = TRUE] ELSE written
        /\ avail' = IF push THEN avail - 1 ELSE avail
        /\ tail' \in Addr /\ SetLogTail(d, w, tail')
        /\ mem' = IF RemainNotUsable(d, w, tail)
                  THEN Loaded(d, tail'.seg)
                  ELSE [mem EXCEPT !.bks = img]
        /\ overrun' = (overrun \/ NoRoomAtAll(d, w))
        /\ wrapped' = (wrapped \/ Wraps(d, w))
        /\ worn' = (worn \/ (push /\ ~WriteOk(tail.seg)))
        /\ UNCHANGED <<cp, torn, lost>>

\* A variant of LogRead that forgets the segment in memory
ReadFlashOnly(a) == disk[a.seg][a.bk]

\* Log_Read of one block: from seg_in_memory if that is its segment
LogRead(a) == IF mem.seg_no = a.seg THEN mem.bks[a.bk] ELSE disk[a.seg][a.bk]

\* What the bytes of a block are as inodes of the ifile block i.
AsInodes(i, data) == IF data \in Tables(i) THEN data
                     ELSE [f \in FilesOf(i) |-> Garbage]

\* The ifile block i as File_Read returns it; zeros before its first write.
IfileBlock(i) == IF ifile[i] = Null THEN [f \in FilesOf(i) |-> Null]
                 ELSE AsInodes(i, LogRead(ifile[i]).data)

\* The inodes a mount finds: the ifile of the checkpoint, read from flash.
FlashInode(f) ==
    LET i == IfBlkOf[f]
        a == cp.ifile[i]
    IN  IF a = Null THEN Null ELSE AsInodes(i, disk[a.seg][a.bk].data)[f]
-----------------------------------------------------------------------------
(***************************************************************************)
(* The process.  Globals of a process that is not running hold nothing: a  *)
(* fixed value stands for them.                                            *)
(***************************************************************************)
NoIfile  == [i \in IfBlks |-> Null]
NoInodes == [f \in Files |-> Null]

Forget ==
    /\ tail' = At(2, 1)
    /\ mem' = [seg_no |-> 2, bks |-> FreshSeg]
    /\ avail' = NumSegs
    /\ ifile' = NoIfile
    /\ inode' = NoInodes
    /\ pend' = Null

\* mklfs: an empty log, the checkpoint written once
Init ==
    /\ disk = [s \in LogSegs |-> FreshSeg]
    /\ wear = [s \in Segs |-> IF s = CpSeg THEN 1 ELSE 0]
    /\ written = [s \in Segs |-> TRUE]
    /\ cp = [tail |-> At(2, 1), ifile |-> NoIfile]
    /\ tail = At(2, 1)
    /\ mem = [seg_no |-> 2, bks |-> FreshSeg]
    /\ avail = NumSegs
    /\ ifile = NoIfile
    /\ inode = NoInodes
    /\ pend = Null
    /\ pc = "down"
    /\ cur = [f \in Files |-> NoData] /\ saved = cur
    /\ overrun = FALSE /\ wrapped = FALSE /\ worn = FALSE
    /\ torn = FALSE /\ lost = FALSE

\* A variant of Mount's tail: the log is resumed at its first block
TailFromStart(c) == At(2, 1)
TailOf(c)        == c.tail

\* main of LFS.c: the superblock's sizes, the checkpoint, the tail segment;
\* then Dir_Layer_Init: all inodes, read through the ifile
Mount ==
    /\ pc \in {"down", "segv"}
    /\ pc' = "idle"
    /\ tail' = TailOf(cp)
    /\ mem' = Loaded(disk, TailOf(cp).seg)
    /\ avail' = NumSegs
    /\ ifile' = cp.ifile
    /\ inode' = [f \in Files |-> FlashInode(f)]
    /\ pend' = Null
    /\ cur' = saved
    /\ lost' = (lost \/ torn)
    /\ UNCHANGED <<flash, saved, overrun, wrapped, worn, torn>>

\* A variant of CleanerStarts that starts one segment too late
CleanerStartsLate == avail < MinAvail - 1

\* clean_seg at the head of File_Write: below the threshold it walks a buffer
\* of zeros and dereferences a null next pointer
CleanerStarts == avail < MinAvail

CleanSegFault ==
    /\ pc \in {"idle", "flush"}
    /\ CleanerStarts
    /\ pc' = "segv"
    /\ Forget
    /\ UNCHANGED <<flash, history>>

\* File_Write of the file's block: the inode in memory takes the tail's
\* address, then the block goes to the log
WriteData(f, v) ==
    /\ pc = "idle" /\ ~CleanerStarts
    /\ inode[f] # Garbage
    /\ LogWrite(f, v)
    /\ inode' = [inode EXCEPT ![f] = tail]
    /\ cur' = [cur EXCEPT ![f] = [addr |-> tail, data |-> v]]
    /\ pend' = f
    /\ pc' = "flush"
    /\ UNCHANGED <<ifile, saved>>

\* the block Flush_Ino writes: the ifile block the log has, with one inode of
\* the array in memory put into it
FlushedBlock(f) == [IfileBlock(IfBlkOf[f]) EXCEPT ![f] = inode[f]]

\* Flush_Ino: File_Write of one inode into its ifile block
FlushInode(f) ==
    /\ ~CleanerStarts
    /\ ifile' = [ifile EXCEPT ![IfBlkOf[f]] = tail]
    /\ LogWrite(IFILE, FlushedBlock(f))
    /\ pend' = Null
    /\ pc' = "idle"
    /\ UNCHANGED <<inode, cur, saved>>

FlushIno == pc = "flush" /\ FlushInode(pend)

\* Dir_Read_File flushes the inode it has read from: reads use up the log
ReadFile(f) == pc = "idle" /\ inode[f] \in Addr /\ FlushInode(f)

\* A variant of Unmount that leaves the tail segment in memory
UnmountUnflushed ==
    /\ pc = "idle" /\ pc' = "ckpt"
    /\ UNCHANGED <<flash, volatile, history>>

\* Log_Destroy, first half: the tail segment
Unmount ==
    /\ pc = "idle"
    /\ disk' = Persisted(tail.seg, mem.bks)
    /\ wear' = WearErased(tail.seg)
    /\ written' = [written EXCEPT ![tail.seg] = TRUE]
    /\ worn' = (worn \/ ~WriteOk(tail.seg))
    /\ pc' = "ckpt"
    /\ UNCHANGED <<cp, volatile, cur, saved, overrun, wrapped, torn, lost>>

\* The first k of the parts of a checkpoint that a mount goes by, in the order
\* in which store_checkpoint lays them out, over the old checkpoint: the inode
\* of the ifile (in the first sector), the address of the tail (in a later one)
CpEnd == 2
PutCheckpoint(k) ==
    /\ cp' = [ifile |-> IF k >= 1 THEN ifile ELSE cp.ifile,
              tail  |-> IF k = CpEnd THEN tail ELSE cp.tail]
    /\ saved' = IF k >= 1 THEN cur ELSE saved
    /\ lost' = (lost \/ (k >= 1 /\ (overrun \/ worn)))
    /\ torn' = (k = 1 \/ (k = 0 /\ torn))

\* Log_Destroy, second half: store_checkpoint; the process ends
StoreCheckpoint ==
    /\ pc = "ckpt"
    /\ wear' = WearErased(CpSeg)
    /\ written' = [written EXCEPT ![CpSeg] = TRUE]
    /\ IF WriteOk(CpSeg)
       THEN PutCheckpoint(CpEnd) /\ UNCHANGED worn
       ELSE worn' = TRUE /\ UNCHANGED <<cp, saved, torn, lost>>
    /\ pc' = "down"
    /\ Forget
    /\ UNCHANGED <<disk, cur, overrun, wrapped>>

\* The process is killed between two operations.
Crash ==
    /\ Mounted
    /\ pc' = "down"
    /\ Forget
    /\ UNCHANGED <<flash, history>>

\* It is killed in a Flash_Erase, or between it and its Flash_Write: the
\* sectors are marked EMPTY one after the other, and keep their bytes.
CrashErased(s) ==
    /\ \/ pc = "ckpt" /\ s = CpSeg
       \/ pc = "idle" /\ s = tail.seg
       \/ pc = "flush" /\ s = tail.seg /\ RemainNotUsable(disk, wear, tail)
    /\ EraseOk(s)
    /\ wear' = [wear EXCEPT ![s] = @ + 1]
    /\ written' \in {written, [written EXCEPT ![s] = FALSE]}
    /\ pc' = "down"
    /\ Forget
    /\ UNCHANGED <<disk, cp, history>>

\* The first k parts of a segment image (its summary entries, then its blocks)
\* over the old segment
ImageEnd == 2 * (BksPerSeg - 1)
Torn(s, img, k) ==
    [b \in Blks |->
        [file_no |-> IF b <= k THEN img[b].file_no ELSE disk[s][b].file_no,
         data |-> IF b + BksPerSeg - 1 <= k THEN img[b].data ELSE disk[s][b].data]]

\* It is killed in the Flash_Write of the tail segment: sectors count as FULL
\* only when all of them are there.
TornPush(img, k) ==
    /\ WriteOk(tail.seg)
    /\ disk' = [disk EXCEPT ![tail.seg] = Torn(tail.seg, img, k)]
    /\ wear' = WearErased(tail.seg)
    /\ \/ written' = [written EXCEPT ![tail.seg] = FALSE]
       \/ k = ImageEnd /\ written' = [written EXCEPT ![tail.seg] = TRUE]
    /\ pc' = "down"
    /\ Forget
    /\ UNCHANGED <<cp, history>>

\* It was the write of an unmount, or the push of a data or an ifile block.
CrashTorn(k) ==
    \/ pc = "idle" /\ TornPush(mem.bks, k)
    \/ /\ RemainNotUsable(disk, wear, tail) /\ ~CleanerStarts
       /\ \/ /\ pc = "idle"
             /\ \E f \in Files, v \in Vals :
                    inode[f] # Garbage /\ TornPush(WrittenTail(f, v), k)
          \/ \E f \in Files :
                 /\ \/ pc = "flush" /\ f = pend
                    \/ pc = "idle" /\ inode[f] \in Addr
                 /\ TornPush(WrittenTail(IFILE, FlushedBlock(f)), k)

\* It is killed in the Flash_Write of the checkpoint.
CrashTornCheckpoint(k) ==
    /\ pc = "ckpt"
    /\ WriteOk(CpSeg)
    /\ PutCheckpoint(k)
    /\ wear' = WearErased(CpSeg)
    /\ \/ written' = [written EXCEPT ![CpSeg] = FALSE]
       \/ k = CpEnd /\ written' = [written EXCEPT ![CpSeg] = TRUE]
    /\ pc' = "down"
    /\ Forget
    /\ UNCHANGED <<disk, cur, overrun, wrapped, worn>>

Next ==
    \/ Mount
    \/ \E f \in Files, v \in Vals : WriteData(f, v)
    \/ FlushIno
    \/ \E f \in Files : ReadFile(f)
    \/ Unmount
    \/ StoreCheckpoint
    \/ CleanSegFault
    \/ Crash
    \/ \E s \in Segs : CrashErased(s)
    \/ \E k \in 0 .. ImageEnd : CrashTorn(k)
    \/ \E k \in 0 .. CpEnd : CrashTornCheckpoint(k)

Spec == Init /\ [][Next]_vars
-----------------------------------------------------------------------------
(***************************************************************************)
(* Properties                                                              *)
(***************************************************************************)

\* The running log is in order: it has found a free block whenever it needed
\* one, and all it has written so far has reached the flash.
Healthy  == ~overrun /\ ~worn /\ ~lost

\* What the log promises of inodes, it promises until it wraps.
Promised == ~wrapped /\ ~worn /\ ~lost

\* The segment in memory is the tail's, and from the tail on (for the log
\* still to write) it is what the flash holds: writeToLog would otherwise put
\* a block into a stale image, and the push would undo an earlier one.
TailSegmentLoaded ==
    pc \in {"idle", "flush"} =>
        /\ mem.seg_no = tail.seg
        /\ \A b \in Blks : b > tail.bk => mem.bks[b] = disk[tail.seg][b]

\* Where a file's block was last written it can be read back from since,
\* under the file's own number: across pushes, segment changes, wrap-arounds,
\* crashes and remounts.
LiveDataIntact ==
    (Mounted /\ Healthy) =>
        \A f \in Files : cur[f] # NoData =>
            LogRead(cur[f].addr) = [file_no |-> f, data |-> cur[f].data]

\* The data that the checkpoint on flash leads to stays there untouched, at
\* every instant at which the process may be killed, and also while the log
\* above it is overrun or pushes segments that never reach the flash: until
\* such a log stores a checkpoint of its own, or a torn one is mounted.
CheckpointedDataIntact ==
    ~lost =>
        \A f \in Files : saved[f] # NoData =>
            LET a == saved[f].addr
            IN  disk[a.seg][a.bk] = [file_no |-> f, data |-> saved[f].data]

\* Until the log wraps, every inode in memory is the last one written, and
\* what the log has for it is the same, save for the one about to be flushed.
IfileIntactBeforeWrap ==
    (Mounted /\ Promised) =>
        \A f \in Files :
            /\ inode[f] = cur[f].addr
            /\ ~(pc = "flush" /\ f = pend) => IfileBlock(IfBlkOf[f])[f] = inode[f]

\* Until the log wraps, the inodes that the checkpoint on flash leads to are
\* those of one and the same unmount, at every instant, that of a kill within
\* the write of the checkpoint included: of the last one that ended, or of one
\* that was cut short when the ifile's inode was on flash already.  (The tail
\* may then be an older one; this holds until such a flash is mounted.)
CheckpointedIfileIntactBeforeWrap ==
    (~wrapped /\ ~lost) => \A f \in Files : FlashInode(f) = saved[f].addr

\* log.c:1114, 1117 of setLogTail, for the one file whose blocks the summary
\* cannot mark: the tail never stands on the block that holds live inodes.
TailNotOnLiveIfile ==
    pc \in {"idle", "flush"} => \A i \in IfBlks : ifile[i] # tail

-----------------------------------------------------------------------------
(***************************************************************************)
(* The inductive invariant behind LiveDataIntact and                       *)
(* CheckpointedDataIntact.  A block survives because the tail never stands *)
(* on it, so the invariant follows both generations of blocks (the live    *)
(* ones and the checkpointed ones) through both places a block can be read *)
(* from, and remembers that neither is the tail's.                         *)
(***************************************************************************)
LiveAt(v, f) ==
    /\ v.addr \in Addr /\ v.addr # tail
    /\ LogRead(v.addr) = [file_no |-> f, data |-> v.data]

DurableAt(v, f) ==
    /\ v.addr \in Addr /\ (~torn => v.addr # cp.tail)
    /\ disk[v.addr.seg][v.addr.bk] = [file_no |-> f, data |-> v.data]

MemIsTail ==
    /\ Mounted => mem.seg_no = tail.seg
    /\ pc \in {"idle", "flush"} =>
           \A b \in Blks : b > tail.bk => mem.bks[b] = disk[tail.seg][b]

SavedDurable == \A f \in Files : saved[f] # NoData => DurableAt(saved[f], f)
SavedLive    == \A f \in Files : saved[f] # NoData => LiveAt(saved[f], f)
CurLive      == \A f \in Files : cur[f] # NoData => LiveAt(cur[f], f)

\* Every file's checkpointed block is where its pointer says, in the running
\* process and on flash, and the tail stands on none of them; and so it is
\* with every live block while the log is in order.
DataInv ==
    /\ ~lost => SavedDurable /\ (Mounted => SavedLive)
    /\ Healthy => /\ Mounted => CurLive
                  /\ pc = "ckpt" => disk[tail.seg] = mem.bks

(***************************************************************************)
(* The same for the blocks of the ifile.  No summary entry keeps the tail  *)
(* off these; until the log wraps they are safe because it has passed them.*)
(***************************************************************************)
Before(a, b) == a.seg < b.seg \/ (a.seg = b.seg /\ a.bk < b.bk)

Passed(blocks, t) == \A i \in IfBlks : blocks[i] # Null => Before(blocks[i], t)

\* Every live and every checkpointed ifile block lies before the tail, and
\* before the tail of the checkpoint unless that is torn; the checkpointed ones
\* are the same in memory and on flash; the inodes in the checkpointed ones are
\* those saved, and those in the live ones are those of the last writes.
IfileInv ==
    (~wrapped /\ ~lost) =>
        /\ ~overrun
        /\ ~torn => Passed(cp.ifile, cp.tail)
        /\ CheckpointedIfileIntactBeforeWrap
        /\ Mounted =>
            /\ Passed(ifile, tail) /\ Passed(cp.ifile, tail)
            /\ \A i \in IfBlks : cp.ifile[i] # Null =>
                   LogRead(cp.ifile[i]) = disk[cp.ifile[i].seg][cp.ifile[i].bk]
            /\ IfileIntactBeforeWrap
=============================================================================
