----------------------------- MODULE LogProofs -----------------------------
(***************************************************************************)
(* Proofs about Log, for every size of the flash, every set of files and   *)
(* every layout of the ifile: the type invariant, that the segment in      *)
(* memory is the tail's, that no live data block is ever lost while the    *)
(* log is neither full nor worn out and no checkpointed one until such a   *)
(* log makes the checkpoint, and that no inode is, neither a live one nor  *)
(* one of the checkpoint, until the log wraps.                             *)
(***************************************************************************)
EXTENDS Log, TLAPS

-----------------------------------------------------------------------------
(* Operators.                                                              *)

\* The wear that is_in_wearlimit looks up is never above the limit.
LEMMA NeverOverLimit ==
    ASSUME NEW w \in [Segs -> 0 .. WearLimit], NEW a \in Addr
    PROVE  InWearLimit(w, a)
  BY SizesAssumption DEF InWearLimit, WearSeen, Addr, LogSegs

\* The image writeToLog builds is a segment image.
LEMMA WrittenTailType ==
    ASSUME TypeOK, NEW inum \in Files \cup {IFILE}, NEW data \in Content
    PROVE  WrittenTail(inum, data) \in SegImage
  BY DEF TypeOK, WrittenTail, SegImage, Block, Addr

\* An erase counts at most up to the limit.
LEMMA WearErasedType ==
    ASSUME TypeOK, NEW s \in Segs
    PROVE  WearErased(s) \in [Segs -> 0 .. WearLimit]
  <1>1. wear[s] \in 0 .. WearLimit  BY DEF TypeOK
  <1>2. EraseOk(s) => wear[s] + 1 \in 0 .. WearLimit
    BY <1>1, SizesAssumption DEF EraseOk
  <1>. QED  BY <1>2 DEF TypeOK, WearErased

\* A push leaves a well-formed flash whether or not it succeeds.
LEMMA PersistedType ==
    ASSUME TypeOK, NEW s \in LogSegs, NEW img \in SegImage
    PROVE  Persisted(s, img) \in [LogSegs -> SegImage]
  BY DEF TypeOK, Persisted

\* Whatever a block holds, its bytes as inodes are an ifile block.
LEMMA AsInodesType ==
    ASSUME NEW i \in IfBlks, NEW data
    PROVE  AsInodes(i, data) \in Tables(i)
  BY DEF AsInodes, Tables, Inodes

\* What File_Read returns of an ifile block.
LEMMA IfileBlockType ==
    ASSUME NEW i \in IfBlks
    PROVE  IfileBlock(i) \in Tables(i)
  <1>1. [f \in FilesOf(i) |-> Null] \in Tables(i)
    BY DEF Tables, Inodes, PtrType
  <1>. QED  BY <1>1, AsInodesType DEF IfileBlock

\* What a mount loads for an inode.
LEMMA FlashInodeType ==
    ASSUME NEW f \in Files
    PROVE  FlashInode(f) \in Inodes
  <1>. DEFINE i == IfBlkOf[f]
              a == cp.ifile[i]
  <1>1. i \in IfBlks /\ f \in FilesOf(i)
    BY NamesAssumption DEF FilesOf
  <1>2. AsInodes(i, disk[a.seg][a.bk].data) \in [FilesOf(i) -> Inodes]
    BY <1>1, AsInodesType DEF Tables
  <1>3. AsInodes(i, disk[a.seg][a.bk].data)[f] \in Inodes
    BY <1>1, <1>2
  <1>. QED  BY <1>3 DEF FlashInode, Inodes, PtrType

\* The block Flush_Ino writes back.
LEMMA FlushedBlockType ==
    ASSUME TypeOK, NEW f \in Files
    PROVE  /\ IfBlkOf[f] \in IfBlks
           /\ FlushedBlock(f) \in Content
  <1>1. IfBlkOf[f] \in IfBlks
    BY NamesAssumption
  <1>2. inode[f] \in Inodes
    BY DEF TypeOK
  <1>3. FlushedBlock(f) \in Tables(IfBlkOf[f])
    BY <1>1, <1>2, IfileBlockType DEF Tables, FlushedBlock
  <1>. QED  BY <1>1, <1>3 DEF Content

\* Whatever image was on its way to the tail segment when the process was
\* killed, it differs from the one in memory at the tail alone.
LEMMA CrashTornImage ==
    ASSUME TypeOK, NEW k, CrashTorn(k)
    PROVE  /\ pc \in {"idle", "flush"}
           /\ \E img \in SegImage :
                /\ TornPush(img, k)
                /\ \A b \in Blks : b # tail.bk => img[b] = mem.bks[b]
  <1>1. mem.bks \in SegImage
    BY DEF TypeOK
  <1>2. ASSUME NEW n \in Files \cup {IFILE}, NEW c \in Content
        PROVE  /\ WrittenTail(n, c) \in SegImage
               /\ \A b \in Blks : b # tail.bk => WrittenTail(n, c)[b] = mem.bks[b]
    <2>1. WrittenTail(n, c) \in SegImage
      BY WrittenTailType
    <2>. QED  BY <1>1, <2>1 DEF WrittenTail, SegImage
  <1>3. CASE pc = "idle" /\ TornPush(mem.bks, k)
    BY <1>1, <1>3
  <1>4. ASSUME NEW f \in Files, NEW v \in Vals, pc = "idle",
               TornPush(WrittenTail(f, v), k)
        PROVE  \E img \in SegImage :
                /\ TornPush(img, k)
                /\ \A b \in Blks : b # tail.bk => img[b] = mem.bks[b]
    <2>1. v \in Content
      BY DEF Content
    <2>. QED  BY <1>2, <1>4, <2>1
  <1>5. ASSUME NEW f \in Files, TornPush(WrittenTail(IFILE, FlushedBlock(f)), k)
        PROVE  \E img \in SegImage :
                /\ TornPush(img, k)
                /\ \A b \in Blks : b # tail.bk => img[b] = mem.bks[b]
    BY <1>2, <1>5, FlushedBlockType
  <1>. QED  BY <1>3, <1>4, <1>5 DEF CrashTorn

\* A torn segment is made of blocks of the old one and the new.
LEMMA TornType ==
    ASSUME TypeOK, NEW s \in LogSegs, NEW img \in SegImage, NEW k
    PROVE  Torn(s, img, k) \in SegImage
  <1>1. \A b \in Blks : img[b] \in Block /\ disk[s][b] \in Block
    BY DEF TypeOK, SegImage
  <1>. QED  BY <1>1 DEF Torn, SegImage, Block

-----------------------------------------------------------------------------
(* Log_Write keeps the types.                                              *)
LEMMA LogWriteTypes ==
    ASSUME TypeOK, ~CleanerStarts,
           NEW inum \in Files \cup {IFILE}, NEW data \in Content,
           LogWrite(inum, data)
    PROVE  /\ disk' \in [LogSegs -> SegImage]
           /\ wear' \in [Segs -> 0 .. WearLimit]
           /\ written' \in [Segs -> BOOLEAN]
           /\ cp' = cp
           /\ tail' \in Addr
           /\ mem' \in [seg_no : LogSegs, bks : SegImage]
           /\ avail' \in MinAvail - 1 .. NumSegs
           /\ overrun' \in BOOLEAN /\ wrapped' \in BOOLEAN /\ worn' \in BOOLEAN
           /\ torn' = torn /\ lost' = lost
  <1>1. tail.seg \in LogSegs /\ tail.seg \in Segs
    BY DEF TypeOK, Addr, Segs
  <1>2. WrittenTail(inum, data) \in SegImage
    BY WrittenTailType
  <1>3. disk' \in [LogSegs -> SegImage]
    BY <1>1, <1>2, PersistedType DEF LogWrite, TypeOK
  <1>4. wear' \in [Segs -> 0 .. WearLimit]
    BY <1>1, WearErasedType DEF LogWrite, TypeOK
  <1>5. written' \in [Segs -> BOOLEAN]
    BY <1>1 DEF LogWrite, TypeOK
  <1>6. tail' \in Addr /\ tail'.seg \in LogSegs
    BY DEF LogWrite, Addr
  <1>7. mem' \in [seg_no : LogSegs, bks : SegImage]
    <2>1. \/ mem' = Loaded(disk', tail'.seg)
          \/ mem' = [mem EXCEPT !.bks = WrittenTail(inum, data)]
      BY DEF LogWrite
    <2>. QED  BY <2>1, <1>2, <1>3, <1>6 DEF Loaded, TypeOK
  <1>8. avail' \in MinAvail - 1 .. NumSegs
    BY SizesAssumption DEF LogWrite, CleanerStarts, TypeOK
  <1>9. /\ cp' = cp
        /\ overrun' \in BOOLEAN /\ wrapped' \in BOOLEAN /\ worn' \in BOOLEAN
        /\ torn' = torn /\ lost' = lost
    BY DEF LogWrite, TypeOK
  <1>. QED  BY <1>3, <1>4, <1>5, <1>6, <1>7, <1>8, <1>9

LEMMA FreshSegType == FreshSeg \in SegImage
  BY DEF FreshSeg, SegImage, Block, Content

LEMMA FirstBlockType == At(2, 1) \in Addr /\ 2 \in LogSegs
  BY SizesAssumption DEF At, Addr, LogSegs, Blks

\* A process that ends leaves volatile variables of the right type.
LEMMA ForgetTypes ==
    ASSUME Forget
    PROVE  /\ tail' \in Addr
           /\ mem' \in [seg_no : LogSegs, bks : SegImage]
           /\ avail' \in MinAvail - 1 .. NumSegs
           /\ ifile' \in [IfBlks -> PtrType]
           /\ inode' \in [Files -> Inodes]
           /\ pend' \in Files \cup {Null}
  BY SizesAssumption, FreshSegType, FirstBlockType
     DEF Forget, NoIfile, NoInodes, PtrType, Inodes

\* So does what has been written of a checkpoint.
LEMMA PutCheckpointTypes ==
    ASSUME TypeOK, NEW k \in 0 .. CpEnd, PutCheckpoint(k)
    PROVE  /\ cp' \in [tail : Addr, ifile : [IfBlks -> PtrType]]
           /\ saved' \in [Files -> Version]
           /\ torn' \in BOOLEAN /\ lost' \in BOOLEAN
  <1>1. k = 0 \/ k = 1 \/ k = 2
    BY DEF CpEnd
  <1>2. torn' \in BOOLEAN
    BY <1>1 DEF PutCheckpoint, CpEnd, TypeOK
  <1>. QED  BY <1>2 DEF PutCheckpoint, TypeOK

\* Flush_Ino keeps the types.
LEMMA FlushInodeTypes ==
    ASSUME TypeOK, NEW f \in Files, FlushInode(f)
    PROVE  TypeOK'
  <1>. DEFINE table == FlushedBlock(f)
  <1>1. IfBlkOf[f] \in IfBlks /\ table \in Content
    BY FlushedBlockType
  <1>2. LogWrite(IFILE, table) /\ ~CleanerStarts
    BY DEF FlushInode
  <1>3. ifile' \in [IfBlks -> PtrType]
    BY <1>1 DEF FlushInode, TypeOK, PtrType
  <1>4. pend' = Null /\ pc' = "idle" /\ UNCHANGED <<inode, cur, saved>>
    BY DEF FlushInode
  <1>. HIDE DEF table
  <1>. QED  BY <1>1, <1>2, <1>3, <1>4, LogWriteTypes DEF TypeOK

-----------------------------------------------------------------------------
(* Type correctness: every variable keeps its type, and in particular no   *)
(* erase count passes the limit and available_seg_num stops one below the  *)
(* threshold of the cleaner, so that the unsigned counter never wraps.     *)
THEOREM TypeCorrect == Spec => []TypeOK
  <1>1. Init => TypeOK
    <2>1. [f \in Files |-> NoData] \in [Files -> Version]
      BY DEF NoData, Version, PtrType, Content
    <2>2. NoIfile \in [IfBlks -> PtrType] /\ NoInodes \in [Files -> Inodes]
      BY DEF NoIfile, NoInodes, PtrType, Inodes
    <2>3. [s \in Segs |-> IF s = CpSeg THEN 1 ELSE 0] \in [Segs -> 0 .. WearLimit]
      BY SizesAssumption
    <2>4. NumSegs \in MinAvail - 1 .. NumSegs
      BY SizesAssumption
    <2>. SUFFICES ASSUME Init PROVE TypeOK
      OBVIOUS
    <2>5. /\ disk \in [LogSegs -> SegImage]
          /\ mem \in [seg_no : LogSegs, bks : SegImage]
      BY FreshSegType, FirstBlockType DEF Init
    <2>6. /\ written \in [Segs -> BOOLEAN]
          /\ wear \in [Segs -> 0 .. WearLimit]
      BY <2>3 DEF Init
    <2>7. /\ cp \in [tail : Addr, ifile : [IfBlks -> PtrType]]
          /\ tail \in Addr
      BY <2>2, FirstBlockType DEF Init
    <2>8. cur \in [Files -> Version] /\ saved \in [Files -> Version]
      BY <2>1 DEF Init
    <2>. QED  BY <2>2, <2>4, <2>5, <2>6, <2>7, <2>8 DEF Init, TypeOK
  <1>2. TypeOK /\ [Next]_vars => TypeOK'
    <2>. SUFFICES ASSUME TypeOK, [Next]_vars PROVE TypeOK'
      OBVIOUS
    <2>1. CASE Mount
      <3>1. [f \in Files |-> FlashInode(f)] \in [Files -> Inodes]
        BY FlashInodeType
      <3>2. /\ tail' \in Addr
            /\ mem' \in [seg_no : LogSegs, bks : SegImage]
            /\ ifile' \in [IfBlks -> PtrType]
        BY <2>1 DEF Mount, TailOf, Loaded, TypeOK, Addr
      <3>3. avail' \in MinAvail - 1 .. NumSegs
        BY <2>1, SizesAssumption DEF Mount
      <3>4. /\ pc' = "idle" /\ pend' = Null /\ cur' = saved
            /\ UNCHANGED <<disk, wear, written, cp, saved, overrun, wrapped, worn, torn>>
            /\ lost' = (lost \/ torn)
            /\ inode' = [f \in Files |-> FlashInode(f)]
        BY <2>1 DEF Mount, flash
      <3>. QED  BY <3>1, <3>2, <3>3, <3>4 DEF TypeOK
    <2>2. ASSUME NEW f \in Files, NEW v \in Vals, WriteData(f, v) PROVE TypeOK'
      <3>1. v \in Content
        BY DEF Content
      <3>2. LogWrite(f, v) /\ ~CleanerStarts
        BY <2>2 DEF WriteData
      <3>3. /\ inode' \in [Files -> Inodes]
            /\ cur' \in [Files -> Version]
        BY <2>2, <3>1 DEF WriteData, TypeOK, Inodes, PtrType, Version
      <3>4. pend' = f /\ pc' = "flush" /\ UNCHANGED <<ifile, saved>>
        BY <2>2 DEF WriteData
      <3>. QED  BY <3>1, <3>2, <3>3, <3>4, LogWriteTypes DEF TypeOK
    <2>3. CASE FlushIno
      BY <2>3, FlushInodeTypes DEF FlushIno, TypeOK
    <2>4. ASSUME NEW f \in Files, ReadFile(f) PROVE TypeOK'
      BY <2>4, FlushInodeTypes DEF ReadFile
    <2>5. CASE Unmount
      <3>1. tail.seg \in LogSegs /\ tail.seg \in Segs
        BY DEF TypeOK, Addr, Segs
      <3>2. disk' \in [LogSegs -> SegImage]
        BY <2>5, <3>1, PersistedType DEF Unmount, TypeOK
      <3>3. wear' \in [Segs -> 0 .. WearLimit]
        BY <2>5, <3>1, WearErasedType DEF Unmount
      <3>4. /\ written' \in [Segs -> BOOLEAN]
            /\ worn' \in BOOLEAN /\ pc' = "ckpt"
        BY <2>5, <3>1 DEF Unmount, TypeOK
      <3>5. UNCHANGED <<cp, tail, mem, avail, ifile, inode, pend, cur, saved,
                        overrun, wrapped, torn, lost>>
        BY <2>5 DEF Unmount, volatile
      <3>. QED  BY <3>2, <3>3, <3>4, <3>5 DEF TypeOK
    <2>6. CASE StoreCheckpoint
      <3>1. wear' \in [Segs -> 0 .. WearLimit]
        BY <2>6, WearErasedType DEF StoreCheckpoint, Segs
      <3>2. /\ cp' \in [tail : Addr, ifile : [IfBlks -> PtrType]]
            /\ saved' \in [Files -> Version]
            /\ torn' \in BOOLEAN /\ lost' \in BOOLEAN
        <4>1. CASE PutCheckpoint(CpEnd)
          BY <4>1, PutCheckpointTypes DEF CpEnd
        <4>2. CASE UNCHANGED <<cp, saved, torn, lost>>
          BY <4>2 DEF TypeOK
        <4>. QED  BY <2>6, <4>1, <4>2 DEF StoreCheckpoint
      <3>3. /\ written' \in [Segs -> BOOLEAN] /\ disk' \in [LogSegs -> SegImage]
            /\ pc' = "down"
        BY <2>6 DEF StoreCheckpoint, TypeOK, Segs
      <3>4. cur' \in [Files -> Version]
        BY <2>6 DEF StoreCheckpoint, TypeOK
      <3>5. overrun' \in BOOLEAN /\ wrapped' \in BOOLEAN /\ worn' \in BOOLEAN
        BY <2>6 DEF StoreCheckpoint, TypeOK
      <3>6. Forget
        BY <2>6 DEF StoreCheckpoint
      <3>. QED  BY <3>1, <3>2, <3>3, <3>4, <3>5, <3>6, ForgetTypes DEF TypeOK
    <2>7. CASE CleanSegFault
      BY <2>7, ForgetTypes DEF CleanSegFault, TypeOK, flash, history
    <2>8. CASE Crash
      BY <2>8, ForgetTypes DEF Crash, TypeOK, flash, history
    <2>9. ASSUME NEW s \in Segs, CrashErased(s) PROVE TypeOK'
      <3>1. wear' = WearErased(s)
        BY <2>9 DEF CrashErased, WearErased
      <3>2. wear' \in [Segs -> 0 .. WearLimit]
        BY <3>1, WearErasedType
      <3>. QED  BY <2>9, <3>2, ForgetTypes DEF CrashErased, TypeOK, history
    <2>11. ASSUME NEW k \in 0 .. ImageEnd, CrashTorn(k) PROVE TypeOK'
      <3>1. PICK img \in SegImage : TornPush(img, k)
        BY <2>11, CrashTornImage
      <3>2. tail.seg \in LogSegs
        BY DEF TypeOK, Addr
      <3>3. Torn(tail.seg, img, k) \in SegImage
        BY <3>2, TornType
      <3>4. disk' \in [LogSegs -> SegImage]
        BY <3>1, <3>3 DEF TornPush, TypeOK
      <3>5. wear' \in [Segs -> 0 .. WearLimit]
        BY <3>1, <3>2, WearErasedType DEF TornPush, Segs
      <3>6. written' \in [Segs -> BOOLEAN]
        BY <3>1 DEF TornPush, TypeOK
      <3>. QED  BY <3>1, <3>4, <3>5, <3>6, ForgetTypes DEF TornPush, TypeOK, history
    <2>12. ASSUME NEW k \in 0 .. CpEnd, CrashTornCheckpoint(k) PROVE TypeOK'
      <3>1. /\ cp' \in [tail : Addr, ifile : [IfBlks -> PtrType]]
            /\ saved' \in [Files -> Version]
            /\ torn' \in BOOLEAN /\ lost' \in BOOLEAN
        BY <2>12, PutCheckpointTypes DEF CrashTornCheckpoint
      <3>2. wear' \in [Segs -> 0 .. WearLimit]
        BY <2>12, WearErasedType DEF CrashTornCheckpoint, Segs
      <3>3. written' \in [Segs -> BOOLEAN]
        BY <2>12 DEF CrashTornCheckpoint, TypeOK
      <3>4. /\ pc' = "down" /\ UNCHANGED <<disk, cur, overrun, wrapped, worn>>
            /\ Forget
        BY <2>12 DEF CrashTornCheckpoint
      <3>. QED  BY <3>1, <3>2, <3>3, <3>4, ForgetTypes DEF TypeOK
    <2>10. CASE UNCHANGED vars
      BY <2>10 DEF vars, flash, volatile, history, TypeOK
    <2>. QED  BY <2>1, <2>2, <2>3, <2>4, <2>5, <2>6, <2>7, <2>8, <2>9, <2>10, <2>11,
                 <2>12 DEF Next
  <1>. QED  BY <1>1, <1>2, PTL DEF Spec
-----------------------------------------------------------------------------
(* What a Log_Write does to the segment in memory.                         *)

\* If the segment was full before the push it still is after it: the blocks
\* after the tail are in memory what they are on flash, so setLogTail comes to
\* the same verdict as pushToDisk and loads the segment it moves to.
LEMMA PushLoads ==
    ASSUME TypeOK, MemIsTail, pc \in {"idle", "flush"}, ~CleanerStarts,
           NEW inum \in Files \cup {IFILE}, NEW data \in Content,
           LogWrite(inum, data), RemainNotUsable(disk, wear, tail)
    PROVE  mem' = Loaded(disk', tail'.seg)
  <1>. DEFINE img == WrittenTail(inum, data)
  <1>1. /\ tail \in Addr /\ tail.seg \in LogSegs /\ tail.bk \in Blks
        /\ tail.seg \in Segs
    BY DEF TypeOK, Addr, Segs
  <1>2. wear' \in [Segs -> 0 .. WearLimit]
    BY LogWriteTypes
  <1>3. \A b \in Blks : b > tail.bk => img[b] = disk[tail.seg][b]
    BY <1>1 DEF WrittenTail, MemIsTail, TypeOK, SegImage, Blks
  <1>4. disk' = Persisted(tail.seg, img)
    BY DEF LogWrite
  <1>5. \A b \in Blks : b > tail.bk => disk'[tail.seg][b] = disk[tail.seg][b]
    BY <1>1, <1>3, <1>4 DEF Persisted, TypeOK
  <1>6. RemainNotUsable(disk', wear', tail)
    <2>. SUFFICES ASSUME NEW b \in Blks, b > tail.bk
                  PROVE  ~Usable(disk', wear', At(tail.seg, b))
      BY DEF RemainNotUsable
    <2>1. At(tail.seg, b) \in Addr
      BY <1>1 DEF At, Addr
    <2>2. ~Usable(disk, wear, At(tail.seg, b))
      BY DEF RemainNotUsable
    <2>3. InWearLimit(wear, At(tail.seg, b))
      BY <2>1, NeverOverLimit DEF TypeOK
    <2>4. InUse(disk, At(tail.seg, b))
      BY <2>2, <2>3 DEF Usable
    <2>. QED  BY <2>4, <1>5 DEF Usable, InUse, At
  <1>. QED  BY <1>6 DEF LogWrite

\* If it was not, nothing is pushed and the tail moves on within it.
LEMMA NoPushMoves ==
    ASSUME TypeOK,
           NEW inum \in Files \cup {IFILE}, NEW data \in Content,
           LogWrite(inum, data), ~RemainNotUsable(disk, wear, tail)
    PROVE  /\ disk' = disk /\ wear' = wear /\ worn' = worn
           /\ mem' = [mem EXCEPT !.bks = WrittenTail(inum, data)]
           /\ tail'.seg = tail.seg /\ tail'.bk >= tail.bk + 1
           /\ ~InUse(disk, tail')
  <1>1. disk' = disk /\ wear' = wear /\ worn' = worn
    BY DEF LogWrite, TypeOK
  <1>2. SetLogTail(disk, wear, tail')
    BY <1>1 DEF LogWrite
  <1>3. FirstUsable(disk, wear, tail.seg, tail.bk + 1, tail')
    BY <1>2 DEF SetLogTail, Wraps, NoRoomAtAll
  <1>. QED  BY <1>1, <1>3 DEF FirstUsable, Usable, LogWrite

\* The segment in memory stays the tail's.
LEMMA LogWriteMem ==
    ASSUME TypeOK, MemIsTail, pc \in {"idle", "flush"}, ~CleanerStarts,
           NEW inum \in Files \cup {IFILE}, NEW data \in Content,
           LogWrite(inum, data)
    PROVE  /\ mem'.seg_no = tail'.seg
           /\ \A b \in Blks : b > tail'.bk => mem'.bks[b] = disk'[tail'.seg][b]
  <1>1. CASE RemainNotUsable(disk, wear, tail)
    BY <1>1, PushLoads DEF Loaded
  <1>2. CASE ~RemainNotUsable(disk, wear, tail)
    <2>1. /\ tail.bk \in Blks /\ tail'.bk \in Blks
      BY DEF TypeOK, LogWrite, Addr
    <2>2. /\ disk' = disk /\ mem' = [mem EXCEPT !.bks = WrittenTail(inum, data)]
          /\ tail'.seg = tail.seg /\ tail'.bk >= tail.bk + 1
      BY <1>2, NoPushMoves
    <2>3. mem.seg_no = tail.seg
      BY DEF MemIsTail, Mounted
    <2>4. mem'.seg_no = tail'.seg
      BY <2>2, <2>3 DEF TypeOK
    <2>5. ASSUME NEW b \in Blks, b > tail'.bk
          PROVE  mem'.bks[b] = disk'[tail'.seg][b]
      <3>1. b > tail.bk
        BY <2>1, <2>2, <2>5 DEF Blks
      <3>2. mem'.bks[b] = mem.bks[b]
        BY <2>1, <2>2, <3>1 DEF TypeOK, WrittenTail, SegImage, Blks
      <3>. QED  BY <2>2, <3>1, <3>2 DEF MemIsTail
    <2>. QED  BY <2>4, <2>5
  <1>. QED  BY <1>1, <1>2

-----------------------------------------------------------------------------
(* What a Log_Write does to what can be read.                              *)

\* Every block reads as before, except the tail's, which reads as written;
\* whether it is still in memory or has just been pushed makes no difference.
LEMMA LogWriteReads ==
    ASSUME TypeOK, MemIsTail, pc \in {"idle", "flush"}, ~CleanerStarts,
           NEW inum \in Files \cup {IFILE}, NEW data \in Content,
           LogWrite(inum, data), ~worn', NEW a \in Addr
    PROVE  LogRead(a)' = IF a = tail THEN [file_no |-> inum, data |-> data]
                                     ELSE LogRead(a)
  <1>. DEFINE img == WrittenTail(inum, data)
  <1>1. /\ tail \in Addr /\ tail.seg \in LogSegs /\ tail.bk \in Blks
        /\ a.seg \in LogSegs /\ a.bk \in Blks /\ mem.seg_no = tail.seg
        /\ a = tail <=> (a.seg = tail.seg /\ a.bk = tail.bk)
    BY DEF TypeOK, Addr, MemIsTail, Mounted
  <1>2. img[a.bk] = IF a.bk = tail.bk THEN [file_no |-> inum, data |-> data]
                                      ELSE mem.bks[a.bk]
    BY <1>1 DEF WrittenTail, TypeOK, SegImage
  <1>3. CASE RemainNotUsable(disk, wear, tail)
    <2>1. mem' = Loaded(disk', tail'.seg)
      BY <1>3, PushLoads
    <2>2. LogRead(a)' = disk'[a.seg][a.bk]
      BY <2>1 DEF LogRead, Loaded
    <2>3. disk' = [disk EXCEPT ![tail.seg] = img]
      BY <1>3 DEF LogWrite, Persisted
    <2>4. a.seg = tail.seg => disk'[a.seg][a.bk] = img[a.bk]
      BY <1>1, <2>3 DEF TypeOK
    <2>5. a.seg # tail.seg => disk'[a.seg][a.bk] = disk[a.seg][a.bk]
      BY <1>1, <2>3 DEF TypeOK
    <2>. HIDE DEF img
    <2>. QED  BY <1>1, <1>2, <2>2, <2>4, <2>5 DEF LogRead
  <1>4. CASE ~RemainNotUsable(disk, wear, tail)
    <2>1. disk' = disk /\ mem' = [mem EXCEPT !.bks = img]
      BY <1>4, NoPushMoves
    <2>2. mem'.seg_no = mem.seg_no /\ mem'.bks = img
      BY <2>1 DEF TypeOK
    <2>. HIDE DEF img
    <2>. QED  BY <1>1, <1>2, <2>1, <2>2 DEF LogRead
  <1>. QED  BY <1>3, <1>4

\* A block that is not the tail's, and that is the same in memory and on flash,
\* stays so, whether or not the push reaches the flash.
LEMMA LogWriteDurable ==
    ASSUME TypeOK, MemIsTail, pc \in {"idle", "flush"}, ~CleanerStarts,
           NEW inum \in Files \cup {IFILE}, NEW data \in Content,
           LogWrite(inum, data), NEW a \in Addr, a # tail,
           LogRead(a) = disk[a.seg][a.bk]
    PROVE  /\ disk'[a.seg][a.bk] = disk[a.seg][a.bk]
           /\ LogRead(a)' = disk[a.seg][a.bk]
  <1>. DEFINE img == WrittenTail(inum, data)
  <1>1. /\ tail \in Addr /\ tail.seg \in LogSegs /\ tail.bk \in Blks
        /\ a.seg \in LogSegs /\ a.bk \in Blks /\ mem.seg_no = tail.seg
        /\ a.seg = tail.seg => a.bk # tail.bk
    BY DEF TypeOK, Addr, MemIsTail, Mounted
  <1>2. a.seg = tail.seg => img[a.bk] = mem.bks[a.bk]
    BY <1>1 DEF WrittenTail, TypeOK, SegImage
  <1>3. disk' = disk \/ disk' = [disk EXCEPT ![tail.seg] = img]
    BY DEF LogWrite, Persisted
  <1>4. CASE RemainNotUsable(disk, wear, tail)
    <2>1. LogRead(a)' = disk'[a.seg][a.bk]
      BY <1>4, PushLoads DEF LogRead, Loaded
    <2>. HIDE DEF img
    <2>. QED  BY <1>1, <1>2, <1>3, <2>1 DEF LogRead, TypeOK
  <1>5. CASE ~RemainNotUsable(disk, wear, tail)
    <2>1. disk' = disk /\ mem' = [mem EXCEPT !.bks = img]
      BY <1>5, NoPushMoves
    <2>2. mem'.seg_no = mem.seg_no /\ mem'.bks = img
      BY <2>1 DEF TypeOK
    <2>. HIDE DEF img
    <2>. QED  BY <1>1, <1>2, <2>1, <2>2 DEF LogRead
  <1>. QED  BY <1>4, <1>5

\* The block setLogTail stops at is marked unused, and reads so.
LEMMA LogWriteTail ==
    ASSUME TypeOK, MemIsTail, pc \in {"idle", "flush"}, ~CleanerStarts,
           NEW inum \in Files \cup {IFILE}, NEW data \in Content,
           LogWrite(inum, data), ~overrun', NEW t \in Addr, t = tail'
    PROVE  (LogRead(t)').file_no = IFILE
  <1>1. tail' \in Addr /\ tail \in Addr
    BY DEF LogWrite, TypeOK
  <1>2. CASE RemainNotUsable(disk, wear, tail)
    <2>1. SetLogTail(disk', wear', tail') /\ ~NoRoomAtAll(disk', wear')
      BY DEF LogWrite
    <2>2. Usable(disk', wear', tail')
      BY <2>1 DEF SetLogTail, FirstUsable
    <2>3. LogRead(t)' = disk'[tail'.seg][tail'.bk]
      BY <1>2, PushLoads DEF LogRead, Loaded
    <2>. QED  BY <1>1, <2>2, <2>3 DEF Usable, InUse
  <1>3. CASE ~RemainNotUsable(disk, wear, tail)
    <2>1. /\ disk' = disk /\ mem' = [mem EXCEPT !.bks = WrittenTail(inum, data)]
          /\ tail'.seg = tail.seg /\ tail'.bk >= tail.bk + 1
          /\ ~InUse(disk, tail')
      BY <1>3, NoPushMoves
    <2>2. mem.seg_no = tail.seg /\ tail.bk \in Blks /\ tail'.bk \in Blks
      BY <1>1 DEF MemIsTail, Mounted, Addr
    <2>3. tail'.bk > tail.bk
      BY <2>1, <2>2 DEF Blks
    <2>4. LogRead(t)' = mem'.bks[tail'.bk]
      BY <2>1, <2>2 DEF LogRead, TypeOK
    <2>5. mem'.bks[tail'.bk] = mem.bks[tail'.bk]
      BY <2>1, <2>2, <2>3 DEF TypeOK, WrittenTail, SegImage, Blks
    <2>6. mem.bks[tail'.bk] = disk[tail'.seg][tail'.bk]
      BY <2>1, <2>2, <2>3 DEF MemIsTail
    <2>. QED  BY <1>1, <2>1, <2>4, <2>5, <2>6 DEF InUse
  <1>. QED  BY <1>2, <1>3

\* On a full log the tail stays; otherwise the flash has its new block unused.
LEMMA LogWriteFree ==
    ASSUME TypeOK,
           NEW inum \in Files \cup {IFILE}, NEW data \in Content,
           LogWrite(inum, data)
    PROVE  tail' = tail \/ disk'[tail'.seg][tail'.bk].file_no = IFILE
  <1>1. SetLogTail(disk', wear', tail')
    BY DEF LogWrite
  <1>2. tail' = tail \/ Usable(disk', wear', tail')
    BY <1>1 DEF SetLogTail, FirstUsable
  <1>. QED  BY <1>2 DEF Usable, InUse

\* A file's block that is not the tail's is read unchanged after a Log_Write,
\* and the tail has not moved onto it.
LEMMA LogWriteKeeps ==
    ASSUME TypeOK, MemIsTail, pc \in {"idle", "flush"}, ~CleanerStarts,
           NEW inum \in Files \cup {IFILE}, NEW data \in Content,
           LogWrite(inum, data), ~worn', ~overrun',
           NEW f \in Files, NEW x, NEW a \in Addr, a # tail,
           LogRead(a) = [file_no |-> f, data |-> x]
    PROVE  a # tail' /\ LogRead(a)' = [file_no |-> f, data |-> x]
  <1>1. LogRead(a)' = [file_no |-> f, data |-> x]
    BY LogWriteReads
  <1>2. ASSUME a = tail' PROVE FALSE
    <2>1. (LogRead(a)').file_no = IFILE
      BY <1>2, LogWriteTail
    <2>. QED  BY <1>1, <2>1, NamesAssumption
  <1>. QED  BY <1>1, <1>2

\* The block just written reads as written, and the tail has left it.
LEMMA LogWriteNew ==
    ASSUME TypeOK, MemIsTail, pc \in {"idle", "flush"}, ~CleanerStarts,
           NEW f \in Files, NEW x \in Content,
           LogWrite(f, x), ~worn', ~overrun', NEW a \in Addr, a = tail
    PROVE  a # tail' /\ LogRead(a)' = [file_no |-> f, data |-> x]
  <1>1. LogRead(a)' = [file_no |-> f, data |-> x]
    BY LogWriteReads
  <1>2. ASSUME a = tail' PROVE FALSE
    <2>1. (LogRead(a)').file_no = IFILE
      BY <1>2, LogWriteTail
    <2>. QED  BY <1>1, <2>1, NamesAssumption
  <1>. QED  BY <1>1, <1>2

\* So a Log_Write keeps the blocks of the checkpoint, even if it overruns the
\* log or its push fails.
LEMMA LogWriteSaved ==
    ASSUME TypeOK, MemIsTail, DataInv, pc \in {"idle", "flush"}, ~CleanerStarts,
           NEW inum \in Files \cup {IFILE}, NEW data \in Content,
           LogWrite(inum, data), ~lost', UNCHANGED saved
    PROVE  SavedDurable' /\ SavedLive'
  <1>1. ~lost /\ cp' = cp /\ torn' = torn
    BY DEF LogWrite
  <1>2. ASSUME NEW f \in Files, saved[f] # NoData
        PROVE  DurableAt(saved[f], f)' /\ LiveAt(saved[f], f)'
    <2>1. DurableAt(saved[f], f) /\ LiveAt(saved[f], f)
      BY <1>1, <1>2 DEF DataInv, Mounted, SavedDurable, SavedLive
    <2>2. PICK a \in Addr : a = saved[f].addr
      BY <2>1 DEF LiveAt
    <2>. DEFINE r == [file_no |-> f, data |-> saved[f].data]
    <2>3. a # tail /\ LogRead(a) = r /\ disk[a.seg][a.bk] = r
      BY <2>1, <2>2 DEF LiveAt, DurableAt
    <2>4. LogRead(a)' = r /\ disk'[a.seg][a.bk] = r
      BY <2>3, LogWriteDurable
    <2>5. a # tail'
      <3>1. disk'[a.seg][a.bk].file_no = f /\ f # IFILE
        BY <2>4, NamesAssumption
      <3>. QED  BY <2>3, <3>1, LogWriteFree
    <2>. QED  BY <1>1, <2>1, <2>2, <2>4, <2>5 DEF LiveAt, DurableAt, LogRead
  <1>. QED  BY <1>2 DEF SavedDurable, SavedLive

\* And as long as neither happens it keeps the live blocks.
LEMMA LogWriteLive ==
    ASSUME TypeOK, MemIsTail, DataInv, pc \in {"idle", "flush"}, ~CleanerStarts,
           NEW inum \in Files \cup {IFILE}, NEW data \in Content,
           LogWrite(inum, data), Healthy'
    PROVE  /\ \A f \in Files, a \in Addr :
                  (cur[f] # NoData /\ a = cur[f].addr) =>
                      /\ a # tail'
                      /\ LogRead(a)' = [file_no |-> f, data |-> cur[f].data]
           /\ \A f \in Files : cur[f] # NoData => cur[f].addr \in Addr
  <1>1. CurLive /\ ~worn' /\ ~overrun'
    BY DEF DataInv, Mounted, LogWrite, Healthy
  <1>2. ASSUME NEW f \in Files, NEW a \in Addr, cur[f] # NoData, a = cur[f].addr
        PROVE  a # tail' /\ LogRead(a)' = [file_no |-> f, data |-> cur[f].data]
    <2>1. a # tail /\ LogRead(a) = [file_no |-> f, data |-> cur[f].data]
      BY <1>1, <1>2 DEF CurLive, LiveAt
    <2>. QED  BY <1>1, <2>1, LogWriteKeeps
  <1>. QED  BY <1>1, <1>2 DEF CurLive, LiveAt
-----------------------------------------------------------------------------
(* The segment in memory.                                                  *)

\* MemIsTail, one step per action.
LEMMA MemIsTailStep ==
    ASSUME TypeOK, MemIsTail, [Next]_vars
    PROVE  MemIsTail'
  <1>1. CASE Mount
    BY <1>1 DEF Mount, TailOf, Loaded, MemIsTail, Mounted, flash
  <1>2. ASSUME NEW f \in Files, NEW v \in Vals, WriteData(f, v) PROVE MemIsTail'
    <2>1. v \in Content
      BY DEF Content
    <2>2. /\ pc \in {"idle", "flush"} /\ ~CleanerStarts
          /\ LogWrite(f, v) /\ pc' = "flush"
      BY <1>2 DEF WriteData
    <2>. QED  BY <2>1, <2>2, LogWriteMem DEF MemIsTail
  <1>3. ASSUME NEW f \in Files, FlushInode(f), pc \in {"idle", "flush"}
        PROVE  MemIsTail'
    <2>. DEFINE table == FlushedBlock(f)
    <2>1. table \in Content
      BY FlushedBlockType
    <2>2. LogWrite(IFILE, table) /\ ~CleanerStarts /\ pc' = "idle"
      BY <1>3 DEF FlushInode
    <2>. HIDE DEF table
    <2>. QED  BY <1>3, <2>1, <2>2, LogWriteMem DEF MemIsTail
  <1>4. CASE FlushIno
    BY <1>3, <1>4 DEF FlushIno, TypeOK
  <1>5. ASSUME NEW f \in Files, ReadFile(f) PROVE MemIsTail'
    BY <1>3, <1>5 DEF ReadFile
  <1>6. CASE Unmount
    BY <1>6 DEF Unmount, MemIsTail, Mounted, volatile
  <1>7. ASSUME pc' = "down" \/ pc' = "segv" PROVE MemIsTail'
    BY <1>7 DEF MemIsTail, Mounted
  <1>8. CASE UNCHANGED vars
    BY <1>8 DEF vars, flash, volatile, history, MemIsTail, Mounted
  <1>. QED  BY <1>1, <1>2, <1>4, <1>5, <1>6, <1>7, <1>8
            DEF Next, StoreCheckpoint, CleanSegFault, Crash, CrashErased, CrashTorn,
                TornPush, CrashTornCheckpoint

(* The segment in memory is the tail's and agrees with the flash from the  *)
(* tail on, whatever was pushed, refused or lost before.                   *)
THEOREM MemoryIsTail == Spec => []TailSegmentLoaded
  <1>1. Init => MemIsTail
    BY DEF Init, MemIsTail, Mounted
  <1>2. TypeOK /\ MemIsTail /\ [Next]_vars => MemIsTail'
    BY MemIsTailStep
  <1>3. MemIsTail => TailSegmentLoaded
    BY DEF MemIsTail, TailSegmentLoaded, Mounted
  <1>. QED  BY <1>1, <1>2, <1>3, TypeCorrect, PTL DEF Spec

-----------------------------------------------------------------------------
(* The data blocks.                                                        *)

\* DataInv across the append of a data block.
LEMMA WriteDataStep ==
    ASSUME TypeOK, MemIsTail, DataInv,
           NEW f \in Files, NEW v \in Vals, WriteData(f, v)
    PROVE  DataInv'
  <1>1. /\ LogWrite(f, v) /\ ~CleanerStarts /\ pc \in {"idle", "flush"}
        /\ saved' = saved /\ v \in Content /\ pc' = "flush"
        /\ cur' = [cur EXCEPT ![f] = [addr |-> tail, data |-> v]]
    BY DEF WriteData, Content
  <1>2. ~lost' => SavedDurable' /\ SavedLive'
    BY <1>1, LogWriteSaved
  <1>3. ASSUME Healthy' PROVE CurLive'
    <2>1. /\ \A g \in Files, a \in Addr :
                 (cur[g] # NoData /\ a = cur[g].addr) =>
                     /\ a # tail'
                     /\ LogRead(a)' = [file_no |-> g, data |-> cur[g].data]
          /\ \A g \in Files : cur[g] # NoData => cur[g].addr \in Addr
      BY <1>1, <1>3, LogWriteLive
    <2>2. PICK a \in Addr : a = tail
      BY DEF TypeOK
    <2>3. a # tail' /\ LogRead(a)' = [file_no |-> f, data |-> v]
      BY <1>1, <1>3, <2>2, LogWriteNew DEF Healthy
    <2>4. ASSUME NEW g \in Files, cur'[g] # NoData PROVE LiveAt(cur[g], g)'
      <3>1. CASE g = f
        <4>1. cur'[g].addr = a /\ cur'[g].data = v
          BY <1>1, <2>2, <3>1 DEF TypeOK
        <4>. QED  BY <2>3, <3>1, <4>1 DEF LiveAt, LogRead
      <3>2. CASE g # f
        <4>1. cur'[g] = cur[g]
          BY <1>1, <3>2 DEF TypeOK
        <4>. QED  BY <2>1, <2>4, <4>1 DEF LiveAt, LogRead
      <3>. QED  BY <3>1, <3>2
    <2>. QED  BY <2>4 DEF CurLive
  <1>. QED  BY <1>1, <1>2, <1>3 DEF DataInv

\* DataInv across the append of an ifile block.
LEMMA FlushInodeStep ==
    ASSUME TypeOK, MemIsTail, DataInv, pc \in {"idle", "flush"},
           NEW f \in Files, FlushInode(f)
    PROVE  DataInv'
  <1>. DEFINE table == FlushedBlock(f)
  <1>1. table \in Content
    BY FlushedBlockType
  <1>2. /\ LogWrite(IFILE, table) /\ ~CleanerStarts /\ pc' = "idle"
        /\ UNCHANGED <<cur, saved>>
    BY DEF FlushInode
  <1>. HIDE DEF table
  <1>3. ~lost' => SavedDurable' /\ SavedLive'
    BY <1>1, <1>2, LogWriteSaved
  <1>4. ASSUME Healthy' PROVE CurLive'
    <2>1. /\ \A g \in Files, a \in Addr :
                 (cur[g] # NoData /\ a = cur[g].addr) =>
                     /\ a # tail'
                     /\ LogRead(a)' = [file_no |-> g, data |-> cur[g].data]
          /\ \A g \in Files : cur[g] # NoData => cur[g].addr \in Addr
      BY <1>1, <1>2, <1>4, LogWriteLive
    <2>. QED  BY <1>2, <2>1 DEF CurLive, LiveAt, LogRead
  <1>. QED  BY <1>2, <1>3, <1>4 DEF DataInv

\* DataInv across the first half of Log_Destroy: the tail segment reaches the
\* flash, or worn' says it did not.
LEMMA UnmountStep ==
    ASSUME TypeOK, MemIsTail, DataInv, Unmount
    PROVE  DataInv'
  <1>1. /\ disk' = Persisted(tail.seg, mem.bks)
        /\ UNCHANGED <<cp, tail, mem, cur, saved, overrun, torn, lost>>
        /\ worn' = (worn \/ ~WriteOk(tail.seg)) /\ pc = "idle" /\ pc' = "ckpt"
    BY DEF Unmount, volatile
  <1>2. mem.seg_no = tail.seg /\ tail.seg \in LogSegs
    BY <1>1 DEF MemIsTail, Mounted, TypeOK, Addr
  <1>3. ASSUME NEW a \in Addr
        PROVE  /\ LogRead(a)' = LogRead(a)
               /\ LogRead(a) = disk[a.seg][a.bk] => disk'[a.seg][a.bk] = disk[a.seg][a.bk]
    BY <1>1, <1>2 DEF LogRead, TypeOK, Addr, Persisted
  <1>4. ASSUME ~lost' PROVE SavedDurable' /\ SavedLive'
    <2>1. ASSUME NEW f \in Files, saved[f] # NoData
          PROVE  LiveAt(saved[f], f)' /\ DurableAt(saved[f], f)'
      <3>1. LiveAt(saved[f], f) /\ DurableAt(saved[f], f)
        BY <1>1, <1>4, <2>1 DEF DataInv, Mounted, SavedLive, SavedDurable
      <3>2. PICK a \in Addr : a = saved[f].addr
        BY <3>1 DEF LiveAt
      <3>3. LogRead(a) = disk[a.seg][a.bk]
        BY <3>1, <3>2 DEF LiveAt, DurableAt
      <3>4. LogRead(a)' = LogRead(a) /\ disk'[a.seg][a.bk] = disk[a.seg][a.bk]
        BY <1>3, <3>3
      <3>. QED  BY <1>1, <3>1, <3>2, <3>4 DEF LiveAt, DurableAt, LogRead
    <2>. QED  BY <1>1, <2>1 DEF SavedDurable, SavedLive
  <1>5. ASSUME Healthy' PROVE CurLive' /\ disk'[tail'.seg] = mem'.bks
    <2>1. CurLive /\ WriteOk(tail.seg)
      BY <1>1, <1>5 DEF DataInv, Mounted, Healthy
    <2>2. ASSUME NEW f \in Files, cur[f] # NoData PROVE LiveAt(cur[f], f)'
      <3>1. LiveAt(cur[f], f)
        BY <2>1, <2>2 DEF CurLive
      <3>2. PICK a \in Addr : a = cur[f].addr
        BY <3>1 DEF LiveAt
      <3>3. LogRead(a)' = LogRead(a)
        BY <1>3
      <3>. QED  BY <1>1, <3>1, <3>2, <3>3 DEF LiveAt, LogRead
    <2>3. disk'[tail'.seg] = mem'.bks
      BY <1>1, <1>2, <2>1 DEF Persisted, TypeOK
    <2>. QED  BY <1>1, <2>2, <2>3 DEF CurLive
  <1>. QED  BY <1>1, <1>4, <1>5 DEF DataInv

\* DataInv across the write of the checkpoint, as far as it comes.  Once it has
\* come to the ifile, what was live is what is saved; once it is whole, none of
\* that is where the next mount will put the tail.
LEMMA PutCheckpointStep ==
    ASSUME TypeOK, MemIsTail, DataInv, pc = "ckpt", ~lost',
           NEW k \in 0 .. CpEnd, PutCheckpoint(k), UNCHANGED disk
    PROVE  SavedDurable'
  <1>1. k = 0 \/ k = 1 \/ k = 2
    BY DEF CpEnd
  <1>2. CASE k = 0
    <2>1. cp'.tail = cp.tail /\ saved' = saved /\ torn' = torn /\ ~lost
      BY <1>2 DEF PutCheckpoint, CpEnd, TypeOK
    <2>. QED  BY <2>1 DEF DataInv, SavedDurable, DurableAt
  <1>3. CASE k = 1 \/ k = 2
    <2>1. /\ saved' = cur
          /\ ~torn' => cp'.tail = tail
          /\ ~lost /\ ~overrun /\ ~worn
      <3>1. k >= 1 /\ (k = 1 \/ k = CpEnd)
        BY <1>3 DEF CpEnd
      <3>2. saved' = cur /\ (k = 1 => torn')
        BY <3>1 DEF PutCheckpoint
      <3>3. k = CpEnd => cp'.tail = tail
        BY DEF PutCheckpoint
      <3>4. ~lost /\ ~overrun /\ ~worn
        BY <3>1 DEF PutCheckpoint
      <3>. QED  BY <3>1, <3>2, <3>3, <3>4
    <2>2. CurLive /\ disk[tail.seg] = mem.bks /\ mem.seg_no = tail.seg
      BY <2>1 DEF DataInv, MemIsTail, Mounted, Healthy
    <2>3. ASSUME NEW f \in Files, cur[f] # NoData PROVE DurableAt(saved[f], f)'
      <3>1. LiveAt(cur[f], f)
        BY <2>2, <2>3 DEF CurLive
      <3>2. LogRead(cur[f].addr) = disk[cur[f].addr.seg][cur[f].addr.bk]
        BY <2>2 DEF LogRead
      <3>. QED  BY <2>1, <3>1, <3>2 DEF LiveAt, DurableAt
    <2>. QED  BY <2>1, <2>3 DEF SavedDurable
  <1>. QED  BY <1>1, <1>2, <1>3

\* DataInv across the second half of Log_Destroy.
LEMMA StoreCheckpointStep ==
    ASSUME TypeOK, MemIsTail, DataInv, StoreCheckpoint
    PROVE  DataInv'
  <1>. SUFFICES ASSUME ~lost' PROVE SavedDurable'
    BY DEF DataInv, StoreCheckpoint, Mounted
  <1>1. pc = "ckpt" /\ disk' = disk
    BY DEF StoreCheckpoint
  <1>2. CASE PutCheckpoint(CpEnd)
    BY <1>1, <1>2, PutCheckpointStep DEF CpEnd
  <1>3. CASE UNCHANGED <<cp, saved, torn, lost>>
    BY <1>1, <1>3 DEF DataInv, SavedDurable, DurableAt
  <1>. QED  BY <1>2, <1>3 DEF StoreCheckpoint

\* DataInv across a kill within it.
LEMMA CrashTornCheckpointStep ==
    ASSUME TypeOK, MemIsTail, DataInv, NEW k \in 0 .. CpEnd, CrashTornCheckpoint(k)
    PROVE  DataInv'
  <1>. SUFFICES ASSUME ~lost' PROVE SavedDurable'
    BY DEF DataInv, CrashTornCheckpoint, Mounted
  <1>. QED  BY PutCheckpointStep DEF CrashTornCheckpoint

\* DataInv across a mount: what the checkpoint refers to is all there is.
LEMMA MountStep ==
    ASSUME TypeOK, DataInv, Mount
    PROVE  DataInv'
  <1>. SUFFICES ASSUME ~lost'
                PROVE  SavedDurable' /\ CurLive' /\ SavedLive'
    BY DEF DataInv, Mount, Healthy
  <1>1. /\ disk' = disk /\ cp' = cp /\ saved' = saved /\ cur' = saved
        /\ tail' = cp.tail /\ mem' = Loaded(disk, cp.tail.seg)
        /\ ~lost /\ ~torn /\ torn' = torn
    BY DEF Mount, TailOf, flash
  <1>2. SavedDurable
    BY <1>1 DEF DataInv
  <1>3. SavedDurable'
    BY <1>1, <1>2 DEF SavedDurable, DurableAt
  <1>4. ASSUME NEW a \in Addr PROVE LogRead(a)' = disk[a.seg][a.bk]
    BY <1>1 DEF LogRead, Loaded
  <1>5. ASSUME NEW f \in Files, saved[f] # NoData PROVE LiveAt(saved[f], f)'
    <2>1. DurableAt(saved[f], f)
      BY <1>2, <1>5 DEF SavedDurable
    <2>2. PICK a \in Addr : a = saved[f].addr
      BY <2>1 DEF DurableAt
    <2>3. LogRead(a)' = disk[a.seg][a.bk]
      BY <1>4
    <2>. QED  BY <1>1, <2>1, <2>2, <2>3 DEF DurableAt, LiveAt, LogRead
  <1>6. SavedLive'
    BY <1>1, <1>5 DEF SavedLive
  <1>7. CurLive'
    <2>. SUFFICES ASSUME NEW f \in Files, cur'[f] # NoData PROVE LiveAt(cur[f], f)'
      BY DEF CurLive
    <2>1. LiveAt(saved[f], f)'
      BY <1>1, <1>5
    <2>. QED  BY <1>1, <2>1 DEF LiveAt, LogRead
  <1>. QED  BY <1>3, <1>6, <1>7

\* DataInv across a torn write of the tail segment.  A checkpointed block in
\* that segment is in memory what it is on flash (SavedLive, SavedDurable) and
\* is not at the tail: old image and new image agree on it, and so does any
\* mixture of them.
LEMMA CrashTornStep ==
    ASSUME TypeOK, MemIsTail, DataInv, NEW k, CrashTorn(k)
    PROVE  DataInv'
  <1>1. PICK img \in SegImage :
            /\ TornPush(img, k)
            /\ \A b \in Blks : b # tail.bk => img[b] = mem.bks[b]
    BY CrashTornImage
  <1>2. pc \in {"idle", "flush"} /\ pc' = "down"
    BY <1>1, CrashTornImage DEF TornPush
  <1>. SUFFICES ASSUME ~lost'
                PROVE  SavedDurable'
    BY <1>2 DEF DataInv, Mounted
  <1>3. /\ disk' = [disk EXCEPT ![tail.seg] = Torn(tail.seg, img, k)]
        /\ UNCHANGED <<cp, saved, torn>> /\ ~lost
    BY <1>1 DEF TornPush, history
  <1>4. SavedDurable /\ SavedLive /\ mem.seg_no = tail.seg
    BY <1>2, <1>3 DEF DataInv, MemIsTail, Mounted
  <1>5. ASSUME NEW f \in Files, saved[f] # NoData
        PROVE  DurableAt(saved[f], f)'
    <2>1. LiveAt(saved[f], f) /\ DurableAt(saved[f], f)
      BY <1>4, <1>5 DEF SavedLive, SavedDurable
    <2>2. PICK a \in Addr : a = saved[f].addr
      BY <2>1 DEF LiveAt
    <2>. DEFINE r == [file_no |-> f, data |-> saved[f].data]
    <2>3. /\ a # tail /\ LogRead(a) = r
          /\ ~torn => a # cp.tail
          /\ disk[a.seg][a.bk] = r
      BY <2>1, <2>2 DEF LiveAt, DurableAt
    <2>4. CASE a.seg = tail.seg
      <3>1. a.bk \in Blks /\ a.bk # tail.bk
        BY <2>3, <2>4 DEF Addr, TypeOK
      <3>2. img[a.bk] = r
        BY <1>1, <1>4, <2>3, <2>4, <3>1 DEF LogRead
      <3>3. Torn(tail.seg, img, k)[a.bk] = r
        BY <2>3, <2>4, <3>1, <3>2 DEF Torn
      <3>4. disk'[a.seg][a.bk] = r
        BY <1>3, <2>4, <3>3 DEF TypeOK, Addr
      <3>. QED  BY <1>3, <2>2, <2>3, <3>4 DEF DurableAt
    <2>5. CASE a.seg # tail.seg
      <3>1. disk'[a.seg][a.bk] = r
        BY <1>3, <2>3, <2>5 DEF TypeOK, Addr
      <3>. QED  BY <1>3, <2>2, <2>3, <3>1 DEF DurableAt
    <2>. QED  BY <2>4, <2>5
  <1>. QED  BY <1>3, <1>5 DEF SavedDurable

\* DataInv, one step per action.
LEMMA DataInvStep ==
    ASSUME TypeOK, MemIsTail, DataInv, [Next]_vars
    PROVE  DataInv'
  <1>1. CASE Mount
    BY <1>1, MountStep
  <1>2. ASSUME NEW f \in Files, NEW v \in Vals, WriteData(f, v) PROVE DataInv'
    BY <1>2, WriteDataStep
  <1>3. CASE FlushIno
    BY <1>3, FlushInodeStep DEF FlushIno, TypeOK
  <1>4. ASSUME NEW f \in Files, ReadFile(f) PROVE DataInv'
    BY <1>4, FlushInodeStep DEF ReadFile
  <1>5. CASE Unmount
    BY <1>5, UnmountStep
  <1>6. CASE StoreCheckpoint
    BY <1>6, StoreCheckpointStep
  <1>7. ASSUME /\ pc' \in {"down", "segv"}
               /\ UNCHANGED <<disk, cp, saved, overrun, worn, torn, lost>>
        PROVE  DataInv'
    BY <1>7 DEF DataInv, Mounted, SavedDurable, DurableAt
  <1>8. CASE UNCHANGED vars
    BY <1>8 DEF vars, flash, volatile, history, DataInv, Mounted,
                Healthy, SavedDurable, SavedLive, CurLive, LiveAt, DurableAt, LogRead
  <1>9. CleanSegFault \/ Crash \/ (\E s \in Segs : CrashErased(s)) =>
            /\ pc' \in {"down", "segv"}
            /\ UNCHANGED <<disk, cp, saved, overrun, worn, torn, lost>>
    BY DEF CleanSegFault, Crash, CrashErased, flash, history
  <1>10. ASSUME NEW k \in 0 .. ImageEnd, CrashTorn(k) PROVE DataInv'
    BY <1>10, CrashTornStep
  <1>11. ASSUME NEW k \in 0 .. CpEnd, CrashTornCheckpoint(k) PROVE DataInv'
    BY <1>11, CrashTornCheckpointStep
  <1>. QED  BY <1>1, <1>2, <1>3, <1>4, <1>5, <1>6, <1>7, <1>8, <1>9, <1>10, <1>11
            DEF Next

(* Neither the live blocks nor those of the checkpoint are ever reused,    *)
(* misread or half written.                                                *)
THEOREM DataSafe == Spec => []DataInv
  <1>1. Init => DataInv
    BY DEF Init, DataInv, Mounted, SavedDurable
  <1>2. Init => MemIsTail
    BY DEF Init, MemIsTail, Mounted
  <1>3. TypeOK /\ MemIsTail /\ DataInv /\ [Next]_vars => DataInv' /\ MemIsTail'
    BY DataInvStep, MemIsTailStep
  <1>. QED  BY <1>1, <1>2, <1>3, TypeCorrect, PTL DEF Spec

(* In the running process every flushed inode leads to the data last       *)
(* written for its file.                                                   *)
THEOREM LiveDataSafe == Spec => []LiveDataIntact
  <1>1. DataInv => LiveDataIntact
    BY DEF DataInv, LiveDataIntact, CurLive, LiveAt
  <1>. QED  BY <1>1, DataSafe, PTL

(* Whatever instant the process is killed at, and whatever pushes fail or  *)
(* blocks are overrun meanwhile, the data that the checkpoint on flash     *)
(* leads to is there.                                                      *)
THEOREM CheckpointSafe == Spec => []CheckpointedDataIntact
  <1>1. DataInv => CheckpointedDataIntact
    BY DEF DataInv, CheckpointedDataIntact, SavedDurable, DurableAt
  <1>. QED  BY <1>1, DataSafe, PTL

-----------------------------------------------------------------------------
(* The blocks of the ifile, for every layout of it: until the log wraps,   *)
(* no inode is lost, neither a live one nor one of the checkpoint.  Their  *)
(* summary entries say "unused"; what keeps the tail off them is that it   *)
(* only moves up.                                                          *)

(* The order of the log.                                                   *)

LEMMA BeforeTransitive ==
    ASSUME NEW a \in Addr, NEW b \in Addr, NEW c \in Addr,
           Before(a, b), Before(b, c)
    PROVE  Before(a, c)
  BY DEF Before, Addr, LogSegs, Blks

LEMMA BeforeDiffers ==
    ASSUME NEW a \in Addr, NEW b \in Addr, Before(a, b)
    PROVE  a # b
  BY DEF Before, Addr, LogSegs, Blks

\* As long as the search does not start again from the first segment the tail
\* moves up.
LEMMA LogWriteAdvances ==
    ASSUME TypeOK,
           NEW inum \in Files \cup {IFILE}, NEW data \in Content,
           LogWrite(inum, data), ~wrapped'
    PROVE  /\ Before(tail, tail')
           /\ ~wrapped /\ overrun' = overrun
  <1>1. SetLogTail(disk', wear', tail') /\ ~Wraps(disk', wear') /\ ~wrapped
    BY DEF LogWrite
  <1>2. overrun' = overrun
    BY <1>1 DEF LogWrite, NoRoomAtAll, TypeOK
  <1>3. tail \in Addr /\ tail' \in Addr
    BY DEF LogWrite, TypeOK
  <1>4. FirstUsable(disk', wear', tail.seg, tail.bk + 1, tail') => Before(tail, tail')
    BY <1>3 DEF FirstUsable, Before, Addr, Blks
  <1>5. FirstWithRoom(disk', wear', After(tail.seg), tail'.seg) => Before(tail, tail')
    BY <1>3 DEF FirstWithRoom, After, Before
  <1>. QED  BY <1>1, <1>2, <1>4, <1>5 DEF SetLogTail, NoRoomAtAll

\* Blocks the tail has passed stay passed.
LEMMA PassedOn ==
    ASSUME NEW blocks \in [IfBlks -> PtrType], NEW a \in Addr, NEW b \in Addr,
           Passed(blocks, a), Before(a, b)
    PROVE  Passed(blocks, b)
  <1>. SUFFICES ASSUME NEW i \in IfBlks, blocks[i] # Null
                PROVE  Before(blocks[i], b)
    BY DEF Passed
  <1>1. blocks[i] \in Addr /\ Before(blocks[i], a)
    BY DEF Passed, PtrType
  <1>. QED  BY <1>1, BeforeTransitive

\* A block of the ifile is an address, and the tail is not on it.
LEMMA PassedBlock ==
    ASSUME TypeOK, NEW blocks \in [IfBlks -> PtrType], Passed(blocks, tail),
           NEW i \in IfBlks, blocks[i] # Null
    PROVE  blocks[i] \in Addr /\ blocks[i] # tail
  <1>1. blocks[i] \in Addr /\ Before(blocks[i], tail) /\ tail \in Addr
    BY DEF Passed, PtrType, TypeOK
  <1>. QED  BY <1>1, BeforeDiffers

-----------------------------------------------------------------------------
(* Steps.                                                                  *)

\* What a Log_Write keeps: every ifile block that the checkpoint refers to, where
\* it is and what it is, and unless its push fails those of the running process.
LEMMA LogWriteIfile ==
    ASSUME TypeOK, MemIsTail, IfileInv, pc \in {"idle", "flush"}, ~CleanerStarts,
           NEW inum \in Files \cup {IFILE}, NEW data \in Content,
           LogWrite(inum, data), ~lost', ~wrapped'
    PROVE  /\ ~wrapped /\ ~lost /\ ~overrun' /\ cp' = cp /\ torn' = torn
           /\ ~worn' => ~worn
           /\ Before(tail, tail') /\ Passed(ifile, tail')
           /\ ~torn => Passed(cp.ifile, cp.tail)
           /\ Passed(cp.ifile, tail')
           /\ ~worn' => \A i \in IfBlks, a \in Addr :
                            a = ifile[i] => a # tail /\ LogRead(a)' = LogRead(a)
           /\ \A i \in IfBlks, a \in Addr : a = cp.ifile[i] =>
                  /\ LogRead(a)' = disk[a.seg][a.bk]
                  /\ disk'[a.seg][a.bk] = disk[a.seg][a.bk]
  <1>1. ~wrapped /\ Before(tail, tail') /\ overrun' = overrun
    BY LogWriteAdvances
  <1>2. ~lost /\ cp' = cp /\ torn' = torn /\ (~worn' => ~worn)
    BY DEF LogWrite
  <1>3. /\ ~overrun
        /\ ~torn => Passed(cp.ifile, cp.tail)
        /\ Passed(ifile, tail) /\ Passed(cp.ifile, tail)
        /\ \A i \in IfBlks : cp.ifile[i] # Null =>
               LogRead(cp.ifile[i]) = disk[cp.ifile[i].seg][cp.ifile[i].bk]
    BY <1>1, <1>2 DEF IfileInv, Mounted
  <1>4. tail \in Addr /\ tail' \in Addr
    BY DEF TypeOK, LogWrite
  <1>5. ifile \in [IfBlks -> PtrType] /\ cp.ifile \in [IfBlks -> PtrType]
    BY DEF TypeOK
  <1>6. Passed(ifile, tail') /\ Passed(cp.ifile, tail')
    BY <1>1, <1>3, <1>4, <1>5, PassedOn
  <1>7. ASSUME ~worn', NEW i \in IfBlks, NEW a \in Addr, a = ifile[i]
        PROVE  a # tail /\ LogRead(a)' = LogRead(a)
    <2>1. a # tail
      BY <1>3, <1>5, <1>7, PassedBlock, NullAssumption
    <2>. QED  BY <1>7, <2>1, LogWriteReads
  <1>8. ASSUME NEW i \in IfBlks, NEW a \in Addr, a = cp.ifile[i]
        PROVE  /\ LogRead(a)' = disk[a.seg][a.bk]
               /\ disk'[a.seg][a.bk] = disk[a.seg][a.bk]
    <2>1. a # tail
      BY <1>3, <1>5, <1>8, PassedBlock, NullAssumption
    <2>2. LogRead(a) = disk[a.seg][a.bk]
      BY <1>3, <1>8, NullAssumption
    <2>. QED  BY <2>1, <2>2, LogWriteDurable
  <1>. QED  BY <1>1, <1>2, <1>3, <1>6, <1>7, <1>8

\* The inodes of an ifile block are read from it as before if the block is.
LEMMA SameBlockSameInodes ==
    ASSUME NEW i \in IfBlks, ifile'[i] = ifile[i],
           ifile[i] # Null => (LogRead(ifile[i]))' = LogRead(ifile[i])
    PROVE  IfileBlock(i)' = IfileBlock(i)
  BY DEF IfileBlock

\* The inodes of the checkpoint are those it saved as long as its blocks stay.
LEMMA CheckpointKept ==
    ASSUME TypeOK, CheckpointedIfileIntactBeforeWrap, ~wrapped, ~lost,
           cp' = cp, saved' = saved,
           \A i \in IfBlks, a \in Addr :
               a = cp.ifile[i] => disk'[a.seg][a.bk] = disk[a.seg][a.bk]
    PROVE  CheckpointedIfileIntactBeforeWrap'
  <1>. SUFFICES ASSUME NEW f \in Files PROVE FlashInode(f)' = saved'[f].addr
    BY DEF CheckpointedIfileIntactBeforeWrap
  <1>1. IfBlkOf[f] \in IfBlks /\ cp.ifile[IfBlkOf[f]] \in Addr \cup {Null}
    BY NamesAssumption DEF TypeOK, PtrType
  <1>2. FlashInode(f)' = FlashInode(f)
    BY <1>1 DEF FlashInode
  <1>. QED  BY <1>2 DEF CheckpointedIfileIntactBeforeWrap

\* The append of a data block: the inode in memory changes, no ifile block does.
LEMMA WriteDataIfile ==
    ASSUME TypeOK, MemIsTail, IfileInv,
           NEW f \in Files, NEW v \in Vals, WriteData(f, v)
    PROVE  IfileInv'
  <1>. SUFFICES ASSUME ~wrapped', ~lost' PROVE IfileInv'
    BY DEF IfileInv
  <1>1. /\ LogWrite(f, v) /\ ~CleanerStarts /\ pc = "idle" /\ pc' = "flush"
        /\ v \in Content /\ pend' = f /\ ifile' = ifile /\ saved' = saved
        /\ inode' = [inode EXCEPT ![f] = tail]
        /\ cur' = [cur EXCEPT ![f] = [addr |-> tail, data |-> v]]
    BY DEF WriteData, Content
  <1>2. /\ ~wrapped /\ ~lost /\ ~overrun' /\ cp' = cp /\ torn' = torn
        /\ ~worn' => ~worn
        /\ ~torn => Passed(cp.ifile, cp.tail)
        /\ Passed(ifile, tail') /\ Passed(cp.ifile, tail')
        /\ ~worn' => \A i \in IfBlks, a \in Addr :
                         a = ifile[i] => LogRead(a)' = LogRead(a)
        /\ \A i \in IfBlks, a \in Addr : a = cp.ifile[i] =>
               /\ LogRead(a)' = disk[a.seg][a.bk]
               /\ disk'[a.seg][a.bk] = disk[a.seg][a.bk]
    BY <1>1, LogWriteIfile
  <1>3. IfileIntactBeforeWrap /\ CheckpointedIfileIntactBeforeWrap
    BY <1>1, <1>2 DEF IfileInv, Mounted
  <1>4. ASSUME NEW i \in IfBlks, cp'.ifile[i] # Null
        PROVE  LogRead(cp.ifile[i])' = disk'[cp'.ifile[i].seg][cp'.ifile[i].bk]
    <2>1. PICK a \in Addr : a = cp.ifile[i]
      BY <1>2, <1>4 DEF TypeOK, PtrType
    <2>. QED  BY <1>2, <2>1 DEF LogRead
  <1>5. CheckpointedIfileIntactBeforeWrap'
    BY <1>1, <1>2, <1>3, CheckpointKept
  <1>6. IfileIntactBeforeWrap'
    <2>. SUFFICES ASSUME ~worn' PROVE IfileIntactBeforeWrap'
      BY DEF IfileIntactBeforeWrap, Promised
    <2>1. ASSUME NEW i \in IfBlks PROVE IfileBlock(i)' = IfileBlock(i)
      <3>1. ifile[i] \in Addr \cup {Null}
        BY DEF TypeOK, PtrType
      <3>. QED  BY <1>1, <1>2, <3>1, SameBlockSameInodes DEF LogRead
    <2>2. ASSUME NEW g \in Files
          PROVE  /\ inode'[g] = cur'[g].addr
                 /\ ~(pc' = "flush" /\ g = pend') => IfileBlock(IfBlkOf[g])'[g] = inode'[g]
      BY <1>1, <1>2, <1>3, <2>1, NamesAssumption
         DEF IfileIntactBeforeWrap, Promised, Mounted, TypeOK
    <2>. QED  BY <2>2 DEF IfileIntactBeforeWrap
  <1>. QED  BY <1>1, <1>2, <1>4, <1>5, <1>6 DEF IfileInv, LogRead

\* The append of an ifile block: it holds what the block before it held, and
\* the inode of the one file for which that was out of date.
LEMMA FlushInodeIfile ==
    ASSUME TypeOK, MemIsTail, IfileInv, NEW f \in Files, FlushInode(f),
           pc = "idle" \/ (pc = "flush" /\ f = pend)
    PROVE  IfileInv'
  <1>. SUFFICES ASSUME ~wrapped', ~lost' PROVE IfileInv'
    BY DEF IfileInv
  <1>. DEFINE n     == IfBlkOf[f]
              table == FlushedBlock(f)
  <1>1. n \in IfBlks /\ f \in FilesOf(n) /\ table \in Content
    BY NamesAssumption, FlushedBlockType DEF FilesOf
  <1>2. /\ LogWrite(IFILE, table) /\ ~CleanerStarts
        /\ pc \in {"idle", "flush"} /\ pc' = "idle"
        /\ ifile' = [ifile EXCEPT ![n] = tail]
        /\ UNCHANGED <<inode, cur, saved>>
    BY DEF FlushInode
  <1>3. table = [IfileBlock(n) EXCEPT ![f] = inode[f]] /\ table \in Tables(n)
    BY <1>1, IfileBlockType DEF FlushedBlock, Tables, TypeOK
  <1>. HIDE DEF table
  <1>4. /\ ~wrapped /\ ~lost /\ ~overrun' /\ cp' = cp /\ torn' = torn
        /\ ~worn' => ~worn
        /\ ~torn => Passed(cp.ifile, cp.tail)
        /\ Before(tail, tail') /\ Passed(ifile, tail') /\ Passed(cp.ifile, tail')
        /\ ~worn' => \A i \in IfBlks, a \in Addr :
                         a = ifile[i] => LogRead(a)' = LogRead(a)
        /\ \A i \in IfBlks, a \in Addr : a = cp.ifile[i] =>
               /\ LogRead(a)' = disk[a.seg][a.bk]
               /\ disk'[a.seg][a.bk] = disk[a.seg][a.bk]
    BY <1>1, <1>2, LogWriteIfile
  <1>5. IfileIntactBeforeWrap /\ CheckpointedIfileIntactBeforeWrap
    BY <1>2, <1>4 DEF IfileInv, Mounted
  <1>6. ASSUME NEW i \in IfBlks, cp'.ifile[i] # Null
        PROVE  LogRead(cp.ifile[i])' = disk'[cp'.ifile[i].seg][cp'.ifile[i].bk]
    <2>1. PICK a \in Addr : a = cp.ifile[i]
      BY <1>4, <1>6 DEF TypeOK, PtrType
    <2>. QED  BY <1>4, <2>1 DEF LogRead
  <1>7. CheckpointedIfileIntactBeforeWrap'
    BY <1>2, <1>4, <1>5, CheckpointKept
  <1>8. Passed(ifile', tail')
    BY <1>2, <1>4 DEF Passed, TypeOK
  <1>9. IfileIntactBeforeWrap'
    <2>. SUFFICES ASSUME ~worn' PROVE IfileIntactBeforeWrap'
      BY DEF IfileIntactBeforeWrap, Promised
    <2>1. IfileBlock(n)' = table
      <3>1. PICK a \in Addr : a = tail
        BY DEF TypeOK
      <3>2. LogRead(a)' = [file_no |-> IFILE, data |-> table]
        BY <1>1, <1>2, <3>1, LogWriteReads
      <3>3. ifile'[n] = a /\ a # Null
        BY <1>1, <1>2, <3>1, NullAssumption DEF TypeOK
      <3>4. LogRead(ifile[n])' = [file_no |-> IFILE, data |-> table]
        BY <3>2, <3>3 DEF LogRead
      <3>5. IfileBlock(n)' = AsInodes(n, (LogRead(ifile[n])').data)
        BY <3>3 DEF IfileBlock, AsInodes
      <3>. QED  BY <1>3, <3>4, <3>5 DEF AsInodes
    <2>2. ASSUME NEW i \in IfBlks, i # n PROVE IfileBlock(i)' = IfileBlock(i)
      <3>1. ifile[i] \in Addr \cup {Null} /\ ifile'[i] = ifile[i]
        BY <1>2, <2>2 DEF TypeOK, PtrType
      <3>. QED  BY <1>4, <3>1, SameBlockSameInodes DEF LogRead
    <2>3. ASSUME NEW g \in Files
          PROVE  inode'[g] = cur'[g].addr /\ (IfileBlock(IfBlkOf[g])')[g] = inode'[g]
      <3>1. inode'[g] = cur'[g].addr /\ inode'[g] = inode[g]
        BY <1>2, <1>4, <1>5 DEF IfileIntactBeforeWrap, Promised, Mounted
      <3>2. CASE g = f
        <4>1. table[f] = inode[f]
          BY <1>1, <1>3, IfileBlockType DEF Tables
        <4>. QED  BY <2>1, <3>1, <3>2, <4>1
      <3>3. CASE g # f
        <4>1. IfileBlock(IfBlkOf[g])[g] = inode[g]
          BY <1>2, <1>4, <1>5, <3>3 DEF IfileIntactBeforeWrap, Promised, Mounted
        <4>2. CASE IfBlkOf[g] = n
          <5>1. table[g] = IfileBlock(n)[g]
            BY <1>3, <3>3
          <5>. QED  BY <2>1, <3>1, <4>1, <4>2, <5>1
        <4>3. CASE IfBlkOf[g] # n
          <5>1. IfileBlock(IfBlkOf[g])' = IfileBlock(IfBlkOf[g])
            BY <2>2, <4>3, NamesAssumption
          <5>. QED  BY <3>1, <4>1, <5>1
        <4>. QED  BY <4>2, <4>3
      <3>. QED  BY <3>2, <3>3
    <2>. QED  BY <2>3 DEF IfileIntactBeforeWrap
  <1>. QED  BY <1>2, <1>4, <1>6, <1>7, <1>8, <1>9 DEF IfileInv, LogRead

\* The first half of Log_Destroy: what is in memory gets to the flash, or worn'
\* says it did not; what the checkpoint refers to stays either way.
LEMMA UnmountIfile ==
    ASSUME TypeOK, MemIsTail, IfileInv, Unmount
    PROVE  IfileInv'
  <1>. SUFFICES ASSUME ~wrapped', ~lost' PROVE IfileInv'
    BY DEF IfileInv
  <1>1. /\ disk' = Persisted(tail.seg, mem.bks)
        /\ UNCHANGED <<cp, tail, mem, ifile, inode, pend, cur, saved, overrun, torn>>
        /\ ~wrapped /\ ~lost /\ pc = "idle" /\ pc' = "ckpt"
        /\ ~worn' => ~worn
    BY DEF Unmount, volatile
  <1>2. /\ ~overrun
        /\ ~torn => Passed(cp.ifile, cp.tail)
        /\ Passed(ifile, tail) /\ Passed(cp.ifile, tail)
        /\ \A i \in IfBlks : cp.ifile[i] # Null =>
               LogRead(cp.ifile[i]) = disk[cp.ifile[i].seg][cp.ifile[i].bk]
        /\ IfileIntactBeforeWrap /\ CheckpointedIfileIntactBeforeWrap
        /\ mem.seg_no = tail.seg /\ tail.seg \in LogSegs
    BY <1>1 DEF IfileInv, MemIsTail, Mounted, TypeOK, Addr
  <1>3. ASSUME NEW a \in Addr
        PROVE  /\ LogRead(a)' = LogRead(a)
               /\ LogRead(a) = disk[a.seg][a.bk] => disk'[a.seg][a.bk] = disk[a.seg][a.bk]
    BY <1>1, <1>2 DEF LogRead, TypeOK, Addr, Persisted
  <1>4. ASSUME NEW i \in IfBlks, NEW a \in Addr, a = cp.ifile[i]
        PROVE  /\ LogRead(a)' = disk'[a.seg][a.bk]
               /\ disk'[a.seg][a.bk] = disk[a.seg][a.bk]
    BY <1>2, <1>3, <1>4, NullAssumption
  <1>5. CheckpointedIfileIntactBeforeWrap'
    BY <1>1, <1>2, <1>4, CheckpointKept
  <1>6. ASSUME NEW i \in IfBlks PROVE IfileBlock(i)' = IfileBlock(i)
    <2>1. ifile[i] \in Addr \cup {Null}
      BY DEF TypeOK, PtrType
    <2>. QED  BY <1>1, <1>3, <2>1, SameBlockSameInodes DEF LogRead
  <1>7. IfileIntactBeforeWrap'
    BY <1>1, <1>2, <1>6, NamesAssumption DEF IfileIntactBeforeWrap, Promised, Mounted
  <1>8. ASSUME NEW i \in IfBlks, cp'.ifile[i] # Null
        PROVE  LogRead(cp.ifile[i])' = disk'[cp'.ifile[i].seg][cp'.ifile[i].bk]
    <2>1. PICK a \in Addr : a = cp.ifile[i]
      BY <1>1, <1>8 DEF TypeOK, PtrType
    <2>. QED  BY <1>1, <1>4, <2>1 DEF LogRead
  <1>. QED  BY <1>1, <1>2, <1>5, <1>7, <1>8 DEF IfileInv, LogRead

\* The write of the checkpoint, as far as it comes: once it has come to the
\* ifile, the blocks of the running process are the checkpoint's, with the
\* inodes of the last writes in them; once it is whole, the tail is past them.
LEMMA PutCheckpointIfile ==
    ASSUME TypeOK, MemIsTail, DataInv, IfileInv, pc = "ckpt", ~wrapped, ~lost',
           NEW k \in 0 .. CpEnd, PutCheckpoint(k), UNCHANGED disk
    PROVE  /\ ~overrun
           /\ ~torn' => Passed(cp'.ifile, cp'.tail)
           /\ \A f \in Files : FlashInode(f)' = saved'[f].addr
  <1>1. k = 0 \/ k = 1 \/ k = 2
    BY DEF CpEnd
  <1>2. ~lost /\ ~overrun
    BY DEF PutCheckpoint, IfileInv
  <1>3. CASE k = 0
    <2>1. cp'.tail = cp.tail /\ cp'.ifile = cp.ifile /\ saved' = saved /\ torn' = torn
      BY <1>3 DEF PutCheckpoint, CpEnd, TypeOK
    <2>2. /\ ~torn => Passed(cp.ifile, cp.tail)
          /\ CheckpointedIfileIntactBeforeWrap
      BY <1>2 DEF IfileInv
    <2>. QED  BY <1>2, <2>1, <2>2
              DEF CheckpointedIfileIntactBeforeWrap, FlashInode, Passed
  <1>4. CASE k = 1 \/ k = 2
    <2>1. k >= 1 /\ (k = 1 \/ k = CpEnd)
      BY <1>4 DEF CpEnd
    <2>2. /\ cp'.ifile = ifile /\ saved' = cur
          /\ k = 1 => torn'
          /\ k = CpEnd => cp'.tail = tail
      BY <2>1 DEF PutCheckpoint
    <2>3. ~worn
      BY <2>1 DEF PutCheckpoint
    <2>4. Passed(ifile, tail) /\ IfileIntactBeforeWrap
      BY <1>2 DEF IfileInv, Mounted
    <2>5. disk[tail.seg] = mem.bks /\ mem.seg_no = tail.seg
      BY <1>2, <2>3 DEF DataInv, MemIsTail, Mounted, Healthy
    <2>6. ASSUME NEW f \in Files PROVE FlashInode(f)' = saved'[f].addr
      <3>1. IfileBlock(IfBlkOf[f])[f] = cur[f].addr
        BY <1>2, <2>3, <2>4 DEF IfileIntactBeforeWrap, Promised, Mounted
      <3>2. f \in FilesOf(IfBlkOf[f])
        BY DEF FilesOf
      <3>3. FlashInode(f)' = IfileBlock(IfBlkOf[f])[f]
        BY <2>2, <2>5, <3>2 DEF FlashInode, IfileBlock, LogRead
      <3>. QED  BY <2>2, <3>1, <3>3
    <2>7. ~torn' => Passed(cp'.ifile, cp'.tail)
      BY <2>1, <2>2, <2>4
    <2>. QED  BY <1>2, <2>6, <2>7
  <1>. QED  BY <1>1, <1>3, <1>4

\* The second half of Log_Destroy.
LEMMA StoreCheckpointIfile ==
    ASSUME TypeOK, MemIsTail, DataInv, IfileInv, StoreCheckpoint
    PROVE  IfileInv'
  <1>. SUFFICES ASSUME ~wrapped', ~lost' PROVE IfileInv'
    BY DEF IfileInv
  <1>1. /\ UNCHANGED <<disk, overrun>> /\ ~wrapped /\ pc = "ckpt" /\ pc' = "down"
    BY DEF StoreCheckpoint
  <1>2. CASE PutCheckpoint(CpEnd)
    <2>1. /\ ~overrun
          /\ ~torn' => Passed(cp'.ifile, cp'.tail)
          /\ \A f \in Files : FlashInode(f)' = saved'[f].addr
      BY <1>1, <1>2, PutCheckpointIfile DEF CpEnd
    <2>. QED  BY <1>1, <2>1
              DEF IfileInv, CheckpointedIfileIntactBeforeWrap, Mounted, Passed
  <1>3. CASE UNCHANGED <<cp, saved, torn, lost>>
    BY <1>1, <1>3 DEF IfileInv, CheckpointedIfileIntactBeforeWrap, Mounted, Passed,
                      FlashInode
  <1>. QED  BY <1>2, <1>3 DEF StoreCheckpoint

\* A kill within it.
LEMMA CrashTornCheckpointIfile ==
    ASSUME TypeOK, MemIsTail, DataInv, IfileInv,
           NEW k \in 0 .. CpEnd, CrashTornCheckpoint(k)
    PROVE  IfileInv'
  <1>. SUFFICES ASSUME ~wrapped', ~lost' PROVE IfileInv'
    BY DEF IfileInv
  <1>1. /\ UNCHANGED <<disk, overrun>> /\ ~wrapped /\ pc = "ckpt" /\ pc' = "down"
        /\ PutCheckpoint(k)
    BY DEF CrashTornCheckpoint
  <1>2. /\ ~overrun
        /\ ~torn' => Passed(cp'.ifile, cp'.tail)
        /\ \A f \in Files : FlashInode(f)' = saved'[f].addr
    BY <1>1, PutCheckpointIfile
  <1>. QED  BY <1>1, <1>2
            DEF IfileInv, CheckpointedIfileIntactBeforeWrap, Mounted, Passed

\* A mount goes on from the checkpoint.
LEMMA MountIfile ==
    ASSUME TypeOK, IfileInv, Mount
    PROVE  IfileInv'
  <1>. SUFFICES ASSUME ~wrapped', ~lost' PROVE IfileInv'
    BY DEF IfileInv
  <1>1. /\ UNCHANGED <<disk, cp, saved, overrun, torn>>
        /\ ~wrapped /\ ~lost /\ ~torn
        /\ tail' = cp.tail /\ mem' = Loaded(disk, cp.tail.seg)
        /\ ifile' = cp.ifile /\ cur' = saved /\ pc' = "idle"
        /\ inode' = [f \in Files |-> FlashInode(f)]
    BY DEF Mount, TailOf, flash
  <1>2. ~overrun /\ Passed(cp.ifile, cp.tail) /\ CheckpointedIfileIntactBeforeWrap
    BY <1>1 DEF IfileInv
  <1>3. ASSUME NEW a PROVE LogRead(a)' = disk[a.seg][a.bk]
    BY <1>1 DEF LogRead, Loaded
  <1>4. CheckpointedIfileIntactBeforeWrap'
    BY <1>1, <1>2 DEF CheckpointedIfileIntactBeforeWrap, FlashInode
  <1>5. ASSUME NEW f \in Files
        PROVE  inode'[f] = cur'[f].addr /\ (IfileBlock(IfBlkOf[f])')[f] = inode'[f]
    <2>1. f \in FilesOf(IfBlkOf[f])
      BY DEF FilesOf
    <2>2. inode'[f] = FlashInode(f) /\ FlashInode(f) = saved[f].addr
      BY <1>1, <1>2 DEF CheckpointedIfileIntactBeforeWrap
    <2>3. (IfileBlock(IfBlkOf[f])')[f] = FlashInode(f)
      BY <1>1, <1>3, <2>1 DEF IfileBlock, FlashInode, LogRead
    <2>. QED  BY <1>1, <2>2, <2>3
  <1>6. IfileIntactBeforeWrap'
    BY <1>5 DEF IfileIntactBeforeWrap
  <1>. QED  BY <1>1, <1>2, <1>3, <1>4, <1>6 DEF IfileInv, LogRead

\* A torn write of the tail segment: a checkpointed ifile block in it is the
\* same in memory and on flash, and so in any mixture of the two images.
LEMMA CrashTornIfile ==
    ASSUME TypeOK, MemIsTail, IfileInv, NEW k, CrashTorn(k)
    PROVE  IfileInv'
  <1>. SUFFICES ASSUME ~wrapped', ~lost' PROVE IfileInv'
    BY DEF IfileInv
  <1>1. PICK img \in SegImage :
            /\ TornPush(img, k)
            /\ \A b \in Blks : b # tail.bk => img[b] = mem.bks[b]
    BY CrashTornImage
  <1>2. /\ disk' = [disk EXCEPT ![tail.seg] = Torn(tail.seg, img, k)]
        /\ UNCHANGED <<cp, saved, overrun, torn>> /\ ~wrapped /\ ~lost
        /\ pc \in {"idle", "flush"} /\ pc' = "down"
    BY <1>1, CrashTornImage DEF TornPush, history
  <1>3. /\ ~overrun /\ Passed(cp.ifile, tail)
        /\ ~torn => Passed(cp.ifile, cp.tail)
        /\ \A i \in IfBlks : cp.ifile[i] # Null =>
               LogRead(cp.ifile[i]) = disk[cp.ifile[i].seg][cp.ifile[i].bk]
        /\ CheckpointedIfileIntactBeforeWrap /\ mem.seg_no = tail.seg
    BY <1>2 DEF IfileInv, MemIsTail, Mounted
  <1>4. ASSUME NEW i \in IfBlks, NEW a \in Addr, a = cp.ifile[i]
        PROVE  disk'[a.seg][a.bk] = disk[a.seg][a.bk]
    <2>1. a # tail /\ LogRead(a) = disk[a.seg][a.bk]
      BY <1>3, <1>4, PassedBlock, NullAssumption DEF TypeOK
    <2>2. CASE a.seg = tail.seg
      <3>1. a.bk \in Blks /\ a.bk # tail.bk
        BY <2>1, <2>2 DEF Addr, TypeOK
      <3>2. img[a.bk] = disk[a.seg][a.bk]
        BY <1>1, <1>3, <2>1, <2>2, <3>1 DEF LogRead
      <3>3. Torn(tail.seg, img, k)[a.bk] = disk[a.seg][a.bk]
        <4>1. disk[a.seg][a.bk] \in Block
          BY <3>1 DEF TypeOK, Addr, SegImage
        <4>. QED  BY <2>2, <3>1, <3>2, <4>1 DEF Torn, Block
      <3>. QED  BY <1>2, <2>2, <3>3 DEF TypeOK, Addr
    <2>3. CASE a.seg # tail.seg
      BY <1>2, <2>3 DEF TypeOK, Addr
    <2>. QED  BY <2>2, <2>3
  <1>5. CheckpointedIfileIntactBeforeWrap'
    BY <1>2, <1>3, <1>4, CheckpointKept
  <1>. QED  BY <1>2, <1>3, <1>5 DEF IfileInv, Mounted

\* IfileInv, one step per action.
LEMMA IfileInvStep ==
    ASSUME TypeOK, MemIsTail, DataInv, IfileInv, [Next]_vars
    PROVE  IfileInv'
  <1>1. CASE Mount
    BY <1>1, MountIfile
  <1>2. ASSUME NEW f \in Files, NEW v \in Vals, WriteData(f, v) PROVE IfileInv'
    BY <1>2, WriteDataIfile
  <1>3. CASE FlushIno
    BY <1>3, FlushInodeIfile DEF FlushIno, TypeOK
  <1>4. ASSUME NEW f \in Files, ReadFile(f) PROVE IfileInv'
    BY <1>4, FlushInodeIfile DEF ReadFile
  <1>5. CASE Unmount
    BY <1>5, UnmountIfile
  <1>6. CASE StoreCheckpoint
    BY <1>6, StoreCheckpointIfile
  <1>7. CleanSegFault \/ Crash \/ (\E s \in Segs : CrashErased(s)) =>
            /\ pc' \in {"down", "segv"}
            /\ UNCHANGED <<disk, cp, history>>
    BY DEF CleanSegFault, Crash, CrashErased, flash
  <1>8. ASSUME pc' \in {"down", "segv"}, UNCHANGED <<disk, cp, history>>
        PROVE  IfileInv'
    BY <1>8 DEF IfileInv, Mounted, history, CheckpointedIfileIntactBeforeWrap,
                FlashInode, Passed
  <1>9. ASSUME NEW k \in 0 .. ImageEnd, CrashTorn(k) PROVE IfileInv'
    BY <1>9, CrashTornIfile
  <1>10. CASE UNCHANGED vars
    BY <1>10 DEF vars, flash, volatile, history, IfileInv, Mounted, Passed, LogRead,
                 IfileIntactBeforeWrap, CheckpointedIfileIntactBeforeWrap, Promised,
                 IfileBlock, FlashInode
  <1>11. ASSUME NEW k \in 0 .. CpEnd, CrashTornCheckpoint(k) PROVE IfileInv'
    BY <1>11, CrashTornCheckpointIfile
  <1>. QED  BY <1>1, <1>2, <1>3, <1>4, <1>5, <1>6, <1>7, <1>8, <1>9, <1>10, <1>11
            DEF Next
-----------------------------------------------------------------------------
(* Until the log wraps the tail has passed every ifile block that the      *)
(* running process or the checkpoint refers to, and these hold the inodes. *)
THEOREM IfileSafe == Spec => []IfileInv
  <1>1. Init => IfileInv
    <2>. SUFFICES ASSUME Init PROVE IfileInv
      OBVIOUS
    <2>1. cp.ifile = [i \in IfBlks |-> Null] /\ \A f \in Files : saved[f].addr = Null
      BY DEF Init, NoIfile, NoData
    <2>2. Passed(cp.ifile, cp.tail)
      BY <2>1 DEF Passed
    <2>3. \A f \in Files : FlashInode(f) = saved[f].addr
      BY <2>1, NamesAssumption DEF FlashInode
    <2>. QED  BY <2>2, <2>3
              DEF Init, IfileInv, Mounted, CheckpointedIfileIntactBeforeWrap
  <1>2. Init => MemIsTail
    BY DEF Init, MemIsTail, Mounted
  <1>3. TypeOK /\ MemIsTail /\ [Next]_vars => MemIsTail'
    BY MemIsTailStep
  <1>4. TypeOK /\ MemIsTail /\ DataInv /\ IfileInv /\ [Next]_vars => IfileInv'
    BY IfileInvStep
  <1>. QED  BY <1>1, <1>2, <1>3, <1>4, TypeCorrect, DataSafe, PTL DEF Spec

(* Until the log wraps every inode in memory is that of the last write,    *)
(* and so is the one in the log, but for the one about to be flushed.      *)
THEOREM InodesSafe == Spec => []IfileIntactBeforeWrap
  <1>1. IfileInv => IfileIntactBeforeWrap
    BY DEF IfileInv, IfileIntactBeforeWrap, Promised
  <1>. QED  BY <1>1, IfileSafe, PTL

(* Until the log wraps or a torn checkpoint is mounted, the inodes on      *)
(* flash are those of one and the same unmount, whatever instant the       *)
(* process is killed at: when within the write of a checkpoint, those of   *)
(* the unmount before or of the one that is cut short.                     *)
THEOREM CheckpointedInodesSafe == Spec => []CheckpointedIfileIntactBeforeWrap
  <1>1. IfileInv => CheckpointedIfileIntactBeforeWrap
    BY DEF IfileInv, CheckpointedIfileIntactBeforeWrap
  <1>. QED  BY <1>1, IfileSafe, PTL
=============================================================================
