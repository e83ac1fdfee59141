# A log-structured file system on flash, in TLA+

The system is a user-level file system: one process, started as `LFS file
mountpoint`, that answers FUSE requests by reading and writing a virtual flash
kept in a file.  It passes `-s` to FUSE, so one request runs to its end before
the next begins: there is no concurrency inside the process.  What makes it
hard is elsewhere: the state is split between memory and flash, the flash must
be erased in large units before it is written and wears out, blocks are moved
through a log that wraps around, and the process may be killed anywhere.

## 1. Inventory

| Part | Code | State | Operations |
|---|---|---|---|
| Flash | `flash.c` | sector states EMPTY/FULL, erase counts, sector bytes | `Flash_Write`, `Flash_Erase`; `Flash_Read`, `Flash_GetWear` |
| Log | `log.c` | `tail_log_addr`, `seg_in_memory`, the segment summaries, the checkpoint, the superblock | `Log_Read`, `Log_Write`, `Log_Destroy`, `store_checkpoint` |
| Cleaner | `clean.c` | `available_seg_num` | `clean_seg`, called first thing by every `File_Write` |
| File | `File.c` | inode: size, four direct pointers, one indirect pointer | `File_Read`, `File_Write`, `File_Truncate`, `File_Free` |
| Directory | `dir.c` | `ifile[]` (all inodes, in memory), `inode_ifile`, directory files | `Dir_*`, `Flush_Ino`, `Get_New_Ino` |
| Mount | `LFS.c` | the globals above | `main`, `LFS_Init`, `LFS_Destroy`, the FUSE handlers |
| Format | `mklfs.c`, `Log_Create` | the initial flash | `main` |
| Check | `lfsck.c` | none | reads `checkpoint` before any function has set it |
| Cache | `log.c` | `disk_cache` | `create_cache`, `read_cache`, `update_cache` |

How they interact: a handler of `LFS.c` calls a `Dir_` function; that resolves
the path by reading directories, changes inodes in the array `ifile[]`, and
reads and writes files with `File_Read` and `File_Write`.  `File_Write` puts
each block into the log with `Log_Write` (after `clean_seg`) and stores the new
address in the inode it was given.  An inode gets to the flash only by
`Flush_Ino`, which is itself a `File_Write` to the file that holds the inodes,
the ifile; the ifile's own inode gets there only by `store_checkpoint`, at
unmount.  The log layer collects blocks in the tail segment in memory and
erases and writes that segment on flash when nothing after the tail is free in
it.  All calls are synchronous and share the globals listed above.

What is hard, and which properties it calls for:

* *Flash and log.*  Erase and write are separate steps, each many sectors long,
  both can be refused, and no caller looks at the result.  Blocks are found free
  by the summary on flash while a newer one is in memory.  The log wraps.  What
  must hold: a block that an inode or the checkpoint refers to is never
  overwritten, wherever it is read from; what a crash leaves the checkpoint
  leading to is whole, and of one unmount.
* *File.*  Block arithmetic at block boundaries, at the end of the file, and at
  the step from direct to indirect pointers.  What must hold: reads return what
  was written.
* *Directory.*  An operation is several writes (an entry, two inodes), and some
  of them only change memory.  What must hold: names, inodes and link counts
  agree, in memory and after a remount.
* *Inodes.*  They are packed into the blocks of one file, across block
  boundaries, and each is flushed by itself.  What must hold: a flush changes
  its own inode, whole, and no other; a mount brings each back as itself.
* *Format.*  Two programs work out the layout of the flash from the options,
  each by itself.  What must hold: LFS finds what mklfs has written.

`PROJECT.json` lists the hazards one by one, each at its line.

## 2. Modules

| Module | What it is | Code |
|---|---|---|
| `Flash` | erase and write of a segment, one write to the underlying file per step | flash.c, the calls in log.c |
| `SegmentFlash` | abstract: what the writer of a segment gets from the flash | |
| `Log` | the log, the guard of the cleaner, mount, unmount and crashes, one `Log_Write` at a time | log.c, clean.c, LFS.c |
| `Store` | abstract: what the log promises, a value per file and a saved copy of all of them | |
| `LogStore` | `Log` implements `Store`: the refinement mapping | |
| `FileOps` | the block arithmetic of reads, writes and truncations, as operators on an inode | File.c |
| `FileIO` | requests to one file, byte by byte | File.c, dir.c |
| `ByteFile` | abstract: a file is a run of bytes | |
| `Dir` | names, inodes and link counts; what of them reaches the log and the checkpoint | dir.c, LFS.c |
| `Names` | abstract: entries that appear, vanish and move; saved by an unmount | |
| `Ifile` | the array of inodes in memory, and the file that holds them, through the block arithmetic of `FileOps` | dir.c, File.c |
| `InodeTable` | abstract: a table of inodes in memory, in the log and saved | |
| `Format` | which segment mklfs makes what, and what a mount makes of it | mklfs.c, log.c, LFS.c |
| `FlashProofs`, `FormatProofs`, `DirProofs` | theorems about `Flash`, `Format` and `Dir` | |
| `LogProofs`, `LogStoreProofs` | theorems about the data blocks and the ifile blocks of `Log`, and that `Log` implements `Store` | |
| `FileOpsProofs`, `FileIOProofs`, `IfileProofs` | lemmas about the block arithmetic, and from them the theorems about `FileIO` and `Ifile` | |
| `MCFlash`, `MCLog`, `MCLogStore`, `MCFileIO`, `MCIfile`, `MCDir`, `MCFormat` | instances for TLC | |

The layers are separate modules because each is only as large as TLC can take,
and each takes from the one below what that one was shown to do:

    Dir ----- an inode is there as it was flushed ----> Ifile (InodeTable)
    Ifile ---.
    FileIO --+-- operators on one file ---------------> FileOps
             `-- a block is read as it was written ---> Log   (LiveDataIntact, Store)
    Log ----- outcomes of a push and of a kill -------> Flash (SegmentFlash)
    all ----- the flash they begin with --------------- Format (LayoutForLog)

The refinements `Flash` to `SegmentFlash`, `Log` to `Store` and `Ifile` to
`InodeTable` are what justifies these steps; they are theorems, and so are those
of `FileIO` to `ByteFile` and of `Dir` to `Names`.  What falls between two
modules is said in section 5.

### Flash

`wear`, `state` and `data` are the two tables and the sectors; `call`, `at`,
`sec` are the position in the calls of `Flash_Erase` and `Flash_Write` that
`pushToDisk`, `Log_Destroy` and `store_checkpoint` make for a segment.

| Action | Code |
|---|---|
| `StartRewrite` | the call of `Flash_Erase`; the caller goes on whatever it returns |
| `EraseRefused`, `WearBlock`, `ClearSector` | the loops of `Flash_Erase` |
| `WriteRefused`, `WriteStarts` | the check of `Flash_Write` over its whole range |
| `WriteSector`, `MarkSector` | the data, then the states of its sectors |
| `Kill` | the process ends before any of these |

`SegmentFlash` gives the outcomes without the steps, and these are the ones
that `Log` uses: `EraseOk` and `WriteOk` are the same in both; a completed
push is `Rewrite`, `CrashErased` is `KilledErasing`, `CrashTorn` is
`KilledWriting` of the tail segment and `CrashTornCheckpoint` is
`KilledWriting` of the checkpoint segment.

### Log

`disk`, `wear`, `written` and `cp` are on flash: the data blocks of every log
segment with their summary entries, the erase count and the sector state of
each segment, the checkpoint.  `tail`, `mem`, `avail`, `ifile`, `inode` and
`pend` are the globals `tail_log_addr`, `seg_in_memory`, `available_seg_num`,
`inode_ifile`, the array `ifile[]`, and the inode between the two halves of
`Write_file`; they vanish in a crash.  `cur`, `saved`, `overrun`, `wrapped`,
`worn`, `torn`, `lost` are history: they keep a record for the properties, and
no guard and no other variable depends on them.

| Action | Code |
|---|---|
| `Mount` | `main` of LFS.c, then `Dir_Layer_Init` |
| `WriteData` | `File_Write` of the file's block: `Log_Write`, the new address in the inode in memory |
| `FlushIno` | `Flush_Ino`: the ifile block is read, the inode put into it, the block written to the log under inode number -1 |
| `ReadFile` | `Dir_Read_File`, for what it does to the log: it flushes the inode it has read from |
| `Unmount`, `StoreCheckpoint` | the two halves of `Log_Destroy` |
| `CleanSegFault` | `clean_seg` below its threshold: it follows a null pointer |
| `Crash` | the process is killed between operations |
| `CrashErased` | it is killed between an erase and the write that follows |
| `CrashTorn` | it is killed within the write of the tail segment: a prefix of the image (the summary, then the blocks) over the old segment |
| `CrashTornCheckpoint` | it is killed within the write of the checkpoint: neither, the first or both of the two parts a mount goes by |

`LogWrite` is `writeToLog; pushToDisk; setLogTail`.  `SetLogTail` has one
disjunct per way the C function finds the next tail, the last of them the one
in which it finds none.  The wear of the block after the last segment is what
`Flash_GetWear` makes of it (`WearSeen`).

Abstractions: an erase block is a segment (`mklfs -b 2 -l 8` makes such a
flash); a file has one data block and its inode is that block's address; an
inode lies within one block of the ifile. Left out because nothing reads them:
`file_bk_no`, times, `num_live_bk`, the usage table of the checkpoint.

A checkpoint has two parts that a mount goes by.  `store_checkpoint` lays them
out in this order: the inode of the ifile (log.c:273, bytes 32 to 136 of the
buffer, within its first sector) and, behind the usage table of all segments,
`last_log_addr` (log.c:305, at 32 times the number of segments plus 112, in a
later sector from 13 segments on, and mklfs wants 16).  A kill in the
`Flash_Write` of log.c:337 between these two sectors leaves the new ifile with
the old tail.  This flash still leads to whole data and whole inodes, those of
the unmount that was cut short: the properties of the checkpoint hold there
(`torn`).  What fails is the tail, which stands before ifile blocks in use: a
mount resumes the log there and may write over them.  From such a mount on
(`lost`) nothing is promised, and the code keeps nothing; `flash_torn` shows
the same kill sector by sector.  The other way into `lost` is an unmount of a
log that was overrun or had a push fail: its checkpoint leads to blocks that
are not there.

### Store and LogStore

`Store` has `Start`, `Put`, `Save`, `Fail` and `GiveUp`.  The mapping reads the
running value of a file through the inode in memory and `Log_Read`, and the
saved value through the checkpoint on flash.  A kill within the write of the
checkpoint is `Save` or `Fail`, by whether the inode of the ifile was there.
`GiveUp` is the wrap of the log, a segment that does not reach the flash, or a
mount from a torn checkpoint, after each of which the code keeps nothing.

### FileOps, FileIO and ByteFile

`FileOps` has `FileRead`, `FileWrite`, `FileTruncate` and `TooBig` as operators
on an inode; `FileIO` is one file whose requests they serve, and `Ifile` uses
them for the file that holds the inodes.

`file` is the inode: its size and, for each direct pointer, the block it leads
to or `Free`.  The indirect pointer is never assigned in the code, so there is
nothing to keep of it; the blocks it should hold are read as zeros and lost
when written.  `req` is the last request, with its offset, length and data;
`got` and `ret` are the bytes and the value it returned.

| Action | Code |
|---|---|
| `Write` | `Dir_Write_File`, `File_Write` with its three kinds of block (first, middle, last) |
| `Read` | `Dir_Read_File`, `File_Read` |
| `Shrink` | `Dir_Truncate_File` to at most the size, `File_Truncate` (nothing, if it is the size) |
| `Grow` | `Dir_Truncate_File` past the size: a write of one zero byte at the new end |

`ByteFile` is a sequence of bytes that answers the same requests: the mapping
is the identity on `req`, so each step of `FileIO` must be that read, that
write or that truncation, and not just one of the kind.  A write or a growth is
`Refused` if it would end past the largest file, and then only.  It keeps its
promise up to `Kept`, the end of the direct blocks, and gives it up at a write
that begins past the end of the file, and then only, until the file is next
emptied.  Requests of no bytes are left out: FUSE does not send them.

`File_Truncate` divides as `float` (File.c:436); the floor and the ceiling it
takes are exact for offsets below 16 MB, which a file of four direct blocks and
one indirect one passes only with blocks of more than 8 KB.  The model divides
exactly.

### Ifile and InodeTable

`inode` and `length` are the array `ifile[]` and `ifile_length`, `file` is
`inode_ifile` with the blocks it leads to, `cp` what the checkpoint leads to.
The actions are those of `Dir` for what they do to inodes: which they change,
and which they flush.  `Put` is `Flush_Ino`, a `FileWrite` of `ISize` bytes at
`OffsetOf(i)`, so an inode may begin in one block and end in the next, or lie
past the direct blocks, or be refused by `TooBig`.  `gapped` is history: an
inode was flushed past the end of the ifile, because one before it had been
taken and not flushed.  `InodeTable` keeps its promise until then, for the
inodes that lie within the direct blocks.

### Format

`opt` is the command line of mklfs, `flash` what each segment has become,
`next` the loop variable of `store_checkpoint` and `Log_Create`, `tail` the
`tail_log_addr` that a mount finds.

| Action | Code |
|---|---|
| `Check` | the tests of mklfs on its options; those that fail, or divide by zero, are `Stops` |
| `WriteSuper`, `StorePart`, `FormatSegment`, `Finish` | `Log_Create`: the superblock, `store_checkpoint`, the empty segments |
| `Kill` | mklfs ends between two writes |
| `Mount` | `main` of LFS.c |

Sizes are bytes of a 64-bit build.  (In a 32-bit one the structures are
smaller and a checkpoint comes closer to the end of its buffer; that build is
outside the model.)

### Dir and Names

The same inodes exist three times: `inode` is the array `ifile[]`, `log` the
ifile as `Flush_Ino` has left it in the log, `saved` the one a mount would
read.  An operation changes the first, flushes some of the inodes it changed to
the second, and only an unmount makes the second the third.

| Action | Code |
|---|---|
| `Mount` | `LFS_Init`, `Dir_Layer_Init`, the root made by the first mount |
| `Create`, `CreateTooLong` | `LFS_Create`, `LFS_Mkdir`, `LFS_SymLink`: `Get_New_Ino`, `Add_File_To_Directory`, `Flush_Ino` |
| `Link`, `LinkTooLong` | `LFS_Link`, `Dir_HardLink` |
| `Delete` | `LFS_Unlink`, `LFS_Rmdir`, `Dir_Delete_File` |
| `Rename` | `LFS_Rename`: `LFS_Link` and then `LFS_Unlink`, the second of which a directory that is not empty refuses |
| `Touch` | `LFS_Read`, `LFS_Write`, for the inode they flush |
| `Unmount` | `LFS_Destroy` |
| `Crash` | the process is killed, or dies of a write of zero bytes when the last entry of a subdirectory goes |

The guards that no line of dir.c has (a path leads to the directory, a name to
be made is not there, a rename does not move a directory into itself) are the
kernel's, which resolves a path by `LFS_GetAttr` before it asks for anything.
`Names` is a set of entries of which no two have the same directory and name.
Its promise ends at a rename onto a name in use, which is one of the findings.

## 3. Runs

| Run | Bounds | Distinct states | Result |
|---|---|---|---|
| `flash_core` | 2 rewritable segments of 2 erase blocks of 2 sectors, wear limit 2, 1 image | 40 thousand | holds |
| `flash_torn` | 1 segment, 2 images | | violated |
| `log_core` | 3 log segments of 2 blocks, 2 files in one ifile block, wear limit 2 | 494 thousand | holds |
| `log_store` | 2 log segments, 2 files in 2 ifile blocks, 2 values, wear limit 3 | 143 thousand | holds |
| `log_tail_ifile` | 3 log segments, 1 file, wear limit 2 | | violated |
| `file_core` | blocks of 2 bytes, 3 direct blocks and 1 past them, 2 byte values, requests of 4 bytes | 589 (185 thousand steps) | holds |
| `ifile_core` | blocks of 3 bytes, inodes of 2, 2 direct blocks and 1 past them, 5 inodes | 15 thousand | holds |
| `ifile_gap` | inodes of 3 bytes in blocks of 5 | | violated |
| `dir_core` | 3 inodes, 2 names, 2 links, 3 entries | 60 thousand | holds |
| `dir_orphan` | 2 inodes | | violated |
| `format_core` | 252 command lines, on both sides of every limit | 10 thousand | holds |
| `format_tail` | the same | | violated |

### What the passing runs show

* `flash_core`: `OnlyErasedWritten`, a sector is written only when erased;
  `FirstBlockWearsMost`, so that an erase is refused before it has changed
  anything or not at all; `ImplementsSegmentFlash`.
  `RewriteLands`: a rewrite that nobody kills ends, and if the segment can
  still be erased or is erased already, it lands.
* `log_core`: `LiveDataIntact`, the block of a file is not lost while the log
  is in order (`Healthy`: never overrun, no push failed, no torn checkpoint
  mounted); `CheckpointedDataIntact`, the block the checkpoint leads to is not
  lost, also not while the log above it overruns or its pushes fail, and not by
  a kill within the write of the next checkpoint; `IfileIntactBeforeWrap` and
  `CheckpointedIfileIntactBeforeWrap`, nor is an inode until the log wraps;
  `TypeOK`, `TailSegmentLoaded`, `DataInv` and `IfileInv`, the inductive
  invariants of section 4.  `ToEndOfSession` lets a log in which a push has
  failed run on until it stores a checkpoint or ends, and stops at a mount from
  a torn checkpoint.  Files are interchangeable: `SYMMETRY AnyFile`.
* `log_store`: `ImplementsStore`.  `StillPromised` ends a behaviour with the
  promise: `Store` allows everything from there.  Values are interchangeable:
  `SYMMETRY AnyValue`.
* `file_core`: `ImplementsByteFile`.  No action reads `req`, `got` and `ret`,
  so `VIEW InodeView` merges states that differ in these; every step is checked
  nevertheless.
* `ifile_core`: `NamedStored` (every inode with a name is there, whole and its
  own, in memory, in the log and in the checkpoint) and
  `ImplementsInodeTable`.  The five inodes are two in a block each, one across
  two blocks, one past the direct blocks and one that is refused.  `NoGap` ends
  a behaviour with the promise.
* `format_core`: `CheckpointFits` (store_checkpoint stays in its buffer, though
  8 bytes of what it writes were not counted), `LayoutForLog` (which options
  make the file system that `Log`, `Flash` and `Dir` begin with),
  `WrittenOnce` (mklfs writes no segment twice, and so needs no erase).
* `dir_core`: `EntriesNameUsed` (an entry, in memory or in the log, names an
  inode in use there), `LinksCoverEntries` (an inode is not freed while a name
  is left), `NamesOnce` (no directory has a name twice), `EntriesReachable`
  (every entry lies on a path from the root), `LogFollows` (the log has the
  entries of memory, and the modes of what they name, though link counts and
  nameless inodes differ), `ImplementsNames`.  Names are interchangeable:
  `SYMMETRY AnyNames`.

### Bounds

Three log segments are enough for a push, a move to the next segment, a wrap to
the first, and a segment skipped because it is full; two blocks per segment for
a tail that stays in its segment and one that leaves it.  `WearLimit` bounds the
number of erases and so the length of every behaviour; a limit of 2 or 3 lets
each segment be rewritten, and lets erases be refused.  `MinAvail` is 4 or 2 in
place of 6 because there are 5 or 4 segments in place of at least 16: a session
has two or three pushes before the cleaner ends it, and a segment is rewritten
in the next.
`log_store` has one segment less and one erase more than `log_core`: within
its promise the log does not wrap, and what it needs is remounts.

In `Flash` two erase blocks and two sectors in each give every loop a first and
a last round, and two segments a neighbour that must not change.

In `FileIO` requests of 4 bytes over blocks of 2 begin and end at, before and
behind every block boundary, and cover a first, a middle and a last block.  The
direct pointers end in mid-file, so a request also straddles that line.
`DIRECT_BK_NUM` is 4, a block at least 512 bytes.

In `Ifile` the five inodes have the five places an inode can have (see above).
An image tells whose inode it is, and two of them lets the one across two
blocks change.

In `Format` the options lie on both sides of each: the least number of
segments, a checkpoint that fits one segment, a summary that fits one block, a
multiple of the erase block, a whole number of segments.

In `Dir` three inodes are the root and two more: a directory in a directory, a
file with two names in two directories, a rename across directories, a free
inode used again.  `MaxEntries` and `MaxLinks` bound only how much is added;
an operation at the bound is not taken.  (In the code 204 entries fit into the
four direct blocks of a directory of 1024-byte blocks, and 9 inodes into the
first block of the ifile.)

Every run checks for deadlock.  There is none: in every state the system can
be killed, mounted or asked for something.

### Fairness

One run assumes it: `flash_core` checks `FairSpec`, weak fairness of `Writer`,
which is the rest of the calls of `Flash_Erase` and `Flash_Write` once they
have been made.  They are loops of one thread over a bounded range that wait
for nobody, so they go on unless the process is killed; kills are not fair, and
no property needs one not to come.  Everywhere else nothing is periodic or in
the background, every step is the answer to a request, and no property here
says that a request comes.

### What the violated properties show

* `TailNotOnLiveIfile` (`log_tail_ifile`): the ifile's inode number is -1, the
  mark of an unused block in a summary, so that after a wrap the live ifile is
  overwritten.  This is why the properties about inodes stop at the first wrap.
* `CheckpointWhole` (`flash_torn`): there is one checkpoint and it is rewritten
  in place, so a kill leaves neither the old one nor the new one.  This is why
  the properties of the log stop at a mount from such a checkpoint.
* `NoOrphans` (`dir_orphan`): a removed file's inode is freed in memory only; a
  clean unmount and mount brings it back without a name.
* `FlushLands` (`ifile_gap`): a creation that fails on its name leaves a gap in
  the ifile, and the next inode is written over inodes of the ifile's last
  block.
* `TailWritable` (`format_tail`): a file system whose checkpoint needs two
  segments is made without complaint and mounted with its tail on the
  superblock.

Met while modelling, part of the models, and without a run of their own: on a
full log the tail stays on a block in use and is overwritten (log.c:1265,
`NoRoomAtAll`); a rename onto a name in use adds a second entry of that name
and hides the file behind the first (LFS.c:266, `clobbered`); a write past the
end of a file goes to the file's last block (File.c:162, `StartBlock`); the
wear check of `setLogTail` is one too lenient and looks one erase block too far
(log.c:58, `WearSeen`); the cleaner follows a null pointer (`CleanSegFault`);
the checkpoint segment is never moved when it wears out (log.c:279, the outcome
of `StoreCheckpoint`); blocks past the direct ones are counted and not kept
(File.c:333, `Fetched`); `Write_file` returns the length asked for, whatever
`File_Write` returned (dir.c:830); a link to a name that is too long is counted,
and a new inode for such a name is not given back (`LinkTooLong`,
`CreateTooLong`).

## 4. Proofs

Every theorem holds for every value of the constants that the named
assumptions allow.

### The log

`LogProofs` proves, for every number of segments, blocks, files and values:

* `TypeCorrect`: `Spec => []TypeOK`;
* `MemoryIsTail`: `Spec => []TailSegmentLoaded`;
* `DataSafe`: `Spec => []DataInv`, and from it
* `LiveDataSafe`: `Spec => []LiveDataIntact` and
* `CheckpointSafe`: `Spec => []CheckpointedDataIntact`.

Assumed: the sizes (at least two log segments, two data blocks in a segment),
that the ifile's number is no file's, and that the null pointer is no address.

The argument.  A block survives because the tail never stands on it.  The
invariant has two parts, which end at different times.  Of the checkpointed
block of every file it speaks until a checkpoint is stored by a log that has
lost something, or a torn one is mounted (`lost`); a log that overruns, or
whose pushes fail, does the checkpointed blocks no harm, because they are not
on the tail and because a push, done or not, puts back what was there.  Of the
live block it speaks while the log is in order (`Healthy`).  It says of each
not only that the block is where its pointer says but that the pointer is not
the tail, and it says so of both places a block can be read from, the segment
in memory and the flash.  Neither `LiveDataIntact` nor `CheckpointedDataIntact`
is inductive: the first needs to know that the tail will not be the live block,
and that the tail segment's image in memory holds whatever the push is about to
replace on flash (`MemIsTail`); the second needs the same of the segment that
is pushed over a checkpointed block.  The lemmas follow `Log_Write`: what it
does to the segment in memory (`LogWriteMem`), to a read of any block but the
tail (`LogWriteReads`), to the flash (`LogWriteDurable`), where the tail goes
(`LogWriteTail`), that the old blocks are kept (`LogWriteKeeps`) and the new
one is there (`LogWriteNew`); then there is one lemma per action that writes.
A write that is cut short needs nothing more: a live or saved block is the same
in the image and in the segment it replaces, so it is the same in any mixture
of the two.  A checkpoint cut short leads to the saved blocks of one of two
unmounts, and both are on flash by then; of its tail the invariant says that it
stands on none of them only when it is not `torn` (`PutCheckpointStep`).

### The ifile blocks of the log

`LogProofs` also proves `IfileSafe`: `Spec => []IfileInv`, and from it
`InodesSafe` (`IfileIntactBeforeWrap`) and `CheckpointedInodesSafe`
(`CheckpointedIfileIntactBeforeWrap`).  The summaries call ifile blocks unused,
so the argument for data blocks does not carry over.  What keeps the tail off
them is that it only moves up (`LogWriteAdvances`): `Passed` says that it is
past every ifile block that the running process, or the checkpoint, refers to,
and the invariant adds that a checkpointed ifile block is in memory what it is
on flash, so that a push, whole or torn, puts the same back.  The tail of the
checkpoint is past them too unless the checkpoint is torn, which is what a
mount needs, and why the promise ends with a mount from a torn one
(`CrashTornCheckpointIfile`).

### The log is a store

`LogStoreProofs` proves `Implements`: `Spec => ImplementsStore`.  With `DataInv`
and `IfileInv` the two views of the refinement mapping are the history
variables (`DurableViewIs`, `RunningViewIs`): what the running process reads is
`cur`, what a mount would find is `saved`.  `HistorySteps` says how an action
changes these two, and each way is an action of `Store`, or none.

### The flash

`FlashProofs` proves, for every number of segments, erase blocks and sectors:

* `TypeCorrect`: `Spec => []TypeOK`, so the loops stay inside their segment;
* `FirstBlockDecides`: `Spec => []FirstBlockWearsMost`;
* `ErasedBeforeWritten`: `Spec => OnlyErasedWritten`;
* `Implements`: `Spec => ImplementsSegmentFlash`.

Assumed: at least two segments, an erase block and a sector in each, a log
block smaller than a segment.

The argument.  An erase wears the blocks of a segment in order, so past the
first the ones it has not reached have worn less (`NotReached`); that is why
an erase is refused at its first block or never.  `ProgressInv` says, of every
step of a rewrite, how far the segment has come from the flash it started
with (`before`): untouched, erased up to a sector, written up to a sector,
marked up to a sector, and no other segment changed.  The refinement keeps
showing `before` until the rewrite ends; then each of these stages is one of
the outcomes of `SegmentFlash`.  A rewrite can end with a segment that is worn
out and still writable: it was erased by one that was killed (`Ready`).  The
multiplications that place a segment's blocks and sectors are in three lemmas
(`SegmentPlace`, `SegmentsApart`, `BlockSectors`), and nowhere else.

### The format

`FormatProofs` proves, for all options:

* `TypeCorrect`: `Spec => []TypeOK`;
* `CheckpointFitsBuffer`: `Spec => []CheckpointFits`;
* `NothingOverwritten`: `Spec => WrittenOnce`;
* `MountedAsAssumed`: `Spec => []LayoutForLog`.

The argument is arithmetic first: lemmas about `Ceil`, about the sizes that
`Log_Create` counts and `store_checkpoint` writes (a block is a multiple of 512
bytes, and the 8 bytes that were not counted fit into what rounding up to it
adds), and about the number of segments of a checkpoint.  The segments are then
written in order, so the invariant says what each of those below `next` is, and
that the others are blank.

### The directory layer

`DirProofs` proves, for any number of inodes, names, links and entries:

* `TypesHold`: `Spec => []TypeOK`;
* `LinksAreCovered`: `Spec => []LinksCoverEntries`;
* `EntriesAreUsed`: `Spec => []EntriesNameUsed`;
* `LogKeepsUp`: `Spec => []LogFollows`;
* `NamesAreOnce`: `Spec => []NamesOnce`;
* `EntriesAreReachable`: `Spec => []EntriesReachable`;
* `NamesAreImplemented`: `Spec => ImplementsNames`.

Assumed: at least one inode, link and entry, and that the empty name is no
name.

The argument.  An operation is a chain of small changes to a table (`Added`,
`Counted`, `WithoutFirst`, `Dropped`, a new inode), so the lemmas are about one
change of one table each, and the operations put them together.  The invariant
`SoundInv` has two parts.  Each of the three generations is `Sound`: types, and
at least as many links as names, so that an inode whose last link goes has no
name left and its number may be given away.  And the log `Follows` memory: the
entries are the same and so are the modes of what they name.  The log keeps its
own link counts and its own nameless inodes, so it is not memory, and its own
soundness is not that of memory: it has to be shown that what it keeps of an
inode that is not flushed counts enough links for the names it has, which is so
because no operation adds a name to an inode that it does not flush.

Until a rename onto a name in use `TidyInv` adds that no directory has a name
twice and that every entry lies on a path.  A path is not followed: a directory
is reachable if every set of directories closed under lookup has it, and so a
step keeps it reachable if each set that is closed afterwards gives one that
was closed before.  When a directory without entries goes, that set is the one
with it put back; when a name moves, the two conditions that the kernel puts on
a rename (neither name lies on the path of the other) are what keeps the moved
directory from being cut off.  The refinement has one lemma per kind of step of
`Names`.

### The file layer

`FileOpsProofs` has no theorem of a specification but what `FileIO` and `Ifile`
rest on, for blocks of any size: `Byte(f, p)` is the byte of the file f at p;
`ReadBytes` says that `File_Read` returns these bytes, `WriteBytes` that
`File_Write` puts the caller's there and leaves the others as they were,
`TruncateBytes` that `File_Truncate` leaves a prefix; `WriteType` and
`TooBigSize` that a size never passes what the pointers can count, and that a
write is refused for that reason only.  The quotients and products are in the
first part (`Pos`, `Place`, `BlockOrder`, `LastBlock`) and nowhere else.

`FileIOProofs` proves `TypesHold`: `Spec => []TypeOK`, and
`BytesAreImplemented`: `Spec => ImplementsByteFile`, where the abstract file
sees the same requests. `TooBigSize` is what makes a refusal exact. The two
cases in which a write must bring back bytes it was not given are the first and
the last block, and the last is filled from the file's own last block when it
goes further; `WriteBytes` shows that the bytes taken from the wrong block are
all past the end of the file.

### The ifile

`IfileProofs` proves `TypesHold`: `Spec => [](TypeOK /\ Whole(file) /\
Whole(cp.file))`, types and that both ifiles end where an inode ends,
`NamesAreStored`: `Spec => []NamedStored`, and `InodesAreImplemented`: `Spec =>
ImplementsInodeTable`, for inodes and blocks of any sizes. `NamedStored` is
inductive once it is known that the ifile, in the log and of the checkpoint,
holds whole inodes (`Shape`): then `PutStores` says that a flush that leaves no
gap replaces one inode and no other, and a mount, which counts inodes by
dividing the size, finds as many as were put there (`LengthWhole`,
`MountReads`).

The assumptions of these three modules are that the sizes are not 0, that an
inode in use has a mode that is not 0, that what stands for a free pointer is
no block, and that a request may have one byte.

### Only model-checked

`RewriteLands` of the flash rests on fairness and ENABLED, which the prover does
not handle; every other property of a passing run is a theorem.  No property
here rests on induction over data.  Induction over numbers is used in one form:
a set of numbers that is not empty has a least element (`LeastNatural`), for the
first free inode and the first entry of a name.

## 5. Not modelled, and what comes next

Not modelled:

* the segment cache (`create_cache`, `read_cache`, `update_cache`): `main` does
  not create it;
* `Log_Init`, `find_free_seg`: not called;
* `clean_seg` beyond the null pointer, `Log_Free`, `move_live_bk`: not reached;
* `lfsck`: it keeps no state and uses a checkpoint it has not read; what it
  should report are properties of `Dir`;
* handlers that change nothing, times, ownership, the delay and the counters
  of the flash;
* what depends on a byte past a buffer or on a variable nobody has set: names
  of exactly 16 characters, a symbolic link whose creation fails (LFS.c:243),
  the third argument that `LFS_Mkdir` declares and FUSE does not pass, requests
  of no bytes.  Where such an outcome ends the process it is a `Crash`;
* a file handle that outlives its file.  `Validate_Inum` would let it through,
  but libfuse renames an open file before it unlinks it, to a name that is too
  long here, and gives up when that fails (`LinkTooLong`).

Between the modules, and so covered by none of them: a directory whose entries
fill its direct blocks.  The next entry straddles that line with a block of
1024 bytes, so that its name is kept and its inode number read as 0, the root
(`FileIO` has such a write for a file).

Next: `Dir` with directories of more entries than the direct blocks hold, so
that the straddling entry is a step of a model and not a remark; and a proof
that the outcomes of a rewrite in `Log` are those of `SegmentFlash`, which now
rests on reading the two side by side.
