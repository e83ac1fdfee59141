------------------------------- MODULE FileOps -------------------------------
(***************************************************************************)
(* What File_Read, File_Write and File_Truncate (File.c) compute from an   *)
(* inode f: its size and, per direct pointer, the block it leads to.  A    *)
(* pointer stands for the block the log keeps for it (module Log: a block  *)
(* is read as it was written).  The block arithmetic is that of the code,  *)
(* with a block of BS bytes.                                               *)
(***************************************************************************)
EXTENDS Integers

CONSTANTS
    BS,          \* BLOCK_SIZE
    NDirect,     \* DIRECT_BK_NUM (4 in the code)
    NIndirect,   \* BLOCK_SIZE / sizeof(Block_pointer)
    Bytes,       \* values of a byte, 0 one of them
    Free         \* FREE_BLOCK_NUM

ASSUME OpsAssumption ==
    /\ BS \in Nat \ {0} /\ NDirect \in Nat \ {0} /\ NIndirect \in Nat
    /\ 0 \in Bytes

MaxBlocks == NDirect + NIndirect
MaxSize   == MaxBlocks * BS
Block     == [0 .. BS - 1 -> Bytes]
Zeros     == [j \in 0 .. BS - 1 |-> 0]
Data(len) == [0 .. len - 1 -> Bytes]

ASSUME FreeAssumption == Free \notin Block

\* indirect_bk is never assigned anything but FREE_BLOCK_NUM: nothing to keep
FileInode == [size : 0 .. MaxSize, blk : [0 .. NDirect - 1 -> Block \cup {Free}]]

\* File_Init
NewFile == [size |-> 0, blk |-> [b \in 0 .. NDirect - 1 |-> Free]]
-----------------------------------------------------------------------------
\* The block that holds the last of n bytes, and the one that holds byte n
LastBlockOf(n) == IF n % BS = 0 /\ n # 0 THEN n \div BS - 1 ELSE n \div BS
BlockOf(n)     == n \div BS

\* A block as Get_Block_pointer and Log_Read return it: past the direct ones
\* the pointer is indirect_bk itself, and a free pointer leaves the buffer as
\* calloc made it
Fetched(f, b) == IF b >= NDirect \/ f.blk[b] = Free THEN Zeros ELSE f.blk[b]

ReadLength(f, off, len) ==
    IF f.size < off THEN 0 ELSE IF f.size < off + len THEN f.size - off ELSE len

\* File_Read: whole blocks from the one of off on, the bytes taken out of them
FileRead(f, off, len) ==
    LET inner == off % BS
    IN  [i \in 0 .. ReadLength(f, off, len) - 1 |->
            Fetched(f, BlockOf(off) + BlockOf(inner + i))[(inner + i) % BS]]

\* A variant that reads the first block only
SlotsFirstOnly(f, start, end, k) ==
    IF LastBlockOf(f.size) >= start /\ k = 0 THEN Fetched(f, start) ELSE Zeros

\* The k-th block of writeBuffer before the caller's bytes go into it: the
\* first and the last are read from the file.  The last is the file's last
\* block when the write goes further.
Slots(f, start, end, k) ==
    LET last == LastBlockOf(f.size)
    IN  IF last < start THEN Zeros
        ELSE IF k = 0 THEN Fetched(f, start)
        ELSE IF k = end - start THEN Fetched(f, IF last > end THEN end ELSE last)
        ELSE Zeros

StartBlock(f, off) == IF f.size < off THEN LastBlockOf(f.size) ELSE BlockOf(off)

\* File_Write, with the range already checked.  Blocks past the direct ones go
\* to the log, and their addresses into a buffer that is freed.
FileWrite(f, off, len, data) ==
    LET start == StartBlock(f, off)
        end   == LastBlockOf(off + len)
        inner == off % BS
        Written(b) ==
            [j \in 0 .. BS - 1 |->
                LET p == (b - start) * BS + j - inner
                IN  IF p \in 0 .. len - 1 THEN data[p]
                    ELSE Slots(f, start, end, b - start)[j]]
    IN  [size |-> IF off + len > f.size THEN off + len ELSE f.size,
         blk  |-> [b \in 0 .. NDirect - 1 |->
                       IF b \in start .. end THEN Written(b) ELSE f.blk[b]]]

\* A variant that lets one block too many through
TooBigLate(off, len) == LastBlockOf(off + len) > MaxBlocks

TooBig(off, len) == LastBlockOf(off + len) >= MaxBlocks

\* The block that is cut by a truncation to n: read as far as n and written
\* back whole, with zeros after
CutBlock(f, n) ==
    IF n % BS = 0 THEN f
    ELSE LET start == BlockOf(n) * BS
             head  == FileRead(f, start, n - start)
         IN  FileWrite(f, start, BS,
                       [j \in 0 .. BS - 1 |-> IF j < n - start THEN head[j] ELSE 0])

\* File_Truncate
FileTruncate(f, n) ==
    LET g     == CutBlock(f, n)
        first == IF n % BS = 0 THEN BlockOf(n) ELSE BlockOf(n) + 1
    IN  [size |-> n,
         blk  |-> IF first * BS > g.size THEN g.blk
                  ELSE [b \in 0 .. NDirect - 1 |-> IF b >= first THEN Free ELSE g.blk[b]]]
=============================================================================
