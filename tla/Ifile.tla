-------------------------------- MODULE Ifile --------------------------------
(***************************************************************************)
(* The ifile: the file that holds all inodes, and the array ifile[] in     *)
(* memory that dir.c works on.  Flush_Ino is a File_Write of one inode at  *)
(* its place in that file, a mount a File_Read of the whole of it, and     *)
(* both go through the block arithmetic of FileOps: inodes do not fill     *)
(* blocks evenly, and lie across them.                                     *)
(*                                                                         *)
(* The operations are those of module Dir, for what they do to inodes:     *)
(* which of them they change, and which they flush.  An inode's bytes are  *)
(* taken together to a few images.                                         *)
(***************************************************************************)
EXTENDS FileOps

CONSTANTS
    ISize,       \* sizeof(Inode)
    ModeAt,      \* the place of the field mode in an inode
    NumInodes,   \* bound: ifile_length
    Images       \* per inode number, what an inode in use may look like

Inums   == 0 .. NumInodes - 1
NoInode == [k \in 0 .. ISize - 1 |-> 0]
InUse(x) == x[ModeAt] # 0

ASSUME IfileAssumption ==
    /\ ISize \in Nat \ {0} /\ ModeAt \in 0 .. ISize - 1
    /\ NumInodes \in Nat \ {0}
    /\ Images \in [Inums -> SUBSET {x \in Data(ISize) : InUse(x)}]

ROOT  == 0                  \* ROOT_INUM
Table == [Inums -> Data(ISize)]
Empty == [i \in Inums |-> NoInode]

VARIABLES
    inode,   \* ifile[]: zeros past its end
    length,  \* ifile_length
    file,    \* inode_ifile, with the blocks it leads to
    named,   \* the inodes that have a name (module Dir keeps the names)
    cp,      \* what the checkpoint leads to: the ifile, the names
    up       \* the file system is mounted

VARIABLE
    gapped   \* history: an inode was flushed past the end of the ifile

vars == <<inode, length, file, named, cp, up, gapped>>

TypeOK ==
    /\ inode \in Table
    /\ length \in 0 .. NumInodes
    /\ file \in FileInode
    /\ named \subseteq Inums
    /\ cp \in [file : FileInode, named : SUBSET Inums]
    /\ up \in BOOLEAN /\ gapped \in BOOLEAN

Forget == inode' = Empty /\ length' = 0 /\ file' = NewFile /\ named' = {}

Init ==
    /\ inode = Empty /\ length = 0 /\ file = NewFile /\ named = {}
    /\ cp = [file |-> NewFile, named |-> {}]
    /\ up = FALSE /\ gapped = FALSE
-----------------------------------------------------------------------------
\* A variant that starts every inode in a block of its own
OffsetPadded(i) == i * BS
OffsetOf(i)     == i * ISize

\* Flush_Ino, and what becomes of the promise: File_Write refuses what would
\* lie past the indirect block
Put(f, i, x) == IF TooBig(OffsetOf(i), ISize) THEN f
                ELSE FileWrite(f, OffsetOf(i), ISize, x)
LeavesGap(f, i) == OffsetOf(i) > f.size /\ ~TooBig(OffsetOf(i), ISize)

\* The inodes of the ifile as Dir_Layer_Init reads them
Stored(f, i) ==
    IF OffsetOf(i + 1) > f.size THEN NoInode
    ELSE LET all == FileRead(f, 0, f.size)
         IN  [k \in 0 .. ISize - 1 |-> all[OffsetOf(i) + k]]

\* A variant that loses the last inode
LengthShort(f) == IF f.size = 0 THEN 0 ELSE f.size \div ISize - 1
LengthOf(f)    == f.size \div ISize

\* Get_New_Ino: the first slot whose mode is 0, or a new one (Expand_Ifile)
NewIno ==
    CHOOSE i \in 0 .. length :
        /\ i = length \/ ~InUse(inode[i])
        /\ \A j \in 0 .. i - 1 : InUse(inode[j])

\* A variant that makes room for one more whenever an inode is taken
LongerAlways(i) == length + 1
Longer(i)       == IF i = length THEN length + 1 ELSE length
-----------------------------------------------------------------------------
\* Dir_Layer_Init; without inodes it makes the root
Mount ==
    /\ ~up /\ up' = TRUE
    /\ IF LengthOf(cp.file) = 0
       THEN \E x \in Images[ROOT] :
                /\ inode' = [Empty EXCEPT ![ROOT] = x]
                /\ length' = 1
                /\ file' = Put(cp.file, ROOT, x)
                /\ named' = {ROOT}
       ELSE /\ length' = LengthOf(cp.file)
            /\ inode' = [i \in Inums |-> IF i < length' THEN Stored(cp.file, i)
                                         ELSE NoInode]
            /\ file' = cp.file
            /\ named' = cp.named
    /\ UNCHANGED <<cp, gapped>>

\* LFS_Create, LFS_Mkdir, LFS_SymLink: the directory d gets an entry and is
\* flushed, then the new inode
Create(d, x, v) ==
    LET i == NewIno
        g == Put(file, d, x)
    IN  /\ up /\ d \in named /\ x \in Images[d]
        /\ i < NumInodes /\ v \in Images[i]
        /\ inode' = [inode EXCEPT ![d] = x, ![i] = v]
        /\ length' = Longer(i)
        /\ file' = Put(g, i, v)
        /\ gapped' = (gapped \/ LeavesGap(file, d) \/ LeavesGap(g, i))
        /\ named' = named \cup {i}
        /\ UNCHANGED <<cp, up>>

\* The same for a name that is too long: the inode stays taken, in memory only.
CreateTooLong(v) ==
    LET i == NewIno
    IN  /\ up /\ i < NumInodes /\ v \in Images[i]
        /\ inode' = [inode EXCEPT ![i] = v]
        /\ length' = Longer(i)
        /\ UNCHANGED <<file, named, cp, up, gapped>>

\* LFS_Read, LFS_Write: the file's inode changes and is flushed.  LFS_Link does
\* it to the directory and then to the file, LFS_Rename goes on with a Delete.
Touch(i, v) ==
    /\ up /\ i \in named /\ v \in Images[i]
    /\ inode' = [inode EXCEPT ![i] = v]
    /\ file' = Put(file, i, v)
    /\ gapped' = (gapped \/ LeavesGap(file, i))
    /\ UNCHANGED <<length, named, cp, up>>

\* LFS_Truncate, or a link counted for a name that is too long: in memory only
Change(i, v) ==
    /\ up /\ i \in named /\ v \in Images[i]
    /\ inode' = [inode EXCEPT ![i] = v]
    /\ UNCHANGED <<length, file, named, cp, up, gapped>>

\* LFS_Unlink, LFS_Rmdir of a last name: the directory is flushed, the inode
\* freed in memory only
Delete(d, x, i) ==
    /\ up /\ {d, i} \subseteq named /\ i \notin {d, ROOT} /\ x \in Images[d]
    /\ inode' = [inode EXCEPT ![d] = x, ![i] = NoInode]
    /\ file' = Put(file, d, x)
    /\ gapped' = (gapped \/ LeavesGap(file, d))
    /\ named' = named \ {i}
    /\ UNCHANGED <<length, cp, up>>

\* LFS_Destroy: the checkpoint takes inode_ifile, and with it what it leads to
Unmount ==
    /\ up /\ up' = FALSE
    /\ cp' = [file |-> file, named |-> named]
    /\ Forget /\ UNCHANGED gapped

Crash == up /\ up' = FALSE /\ Forget /\ UNCHANGED <<cp, gapped>>

Next ==
    \/ Mount \/ Unmount \/ Crash
    \/ \E i \in Inums : \E v \in Images[i] :
           \/ CreateTooLong(v) \/ Touch(i, v) \/ Change(i, v)
           \/ \E d \in Inums : \E x \in Images[d] :
                  Create(d, x, v) \/ Delete(d, x, i)

Spec == Init /\ [][Next]_vars
-----------------------------------------------------------------------------
\* The inodes that lie within the direct blocks, whole
Kept == {i \in Inums : OffsetOf(i + 1) <= NDirect * BS}

\* As long as no inode was flushed past the end of the ifile, every inode with
\* a name is there, in memory, in the ifile of the log and in the one of the
\* checkpoint, whole and its own, across blocks and remounts: no two
\* inodes run into one another, and no name leads to an inode of zeros.
NamedStored ==
    ~gapped =>
        /\ \A i \in named \cap Kept :
               inode[i] \in Images[i] /\ Stored(file, i) \in Images[i]
        /\ \A i \in cp.named \cap Kept : Stored(cp.file, i) \in Images[i]

KeptOf(t(_)) == [i \in Kept |-> t(i)]

T == INSTANCE InodeTable WITH
    Inums   <- Kept,
    Images  <- UNION {Images[i] : i \in Kept},
    mem     <- KeptOf(LAMBDA i : inode[i]),
    log     <- KeptOf(LAMBDA i : Stored(file, i)),
    saved   <- KeptOf(LAMBDA i : Stored(cp.file, i)),
    running <- up,
    sound   <- ~gapped

\* Of the inodes within the direct blocks, a flush of one replaces that one,
\* whole, and no other; a mount returns them as the last clean unmount has
\* left them; until an inode is flushed past the end of the ifile.
ImplementsInodeTable == T!Spec

\* Flush_Ino: "write the corresponding ifile[inum] to inode_ifile or add to it".
\* What an operation changes in the ifile, it changes to the inode in memory.
FlushLands ==
    [][up' => \A i \in Kept :
           Stored(file', i) = Stored(file, i) \/ Stored(file', i) = inode'[i]]_vars
=============================================================================
