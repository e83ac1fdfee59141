------------------------------- MODULE FileIO -------------------------------
(***************************************************************************)
(* The file layer (File.c) and the handlers of dir.c that call it, for one *)
(* file.                                                                   *)
(***************************************************************************)
EXTENDS FileOps

CONSTANT MaxLen      \* bound: bytes of a request

\* A truncation to more than the size is a request of one byte.
ASSUME FileAssumption == MaxLen \in Nat \ {0}

VARIABLES
    req,     \* the last call of a handler
    file,    \* the inode
    got,     \* the bytes the last read has put into the caller's buffer
    ret,     \* what the last handler has returned
    holed    \* history: a write began past the end of the file, and the file
             \* has not been empty since

vars == <<req, file, got, ret, holed>>

EFBIG   == -27
Nothing == [i \in 0 .. -1 |-> 0]

\* No call has been made of a file that is new.
Requests ==
    [op : {"create"}]
    \cup [op : {"read"}, off : 0 .. MaxSize, len : 1 .. MaxLen]
    \cup [op : {"truncate"}, to : 0 .. MaxSize + 1]
    \cup UNION {[op : {"write"}, off : 0 .. MaxSize, len : {len}, data : Data(len)] :
                   len \in 1 .. MaxLen}

TypeOK ==
    /\ req \in Requests
    /\ file \in FileInode
    /\ \E n \in 0 .. MaxLen : got \in Data(n)
    /\ ret \in {EFBIG} \cup 0 .. MaxLen
    /\ holed \in BOOLEAN

Init ==
    /\ req = [op |-> "create"]
    /\ file = NewFile /\ got = Nothing /\ ret = 0 /\ holed = FALSE
-----------------------------------------------------------------------------
\* Dir_Write_File: Write_file drops what File_Write returns and answers with
\* the size it was given.
Write(off, len, data) ==
    /\ req' = [op |-> "write", off |-> off, len |-> len, data |-> data]
    /\ file' = IF TooBig(off, len) THEN file ELSE FileWrite(file, off, len, data)
    /\ holed' = (holed \/ (off > file.size /\ ~TooBig(off, len)))
    /\ ret' = len
    /\ got' = Nothing

\* Dir_Read_File: it returns the size it was asked for
Read(off, len) ==
    /\ req' = [op |-> "read", off |-> off, len |-> len]
    /\ got' = FileRead(file, off, len)
    /\ ret' = len
    /\ UNCHANGED <<file, holed>>

\* Dir_Truncate_File, to less: 0 bytes are left without a partial block.  A
\* truncation to the size calls nothing.
Shrink(n) ==
    /\ n <= file.size
    /\ req' = [op |-> "truncate", to |-> n]
    /\ file' = IF n < file.size THEN FileTruncate(file, n) ELSE file
    /\ holed' = (holed /\ n # 0)
    /\ ret' = 0
    /\ got' = Nothing

\* Dir_Truncate_File, to more: one zero byte at the new end.  It is past the
\* old end unless the file grows by one.
Grow(n) ==
    /\ n > file.size
    /\ req' = [op |-> "truncate", to |-> n]
    /\ IF TooBig(n - 1, 1)
       THEN ret' = EFBIG /\ UNCHANGED <<file, holed>>
       ELSE /\ file' = FileWrite(file, n - 1, 1, [i \in {0} |-> 0])
            /\ holed' = (holed \/ n - 1 > file.size)
            /\ ret' = 0
    /\ got' = Nothing

\* One byte past the largest file is the first offset that is refused.
Next ==
    \/ \E off \in 0 .. MaxSize, len \in 1 .. MaxLen :
           \/ Read(off, len)
           \/ \E data \in Data(len) : Write(off, len, data)
    \/ \E n \in 0 .. MaxSize + 1 : Shrink(n) \/ Grow(n)

Spec == Init /\ [][Next]_vars
-----------------------------------------------------------------------------
B == INSTANCE ByteFile WITH
    content <- IF holed THEN Nothing ELSE FileRead(file, 0, file.size),
    size    <- IF holed THEN 0 ELSE file.size,
    got     <- IF holed THEN Nothing ELSE got,
    sound   <- ~holed,
    Kept    <- NDirect * BS

\* A file is a run of bytes: a read of a range returns what the writes have
\* left in that range, across block boundaries, appends, partial blocks,
\* truncations in the middle of a block and the growth that follows, for the
\* blocks that the direct pointers reach; and a write or a growth is refused
\* when it does not fit, and only then.  The abstract file sees the same req,
\* so it is this call, not some call, that has this outcome.
ImplementsByteFile == B!Spec
=============================================================================
