---------------------------- MODULE FileIOProofs ----------------------------
(***************************************************************************)
(* The file of FileIO is a run of bytes (ByteFile), whatever the size of a *)
(* block, the number of pointers and the length of the requests.           *)
(***************************************************************************)
EXTENDS FileIO, FileOpsProofs

LEMMA NewContents == Contents(NewFile) = Nothing
<1>1. NewFile.size = 0
  BY NewFileType
<1>2. 0 .. 0 - 1 = 0 .. -1 /\ \A i \in 0 .. -1 : FALSE
  OBVIOUS
<1> QED BY <1>1, <1>2 DEF Contents, Nothing

\* What a growing truncation writes
Zero == [i \in {0} |-> 0]

LEMMA ZeroData == Zero \in Data(1) /\ 1 \in Nat \ {0}
<1>1. 0 .. 1 - 1 = {0}
  OBVIOUS
<1> QED BY <1>1, OpsAssumption DEF Zero, Data

\* TypeOK: sizes stay within what the pointers can count and a read fills the
\* buffer with as many bytes as the request has room for, at most (File_Read,
\* File_Write and File_Truncate, whatever their arguments).
THEOREM TypesHold == Spec => []TypeOK
<1>1. Init => TypeOK
  <2>1. Nothing \in Data(0)
    BY DEF Nothing, Data
  <2>2. 0 \in 0 .. MaxLen
    BY FileAssumption
  <2>3. 0 \in {EFBIG} \cup 0 .. MaxLen /\ FALSE \in BOOLEAN
    BY <2>2
  <2>4. [op |-> "create"] \in Requests
    BY DEF Requests
  <2> SUFFICES ASSUME Init PROVE TypeOK
    OBVIOUS
  <2>5. req \in Requests /\ file \in FileInode /\ holed \in BOOLEAN
    BY <2>4, NewFileType DEF Init
  <2>6. got \in Data(0) /\ ret \in {EFBIG} \cup 0 .. MaxLen
    BY <2>1, <2>3 DEF Init
  <2> QED BY <2>2, <2>5, <2>6 DEF TypeOK
<1>2. TypeOK /\ [Next]_vars => TypeOK'
  <2> SUFFICES ASSUME TypeOK, [Next]_vars PROVE TypeOK'
    OBVIOUS
  <2>1. file \in FileInode /\ holed \in BOOLEAN /\ MaxLen \in Nat \ {0}
    BY FileAssumption DEF TypeOK
  <2>2. Nothing \in Data(0) /\ 0 \in 0 .. MaxLen
    BY <2>1 DEF Nothing, Data
  <2>3. ASSUME NEW off \in 0 .. MaxSize, NEW len \in 1 .. MaxLen, Read(off, len)
        PROVE  TypeOK'
    <3>1. off \in Nat /\ len \in Nat /\ len \in 0 .. MaxLen
      BY <2>1, Bounds
    <3>2. FileRead(file, off, len) \in Data(ReadLength(file, off, len))
          /\ ReadLength(file, off, len) \in 0 .. len
      BY <2>1, <3>1, ReadBytes
    <3>3. ReadLength(file, off, len) \in 0 .. MaxLen
      BY <2>1, <3>1, <3>2
    <3>4. req' \in Requests
      BY <2>3 DEF Read, Requests
    <3> QED BY <2>1, <2>3, <3>1, <3>2, <3>3, <3>4 DEF Read, TypeOK
  <2>4. ASSUME NEW off \in 0 .. MaxSize, NEW len \in 1 .. MaxLen, NEW data \in Data(len),
               Write(off, len, data)
        PROVE  TypeOK'
    <3>1. off \in Nat /\ len \in Nat \ {0} /\ len \in 0 .. MaxLen
      BY <2>1, Bounds
    <3>2. file' \in FileInode
      BY <2>1, <2>4, <3>1, WriteKind DEF Write
    <3>3. holed' \in BOOLEAN /\ ret' = len /\ got' = Nothing
      BY <2>4 DEF Write
    <3>4. req' \in [op : {"write"}, off : 0 .. MaxSize, len : {len}, data : Data(len)]
      BY <2>4 DEF Write
    <3>5. req' \in Requests
      BY <2>4, <3>4 DEF Requests
    <3> QED BY <2>2, <3>1, <3>2, <3>3, <3>5 DEF TypeOK
  <2>5. ASSUME NEW n \in 0 .. MaxSize + 1, Shrink(n)
        PROVE  TypeOK'
    <3>1. n \in Nat
      BY Bounds
    <3>2. file' \in FileInode
      BY <2>1, <2>5, <3>1, TruncateBytes DEF Shrink
    <3>3. req' \in Requests
      BY <2>5 DEF Shrink, Requests
    <3> QED BY <2>2, <2>5, <3>2, <3>3 DEF Shrink, TypeOK
  <2>6. ASSUME NEW n \in 0 .. MaxSize + 1, Grow(n)
        PROVE  TypeOK'
    <3>1. n - 1 \in Nat
      BY <2>1, <2>6, SizeType, Bounds DEF Grow
    <3>2. file' \in FileInode /\ holed' \in BOOLEAN
      <4>1. CASE TooBig(n - 1, 1)
        BY <2>1, <2>6, <4>1 DEF Grow
      <4>2. CASE ~TooBig(n - 1, 1)
        <5>1. FileWrite(file, n - 1, 1, Zero) \in FileInode
          BY <2>1, <3>1, <4>2, ZeroData, WriteKind
        <5>2. file' = FileWrite(file, n - 1, 1, Zero) /\ holed' = (holed \/ n - 1 > file.size)
          BY <2>6, <4>2 DEF Grow, Zero
        <5> QED BY <5>1, <5>2
      <4> QED BY <4>1, <4>2
    <3>3. ret' \in {EFBIG, 0} /\ got' = Nothing
      BY <2>6 DEF Grow
    <3>4. req' \in Requests
      BY <2>6 DEF Grow, Requests
    <3> QED BY <2>2, <3>2, <3>3, <3>4 DEF TypeOK
  <2>7. CASE UNCHANGED vars
    BY <2>7 DEF vars, TypeOK
  <2> QED BY <2>3, <2>4, <2>5, <2>6, <2>7 DEF Next
<1> QED BY <1>1, <1>2, PTL DEF Spec

-----------------------------------------------------------------------------
(* The run of bytes.  The lemmas take the file before and after a step as  *)
(* f and g.                                                                *)

Now(h, f) == IF h THEN Nothing ELSE Contents(f)

\* A write that leaves no gap is a write of the run of bytes.
LEMMA WriteIsWrite ==
    ASSUME NEW f \in FileInode, NEW off \in Nat, NEW len \in Nat \ {0}, NEW data \in Data(len),
           ~TooBig(off, len), off <= f.size,
           NEW g, g = FileWrite(f, off, len, data)
    PROVE  /\ off + len <= MaxSize
           /\ g.size = IF f.size > off + len THEN f.size ELSE off + len
           /\ Contents(g) = [i \in 0 .. g.size - 1 |->
                  IF i >= NDirect * BS THEN 0
                  ELSE IF i \in off .. off + len - 1 THEN data[i - off] ELSE Contents(f)[i]]
<1>1. g \in FileInode /\ off + len <= MaxSize /\ f.size \in Nat
  BY WriteKind, SizeType
<1>2. g.size = IF f.size > off + len THEN f.size ELSE off + len
  <2>1. g.size = (IF off + len > f.size THEN off + len ELSE f.size)
    <3>1. Parts(f, off, len, data, g)
      BY WriteParts
    <3> QED BY <3>1 DEF Parts
  <2> QED BY <1>1, <2>1
<1>3. Pos(NDirect, 0) = NDirect * BS /\ Pos(NDirect, 0) \in Nat
  <2>1. Pos(NDirect, 0) = NDirect * BS + 0
    BY DEF Pos
  <2>2. NDirect * BS \in Int
    BY BlockSize, Z3
  <2> DEFINE x == NDirect * BS
  <2>3. x + 0 = x
    BY <2>2
  <2> QED BY <2>1, <2>3, Bounds
<1>4. ASSUME NEW i \in 0 .. g.size - 1
      PROVE  Byte(g, i) = IF i >= Pos(NDirect, 0) THEN 0
                          ELSE IF i \in off .. off + len - 1 THEN data[i - off]
                               ELSE Contents(f)[i]
  <2>1. i \in Nat /\ (i < off + len \/ i < f.size)
    BY <1>1, <1>2
  <2>2. CASE i >= Pos(NDirect, 0)
    <3>1. Pos(NDirect, 0) <= i
      BY <1>3, <2>1, <2>2
    <3> QED BY <2>1, <2>2, <3>1, ByteBeyond
  <2>3. CASE ~(i >= Pos(NDirect, 0))
    <3>1. i < Pos(NDirect, 0)
      BY <1>3, <2>1, <2>3
    <3>2. Byte(g, i) = IF i \in off .. off + len - 1 THEN data[i - off] ELSE Byte(f, i)
      BY <2>1, <3>1, WriteBytes
    <3>3. i \notin off .. off + len - 1 => Contents(f)[i] = Byte(f, i)
      <4>1. ASSUME i \notin off .. off + len - 1 PROVE i \in 0 .. f.size - 1
        BY <1>1, <2>1, <4>1
      <4> QED BY <4>1 DEF Contents
    <3> QED BY <2>3, <3>2, <3>3
  <2> QED BY <2>2, <2>3
<1>5. Contents(g) = [i \in 0 .. g.size - 1 |-> Byte(g, i)]
  BY DEF Contents
<1> QED BY <1>1, <1>2, <1>3, <1>4, <1>5

\* A read is a read of the run of bytes.
LEMMA ReadIsRead ==
    ASSUME NEW f \in FileInode, NEW off \in Nat, NEW len \in Nat \ {0}
    PROVE  FileRead(f, off, len) =
               [i \in 0 .. (IF off >= f.size THEN 0
                            ELSE IF off + len > f.size THEN f.size - off ELSE len) - 1 |->
                   Contents(f)[off + i]]
<1>1. f.size \in Nat
  BY SizeType
<1>2. PICK n : n = (IF off >= f.size THEN 0
                    ELSE IF off + len > f.size THEN f.size - off ELSE len)
  OBVIOUS
<1>3. ReadLength(f, off, len) = n
  BY <1>1, <1>2 DEF ReadLength
<1>4. FileRead(f, off, len) = [i \in 0 .. n - 1 |-> Byte(f, off + i)]
  BY <1>3, ReadBytes
<1>5. \A i \in 0 .. n - 1 : Contents(f)[off + i] = Byte(f, off + i)
  <2>1. \A i \in 0 .. n - 1 : off + i \in 0 .. f.size - 1
    BY <1>1, <1>2
  <2> QED BY <2>1 DEF Contents
<1> QED BY <1>2, <1>4, <1>5

\* A shorter file is a prefix.
LEMMA ShrinkIsPrefix ==
    ASSUME NEW f \in FileInode, NEW n \in Nat, n <= f.size,
           NEW g, g = IF n < f.size THEN FileTruncate(f, n) ELSE f
    PROVE  g.size = n /\ Contents(g) = [i \in 0 .. n - 1 |-> Contents(f)[i]]
<1>1. g \in FileInode /\ g.size = n /\ SameUpto(f, g, n) /\ f.size \in Nat
  <2>1. f.size \in Nat
    BY SizeType
  <2>2. CASE n < f.size
    BY <2>1, <2>2, TruncateBytes
  <2>3. CASE ~(n < f.size)
    <3>1. g = f /\ f.size = n
      BY <2>1, <2>3
    <3> QED BY <2>1, <3>1 DEF SameUpto
  <2> QED BY <2>2, <2>3
<1>2. \A i \in 0 .. n - 1 : Contents(f)[i] = Byte(f, i)
  BY <1>1 DEF Contents
<1>3. Contents(g) = [i \in 0 .. n - 1 |-> Byte(f, i)]
  BY <1>1 DEF Contents, SameUpto
<1> QED BY <1>1, <1>2, <1>3

\* ImplementsByteFile: a file is a run of bytes, in this sense.  Whatever the
\* call, req, the abstract file answers that call: a read at off of len bytes
\* returns what the writes have left in that range, a write puts its data at
\* its offset and nowhere else, a truncation leaves the prefix or adds a zero
\* byte at the new end, across block boundaries and in the middle of a block,
\* as far as the direct blocks go; a write or a growth is refused exactly when
\* it goes past MaxSize; and the promise ends exactly with a write that begins
\* past the end, until the file is emptied (File_Read, File_Write,
\* File_Truncate and the handlers Dir_Read_File, Dir_Write_File,
\* Dir_Truncate_File).
THEOREM BytesAreImplemented == Spec => ImplementsByteFile
<1>1. Init => B!Init
  <2>1. FileRead(NewFile, 0, NewFile.size) = Nothing
    BY NewFileType, NewContents, WholeRead
  <2> QED BY <2>1, NewFileType DEF Init, B!Init, Nothing, B!Nothing
<1>2. TypeOK /\ TypeOK' /\ [Next]_vars => [B!Next]_(B!vars)
  <2> SUFFICES ASSUME TypeOK, TypeOK', [Next]_vars
               PROVE  [B!Next]_(B!vars)
    OBVIOUS
  <2>1. /\ file \in FileInode /\ holed \in BOOLEAN /\ file' \in FileInode /\ holed' \in BOOLEAN
        /\ MaxLen \in Nat \ {0} /\ MaxSize \in Nat /\ file.size \in 0 .. MaxSize
    BY FileAssumption, Bounds, SizeType DEF TypeOK
  <2>2. /\ (IF holed THEN Nothing ELSE FileRead(file, 0, file.size)) = Now(holed, file)
        /\ (IF holed' THEN Nothing ELSE FileRead(file', 0, file'.size)) = Now(holed', file')
    BY <2>1, WholeRead DEF Now
  <2>3. B!Nothing = Nothing
    BY DEF B!Nothing, Nothing
  \* Past a write that began past the end, all but emptying the file is free.
  <2>4. ASSUME holed, holed', ~B!Emptied PROVE B!Next
    BY <2>4 DEF B!Next
  \* What a write does, whether Dir_Write_File or Dir_Truncate_File asks for it
  <2>5. ASSUME NEW off \in Nat, NEW len \in Nat \ {0}, NEW data \in Data(len), ~holed,
               file' = IF TooBig(off, len) THEN file ELSE FileWrite(file, off, len, data),
               holed' = (off > file.size /\ ~TooBig(off, len)), got' = Nothing
        PROVE  B!Refused(off, len) \/ B!Put(off, len, data) \/ B!GiveUp(off, len)
    <3>1. TooBig(off, len) <=> off + len > MaxSize
      BY <2>5, TooBigSize
    <3>2. CASE TooBig(off, len)
      <4>1. file' = file /\ ~holed'
        BY <2>5, <3>2
      <4> QED BY <2>3, <2>5, <3>1, <3>2, <4>1 DEF B!Refused
    <3>3. CASE ~TooBig(off, len) /\ off > file.size
      <4>1. off + len <= MaxSize
        BY <2>1, <3>1, <3>3
      <4>2. holed'
        BY <2>5, <3>3
      <4> QED BY <2>5, <3>3, <4>1, <4>2 DEF B!GiveUp
    <3>4. CASE ~TooBig(off, len) /\ ~(off > file.size)
      <4>1. off <= file.size /\ ~holed' /\ file' = FileWrite(file, off, len, data)
        BY <2>1, <2>5, <3>4
      <4>2. /\ off + len <= MaxSize
            /\ file'.size = IF file.size > off + len THEN file.size ELSE off + len
            /\ Contents(file') = [i \in 0 .. file'.size - 1 |->
                    IF i >= NDirect * BS THEN 0
                    ELSE IF i \in off .. off + len - 1 THEN data[i - off]
                         ELSE Contents(file)[i]]
        BY <2>1, <2>5, <3>4, <4>1, WriteIsWrite
      <4>3. B!Put(off, len, data)
        BY <2>2, <2>3, <2>5, <4>1, <4>2 DEF B!Put, B!Upto, B!Greater, Now
      <4> QED BY <4>3
    <3> QED BY <3>2, <3>3, <3>4
  <2>6. ASSUME NEW off \in 0 .. MaxSize, NEW len \in 1 .. MaxLen, Read(off, len)
        PROVE  B!Next
    <3>1. off \in Nat /\ len \in Nat \ {0}
      BY <2>1
    <3>2. CASE ~holed
      <4>1. /\ got' = FileRead(file, off, len)
            /\ file' = file /\ holed' = holed
            /\ req' = [op |-> "read", off |-> off, len |-> len]
        BY <2>6 DEF Read
      <4>2. got' = [i \in 0 .. (IF off >= file.size THEN 0
                                ELSE IF off + len > file.size THEN file.size - off ELSE len) - 1 |->
                       Contents(file)[off + i]]
        BY <2>1, <3>1, <4>1, ReadIsRead
      <4>3. B!Read(off, len)
        BY <2>2, <3>2, <4>1, <4>2 DEF B!Read, B!Upto, Now
      <4> QED BY <3>2, <4>3 DEF B!Next
    <3>3. CASE holed
      <4>1. req'.op = "read" /\ holed'
        BY <2>6, <3>3 DEF Read
      <4>2. ~B!Emptied
        BY <4>1 DEF B!Emptied
      <4> QED BY <2>4, <3>3, <4>1, <4>2
    <3> QED BY <3>2, <3>3
  <2>7. ASSUME NEW off \in 0 .. MaxSize, NEW len \in 1 .. MaxLen, NEW data \in Data(len),
               Write(off, len, data)
        PROVE  B!Next
    <3>1. /\ req' = [op |-> "write", off |-> off, len |-> len, data |-> data]
          /\ file' = IF TooBig(off, len) THEN file ELSE FileWrite(file, off, len, data)
          /\ holed' = (holed \/ (off > file.size /\ ~TooBig(off, len)))
          /\ got' = Nothing
      BY <2>7 DEF Write
    <3>2. CASE holed
      <4>1. req'.op = "write" /\ holed'
        BY <3>1, <3>2
      <4>2. ~B!Emptied
        BY <4>1 DEF B!Emptied
      <4> QED BY <2>4, <3>2, <4>1, <4>2
    <3>3. CASE ~holed
      <4>1. off \in Nat /\ len \in Nat \ {0}
        BY <2>1
      <4>2. B!Refused(off, len) \/ B!Put(off, len, data) \/ B!GiveUp(off, len)
        BY <2>5, <3>1, <3>3, <4>1
      <4>3. B!Write(off, len, data)
        BY <3>1, <4>2 DEF B!Write
      <4> QED BY <3>3, <4>3 DEF B!Next
    <3> QED BY <3>2, <3>3
  <2>8. ASSUME NEW n \in 0 .. MaxSize + 1, Shrink(n)
        PROVE  B!Next
    <3>1. n \in Nat /\ n <= file.size
      BY <2>1, <2>8 DEF Shrink
    <3>2. /\ req' = [op |-> "truncate", to |-> n]
          /\ file' = IF n < file.size THEN FileTruncate(file, n) ELSE file
          /\ got' = Nothing /\ holed' = (holed /\ n # 0)
      BY <2>8 DEF Shrink
    <3>3. file'.size = n /\ Contents(file') = [i \in 0 .. n - 1 |-> Contents(file)[i]]
      BY <2>1, <3>1, <3>2, ShrinkIsPrefix
    <3>4. CASE ~holed
      <4>1. B!Prefix(n)
        BY <2>1, <2>2, <2>3, <3>1, <3>2, <3>3, <3>4 DEF B!Prefix, B!Upto, Now
      <4>2. B!Truncate(n)
        BY <3>2, <4>1 DEF B!Truncate
      <4> QED BY <3>4, <4>2 DEF B!Next
    <3>5. CASE holed /\ n = 0
      <4>1. Contents(file') = Nothing
        <5>1. 0 .. 0 - 1 = 0 .. -1 /\ \A i \in 0 .. -1 : FALSE
          OBVIOUS
        <5> QED BY <3>3, <3>5, <5>1 DEF Nothing
      <4>2. B!Recover
        BY <2>2, <2>3, <3>2, <3>3, <3>5, <4>1 DEF B!Recover, B!Emptied, Now
      <4> QED BY <3>5, <4>2 DEF B!Next
    <3>6. CASE holed /\ n # 0
      <4>1. req'.to # 0 /\ holed'
        BY <3>2, <3>6
      <4>2. ~B!Emptied
        BY <4>1 DEF B!Emptied
      <4> QED BY <2>4, <3>6, <4>1, <4>2
    <3> QED BY <3>4, <3>5, <3>6
  <2>9. ASSUME NEW n \in 0 .. MaxSize + 1, Grow(n)
        PROVE  B!Next
    <3>1. n - 1 \in Nat /\ n > file.size /\ n # 0
      BY <2>1, <2>9 DEF Grow
    <3>2. /\ req' = [op |-> "truncate", to |-> n] /\ got' = Nothing
          /\ file' = IF TooBig(n - 1, 1) THEN file ELSE FileWrite(file, n - 1, 1, Zero)
          /\ holed' = (holed \/ (n - 1 > file.size /\ ~TooBig(n - 1, 1)))
      BY <2>1, <2>9 DEF Grow, Zero
    <3>3. CASE holed
      <4>1. req'.to # 0 /\ holed'
        BY <3>1, <3>2, <3>3
      <4>2. ~B!Emptied
        BY <4>1 DEF B!Emptied
      <4> QED BY <2>4, <3>3, <4>1, <4>2
    <3>4. CASE ~holed
      <4>1. B!Refused(n - 1, 1) \/ B!Put(n - 1, 1, Zero) \/ B!GiveUp(n - 1, 1)
        BY <2>5, <3>1, <3>2, <3>4, ZeroData
      <4>2. B!Lengthened(n)
        BY <3>1, <4>1 DEF B!Lengthened, Zero
      <4>3. B!Truncate(n)
        BY <3>2, <4>2 DEF B!Truncate
      <4> QED BY <3>4, <4>3 DEF B!Next
    <3> QED BY <3>3, <3>4
  <2>10. CASE UNCHANGED vars
    BY <2>10 DEF vars, B!vars
  <2> QED BY <2>6, <2>7, <2>8, <2>9, <2>10 DEF Next
<1>3. Spec => []TypeOK
  BY TypesHold
<1>4. Init /\ [][Next]_vars /\ []TypeOK => B!Spec
  BY <1>1, <1>2, PTL DEF B!Spec
<1> QED BY <1>3, <1>4, PTL DEF Spec, ImplementsByteFile
=============================================================================
