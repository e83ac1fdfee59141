----------------------------- MODULE IfileProofs -----------------------------
(***************************************************************************)
(* The ifile of module Ifile is a table of inodes (InodeTable), whatever   *)
(* the sizes of a block and of an inode: they need not fit into one        *)
(* another.                                                                *)
(***************************************************************************)
EXTENDS Ifile, FileOpsProofs, NaturalsInduction, WellFoundedInduction

\* A set of natural numbers that has an element has a least one.
LEMMA LeastNatural ==
    ASSUME NEW S \in SUBSET Nat, S # {}
    PROVE  \E i \in S : \A j \in S : i <= j
<1> DEFINE R == {p \in Nat \X Nat : p[1] < p[2]}
<1>1. IsWellFoundedOn(R, Nat)
  BY NatLessThanWellFounded DEF OpToRel
<1>2. \E i \in S : \A j \in S : <<j, i>> \notin R
  <2> HIDE DEF R
  <2> QED BY <1>1, WFMin
<1>3. \A i, j \in Nat : <<j, i>> \notin R => i <= j
  OBVIOUS
<1> QED BY <1>2, <1>3

LEMMA SizeOfInode == ISize \in Nat /\ ISize >= 1 /\ NumInodes \in Nat /\ NumInodes >= 1
BY IfileAssumption

\* Inodes lie one after the other.
LEMMA Offsets ==
    ASSUME NEW i \in Int
    PROVE  /\ OffsetOf(i) \in Int /\ OffsetOf(i + 1) = OffsetOf(i) + ISize
           /\ i \in Nat => OffsetOf(i) \in Nat
           /\ OffsetOf(0) = 0
BY SizeOfInode, Z3 DEF OffsetOf

LEMMA OffsetSum ==
    ASSUME NEW i \in Int, NEW d \in Int
    PROVE  OffsetOf(i + d) = OffsetOf(i) + OffsetOf(d)
BY SizeOfInode, Z3 DEF OffsetOf

LEMMA OffsetOrder ==
    ASSUME NEW i \in Nat, NEW j \in Nat
    PROVE  /\ i <= j <=> OffsetOf(i) <= OffsetOf(j)
           /\ i < j => OffsetOf(i + 1) <= OffsetOf(j)
<1>1. \A a, b \in Nat : a <= b => OffsetOf(a) <= OffsetOf(b)
  <2> SUFFICES ASSUME NEW a \in Nat, NEW b \in Nat, a <= b PROVE OffsetOf(a) <= OffsetOf(b)
    OBVIOUS
  <2>1. PICK d \in Nat : b = a + d
    BY b - a \in Nat, b = a + (b - a)
  <2>2. OffsetOf(b) = OffsetOf(a) + OffsetOf(d) /\ OffsetOf(d) \in Nat /\ OffsetOf(a) \in Nat
    BY <2>1, OffsetSum, Offsets
  <2> QED BY <2>2
<1>2. /\ OffsetOf(i) \in Nat /\ OffsetOf(j) \in Nat
      /\ OffsetOf(i + 1) = OffsetOf(i) + ISize /\ OffsetOf(j + 1) = OffsetOf(j) + ISize
  BY Offsets
<1>3. i < j => OffsetOf(i + 1) <= OffsetOf(j)
  BY <1>1
<1>4. j < i => OffsetOf(j + 1) <= OffsetOf(i)
  BY <1>1
<1> QED BY <1>1, <1>2, <1>3, <1>4, SizeOfInode

\* The length of the ifile is the number of inodes in it.
LEMMA LengthWhole ==
    ASSUME NEW m \in Nat, NEW f, f.size = OffsetOf(m)
    PROVE  LengthOf(f) = m
<1>1. PICK n : n = OffsetOf(m)
  OBVIOUS
<1>2. n \in Nat
  BY <1>1, Offsets
<1> DEFINE q == n \div ISize
           r == n % ISize
           y == ISize * q
<1>3. n = y + r /\ r \in 0 .. ISize - 1 /\ q \in Int
  BY <1>2, IfileAssumption, Z3
<1>4. q \in Nat
  BY <1>2, <1>3, SizeOfInode, SMT
<1>5. y = OffsetOf(q)
  BY <1>4, SizeOfInode, Z3 DEF OffsetOf
<1>6. LengthOf(f) = q
  BY <1>1 DEF LengthOf
<1> HIDE DEF q, r, y
<1>7. n = OffsetOf(q) + r /\ r \in Nat /\ r < ISize
  BY <1>3, <1>5, SizeOfInode
<1>8. OffsetOf(q) <= n /\ n < OffsetOf(q + 1) /\ OffsetOf(q) \in Nat
  BY <1>4, <1>7, Offsets, SizeOfInode
<1>9. q <= m
  BY <1>1, <1>4, <1>8, OffsetOrder
<1>10. q + 1 \in Nat /\ ~(q + 1 <= m)
  BY <1>1, <1>2, <1>4, <1>8, OffsetOrder, Offsets, SizeOfInode
<1> QED BY <1>4, <1>6, <1>9, <1>10

LEMMA KeptRoom ==
    ASSUME NEW i \in Kept
    PROVE  /\ i \in Inums /\ i \in Nat
           /\ OffsetOf(i) + ISize <= Pos(NDirect, 0) /\ OffsetOf(i) + ISize <= MaxSize
<1>1. i \in Inums /\ i \in Nat /\ OffsetOf(i + 1) <= NDirect * BS
  BY SizeOfInode DEF Kept, Inums
<1>2. Pos(NDirect, 0) = NDirect * BS
  <2>1. Pos(NDirect, 0) = NDirect * BS + 0 /\ NDirect * BS \in Int
    BY BlockSize, Z3 DEF Pos
  <2> DEFINE x == NDirect * BS
  <2>2. x + 0 = x
    BY <2>1
  <2> QED BY <2>1, <2>2
<1>3. Pos(NDirect, 0) <= MaxSize
  <2>1. NDirect <= MaxBlocks /\ MaxBlocks \in Int /\ NDirect \in Int
    BY BlockSize DEF MaxBlocks
  <2> QED BY <2>1, PosGrows, Bounds
<1>4. OffsetOf(i) + ISize <= Pos(NDirect, 0)
  BY <1>1, <1>2, Offsets
<1> QED BY <1>1, <1>3, <1>4, Bounds, Offsets, SizeOfInode

\* What is read of an inode
LEMMA StoredBytes ==
    ASSUME NEW f \in FileInode, NEW i \in Nat
    PROVE  /\ Stored(f, i) = IF OffsetOf(i) + ISize > f.size THEN NoInode
                             ELSE [k \in 0 .. ISize - 1 |-> Byte(f, OffsetOf(i) + k)]
           /\ Stored(f, i) \in Data(ISize)
<1>1. OffsetOf(i) \in Nat /\ OffsetOf(i + 1) = OffsetOf(i) + ISize /\ f.size \in Nat
  BY Offsets, SizeType
<1>2. FileRead(f, 0, f.size) = Contents(f)
  BY WholeRead
<1>3. CASE OffsetOf(i) + ISize > f.size
  <2>1. Stored(f, i) = NoInode
    BY <1>1, <1>3 DEF Stored
  <2>2. NoInode \in Data(ISize)
    BY OpsAssumption DEF NoInode, Data
  <2> QED BY <1>3, <2>1, <2>2
<1>4. CASE ~(OffsetOf(i) + ISize > f.size)
  <2>1. Stored(f, i) = [k \in 0 .. ISize - 1 |-> Contents(f)[OffsetOf(i) + k]]
    BY <1>1, <1>2, <1>4 DEF Stored
  <2>2. \A k \in 0 .. ISize - 1 : Contents(f)[OffsetOf(i) + k] = Byte(f, OffsetOf(i) + k)
    <3>1. \A k \in 0 .. ISize - 1 : OffsetOf(i) + k \in 0 .. f.size - 1
      BY <1>1, <1>4, SizeOfInode
    <3> QED BY <3>1 DEF Contents
  <2>3. \A k \in 0 .. ISize - 1 : Byte(f, OffsetOf(i) + k) \in Bytes
    <3>1. \A k \in 0 .. ISize - 1 : OffsetOf(i) + k \in Nat
      BY <1>1, SizeOfInode
    <3> QED BY <3>1, ByteType
  <2>4. Stored(f, i) = [k \in 0 .. ISize - 1 |-> Byte(f, OffsetOf(i) + k)]
    BY <2>1, <2>2
  <2> QED BY <1>4, <2>3, <2>4 DEF Data
<1> QED BY <1>3, <1>4


-----------------------------------------------------------------------------
(* A flush of one inode *)

\* The ifile holds whole inodes.
Whole(f) == \E m \in 0 .. NumInodes : f.size = OffsetOf(m)

LEMMA PutType ==
    ASSUME NEW f \in FileInode, Whole(f), NEW i \in Inums, NEW x \in Data(ISize),
           NEW g, g = Put(f, i, x)
    PROVE  g \in FileInode /\ Whole(g)
<1>1. i \in Nat /\ i + 1 \in 0 .. NumInodes /\ OffsetOf(i) \in Nat /\ ISize \in Nat \ {0}
  BY SizeOfInode, Offsets DEF Inums
<1>2. CASE TooBig(OffsetOf(i), ISize)
  BY <1>2 DEF Put
<1>3. CASE ~TooBig(OffsetOf(i), ISize)
  <2>1. g = FileWrite(f, OffsetOf(i), ISize, x)
    BY <1>3 DEF Put
  <2>2. g \in FileInode
    BY <1>1, <1>3, <2>1, WriteKind
  <2>3. Parts(f, OffsetOf(i), ISize, x, g)
    BY <2>1, WriteParts
  <2>4. g.size = f.size \/ g.size = OffsetOf(i) + ISize
    BY <2>3 DEF Parts
  <2>5. OffsetOf(i) + ISize = OffsetOf(i + 1)
    BY <1>1, Offsets
  <2> QED BY <1>1, <2>2, <2>4, <2>5 DEF Whole
<1> QED BY <1>2, <1>3

\* A flush that leaves no gap replaces that inode and no other.
LEMMA PutStores ==
    ASSUME NEW f \in FileInode, Whole(f), NEW i \in Inums, NEW x \in Data(ISize),
           ~LeavesGap(f, i), NEW g, g = Put(f, i, x), NEW j \in Kept
    PROVE  Stored(g, j) = IF j = i THEN x ELSE Stored(f, j)
<1>1. /\ i \in Nat /\ j \in Nat /\ i + 1 \in Nat /\ j + 1 \in Nat
      /\ OffsetOf(i) \in Nat /\ OffsetOf(j) \in Nat
      /\ ISize \in Nat /\ ISize \in Nat \ {0}
  <2>1. i \in Nat /\ j \in Nat
    BY SizeOfInode, KeptRoom DEF Inums
  <2> QED BY <2>1, SizeOfInode, Offsets
<1>2. OffsetOf(j) + ISize <= Pos(NDirect, 0) /\ OffsetOf(j) + ISize <= MaxSize
  BY KeptRoom
<1>3. CASE TooBig(OffsetOf(i), ISize)
  <2>1. g = f
    BY <1>3 DEF Put
  <2>2. OffsetOf(i) + ISize > MaxSize
    BY <1>1, <1>3, TooBigSize
  <2>3. j # i
    BY <1>1, <1>2, <2>2, Bounds
  <2> QED BY <2>1, <2>3
<1>4. CASE ~TooBig(OffsetOf(i), ISize)
  <2>1. g = FileWrite(f, OffsetOf(i), ISize, x) /\ f.size \in Nat /\ OffsetOf(i) <= f.size
    BY <1>1, <1>4, SizeType DEF Put, LeavesGap
  <2>2. g \in FileInode
    BY PutType
  <2>3. g.size = IF OffsetOf(i) + ISize > f.size THEN OffsetOf(i) + ISize ELSE f.size
    <3>1. Parts(f, OffsetOf(i), ISize, x, g)
      BY <2>1, WriteParts
    <3> QED BY <3>1 DEF Parts
  <2>4. PICK m \in Nat : f.size = OffsetOf(m)
    BY SizeOfInode DEF Whole
  <2>5. ASSUME OffsetOf(j) + ISize <= g.size, NEW k \in 0 .. ISize - 1
        PROVE  Byte(g, OffsetOf(j) + k) = IF j = i THEN x[k] ELSE Byte(f, OffsetOf(j) + k)
    <3>1. PICK p : p = OffsetOf(j) + k
      OBVIOUS
    <3>2. /\ p \in Nat /\ p < Pos(NDirect, 0) /\ k \in Nat /\ k < ISize
          /\ (p < OffsetOf(i) + ISize \/ p < f.size)
      BY <1>1, <1>2, <2>1, <2>3, <2>5, <3>1, Bounds
    <3>3. Byte(g, p) = IF p \in OffsetOf(i) .. OffsetOf(i) + ISize - 1
                       THEN x[p - OffsetOf(i)] ELSE Byte(f, p)
      BY <1>1, <2>1, <3>2, WriteBytes
    <3>4. CASE j = i
      <4>1. p \in OffsetOf(i) .. OffsetOf(i) + ISize - 1 /\ p - OffsetOf(i) = k
        BY <1>1, <3>1, <3>2, <3>4
      <4> QED BY <3>1, <3>3, <3>4, <4>1
    <3>5. CASE j # i
      <4>1. OffsetOf(i) + ISize <= OffsetOf(j) \/ OffsetOf(j) + ISize <= OffsetOf(i)
        <5>1. i < j => OffsetOf(i + 1) <= OffsetOf(j)
          BY <1>1, OffsetOrder
        <5>2. j < i => OffsetOf(j + 1) <= OffsetOf(i)
          BY <1>1, OffsetOrder
        <5> QED BY <1>1, <3>5, <5>1, <5>2, Offsets
      <4>2. p \notin OffsetOf(i) .. OffsetOf(i) + ISize - 1
        BY <1>1, <3>1, <3>2, <4>1
      <4> QED BY <3>1, <3>3, <3>5, <4>2
    <3> QED BY <3>4, <3>5
  <2>6. CASE j = i
    <3>1. ~(OffsetOf(j) + ISize > g.size)
      BY <1>1, <2>1, <2>3, <2>6
    <3>2. OffsetOf(j) + ISize <= g.size
      BY <1>1, <2>1, <2>3, <2>6
    <3>3. Stored(g, j) = [k \in 0 .. ISize - 1 |-> Byte(g, OffsetOf(j) + k)]
      BY <1>1, <2>2, <3>1, StoredBytes
    <3>4. x = [k \in 0 .. ISize - 1 |-> x[k]]
      BY DEF Data
    <3> QED BY <2>5, <2>6, <3>2, <3>3, <3>4
  <2>7. CASE j # i
    <3>1. OffsetOf(j) + ISize > g.size <=> OffsetOf(j) + ISize > f.size
      <4>1. j < m <=> j + 1 <= m
        BY <1>1
      <4>2. i <= m
        BY <1>1, <2>1, <2>4, OffsetOrder
      <4>3. j + 1 <= m <=> OffsetOf(j + 1) <= OffsetOf(m)
        BY <1>1, OffsetOrder
      <4>4. j + 1 <= i + 1 <=> OffsetOf(j + 1) <= OffsetOf(i + 1)
        BY <1>1, OffsetOrder
      <4>5. OffsetOf(j + 1) = OffsetOf(j) + ISize /\ OffsetOf(i + 1) = OffsetOf(i) + ISize
        BY <1>1, Offsets
      <4>6. j + 1 <= i + 1 /\ i <= m => j + 1 <= m
        BY <1>1, <2>7
      <4> QED BY <1>1, <2>1, <2>3, <2>4, <4>2, <4>3, <4>4, <4>5, <4>6
    <3>2. CASE OffsetOf(j) + ISize > f.size
      BY <1>1, <2>2, <2>7, <3>1, <3>2, StoredBytes
    <3>3. CASE ~(OffsetOf(j) + ISize > f.size)
      <4>1. /\ Stored(f, j) = [k \in 0 .. ISize - 1 |-> Byte(f, OffsetOf(j) + k)]
            /\ Stored(g, j) = [k \in 0 .. ISize - 1 |-> Byte(g, OffsetOf(j) + k)]
        BY <1>1, <2>2, <3>1, <3>3, StoredBytes
      <4>2. OffsetOf(j) + ISize <= g.size
        BY <1>1, <2>1, <2>3, <3>1, <3>3
      <4> QED BY <2>5, <2>7, <4>1, <4>2
    <3> QED BY <3>2, <3>3
  <2> QED BY <2>6, <2>7
<1> QED BY <1>3, <1>4


-----------------------------------------------------------------------------
(* Types *)

LEMMA ImageType ==
    ASSUME NEW i \in Inums, NEW x \in Images[i]
    PROVE  x \in Data(ISize) /\ InUse(x) /\ x # NoInode
<1>1. x \in Data(ISize) /\ InUse(x)
  BY IfileAssumption
<1>2. ~InUse(NoInode)
  BY IfileAssumption DEF InUse, NoInode
<1> QED BY <1>1, <1>2

\* Get_New_Ino returns an inode that is free, or the number after the last.
LEMMA NewInode ==
    ASSUME length \in Nat
    PROVE  NewIno \in 0 .. length /\ (NewIno = length \/ ~InUse(inode[NewIno]))
<1> DEFINE S == {i \in 0 .. length : i = length \/ ~InUse(inode[i])}
<1>1. S \in SUBSET Nat /\ length \in S
  OBVIOUS
<1>2. PICK i \in S : \A j \in S : i <= j
  <2> HIDE DEF S
  <2> QED BY <1>1, LeastNatural
<1>3. /\ i \in 0 .. length
      /\ i = length \/ ~InUse(inode[i])
      /\ \A j \in 0 .. i - 1 : InUse(inode[j])
  <2>1. ASSUME NEW j \in 0 .. i - 1 PROVE InUse(inode[j])
    <3>1. j \notin S /\ j \in 0 .. length
      BY <1>2
    <3> QED BY <3>1
  <2> QED BY <1>2, <2>1
<1> QED BY <1>3 DEF NewIno

\* The ifile in use and the one of the checkpoint hold whole inodes.
Shape == TypeOK /\ Whole(file) /\ Whole(cp.file)

LEMMA NewWhole == NewFile \in FileInode /\ Whole(NewFile)
<1>1. OffsetOf(0) = 0 /\ 0 \in 0 .. NumInodes
  BY Offsets, SizeOfInode
<1> QED BY <1>1, NewFileType DEF Whole

LEMMA EmptyTable == Empty \in Table /\ NoInode \in Data(ISize)
BY OpsAssumption DEF Empty, Table, NoInode, Data

LEMMA ShapeInit == Init => Shape
<1> SUFFICES ASSUME Init PROVE Shape
  OBVIOUS
<1>1. /\ inode = Empty /\ length = 0 /\ file = NewFile /\ named = {}
      /\ cp = [file |-> NewFile, named |-> {}] /\ up = FALSE /\ gapped = FALSE
  BY DEF Init
<1>2. cp.file = NewFile /\ cp \in [file : FileInode, named : SUBSET Inums]
  BY <1>1, NewWhole
<1>3. 0 \in 0 .. NumInodes
  BY SizeOfInode
<1> QED BY <1>1, <1>2, <1>3, NewWhole, EmptyTable DEF Shape, TypeOK

LEMMA LongerType ==
    ASSUME TypeOK, NewIno < NumInodes
    PROVE  NewIno \in Inums /\ Longer(NewIno) \in 0 .. NumInodes
<1>1. length \in Nat /\ length \in 0 .. NumInodes /\ NumInodes \in Nat
  BY SizeOfInode DEF TypeOK
<1>2. NewIno \in 0 .. length
  BY <1>1, NewInode
<1>3. NewIno \in Inums
  BY <1>1, <1>2 DEF Inums
<1> QED BY <1>1, <1>2, <1>3 DEF Longer

LEMMA ShapeNext == Shape /\ [Next]_vars => Shape'
<1> SUFFICES ASSUME Shape, [Next]_vars PROVE Shape'
  OBVIOUS
<1>1. /\ inode \in Table /\ length \in 0 .. NumInodes /\ file \in FileInode
      /\ named \in SUBSET Inums /\ cp.file \in FileInode /\ cp.named \in SUBSET Inums
      /\ cp \in [file : FileInode, named : SUBSET Inums]
      /\ up \in BOOLEAN /\ gapped \in BOOLEAN /\ Whole(file) /\ Whole(cp.file)
  BY DEF Shape, TypeOK
<1>2. 0 \in Inums /\ 1 \in 0 .. NumInodes /\ ROOT \in Inums
  BY SizeOfInode DEF Inums, ROOT
<1>3. ASSUME UNCHANGED cp
      PROVE  Whole(cp'.file)
  BY <1>1, <1>3
<1>4. ASSUME Forget PROVE inode' \in Table /\ length' \in 0 .. NumInodes /\ file' \in FileInode
                          /\ named' \in SUBSET Inums /\ Whole(file')
  BY <1>4, NewWhole, EmptyTable, SizeOfInode DEF Forget
<1>5. CASE Mount
  <2>1. CASE LengthOf(cp.file) = 0
    <3>1. PICK x \in Images[ROOT] :
              /\ inode' = [Empty EXCEPT ![ROOT] = x]
              /\ length' = 1
              /\ file' = Put(cp.file, ROOT, x)
              /\ named' = {ROOT}
      BY <1>5, <2>1 DEF Mount
    <3>2. x \in Data(ISize)
      BY <1>2, ImageType
    <3>3. file' \in FileInode /\ Whole(file')
      BY <1>1, <1>2, <3>1, <3>2, PutType
    <3>4. inode' \in Table
      BY <3>1, <3>2, EmptyTable DEF Table
    <3> QED BY <1>1, <1>2, <1>5, <3>1, <3>3, <3>4 DEF Mount, Shape, TypeOK
  <2>2. CASE LengthOf(cp.file) # 0
    <3>1. /\ length' = LengthOf(cp.file)
          /\ inode' = [i \in Inums |-> IF i < length' THEN Stored(cp.file, i) ELSE NoInode]
          /\ file' = cp.file
          /\ named' = cp.named
      BY <1>5, <2>2 DEF Mount
    <3>2. length' \in 0 .. NumInodes
      <4>1. PICK m \in 0 .. NumInodes : cp.file.size = OffsetOf(m)
        BY <1>1 DEF Whole
      <4> QED BY <3>1, <4>1, LengthWhole, SizeOfInode
    <3>3. \A i \in Inums : Stored(cp.file, i) \in Data(ISize)
      BY <1>1, StoredBytes, SizeOfInode DEF Inums
    <3>4. inode' \in Table
      BY <3>1, <3>3, EmptyTable DEF Table
    <3> QED BY <1>1, <1>5, <3>1, <3>2, <3>4 DEF Mount, Shape, TypeOK
  <2> QED BY <2>1, <2>2
<1>6. CASE Unmount
  <2>1. cp' = [file |-> file, named |-> named] /\ up' = FALSE /\ gapped' = gapped
    BY <1>6 DEF Unmount
  <2>2. cp' \in [file : FileInode, named : SUBSET Inums] /\ Whole(cp'.file)
    BY <1>1, <2>1
  <2> QED BY <1>1, <1>4, <1>6, <2>1, <2>2 DEF Unmount, Shape, TypeOK
<1>7. CASE Crash
  BY <1>1, <1>4, <1>7 DEF Crash, Shape, TypeOK
<1>8. ASSUME NEW i \in Inums, NEW v \in Images[i], CreateTooLong(v) PROVE Shape'
  <2>1. NewIno \in Inums /\ Longer(NewIno) \in 0 .. NumInodes
    BY <1>8, LongerType DEF CreateTooLong, Shape
  <2>2. v \in Data(ISize)
    BY <1>8, ImageType
  <2>3. inode' \in Table /\ length' \in 0 .. NumInodes
    BY <1>1, <1>8, <2>1, <2>2 DEF CreateTooLong, Table
  <2> QED BY <1>1, <1>8, <2>3 DEF CreateTooLong, Shape, TypeOK
<1>9. ASSUME NEW i \in Inums, NEW v \in Images[i], Touch(i, v) PROVE Shape'
  <2>1. v \in Data(ISize)
    BY <1>9, ImageType
  <2>2. file' \in FileInode /\ Whole(file') /\ inode' \in Table
    BY <1>1, <1>9, <2>1, PutType DEF Touch, Table
  <2>3. gapped' \in BOOLEAN
    BY <1>9 DEF Touch
  <2> QED BY <1>1, <1>9, <2>2, <2>3 DEF Touch, Shape, TypeOK
<1>10. ASSUME NEW i \in Inums, NEW v \in Images[i], Change(i, v) PROVE Shape'
  <2>1. v \in Data(ISize)
    BY <1>10, ImageType
  <2>2. inode' \in Table
    BY <1>1, <1>10, <2>1 DEF Change, Table
  <2> QED BY <1>1, <1>10, <2>2 DEF Change, Shape, TypeOK
<1>11. ASSUME NEW i \in Inums, NEW v \in Images[i], NEW d \in Inums, NEW x \in Images[d],
              Create(d, x, v)
       PROVE  Shape'
  <2>1. NewIno \in Inums /\ Longer(NewIno) \in 0 .. NumInodes
    BY <1>11, LongerType DEF Create, Shape
  <2>2. v \in Data(ISize) /\ x \in Data(ISize)
    BY <1>11, ImageType
  <2>3. inode' \in Table
    BY <1>1, <1>11, <2>1, <2>2 DEF Create, Table
  <2>4. PICK g : g = Put(file, d, x)
    OBVIOUS
  <2>5. g \in FileInode /\ Whole(g)
    BY <1>1, <2>2, <2>4, PutType
  <2>6. file' = Put(g, NewIno, v)
    BY <1>11, <2>4 DEF Create
  <2>7. file' \in FileInode /\ Whole(file')
    BY <2>1, <2>2, <2>5, <2>6, PutType
  <2>8. gapped' \in BOOLEAN /\ named' \in SUBSET Inums /\ length' \in 0 .. NumInodes
    BY <1>1, <1>11, <2>1 DEF Create
  <2> QED BY <1>1, <1>11, <2>3, <2>7, <2>8 DEF Create, Shape, TypeOK
<1>12. ASSUME NEW i \in Inums, NEW v \in Images[i], NEW d \in Inums, NEW x \in Images[d],
              Delete(d, x, i)
       PROVE  Shape'
  <2>1. x \in Data(ISize)
    BY <1>12, ImageType
  <2>2. file' \in FileInode /\ Whole(file')
    BY <1>1, <1>12, <2>1, PutType DEF Delete
  <2>3. inode' \in Table
    BY <1>1, <1>12, <2>1, EmptyTable DEF Delete, Table
  <2>4. gapped' \in BOOLEAN /\ named' \in SUBSET Inums
    BY <1>1, <1>12 DEF Delete
  <2> QED BY <1>1, <1>12, <2>2, <2>3, <2>4 DEF Delete, Shape, TypeOK
<1>13. CASE UNCHANGED vars
  BY <1>1, <1>13 DEF vars, Shape, TypeOK
<1> QED BY <1>5, <1>6, <1>7, <1>8, <1>9, <1>10, <1>11, <1>12, <1>13 DEF Next

\* TypeOK, and with it that the ifile ends where an inode ends, the one in use
\* and the one the checkpoint leads to, and holds no more inodes than the table
\* has: whatever was flushed, refused, put at the wrong place or lost in a
\* crash, filesize / sizeof(Inode) is a whole number at the next mount
\* (Flush_Ino, Expand_Ifile, Dir_Layer_Init).
THEOREM TypesHold == Spec => [](TypeOK /\ Whole(file) /\ Whole(cp.file))
<1>1. Shape => TypeOK /\ Whole(file) /\ Whole(cp.file)
  BY DEF Shape
<1> QED BY <1>1, ShapeInit, ShapeNext, PTL DEF Spec

-----------------------------------------------------------------------------
(* Every inode with a name is stored *)

InMemory(t, N) == \A i \in N \cap Kept : t[i] \in Images[i]
InFile(f, N)   == \A i \in N \cap Kept : Stored(f, i) \in Images[i]

LEMMA NamedStoredIs ==
    NamedStored <=> (~gapped => InMemory(inode, named) /\ InFile(file, named)
                                /\ InFile(cp.file, cp.named))
BY DEF NamedStored, InMemory, InFile

\* A flush stores one inode and keeps the others.
LEMMA PutInFile ==
    ASSUME NEW f \in FileInode, Whole(f), NEW i \in Inums, NEW x \in Images[i],
           ~LeavesGap(f, i), NEW g, g = Put(f, i, x), NEW N, InFile(f, N)
    PROVE  InFile(g, N \cup {i})
<1>1. x \in Data(ISize)
  BY ImageType
<1>2. \A j \in Kept : Stored(g, j) = IF j = i THEN x ELSE Stored(f, j)
  BY <1>1, PutStores
<1> QED BY <1>2 DEF InFile

LEMMA StoreInMemory ==
    ASSUME NEW t \in Table, NEW i \in Inums, NEW x \in Images[i], NEW N, InMemory(t, N)
    PROVE  InMemory([t EXCEPT ![i] = x], N \cup {i})
BY DEF InMemory, Table, Kept

LEMMA Fewer ==
    ASSUME NEW M, NEW N, M \subseteq N
    PROVE  /\ \A t : InMemory(t, N) => InMemory(t, M)
           /\ \A f : InFile(f, N) => InFile(f, M)
BY DEF InMemory, InFile

LEMMA NoNames == /\ \A t : InMemory(t, {})
                 /\ \A f : InFile(f, {})
BY DEF InMemory, InFile

\* Nothing is stored in an empty file, and no gap is left at its beginning.
LEMMA EmptyFile ==
    ASSUME NEW f \in FileInode, Whole(f), LengthOf(f) = 0
    PROVE  f.size = 0 /\ ~LeavesGap(f, ROOT) /\ \A i \in Nat : Stored(f, i) = NoInode
<1>1. PICK m \in 0 .. NumInodes : f.size = OffsetOf(m)
  BY DEF Whole
<1>2. m = 0
  BY <1>1, LengthWhole, SizeOfInode
<1>3. f.size = 0
  BY <1>1, <1>2, Offsets
<1>4. ~LeavesGap(f, ROOT)
  BY <1>3, Offsets DEF LeavesGap, ROOT
<1>5. ASSUME NEW i \in Nat PROVE Stored(f, i) = NoInode
  <2>1. OffsetOf(i) + ISize > f.size
    BY <1>3, Offsets, SizeOfInode
  <2> QED BY <2>1, StoredBytes
<1> QED BY <1>3, <1>4, <1>5

\* What a mount reads: an inode past the length is one of zeros in the file, too.
LEMMA MountReads ==
    ASSUME NEW f \in FileInode, Whole(f), NEW i \in Inums
    PROVE  ~(i < LengthOf(f)) => Stored(f, i) = NoInode
<1>1. PICK m \in 0 .. NumInodes : f.size = OffsetOf(m)
  BY DEF Whole
<1>2. LengthOf(f) = m /\ m \in Nat /\ i \in Nat
  BY <1>1, LengthWhole, SizeOfInode DEF Inums
<1>3. ASSUME m <= i PROVE Stored(f, i) = NoInode
  <2>1. OffsetOf(m) <= OffsetOf(i) /\ OffsetOf(m) \in Nat /\ OffsetOf(i) \in Nat
    BY <1>2, <1>3, OffsetOrder, Offsets
  <2>2. OffsetOf(i) + ISize > f.size
    BY <1>1, <2>1, SizeOfInode
  <2> QED BY <1>2, <2>2, StoredBytes
<1> QED BY <1>2, <1>3

\* The promise is not taken up again.
LEMMA GapStays == gapped /\ [Next]_vars => gapped'
<1> SUFFICES ASSUME gapped, [Next]_vars PROVE gapped'
  OBVIOUS
<1>1. CASE Mount
  BY <1>1 DEF Mount
<1>2. CASE Unmount
  BY <1>2 DEF Unmount
<1>3. CASE Crash
  BY <1>3 DEF Crash
<1>4. ASSUME NEW i \in Inums, NEW v \in Images[i],
             CreateTooLong(v) \/ Touch(i, v) \/ Change(i, v)
      PROVE  gapped'
  BY <1>4 DEF CreateTooLong, Touch, Change
<1>5. ASSUME NEW i \in Inums, NEW v \in Images[i], NEW d \in Inums, NEW x \in Images[d],
             Create(d, x, v) \/ Delete(d, x, i)
      PROVE  gapped'
  BY <1>5 DEF Create, Delete
<1>6. CASE UNCHANGED vars
  BY <1>6 DEF vars
<1> QED BY <1>1, <1>2, <1>3, <1>4, <1>5, <1>6 DEF Next

LEMMA StoredInit == Init => NamedStored
<1> SUFFICES ASSUME Init PROVE NamedStored
  OBVIOUS
<1>1. named = {} /\ cp = [file |-> NewFile, named |-> {}]
  BY DEF Init
<1>2. cp.named = {}
  BY <1>1
<1> QED BY <1>1, <1>2, NoNames, NamedStoredIs

LEMMA StoredNext == Shape /\ NamedStored /\ [Next]_vars => NamedStored'
<1> SUFFICES ASSUME Shape, NamedStored, [Next]_vars, ~gapped'
             PROVE  /\ InMemory(inode', named') /\ InFile(file', named')
                    /\ InFile(cp'.file, cp'.named)
  BY DEF NamedStored, InMemory, InFile
<1>1. /\ inode \in Table /\ file \in FileInode /\ cp.file \in FileInode
      /\ named \in SUBSET Inums /\ cp.named \in SUBSET Inums
      /\ Whole(file) /\ Whole(cp.file) /\ length \in 0 .. NumInodes /\ length \in Nat
  BY SizeOfInode DEF Shape, TypeOK
<1>2. ~gapped
  BY GapStays
<1>3. InMemory(inode, named) /\ InFile(file, named) /\ InFile(cp.file, cp.named)
  BY <1>2, NamedStoredIs
<1>4. ROOT \in Inums
  BY SizeOfInode DEF Inums, ROOT
<1>5. CASE Mount
  <2>1. cp' = cp
    BY <1>5 DEF Mount
  <2>2. CASE LengthOf(cp.file) = 0
    <3>1. PICK x \in Images[ROOT] :
              /\ inode' = [Empty EXCEPT ![ROOT] = x]
              /\ file' = Put(cp.file, ROOT, x)
              /\ named' = {ROOT}
      BY <1>5, <2>2 DEF Mount
    <3>2. ~LeavesGap(cp.file, ROOT)
      BY <1>1, <2>2, EmptyFile
    <3>3. InFile(file', {} \cup {ROOT})
      BY <1>1, <1>4, <3>1, <3>2, NoNames, PutInFile
    <3>4. InMemory(inode', {} \cup {ROOT})
      BY <1>4, <3>1, EmptyTable, NoNames, StoreInMemory
    <3> QED BY <1>3, <2>1, <3>1, <3>3, <3>4
  <2>3. CASE LengthOf(cp.file) # 0
    <3>1. /\ inode' = [i \in Inums |-> IF i < LengthOf(cp.file) THEN Stored(cp.file, i) ELSE NoInode]
          /\ file' = cp.file
          /\ named' = cp.named
      BY <1>5, <2>3 DEF Mount
    <3>2. \A i \in Inums : inode'[i] = Stored(cp.file, i)
      BY <1>1, <3>1, MountReads
    <3>3. InMemory(inode', named')
      BY <1>1, <1>3, <3>1, <3>2 DEF InMemory, InFile
    <3> QED BY <1>3, <2>1, <3>1, <3>3
  <2> QED BY <2>2, <2>3
<1>6. CASE Unmount
  <2>1. cp' = [file |-> file, named |-> named] /\ named' = {}
    BY <1>6 DEF Unmount, Forget
  <2>2. cp'.file = file /\ cp'.named = named
    BY <2>1
  <2> QED BY <1>3, <2>1, <2>2, NoNames
<1>7. CASE Crash
  <2>1. cp' = cp /\ named' = {}
    BY <1>7 DEF Crash, Forget
  <2> QED BY <1>3, <2>1, NoNames
<1>8. ASSUME NEW i \in Inums, NEW v \in Images[i], CreateTooLong(v)
      PROVE  /\ InMemory(inode', named') /\ InFile(file', named')
             /\ InFile(cp'.file, cp'.named)
  <2>1. /\ file' = file /\ cp' = cp /\ named' = named
        /\ inode' = [inode EXCEPT ![NewIno] = v] /\ NewIno < NumInodes /\ v \in Images[NewIno]
    BY <1>8 DEF CreateTooLong
  <2>2. NewIno \in Inums
    BY <2>1, LongerType DEF Shape
  <2>3. InMemory(inode', named \cup {NewIno})
    BY <1>1, <1>3, <2>1, <2>2, StoreInMemory
  <2>4. InMemory(inode', named)
    BY <2>3, Fewer
  <2> QED BY <1>3, <2>1, <2>4
<1>9. ASSUME NEW i \in Inums, NEW v \in Images[i], Touch(i, v)
      PROVE  /\ InMemory(inode', named') /\ InFile(file', named')
             /\ InFile(cp'.file, cp'.named)
  <2>1. /\ cp' = cp /\ named' = named /\ i \in named /\ ~LeavesGap(file, i)
        /\ inode' = [inode EXCEPT ![i] = v] /\ file' = Put(file, i, v)
    BY <1>9 DEF Touch
  <2>2. named \cup {i} = named
    BY <2>1
  <2>3. InMemory(inode', named \cup {i})
    BY <1>1, <1>3, <2>1, StoreInMemory
  <2>4. InFile(file', named \cup {i})
    BY <1>1, <1>3, <2>1, PutInFile
  <2> QED BY <1>3, <2>1, <2>2, <2>3, <2>4
<1>10. ASSUME NEW i \in Inums, NEW v \in Images[i], Change(i, v)
       PROVE  /\ InMemory(inode', named') /\ InFile(file', named')
              /\ InFile(cp'.file, cp'.named)
  <2>1. /\ cp' = cp /\ named' = named /\ i \in named
        /\ inode' = [inode EXCEPT ![i] = v] /\ file' = file
    BY <1>10 DEF Change
  <2>2. named \cup {i} = named
    BY <2>1
  <2>3. InMemory(inode', named \cup {i})
    BY <1>1, <1>3, <2>1, StoreInMemory
  <2> QED BY <1>3, <2>1, <2>2, <2>3
<1>11. ASSUME NEW i \in Inums, NEW v \in Images[i], NEW d \in Inums, NEW x \in Images[d],
              Create(d, x, v)
       PROVE  /\ InMemory(inode', named') /\ InFile(file', named')
              /\ InFile(cp'.file, cp'.named)
  <2>1. PICK n : n = NewIno
    OBVIOUS
  <2>2. PICK g : g = Put(file, d, x)
    OBVIOUS
  <2>3. /\ cp' = cp /\ named' = named \cup {n} /\ d \in named
        /\ inode' = [inode EXCEPT ![d] = x, ![n] = v] /\ v \in Images[n] /\ n < NumInodes
        /\ file' = Put(g, n, v) /\ ~LeavesGap(file, d) /\ ~LeavesGap(g, n)
    BY <1>11, <2>1, <2>2 DEF Create
  <2>4. n \in Inums
    BY <2>1, <2>3, LongerType DEF Shape
  <2>5. g \in FileInode /\ Whole(g)
    BY <1>1, <2>2, ImageType, PutType
  <2>6. InFile(g, named)
    <3>1. InFile(g, named \cup {d})
      BY <1>1, <1>3, <2>2, <2>3, PutInFile
    <3> QED BY <3>1, Fewer
  <2>7. InFile(file', named \cup {n})
    BY <2>3, <2>4, <2>5, <2>6, PutInFile
  <2>8. PICK t : t = [inode EXCEPT ![d] = x]
    OBVIOUS
  <2>9. t \in Table
    BY <1>1, <2>8, ImageType DEF Table
  <2>10. InMemory(t, named)
    <3>1. InMemory(t, named \cup {d})
      BY <1>1, <1>3, <2>8, StoreInMemory
    <3> QED BY <3>1, Fewer
  <2>11. inode' = [t EXCEPT ![n] = v]
    BY <2>3, <2>8
  <2>12. InMemory(inode', named \cup {n})
    <3>1. InMemory([t EXCEPT ![n] = v], named \cup {n})
      BY <2>3, <2>4, <2>9, <2>10, StoreInMemory
    <3> QED BY <2>11, <3>1
  <2> QED BY <1>3, <2>3, <2>7, <2>12
<1>12. ASSUME NEW i \in Inums, NEW v \in Images[i], NEW d \in Inums, NEW x \in Images[d],
              Delete(d, x, i)
       PROVE  /\ InMemory(inode', named') /\ InFile(file', named')
              /\ InFile(cp'.file, cp'.named)
  <2>1. /\ cp' = cp /\ named' = named \ {i} /\ {d, i} \subseteq named /\ i # d
        /\ inode' = [inode EXCEPT ![d] = x, ![i] = NoInode]
        /\ file' = Put(file, d, x) /\ ~LeavesGap(file, d)
    BY <1>12 DEF Delete
  <2>2. InFile(file', named \cup {d}) /\ named \ {i} \subseteq named \cup {d}
    BY <1>1, <1>3, <2>1, PutInFile
  <2>3. InFile(file', named \ {i})
    BY <2>2, Fewer
  <2>4. InMemory(inode', named \ {i})
    BY <1>1, <1>3, <2>1 DEF InMemory, Table
  <2> QED BY <1>3, <2>1, <2>3, <2>4
<1>13. CASE UNCHANGED vars
  BY <1>3, <1>13 DEF vars
<1> QED BY <1>5, <1>6, <1>7, <1>8, <1>9, <1>10, <1>11, <1>12, <1>13 DEF Next

\* NamedStored: every inode that has a name is a whole inode in memory, in the
\* ifile of the log and in the one that the checkpoint leads to, as long as no
\* inode was flushed past the end of the ifile (Flush_Ino, Dir_Layer_Init).
THEOREM NamesAreStored == Spec => []NamedStored
<1>1. Init => Shape /\ NamedStored
  BY ShapeInit, StoredInit
<1>2. Shape /\ NamedStored /\ [Next]_vars => Shape' /\ NamedStored'
  BY ShapeNext, StoredNext
<1> QED BY <1>1, <1>2, PTL DEF Spec


-----------------------------------------------------------------------------
(* The table of inodes *)

InMem(t) == [i \in Kept |-> t[i]]
OnLog(f)  == [i \in Kept |-> Stored(f, i)]

LEMMA NewFileReads == OnLog(NewFile) = T!Blank /\ InMem(Empty) = T!Blank
<1>1. \A i \in Kept : i \in Nat /\ i \in Inums
  BY KeptRoom
<1>2. OffsetOf(0) = 0 /\ NewFile.size = OffsetOf(0)
  BY Offsets, NewFileType
<1>3. LengthOf(NewFile) = 0
  BY <1>2, LengthWhole
<1>4. \A i \in Kept : Stored(NewFile, i) = NoInode
  BY <1>1, <1>3, NewWhole, EmptyFile
<1> QED BY <1>1, <1>4 DEF OnLog, InMem, T!Blank, Empty

\* A flush is one of the inode as it is in memory.
LEMMA PutIsFlush ==
    ASSUME NEW f \in FileInode, Whole(f), NEW i \in Inums, NEW x \in Images[i],
           ~LeavesGap(f, i), NEW g, g = Put(f, i, x)
    PROVE  \A j \in Kept : OnLog(g)[j] = IF j = i THEN x ELSE OnLog(f)[j]
<1>1. \A j \in Kept : Stored(g, j) = IF j = i THEN x ELSE Stored(f, j)
  BY ImageType, PutStores
<1> QED BY <1>1 DEF OnLog

\* An operation
LEMMA Operates ==
    ASSUME up, up' = up, gapped' = gapped, cp' = cp,
           \A j \in Kept : OnLog(file')[j] = OnLog(file)[j] \/ OnLog(file')[j] = InMem(inode')[j]
    PROVE  T!Operate
BY DEF T!Operate, OnLog, InMem, KeptOf

LEMMA Stops ==
    ASSUME up, up' = FALSE, gapped' = gapped, Forget
    PROVE  T!Stop
<1>1. inode' = Empty /\ file' = NewFile
  BY DEF Forget
<1> QED BY <1>1, NewFileReads DEF T!Stop, OnLog, InMem, KeptOf

LEMMA TableNext == Shape /\ [Next]_vars => [T!Next]_(T!vars)
<1> SUFFICES ASSUME Shape, [Next]_vars PROVE [T!Next]_(T!vars)
  OBVIOUS
<1>1. /\ inode \in Table /\ file \in FileInode /\ cp.file \in FileInode
      /\ Whole(file) /\ Whole(cp.file) /\ up \in BOOLEAN /\ gapped \in BOOLEAN
  BY DEF Shape, TypeOK
<1>2. gapped' \in BOOLEAN
  BY ShapeNext DEF Shape, TypeOK
<1>3. CASE gapped
  <2>1. gapped'
    BY <1>3, GapStays
  <2> QED BY <1>1, <1>2, <1>3, <2>1 DEF T!Next
<1>4. CASE ~gapped /\ gapped'
  BY <1>4 DEF T!Next, T!GiveUp
<1>5. ASSUME ~gapped, ~gapped', Mount
      PROVE  T!Start
  <2>1. ~up /\ up' = TRUE /\ cp' = cp /\ gapped' = gapped
    BY <1>5 DEF Mount
  <2>2. ROOT \in Inums /\ \A i \in Kept : i \in Inums /\ i \in Nat
    BY SizeOfInode, KeptRoom DEF Inums, ROOT
  <2>3. CASE LengthOf(cp.file) = 0
    <3>1. PICK x \in Images[ROOT] :
              inode' = [Empty EXCEPT ![ROOT] = x] /\ file' = Put(cp.file, ROOT, x)
      BY <1>5, <2>3 DEF Mount
    <3>2. \A i \in Kept : OnLog(cp.file)[i] = NoInode
      BY <1>1, <2>2, <2>3, EmptyFile DEF OnLog
    <3>3. \A i \in Kept : OnLog(file')[i] = IF i = ROOT THEN x ELSE NoInode
      BY <1>1, <2>2, <2>3, <3>1, <3>2, EmptyFile, PutIsFlush
    <3>4. \A i \in Kept : InMem(inode')[i] = IF i = ROOT THEN x ELSE NoInode
      BY <2>2, <3>1 DEF InMem, Empty
    <3>5. InMem(inode') = OnLog(file')
      <4>1. \A i \in Kept : inode'[i] = Stored(file', i)
        BY <3>3, <3>4 DEF InMem, OnLog
      <4> QED BY <4>1 DEF InMem, OnLog
    <3>6. OnLog(cp.file) = T!Blank
      BY <3>2 DEF OnLog, T!Blank
    <3>7. ROOT \notin Kept => OnLog(file') = OnLog(cp.file)
      <4>1. ASSUME ROOT \notin Kept PROVE \A i \in Kept : Stored(file', i) = Stored(cp.file, i)
        BY <3>2, <3>3, <4>1 DEF OnLog
      <4> QED BY <4>1 DEF OnLog
    <3>8. ROOT \in Kept => OnLog(file') = [T!Blank EXCEPT ![0] = x]
      <4>1. OnLog(file') = [i \in Kept |-> OnLog(file')[i]]
        BY DEF OnLog
      <4> QED BY <3>3, <4>1 DEF T!Blank, ROOT
    <3>9. ROOT \in Kept => x \in UNION {Images[i] : i \in Kept}
      OBVIOUS
    <3> QED BY <2>1, <3>5, <3>6, <3>7, <3>8, <3>9 DEF T!Start, OnLog, InMem, KeptOf
  <2>4. CASE LengthOf(cp.file) # 0
    <3>1. /\ inode' = [i \in Inums |-> IF i < LengthOf(cp.file) THEN Stored(cp.file, i) ELSE NoInode]
          /\ file' = cp.file
      BY <1>5, <2>4 DEF Mount
    <3>2. \A i \in Kept : inode'[i] = Stored(file', i)
      BY <1>1, <2>2, <3>1, MountReads
    <3>3. InMem(inode') = OnLog(file') /\ OnLog(file') = OnLog(cp.file)
      BY <3>1, <3>2 DEF InMem, OnLog
    <3> QED BY <2>1, <3>3 DEF T!Start, OnLog, InMem, KeptOf
  <2> QED BY <2>3, <2>4
<1>6. ASSUME ~gapped, ~gapped', Unmount
      PROVE  T!Save
  <2>1. /\ up /\ up' = FALSE /\ Forget /\ gapped' = gapped
        /\ cp' = [file |-> file, named |-> named]
    BY <1>6 DEF Unmount
  <2>2. cp'.file = file
    BY <2>1
  <2> QED BY <2>1, <2>2, Stops DEF T!Save, KeptOf
<1>7. ASSUME ~gapped, ~gapped', Crash
      PROVE  T!Fail
  <2>1. up /\ up' = FALSE /\ Forget /\ gapped' = gapped /\ cp' = cp
    BY <1>7 DEF Crash
  <2> QED BY <2>1, Stops DEF T!Fail, KeptOf
<1>8. ASSUME ~gapped, ~gapped', NEW i \in Inums, NEW v \in Images[i],
             CreateTooLong(v) \/ Change(i, v)
      PROVE  T!Operate
  <2>1. up /\ up' = up /\ gapped' = gapped /\ cp' = cp /\ file' = file
    BY <1>8 DEF CreateTooLong, Change
  <2> QED BY <2>1, Operates
<1>9. ASSUME ~gapped, ~gapped', NEW i \in Inums, NEW v \in Images[i], Touch(i, v)
      PROVE  T!Operate
  <2>1. /\ up /\ up' = up /\ cp' = cp /\ ~LeavesGap(file, i)
        /\ inode' = [inode EXCEPT ![i] = v] /\ file' = Put(file, i, v)
    BY <1>9 DEF Touch
  <2>2. \A j \in Kept : OnLog(file')[j] = IF j = i THEN v ELSE OnLog(file)[j]
    BY <1>1, <2>1, PutIsFlush
  <2>3. i \in Kept => InMem(inode')[i] = v
    BY <1>1, <2>1 DEF InMem, Table
  <2> QED BY <1>1, <1>2, <1>9, <2>1, <2>2, <2>3, Operates
<1>10. ASSUME ~gapped, ~gapped', NEW i \in Inums, NEW v \in Images[i],
              NEW d \in Inums, NEW x \in Images[d], Create(d, x, v)
       PROVE  T!Operate
  <2>1. PICK n : n = NewIno
    OBVIOUS
  <2>2. PICK g : g = Put(file, d, x)
    OBVIOUS
  <2>3. /\ up /\ up' = up /\ cp' = cp /\ ~LeavesGap(file, d) /\ ~LeavesGap(g, n)
        /\ inode' = [inode EXCEPT ![d] = x, ![n] = v] /\ v \in Images[n] /\ n < NumInodes
        /\ file' = Put(g, n, v)
    BY <1>10, <2>1, <2>2 DEF Create
  <2>4. n \in Inums
    BY <2>1, <2>3, LongerType DEF Shape
  <2>5. g \in FileInode /\ Whole(g)
    BY <1>1, <2>2, ImageType, PutType
  <2>6. \A j \in Kept : OnLog(g)[j] = IF j = d THEN x ELSE OnLog(file)[j]
    BY <1>1, <2>2, <2>3, PutIsFlush
  <2>7. \A j \in Kept : OnLog(file')[j] = IF j = n THEN v ELSE OnLog(g)[j]
    BY <2>3, <2>4, <2>5, PutIsFlush
  <2>8. /\ n \in Kept => InMem(inode')[n] = v
        /\ d \in Kept /\ d # n => InMem(inode')[d] = x
    BY <1>1, <2>3, <2>4 DEF InMem, Table
  <2>9. \A j \in Kept : OnLog(file')[j] = OnLog(file)[j] \/ OnLog(file')[j] = InMem(inode')[j]
    BY <2>6, <2>7, <2>8
  <2> QED BY <1>1, <1>2, <1>10, <2>3, <2>9, Operates
<1>11. ASSUME ~gapped, ~gapped', NEW i \in Inums, NEW v \in Images[i],
              NEW d \in Inums, NEW x \in Images[d], Delete(d, x, i)
       PROVE  T!Operate
  <2>1. /\ up /\ up' = up /\ cp' = cp /\ ~LeavesGap(file, d) /\ i # d
        /\ inode' = [inode EXCEPT ![d] = x, ![i] = NoInode] /\ file' = Put(file, d, x)
    BY <1>11 DEF Delete
  <2>2. \A j \in Kept : OnLog(file')[j] = IF j = d THEN x ELSE OnLog(file)[j]
    BY <1>1, <2>1, PutIsFlush
  <2>3. d \in Kept => InMem(inode')[d] = x
    BY <1>1, <2>1 DEF InMem, Table
  <2> QED BY <1>1, <1>2, <1>11, <2>1, <2>2, <2>3, Operates
<1>12. CASE UNCHANGED vars
  BY <1>12 DEF vars, T!vars, KeptOf
<1>13. CASE ~gapped /\ ~gapped' /\ Next
  BY <1>5, <1>6, <1>7, <1>8, <1>9, <1>10, <1>11, <1>13 DEF Next, T!Next
<1> QED BY <1>1, <1>2, <1>3, <1>4, <1>12, <1>13

\* ImplementsInodeTable: a flush replaces one inode, whole, and no other; a mount
\* returns them as the last clean unmount has left them; until an inode is
\* flushed past the end of the ifile (Flush_Ino, Dir_Layer_Init, LFS_Destroy).
THEOREM InodesAreImplemented == Spec => ImplementsInodeTable
<1>1. Init => T!Init
  <2> SUFFICES ASSUME Init PROVE T!Init
    OBVIOUS
  <2>1. /\ inode = Empty /\ file = NewFile /\ cp.file = NewFile /\ up = FALSE /\ gapped = FALSE
    BY DEF Init
  <2> QED BY <2>1, NewFileReads DEF T!Init, OnLog, InMem, KeptOf
<1>2. Shape /\ [Next]_vars => [T!Next]_(T!vars)
  BY TableNext
<1>3. Init => Shape
  BY ShapeInit
<1>4. Shape /\ [Next]_vars => Shape'
  BY ShapeNext
<1> QED BY <1>1, <1>2, <1>3, <1>4, PTL DEF Spec, T!Spec, ImplementsInodeTable
=============================================================================
