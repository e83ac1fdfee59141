---------------------------- MODULE FileOpsProofs ----------------------------
(***************************************************************************)
(* Lemmas about the block arithmetic of FileOps, for blocks of any size    *)
(* and any number of them: what a read, a write and a truncation are, said *)
(* of the bytes of the file.                                               *)
(***************************************************************************)
EXTENDS FileOps, TLAPS

(* The bytes of a file, numbered from 0, and those of its blocks.  All the *)
(* multiplications and divisions are in this part.                         *)

Pos(b, j)  == b * BS + j
InBlock(n) == n % BS

LEMMA BlockSize == BS \in Nat /\ BS >= 1 /\ NDirect \in Nat /\ NDirect >= 1 /\ NIndirect \in Nat
BY OpsAssumption

\* A position is a number, and moves with the place in the block.
LEMMA PosMoves ==
    ASSUME NEW b \in Int, NEW j \in Int
    PROVE  /\ Pos(b, j) \in Int /\ Pos(b, 0) \in Int
           /\ Pos(b, j) = Pos(b, 0) + j
           /\ Pos(b + 1, 0) = Pos(b, 0) + BS
           /\ b \in Nat => Pos(b, 0) \in Nat
<1> DEFINE x == b * BS
           y == (b + 1) * BS
<1>1. x \in Int /\ y = x + BS /\ (b \in Nat => x \in Nat)
  BY BlockSize, Z3
<1>2. Pos(b, j) = x + j /\ Pos(b, 0) = x + 0 /\ Pos(b + 1, 0) = y + 0
  BY DEF Pos
<1> HIDE DEF x, y
<1> QED BY <1>1, <1>2, BlockSize

LEMMA PosDifference ==
    ASSUME NEW b \in Int, NEW c \in Int
    PROVE  (b - c) * BS = Pos(b, 0) - Pos(c, 0)
<1>1. (b - c) * BS = b * BS - c * BS /\ b * BS \in Int /\ c * BS \in Int
  BY BlockSize, Z3
<1>2. Pos(b, 0) = b * BS + 0 /\ Pos(c, 0) = c * BS + 0
  BY DEF Pos
<1> QED BY <1>1, <1>2

LEMMA PosSum ==
    ASSUME NEW b \in Int, NEW c \in Int
    PROVE  Pos(b + c, 0) = Pos(b, 0) + Pos(c, 0)
<1>1. (b + c) * BS = b * BS + c * BS /\ b * BS \in Int /\ c * BS \in Int
  BY BlockSize, Z3
<1>2. Pos(b, 0) = b * BS + 0 /\ Pos(c, 0) = c * BS + 0 /\ Pos(b + c, 0) = (b + c) * BS + 0
  BY DEF Pos
<1> QED BY <1>1, <1>2

\* Later blocks begin later.
LEMMA PosGrows ==
    ASSUME NEW b \in Int, NEW c \in Int, b <= c
    PROVE  Pos(b, 0) <= Pos(c, 0)
<1>1. PICK d \in Nat : c = b + d
  BY c - b \in Nat, c = b + (c - b)
<1>2. Pos(c, 0) = Pos(b, 0) + Pos(d, 0) /\ Pos(d, 0) \in Nat /\ Pos(b, 0) \in Int
  BY <1>1, PosSum, PosMoves
<1> QED BY <1>2

\* A byte of block b lies before block c exactly if b comes before c.
LEMMA BlockLess ==
    ASSUME NEW b \in Int, NEW c \in Int, NEW j \in 0 .. BS - 1
    PROVE  Pos(b, j) < Pos(c, 0) <=> b < c
<1>1. /\ j \in Int /\ 0 <= j /\ j < BS
      /\ Pos(b, 0) \in Int /\ Pos(c, 0) \in Int
      /\ Pos(b, j) = Pos(b, 0) + j
      /\ Pos(b + 1, 0) = Pos(b, 0) + BS
  BY BlockSize, PosMoves
<1>2. b < c => Pos(b + 1, 0) <= Pos(c, 0)
  BY PosGrows
<1>3. c <= b => Pos(c, 0) <= Pos(b, 0)
  BY PosGrows
<1> QED BY <1>1, <1>2, <1>3, BlockSize

\* The block and the place of a byte
LEMMA Place ==
    ASSUME NEW n \in Nat
    PROVE  /\ BlockOf(n) \in Nat /\ InBlock(n) \in 0 .. BS - 1
           /\ Pos(BlockOf(n), InBlock(n)) = n
<1> DEFINE q == n \div BS
           r == n % BS
           x == q * BS
           y == BS * q
<1>1. n = y + r /\ r \in 0 .. BS - 1 /\ q \in Int
  BY OpsAssumption, Z3
<1>2. q \in Nat
  BY <1>1, BlockSize, SMT
<1>3. x = y
  BY <1>2, BlockSize, Z3
<1>4. BlockOf(n) = q /\ InBlock(n) = r /\ Pos(q, r) = x + r
  BY DEF BlockOf, InBlock, Pos
<1> HIDE DEF q, r, x, y
<1> QED BY <1>1, <1>2, <1>3, <1>4

LEMMA PlaceUnique ==
    ASSUME NEW b \in Nat, NEW j \in 0 .. BS - 1
    PROVE  Pos(b, j) \in Nat /\ BlockOf(Pos(b, j)) = b /\ InBlock(Pos(b, j)) = j
<1>1. PICK n : n = Pos(b, j)
  OBVIOUS
<1>2. /\ n \in Nat /\ n = Pos(b, 0) + j /\ j \in Int /\ Pos(b, 0) \in Nat
      /\ 0 <= j /\ j < BS
  BY <1>1, PosMoves, BlockSize
<1>3. PICK c, k : c = BlockOf(n) /\ k = InBlock(n)
  OBVIOUS
<1>4. /\ c \in Nat /\ k \in 0 .. BS - 1 /\ n = Pos(c, k)
      /\ n = Pos(c, 0) + k /\ Pos(c, 0) \in Nat
  <2>1. c \in Nat /\ k \in 0 .. BS - 1 /\ n = Pos(c, k)
    BY <1>2, <1>3, Place
  <2>2. k \in Int
    BY <2>1, BlockSize
  <2> QED BY <2>1, <2>2, PosMoves
<1>5. ~(b < c)
  <2>1. b \in Int /\ c \in Int
    BY <1>4
  <2>2. Pos(b, j) < Pos(c, 0) <=> b < c
    BY <2>1, BlockLess
  <2>3. Pos(c, 0) <= n
    BY <1>4, BlockSize
  <2> QED BY <1>1, <1>2, <1>4, <2>2, <2>3
<1>6. ~(c < b)
  <2>1. b \in Int /\ c \in Int /\ k \in 0 .. BS - 1
    BY <1>4
  <2>2. Pos(c, k) < Pos(b, 0) <=> c < b
    BY <2>1, BlockLess
  <2> QED BY <1>2, <1>4, <2>2, BlockSize
<1>7. b = c
  BY <1>4, <1>5, <1>6
<1>8. j = k
  BY <1>2, <1>4, <1>7, BlockSize
<1> QED BY <1>1, <1>2, <1>3, <1>7, <1>8

\* Bytes in order lie in blocks in order.
LEMMA BlockOrder ==
    ASSUME NEW m \in Nat, NEW n \in Nat
    PROVE  /\ m <= n => BlockOf(m) <= BlockOf(n)
           /\ \A c \in Nat : BlockOf(m) < c <=> m < Pos(c, 0)
<1>1. PICK b, j : b = BlockOf(m) /\ j = InBlock(m)
  OBVIOUS
<1>2. b \in Nat /\ j \in 0 .. BS - 1 /\ m = Pos(b, j)
  BY <1>1, Place
<1>3. \A c \in Nat : b < c <=> m < Pos(c, 0)
  BY <1>2, BlockLess
<1>4. PICK c, k : c = BlockOf(n) /\ k = InBlock(n)
  OBVIOUS
<1>5. c \in Nat /\ k \in 0 .. BS - 1 /\ n = Pos(c, k)
  BY <1>4, Place
<1>6. c < b <=> n < Pos(b, 0)
  BY <1>2, <1>5, BlockLess
<1>7. Pos(b, 0) <= m /\ Pos(b, 0) \in Int
  <2>1. m = Pos(b, 0) + j /\ Pos(b, 0) \in Int /\ j >= 0 /\ j \in Int
    BY <1>2, PosMoves, BlockSize
  <2> QED BY <2>1
<1>8. m <= n => ~(c < b)
  BY <1>6, <1>7
<1> QED BY <1>1, <1>2, <1>3, <1>4, <1>5, <1>8

\* The block of the last of n bytes
LEMMA LastBlock ==
    ASSUME NEW n \in Nat
    PROVE  /\ LastBlockOf(n) \in Nat
           /\ n # 0 => LastBlockOf(n) = BlockOf(n - 1)
           /\ n = 0 => LastBlockOf(n) = 0
<1>1. PICK b, j : b = BlockOf(n) /\ j = InBlock(n)
  OBVIOUS
<1>2. b \in Nat /\ j \in 0 .. BS - 1 /\ n = Pos(b, j)
  BY <1>1, Place
<1>3. n = Pos(b, 0) + j /\ Pos(b, 0) \in Nat /\ j \in Nat
  BY <1>2, PosMoves, BlockSize
<1>4. LastBlockOf(n) = IF j = 0 /\ n # 0 THEN b - 1 ELSE b
  BY <1>1 DEF LastBlockOf, BlockOf, InBlock
<1>5. CASE n = 0
  <2>1. b = 0
    <3>1. ~(0 < b)
      <4>1. 0 < b => Pos(0 + 1, 0) <= Pos(b, 0)
        BY <1>2, PosGrows
      <4>2. Pos(0 + 1, 0) = Pos(0, 0) + BS /\ Pos(0, 0) \in Nat
        BY PosMoves
      <4> QED BY <1>3, <1>5, <4>1, <4>2, BlockSize
    <3> QED BY <1>2, <3>1
  <2> QED BY <1>4, <1>5, <2>1
<1>6. CASE n # 0 /\ j # 0
  <2>1. j - 1 \in 0 .. BS - 1 /\ j - 1 \in Int
    BY <1>2, <1>6, BlockSize
  <2>2. n - 1 = Pos(b, j - 1)
    <3>1. Pos(b, j - 1) = Pos(b, 0) + (j - 1)
      BY <1>2, <2>1, PosMoves
    <3> QED BY <1>3, <3>1
  <2>3. BlockOf(n - 1) = b
    BY <1>2, <2>1, <2>2, PlaceUnique
  <2> QED BY <1>2, <1>4, <1>6, <2>3
<1>7. CASE n # 0 /\ j = 0
  <2>1. b # 0
    <3>1. Pos(0, 0) = 0 * BS + 0
      BY DEF Pos
    <3>2. 0 * BS + 0 = 0
      BY BlockSize, Z3
    <3> QED BY <1>3, <1>7, <3>1, <3>2
  <2>2. b - 1 \in Nat /\ b - 1 \in Int /\ BS - 1 \in 0 .. BS - 1 /\ BS - 1 \in Int
    BY <1>2, <2>1, BlockSize
  <2>3. n - 1 = Pos(b - 1, BS - 1)
    <3>1. PICK c \in Int : c = b - 1 /\ b = c + 1
      BY <1>2, <2>2
    <3>2. Pos(c, BS - 1) = Pos(c, 0) + (BS - 1) /\ Pos(c + 1, 0) = Pos(c, 0) + BS
          /\ Pos(c, 0) \in Int
      BY <2>2, PosMoves
    <3> QED BY <1>3, <1>7, <3>1, <3>2, BlockSize
  <2>4. BlockOf(n - 1) = b - 1
    BY <2>2, <2>3, PlaceUnique
  <2> QED BY <1>4, <1>7, <2>2, <2>4
<1> QED BY <1>3, <1>5, <1>6, <1>7

-----------------------------------------------------------------------------
(* The bytes of a file *)

Byte(f, p) == Fetched(f, BlockOf(p))[InBlock(p)]

LEMMA FetchedBlock ==
    ASSUME NEW f \in FileInode, NEW b \in Nat
    PROVE  /\ Fetched(f, b) \in Block
           /\ b < NDirect => f.blk[b] \in Block \cup {Free}
           /\ b < NDirect /\ f.blk[b] # Free => Fetched(f, b) = f.blk[b]
<1>1. Zeros \in Block
  BY OpsAssumption DEF Zeros, Block
<1>2. b < NDirect => f.blk[b] \in Block \cup {Free}
  BY BlockSize DEF FileInode
<1>3. ~(b >= NDirect) <=> b < NDirect
  BY BlockSize
<1> QED BY <1>1, <1>2, <1>3 DEF Fetched

LEMMA ByteType ==
    ASSUME NEW f \in FileInode, NEW p \in Nat
    PROVE  Byte(f, p) \in Bytes
<1>1. BlockOf(p) \in Nat /\ InBlock(p) \in 0 .. BS - 1
  BY Place
<1>2. Fetched(f, BlockOf(p)) \in Block
  BY <1>1, FetchedBlock
<1> QED BY <1>1, <1>2 DEF Byte, Block

\* Past the direct blocks every byte is read as 0.
LEMMA ByteBeyond ==
    ASSUME NEW f, NEW p \in Nat, Pos(NDirect, 0) <= p
    PROVE  Byte(f, p) = 0
<1>1. BlockOf(p) \in Nat /\ InBlock(p) \in 0 .. BS - 1 /\ Pos(NDirect, 0) \in Nat
  BY Place, PosMoves, BlockSize
<1>2. BlockOf(p) < NDirect <=> p < Pos(NDirect, 0)
  BY BlockSize, BlockOrder
<1>3. BlockOf(p) >= NDirect
  BY <1>1, <1>2, BlockSize
<1> QED BY <1>1, <1>3 DEF Byte, Fetched, Zeros

\* A byte some way on from another one
LEMMA PlaceOn ==
    ASSUME NEW n \in Nat, NEW i \in Nat
    PROVE  /\ BlockOf(n + i) = BlockOf(n) + BlockOf(InBlock(n) + i)
           /\ InBlock(n + i) = InBlock(InBlock(n) + i)
<1>1. PICK b, k : b = BlockOf(n) /\ k = InBlock(n)
  OBVIOUS
<1>2. b \in Nat /\ k \in Nat /\ n = Pos(b, k)
  BY <1>1, Place, BlockSize
<1>3. PICK c, l : c = BlockOf(k + i) /\ l = InBlock(k + i)
  OBVIOUS
<1>4. k + i \in Nat
  BY <1>2
<1>5. c \in Nat /\ l \in 0 .. BS - 1 /\ k + i = Pos(c, l)
  BY <1>3, <1>4, Place
<1>6. /\ n = Pos(b, 0) + k /\ Pos(b, 0) \in Nat
      /\ k + i = Pos(c, 0) + l /\ Pos(c, 0) \in Nat
      /\ l \in Nat
  BY <1>2, <1>5, PosMoves, BlockSize
<1>7. Pos(b + c, l) = Pos(b, 0) + Pos(c, 0) + l
  <2>1. Pos(b + c, l) = Pos(b + c, 0) + l
    BY <1>2, <1>5, <1>6, PosMoves
  <2>2. Pos(b + c, 0) = Pos(b, 0) + Pos(c, 0)
    BY <1>2, <1>5, PosSum
  <2> QED BY <2>1, <2>2
<1>8. n + i = Pos(b + c, l)
  BY <1>2, <1>6, <1>7
<1>9. BlockOf(n + i) = b + c /\ InBlock(n + i) = l
  BY <1>2, <1>5, <1>8, PlaceUnique
<1> QED BY <1>1, <1>3, <1>9

\* File_Read returns the bytes from off on, as many as there are.
LEMMA ReadBytes ==
    ASSUME NEW f \in FileInode, NEW off \in Nat, NEW len \in Nat
    PROVE  /\ f.size \in Nat /\ ReadLength(f, off, len) \in 0 .. len
           /\ FileRead(f, off, len) =
                  [i \in 0 .. ReadLength(f, off, len) - 1 |-> Byte(f, off + i)]
           /\ FileRead(f, off, len) \in Data(ReadLength(f, off, len))
<1>1. f.size \in Nat
  <2>1. MaxSize \in Int
    BY BlockSize, Z3 DEF MaxSize, MaxBlocks
  <2> QED BY <2>1 DEF FileInode
<1>2. ReadLength(f, off, len) \in 0 .. len
  BY <1>1 DEF ReadLength
<1> DEFINE L == ReadLength(f, off, len)
<1>3. FileRead(f, off, len) =
          [i \in 0 .. L - 1 |->
              Fetched(f, BlockOf(off) + BlockOf(InBlock(off) + i))[InBlock(InBlock(off) + i)]]
  BY Zenon DEF FileRead, InBlock
<1> HIDE DEF L
<1>4. \A i \in 0 .. L - 1 :
          Fetched(f, BlockOf(off) + BlockOf(InBlock(off) + i))[InBlock(InBlock(off) + i)]
              = Byte(f, off + i)
  <2>1. \A i \in 0 .. L - 1 : i \in Nat
    BY <1>2 DEF L
  <2> QED BY <2>1, PlaceOn DEF Byte
<1>5. FileRead(f, off, len) = [i \in 0 .. L - 1 |-> Byte(f, off + i)]
  BY <1>3, <1>4
<1>6. \A i \in 0 .. L - 1 : Byte(f, off + i) \in Bytes
  <2>1. \A i \in 0 .. L - 1 : off + i \in Nat
    BY <1>2 DEF L
  <2> QED BY <2>1, ByteType
<1>7. FileRead(f, off, len) \in Data(L)
  BY <1>5, <1>6 DEF Data
<1> QED BY <1>1, <1>2, <1>5, <1>7 DEF L

-----------------------------------------------------------------------------
(* What File_Write makes of a file *)

EndBlock(off, len) == LastBlockOf(off + len)

\* A byte of writeBuffer: the caller's, or one that was there
Buffered(f, off, len, data, b, j) ==
    LET p == (b - StartBlock(f, off)) * BS + j - InBlock(off)
    IN  IF p \in 0 .. len - 1 THEN data[p]
        ELSE Slots(f, StartBlock(f, off), EndBlock(off, len), b - StartBlock(f, off))[j]

Buffer(f, off, len, data, b) == [j \in 0 .. BS - 1 |-> Buffered(f, off, len, data, b, j)]

\* The fields of the inode that it leaves
Parts(f, off, len, data, g) ==
    /\ g.size = (IF off + len > f.size THEN off + len ELSE f.size)
    /\ \A b \in 0 .. NDirect - 1 :
           g.blk[b] = IF b \in StartBlock(f, off) .. EndBlock(off, len)
                      THEN Buffer(f, off, len, data, b) ELSE f.blk[b]
    /\ g.blk = [b \in 0 .. NDirect - 1 |-> g.blk[b]]
    /\ g = [size |-> g.size, blk |-> g.blk]

LEMMA WriteParts ==
    ASSUME NEW f, NEW off, NEW len, NEW data, NEW g, g = FileWrite(f, off, len, data)
    PROVE  Parts(f, off, len, data, g)
<1> DEFINE size == IF off + len > f.size THEN off + len ELSE f.size
           B(b) == IF b \in StartBlock(f, off) .. EndBlock(off, len)
                   THEN Buffer(f, off, len, data, b) ELSE f.blk[b]
<1>1. g = [size |-> size, blk |-> [b \in 0 .. NDirect - 1 |-> B(b)]]
  BY Zenon DEF FileWrite, Buffered, Buffer, EndBlock, InBlock
<1> HIDE DEF size, B
<1>2. /\ g.size = size
      /\ \A b \in 0 .. NDirect - 1 : g.blk[b] = B(b)
      /\ g.blk = [b \in 0 .. NDirect - 1 |-> g.blk[b]]
      /\ g = [size |-> g.size, blk |-> g.blk]
  BY <1>1
<1> QED BY <1>2, Zenon DEF size, B, Parts

LEMMA SlotsBlock ==
    ASSUME NEW f \in FileInode, NEW s \in Nat, NEW e \in Nat, NEW k \in Int
    PROVE  Slots(f, s, e, k) \in Block
<1>1. Zeros \in Block
  BY OpsAssumption DEF Zeros, Block
<1>2. LastBlockOf(f.size) \in Nat
  BY ReadBytes, LastBlock
<1>3. Fetched(f, s) \in Block /\ Fetched(f, e) \in Block /\ Fetched(f, LastBlockOf(f.size)) \in Block
  BY <1>2, FetchedBlock
<1> QED BY <1>1, <1>3 DEF Slots

\* File_Write refuses what ends past the largest size, and that only.
LEMMA TooBigSize ==
    ASSUME NEW off \in Nat, NEW len \in Nat \ {0}
    PROVE  /\ TooBig(off, len) <=> off + len > MaxSize
           /\ EndBlock(off, len) = BlockOf(off + len - 1) /\ EndBlock(off, len) \in Nat
           /\ MaxSize = Pos(MaxBlocks, 0) /\ MaxSize \in Nat /\ MaxBlocks \in Nat
<1>1. MaxBlocks \in Nat
  BY BlockSize DEF MaxBlocks
<1>2. MaxSize = Pos(MaxBlocks, 0) /\ MaxSize \in Nat
  <2>1. MaxSize \in Nat
    BY <1>1, BlockSize, Z3 DEF MaxSize
  <2>2. Pos(MaxBlocks, 0) = MaxSize + 0
    BY DEF Pos, MaxSize
  <2> QED BY <2>1, <2>2
<1>3. off + len # 0 /\ off + len \in Nat /\ off + len - 1 \in Nat
  OBVIOUS
<1>4. EndBlock(off, len) = BlockOf(off + len - 1) /\ EndBlock(off, len) \in Nat
  BY <1>3, LastBlock DEF EndBlock
<1>5. BlockOf(off + len - 1) < MaxBlocks <=> off + len - 1 < Pos(MaxBlocks, 0)
  BY <1>1, <1>3, BlockOrder
<1>6. TooBig(off, len) <=> ~(EndBlock(off, len) < MaxBlocks)
  BY <1>1, <1>4 DEF TooBig, EndBlock
<1> QED BY <1>1, <1>2, <1>3, <1>4, <1>5, <1>6

LEMMA Bounds ==
    /\ MaxSize = Pos(MaxBlocks, 0) /\ MaxSize \in Nat /\ MaxBlocks \in Nat
    /\ Pos(NDirect, 0) \in Nat
<1>1. 0 \in Nat /\ 1 \in Nat \ {0}
  OBVIOUS
<1>2. NDirect \in Int /\ NDirect \in Nat
  BY BlockSize
<1>3. Pos(NDirect, 0) \in Nat
  BY <1>2, PosMoves
<1> QED BY <1>1, <1>3, TooBigSize

LEMMA StartBlockType ==
    ASSUME NEW f \in FileInode, NEW off \in Nat
    PROVE  StartBlock(f, off) \in Nat
BY ReadBytes, LastBlock, Place DEF StartBlock

LEMMA BufferBlock ==
    ASSUME NEW f \in FileInode, NEW off \in Nat, NEW len \in Nat \ {0}, NEW data \in Data(len),
           NEW b \in Int
    PROVE  Buffer(f, off, len, data, b) \in Block
<1> DEFINE s == StartBlock(f, off)
           e == EndBlock(off, len)
<1>1. s \in Nat /\ e \in Nat
  BY StartBlockType, TooBigSize
<1>2. Slots(f, s, e, b - s) \in Block
  BY <1>1, SlotsBlock
<1>3. \A p \in 0 .. len - 1 : data[p] \in Bytes
  BY DEF Data
<1>4. \A j \in 0 .. BS - 1 : Slots(f, s, e, b - s)[j] \in Bytes
  BY <1>2 DEF Block
<1>5. \A j \in 0 .. BS - 1 : Buffered(f, off, len, data, b, j) \in Bytes
  BY <1>3, <1>4 DEF Buffered
<1> QED BY <1>5 DEF Buffer, Block

LEMMA WriteType ==
    ASSUME NEW f \in FileInode, NEW off \in Nat, NEW len \in Nat \ {0}, NEW data \in Data(len),
           off + len <= MaxSize,
           NEW g, g = FileWrite(f, off, len, data)
    PROVE  g \in FileInode
<1> DEFINE s == StartBlock(f, off)
           e == EndBlock(off, len)
<1>1. s \in Nat /\ e \in Nat
  BY StartBlockType, TooBigSize
<1>2. /\ g.size = (IF off + len > f.size THEN off + len ELSE f.size)
      /\ \A b \in 0 .. NDirect - 1 :
             g.blk[b] = IF b \in s .. e THEN Buffer(f, off, len, data, b) ELSE f.blk[b]
      /\ g.blk = [b \in 0 .. NDirect - 1 |-> g.blk[b]]
      /\ g = [size |-> g.size, blk |-> g.blk]
  <2>1. Parts(f, off, len, data, g)
    BY WriteParts
  <2> QED BY <2>1, Zenon DEF Parts
<1> HIDE DEF s, e
<1>3. g.size \in 0 .. MaxSize
  <2>1. f.size \in 0 .. MaxSize
    BY DEF FileInode
  <2>2. MaxSize \in Nat
    BY TooBigSize
  <2> QED BY <1>2, <2>1, <2>2
<1>4. ASSUME NEW b \in 0 .. NDirect - 1
      PROVE  g.blk[b] \in Block \cup {Free}
  <2>1. Buffer(f, off, len, data, b) \in Block
    BY BufferBlock
  <2>2. f.blk[b] \in Block \cup {Free}
    BY DEF FileInode
  <2> QED BY <1>2, <2>1, <2>2, Zenon
<1>5. g.blk \in [0 .. NDirect - 1 -> Block \cup {Free}]
  BY <1>2, <1>4
<1> QED BY <1>2, <1>3, <1>5 DEF FileInode

\* The place in the caller's buffer of a byte of writeBuffer
LEMMA BufferPlace ==
    ASSUME NEW off \in Nat, NEW p \in Nat
    PROVE  (BlockOf(p) - BlockOf(off)) * BS + InBlock(p) - InBlock(off) = p - off
<1>1. PICK b, j, s, k : b = BlockOf(p) /\ j = InBlock(p) /\ s = BlockOf(off) /\ k = InBlock(off)
  OBVIOUS
<1>2. b \in Nat /\ j \in Nat /\ p = Pos(b, j)
  BY <1>1, Place, BlockSize
<1>3. s \in Nat /\ k \in Nat /\ off = Pos(s, k)
  BY <1>1, Place, BlockSize
<1>4. p = Pos(b, 0) + j /\ Pos(b, 0) \in Int
  BY <1>2, PosMoves
<1>5. off = Pos(s, 0) + k /\ Pos(s, 0) \in Int
  BY <1>3, PosMoves
<1>6. (b - s) * BS = Pos(b, 0) - Pos(s, 0)
  BY <1>2, <1>3, PosDifference
<1>7. (b - s) * BS + j - k = p - off
  <2> DEFINE x == (b - s) * BS
  <2>1. x = Pos(b, 0) - Pos(s, 0)
    BY <1>6
  <2> HIDE DEF x
  <2>2. x + j - k = p - off
    BY <1>2, <1>3, <1>4, <1>5, <2>1
  <2> QED BY <2>2 DEF x
<1> QED BY <1>1, <1>7

\* A write that does not begin past the end leaves the caller's bytes where
\* they belong, and every other byte of the file as it was, as far as the
\* direct blocks go.
LEMMA WriteBytes ==
    ASSUME NEW f \in FileInode, NEW off \in Nat, NEW len \in Nat \ {0}, NEW data \in Data(len),
           off <= f.size,
           NEW g, g = FileWrite(f, off, len, data),
           NEW p \in Nat, p < Pos(NDirect, 0), p < off + len \/ p < f.size
    PROVE  Byte(g, p) = IF p \in off .. off + len - 1 THEN data[p - off] ELSE Byte(f, p)
<1>1. PICK b, j, s, e : /\ b = BlockOf(p) /\ j = InBlock(p)
                        /\ s = BlockOf(off) /\ e = BlockOf(off + len - 1)
  OBVIOUS
<1>2. b \in Nat /\ j \in 0 .. BS - 1 /\ s \in Nat /\ e \in Nat /\ f.size \in Nat
  BY <1>1, Place, ReadBytes
<1>3. b < NDirect
  BY <1>1, BlockOrder, BlockSize
<1>4. StartBlock(f, off) = s /\ EndBlock(off, len) = e
  <2>1. EndBlock(off, len) = e
    BY <1>1, TooBigSize
  <2>2. ~(f.size < off)
    BY <1>2
  <2> QED BY <1>1, <2>1, <2>2 DEF StartBlock
<1>5. /\ b \in 0 .. NDirect - 1
      /\ g.blk[b] = IF b \in s .. e THEN Buffer(f, off, len, data, b) ELSE f.blk[b]
  <2>1. Parts(f, off, len, data, g)
    BY WriteParts
  <2>2. b \in 0 .. NDirect - 1
    BY <1>2, <1>3, BlockSize
  <2> QED BY <1>4, <2>1, <2>2 DEF Parts
<1>6. /\ p >= off => b >= s
      /\ p < off + len => b <= e
      /\ p < off => b <= s
      /\ p >= off + len => b >= e
  BY <1>1, BlockOrder
<1>7. CASE b \notin s .. e
  <2>1. p \notin off .. off + len - 1
    BY <1>2, <1>6, <1>7
  <2>2. Fetched(g, b) = Fetched(f, b)
    BY <1>5, <1>7 DEF Fetched
  <2> QED BY <1>1, <2>1, <2>2 DEF Byte
<1>8. CASE b \in s .. e
  <2>1. Fetched(g, b) = Buffer(f, off, len, data, b)
    <3>1. Buffer(f, off, len, data, b) # Free
      BY <1>2, BufferBlock, FreeAssumption
    <3>2. ~(b >= NDirect)
      BY <1>2, <1>3, BlockSize
    <3> QED BY <1>5, <1>8, <3>1, <3>2 DEF Fetched
  <2>2. Byte(g, p) = Buffered(f, off, len, data, b, j)
    BY <1>1, <1>2, <2>1 DEF Byte, Buffer
  <2>3. (b - s) * BS + j - InBlock(off) = p - off
    BY <1>1, BufferPlace
  <2>4. Byte(g, p) = IF p - off \in 0 .. len - 1 THEN data[p - off]
                     ELSE Slots(f, s, e, b - s)[j]
    BY <1>4, <2>2, <2>3, Zenon DEF Buffered
  <2>5. p - off \in 0 .. len - 1 <=> p \in off .. off + len - 1
    OBVIOUS
  <2>6. ASSUME p \notin off .. off + len - 1
        PROVE  Slots(f, s, e, b - s) = Fetched(f, b)
    <3>1. p < f.size /\ (b = s \/ b = e)
      BY <1>2, <1>6, <1>8, <2>6
    <3>2. PICK last : last = LastBlockOf(f.size)
      OBVIOUS
    <3>3. last \in Nat /\ last >= b
      <4>1. f.size # 0 /\ f.size - 1 \in Nat /\ p <= f.size - 1
        BY <1>2, <3>1
      <4>2. last = BlockOf(f.size - 1) /\ last \in Nat
        BY <1>2, <3>2, <4>1, LastBlock
      <4> QED BY <1>1, <4>1, <4>2, BlockOrder
    <3>4. ~(last < s)
      BY <1>2, <1>8, <3>3
    <3>5. CASE b = s
      <4>1. b - s = 0
        BY <1>2, <3>5
      <4> QED BY <3>2, <3>4, <3>5, <4>1 DEF Slots
    <3>6. CASE b # s
      <4>1. b = e /\ b - s # 0 /\ b - s = e - s
        BY <1>2, <3>1, <3>6
      <4>2. (IF last > e THEN e ELSE last) = e
        BY <1>2, <3>3, <4>1
      <4> QED BY <3>2, <3>4, <4>1, <4>2 DEF Slots
    <3> QED BY <3>5, <3>6
  <2>7. Byte(f, p) = Fetched(f, b)[j]
    BY <1>1 DEF Byte
  <2> QED BY <2>4, <2>5, <2>6, <2>7
<1> QED BY <1>7, <1>8


-----------------------------------------------------------------------------
(* What File_Truncate makes of a file *)

\* Two files agree on the bytes before n.
SameUpto(f, g, n) == \A p \in 0 .. n - 1 : Byte(g, p) = Byte(f, p)

\* The cut block is written back as it was up to the cut.
LEMMA CutBytes ==
    ASSUME NEW f \in FileInode, NEW n \in Nat, n < f.size,
           NEW g, g = CutBlock(f, n)
    PROVE  g \in FileInode /\ SameUpto(f, g, n)
<1>1. CASE n % BS = 0
  <2>1. g = f
    BY <1>1 DEF CutBlock
  <2> QED BY <2>1 DEF SameUpto
<1>2. CASE n % BS # 0
  <2>1. PICK c, k : c = BlockOf(n) /\ k = InBlock(n)
    OBVIOUS
  <2>2. c \in Nat /\ k \in 0 .. BS - 1 /\ n = Pos(c, k) /\ k # 0
    BY <1>2, <2>1, Place DEF InBlock
  <2>3. PICK start : start = Pos(c, 0)
    OBVIOUS
  <2>4. start \in Nat /\ n = start + k /\ Pos(c + 1, 0) = start + BS /\ k \in Nat
    BY <2>2, <2>3, PosMoves, BlockSize
  <2>5. BlockOf(n) * BS = start
    <3>1. c * BS \in Nat
      BY <2>2, BlockSize, Z3
    <3>2. Pos(c, 0) = c * BS + 0
      BY DEF Pos
    <3> QED BY <2>1, <2>3, <3>1, <3>2
  <2>6. start + BS <= MaxSize
    <3>1. f.size \in Nat /\ f.size <= MaxSize
      BY Bounds DEF FileInode
    <3>2. MaxSize = Pos(MaxBlocks, 0) /\ MaxSize \in Nat /\ MaxBlocks \in Nat
      BY Bounds
    <3>3. c < MaxBlocks
      BY <2>1, <3>1, <3>2, BlockOrder
    <3>4. Pos(c + 1, 0) <= Pos(MaxBlocks, 0)
      BY <2>2, <3>2, <3>3, PosGrows
    <3> QED BY <2>4, <3>2, <3>4
  <2>7. PICK head : head = FileRead(f, start, n - start)
    OBVIOUS
  <2>8. n - start = k
    BY <2>4
  <2>9. /\ head = [i \in 0 .. k - 1 |-> Byte(f, start + i)]
        /\ head \in Data(k) /\ f.size \in Nat
    <3>1. ReadLength(f, start, k) = k
      BY <2>4, ReadBytes DEF ReadLength
    <3>2. head = FileRead(f, start, k)
      BY <2>7, <2>8
    <3>3. /\ FileRead(f, start, k) = [i \in 0 .. ReadLength(f, start, k) - 1 |-> Byte(f, start + i)]
          /\ FileRead(f, start, k) \in Data(ReadLength(f, start, k))
          /\ f.size \in Nat
      BY <2>4, ReadBytes
    <3> QED BY <3>1, <3>2, <3>3
  <2>10. PICK data : data = [j \in 0 .. BS - 1 |-> IF j < k THEN head[j] ELSE 0]
    OBVIOUS
  <2>11. data \in Data(BS)
    <3>1. \A j \in 0 .. BS - 1 : (IF j < k THEN head[j] ELSE 0) \in Bytes
      BY <2>4, <2>9, OpsAssumption DEF Data
    <3> QED BY <2>10, <3>1 DEF Data
  <2>12. g = FileWrite(f, start, BS, data)
    <3>1. g = FileWrite(f, start, BS,
                       [j \in 0 .. BS - 1 |-> IF j < n - start THEN head[j] ELSE 0])
      BY <1>2, <2>5, <2>7, Zenon DEF CutBlock
    <3> QED BY <2>8, <2>10, <3>1
  <2>13. BS \in Nat \ {0}
    BY OpsAssumption
  <2>14. g \in FileInode
    BY <2>4, <2>6, <2>11, <2>12, <2>13, WriteType
  <2>15. ASSUME NEW p \in 0 .. n - 1
         PROVE  Byte(g, p) = Byte(f, p)
    <3>1. p \in Nat /\ p < n
      BY <2>15
    <3>2. CASE p < Pos(NDirect, 0)
      <4>1. start <= f.size /\ p < f.size
        BY <2>4, <2>9, <3>1
      <4>2. Byte(g, p) = IF p \in start .. start + BS - 1 THEN data[p - start] ELSE Byte(f, p)
        BY <2>4, <2>11, <2>12, <2>13, <3>1, <3>2, <4>1, WriteBytes
      <4>3. ASSUME p \in start .. start + BS - 1
            PROVE  data[p - start] = Byte(f, p)
        <5>1. PICK i : i = p - start
          OBVIOUS
        <5>2. i \in 0 .. k - 1 /\ i \in 0 .. BS - 1 /\ i < k /\ start + i = p
          BY <2>2, <2>4, <3>1, <4>3, <5>1, BlockSize
        <5>3. data[i] = head[i] /\ head[i] = Byte(f, start + i)
          BY <2>9, <2>10, <5>2
        <5> QED BY <5>1, <5>2, <5>3
      <4> QED BY <4>2, <4>3
    <3>3. CASE Pos(NDirect, 0) <= p
      BY <3>1, <3>3, ByteBeyond
    <3>4. Pos(NDirect, 0) \in Nat
      BY Bounds
    <3> QED BY <3>1, <3>2, <3>3, <3>4
  <2> QED BY <2>14, <2>15 DEF SameUpto
<1> QED BY <1>1, <1>2

\* A shorter file has the bytes it had.
LEMMA TruncateBytes ==
    ASSUME NEW f \in FileInode, NEW n \in Nat, n < f.size,
           NEW h, h = FileTruncate(f, n)
    PROVE  h \in FileInode /\ h.size = n /\ SameUpto(f, h, n)
<1>1. PICK g : g = CutBlock(f, n)
  OBVIOUS
<1>2. g \in FileInode /\ SameUpto(f, g, n)
  BY <1>1, CutBytes
<1>3. PICK first : first = (IF n % BS = 0 THEN BlockOf(n) ELSE BlockOf(n) + 1)
  OBVIOUS
<1>4. PICK blk : blk = (IF first * BS > g.size THEN g.blk
                        ELSE [b \in 0 .. NDirect - 1 |-> IF b >= first THEN Free ELSE g.blk[b]])
  OBVIOUS
<1>5. h = [size |-> n, blk |-> blk]
  BY <1>1, <1>3, <1>4, Zenon DEF FileTruncate
<1>6. BlockOf(n) \in Nat /\ first \in Nat
  BY <1>3, Place
<1>7. g.blk \in [0 .. NDirect - 1 -> Block \cup {Free}]
  BY <1>2 DEF FileInode
<1>8. \A b \in 0 .. NDirect - 1 : b < first => blk[b] = g.blk[b]
  BY <1>4, <1>6, BlockSize
<1>9. blk \in [0 .. NDirect - 1 -> Block \cup {Free}]
  BY <1>4, <1>7
<1>10. h \in FileInode
  <2>1. n \in 0 .. MaxSize
    BY Bounds DEF FileInode
  <2> QED BY <1>5, <1>9, <2>1 DEF FileInode
<1>11. ASSUME NEW p \in 0 .. n - 1
       PROVE  Byte(h, p) = Byte(f, p)
  <2>1. p \in Nat /\ p <= n /\ p < n
    BY <1>11
  <2>2. BlockOf(p) \in Nat /\ BlockOf(p) < first
    <3>1. BlockOf(p) \in Nat /\ BlockOf(p) <= BlockOf(n)
      BY <2>1, Place, BlockOrder
    <3>2. ASSUME n % BS = 0
          PROVE  BlockOf(p) < BlockOf(n)
      <4>1. Pos(BlockOf(n), 0) = n
        BY <3>2, Place DEF InBlock
      <4> QED BY <1>6, <2>1, <4>1, BlockOrder
    <3> QED BY <1>3, <1>6, <3>1, <3>2
  <2>3. Fetched(h, BlockOf(p)) = Fetched(g, BlockOf(p))
    <3>1. BlockOf(p) < NDirect => h.blk[BlockOf(p)] = g.blk[BlockOf(p)]
      BY <1>5, <1>8, <2>2, BlockSize
    <3>2. BlockOf(p) < NDirect <=> ~(BlockOf(p) >= NDirect)
      BY <2>2, BlockSize
    <3> QED BY <3>1, <3>2 DEF Fetched
  <2>4. Byte(g, p) = Byte(f, p)
    BY <1>2, <1>11 DEF SameUpto
  <2> QED BY <2>3, <2>4 DEF Byte
<1> QED BY <1>5, <1>10, <1>11 DEF SameUpto

-----------------------------------------------------------------------------
(* A file as a run of bytes *)

Contents(f) == [i \in 0 .. f.size - 1 |-> Byte(f, i)]

LEMMA SizeType == ASSUME NEW f \in FileInode PROVE f.size \in 0 .. MaxSize /\ f.size \in Nat
BY Bounds DEF FileInode

LEMMA WholeRead ==
    ASSUME NEW f \in FileInode
    PROVE  FileRead(f, 0, f.size) = Contents(f)
<1>1. f.size \in Nat
  BY SizeType
<1>2. ReadLength(f, 0, f.size) = f.size
  BY <1>1 DEF ReadLength
<1>3. FileRead(f, 0, f.size) = [i \in 0 .. f.size - 1 |-> Byte(f, 0 + i)]
  BY <1>1, <1>2, ReadBytes
<1>4. \A i \in 0 .. f.size - 1 : 0 + i = i
  BY <1>1
<1> QED BY <1>3, <1>4 DEF Contents

LEMMA NewFileType == NewFile \in FileInode /\ NewFile.size = 0
BY Bounds DEF NewFile, FileInode

LEMMA WriteKind ==
    ASSUME NEW f \in FileInode, NEW off \in Nat, NEW len \in Nat \ {0}, NEW data \in Data(len),
           ~TooBig(off, len)
    PROVE  FileWrite(f, off, len, data) \in FileInode /\ off + len <= MaxSize
<1>1. off + len <= MaxSize
  BY TooBigSize, Bounds
<1> QED BY <1>1, WriteType
=============================================================================
