---------------------------- MODULE FormatProofs ----------------------------
(***************************************************************************)
(* Theorems about Format, for all options.  First the arithmetic of        *)
(* Log_Create, then the inductive invariant: mklfs writes the segments in  *)
(* order, each as what its number makes it, so the flash is known from the *)
(* options and from the number of the next segment.                        *)
(***************************************************************************)
EXTENDS Format, TLAPS

\* Division with remainder, for a divisor that is not a numeral.
LEMMA DivMod ==
    ASSUME NEW a \in Nat, NEW b \in Nat \ {0}
    PROVE  /\ a \div b \in Nat
           /\ b * (a \div b) <= a
           /\ a < b * (a \div b) + b
<1>1. a = b * (a \div b) + (a % b) /\ a % b \in 0 .. b - 1 /\ a \div b \in Int
  BY Z3
<1>2. a \div b \in Nat
  BY <1>1, SMT
<1> QED BY <1>1, <1>2, SMT

\* Ceil rounds up, and by less than one.
LEMMA CeilBounds ==
    ASSUME NEW a \in Nat, NEW b \in Nat \ {0}
    PROVE  /\ Ceil(a, b) \in Nat
           /\ a <= b * Ceil(a, b)
           /\ b * Ceil(a, b) < a + b
<1>1. a + b - 1 \in Nat
  OBVIOUS
<1> DEFINE q == (a + b - 1) \div b
<1>2. q \in Nat /\ b * q <= a + b - 1 /\ a + b - 1 < b * q + b
  BY <1>1, DivMod
<1>3. b * q \in Nat
  BY <1>2
<1> HIDE DEF q
<1>4. a <= b * q /\ b * q < a + b
  BY <1>2, <1>3, SMT
<1> QED BY <1>2, <1>4 DEF Ceil, q

\* A factor on both sides of an inequality may be dropped.
LEMMA Cancel ==
    ASSUME NEW a \in Int, NEW b \in Int, NEW m \in Nat \ {0}, m * a < m * b
    PROVE  a < b
<1>1. CASE a >= b
  <2>1. PICK d \in Nat : a = b + d
    BY <1>1, a - b \in Nat, a = b + (a - b)
  <2>2. m * a = m * b + m * d /\ m * b \in Int /\ m * d \in Nat
    BY <2>1, Z3
  <2> QED BY <2>2, SMT
<1> QED BY <1>1, SMT

\* A factor may be put on both sides of an inequality.
LEMMA Monotone ==
    ASSUME NEW a \in Int, NEW b \in Int, NEW m \in Nat, a <= b
    PROVE  m * a <= m * b
<1>1. PICK d \in Nat : b = a + d
  BY b - a \in Nat, b = a + (b - a)
<1>2. m * b = m * a + m * d /\ m * a \in Int /\ m * d \in Nat
  BY <1>1, Z3
<1> QED BY <1>2, SMT

\* A product divided by one of its factors.
LEMMA DivExact ==
    ASSUME NEW q \in Nat, NEW m \in Nat \ {0}
    PROVE  (q * m) \div m = q
<1> DEFINE d == (q * m) \div m
<1>1. q * m \in Nat /\ q * m = m * q
  BY Z3
<1>2. d \in Nat /\ m * d <= m * q /\ m * q < m * d + m
  BY <1>1, DivMod
<1> HIDE DEF d
<1>3. m * (d + 1) = m * d + m /\ m * (q + 1) = m * q + m
  BY <1>2, Z3
<1>4. m * d \in Int /\ m * q \in Int
  BY <1>2, Z3
<1>5. m * d < m * (q + 1) /\ m * q < m * (d + 1)
  BY <1>2, <1>3, <1>4, SMT
<1>6. d < q + 1 /\ q < d + 1
  BY <1>2, <1>5, Cancel
<1>7. d = q
  BY <1>2, <1>6, SMT
<1> QED BY <1>7 DEF d

-----------------------------------------------------------------------------
OptionSet == [l : Nat, s : Nat, b : Nat]

\* What options that mklfs takes say of the sizes Log_Create computes from them.
LEMMA Sizes ==
    ASSUME NEW o \in OptionSet, ~Stops(o)
    PROVE  /\ o.l - 1 \in Nat \ {0} /\ o.b \in Nat \ {0}
           /\ SegNum(o) \in Nat /\ SegNum(o) >= 16
           /\ BlockBytes(o) \in Nat \ {0}
           /\ PartBytes(o) \in Nat /\ PartBytes(o) >= 4096
           /\ PartBytes(o) = BlockBytes(o) * (o.l - 1)
           /\ CalTmp(o) = 32 * SegNum(o) + 112
           /\ Stored(o) = 32 * SegNum(o) + 120
<1>1. o.l \in Nat /\ o.s \in Nat /\ o.b \in Nat
  BY DEF OptionSet
<1>2. /\ o.b # 0 /\ o.l # 0 /\ o.l # 1
      /\ ~(SegNum(o) < 16) /\ SegSize(o) % EraseSectors = 0
  BY Zenon DEF Stops
<1>3. o.l - 1 \in Nat \ {0} /\ o.b \in Nat \ {0}
  BY <1>1, <1>2
<1>4. SegNum(o) \in Nat /\ SegNum(o) >= 16
  <2>1. SegNum(o) \in Nat
    BY <1>1, <1>2, DivMod DEF SegNum
  <2> QED BY <2>1, <1>2, SMT
<1>5. BlockBytes(o) = 512 * o.b
  BY <1>1 DEF BlockBytes, Sector
<1> DEFINE k == o.l * o.b
           j == (o.l - 1) * o.b
<1>6. k \in Nat /\ k # 0 /\ j \in Nat /\ k = j + o.b
  BY <1>1, <1>3, Z3
<1>7. j = (o.l - 2) * o.b + o.b /\ (o.l - 2) * o.b \in Nat
  BY <1>1, <1>3, Z3
<1>8. k % 16 = 0
  BY <1>2 DEF SegSize, EraseSectors
<1>9. PartBytes(o) = 512 * j /\ PartBytes(o) = BlockBytes(o) * (o.l - 1)
  BY <1>1, <1>5, Z3 DEF PartBytes
<1>10. k >= 16
  <2> HIDE DEF k
  <2> QED BY <1>6, <1>8, Z3
<1>11. j >= 8
  <2> HIDE DEF k, j
  <2> QED BY <1>1, <1>6, <1>7, <1>10, SMT
<1>12. PartBytes(o) \in Nat /\ PartBytes(o) >= 4096
  <2> HIDE DEF j
  <2> QED BY <1>6, <1>9, <1>11, SMT
<1>13. CalTmp(o) = 32 * SegNum(o) + 112 /\ Stored(o) = 32 * SegNum(o) + 120
  BY <1>4, SMT DEF CalTmp, Stored, LastAddrAt, SizeCheckpoint, SizeInode,
                   SizeUsage, SizeTime, SizeAddr
<1> QED BY <1>2, <1>3, <1>4, <1>5, <1>9, <1>12, <1>13

\* The segments of a checkpoint: as many as Log_Create's count of bytes needs,
\* and not one more.
LEMMA PartsBounds ==
    ASSUME NEW o \in OptionSet, ~Stops(o)
    PROVE  /\ Parts(o) \in Nat
           /\ CheckpointSize(o) * BlockBytes(o) = PartBytes(o) * Parts(o)
           /\ CalTmp(o) <= PartBytes(o) * Parts(o)
           /\ PartBytes(o) * (Parts(o) - 1) < CalTmp(o)
<1> DEFINE bb == BlockBytes(o)
           m  == o.l - 1
           c  == CalTmp(o)
           x  == Ceil(c, bb)
           q  == Ceil(x, m)
<1>1. bb \in Nat \ {0} /\ m \in Nat \ {0} /\ c \in Nat
  BY Sizes
<1>2. x \in Nat /\ c <= bb * x /\ bb * x < c + bb
  BY <1>1, CeilBounds
<1>3. q \in Nat /\ x <= m * q /\ m * q < x + m
  BY <1>1, <1>2, CeilBounds
<1>4. CheckpointSize(o) = q * m
  BY DEF CheckpointSize
<1>5. Parts(o) = q
  BY <1>1, <1>3, <1>4, DivExact DEF Parts
<1>6. PartBytes(o) = bb * m
  BY Sizes
<1> HIDE DEF bb, m, c, x, q
<1>7. bb * x <= bb * (m * q)
  BY <1>1, <1>2, <1>3, m * q \in Int, Monotone
<1>8. bb * (m * q) = (bb * m) * q /\ (q * m) * bb = (bb * m) * q
  BY <1>1, <1>3, Z3
<1>9. m * (q - 1) = m * q - m /\ m * q \in Int /\ m * (q - 1) \in Int
  BY <1>1, <1>3, Z3
<1>10. m * (q - 1) <= x - 1
  BY <1>1, <1>2, <1>3, <1>9, SMT
<1>11. bb * (m * (q - 1)) <= bb * (x - 1)
  BY <1>1, <1>2, <1>9, <1>10, x - 1 \in Int, Monotone
<1>12. bb * (x - 1) = bb * x - bb /\ bb * x \in Int
  BY <1>1, <1>2, Z3
<1>13. /\ bb * (m * (q - 1)) = (bb * m) * (q - 1)
       /\ bb * (m * q) \in Int /\ bb * (m * (q - 1)) \in Int
  BY <1>1, <1>3, Z3
<1>14. c <= (bb * m) * q
  BY <1>1, <1>2, <1>7, <1>8, <1>12, <1>13, SMT
<1>15. (bb * m) * (q - 1) < c
  BY <1>1, <1>2, <1>11, <1>12, <1>13, SMT
<1> QED BY <1>3, <1>4, <1>5, <1>6, <1>8, <1>14, <1>15 DEF bb, c

\* The count leaves out a time stamp of 8 bytes.  It is 16 more than a multiple
\* of 32, a block is a multiple of 512: rounding up to blocks adds 16 or more.
LEMMA FitsBuffer ==
    ASSUME NEW o \in OptionSet, ~Stops(o)
    PROVE  Stored(o) <= CheckpointSize(o) * BlockBytes(o)
<1> DEFINE n == SegNum(o)
           p == (o.l - 1) * o.b * Parts(o)
<1>1. o.l - 1 \in Nat /\ o.b \in Nat /\ Parts(o) \in Nat /\ n \in Nat
  BY Sizes, PartsBounds
<1>2. p \in Nat /\ PartBytes(o) * Parts(o) = 512 * p
  BY <1>1, Z3 DEF PartBytes, BlockBytes, Sector
<1>3. 32 * n + 112 <= 512 * p
  BY <1>2, Sizes, PartsBounds
<1>4. 32 * n + 120 <= 512 * p
  <2> HIDE DEF n, p
  <2> QED BY <1>1, <1>2, <1>3, SMT
<1> QED BY <1>2, <1>4, Sizes, PartsBounds

\* The checkpoint never takes all of the flash: a segment holds the entries of
\* more than a hundred segments.
LEMMA PartsLeaveRoom ==
    ASSUME NEW o \in OptionSet, ~Stops(o)
    PROVE  Parts(o) \in 1 .. SegNum(o) - 1
<1> DEFINE n == SegNum(o)
           q == Parts(o)
           w == PartBytes(o)
<1>1. /\ n \in Nat /\ n >= 16 /\ w \in Nat /\ w >= 4096 /\ q \in Nat
      /\ 32 * n + 112 <= w * q /\ w * (q - 1) < 32 * n + 112
  BY Sizes, PartsBounds
<1> HIDE DEF n, q, w
<1>2. q # 0
  BY <1>1, w * 0 = 0, SMT
<1>3. 4096 * (q - 1) <= w * (q - 1)
  <2>1. (q - 1) * 4096 <= (q - 1) * w
    BY <1>1, <1>2, q - 1 \in Nat, Monotone
  <2> QED BY <2>1, <1>1, Z3
<1>4. w * (q - 1) \in Int
  BY <1>1
<1>5. 4096 * (q - 1) < 32 * n + 112
  BY <1>1, <1>3, <1>4, SMT
<1>6. q <= n - 1
  BY <1>1, <1>5, SMT
<1> QED BY <1>1, <1>2, <1>6 DEF n, q

\* A checkpoint takes one segment exactly if all that is written of it fits one.
LEMMA OnePart ==
    ASSUME NEW o \in OptionSet, ~Stops(o)
    PROVE  Parts(o) = 1 <=> Stored(o) <= PartBytes(o)
<1> DEFINE n == SegNum(o)
           q == Parts(o)
           w == PartBytes(o)
<1>1. /\ n \in Nat /\ w \in Nat /\ w >= 4096 /\ q \in Nat /\ q # 0
      /\ w * (q - 1) < 32 * n + 112
      /\ CheckpointSize(o) * BlockBytes(o) = w * q
      /\ Stored(o) = 32 * n + 120
  BY Sizes, PartsBounds, PartsLeaveRoom
<1>2. Stored(o) <= w * q
  BY <1>1, FitsBuffer
<1> HIDE DEF n, q, w
<1>3. q = 1 => w * q = w
  BY <1>1
<1>4. ASSUME 32 * n + 120 <= w PROVE q = 1
  <2>1. w * (q - 1) < w * 1
    BY <1>1, <1>4, w * (q - 1) \in Int, SMT
  <2>2. q - 1 < 1
    BY <1>1, <2>1, Cancel
  <2> QED BY <1>1, <2>2, SMT
<1> QED BY <1>1, <1>2, <1>3, <1>4 DEF q, w
-----------------------------------------------------------------------------
Idle == pc \in {"start", "stopped"}

SegmentKind == IF SummaryFits(opt) THEN "segment" ELSE "overlapped"

\* The segments up to next are written, in order, and no other.
Image(s) == IF s >= next THEN "blank"
            ELSE IF s = 0 THEN "super"
            ELSE IF s <= Parts(opt) THEN "checkpoint" ELSE SegmentKind

Stage ==
    /\ pc = "start" => next = 0 /\ flash = [s \in {} |-> "blank"] /\ ~killed
    /\ pc # "mounted" => tail = <<0, 0>>
    /\ ~Idle => ~Stops(opt) /\ \A s \in 0 .. SegNum(opt) - 1 : flash[s] = Image(s)
    /\ pc = "super" => next = 0
    /\ pc = "checkpoint" => next \in 1 .. Parts(opt)
    /\ pc = "segments" => next \in Parts(opt) + 1 .. SegNum(opt)
    /\ pc \in {"over", "mounted"} /\ ~killed => next = SegNum(opt)
    /\ pc = "mounted" => tail = LastAddr

IInv == TypeOK /\ Stage

\* The lemmas above, for the options of a run.
LEMMA Facts ==
    ASSUME opt \in Options, ~Stops(opt)
    PROVE  /\ opt \in OptionSet
           /\ SegNum(opt) \in Nat /\ SegNum(opt) >= 16
           /\ opt.l - 1 \in Nat \ {0} /\ opt.l \in Int
           /\ Parts(opt) \in 1 .. SegNum(opt) - 1
<1>1. opt \in OptionSet
  BY OptionsAssumption DEF OptionSet
<1>2. opt.l \in Int
  BY <1>1 DEF OptionSet
<1> QED BY <1>1, <1>2, Sizes, PartsLeaveRoom

\* The inductive invariant holds at first,
LEMMA InitInv == Init => IInv
  BY DEF Init, IInv, TypeOK, Stage, Idle

\* every step keeps it,
LEMMA NextInv == IInv /\ [Next]_vars => IInv'
<1> SUFFICES ASSUME IInv, [Next]_vars PROVE IInv'
  OBVIOUS
<1> USE DEF IInv
<1>1. CASE Check
  <2>1. CASE Stops(opt)
    BY <1>1, <2>1 DEF Check, TypeOK, Stage, Idle
  <2>2. CASE ~Stops(opt)
    <3>1. /\ pc = "start" /\ pc' = "super" /\ next' = 0 /\ opt' = opt /\ opt \in Options
          /\ flash' = [s \in 0 .. SegNum(opt) - 1 |-> "blank"]
          /\ tail' = <<0, 0>> /\ killed' = killed /\ killed \in BOOLEAN
      BY <1>1, <2>2 DEF Check, TypeOK, Stage
    <3>2. SegNum(opt) \in Nat /\ SegNum(opt) >= 16 /\ opt.l - 1 \in Nat /\ opt.l \in Int
      BY <2>2, <3>1, Facts
    <3>3. TypeOK'
      BY <3>1, <3>2 DEF TypeOK, Kinds
    <3>4. \A s \in 0 .. SegNum(opt) - 1 : flash'[s] = "blank" /\ s >= 0
      BY <3>1, <3>2
    <3>5. Stage'
      BY <2>2, <3>1, <3>4 DEF Stage, Idle, Image
    <3> QED BY <3>3, <3>5
  <2> QED BY <2>1, <2>2
<1>2. ASSUME NEW k \in Kinds, flash' = [flash EXCEPT ![next] = k], opt' = opt,
             ~Idle, next \in 0 .. SegNum(opt) - 1, next' = next + 1,
             k = IF next = 0 THEN "super"
                 ELSE IF next <= Parts(opt) THEN "checkpoint" ELSE SegmentKind
      PROVE  /\ flash' \in [0 .. SegNum(opt) - 1 -> Kinds]
             /\ \A s \in 0 .. SegNum(opt) - 1 : flash'[s] = Image(s)'
  <2>1. /\ opt \in Options /\ ~Stops(opt) /\ flash \in [0 .. SegNum(opt) - 1 -> Kinds]
        /\ \A s \in 0 .. SegNum(opt) - 1 : flash[s] = Image(s)
    BY <1>2 DEF TypeOK, Stage, Idle
  <2>2. SegNum(opt) \in Nat /\ Parts(opt) \in Nat
    BY <2>1, Facts
  <2>3. ASSUME NEW s \in 0 .. SegNum(opt) - 1 PROVE flash'[s] = Image(s)'
    <3>1. CASE s = next
      BY <1>2, <2>1, <2>2, <3>1 DEF Image, SegmentKind
    <3>2. CASE s # next
      <4>1. flash'[s] = Image(s)
        BY <1>2, <2>1, <3>2
      <4>2. s >= next <=> s >= next'
        BY <1>2, <2>2, <3>2
      <4> QED BY <1>2, <4>1, <4>2 DEF Image, SegmentKind
    <3> QED BY <3>1, <3>2
  <2> QED BY <1>2, <2>1, <2>3
<1>3. CASE WriteSuper
  <2>1. /\ pc = "super" /\ next = 0 /\ next' = next + 1 /\ next' = 1 /\ pc' = "checkpoint"
        /\ opt' = opt /\ tail' = tail /\ killed' = killed /\ opt \in Options
        /\ tail = <<0, 0>> /\ killed \in BOOLEAN /\ ~Stops(opt) /\ ~Idle
        /\ flash' = [flash EXCEPT ![next] = "super"]
    BY <1>3 DEF WriteSuper, WriteNext, TypeOK, Stage, Idle
  <2>2. /\ SegNum(opt) \in Nat /\ SegNum(opt) >= 16 /\ opt.l - 1 \in Nat /\ opt.l \in Int
        /\ Parts(opt) \in 1 .. SegNum(opt) - 1
    BY <2>1, Facts
  <2>3. /\ flash' \in [0 .. SegNum(opt) - 1 -> Kinds]
        /\ \A s \in 0 .. SegNum(opt) - 1 : flash'[s] = Image(s)'
    BY <1>2, <2>1, <2>2 DEF Kinds
  <2>4. TypeOK'
    BY <2>1, <2>2, <2>3 DEF TypeOK
  <2>5. Stage'
    BY <2>1, <2>2, <2>3 DEF Stage, Idle
  <2> QED BY <2>4, <2>5
<1>4. CASE StorePart
  <2>1. /\ pc = "checkpoint" /\ next \in 1 .. Parts(opt)
        /\ opt' = opt /\ tail' = tail /\ killed' = killed /\ opt \in Options
        /\ tail = <<0, 0>> /\ killed \in BOOLEAN /\ ~Stops(opt) /\ ~Idle
        /\ flash' = [flash EXCEPT ![next] = "checkpoint"]
        /\ \/ next < Parts(opt) /\ next' = next + 1 /\ pc' = "checkpoint"
           \/ ~(next < Parts(opt)) /\ next' = Parts(opt) + 1 /\ pc' = "segments"
    BY <1>4 DEF StorePart, WriteNext, TypeOK, Stage, Idle, FirstData
  <2>2. /\ SegNum(opt) \in Nat /\ SegNum(opt) >= 16 /\ opt.l - 1 \in Nat /\ opt.l \in Int
        /\ Parts(opt) \in 1 .. SegNum(opt) - 1
    BY <2>1, Facts
  <2>3. /\ next \in 0 .. SegNum(opt) - 1 /\ next # 0 /\ next <= Parts(opt)
        /\ next' = next + 1
        /\ \/ next' \in 1 .. Parts(opt) /\ pc' = "checkpoint"
           \/ next' \in Parts(opt) + 1 .. SegNum(opt) /\ pc' = "segments"
    BY <2>1, <2>2
  <2>4. /\ flash' \in [0 .. SegNum(opt) - 1 -> Kinds]
        /\ \A s \in 0 .. SegNum(opt) - 1 : flash'[s] = Image(s)'
    BY <1>2, <2>1, <2>3 DEF Kinds
  <2>5. TypeOK'
    BY <2>1, <2>2, <2>3, <2>4 DEF TypeOK
  <2>6. Stage'
    BY <2>1, <2>2, <2>3, <2>4 DEF Stage, Idle
  <2> QED BY <2>5, <2>6
<1>5. CASE FormatSegment
  <2>1. /\ pc = "segments" /\ next \in Parts(opt) + 1 .. SegNum(opt) /\ pc' = pc
        /\ opt' = opt /\ tail' = tail /\ killed' = killed /\ opt \in Options
        /\ tail = <<0, 0>> /\ killed \in BOOLEAN /\ ~Stops(opt) /\ ~Idle
        /\ flash' = [flash EXCEPT ![next] = SegmentKind]
        /\ next <= SegNum(opt) - 1 /\ next' = next + 1
    BY <1>5 DEF FormatSegment, WriteNext, TypeOK, Stage, Idle, SegmentKind, LastSeg
  <2>2. /\ SegNum(opt) \in Nat /\ SegNum(opt) >= 16 /\ opt.l - 1 \in Nat /\ opt.l \in Int
        /\ Parts(opt) \in 1 .. SegNum(opt) - 1
    BY <2>1, Facts
  <2>3. /\ next \in 0 .. SegNum(opt) - 1 /\ next # 0 /\ ~(next <= Parts(opt))
        /\ next' \in Parts(opt) + 1 .. SegNum(opt) /\ SegmentKind \in Kinds
    BY <2>1, <2>2 DEF SegmentKind, Kinds
  <2>4. /\ flash' \in [0 .. SegNum(opt) - 1 -> Kinds]
        /\ \A s \in 0 .. SegNum(opt) - 1 : flash'[s] = Image(s)'
    BY <1>2, <2>1, <2>3
  <2>5. TypeOK'
    BY <2>1, <2>2, <2>3, <2>4 DEF TypeOK
  <2>6. Stage'
    BY <2>1, <2>2, <2>3, <2>4 DEF Stage, Idle
  <2> QED BY <2>5, <2>6
<1>6. CASE Finish \/ Kill
  <2>1. /\ UNCHANGED <<opt, next, flash, tail>> /\ pc' = "over" /\ ~Idle /\ pc # "mounted"
        /\ killed' \in BOOLEAN
        /\ ~killed' => pc = "segments" /\ next > SegNum(opt) - 1
    BY <1>6 DEF Finish, Kill, LastSeg, Idle, TypeOK
  <2>2. opt \in Options /\ ~Stops(opt) /\ pc \in {"super", "checkpoint", "segments"}
    BY <1>6, <2>1 DEF TypeOK, Stage, Finish, Kill
  <2>3. SegNum(opt) \in Nat /\ Parts(opt) \in Nat
    BY <2>2, Facts
  <2>4. ~killed' => next = SegNum(opt)
    BY <2>1, <2>3 DEF Stage
  <2>5. TypeOK'
    BY <2>1 DEF TypeOK, Idle
  <2>6. \A s \in 0 .. SegNum(opt) - 1 : flash'[s] = Image(s)'
    BY <2>1 DEF Stage, Image, SegmentKind
  <2>7. Stage'
    BY <2>1, <2>2, <2>4, <2>6 DEF Stage, Idle
  <2> QED BY <2>5, <2>7
<1>7. CASE Mount
  <2>1. /\ UNCHANGED <<opt, next, flash, killed>> /\ pc = "over" /\ ~Stops(opt)
        /\ opt \in Options
    BY <1>7 DEF Mount, Stage, Idle, TypeOK
  <2>2. /\ SegNum(opt) \in Nat /\ SegNum(opt) >= 16 /\ opt.l - 1 \in Nat \ {0}
        /\ opt.l \in Int
    BY <2>1, Facts
  <2>3. \A s \in 0 .. SegNum(opt) - 1 : flash'[s] = Image(s)'
    BY <2>1 DEF Stage, Idle, Image, SegmentKind
  <2>4. CASE pc' = "mounted"
    <3>1. tail' = LastAddr /\ LastAddr' = LastAddr
      BY <1>7, <2>1, <2>4 DEF Mount, LastAddr
    <3>2. tail' \in (0 .. SegNum(opt) - 1) \X (0 .. opt.l - 1)
      BY <2>2, <3>1 DEF LastAddr
    <3>3. TypeOK'
      BY <2>1, <2>4, <3>2 DEF TypeOK
    <3>4. Stage'
      BY <2>1, <2>3, <2>4, <3>1 DEF Stage, Idle
    <3> QED BY <3>3, <3>4
  <2>5. CASE pc' = "stopped" /\ UNCHANGED tail
    BY <2>1, <2>5 DEF TypeOK, Stage, Idle
  <2> QED BY <1>7, <2>4, <2>5 DEF Mount
<1>8. CASE UNCHANGED vars
  BY <1>8 DEF vars, TypeOK, Stage, Idle, Image, SegmentKind, LastAddr
<1> QED BY <1>1, <1>3, <1>4, <1>5, <1>6, <1>7, <1>8 DEF Next

\* so it always holds.
LEMMA Invariant == Spec => []IInv
  BY InitInv, NextInv, PTL DEF Spec
-----------------------------------------------------------------------------
\* The variables of mklfs and of the mount are of their types, for all options.
THEOREM TypeCorrect == Spec => []TypeOK
<1>1. IInv => TypeOK
  BY DEF IInv
<1> QED BY <1>1, Invariant, PTL

\* Whatever the options, store_checkpoint stays within the buffer it allocates.
THEOREM CheckpointFitsBuffer == Spec => []CheckpointFits
<1>1. IInv => CheckpointFits
  <2> SUFFICES ASSUME IInv, ~Idle
               PROVE  Stored(opt) <= CheckpointSize(opt) * BlockBytes(opt)
    BY DEF CheckpointFits, Idle
  <2>1. opt \in OptionSet /\ ~Stops(opt)
    BY Facts DEF IInv, Stage, TypeOK
  <2> QED BY <2>1, FitsBuffer
<1> QED BY <1>1, Invariant, PTL

\* mklfs writes no segment twice, whatever the options and wherever it is killed.
THEOREM NothingOverwritten == Spec => WrittenOnce
<1> DEFINE A == \A s \in Segs : flash[s] # "blank" => flash'[s] = flash[s]
<1>1. ASSUME IInv, Next PROVE A
  <2>1. CASE Check
    BY <1>1, <2>1 DEF Check, IInv, Stage, Segs
  <2>2. CASE WriteSuper \/ StorePart \/ FormatSegment
    <3>1. /\ ~Idle /\ \A s \in Segs \ {next} : flash'[s] = flash[s]
      BY <2>2 DEF WriteSuper, StorePart, FormatSegment, WriteNext, Idle, Segs
    <3>2. next \in Segs => flash[next] = "blank"
      <4>1. /\ Segs = 0 .. SegNum(opt) - 1 /\ next \in 0 .. SegNum(opt)
            /\ \A s \in 0 .. SegNum(opt) - 1 : flash[s] = Image(s)
        BY <1>1, <3>1 DEF IInv, TypeOK, Stage, Idle, Segs
      <4> QED BY <4>1 DEF Image
    <3> QED BY <3>1, <3>2
  <2>3. CASE Finish \/ Kill \/ Mount
    BY <2>3 DEF Finish, Kill, Mount
  <2> QED BY <1>1, <2>1, <2>2, <2>3 DEF Next
<1>2. IInv /\ [Next]_vars => [A]_vars
  BY <1>1
<1> QED BY <1>2, Invariant, PTL DEF Spec, WrittenOnce

\* For all options: the file system mounted after mklfs has ended is the one
\* module Log is about exactly if a checkpoint fits a segment and a summary a
\* block.
THEOREM MountedAsAssumed == Spec => []LayoutForLog
<1>1. IInv => LayoutForLog
  <2> SUFFICES ASSUME IInv, pc = "mounted", ~killed
               PROVE  LogLayout <=> Stored(opt) <= PartBytes(opt) /\ SummaryFits(opt)
    BY DEF LayoutForLog
  <2> DEFINE n == SegNum(opt)
  <2>1. /\ opt \in Options /\ ~Stops(opt) /\ next = n /\ flash \in [0 .. n - 1 -> Kinds]
        /\ \A s \in 0 .. n - 1 : flash[s] = Image(s)
        /\ tail = IF flash[1] = "checkpoint" /\ Stored(opt) <= PartBytes(opt)
                  THEN <<2, 1>> ELSE <<0, 0>>
    BY DEF IInv, Stage, TypeOK, Idle, LastAddr
  <2>2. n \in Nat /\ n >= 16 /\ Parts(opt) \in 1 .. n - 1 /\ opt \in OptionSet
    BY <2>1, Facts
  <2>3. Parts(opt) = 1 <=> Stored(opt) <= PartBytes(opt)
    BY <2>1, <2>2, OnePart
  <2>4. /\ \A s \in 0 .. n - 1 :
            flash[s] = IF s = 0 THEN "super"
                       ELSE IF s <= Parts(opt) THEN "checkpoint" ELSE SegmentKind
    BY <2>1, <2>2 DEF Image
  <2>5. ASSUME Parts(opt) = 1, SummaryFits(opt) PROVE LogLayout
    <3>1. tail = <<2, 1>>
      BY <2>1, <2>2, <2>3, <2>4, <2>5
    <3>2. \A s \in 0 .. n - 1 :
              flash[s] = IF s = 0 THEN "super" ELSE IF s = 1 THEN "checkpoint" ELSE "segment"
      BY <2>2, <2>4, <2>5 DEF SegmentKind
    <3> QED BY <2>1, <3>1, <3>2 DEF LogLayout
  <2>6. ASSUME LogLayout PROVE Parts(opt) = 1 /\ SummaryFits(opt)
    <3>1. flash[2] = "segment"
      BY <2>2, <2>6 DEF LogLayout
    <3>2. ~(2 <= Parts(opt)) /\ SegmentKind = "segment"
      BY <2>2, <2>4, <3>1
    <3> QED BY <2>2, <3>2 DEF SegmentKind
  <2> QED BY <2>3, <2>5, <2>6
<1> QED BY <1>1, Invariant, PTL
=============================================================================
