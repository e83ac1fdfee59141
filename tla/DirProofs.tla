----------------------------- MODULE DirProofs -----------------------------
(***************************************************************************)
(* Proofs about Dir, for any number of inodes, names, links and entries,   *)
(* and that it implements Names.                                           *)
(*                                                                         *)
(* Most of it is about one table of inodes: what each step of an operation *)
(* does to entries, link counts, names and what can be reached.  The three *)
(* generations come in at the end: the log has the entries that memory has *)
(* (Follows), and a checkpoint is a log.                                   *)
(***************************************************************************)
EXTENDS Dir, TLAPS, FiniteSetTheorems, SequenceTheorems

\* A set of natural numbers that has an element has a least one.
LEMMA LeastNatural ==
    ASSUME NEW S \in SUBSET Nat, S # {}
    PROVE  \E i \in S : \A j \in S : i <= j
<1> DEFINE R == {p \in Nat \X Nat : p[1] < p[2]}
<1>1. IsWellFoundedOn(R, Nat)
  BY NatLessThanWellFounded DEF OpToRel
<1>2. \E i \in S : \A j \in S : <<j, i>> \notin R
  <2> HIDE DEF R
  <2> QED BY <1>1, WFMin
<1>3. \A i, j \in Nat : <<j, i>> \notin R => i <= j
  OBVIOUS
<1> QED BY <1>2, <1>3

\* Two pieces of a sequence on either side of its k-th element, joined
LEMMA Joined ==
    ASSUME NEW S, NEW s \in Seq(S), NEW k \in 1 .. Len(s),
           NEW a \in Seq(S), Len(a) = k - 1, \A j \in 1 .. k - 1 : a[j] = s[j],
           NEW b \in Seq(S), Len(b) = Len(s) - k, \A j \in 1 .. Len(s) - k : b[j] = s[k + j]
    PROVE  /\ a \o b \in Seq(S)
           /\ Len(a \o b) = Len(s) - 1
           /\ \A j \in 1 .. Len(s) - 1 : (a \o b)[j] = IF j < k THEN s[j] ELSE s[j + 1]
<1>1. a \o b \in Seq(S)
  OBVIOUS
<1>2. Len(a \o b) = Len(s) - 1
  OBVIOUS
<1>3. \A j \in 1 .. Len(s) - 1 : (a \o b)[j] = IF j < k THEN s[j] ELSE s[j + 1]
  OBVIOUS
<1> QED BY <1>1, <1>2, <1>3, Zenon

\* What is left of a sequence when its k-th element goes
LEMMA Spliced ==
    ASSUME NEW S, NEW s \in Seq(S), NEW k \in 1 .. Len(s)
    PROVE  LET r == SubSeq(s, 1, k - 1) \o SubSeq(s, k + 1, Len(s))
           IN  /\ r \in Seq(S)
               /\ Len(r) = Len(s) - 1
               /\ \A j \in 1 .. Len(s) - 1 : r[j] = IF j < k THEN s[j] ELSE s[j + 1]
<1> DEFINE a == SubSeq(s, 1, k - 1)
           b == SubSeq(s, k + 1, Len(s))
<1>1. Len(s) \in Nat
  OBVIOUS
<1>2. a \in Seq(S) /\ Len(a) = k - 1 /\ \A j \in 1 .. k - 1 : a[j] = s[j]
  OBVIOUS
<1>3. b \in Seq(S) /\ Len(b) = Len(s) - k
  BY <1>1
<1>4. \A j \in 1 .. Len(s) - k : b[j] = s[k + j]
  BY <1>1
<1> HIDE DEF a, b
<1>5. /\ a \o b \in Seq(S)
      /\ Len(a \o b) = Len(s) - 1
      /\ \A j \in 1 .. Len(s) - 1 : (a \o b)[j] = IF j < k THEN s[j] ELSE s[j + 1]
  BY <1>2, <1>3, <1>4, Joined
<1> QED BY <1>5, Zenon DEF a, b

\* An entry has a place in the directory that holds it.
LEMMA EntryPlaces ==
    ASSUME NEW t, TableOK(t)
    PROVE  /\ \A d \in Inums : \A k \in 1 .. Len(t[d].ents) : <<d, k>> \in EntryIds(t)
           /\ \A x \in EntryIds(t) : /\ x = <<x[1], x[2]>>
                                     /\ x[1] \in Inums /\ x[2] \in 1 .. Len(t[x[1]].ents)
                                     /\ At(t, x) \in Entry
<1>1. ASSUME NEW d \in Inums
      PROVE  /\ t[d].ents \in Seq(Entry)
             /\ DOMAIN t[d].ents = 1 .. Len(t[d].ents)
             /\ Len(t[d].ents) \in 0 .. MaxEntries
             /\ \A k \in 1 .. Len(t[d].ents) : t[d].ents[k] \in Entry
  <2>1. t[d] \in Inode
    BY DEF TableOK
  <2>2. t[d].ents \in Seq(Entry)
    BY <2>1 DEF Inode
  <2> QED BY <2>2, DirAssumption DEF TableOK
<1> QED BY <1>1, DirAssumption DEF EntryIds, At

\* Get_Inode finds the entry it is asked for, the first one of the name.
LEMMA FirstEntry ==
    ASSUME NEW t, TableOK(t), NEW d \in Inums, NEW n, Has(t, d, n)
    PROVE  /\ First(t, d, n) \in 1 .. Len(t[d].ents)
           /\ t[d].ents[First(t, d, n)].name = n
           /\ \A j \in 1 .. Len(t[d].ents) : t[d].ents[j].name = n => First(t, d, n) <= j
           /\ Lookup(t, d, n) \in Inums
           /\ <<d, First(t, d, n)>> \in EntryIds(t)
<1> DEFINE e == t[d].ents
           S == {k \in 1 .. Len(e) : e[k].name = n}
<1>1. e \in Seq(Entry) /\ DOMAIN e = 1 .. Len(e) /\ Len(e) \in Nat
  BY DEF TableOK, Inode
<1>2. S \in SUBSET Nat /\ S # {}
  BY <1>1 DEF Has
<1>3. PICK i \in S : \A j \in S : i <= j
  BY <1>2, LeastNatural
<1>4. /\ i \in DOMAIN e /\ e[i].name = n
      /\ \A j \in 1 .. i - 1 : e[j].name # n
  BY <1>1, <1>3
<1>5. /\ First(t, d, n) \in DOMAIN e /\ e[First(t, d, n)].name = n
      /\ \A j \in 1 .. First(t, d, n) - 1 : e[j].name # n
  BY <1>4 DEF First
<1>6. e[First(t, d, n)] \in Entry
  BY <1>1, <1>5
<1> QED BY <1>1, <1>5, <1>6, EntryPlaces DEF Lookup, Entry
-----------------------------------------------------------------------------
\* The place of the next entry of a directory
NextPlace(t, d) == <<d, Len(t[d].ents) + 1>>

\* Add_File_To_Directory changes the entries of the directory, at their end.
LEMMA AddedTable ==
    ASSUME NEW t, TableOK(t), NEW d \in Inums, IsDir(t, d), Fits(t, d),
           NEW n \in NameSet \cup {NoName}, NEW i \in Inums,
           NEW u, u = Added(t, d, n, i)
    PROVE  /\ TableOK(u)
           /\ \A j \in Inums : u[j].mode = t[j].mode /\ u[j].num_links = t[j].num_links
           /\ \A j \in Inums \ {d} : u[j].ents = t[j].ents
           /\ Len(u[d].ents) = Len(t[d].ents) + 1
           /\ NextPlace(t, d) \notin EntryIds(t)
           /\ EntryIds(u) = EntryIds(t) \cup {NextPlace(t, d)}
           /\ \A x \in EntryIds(t) : At(u, x) = At(t, x)
           /\ At(u, NextPlace(t, d)) = [name |-> n, inum |-> i]
<1> DEFINE e == [name |-> n, inum |-> i]
           k == Len(t[d].ents) + 1
           s == Append(t[d].ents, e)
<1>1. e \in Entry
  BY DEF Entry
<1>2. /\ t \in [Inums -> Inode]
      /\ \A j \in Inums : /\ t[j] \in Inode /\ t[j].ents \in Seq(Entry)
                          /\ Len(t[j].ents) \in Nat /\ Len(t[j].ents) <= MaxEntries
                          /\ DOMAIN t[j].ents = 1 .. Len(t[j].ents)
  BY DEF TableOK, Inode
<1>3. /\ s \in Seq(Entry) /\ Len(s) = k /\ DOMAIN s = 1 .. k
      /\ \A j \in 1 .. Len(t[d].ents) : s[j] = t[d].ents[j]
      /\ s[k] = e
  BY <1>1, <1>2
<1>4. /\ u \in [Inums -> Inode]
      /\ \A j \in Inums : u[j].mode = t[j].mode /\ u[j].num_links = t[j].num_links
      /\ \A j \in Inums \ {d} : u[j].ents = t[j].ents
      /\ u[d].ents = s
  BY <1>2, <1>3 DEF Added, Inode
<1>5. k \in 1 .. MaxEntries
  BY <1>2, DirAssumption DEF Fits
<1> HIDE DEF s, k
<1>6. TableOK(u)
  <2>1. Len(u[d].ents) <= MaxEntries
    BY <1>3, <1>4, <1>5
  <2> QED BY <1>2, <1>4, <2>1 DEF TableOK, IsDir
<1>7. EntryIds(u) = EntryIds(t) \cup {<<d, k>>} /\ <<d, k>> \notin EntryIds(t)
  BY <1>2, <1>3, <1>4, <1>5 DEF EntryIds, k
<1>8. \A x \in EntryIds(t) : At(u, x) = At(t, x)
  BY <1>2, <1>3, <1>4 DEF EntryIds, At
<1> QED BY <1>3, <1>4, <1>6, <1>7, <1>8 DEF At, NextPlace, k

\* A name that is there is found as before.
LEMMA AddedLookup ==
    ASSUME NEW t, TableOK(t), NEW d \in Inums, IsDir(t, d), Fits(t, d),
           NEW n \in NameSet \cup {NoName}, NEW i \in Inums,
           NEW u, u = Added(t, d, n, i),
           NEW c \in Inums, NEW m, Has(t, c, m)
    PROVE  Has(u, c, m) /\ Lookup(u, c, m) = Lookup(t, c, m)
<1>0. ASSUME NEW v, TableOK(v), Has(v, c, m)
      PROVE  /\ First(v, c, m) \in 1 .. Len(v[c].ents)
             /\ v[c].ents[First(v, c, m)].name = m
             /\ \A j \in 1 .. Len(v[c].ents) : v[c].ents[j].name = m => First(v, c, m) <= j
  BY <1>0, FirstEntry
<1>1. /\ TableOK(u)
      /\ EntryIds(u) = EntryIds(t) \cup {NextPlace(t, d)}
      /\ \A x \in EntryIds(t) : At(u, x) = At(t, x)
  BY AddedTable
<1>2. \A v : TableOK(v) => \A j \in Inums : /\ Len(v[j].ents) \in Nat
                                            /\ DOMAIN v[j].ents = 1 .. Len(v[j].ents)
  BY DEF TableOK, Inode
<1> DEFINE f == First(t, c, m)
           g == First(u, c, m)
<1>3. /\ f \in 1 .. Len(t[c].ents) /\ t[c].ents[f].name = m
      /\ \A j \in 1 .. Len(t[c].ents) : t[c].ents[j].name = m => f <= j
  BY FirstEntry
<1>4. /\ <<c, f>> \in EntryIds(t)
      /\ u[c].ents[f] = t[c].ents[f] /\ f \in 1 .. Len(u[c].ents)
  <2>1. <<c, f>> \in EntryIds(t)
    BY <1>3, EntryPlaces
  <2> QED BY <1>1, <2>1, EntryPlaces DEF At
<1>5. Has(u, c, m)
  BY <1>1, <1>2, <1>3, <1>4 DEF Has
<1>6. /\ g \in 1 .. Len(u[c].ents) /\ u[c].ents[g].name = m
      /\ \A j \in 1 .. Len(u[c].ents) : u[c].ents[j].name = m => g <= j
  <2>1. TableOK(u)
    BY <1>1
  <2> QED BY <1>5, <2>1, <1>0
<1>7. g = f
  <2> HIDE DEF f, g
  <2>1. g <= f
    BY <1>3, <1>4, <1>6
  <2>2. g \in 1 .. Len(t[c].ents)
    BY <1>2, <1>3, <1>6, <2>1
  <2>3. <<c, g>> \in EntryIds(t) /\ u[c].ents[g] = t[c].ents[g]
    BY <1>1, <2>2, EntryPlaces DEF At
  <2> QED BY <1>3, <1>6, <2>1, <2>2, <2>3
<1> QED BY <1>4, <1>5, <1>7 DEF Lookup

\* The place that an entry had before the entry k of d was removed
Before(d, k, x) == IF x[1] = d /\ x[2] >= k THEN <<d, x[2] + 1>> ELSE x

\* Dir_Delete_File moves the entries that follow down by one.
LEMMA RemovedTable ==
    ASSUME NEW t, TableOK(t), NEW d \in Inums, NEW n, Has(t, d, n),
           NEW k, k = First(t, d, n),
           NEW u, u = WithoutFirst(t, d, n)
    PROVE  /\ TableOK(u)
           /\ \A j \in Inums : u[j].mode = t[j].mode /\ u[j].num_links = t[j].num_links
           /\ \A j \in Inums \ {d} : u[j].ents = t[j].ents
           /\ Len(u[d].ents) = Len(t[d].ents) - 1
           /\ \A x \in EntryIds(u) : /\ Before(d, k, x) \in EntryIds(t) \ {<<d, k>>}
                                     /\ At(u, x) = At(t, Before(d, k, x))
           /\ \A x, y \in EntryIds(u) : Before(d, k, x) = Before(d, k, y) => x = y
           /\ \A y \in EntryIds(t) \ {<<d, k>>} : \E x \in EntryIds(u) : Before(d, k, x) = y
<1> DEFINE e == t[d].ents
           r == SubSeq(e, 1, k - 1) \o SubSeq(e, k + 1, Len(e))
<1>1. /\ t \in [Inums -> Inode]
      /\ \A j \in Inums : /\ t[j] \in Inode /\ t[j].ents \in Seq(Entry)
                          /\ Len(t[j].ents) \in Nat /\ Len(t[j].ents) <= MaxEntries
                          /\ DOMAIN t[j].ents = 1 .. Len(t[j].ents)
  BY DEF TableOK, Inode
<1>2. k \in 1 .. Len(e)
  BY FirstEntry
<1>3. /\ r \in Seq(Entry) /\ Len(r) = Len(e) - 1 /\ DOMAIN r = 1 .. Len(e) - 1
      /\ \A j \in 1 .. Len(e) - 1 : r[j] = IF j < k THEN e[j] ELSE e[j + 1]
  <2>1. e \in Seq(Entry)
    BY <1>1
  <2>2. /\ r \in Seq(Entry) /\ Len(r) = Len(e) - 1
        /\ \A j \in 1 .. Len(e) - 1 : r[j] = IF j < k THEN e[j] ELSE e[j + 1]
    BY <1>2, <2>1, Spliced, Zenon
  <2> HIDE DEF r
  <2> QED BY <1>2, <2>1, <2>2
<1>4. /\ u \in [Inums -> Inode]
      /\ \A j \in Inums : u[j].mode = t[j].mode /\ u[j].num_links = t[j].num_links
      /\ \A j \in Inums \ {d} : u[j].ents = t[j].ents
      /\ u[d].ents = r
  <2>1. u = [t EXCEPT ![d].ents = r]
    BY DEF WithoutFirst
  <2> HIDE DEF r
  <2>2. r \in Seq(Entry) /\ t[d] \in Inode
    BY <1>1, <1>3
  <2>3. [t[d] EXCEPT !.ents = r] \in Inode
    BY <2>2 DEF Inode
  <2> QED BY <1>1, <2>1, <2>2, <2>3 DEF Inode
<1> HIDE DEF r
<1>5. TableOK(u)
  <2>1. t[d].mode = "dir"
    BY <1>1, <1>2 DEF TableOK
  <2>2. Len(u[d].ents) <= MaxEntries
    BY <1>1, <1>2, <1>3, <1>4, DirAssumption
  <2> QED BY <1>4, <2>1, <2>2, <1>1 DEF TableOK
<1>6. ASSUME NEW x \in EntryIds(u)
      PROVE  /\ Before(d, k, x) \in EntryIds(t) \ {<<d, k>>}
             /\ At(u, x) = At(t, Before(d, k, x))
  <2>1. PICK i, p : x = <<i, p>> /\ i \in Inums /\ p \in 1 .. Len(u[i].ents)
    BY <1>5, EntryPlaces
  <2>2. CASE i = d /\ p < k
    <3>1. p \in 1 .. Len(e) /\ r[p] = e[p] /\ p # k
      BY <1>1, <1>2, <1>3, <1>4, <2>1, <2>2
    <3>2. Before(d, k, x) = <<d, p>>
      BY <1>2, <2>1, <2>2, <3>1 DEF Before
    <3> QED BY <1>4, <2>1, <2>2, <3>1, <3>2, EntryPlaces DEF At
  <2>3. CASE i = d /\ p >= k
    <3>1. p \in Int /\ p + 1 \in 1 .. Len(e) /\ r[p] = e[p + 1] /\ p + 1 # k
      BY <1>1, <1>2, <1>3, <1>4, <2>1, <2>3
    <3>2. Before(d, k, x) = <<d, p + 1>>
      BY <1>2, <2>1, <2>3, <3>1 DEF Before
    <3> QED BY <1>4, <2>1, <2>3, <3>1, <3>2, EntryPlaces DEF At
  <2>4. CASE i # d
    <3>1. Before(d, k, x) = x
      BY <2>1, <2>4 DEF Before
    <3> QED BY <1>4, <2>1, <2>4, <3>1, EntryPlaces DEF At
  <2>5. p \in Int /\ k \in Int
    BY <1>1, <1>2, <1>5, <2>1 DEF TableOK, Inode
  <2> QED BY <2>2, <2>3, <2>4, <2>5
<1>7. \A x, y \in EntryIds(u) : Before(d, k, x) = Before(d, k, y) => x = y
  BY <1>2, <1>5, EntryPlaces DEF Before
<1>8. ASSUME NEW y \in EntryIds(t) \ {<<d, k>>}
      PROVE  \E x \in EntryIds(u) : Before(d, k, x) = y
  <2> DEFINE x == IF y[1] = d /\ y[2] > k THEN <<d, y[2] - 1>> ELSE y
  <2>1. /\ y = <<y[1], y[2]>>
        /\ y[1] \in Inums /\ y[2] \in 1 .. Len(t[y[1]].ents)
    BY EntryPlaces
  <2>2. x \in EntryIds(u)
    <3>1. CASE y[1] = d
      <4>1. y[2] # k /\ y[2] \in 1 .. Len(e)
        BY <2>1, <3>1
      <4>2. x[1] = d /\ x[2] \in 1 .. Len(u[d].ents) /\ x = <<x[1], x[2]>>
        BY <1>1, <1>2, <1>3, <1>4, <2>1, <3>1, <4>1
      <4> QED BY <1>5, <4>2, EntryPlaces
    <3>2. CASE y[1] # d
      <4>1. x = y
        BY <3>2
      <4> QED BY <1>4, <1>5, <2>1, <3>2, <4>1, EntryPlaces
    <3> QED BY <3>1, <3>2
  <2>3. Before(d, k, x) = y
    BY <1>2, <1>1, <2>1 DEF Before
  <2> QED BY <2>2, <2>3
<1> QED BY <1>3, <1>4, <1>5, <1>6, <1>7, <1>8
-----------------------------------------------------------------------------
(* How many entries name an inode. *)

Count(t, i) == Cardinality(Refs(t, i))

LEMMA RefsFinite ==
    ASSUME NEW t
    PROVE  /\ IsFiniteSet(EntryIds(t))
           /\ \A i : IsFiniteSet(Refs(t, i)) /\ Count(t, i) \in Nat
<1>1. IsFiniteSet(Inums \X (1 .. MaxEntries))
  <2>1. IsFiniteSet(Inums)
    BY DirAssumption, FS_Interval DEF Inums
  <2>2. IsFiniteSet(1 .. MaxEntries)
    BY DirAssumption, FS_Interval
  <2> QED BY <2>1, <2>2, FS_Product
<1>2. IsFiniteSet(EntryIds(t))
  <2>1. EntryIds(t) \in SUBSET (Inums \X (1 .. MaxEntries))
    BY DEF EntryIds
  <2> QED BY <1>1, <2>1, FS_Subset
<1>3. ASSUME NEW i
      PROVE  IsFiniteSet(Refs(t, i))
  <2>1. Refs(t, i) \in SUBSET EntryIds(t)
    BY DEF Refs
  <2> QED BY <1>2, <2>1, FS_Subset
<1> QED BY <1>2, <1>3, FS_CardinalityType DEF Count

\* No entry names an inode that nothing counts.
LEMMA NoRefs ==
    ASSUME NEW t, NEW i, Count(t, i) <= 0
    PROVE  \A x \in EntryIds(t) : At(t, x).inum # i
<1>1. Count(t, i) = 0
  BY RefsFinite
<1>2. Refs(t, i) = {}
  BY <1>1, RefsFinite, FS_EmptySet DEF Count
<1> QED BY <1>2 DEF Refs

\* Tables with the same entries
SameEnts(t, u) == \A i \in Inums : u[i].ents = t[i].ents

LEMMA SameEntsSame ==
    ASSUME NEW t, NEW u, SameEnts(t, u)
    PROVE  /\ EntryIds(u) = EntryIds(t)
           /\ \A x \in EntryIds(t) : At(u, x) = At(t, x)
           /\ \A i : Refs(u, i) = Refs(t, i)
           /\ \A i \in Inums : /\ Count(u, i) = Count(t, i)
                               /\ Count(t, i) \in Nat
           /\ \A d \in Inums : \A n : /\ Has(u, d, n) <=> Has(t, d, n)
                                      /\ Lookup(u, d, n) = Lookup(t, d, n)
           /\ NamesIn(u) = NamesIn(t)
<1>1. EntryIds(u) = EntryIds(t) /\ \A x \in EntryIds(t) : At(u, x) = At(t, x)
  BY DEF SameEnts, EntryIds, At
<1>2. \A i : Refs(u, i) = Refs(t, i)
  BY <1>1 DEF Refs
<1>3. \A d \in Inums : \A n : Has(u, d, n) <=> Has(t, d, n)
  BY DEF SameEnts, Has
<1>4. \A d \in Inums : \A n : Lookup(u, d, n) = Lookup(t, d, n)
  BY Zenon DEF SameEnts, Lookup, First
<1>5. NamesIn(u) = NamesIn(t)
  BY <1>1 DEF NamesIn
<1>6. \A i \in Inums : /\ Count(u, i) = Count(t, i)
                       /\ Count(t, i) \in Nat
  BY <1>2, RefsFinite DEF Count
<1> QED BY <1>1, <1>2, <1>3, <1>4, <1>5, <1>6

\* An entry that is added is one more for the inode it names,
LEMMA AddedRefs ==
    ASSUME NEW t, TableOK(t), NEW d \in Inums, IsDir(t, d), Fits(t, d),
           NEW n \in NameSet \cup {NoName}, NEW i \in Inums,
           NEW u, u = Added(t, d, n, i), NEW j \in Inums
    PROVE  Count(u, j) =
               Count(t, j) + (IF j = i THEN 1 ELSE 0)
<1>1. /\ NextPlace(t, d) \notin EntryIds(t)
      /\ EntryIds(u) = EntryIds(t) \cup {NextPlace(t, d)}
      /\ \A x \in EntryIds(t) : At(u, x) = At(t, x)
      /\ At(u, NextPlace(t, d)) = [name |-> n, inum |-> i]
  BY AddedTable
<1>2. CASE j = i
  <2>1. Refs(u, j) = Refs(t, j) \cup {NextPlace(t, d)} /\ NextPlace(t, d) \notin Refs(t, j)
    BY <1>1, <1>2 DEF Refs
  <2> QED BY <1>2, <2>1, RefsFinite, FS_AddElement DEF Count
<1>3. CASE j # i
  <2>1. Refs(u, j) = Refs(t, j)
    BY <1>1, <1>3 DEF Refs
  <2> QED BY <1>3, <2>1, RefsFinite DEF Count
<1> QED BY <1>2, <1>3

\* and one that is removed is one less.
LEMMA RemovedRefs ==
    ASSUME NEW t, TableOK(t), NEW d \in Inums, NEW n, Has(t, d, n),
           NEW u, u = WithoutFirst(t, d, n), NEW j \in Inums
    PROVE  Count(u, j) =
               Count(t, j) - (IF j = Lookup(t, d, n) THEN 1 ELSE 0)
<1> DEFINE k == First(t, d, n)
           T == Refs(t, j) \ {<<d, k>>}
           f == [x \in Refs(u, j) |-> Before(d, k, x)]
<1>1. /\ \A x \in EntryIds(u) : /\ Before(d, k, x) \in EntryIds(t) \ {<<d, k>>}
                                /\ At(u, x) = At(t, Before(d, k, x))
      /\ \A x, y \in EntryIds(u) : Before(d, k, x) = Before(d, k, y) => x = y
      /\ \A y \in EntryIds(t) \ {<<d, k>>} : \E x \in EntryIds(u) : Before(d, k, x) = y
  BY RemovedTable
<1>2. <<d, k>> \in EntryIds(t) /\ At(t, <<d, k>>).inum = Lookup(t, d, n)
  BY FirstEntry DEF At, Lookup
<1> HIDE DEF k
<1>3. f \in Bijection(Refs(u, j), T)
  <2>1. f \in [Refs(u, j) -> T]
    BY <1>1 DEF Refs
  <2>2. \A x, y \in Refs(u, j) : f[x] = f[y] => x = y
    BY <1>1 DEF Refs
  <2>3. \A y \in T : \E x \in Refs(u, j) : f[x] = y
    BY <1>1 DEF Refs
  <2> QED BY <2>1, <2>2, <2>3 DEF Bijection, Injection, Surjection, IsInjective
<1>4. Count(u, j) = Cardinality(T)
  BY <1>3, RefsFinite, FS_Bijection DEF Count, ExistsBijection
<1>5. <<d, k>> \in Refs(t, j) <=> j = Lookup(t, d, n)
  BY <1>2 DEF Refs
<1>6. Cardinality(T) = IF <<d, k>> \in Refs(t, j) THEN Count(t, j) - 1
                       ELSE Count(t, j)
  BY RefsFinite, FS_RemoveElement DEF Count
<1> QED BY <1>4, <1>5, <1>6, RefsFinite DEF Count
-----------------------------------------------------------------------------
(* One table.  An operation changes it in a few steps; each keeps it sound. *)

LinksCover(t) == \A i \in Inums : Count(t, i) <= t[i].num_links
Sound(t)      == TableOK(t) /\ LinksCover(t)

\* What an entry names is in use: it has a link.
LEMMA NamedUsed ==
    ASSUME NEW t, Sound(t), NEW x \in EntryIds(t)
    PROVE  At(t, x).inum \in Used(t)
<1> DEFINE i == At(t, x).inum
<1>1. i \in Inums
  BY EntryPlaces DEF Sound, Entry
<1>2. CASE t[i].mode = "free"
  <2>1. t[i].num_links = 0
    BY <1>1, <1>2 DEF Sound, TableOK
  <2>2. Count(t, i) <= 0
    BY <1>1, <2>1 DEF Sound, LinksCover
  <2> QED BY <2>2, NoRefs
<1> QED BY <1>1, <1>2 DEF Used

\* The same for the entry that Get_Inode finds
LEMMA FoundUsed ==
    ASSUME NEW t, Sound(t), NEW d \in Inums, NEW n, Has(t, d, n)
    PROVE  /\ Lookup(t, d, n) \in Used(t)
           /\ Count(t, Lookup(t, d, n)) > 0
           /\ t[Lookup(t, d, n)].num_links > 0
           /\ IsDir(t, d) /\ t[d].ents # <<>>
<1> DEFINE x == <<d, First(t, d, n)>>
           s == Lookup(t, d, n)
<1>1. TableOK(t)
  BY DEF Sound
<1>2. x \in EntryIds(t) /\ s \in Inums
  BY <1>1, FirstEntry
<1>3. At(t, x).inum = s
  BY DEF At, Lookup
<1>4. s \in Used(t)
  BY <1>2, <1>3, NamedUsed
<1>5. Count(t, s) > 0
  <2>1. Count(t, s) \in Nat
    BY RefsFinite
  <2> QED BY <1>2, <1>3, <2>1, NoRefs
<1>6. t[s].num_links > 0
  <2>1. t[s].num_links \in Nat
    BY <1>1, <1>2, DirAssumption DEF TableOK, Inode
  <2>2. t[s].num_links # 0
    BY <1>1, <1>4 DEF Used, TableOK
  <2> QED BY <2>1, <2>2
<1>7. t[d].ents # <<>>
  BY DEF Has
<1>8. IsDir(t, d)
  BY <1>1, <1>7 DEF TableOK, IsDir
<1> QED BY <1>4, <1>5, <1>6, <1>7, <1>8

\* Outside S, u keeps of t the entries, the modes of what has a name, and
\* gives nothing a name.
Kept(t, u, S) ==
    \A i \in Inums \ S :
        /\ u[i].ents = t[i].ents
        /\ Count(u, i) <= Count(t, i)
        /\ Count(u, i) > 0 => u[i].mode = t[i].mode

\* Tables whose inodes have the same modes
SameModes(t, u) == \A i \in Inums : u[i].mode = t[i].mode

\* Get_New_Ino finds a free inode if there is one.
LEMMA NewInoFree ==
    ASSUME NEW t, Used(t) # Inums
    PROVE  NewIno(t) \in Inums /\ NewIno(t) \notin Used(t)
<1>1. Inums \ Used(t) \in SUBSET Nat /\ Inums \ Used(t) # {}
  BY DirAssumption DEF Used, Inums
<1>2. PICK i \in Inums \ Used(t) : \A j \in Inums \ Used(t) : i <= j
  BY <1>1, LeastNatural
<1>3. i \in Inums /\ i \notin Used(t) /\ \A j \in 0 .. i - 1 : j \in Used(t)
  BY <1>2, DirAssumption DEF Inums
<1> QED BY <1>3 DEF NewIno

\* Link counts change, and modes of what has no name, but no entry.
LEMMA SoundSame ==
    ASSUME NEW t, NEW u, TableOK(u), SameEnts(t, u),
           \A j \in Inums : /\ Count(t, j) <= u[j].num_links
                            /\ Count(t, j) > 0 => u[j].mode = t[j].mode
    PROVE  Sound(u) /\ Kept(t, u, {})
<1>1. \A j \in Inums : Count(u, j) = Count(t, j) /\ Count(t, j) \in Nat
  BY SameEntsSame
<1>2. LinksCover(u)
  BY <1>1 DEF LinksCover
<1>3. Kept(t, u, {})
  BY <1>1 DEF Kept, SameEnts
<1> QED BY <1>2, <1>3 DEF Sound

\* It is taken,
LEMMA TakenTable ==
    ASSUME NEW t, Sound(t), NEW i \in Inums, i \notin Used(t),
           NEW mode \in {"file", "dir"},
           NEW u, u = [t EXCEPT ![i] = NewInode(mode)]
    PROVE  /\ Sound(u) /\ SameEnts(t, u) /\ Kept(t, u, {})
           /\ Count(t, i) = 0
           /\ u[i].mode = mode /\ u[i].num_links = 1
           /\ \A j \in Inums \ {i} : u[j] = t[j]
<1>1. /\ t \in [Inums -> Inode] /\ t[i].mode = "free"
      /\ t[i].num_links = 0 /\ t[i].ents = <<>>
  BY DEF Sound, TableOK, Used
<1>2. NewInode(mode) \in Inode
  BY DirAssumption DEF NewInode, Inode
<1>3. /\ u \in [Inums -> Inode] /\ u[i] = NewInode(mode)
      /\ \A j \in Inums \ {i} : u[j] = t[j]
  BY <1>1, <1>2
<1>4. SameEnts(t, u)
  BY <1>1, <1>3 DEF SameEnts, NewInode
<1>5. Count(t, i) = 0
  <2>1. Count(t, i) <= 0
    BY <1>1 DEF Sound, LinksCover
  <2> QED BY <2>1, RefsFinite DEF Count
<1>6. TableOK(u)
  <2>1. Len(<<>>) <= MaxEntries
    BY DirAssumption
  <2> QED BY <1>3, <2>1 DEF Sound, TableOK, NewInode
<1>7. ASSUME NEW j \in Inums
      PROVE  /\ Count(t, j) <= u[j].num_links
             /\ Count(t, j) > 0 => u[j].mode = t[j].mode
  <2>1. CASE j = i
    BY <1>3, <1>5, <2>1 DEF NewInode
  <2>2. CASE j # i
    <3>1. u[j] = t[j]
      BY <1>3, <2>2
    <3> QED BY <3>1, Zenon DEF Sound, LinksCover
  <2> QED BY <2>1, <2>2
<1>8. Sound(u) /\ Kept(t, u, {})
  BY <1>4, <1>6, <1>7, SoundSame, Zenon
<1> QED BY <1>3, <1>4, <1>5, <1>8 DEF NewInode

\* a link is counted,
LEMMA CountedFields ==
    ASSUME NEW t, Sound(t), NEW s \in Used(t), t[s].num_links < MaxLinks,
           NEW u, u = Counted(t, s)
    PROVE  /\ u \in [Inums -> Inode]
           /\ \A j \in Inums : u[j].mode = t[j].mode /\ u[j].ents = t[j].ents
           /\ u[s].num_links = t[s].num_links + 1
           /\ \A j \in Inums \ {s} : u[j] = t[j]
<1>1. /\ t \in [Inums -> Inode] /\ s \in Inums
      /\ t[s].num_links \in Nat
  BY DirAssumption DEF Sound, TableOK, Used, Inode
<1>2. t[s].num_links + 1 \in 0 .. MaxLinks
  BY <1>1, DirAssumption
<1> QED BY <1>1, <1>2 DEF Counted, Inode

LEMMA CountedSound ==
    ASSUME NEW t, Sound(t), NEW s \in Used(t), NEW u, u \in [Inums -> Inode],
           \A j \in Inums : u[j].mode = t[j].mode /\ u[j].ents = t[j].ents,
           u[s].num_links = t[s].num_links + 1,
           \A j \in Inums \ {s} : u[j] = t[j]
    PROVE  Sound(u) /\ SameEnts(t, u) /\ Kept(t, u, {})
<1>1. s \in Inums /\ t[s].num_links \in Nat /\ t[s].mode # "free"
  BY DirAssumption DEF Sound, TableOK, Used, Inode
<1>2. TableOK(u)
  <2>1. u[s].num_links # 0 /\ u[s].mode # "free"
    BY <1>1
  <2> QED BY <2>1 DEF Sound, TableOK
<1>3. SameEnts(t, u)
  BY DEF SameEnts
<1>4. ASSUME NEW j \in Inums
      PROVE  Count(t, j) <= u[j].num_links
  <2>1. Count(t, j) \in Nat /\ Count(t, j) <= t[j].num_links
    BY RefsFinite DEF Sound, LinksCover, Count
  <2>2. CASE j = s
    BY <1>1, <2>1, <2>2
  <2>3. CASE j # s
    BY <2>1, <2>3
  <2> QED BY <2>2, <2>3
<1> QED BY <1>2, <1>3, <1>4, SoundSame

LEMMA CountedTable ==
    ASSUME NEW t, Sound(t), NEW s \in Used(t), t[s].num_links < MaxLinks,
           NEW u, u = Counted(t, s)
    PROVE  /\ Sound(u) /\ SameEnts(t, u) /\ Kept(t, u, {})
           /\ \A j \in Inums : u[j].mode = t[j].mode
           /\ u[s].num_links = t[s].num_links + 1
           /\ \A j \in Inums \ {s} : u[j] = t[j]
<1>1. /\ u \in [Inums -> Inode]
      /\ \A j \in Inums : u[j].mode = t[j].mode /\ u[j].ents = t[j].ents
      /\ u[s].num_links = t[s].num_links + 1
      /\ \A j \in Inums \ {s} : u[j] = t[j]
  BY CountedFields
<1>2. Sound(u) /\ SameEnts(t, u) /\ Kept(t, u, {})
  BY <1>1, CountedSound
<1> QED BY <1>1, <1>2

\* an entry is added for a link that was counted,
LEMMA AddedSound ==
    ASSUME NEW t, Sound(t), NEW d \in Inums, IsDir(t, d), Fits(t, d),
           NEW n \in NameSet \cup {NoName}, NEW i \in Inums, Count(t, i) < t[i].num_links,
           NEW u, u = Added(t, d, n, i)
    PROVE  Sound(u) /\ Kept(t, u, {d, i}) /\ SameModes(t, u)
<1>1. /\ TableOK(u)
      /\ \A j \in Inums : u[j].mode = t[j].mode /\ u[j].num_links = t[j].num_links
      /\ \A j \in Inums \ {d} : u[j].ents = t[j].ents
  BY AddedTable DEF Sound
<1>2. ASSUME NEW j \in Inums
      PROVE  /\ Count(t, j) \in Nat /\ Count(t, j) <= t[j].num_links
             /\ Count(u, j) = Count(t, j) + (IF j = i THEN 1 ELSE 0)
  <2>1. Count(u, j) = Count(t, j) + (IF j = i THEN 1 ELSE 0)
    BY AddedRefs DEF Sound
  <2> QED BY <2>1, RefsFinite DEF Count, Sound, LinksCover
<1>3. ASSUME NEW j \in Inums
      PROVE  Count(u, j) <= u[j].num_links
  <2>1. t[j].num_links \in Nat
    BY DirAssumption DEF Sound, TableOK, Inode
  <2>2. CASE j = i
    BY <1>1, <1>2, <2>1, <2>2
  <2>3. CASE j # i
    BY <1>1, <1>2, <2>1, <2>3
  <2> QED BY <2>2, <2>3
<1>4. Kept(t, u, {d, i})
  BY <1>1, <1>2 DEF Kept
<1> QED BY <1>1, <1>3, <1>4 DEF Sound, LinksCover, SameModes

\* one is removed,
LEMMA RemovedSound ==
    ASSUME NEW t, Sound(t), NEW d \in Inums, NEW n, Has(t, d, n),
           NEW u, u = WithoutFirst(t, d, n)
    PROVE  /\ Sound(u) /\ Kept(t, u, {d}) /\ SameModes(t, u)
           /\ \A j \in Inums \ {d} : u[j].ents = t[j].ents
           /\ Count(u, Lookup(t, d, n)) < u[Lookup(t, d, n)].num_links
<1> DEFINE s == Lookup(t, d, n)
<1>0. TableOK(t) /\ s \in Inums
  BY FirstEntry DEF Sound
<1>1. /\ TableOK(u)
      /\ \A j \in Inums : u[j].mode = t[j].mode /\ u[j].num_links = t[j].num_links
      /\ \A j \in Inums \ {d} : u[j].ents = t[j].ents
  BY <1>0, RemovedTable
<1> HIDE DEF s
<1>2. ASSUME NEW j \in Inums
      PROVE  /\ Count(t, j) \in Nat /\ Count(t, j) <= t[j].num_links
             /\ Count(u, j) = Count(t, j) - (IF j = s THEN 1 ELSE 0)
  <2>1. Count(u, j) = Count(t, j) - (IF j = s THEN 1 ELSE 0)
    BY <1>0, RemovedRefs DEF s
  <2> QED BY <2>1, RefsFinite DEF Count, Sound, LinksCover
<1>3. ASSUME NEW j \in Inums
      PROVE  Count(u, j) <= u[j].num_links /\ (j = s => Count(u, j) < u[j].num_links)
  <2>1. t[j].num_links \in Nat
    BY DirAssumption DEF Sound, TableOK, Inode
  <2>2. CASE j = s
    BY <1>1, <1>2, <2>1, <2>2
  <2>3. CASE j # s
    BY <1>1, <1>2, <2>1, <2>3
  <2> QED BY <2>2, <2>3
<1>4. Kept(t, u, {d})
  BY <1>1, <1>2 DEF Kept
<1>5. Count(u, s) < u[s].num_links
  BY <1>0, <1>3
<1> QED BY <1>1, <1>3, <1>4, <1>5 DEF Sound, LinksCover, SameModes, s

\* and the inode loses the link, and is freed with the last.
LEMMA DroppedTable ==
    ASSUME NEW t, Sound(t), NEW s \in Inums, Count(t, s) < t[s].num_links,
           t[s].ents = <<>>,
           NEW u, u = Dropped(t, s)
    PROVE  /\ Sound(u) /\ SameEnts(t, u) /\ Kept(t, u, {})
           /\ \A j \in Inums \ {s} : u[j] = t[j]
           /\ u[s].mode \in {t[s].mode, "free"}
<1>1. /\ t \in [Inums -> Inode] /\ t[s].num_links \in Nat
      /\ Count(t, s) \in Nat
      /\ t[s].mode # "free"
  <2>1. Count(t, s) \in Nat
    BY RefsFinite DEF Count
  <2>2. t \in [Inums -> Inode] /\ t[s].num_links \in Nat
    BY DirAssumption DEF Sound, TableOK, Inode
  <2>3. t[s].num_links # 0
    BY <2>1, <2>2
  <2> QED BY <2>1, <2>2, <2>3 DEF Sound, TableOK
<1>2. CASE t[s].num_links = 1
  <2>1. FreeInode \in Inode
    BY DirAssumption DEF FreeInode, Inode
  <2>2. /\ u \in [Inums -> Inode] /\ u[s] = FreeInode
        /\ \A j \in Inums \ {s} : u[j] = t[j]
    BY <1>1, <1>2, <2>1 DEF Dropped
  <2>3. Len(<<>>) <= MaxEntries
    BY DirAssumption
  <2>4. TableOK(u)
    BY <2>2, <2>3 DEF Sound, TableOK, FreeInode
  <2>5. SameEnts(t, u)
    BY <2>2 DEF SameEnts, FreeInode
  <2>6. ASSUME NEW j \in Inums
        PROVE  /\ Count(t, j) <= u[j].num_links
               /\ Count(t, j) > 0 => u[j].mode = t[j].mode
    <3>1. CASE j = s
      <4>1. Count(t, s) = 0
        BY <1>1, <1>2
      <4> QED BY <2>2, <3>1, <4>1 DEF FreeInode
    <3>2. CASE j # s
      <4>1. u[j] = t[j]
        BY <2>2, <3>2
      <4> QED BY <4>1, Zenon DEF Sound, LinksCover
    <3> QED BY <3>1, <3>2
  <2>7. Sound(u) /\ Kept(t, u, {})
    BY <2>4, <2>5, <2>6, SoundSame, Zenon
  <2> QED BY <2>2, <2>5, <2>7 DEF FreeInode
<1>3. CASE t[s].num_links # 1
  <2> DEFINE v == [t EXCEPT ![s].num_links = @ - 1]
  <2>1. u = v
    BY <1>3 DEF Dropped
  <2>2. t[s].num_links - 1 \in 0 .. MaxLinks /\ t[s].num_links - 1 # 0
    <3>1. t[s].num_links \in 0 .. MaxLinks
      BY DEF Sound, TableOK, Inode
    <3>2. t[s].num_links # 0
      BY <1>1 DEF Sound, TableOK
    <3> QED BY <1>1, <1>3, <3>1, <3>2, DirAssumption
  <2>3. /\ v \in [Inums -> Inode]
        /\ \A j \in Inums : v[j].mode = t[j].mode /\ v[j].ents = t[j].ents
        /\ v[s].num_links = t[s].num_links - 1
        /\ \A j \in Inums \ {s} : v[j] = t[j]
    BY <1>1, <2>2 DEF Inode
  <2> HIDE DEF v
  <2>4. TableOK(v)
    BY <1>1, <2>2, <2>3 DEF Sound, TableOK
  <2>5. SameEnts(t, v)
    BY <2>3 DEF SameEnts
  <2>6. ASSUME NEW j \in Inums
        PROVE  /\ Count(t, j) <= v[j].num_links
               /\ Count(t, j) > 0 => v[j].mode = t[j].mode
    <3>1. CASE j = s
      BY <1>1, <2>3, <3>1
    <3>2. CASE j # s
      <4>1. v[j] = t[j]
        BY <2>3, <3>2
      <4> QED BY <4>1, Zenon DEF Sound, LinksCover
    <3> QED BY <3>1, <3>2
  <2>7. Sound(v) /\ Kept(t, v, {})
    BY <2>4, <2>5, <2>6, SoundSame, Zenon
  <2> QED BY <2>1, <2>3, <2>5, <2>7
<1> QED BY <1>2, <1>3

-----------------------------------------------------------------------------
(* What an operation does to the table in memory *)

LEMMA KeptTrans ==
    ASSUME NEW t, NEW v, NEW u, NEW A, NEW B, Kept(t, v, A), Kept(v, u, B)
    PROVE  Kept(t, u, A \cup B)
<1>1. \A i \in Inums : Count(t, i) \in Nat /\ Count(v, i) \in Nat /\ Count(u, i) \in Nat
  BY RefsFinite DEF Count
<1> QED BY <1>1 DEF Kept

LEMMA SameFits ==
    ASSUME NEW t, NEW v, SameEnts(t, v), NEW d \in Inums
    PROVE  Fits(v, d) <=> Fits(t, d)
BY DEF SameEnts, Fits

\* What is a directory stays one.
Grows(t, u) == \A i \in Inums : IsDir(t, i) => IsDir(u, i)

\* Create: a free inode is taken, and gets an entry
LEMMA CreatedTable ==
    ASSUME NEW t, Sound(t), Used(t) # Inums, NEW d \in Inums, IsDir(t, d), Fits(t, d),
           NEW n \in NameSet \cup {NoName}, NEW mode \in {"file", "dir"},
           NEW i, i = NewIno(t),
           NEW v, v = [t EXCEPT ![i] = NewInode(mode)],
           NEW u, u = Added(v, d, n, i)
    PROVE  /\ Sound(v) /\ SameEnts(t, v) /\ IsDir(v, d) /\ Fits(v, d)
           /\ Sound(u) /\ Kept(t, u, {d, i})
           /\ Grows(t, v)
<1>1. i \in Inums /\ i \notin Used(t)
  BY NewInoFree
<1>2. /\ Sound(v) /\ SameEnts(t, v) /\ Kept(t, v, {})
      /\ Count(t, i) = 0 /\ v[i].num_links = 1
      /\ \A j \in Inums \ {i} : v[j] = t[j]
  <2>1. Sound(v) /\ SameEnts(t, v) /\ Kept(t, v, {})
    BY <1>1, TakenTable
  <2>2. Count(t, i) = 0 /\ v[i].num_links = 1
    BY <1>1, TakenTable
  <2>3. \A j \in Inums \ {i} : v[j] = t[j]
    BY <1>1, TakenTable
  <2> QED BY <2>1, <2>2, <2>3
<1>3. t[i].mode = "free"
  BY <1>1 DEF Used
<1>4. Grows(t, v)
  BY <1>2, <1>3 DEF IsDir, Grows
<1>5. IsDir(v, d) /\ Fits(v, d)
  BY <1>2, <1>4, SameFits DEF Grows
<1>6. Count(v, i) < v[i].num_links
  <2>1. Count(v, i) = Count(t, i)
    BY <1>1, <1>2, SameEntsSame
  <2> QED BY <1>2, <2>1
<1>7. Sound(u) /\ Kept(v, u, {d, i}) /\ SameModes(v, u)
  BY <1>1, <1>2, <1>5, <1>6, AddedSound
<1>8. Kept(t, u, {} \cup {d, i})
  BY <1>2, <1>7, KeptTrans
<1> QED BY <1>2, <1>4, <1>5, <1>7, <1>8

\* Link: a link is counted, and gets an entry
LEMMA LinkedTable ==
    ASSUME NEW t, Sound(t), NEW s \in Used(t), t[s].num_links < MaxLinks,
           NEW d \in Inums, IsDir(t, d), Fits(t, d), NEW n \in NameSet \cup {NoName},
           NEW v, v = Counted(t, s),
           NEW u, u = Linked(t, s, d, n)
    PROVE  /\ Sound(v) /\ SameEnts(t, v) /\ IsDir(v, d) /\ Fits(v, d)
           /\ u = Added(v, d, n, s)
           /\ Sound(u) /\ Kept(t, u, {d, s}) /\ SameModes(t, u)
<1>1. /\ Sound(v) /\ SameEnts(t, v) /\ Kept(t, v, {})
      /\ \A j \in Inums : v[j].mode = t[j].mode
      /\ v[s].num_links = t[s].num_links + 1
  BY CountedTable
<1>2. IsDir(v, d) /\ Fits(v, d) /\ s \in Inums
  BY <1>1, SameFits DEF IsDir, Used
<1>3. Count(v, s) < v[s].num_links
  <2>1. Count(v, s) = Count(t, s) /\ Count(t, s) \in Nat
    BY <1>1, <1>2, SameEntsSame
  <2>2. Count(t, s) <= t[s].num_links /\ t[s].num_links \in Nat
    BY <1>2, DirAssumption DEF Sound, LinksCover, TableOK, Inode
  <2> QED BY <1>1, <2>1, <2>2
<1>4. u = Added(v, d, n, s)
  BY DEF Linked
<1>5. Sound(u) /\ Kept(v, u, {d, s}) /\ SameModes(v, u)
  BY <1>1, <1>2, <1>3, <1>4, AddedSound
<1>6. Kept(t, u, {} \cup {d, s})
  BY <1>1, <1>5, KeptTrans
<1>7. SameModes(t, u)
  BY <1>1, <1>5 DEF SameModes
<1> QED BY <1>1, <1>2, <1>4, <1>5, <1>6, <1>7

\* Tables whose inodes have the same modes, but for one
ModesBut(t, u, s) == \A i \in Inums \ {s} : u[i].mode = t[i].mode

\* Delete: an entry goes, and with the last one the inode
LEMMA DeletedTable ==
    ASSUME NEW t, Sound(t), NEW d \in Inums, NEW n, Has(t, d, n),
           NEW s, s = Lookup(t, d, n), MayDelete(t, s),
           NEW v, v = WithoutFirst(t, d, n),
           NEW u, u = Deleted(t, d, n)
    PROVE  /\ Sound(v) /\ SameEnts(v, u)
           /\ Sound(u) /\ Kept(t, u, {d})
           /\ s \in Inums /\ s # d /\ t[s].ents = <<>>
           /\ ModesBut(t, u, s)
           /\ u[s].mode \in {t[s].mode, "free"}
<1>1. s \in Used(t) /\ t[d].ents # <<>>
  BY FoundUsed
<1>2. s \in Inums /\ t[s].ents = <<>>
  BY <1>1 DEF Used, MayDelete, IsDir, Sound, TableOK
<1>3. /\ Sound(v) /\ Kept(t, v, {d}) /\ SameModes(t, v)
      /\ \A j \in Inums \ {d} : v[j].ents = t[j].ents
      /\ Count(v, s) < v[s].num_links
  <2>1. Sound(v) /\ Kept(t, v, {d}) /\ SameModes(t, v)
    BY RemovedSound
  <2>2. Count(v, Lookup(t, d, n)) < v[Lookup(t, d, n)].num_links
    BY RemovedSound
  <2>3. TableOK(t)
    BY DEF Sound
  <2>4. \A j \in Inums \ {d} : v[j].ents = t[j].ents
    BY <2>3, RemovedTable
  <2> QED BY <2>1, <2>2, <2>4
<1>4. s # d /\ v[s].ents = <<>>
  BY <1>1, <1>2, <1>3
<1>5. u = Dropped(v, s)
  BY DEF Deleted
<1>6. /\ Sound(u) /\ SameEnts(v, u) /\ Kept(v, u, {})
      /\ \A j \in Inums \ {s} : u[j] = v[j]
      /\ u[s].mode \in {v[s].mode, "free"}
  BY <1>2, <1>3, <1>4, <1>5, DroppedTable
<1>7. Kept(t, u, {d} \cup {})
  BY <1>3, <1>6, KeptTrans
<1> QED BY <1>2, <1>3, <1>4, <1>6, <1>7 DEF SameModes, ModesBut

-----------------------------------------------------------------------------
(* The log behind it *)

Follows(l, t) ==
    /\ SameEnts(t, l)
    /\ \A x \in EntryIds(t) : l[At(t, x).inum].mode = t[At(t, x).inum].mode

\* An operation that flushes what it changes, as far as names are concerned,
\* leaves a log that is sound, and follows.
LEMMA FlushedTable ==
    ASSUME NEW l, Sound(l), NEW t, Follows(l, t), NEW u, Sound(u),
           NEW S, Kept(t, u, S),
           NEW m, m = Flushed(l, u, S)
    PROVE  Sound(m) /\ Follows(m, u)
<1>1. /\ \A i \in Inums : i \in S => m[i] = u[i]
      /\ \A i \in Inums : i \notin S => m[i] = l[i]
      /\ m \in [Inums -> Inode]
  BY DEF Flushed, Sound, TableOK
<1>2. SameEnts(u, m)
  BY <1>1 DEF Kept, Follows, SameEnts
<1>3. TableOK(m)
  BY <1>1 DEF Sound, TableOK
<1>4. ASSUME NEW i \in Inums
      PROVE  Count(m, i) <= m[i].num_links
  <2>1. Count(m, i) = Count(u, i) /\ Count(u, i) \in Nat
    BY <1>2, SameEntsSame
  <2>2. Count(l, i) = Count(t, i) /\ Count(t, i) \in Nat
    BY SameEntsSame DEF Follows
  <2>3. CASE i \in S
    BY <1>1, <2>1, <2>3 DEF Sound, LinksCover
  <2>4. CASE i \notin S
    <3>1. Count(u, i) <= Count(t, i) /\ m[i] = l[i]
      BY <1>1, <2>4 DEF Kept
    <3>2. Count(l, i) <= l[i].num_links /\ l[i].num_links \in Nat
      BY DirAssumption DEF Sound, LinksCover, TableOK, Inode
    <3> QED BY <2>1, <2>2, <3>1, <3>2
  <2> QED BY <2>3, <2>4
<1>5. ASSUME NEW x \in EntryIds(u)
      PROVE  m[At(u, x).inum].mode = u[At(u, x).inum].mode
  <2> DEFINE i == At(u, x).inum
  <2>1. i \in Inums
    BY EntryPlaces DEF Sound, Entry
  <2>2. Count(u, i) > 0
    <3>1. Count(u, i) \in Nat
      BY RefsFinite DEF Count
    <3>2. ~(Count(u, i) <= 0)
      BY NoRefs
    <3> QED BY <3>1, <3>2
  <2>3. CASE i \in S
    BY <1>1, <2>1, <2>3
  <2>4. CASE i \notin S
    <3>1. m[i] = l[i] /\ u[i].mode = t[i].mode /\ Count(u, i) <= Count(t, i)
      BY <1>1, <2>1, <2>2, <2>4 DEF Kept
    <3>2. Count(t, i) > 0
      <4>1. Count(t, i) \in Nat /\ Count(u, i) \in Nat
        BY RefsFinite DEF Count
      <4> QED BY <2>2, <3>1, <4>1
    <3>3. \E y \in EntryIds(t) : At(t, y).inum = i
      <4>1. Count(t, i) # 0
        BY <3>2
      <4>2. Refs(t, i) # {}
        BY <4>1, FS_EmptySet DEF Count
      <4> QED BY <4>2 DEF Refs
    <3> QED BY <3>1, <3>3 DEF Follows
  <2> QED BY <2>3, <2>4
<1> QED BY <1>2, <1>3, <1>4, <1>5 DEF Sound, LinksCover, Follows

\* An operation that flushes nothing, because it changes only what has no name
LEMMA KeptFollows ==
    ASSUME NEW l, Sound(l), NEW t, Follows(l, t), NEW u, Sound(u), Kept(t, u, {})
    PROVE  Follows(l, u)
<1>1. l = Flushed(l, u, {})
  BY DEF Flushed, Sound, TableOK
<1> QED BY <1>1, FlushedTable

LEMMA KeptSelf ==
    ASSUME NEW t, NEW S
    PROVE  Kept(t, t, S) /\ Follows(t, t)
<1>1. \A i \in Inums : Count(t, i) <= Count(t, i)
  BY RefsFinite DEF Count
<1> QED BY <1>1 DEF Kept, Follows, SameEnts

\* No file system is mounted.
LEMMA NoInodesSound == Sound(NoInodes)
<1>1. TableOK(NoInodes)
  <2>1. FreeInode \in Inode
    BY DirAssumption DEF FreeInode, Inode
  <2>2. NoInodes \in [Inums -> Inode]
    BY <2>1 DEF NoInodes
  <2>3. Len(<<>>) <= MaxEntries
    BY DirAssumption
  <2> QED BY <2>2, <2>3 DEF TableOK, NoInodes, FreeInode
<1>2. \A i \in Inums : Refs(NoInodes, i) = {}
  BY DEF Refs, EntryIds, NoInodes, FreeInode
<1>3. \A i \in Inums : Count(NoInodes, i) = 0
  BY <1>2, FS_EmptySet DEF Count
<1>4. \A i \in Inums : Count(NoInodes, i) <= NoInodes[i].num_links
  BY <1>3 DEF NoInodes, FreeInode
<1> QED BY <1>1, <1>4 DEF Sound, LinksCover

\* The root of a file system that is mounted for the first time
LEMMA RootMade ==
    ASSUME NEW t, Sound(t), Used(t) = {},
           NEW v, v = [t EXCEPT ![ROOT] = NewInode("dir")],
           NEW u, u = Added(v, ROOT, NoName, ROOT)
    PROVE  Sound(u)
<1>1. ROOT \in Inums /\ ROOT \notin Used(t)
  BY DirAssumption DEF Inums, ROOT
<1>2. /\ Sound(v) /\ SameEnts(t, v)
      /\ Count(t, ROOT) = 0 /\ v[ROOT].mode = "dir" /\ v[ROOT].num_links = 1
  <2> HIDE DEF ROOT
  <2>1. Sound(v) /\ SameEnts(t, v)
    BY <1>1, TakenTable
  <2>2. Count(t, ROOT) = 0 /\ v[ROOT].mode = "dir" /\ v[ROOT].num_links = 1
    BY <1>1, TakenTable
  <2> QED BY <2>1, <2>2
<1>3. IsDir(v, ROOT) /\ Fits(v, ROOT)
  <2>1. t[ROOT].mode = "free"
    BY <1>1 DEF Used
  <2>2. v[ROOT].ents = <<>>
    BY <1>1, <1>2, <2>1 DEF Sound, TableOK, SameEnts
  <2> QED BY <1>2, <2>2, DirAssumption DEF IsDir, Fits
<1>4. Count(v, ROOT) < v[ROOT].num_links
  BY <1>1, <1>2, SameEntsSame
<1> QED BY <1>1, <1>2, <1>3, <1>4, AddedSound
-----------------------------------------------------------------------------
(* The invariant of types, links and generations *)

SoundInv ==
    /\ Sound(inode) /\ Sound(log) /\ Sound(saved)
    /\ Follows(log, inode)
    /\ up \in BOOLEAN /\ clobbered \in BOOLEAN

LEMMA SoundInit == Init => SoundInv
BY NoInodesSound, KeptSelf DEF Init, SoundInv

LEMMA SoundMount == SoundInv /\ Mount => SoundInv'
<1> SUFFICES ASSUME SoundInv, Mount PROVE SoundInv'
  OBVIOUS
<1> DEFINE root == Added([saved EXCEPT ![ROOT] = NewInode("dir")], ROOT, NoName, ROOT)
<1>1. Used(saved) = {} => Sound(root)
  BY RootMade DEF SoundInv
<1>2. Sound(inode')
  BY <1>1 DEF Mount, SoundInv
<1>3. log' = inode' /\ saved' = saved /\ up' = TRUE /\ clobbered' = clobbered
  BY DEF Mount
<1> QED BY <1>2, <1>3, KeptSelf DEF SoundInv

LEMMA SoundCreate ==
    ASSUME SoundInv, NEW d \in Inums, NEW n \in NameSet, NEW mode \in {"file", "dir"},
           Create(d, n, mode)
    PROVE  SoundInv'
<1> DEFINE i == NewIno(inode)
           v == [inode EXCEPT ![i] = NewInode(mode)]
<1>1. Sound(inode') /\ Kept(inode, inode', {d, i})
  BY CreatedTable DEF Create, SoundInv
<1>2. Sound(log') /\ Follows(log', inode')
  BY <1>1, FlushedTable DEF Create, SoundInv
<1> QED BY <1>1, <1>2 DEF Create, SoundInv

LEMMA SoundCreateTooLong ==
    ASSUME SoundInv, NEW mode \in {"file", "dir"}, CreateTooLong(mode)
    PROVE  SoundInv'
<1>1. NewIno(inode) \in Inums /\ NewIno(inode) \notin Used(inode)
  BY NewInoFree DEF CreateTooLong
<1>2. Sound(inode') /\ Kept(inode, inode', {})
  BY <1>1, TakenTable DEF CreateTooLong, SoundInv
<1>3. log' = log /\ Follows(log, inode')
  BY <1>2, KeptFollows DEF CreateTooLong, SoundInv
<1> QED BY <1>2, <1>3 DEF CreateTooLong, SoundInv

LEMMA SoundLink ==
    ASSUME SoundInv, NEW c \in Inums, NEW m \in NameSet, NEW d \in Inums, NEW n \in NameSet,
           Link(c, m, d, n)
    PROVE  SoundInv'
<1> DEFINE s == Lookup(inode, c, m)
<1>1. s \in Used(inode)
  BY FoundUsed DEF Link, SoundInv
<1>2. Sound(inode') /\ Kept(inode, inode', {d, s})
  BY <1>1, LinkedTable DEF Link, SoundInv
<1>3. Sound(log') /\ Follows(log', inode')
  BY <1>2, FlushedTable DEF Link, SoundInv
<1> QED BY <1>2, <1>3 DEF Link, SoundInv

LEMMA SoundLinkTooLong ==
    ASSUME SoundInv, NEW c \in Inums, NEW m \in NameSet, LinkTooLong(c, m)
    PROVE  SoundInv'
<1> DEFINE s == Lookup(inode, c, m)
<1>1. s \in Used(inode)
  BY FoundUsed DEF LinkTooLong, SoundInv
<1>2. Sound(inode') /\ Kept(inode, inode', {})
  BY <1>1, CountedTable DEF LinkTooLong, SoundInv
<1>3. log' = log /\ Follows(log, inode')
  BY <1>2, KeptFollows DEF LinkTooLong, SoundInv
<1> QED BY <1>2, <1>3 DEF LinkTooLong, SoundInv

LEMMA SoundDelete ==
    ASSUME SoundInv, NEW d \in Inums, NEW n \in NameSet, Delete(d, n)
    PROVE  SoundInv'
<1>1. Sound(inode') /\ Kept(inode, inode', {d})
  BY DeletedTable DEF Delete, SoundInv
<1>2. Sound(log') /\ Follows(log', inode')
  BY <1>1, FlushedTable DEF Delete, SoundInv
<1> QED BY <1>1, <1>2 DEF Delete, SoundInv

LEMMA SoundTouch ==
    ASSUME SoundInv, NEW c \in Inums, NEW m \in NameSet, Touch(c, m)
    PROVE  SoundInv'
<1>1. Kept(inode, inode, {Lookup(inode, c, m)})
  BY KeptSelf
<1>2. Sound(log') /\ Follows(log', inode)
  BY <1>1, FlushedTable DEF Touch, SoundInv
<1> QED BY <1>2 DEF Touch, SoundInv

LEMMA SoundDown ==
    ASSUME SoundInv, Unmount \/ Crash
    PROVE  SoundInv'
BY NoInodesSound, KeptSelf DEF Unmount, Crash, SoundInv

\* The old name still leads to the inode when LFS_Unlink looks it up again,
\* whatever LFS_Link has put behind it.
LEMMA SoundRename ==
    ASSUME SoundInv, NEW c \in Inums, NEW m \in NameSet, NEW d \in Inums, NEW n \in NameSet,
           Rename(c, m, d, n)
    PROVE  SoundInv'
<1> DEFINE s == Lookup(inode, c, m)
           t == Linked(inode, s, d, n)
           v == Counted(inode, s)
           l == Flushed(log, t, {d, s})
<1>1. s \in Used(inode)
  BY FoundUsed DEF Rename, SoundInv
<1>2. /\ Sound(v) /\ SameEnts(inode, v) /\ IsDir(v, d) /\ Fits(v, d)
      /\ t = Added(v, d, n, s)
      /\ Sound(t) /\ Kept(inode, t, {d, s})
  BY <1>1, LinkedTable DEF Rename, SoundInv
<1>3. Sound(l) /\ Follows(l, t)
  BY <1>2, FlushedTable DEF SoundInv
<1>4. Has(t, c, m) /\ Lookup(t, c, m) = s
  <2>1. Has(v, c, m) /\ Lookup(v, c, m) = s
    BY <1>2, SameEntsSame DEF Rename
  <2>2. TableOK(v) /\ s \in Inums
    BY <1>1, <1>2 DEF Sound, Used
  <2> QED BY <1>2, <2>1, <2>2, AddedLookup
<1>5. CASE MayDelete(t, s)
  <2>1. inode' = Deleted(t, c, m) /\ log' = Flushed(l, inode', {c})
    BY <1>5 DEF Rename
  <2>2. Sound(inode') /\ Kept(t, inode', {c})
    BY <1>2, <1>4, <1>5, <2>1, DeletedTable
  <2>3. Sound(log') /\ Follows(log', inode')
    BY <1>2, <1>3, <2>1, <2>2, FlushedTable
  <2> QED BY <2>2, <2>3 DEF Rename, SoundInv
<1>6. CASE ~MayDelete(t, s)
  <2>1. inode' = t /\ log' = l
    BY <1>6 DEF Rename
  <2> QED BY <1>2, <1>3, <2>1 DEF Rename, SoundInv
<1> QED BY <1>5, <1>6

LEMMA SoundNext == SoundInv /\ [Next]_vars => SoundInv'
<1> SUFFICES ASSUME SoundInv, [Next]_vars PROVE SoundInv'
  OBVIOUS
<1>1. CASE Mount
  BY <1>1, SoundMount
<1>2. CASE Unmount \/ Crash
  BY <1>2, SoundDown
<1>3. ASSUME NEW mode \in {"file", "dir"}, CreateTooLong(mode) PROVE SoundInv'
  BY <1>3, SoundCreateTooLong
<1>4. ASSUME NEW mode \in {"file", "dir"}, NEW d \in Inums, NEW n \in NameSet,
             Create(d, n, mode)
      PROVE  SoundInv'
  BY <1>4, SoundCreate
<1>5. ASSUME NEW d \in Inums, NEW n \in NameSet,
             Delete(d, n) \/ LinkTooLong(d, n) \/ Touch(d, n)
      PROVE  SoundInv'
  BY <1>5, SoundDelete, SoundLinkTooLong, SoundTouch
<1>6. ASSUME NEW c \in Inums, NEW m \in NameSet, NEW d \in Inums, NEW n \in NameSet,
             Link(c, m, d, n) \/ Rename(c, m, d, n)
      PROVE  SoundInv'
  BY <1>6, SoundLink, SoundRename
<1>7. CASE UNCHANGED vars
  BY <1>7 DEF vars, SoundInv
<1> QED BY <1>1, <1>2, <1>3, <1>4, <1>5, <1>6, <1>7 DEF Next

THEOREM SoundAlways == Spec => []SoundInv
BY SoundInit, SoundNext, PTL DEF Spec

\* The types of inodes in the three generations
THEOREM TypesHold == Spec => []TypeOK
<1>1. SoundInv => TypeOK
  BY DEF SoundInv, Sound, TypeOK
<1> QED BY <1>1, SoundAlways, PTL

\* LinksCoverEntries: an inode has as many links as names, or more, in memory,
\* in the log and on flash, so that Dir_Delete_File does not free it too early.
THEOREM LinksAreCovered == Spec => []LinksCoverEntries
<1>1. SoundInv => LinksCoverEntries
  BY DEF SoundInv, Sound, LinksCover, LinksCoverEntries, Count, Tables3
<1> QED BY <1>1, SoundAlways, PTL

\* EntriesNameUsed: no entry names a free inode, in any generation, although
\* inodes are freed in memory only.
THEOREM EntriesAreUsed == Spec => []EntriesNameUsed
<1>1. SoundInv => EntriesNameUsed
  BY NamedUsed DEF SoundInv, EntriesNameUsed, Tables3
<1> QED BY <1>1, SoundAlways, PTL

\* LogFollows: what an operation flushes is what a remount needs to find the
\* same names, at inodes of the same mode.
THEOREM LogKeepsUp == Spec => []LogFollows
<1>1. SoundInv => LogFollows
  BY DEF SoundInv, Follows, SameEnts, LogFollows
<1> QED BY <1>1, SoundAlways, PTL

-----------------------------------------------------------------------------
(* One table: names that are there once, in directories that can be        *)
(* reached.  A directory can be reached when it is in every closed set.    *)

Once(t)    == \A x, y \in EntryIds(t) :
                  x[1] = y[1] /\ At(t, x).name = At(t, y).name => x = y
Reached(t) == \A x \in EntryIds(t) : x[1] \in Reachable(t)
Tidy(t)    == Once(t) /\ Reached(t)

\* Where names are there once, Get_Inode finds every entry.
LEMMA OnceFound ==
    ASSUME NEW t, TableOK(t), Once(t), NEW x \in EntryIds(t)
    PROVE  /\ Has(t, x[1], At(t, x).name)
           /\ First(t, x[1], At(t, x).name) = x[2]
           /\ Lookup(t, x[1], At(t, x).name) = At(t, x).inum
<1> DEFINE d == x[1]
           n == At(t, x).name
           y == <<d, First(t, d, n)>>
<1>1. x = <<x[1], x[2]>> /\ d \in Inums /\ x[2] \in DOMAIN t[d].ents
  BY EntryPlaces DEF EntryIds
<1>2. Has(t, d, n)
  BY <1>1 DEF Has, At
<1>3. y \in EntryIds(t) /\ At(t, y).name = n
  BY <1>1, <1>2, FirstEntry DEF At
<1>4. x = y
  BY <1>3 DEF Once
<1> QED BY <1>1, <1>2, <1>4 DEF Lookup, At

\* A closed set, said of entries
Open(t, d, n, D, x) ==
    /\ x[1] \in D /\ At(t, x).name \in NameSet /\ <<x[1], At(t, x).name>> # <<d, n>>
    /\ IsDir(t, At(t, x).inum)

LEMMA ClosedEntries ==
    ASSUME NEW t, TableOK(t), Once(t), NEW d, NEW n, NEW D \in SUBSET Inums
    PROVE  Closed(t, d, n, D) <=>
               /\ ROOT \in D
               /\ \A x \in EntryIds(t) : Open(t, d, n, D, x) => At(t, x).inum \in D
<1>1. ASSUME Closed(t, d, n, D), NEW x \in EntryIds(t), Open(t, d, n, D, x)
      PROVE  At(t, x).inum \in D
  BY <1>1, OnceFound DEF Closed, Open
<1>2. ASSUME \A x \in EntryIds(t) : Open(t, d, n, D, x) => At(t, x).inum \in D,
             NEW e \in D, NEW m \in NameSet, Has(t, e, m), <<e, m>> # <<d, n>>,
             IsDir(t, Lookup(t, e, m))
      PROVE  Lookup(t, e, m) \in D
  <2> DEFINE x == <<e, First(t, e, m)>>
  <2>1. x \in EntryIds(t) /\ At(t, x).name = m /\ At(t, x).inum = Lookup(t, e, m)
    BY <1>2, FirstEntry DEF At, Lookup
  <2> QED BY <1>2, <2>1 DEF Open
<1>3. Closed(t, d, n, D) => ROOT \in D
  BY DEF Closed
<1>4. ASSUME ROOT \in D, \A x \in EntryIds(t) : Open(t, d, n, D, x) => At(t, x).inum \in D
      PROVE  Closed(t, d, n, D)
  BY <1>2, <1>4 DEF Closed
<1> QED BY <1>1, <1>3, <1>4

\* What can be reached without an entry can be reached.
LEMMA WithoutReachable ==
    ASSUME NEW t, NEW d, NEW n
    PROVE  DirsWithout(t, d, n) \subseteq Reachable(t)
<1>1. ASSUME NEW D, Closed(t, ROOT, NoName, D)
      PROVE  Closed(t, d, n, D)
  BY <1>1, DirAssumption DEF Closed
<1> QED BY <1>1 DEF Reachable, DirsWithout

\* More entries, and more directories that they name, reach more.
LEMMA MoreReachable ==
    ASSUME NEW t, TableOK(t), Once(t), NEW u, TableOK(u), Once(u),
           EntryIds(t) \subseteq EntryIds(u),
           \A x \in EntryIds(t) :
               /\ At(u, x) = At(t, x)
               /\ IsDir(t, At(t, x).inum) => IsDir(u, At(t, x).inum)
    PROVE  Reachable(t) \subseteq Reachable(u)
<1>1. ASSUME NEW D \in SUBSET Inums, Closed(u, ROOT, NoName, D)
      PROVE  Closed(t, ROOT, NoName, D)
  <2>1. /\ ROOT \in D
        /\ \A x \in EntryIds(u) : Open(u, ROOT, NoName, D, x) => At(u, x).inum \in D
    BY <1>1, ClosedEntries
  <2>2. \A x \in EntryIds(t) : Open(t, ROOT, NoName, D, x) => At(t, x).inum \in D
    BY <2>1 DEF Open
  <2> QED BY <2>1, <2>2, ClosedEntries
<1> QED BY <1>1 DEF Reachable, DirsWithout

LEMMA RootReachable ==
    ASSUME NEW t
    PROVE  ROOT \in Reachable(t)
<1>1. ROOT \in Inums
  BY DirAssumption DEF ROOT, Inums
<1> QED BY <1>1 DEF Reachable, DirsWithout, Closed

\* Tables with the same entries, and the same directories among what they name
LEMMA SameTidy ==
    ASSUME NEW t, TableOK(t), Tidy(t), NEW u, TableOK(u), SameEnts(t, u),
           \A x \in EntryIds(t) : IsDir(t, At(t, x).inum) => IsDir(u, At(t, x).inum)
    PROVE  Tidy(u) /\ Reachable(t) \subseteq Reachable(u)
<1>1. EntryIds(u) = EntryIds(t) /\ \A x \in EntryIds(t) : At(u, x) = At(t, x)
  BY SameEntsSame
<1>2. Once(u)
  BY <1>1 DEF Tidy, Once
<1>3. Reachable(t) \subseteq Reachable(u)
  BY <1>1, <1>2, MoreReachable DEF Tidy
<1> QED BY <1>1, <1>2, <1>3 DEF Tidy, Reached

\* A new name, in a directory that can be reached
LEMMA AddedTidy ==
    ASSUME NEW t, TableOK(t), Tidy(t), NEW d \in Reachable(t), IsDir(t, d), Fits(t, d),
           NEW n \in NameSet \cup {NoName}, ~Has(t, d, n), NEW i \in Inums,
           NEW u, u = Added(t, d, n, i)
    PROVE  Tidy(u)
<1>0. d \in Inums
  BY DEF Reachable, DirsWithout
<1>1. /\ TableOK(u) /\ NextPlace(t, d) \notin EntryIds(t)
      /\ EntryIds(u) = EntryIds(t) \cup {NextPlace(t, d)}
      /\ \A x \in EntryIds(t) : At(u, x) = At(t, x)
      /\ At(u, NextPlace(t, d)) = [name |-> n, inum |-> i]
      /\ \A j \in Inums : u[j].mode = t[j].mode
  BY <1>0, AddedTable
<1>2. \A x \in EntryIds(t) : x[1] = d => At(t, x).name # n
  <2>1. \A x \in EntryIds(t) : x[1] = d => x[2] \in DOMAIN t[d].ents
    BY DEF EntryIds
  <2> QED BY <2>1 DEF Has, At
<1>3. Once(u)
  <2>1. NextPlace(t, d)[1] = d
    BY DEF NextPlace
  <2> QED BY <1>1, <1>2, <2>1 DEF Tidy, Once
<1>4. Reachable(t) \subseteq Reachable(u)
  <2>1. \A x \in EntryIds(t) : At(t, x).inum \in Inums
    BY EntryPlaces DEF Entry
  <2>2. \A x \in EntryIds(t) : IsDir(t, At(t, x).inum) => IsDir(u, At(t, x).inum)
    BY <1>1, <2>1 DEF IsDir
  <2> QED BY <1>1, <1>3, <2>2, MoreReachable DEF Tidy
<1>5. Reached(u)
  BY <1>1, <1>4 DEF Tidy, Reached, NextPlace
<1> QED BY <1>3, <1>5 DEF Tidy

\* The name of something that has no entries goes: no path led through it.
LEMMA RemovedTidy ==
    ASSUME NEW t, TableOK(t), Tidy(t), NEW d \in Inums, NEW n, Has(t, d, n),
           NEW s, s = Lookup(t, d, n), t[s].ents = <<>>,
           NEW v, v = WithoutFirst(t, d, n),
           NEW u, TableOK(u), SameEnts(v, u),
           \A j \in Inums \ {s} : u[j].mode = t[j].mode
    PROVE  Tidy(u)
<1> DEFINE k == First(t, d, n)
<1>0. /\ s \in Inums /\ k \in DOMAIN t[d].ents /\ <<d, k>> \in EntryIds(t)
      /\ At(t, <<d, k>>).inum = s
  <2>1. s \in Inums /\ k \in 1 .. Len(t[d].ents) /\ <<d, k>> \in EntryIds(t)
    BY FirstEntry
  <2>2. k \in DOMAIN t[d].ents
    BY <2>1 DEF EntryIds
  <2> QED BY <2>1, <2>2 DEF At, Lookup
<1>1. /\ \A x \in EntryIds(v) : /\ Before(d, k, x) \in EntryIds(t) \ {<<d, k>>}
                                /\ At(v, x) = At(t, Before(d, k, x))
      /\ \A x, y \in EntryIds(v) : Before(d, k, x) = Before(d, k, y) => x = y
      /\ \A y \in EntryIds(t) \ {<<d, k>>} : \E x \in EntryIds(v) : Before(d, k, x) = y
  BY RemovedTable
<1>2. EntryIds(u) = EntryIds(v) /\ \A x \in EntryIds(v) : At(u, x) = At(v, x)
  BY SameEntsSame
<1>3. \A x : Before(d, k, x)[1] = x[1]
  BY DEF Before
<1>4. \A x \in EntryIds(t) : x[1] # s /\ At(t, x).inum \in Inums
  <2>1. \A x \in EntryIds(t) : At(t, x).inum \in Inums
    BY EntryPlaces DEF Entry
  <2>2. \A x \in EntryIds(t) : x[2] \in DOMAIN t[x[1]].ents
    BY DEF EntryIds
  <2> QED BY <2>1, <2>2
<1> HIDE DEF k
<1>5. Once(u)
  BY <1>1, <1>2, <1>3 DEF Tidy, Once
<1>6. ASSUME NEW D \in SUBSET Inums, Closed(u, ROOT, NoName, D)
      PROVE  Closed(t, ROOT, NoName, D \cup {s})
  <2> DEFINE E == D \cup {s}
  <2>1. /\ ROOT \in D
        /\ \A x \in EntryIds(u) : Open(u, ROOT, NoName, D, x) => At(u, x).inum \in D
    BY <1>5, <1>6, ClosedEntries
  <2>2. ASSUME NEW y \in EntryIds(t), Open(t, ROOT, NoName, E, y)
        PROVE  At(t, y).inum \in E
    <3>1. CASE y = <<d, k>>
      BY <1>0, <3>1
    <3>2. CASE y # <<d, k>> /\ At(t, y).inum # s
      <4>1. PICK x \in EntryIds(u) : Before(d, k, x) = y
        BY <1>1, <1>2, <3>2
      <4>2. At(u, x) = At(t, y) /\ x[1] = y[1]
        BY <1>1, <1>2, <1>3, <4>1
      <4>3. x[1] \in D
        BY <1>4, <2>2, <4>2 DEF Open
      <4>4. IsDir(u, At(u, x).inum)
        BY <1>4, <2>2, <3>2, <4>2 DEF Open, IsDir
      <4>5. Open(u, ROOT, NoName, D, x)
        BY <2>2, <4>2, <4>3, <4>4 DEF Open
      <4> QED BY <2>1, <4>2, <4>5
    <3> QED BY <3>1, <3>2
  <2>3. E \in SUBSET Inums /\ Once(t)
    BY <1>0 DEF Tidy
  <2> QED BY <2>1, <2>2, <2>3, ClosedEntries
<1>7. \A i \in Reachable(t) : i # s => i \in Reachable(u)
  BY <1>0, <1>6 DEF Reachable, DirsWithout
<1>8. Reached(u)
  BY <1>1, <1>2, <1>3, <1>4, <1>7 DEF Tidy, Reached
<1> QED BY <1>5, <1>8 DEF Tidy

-----------------------------------------------------------------------------
(* The names in one table *)

NameOf(d, n, i) == [dir |-> d, name |-> n, inum |-> i]

LEMMA AddedNames ==
    ASSUME NEW t, TableOK(t), NEW d \in Inums, IsDir(t, d), Fits(t, d),
           NEW n \in NameSet, NEW i \in Inums,
           NEW u, u = Added(t, d, n, i)
    PROVE  NamesIn(u) = NamesIn(t) \cup {NameOf(d, n, i)}
<1>1. /\ EntryIds(u) = EntryIds(t) \cup {NextPlace(t, d)}
      /\ \A x \in EntryIds(t) : At(u, x) = At(t, x)
      /\ At(u, NextPlace(t, d)) = [name |-> n, inum |-> i]
  BY AddedTable
<1>2. NextPlace(t, d)[1] = d /\ n # NoName
  BY DirAssumption DEF NextPlace
<1> QED BY <1>1, <1>2 DEF NamesIn, NameOf

LEMMA RemovedNames ==
    ASSUME NEW t, TableOK(t), Once(t), NEW d \in Inums, NEW n \in NameSet, Has(t, d, n),
           NEW u, u = WithoutFirst(t, d, n)
    PROVE  /\ NamesIn(u) = NamesIn(t) \ {NameOf(d, n, Lookup(t, d, n))}
           /\ NameOf(d, n, Lookup(t, d, n)) \in NamesIn(t)
<1> DEFINE k == First(t, d, n)
           y == <<d, k>>
<1>1. /\ \A x \in EntryIds(u) : /\ Before(d, k, x) \in EntryIds(t) \ {y}
                                /\ At(u, x) = At(t, Before(d, k, x))
      /\ \A z \in EntryIds(t) \ {y} : \E x \in EntryIds(u) : Before(d, k, x) = z
  BY RemovedTable
<1>2. y \in EntryIds(t) /\ At(t, y).inum = Lookup(t, d, n) /\ At(t, y).name = n
  BY FirstEntry DEF At, Lookup
<1>3. \A x : Before(d, k, x)[1] = x[1]
  BY DEF Before
<1>4. y[1] = d /\ n # NoName
  BY DirAssumption
<1>5. \A x \in EntryIds(t) : x[1] = d /\ At(t, x).name = n => x = y
  BY <1>2, <1>4 DEF Once
<1> HIDE DEF k, y
<1>6. NamesIn(u) \subseteq NamesIn(t) \ {NameOf(d, n, Lookup(t, d, n))}
  BY <1>1, <1>3, <1>5 DEF NamesIn, NameOf
<1>7. NamesIn(t) \ {NameOf(d, n, Lookup(t, d, n))} \subseteq NamesIn(u)
  BY <1>1, <1>2, <1>3, <1>4 DEF NamesIn, NameOf
<1>8. NameOf(d, n, Lookup(t, d, n)) \in NamesIn(t)
  BY <1>2, <1>4 DEF NamesIn, NameOf
<1> QED BY <1>6, <1>7, <1>8

\* The names that an operation adds or removes, in a table that stays tidy
LEMMA CreatedNames ==
    ASSUME NEW t, Sound(t), Tidy(t), Used(t) # Inums, NEW d \in Reachable(t),
           IsDir(t, d), Fits(t, d), NEW n \in NameSet, ~Has(t, d, n),
           NEW mode \in {"file", "dir"},
           NEW v, v = [t EXCEPT ![NewIno(t)] = NewInode(mode)],
           NEW u, u = Added(v, d, n, NewIno(t))
    PROVE  Tidy(u) /\ NamesIn(u) = NamesIn(t) \cup {NameOf(d, n, NewIno(t))}
<1>1. d \in Inums /\ NewIno(t) \in Inums
  BY NewInoFree DEF Reachable, DirsWithout
<1>2. Sound(v) /\ SameEnts(t, v) /\ IsDir(v, d) /\ Fits(v, d) /\ Grows(t, v)
  BY <1>1, CreatedTable
<1>3. TableOK(v) /\ TableOK(t)
  BY <1>2 DEF Sound
<1>4. \A x \in EntryIds(t) : At(t, x).inum \in Inums
  BY <1>3, EntryPlaces DEF Entry
<1>5. Tidy(v) /\ Reachable(t) \subseteq Reachable(v)
  BY <1>2, <1>3, <1>4, SameTidy DEF Grows
<1>6. ~Has(v, d, n) /\ NamesIn(v) = NamesIn(t)
  BY <1>1, <1>2, SameEntsSame
<1>7. Tidy(u)
  BY <1>1, <1>2, <1>3, <1>5, <1>6, AddedTidy
<1>8. NamesIn(u) = NamesIn(v) \cup {NameOf(d, n, NewIno(t))}
  BY <1>1, <1>2, <1>3, AddedNames
<1> QED BY <1>6, <1>7, <1>8

LEMMA LinkedNames ==
    ASSUME NEW t, Sound(t), Tidy(t), NEW s \in Used(t), t[s].num_links < MaxLinks,
           NEW d \in Reachable(t), IsDir(t, d), Fits(t, d), NEW n \in NameSet, ~Has(t, d, n),
           NEW u, u = Linked(t, s, d, n)
    PROVE  Tidy(u) /\ NamesIn(u) = NamesIn(t) \cup {NameOf(d, n, s)}
<1>0. PICK v : v = Counted(t, s)
  OBVIOUS
<1>1. d \in Inums /\ s \in Inums /\ n \in NameSet \cup {NoName}
  BY DEF Reachable, DirsWithout, Used
<1>2. \A j \in Inums : v[j].mode = t[j].mode
  BY <1>0, CountedTable
<1>3. /\ Sound(v) /\ SameEnts(t, v) /\ IsDir(v, d) /\ Fits(v, d)
      /\ u = Added(v, d, n, s)
  <2>1. Sound(v) /\ SameEnts(t, v)
    BY <1>0, CountedTable
  <2>2. IsDir(v, d) /\ Fits(v, d)
    BY <1>1, <1>2, <2>1, SameFits DEF IsDir
  <2> QED BY <1>0, <2>1, <2>2 DEF Linked
<1>4. TableOK(v) /\ TableOK(t)
  BY <1>3 DEF Sound
<1>5. \A x \in EntryIds(t) : At(t, x).inum \in Inums
  BY <1>4, EntryPlaces DEF Entry
<1>6. Tidy(v) /\ Reachable(t) \subseteq Reachable(v)
  BY <1>2, <1>3, <1>4, <1>5, SameTidy DEF IsDir
<1>7. ~Has(v, d, n) /\ NamesIn(v) = NamesIn(t)
  BY <1>1, <1>3, SameEntsSame
<1>8. Tidy(u)
  BY <1>1, <1>3, <1>4, <1>6, <1>7, AddedTidy
<1>9. NamesIn(u) = NamesIn(v) \cup {NameOf(d, n, s)}
  BY <1>1, <1>3, <1>4, AddedNames
<1> QED BY <1>7, <1>8, <1>9

LEMMA DeletedNames ==
    ASSUME NEW t, Sound(t), Tidy(t), NEW d \in Inums, NEW n \in NameSet, Has(t, d, n),
           MayDelete(t, Lookup(t, d, n)),
           NEW u, u = Deleted(t, d, n)
    PROVE  /\ Tidy(u)
           /\ NameOf(d, n, Lookup(t, d, n)) \in NamesIn(t)
           /\ NamesIn(u) = NamesIn(t) \ {NameOf(d, n, Lookup(t, d, n))}
<1>0. PICK s, v : s = Lookup(t, d, n) /\ v = WithoutFirst(t, d, n)
  OBVIOUS
<1>1. Sound(v) /\ SameEnts(v, u) /\ Sound(u) /\ t[s].ents = <<>>
  <2>1. MayDelete(t, s)
    BY <1>0
  <2>2. Sound(v) /\ SameEnts(v, u) /\ Sound(u)
    BY <1>0, <2>1, DeletedTable
  <2>3. t[s].ents = <<>>
    BY <1>0, <2>1, FoundUsed DEF MayDelete, IsDir, Used, Sound, TableOK
  <2> QED BY <2>2, <2>3
<1>2. ModesBut(t, u, s)
  <2>1. MayDelete(t, s)
    BY <1>0
  <2> QED BY <1>0, <2>1, DeletedTable
<1>3. TableOK(t) /\ TableOK(u) /\ Once(t)
  BY <1>1 DEF Sound, Tidy
<1>4. Tidy(u)
  BY <1>0, <1>1, <1>2, <1>3, RemovedTidy DEF ModesBut
<1>5. NamesIn(u) = NamesIn(v)
  BY <1>1, SameEntsSame
<1>6. /\ NamesIn(v) = NamesIn(t) \ {NameOf(d, n, s)}
      /\ NameOf(d, n, s) \in NamesIn(t)
  BY <1>0, <1>3, RemovedNames
<1> QED BY <1>0, <1>4, <1>5, <1>6

-----------------------------------------------------------------------------
(* The invariant of names, and the steps that they make in module Names    *)

TidyInv == SoundInv /\ (~clobbered => Tidy(inode) /\ Tidy(saved))

LEMMA NoInodesTidy == Tidy(NoInodes) /\ NamesIn(NoInodes) = {}
<1>1. EntryIds(NoInodes) = {}
  BY DEF EntryIds, NoInodes, FreeInode
<1> QED BY <1>1 DEF Tidy, Once, Reached, NamesIn

\* The root has a name of its own, and no other table entry is there yet.
LEMMA OneEntryTidy ==
    ASSUME NEW u, NEW e \in Entry, e.name = NoName,
           u[ROOT].ents = <<e>>, \A i \in Inums \ {ROOT} : u[i].ents = <<>>
    PROVE  Tidy(u) /\ NamesIn(u) = {}
<1>1. ASSUME NEW x \in EntryIds(u)
      PROVE  x = <<ROOT, 1>> /\ At(u, x).name = NoName
  <2>1. x = <<x[1], x[2]>> /\ x[1] \in Inums /\ x[2] \in DOMAIN u[x[1]].ents
    BY DEF EntryIds
  <2>2. x[1] = ROOT
    BY <2>1
  <2>3. x[2] = 1
    BY <2>1, <2>2
  <2> QED BY <2>1, <2>2, <2>3 DEF At
<1>2. Once(u)
  BY <1>1 DEF Once
<1>3. Reached(u)
  <2>1. \A x \in EntryIds(u) : x[1] = ROOT
    BY <1>1
  <2> QED BY <2>1, RootReachable DEF Reached
<1>4. NamesIn(u) = {}
  BY <1>1 DEF NamesIn
<1> QED BY <1>2, <1>3, <1>4 DEF Tidy

LEMMA RootTidy ==
    ASSUME NEW t, Sound(t), Used(t) = {},
           NEW v, v = [t EXCEPT ![ROOT] = NewInode("dir")],
           NEW u, u = Added(v, ROOT, NoName, ROOT)
    PROVE  Tidy(u) /\ NamesIn(u) = NamesIn(t)
<1>1. ROOT \in Inums /\ \A i \in Inums : t[i].mode = "free" /\ t[i].ents = <<>>
  BY DirAssumption DEF Inums, ROOT, Used, Sound, TableOK
<1>2. NamesIn(t) = {}
  BY <1>1 DEF EntryIds, NamesIn
<1> DEFINE e == [name |-> NoName, inum |-> ROOT]
<1>3. e \in Entry
  BY <1>1 DEF Entry
<1>4. u[ROOT].ents = <<e>> /\ \A i \in Inums \ {ROOT} : u[i].ents = <<>>
  <2>1. NewInode("dir") \in Inode
    BY DirAssumption DEF NewInode, Inode
  <2>2. v \in [Inums -> Inode] /\ v[ROOT] = NewInode("dir") /\ \A i \in Inums \ {ROOT} : v[i] = t[i]
    BY <1>1, <2>1 DEF Sound, TableOK
  <2>3. <<e>> \in Seq(Entry)
    BY <1>3
  <2> QED BY <1>1, <2>2, <2>3 DEF Added, Inode, NewInode
<1>5. e.name = NoName
  OBVIOUS
<1> HIDE DEF e
<1>6. Tidy(u)
  BY <1>3, <1>4, <1>5, OneEntryTidy
<1>7. NamesIn(u) = {}
  BY <1>3, <1>4, <1>5, OneEntryTidy
<1> QED BY <1>2, <1>6, <1>7

\* The log's table is as tidy as the one in memory.
LEMMA LogTidy ==
    ASSUME SoundInv, Tidy(inode)
    PROVE  Tidy(log) /\ NamesIn(log) = NamesIn(inode)
<1>1. /\ TableOK(inode) /\ TableOK(log) /\ SameEnts(inode, log)
      /\ \A x \in EntryIds(inode) : log[At(inode, x).inum].mode = inode[At(inode, x).inum].mode
  BY DEF SoundInv, Sound, Follows
<1>2. Tidy(log)
  BY <1>1, SameTidy DEF IsDir
<1> QED BY <1>1, <1>2, SameEntsSame

\* A name that a directory does not have is not taken.
LEMMA NotTaken ==
    ASSUME NEW d, NEW n, ~Has(inode, d, n), up, ~clobbered
    PROVE  ~N!Taken(d, n)
<1>1. \A x \in EntryIds(inode) : x[2] \in DOMAIN inode[x[1]].ents
  BY DEF EntryIds
<1>2. \A x \in EntryIds(inode) : ~(x[1] = d /\ At(inode, x).name = n)
  BY <1>1 DEF Has, At
<1>3. \A e \in NamesIn(inode) : ~(e.dir = d /\ e.name = n)
  BY <1>2 DEF NamesIn
<1> QED BY <1>3 DEF N!Taken

LEMMA NamesMount ==
    ASSUME TidyInv, ~clobbered, Mount
    PROVE  Tidy(inode') /\ N!Start
<1> DEFINE root == Added([saved EXCEPT ![ROOT] = NewInode("dir")], ROOT, NoName, ROOT)
<1>1. Used(saved) = {} => Tidy(root) /\ NamesIn(root) = NamesIn(saved)
  BY RootTidy DEF TidyInv, SoundInv
<1>2. inode' = (IF Used(saved) = {} THEN root ELSE saved)
  BY DEF Mount
<1> HIDE DEF root
<1>3. Tidy(inode') /\ NamesIn(inode') = NamesIn(saved)
  BY <1>1, <1>2 DEF TidyInv
<1>4. ~up /\ up' = TRUE /\ saved' = saved /\ clobbered' = clobbered
  BY DEF Mount
<1>5. NamesIn(inode)' = NamesIn(saved)
  BY <1>3
<1> QED BY <1>3, <1>4, <1>5 DEF N!Start

LEMMA NamesCreate ==
    ASSUME TidyInv, ~clobbered, NEW d \in Inums, NEW n \in NameSet, NEW mode \in {"file", "dir"},
           Create(d, n, mode)
    PROVE  Tidy(inode') /\ N!Add
<1> DEFINE i == NewIno(inode)
<1>1. PICK v : v = [inode EXCEPT ![i] = NewInode(mode)]
  OBVIOUS
<1>2. inode' = Added(v, d, n, i) /\ i \in Inums
  BY <1>1, NewInoFree DEF Create
<1>3. Tidy(inode') /\ NamesIn(inode') = NamesIn(inode) \cup {NameOf(d, n, i)}
  <2>1. /\ Sound(inode) /\ Tidy(inode) /\ Used(inode) # Inums /\ d \in Reachable(inode)
        /\ IsDir(inode, d) /\ Fits(inode, d) /\ ~Has(inode, d, n)
    BY DEF Create, TidyInv, SoundInv
  <2> QED BY <1>1, <1>2, <2>1, CreatedNames
<1>4. /\ up /\ up' = up /\ saved' = saved /\ clobbered' = clobbered
      /\ ~N!Taken(d, n)
  BY NotTaken DEF Create
<1>5. NameOf(d, n, i) \in N!Entries /\ NameOf(d, n, i).dir = d /\ NameOf(d, n, i).name = n
  BY <1>2 DEF N!Entries, NameOf
<1>6. NamesIn(inode)' = NamesIn(inode) \cup {NameOf(d, n, i)}
  BY <1>3
<1> QED BY <1>3, <1>4, <1>5, <1>6 DEF N!Add

LEMMA NamesLink ==
    ASSUME TidyInv, ~clobbered,
           NEW c \in Inums, NEW m \in NameSet, NEW d \in Inums, NEW n \in NameSet,
           Link(c, m, d, n)
    PROVE  Tidy(inode') /\ N!Add
<1>1. PICK s : s = Lookup(inode, c, m)
  OBVIOUS
<1>2. s \in Used(inode) /\ s \in Inums
  BY <1>1, FoundUsed DEF Link, TidyInv, SoundInv, Used
<1>3. Tidy(inode') /\ NamesIn(inode') = NamesIn(inode) \cup {NameOf(d, n, s)}
  BY <1>1, <1>2, LinkedNames DEF Link, TidyInv, SoundInv
<1>4. /\ up /\ up' = up /\ saved' = saved /\ clobbered' = clobbered
      /\ ~N!Taken(d, n)
  BY NotTaken DEF Link
<1>5. NameOf(d, n, s) \in N!Entries /\ NameOf(d, n, s).dir = d /\ NameOf(d, n, s).name = n
  BY <1>2 DEF N!Entries, NameOf
<1>6. NamesIn(inode)' = NamesIn(inode) \cup {NameOf(d, n, s)}
  BY <1>3
<1> QED BY <1>3, <1>4, <1>5, <1>6 DEF N!Add

LEMMA NamesDelete ==
    ASSUME TidyInv, ~clobbered, NEW d \in Inums, NEW n \in NameSet, Delete(d, n)
    PROVE  Tidy(inode') /\ N!Remove
<1>1. PICK e : e = NameOf(d, n, Lookup(inode, d, n))
  OBVIOUS
<1>2. /\ Tidy(inode') /\ e \in NamesIn(inode)
      /\ NamesIn(inode') = NamesIn(inode) \ {e}
  BY <1>1, DeletedNames DEF Delete, TidyInv, SoundInv
<1>3. up /\ up' = up /\ saved' = saved /\ clobbered' = clobbered
  BY DEF Delete
<1>4. NamesIn(inode)' = NamesIn(inode) \ {e}
  BY <1>2
<1> QED BY <1>2, <1>3, <1>4 DEF N!Remove

LEMMA NamesRename ==
    ASSUME TidyInv, ~clobbered',
           NEW c \in Inums, NEW m \in NameSet, NEW d \in Inums, NEW n \in NameSet,
           Rename(c, m, d, n)
    PROVE  Tidy(inode') /\ (N!Add \/ N!Move)
<1>1. PICK s, t : s = Lookup(inode, c, m) /\ t = Linked(inode, s, d, n)
  OBVIOUS
<1>2. s \in Used(inode) /\ s \in Inums
  BY <1>1, FoundUsed DEF Rename, TidyInv, SoundInv, Used
<1>3. /\ up /\ up' = up /\ saved' = saved /\ ~clobbered /\ clobbered' = clobbered
      /\ ~Has(inode, d, n)
  BY DEF Rename, TidyInv, SoundInv
<1>4. d \in Reachable(inode)
  BY WithoutReachable DEF Rename
<1>5. Tidy(t) /\ NamesIn(t) = NamesIn(inode) \cup {NameOf(d, n, s)}
  BY <1>1, <1>2, <1>3, <1>4, LinkedNames DEF Rename, TidyInv, SoundInv
<1>6. /\ NameOf(d, n, s) \in N!Entries
      /\ NameOf(d, n, s).dir = d /\ NameOf(d, n, s).name = n /\ NameOf(d, n, s).inum = s
      /\ ~N!Taken(d, n)
  BY <1>2, <1>3, NotTaken DEF N!Entries, NameOf
<1>7. CASE ~MayDelete(t, s)
  <2>1. inode' = t
    BY <1>1, <1>7 DEF Rename
  <2>2. NamesIn(inode)' = NamesIn(inode) \cup {NameOf(d, n, s)}
    BY <1>5, <2>1
  <2>3. N!Add
    BY <1>3, <1>6, <2>2 DEF N!Add
  <2> QED BY <1>5, <2>1, <2>3
<1>8. CASE MayDelete(t, s)
  <2>1. inode' = Deleted(t, c, m)
    BY <1>1, <1>8 DEF Rename
  <2>2. PICK v : v = Counted(inode, s)
    OBVIOUS
  <2>3. /\ Sound(v) /\ SameEnts(inode, v) /\ IsDir(v, d) /\ Fits(v, d)
        /\ t = Added(v, d, n, s)
        /\ Sound(t)
    BY <1>1, <1>2, <2>2, LinkedTable DEF Rename, TidyInv, SoundInv
  <2>4. Has(t, c, m) /\ Lookup(t, c, m) = s
    <3>1. Has(v, c, m) /\ Lookup(v, c, m) = s
      BY <1>1, <2>3, SameEntsSame DEF Rename
    <3>2. TableOK(v)
      BY <2>3 DEF Sound
    <3> QED BY <1>2, <2>3, <3>1, <3>2, AddedLookup
  <2>5. /\ Tidy(inode') /\ NameOf(c, m, s) \in NamesIn(t)
        /\ NamesIn(inode') = NamesIn(t) \ {NameOf(c, m, s)}
    BY <1>5, <1>8, <2>1, <2>3, <2>4, DeletedNames
  <2>6. NameOf(c, m, s) # NameOf(d, n, s) /\ NameOf(c, m, s).inum = s
    <3>1. <<c, m>> # <<d, n>>
      BY DEF Rename
    <3> QED BY <3>1 DEF NameOf
  <2>7. NameOf(c, m, s) \in NamesIn(inode)
    BY <1>5, <2>5, <2>6
  <2>8. NamesIn(inode)' = (NamesIn(inode) \ {NameOf(c, m, s)}) \cup {NameOf(d, n, s)}
    BY <1>5, <2>5, <2>6
  <2>9. N!Move
    BY <1>3, <1>6, <2>6, <2>7, <2>8 DEF N!Move
  <2> QED BY <2>5, <2>9
<1> QED BY <1>7, <1>8

\* Inodes without a name come, links are counted, inodes are flushed: no name
\* is touched.
LEMMA NamesSilent ==
    ASSUME TidyInv, ~clobbered,
           \/ \E mode \in {"file", "dir"} : CreateTooLong(mode)
           \/ \E c \in Inums, m \in NameSet : LinkTooLong(c, m) \/ Touch(c, m)
    PROVE  Tidy(inode') /\ UNCHANGED N!vars
<1>1. /\ TableOK(inode') /\ SameEnts(inode, inode') /\ Grows(inode, inode')
  <2>1. ASSUME NEW mode \in {"file", "dir"}, CreateTooLong(mode)
        PROVE  TableOK(inode') /\ SameEnts(inode, inode') /\ Grows(inode, inode')
    <3>1. NewIno(inode) \in Inums /\ NewIno(inode) \notin Used(inode)
      BY <2>1, NewInoFree DEF CreateTooLong
    <3>2. inode' = [inode EXCEPT ![NewIno(inode)] = NewInode(mode)] /\ Sound(inode)
      BY <2>1 DEF CreateTooLong, TidyInv, SoundInv
    <3>3. Sound(inode') /\ SameEnts(inode, inode')
      BY <3>1, <3>2, TakenTable
    <3>4. \A j \in Inums \ {NewIno(inode)} : inode'[j] = inode[j]
      BY <3>1, <3>2, TakenTable
    <3> QED BY <3>1, <3>3, <3>4 DEF Grows, IsDir, Used, Sound
  <2>2. ASSUME NEW c \in Inums, NEW m \in NameSet, LinkTooLong(c, m)
        PROVE  TableOK(inode') /\ SameEnts(inode, inode') /\ Grows(inode, inode')
    <3>1. PICK s : s = Lookup(inode, c, m)
      OBVIOUS
    <3>2. s \in Used(inode) /\ inode[s].num_links < MaxLinks /\ inode' = Counted(inode, s)
      BY <2>2, <3>1, FoundUsed DEF LinkTooLong, TidyInv, SoundInv
    <3>3. Sound(inode') /\ SameEnts(inode, inode')
      BY <3>2, CountedTable DEF TidyInv, SoundInv
    <3>4. \A j \in Inums : inode'[j].mode = inode[j].mode
      BY <3>2, CountedTable DEF TidyInv, SoundInv
    <3> QED BY <3>3, <3>4 DEF Grows, IsDir, Sound
  <2>3. ASSUME NEW c \in Inums, NEW m \in NameSet, Touch(c, m)
        PROVE  TableOK(inode') /\ SameEnts(inode, inode') /\ Grows(inode, inode')
    BY <2>3 DEF Touch, TidyInv, SoundInv, Sound, SameEnts, Grows
  <2> QED BY <2>1, <2>2, <2>3
<1>2. TableOK(inode) /\ \A x \in EntryIds(inode) : At(inode, x).inum \in Inums
  <2>1. TableOK(inode)
    BY DEF TidyInv, SoundInv, Sound
  <2> QED BY <2>1, EntryPlaces DEF Entry
<1>3. Tidy(inode')
  BY <1>1, <1>2, SameTidy DEF TidyInv, Grows
<1>4. NamesIn(inode') = NamesIn(inode)
  BY <1>1, SameEntsSame
<1>5. up /\ up' = up /\ saved' = saved /\ clobbered' = clobbered
  BY DEF CreateTooLong, LinkTooLong, Touch
<1>6. NamesIn(inode)' = NamesIn(inode)
  BY <1>4
<1> QED BY <1>3, <1>5, <1>6 DEF N!vars

LEMMA NamesDown ==
    ASSUME TidyInv, ~clobbered
    PROVE  /\ Unmount => Tidy(inode') /\ Tidy(saved') /\ N!Save
           /\ Crash => Tidy(inode') /\ Tidy(saved') /\ N!Fail
<1>1. Tidy(log) /\ NamesIn(log) = NamesIn(inode)
  BY LogTidy DEF TidyInv
<1>2. ASSUME Unmount PROVE Tidy(inode') /\ Tidy(saved') /\ N!Save
  <2>1. up /\ up' = FALSE /\ saved' = log /\ inode' = NoInodes /\ clobbered' = clobbered
    BY <1>2 DEF Unmount
  <2>2. NamesIn(saved)' = NamesIn(inode)
    BY <1>1, <2>1
  <2> QED BY <1>1, <2>1, <2>2, NoInodesTidy DEF N!Save
<1>3. ASSUME Crash PROVE Tidy(inode') /\ Tidy(saved') /\ N!Fail
  <2>1. up /\ up' = FALSE /\ saved' = saved /\ inode' = NoInodes /\ clobbered' = clobbered
    BY <1>3 DEF Crash
  <2>2. NamesIn(saved)' = NamesIn(saved)
    BY <2>1
  <2> QED BY <2>1, <2>2, NoInodesTidy DEF N!Fail, TidyInv
<1> QED BY <1>2, <1>3

LEMMA ClobberedStays ==
    ASSUME SoundInv, [Next]_vars, clobbered
    PROVE  clobbered'
<1>1. ASSUME NEW c \in Inums, NEW m \in NameSet, NEW d \in Inums, NEW n \in NameSet,
             Rename(c, m, d, n)
      PROVE  clobbered'
  BY <1>1 DEF Rename
<1>2. CASE UNCHANGED clobbered
  BY <1>2
<1>3. \A c \in Inums, m \in NameSet, d \in Inums, n \in NameSet :
          Link(c, m, d, n) => UNCHANGED clobbered
  BY DEF Link
<1>4. \A d \in Inums, n \in NameSet :
          Delete(d, n) \/ LinkTooLong(d, n) \/ Touch(d, n) => UNCHANGED clobbered
  BY DEF Delete, LinkTooLong, Touch
<1>5. \A mode \in {"file", "dir"} : CreateTooLong(mode) => UNCHANGED clobbered
  BY DEF CreateTooLong
<1>6. \A mode \in {"file", "dir"}, d \in Inums, n \in NameSet :
          Create(d, n, mode) => UNCHANGED clobbered
  BY DEF Create
<1>7. Mount \/ Unmount \/ Crash \/ UNCHANGED vars => UNCHANGED clobbered
  BY DEF Mount, Unmount, Crash, vars
<1> QED BY <1>1, <1>2, <1>3, <1>4, <1>5, <1>6, <1>7 DEF Next

\* What a step does to names, as long as no rename has hidden one
NamesStep ==
    /\ Tidy(inode') /\ Tidy(saved')
    /\ N!Start \/ N!Add \/ N!Remove \/ N!Move \/ N!Save \/ N!Fail \/ UNCHANGED N!vars

LEMMA NamesNext ==
    ASSUME TidyInv, [Next]_vars, ~clobbered'
    PROVE  NamesStep
<1>1. ~clobbered /\ Tidy(inode) /\ Tidy(saved)
  BY ClobberedStays DEF TidyInv
<1>2. CASE Mount
  BY <1>1, <1>2, NamesMount DEF Mount, NamesStep
<1>3. CASE Unmount \/ Crash
  BY <1>1, <1>3, NamesDown DEF NamesStep
<1>4. ASSUME NEW mode \in {"file", "dir"}, CreateTooLong(mode) PROVE NamesStep
  BY <1>1, <1>4, NamesSilent DEF CreateTooLong, NamesStep
<1>5. ASSUME NEW mode \in {"file", "dir"}, NEW d \in Inums, NEW n \in NameSet,
             Create(d, n, mode)
      PROVE  NamesStep
  BY <1>1, <1>5, NamesCreate DEF Create, NamesStep
<1>6. ASSUME NEW d \in Inums, NEW n \in NameSet, LinkTooLong(d, n) \/ Touch(d, n)
      PROVE  NamesStep
  BY <1>1, <1>6, NamesSilent DEF LinkTooLong, Touch, NamesStep
<1>7. ASSUME NEW d \in Inums, NEW n \in NameSet, Delete(d, n)
      PROVE  NamesStep
  BY <1>1, <1>7, NamesDelete DEF Delete, NamesStep
<1>8. ASSUME NEW c \in Inums, NEW m \in NameSet, NEW d \in Inums, NEW n \in NameSet,
             Link(c, m, d, n)
      PROVE  NamesStep
  BY <1>1, <1>8, NamesLink DEF Link, NamesStep
<1>9. ASSUME NEW c \in Inums, NEW m \in NameSet, NEW d \in Inums, NEW n \in NameSet,
             Rename(c, m, d, n)
      PROVE  NamesStep
  BY <1>1, <1>9, NamesRename DEF Rename, NamesStep
<1>10. CASE UNCHANGED vars
  BY <1>1, <1>10 DEF vars, NamesStep, N!vars
<1> QED BY <1>2, <1>3, <1>4, <1>5, <1>6, <1>7, <1>8, <1>9, <1>10 DEF Next

LEMMA TidyInit == Init => TidyInv /\ N!Init
BY SoundInit, NoInodesTidy DEF Init, TidyInv, N!Init

\* A rename that hides a name ends the promise; any other step keeps it.
LEMMA TidyNext == TidyInv /\ [Next]_vars => TidyInv' /\ [N!Next]_(N!vars)
<1> SUFFICES ASSUME TidyInv, [Next]_vars
             PROVE  TidyInv' /\ [N!Next]_(N!vars)
  OBVIOUS
<1>1. SoundInv /\ SoundInv'
  BY SoundNext DEF TidyInv
<1>2. CASE ~clobbered'
  <2>1. ~clobbered /\ NamesStep
    BY <1>1, <1>2, ClobberedStays, NamesNext
  <2> QED BY <1>1, <2>1 DEF NamesStep, TidyInv, N!Next
<1>3. CASE clobbered'
  <2>1. CASE clobbered
    BY <1>1, <1>3, <2>1 DEF TidyInv, SoundInv, N!Next
  <2>2. CASE ~clobbered
    BY <1>1, <1>3, <2>2 DEF TidyInv, SoundInv, N!Next, N!GiveUp
  <2> QED BY <2>1, <2>2
<1> QED BY <1>2, <1>3

THEOREM TidyAlways == Spec => []TidyInv
BY TidyInit, TidyNext, PTL DEF Spec

\* NamesOnce: no directory has two entries of one name, in any generation,
\* although Add_File_To_Directory looks at none of the others.
THEOREM NamesAreOnce == Spec => []NamesOnce
<1>1. TidyInv => NamesOnce
  BY LogTidy DEF TidyInv, Tidy, Once, NamesOnce, Tables3
<1> QED BY <1>1, TidyAlways, PTL

\* EntriesReachable: every name can be reached from the root, in memory, in
\* the log and on flash, although inodes reach the log one by one.
THEOREM EntriesAreReachable == Spec => []EntriesReachable
<1>1. TidyInv => EntriesReachable
  BY LogTidy DEF TidyInv, Tidy, Reached, EntriesReachable, Tables3
<1> QED BY <1>1, TidyAlways, PTL

\* ImplementsNames: every step adds, removes or moves one name, or saves them
\* all, or goes back to the saved ones, or changes none.
THEOREM NamesAreImplemented == Spec => ImplementsNames
BY TidyInit, TidyNext, TidyAlways, PTL DEF Spec, ImplementsNames, N!Spec
=============================================================================
