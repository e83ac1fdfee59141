-------------------------------- MODULE Dir --------------------------------
(***************************************************************************)
(* The directory layer (dir.c) under the handlers of LFS.c.  There are     *)
(* three generations of inodes: the array ifile[] in memory, the ifile in  *)
(* the log as Flush_Ino has left it, and the ifile of the last checkpoint. *)
(* An operation changes the first, parts of it reach the second, and only  *)
(* an unmount makes the second the third.                                  *)
(*                                                                         *)
(* A directory's entries are part of its inode here: an inode refers to    *)
(* the blocks that were written before it was flushed, and the log does    *)
(* not overwrite a block that an inode refers to (module Log).             *)
(* Slots of ifile[] past ifile_length count as free.                       *)
(***************************************************************************)
EXTENDS Integers, Sequences, FiniteSets

CONSTANTS
    NumInodes,   \* bound: inodes 0 .. NumInodes - 1, all in the first ifile block
    NameSet,     \* names of fewer than FILE_NAME_LENGTH characters
    NoName,      \* "", the name of the root's entry for itself
    MaxLinks,    \* bound: num_links
    MaxEntries   \* bound: entries of a directory

ASSUME DirAssumption ==
    /\ NumInodes \in Nat \ {0}
    /\ MaxLinks \in Nat \ {0} /\ MaxEntries \in Nat \ {0}
    /\ NoName \notin NameSet

ROOT  == 0                                        \* ROOT_INUM
Inums == 0 .. NumInodes - 1
Entry == [name : NameSet \cup {NoName}, inum : Inums]

Inode     == [mode : {"free", "file", "dir"}, num_links : 0 .. MaxLinks, ents : Seq(Entry)]
FreeInode == [mode |-> "free", num_links |-> 0, ents |-> <<>>]
NoInodes  == [i \in Inums |-> FreeInode]

VARIABLES
    inode,   \* ifile[]
    log,     \* the inodes in the log's ifile
    saved,   \* the inodes the checkpoint leads to
    up       \* the file system is mounted

VARIABLE
    clobbered   \* history: there was a rename onto a name in use

vars == <<inode, log, saved, up, clobbered>>

\* The types of a table's inodes.  What is not a directory has no entries.
TableOK(t) ==
    /\ t \in [Inums -> Inode]
    /\ \A i \in Inums :
           /\ t[i].mode = "free" <=> t[i].num_links = 0
           /\ Len(t[i].ents) <= MaxEntries
           /\ t[i].mode # "dir" => t[i].ents = <<>>

TypeOK == /\ \A t \in {inode, log, saved} : TableOK(t)
          /\ up \in BOOLEAN /\ clobbered \in BOOLEAN

Init == /\ inode = NoInodes /\ log = NoInodes /\ saved = NoInodes
        /\ up = FALSE /\ clobbered = FALSE
-----------------------------------------------------------------------------
Used(t)      == {i \in Inums : t[i].mode # "free"}
IsDir(t, i)  == t[i].mode = "dir"

\* A variant that stops after the first entry
HasFirst(t, d, n) == t[d].ents # <<>> /\ t[d].ents[1].name = n
Has(t, d, n) == \E k \in DOMAIN t[d].ents : t[d].ents[k].name = n

\* Get_Inode's loop over a directory takes the first entry of the name.
First(t, d, n) ==
    CHOOSE k \in DOMAIN t[d].ents :
        /\ t[d].ents[k].name = n
        /\ \A j \in 1 .. k - 1 : t[d].ents[j].name # n
Lookup(t, d, n) == t[d].ents[First(t, d, n)].inum

\* D has the root and, with a directory, those that its entries lead to, but
\* for the entry n of d.  (No path leads through NoName.)
Closed(t, d, n, D) ==
    /\ ROOT \in D
    /\ \A e \in D : \A m \in NameSet :
           /\ Has(t, e, m) /\ <<e, m>> # <<d, n>>
           /\ IsDir(t, Lookup(t, e, m))
           => Lookup(t, e, m) \in D

\* The directories some path leads to that does not go through that entry
DirsWithout(t, d, n) ==
    LET closed == {D \in SUBSET Inums : Closed(t, d, n, D)}
    IN  {i \in Inums : \A D \in closed : i \in D}
Reachable(t) == DirsWithout(t, ROOT, NoName)

\* A variant of Flushed that leaves the log alone
FlushedNever(l, t, S) == l

\* Flush_Ino of the inodes S
Flushed(l, t, S) == [i \in Inums |-> IF i \in S THEN t[i] ELSE l[i]]

\* Add_File_To_Directory: an entry at the end, looking at none of the others
Added(t, d, n, i) ==
    [t EXCEPT ![d].ents = Append(@, [name |-> n, inum |-> i])]
Fits(t, d) == Len(t[d].ents) < MaxEntries

\* Get_New_Ino
NewIno(t) == CHOOSE i \in Inums : i \notin Used(t) /\ \A j \in 0 .. i - 1 : j \in Used(t)

NewInode(mode) == [mode |-> mode, num_links |-> 1, ents |-> <<>>]

\* A link is counted.
Counted(t, s) == [t EXCEPT ![s].num_links = @ + 1]

\* A variant of Linked that forgets the link count
LinkedUncounted(t, s, d, n) == Added(t, d, n, s)
Linked(t, s, d, n) == Added(Counted(t, s), d, n, s)

\* A variant of MayDelete that removes directories with what is in them
MayDeleteFull(t, i) == TRUE
MayDelete(t, i)     == ~(IsDir(t, i) /\ t[i].ents # <<>>)

\* A variant of Dropped that frees the inode with the first of its names
DroppedAtOnce(t, i) == [t EXCEPT ![i] = FreeInode]
\* A variant that counts down to 0 and frees nothing
DroppedNever(t, i) == [t EXCEPT ![i].num_links = @ - 1]

Dropped(t, i) == IF t[i].num_links = 1 THEN [t EXCEPT ![i] = FreeInode]
                 ELSE [t EXCEPT ![i].num_links = @ - 1]

\* A variant that removes the entry after the one that was found
WithoutNext(t, d, n) ==
    LET k == First(t, d, n)
        s == t[d].ents
    IN  [t EXCEPT ![d].ents = SubSeq(s, 1, k) \o SubSeq(s, k + 2, Len(s))]

WithoutFirst(t, d, n) ==
    LET k == First(t, d, n)
        s == t[d].ents
    IN  [t EXCEPT ![d].ents = SubSeq(s, 1, k - 1) \o SubSeq(s, k + 1, Len(s))]

\* Dir_Delete_File, once it may: the entry goes first
Deleted(t, d, n) == Dropped(WithoutFirst(t, d, n), Lookup(t, d, n))
-----------------------------------------------------------------------------
(***************************************************************************)
(* The handlers.  The kernel resolves every path with LFS_GetAttr before:  *)
(* the directory d is one that a path leads to, a name to be made is not   *)
(* there, unlink is for files and rmdir for directories.                   *)
(***************************************************************************)
\* LFS_Init: all inodes from the checkpoint's ifile; the root is made if there
\* are none
Mount ==
    /\ ~up /\ up' = TRUE
    /\ LET root == Added([saved EXCEPT ![ROOT] = NewInode("dir")], ROOT, NoName, ROOT)
           t    == IF Used(saved) = {} THEN root ELSE saved
       IN  inode' = t /\ log' = t
    /\ UNCHANGED <<saved, clobbered>>

\* LFS_Create, LFS_Mkdir, LFS_SymLink: the directory is flushed, then the inode
Create(d, n, mode) ==
    /\ up /\ IsDir(inode, d) /\ Used(inode) # Inums
    /\ ~Has(inode, d, n) /\ Fits(inode, d)
    /\ d \in Reachable(inode)
    /\ LET i == NewIno(inode)
       IN  /\ inode' = Added([inode EXCEPT ![i] = NewInode(mode)], d, n, i)
           /\ log' = Flushed(log, inode', {d, i})
    /\ UNCHANGED <<saved, up, clobbered>>

\* The same for a name that is too long: the inode is taken before the name is
\* looked at, and not given back.
CreateTooLong(mode) ==
    /\ up /\ Used(inode) # Inums
    /\ inode' = [inode EXCEPT ![NewIno(inode)] = NewInode(mode)]
    /\ UNCHANGED <<log, saved, up, clobbered>>

\* LFS_Link (the kernel links no directories)
Link(c, m, d, n) ==
    /\ up /\ IsDir(inode, d)
    /\ Has(inode, c, m) /\ ~Has(inode, d, n) /\ Fits(inode, d)
    /\ {c, d} \subseteq Reachable(inode)
    /\ LET s == Lookup(inode, c, m)
       IN  /\ ~IsDir(inode, s) /\ inode[s].num_links < MaxLinks
           /\ inode' = Linked(inode, s, d, n)
           /\ log' = Flushed(log, inode', {d, s})
    /\ UNCHANGED <<saved, up, clobbered>>

\* LFS_Link or LFS_Rename to a name that is too long: the link is counted
\* before the name is looked at.  libfuse asks for such a rename when a file
\* is unlinked that is open.
LinkTooLong(c, m) ==
    /\ up /\ Has(inode, c, m) /\ c \in Reachable(inode)
    /\ LET s == Lookup(inode, c, m)
       IN  /\ inode[s].num_links < MaxLinks
           /\ inode' = Counted(inode, s)
    /\ UNCHANGED <<log, saved, up, clobbered>>

\* LFS_Unlink, LFS_Rmdir.  The inode is neither flushed nor freed on flash.
Delete(d, n) ==
    /\ up /\ Has(inode, d, n) /\ d \in Reachable(inode)
    /\ MayDelete(inode, Lookup(inode, d, n))
    /\ inode' = Deleted(inode, d, n)
    /\ log' = Flushed(log, inode', {d})
    /\ UNCHANGED <<saved, up, clobbered>>

\* LFS_Rename is LFS_Link and then LFS_Unlink, whatever is there under the new
\* name.  A directory that is not empty ends up with both names.  The kernel
\* asks that neither name lies on the path of the other and that a directory
\* takes the place of a directory only.
Rename(c, m, d, n) ==
    /\ up /\ IsDir(inode, d)
    /\ Has(inode, c, m) /\ <<c, m>> # <<d, n>> /\ Fits(inode, d)
    /\ c \in DirsWithout(inode, d, n) /\ d \in DirsWithout(inode, c, m)
    /\ LET s == Lookup(inode, c, m)
           t == Linked(inode, s, d, n)
           l == Flushed(log, t, {d, s})
           done == MayDelete(t, s)
       IN  /\ inode[s].num_links < MaxLinks
           /\ Has(inode, d, n) => (IsDir(inode, Lookup(inode, d, n)) <=> IsDir(inode, s))
           /\ inode' = IF done THEN Deleted(t, c, m) ELSE t
           /\ log' = IF done THEN Flushed(l, inode', {c}) ELSE l
    /\ clobbered' = (clobbered \/ Has(inode, d, n))
    /\ UNCHANGED <<saved, up>>

\* LFS_Read and LFS_Write of a file, for what they do here: they flush its
\* inode.  (LFS_Truncate does not; contents are the business of FileIO.)
Touch(c, m) ==
    /\ up /\ Has(inode, c, m) /\ c \in Reachable(inode)
    /\ LET s == Lookup(inode, c, m)
       IN  ~IsDir(inode, s) /\ log' = Flushed(log, inode, {s})
    /\ UNCHANGED <<inode, saved, up, clobbered>>

\* LFS_Destroy: the log's ifile becomes the checkpoint's
Unmount == /\ up /\ up' = FALSE
           /\ saved' = log
           /\ inode' = NoInodes /\ log' = NoInodes
           /\ UNCHANGED clobbered

\* The process is killed, or ends in a Dir_Delete_File that leaves a directory
\* without entries and then writes 0 bytes through a buffer of 0 bytes.
Crash == /\ up /\ up' = FALSE
         /\ inode' = NoInodes /\ log' = NoInodes
         /\ UNCHANGED <<saved, clobbered>>

Next ==
    \/ Mount \/ Unmount \/ Crash
    \/ \E mode \in {"file", "dir"} :
           \/ CreateTooLong(mode)
           \/ \E d \in Inums, n \in NameSet : Create(d, n, mode)
    \/ \E d \in Inums, n \in NameSet :
           \/ Delete(d, n)
           \/ LinkTooLong(d, n)
           \/ Touch(d, n)
           \/ \E c \in Inums, m \in NameSet : Link(c, m, d, n) \/ Rename(c, m, d, n)

Spec == Init /\ [][Next]_vars
-----------------------------------------------------------------------------
(***************************************************************************)
(* Properties                                                              *)
(***************************************************************************)
EntryIds(t) == {x \in Inums \X (1 .. MaxEntries) : x[2] \in DOMAIN t[x[1]].ents}
At(t, x)    == t[x[1]].ents[x[2]]
Refs(t, i)  == {x \in EntryIds(t) : At(t, x).inum = i}
Tables3     == {inode, log, saved}

\* lfsck: "directory entries that refer to unused inodes".  There are none, in
\* memory, in the log, or on flash, although an inode is freed in memory only.
EntriesNameUsed ==
    \A t \in Tables3 : \A x \in EntryIds(t) : At(t, x).inum \in Used(t)

\* An inode counts at least as many links as it has names, in each generation:
\* it cannot be freed, and its number given to another file, under a name.
LinksCoverEntries ==
    \A t \in Tables3 : \A i \in Inums : Cardinality(Refs(t, i)) <= t[i].num_links

\* A name that was made can be reached, until a rename onto a name in use
\* hides one.  In the log too, although inodes are flushed one by one.
EntriesReachable ==
    ~clobbered => \A t \in Tables3 :
        {x[1] : x \in EntryIds(t)} \subseteq Reachable(t)

\* No directory has two entries of one name, until such a rename.
NamesOnce ==
    ~clobbered => \A t \in Tables3 : \A x, y \in EntryIds(t) :
        x[1] = y[1] /\ At(t, x).name = At(t, y).name => x = y

\* Between operations the log has the entries that memory has, and what an
\* entry leads to is of one mode in both: an operation may keep to itself link
\* counts, and inodes that have no name.
LogFollows ==
    /\ \A i \in Inums : log[i].ents = inode[i].ents
    /\ \A x \in EntryIds(inode) :
           LET i == At(inode, x).inum IN log[i].mode = inode[i].mode

\* What a table says about names, but for the root's entry for itself
NamesIn(t) == {[dir |-> x[1], name |-> At(t, x).name, inum |-> At(t, x).inum] :
                  x \in {y \in EntryIds(t) : At(t, y).name # NoName}}

N == INSTANCE Names WITH
    vol     <- IF clobbered THEN {} ELSE IF up THEN NamesIn(inode) ELSE NamesIn(saved),
    dur     <- IF clobbered THEN {} ELSE NamesIn(saved),
    running <- up,
    sound   <- ~clobbered

\* Names come and go one at a time, a rename in one step with them; a clean
\* unmount saves them all, and a crash goes back to the ones it has saved.
ImplementsNames == N!Spec

\* lfsck: "in-use inodes that do not have directory entries".  A clean unmount
\* leaves none.
NoOrphans ==
    \A i \in Used(saved) : Refs(saved, i) # {}

=============================================================================
