--------------------------- MODULE LogStoreProofs ---------------------------
(***************************************************************************)
(* Proof that Log implements Store, for every size of the flash, every set *)
(* of files and every layout of the ifile.  The invariants of LogProofs    *)
(* turn the two views into the history variables: what the running process *)
(* reads of a file is what was last written to it, and what a mount would  *)
(* find is what was last saved.                                            *)
(***************************************************************************)
EXTENDS LogStore, LogProofs

Sound == TypeOK /\ MemIsTail /\ DataInv /\ IfileInv

LastWritten(v) == [f \in Files |-> v[f].data]

\* As long as the log promises anything, the views are the history.
ViewsAreHistory ==
    Promised => /\ DurableView = LastWritten(saved)
                /\ RunningView = LastWritten(IF Mounted THEN cur ELSE saved)

-----------------------------------------------------------------------------
\* What the flash holds for a file is what the last checkpoint saved.
LEMMA DurableViewIs ==
    ASSUME Sound, Promised
    PROVE  DurableView = LastWritten(saved)
  <1>. SUFFICES ASSUME NEW f \in Files PROVE DurableValue(f) = saved[f].data
    BY DEF DurableView, LastWritten
  <1>1. FlashInode(f) = saved[f].addr /\ SavedDurable
    BY DEF Sound, Promised, IfileInv, DataInv, CheckpointedIfileIntactBeforeWrap
  <1>2. CASE saved[f] = NoData
    BY <1>1, <1>2, NullAssumption DEF DurableValue, NoData
  <1>3. CASE saved[f] # NoData
    <2>1. DurableAt(saved[f], f)
      BY <1>1, <1>3 DEF SavedDurable
    <2>2. PICK a \in Addr : a = saved[f].addr
      BY <2>1 DEF DurableAt
    <2>3. disk[a.seg][a.bk] = [file_no |-> f, data |-> saved[f].data]
      BY <2>1, <2>2 DEF DurableAt
    <2>4. disk[a.seg][a.bk].data = saved[f].data
      BY <2>3
    <2>5. FlashInode(f) = a
      BY <1>1, <2>2
    <2>. QED  BY <2>4, <2>5 DEF DurableValue
  <1>. QED  BY <1>2, <1>3

\* What the running process reads of a file is what was last written to it.
LEMMA RunningViewIs ==
    ASSUME Sound, Promised
    PROVE  RunningView = LastWritten(IF Mounted THEN cur ELSE saved)
  <1>1. CASE ~Mounted
    BY <1>1, DurableViewIs DEF RunningView
  <1>2. CASE Mounted
    <2>. SUFFICES ASSUME NEW f \in Files PROVE RunningValue(f) = cur[f].data
      BY <1>2 DEF RunningView, LastWritten
    <2>1. inode[f] = cur[f].addr /\ CurLive
      BY <1>2 DEF Sound, Promised, Healthy, IfileInv, DataInv, IfileIntactBeforeWrap
    <2>2. CASE cur[f] = NoData
      BY <2>1, <2>2, NullAssumption DEF RunningValue, NoData
    <2>3. CASE cur[f] # NoData
      <3>1. LiveAt(cur[f], f)
        BY <2>1, <2>3 DEF CurLive
      <3>2. PICK a \in Addr : a = cur[f].addr
        BY <3>1 DEF LiveAt
      <3>3. LogRead(a) = [file_no |-> f, data |-> cur[f].data]
        BY <3>1, <3>2 DEF LiveAt
      <3>4. LogRead(a).data = cur[f].data
        BY <3>3
      <3>. QED  BY <2>1, <3>2, <3>4 DEF RunningValue
    <2>. QED  BY <2>2, <2>3
  <1>. QED  BY <1>1, <1>2

\* The promise, once given up, is not given again.
LEMMA PromiseEnds ==
    ASSUME ~Promised, [Next]_vars
    PROVE  ~Promised'
  BY DEF Promised, Next, Mount, WriteData, LogWrite, FlushIno, ReadFile, FlushInode,
         Unmount, StoreCheckpoint, CleanSegFault, Crash, CrashErased, CrashTorn,
         TornPush, CrashTornCheckpoint, PutCheckpoint, vars, flash, volatile, history

\* While it stands, each step is one of Store in terms of what was written and
\* what was saved.
LEMMA HistorySteps ==
    ASSUME TypeOK, [Next]_vars, Promised, Promised'
    PROVE  \/ /\ ~Mounted /\ Mounted' /\ cur' = saved /\ saved' = saved
           \/ /\ Mounted /\ Mounted' /\ saved' = saved
              /\ \E f \in Files, v \in Vals, a \in Addr :
                     cur' = [cur EXCEPT ![f] = [addr |-> a, data |-> v]]
           \/ /\ Mounted /\ ~Mounted' /\ saved' = cur
           \/ /\ Mounted /\ ~Mounted' /\ saved' = saved
           \/ /\ Mounted' = Mounted /\ saved' = saved /\ (Mounted => cur' = cur)
  <1>1. CASE Mount
    BY <1>1 DEF Mount, Mounted
  <1>2. ASSUME NEW f \in Files, NEW v \in Vals, WriteData(f, v)
        PROVE  /\ Mounted /\ Mounted' /\ saved' = saved
               /\ tail \in Addr
               /\ cur' = [cur EXCEPT ![f] = [addr |-> tail, data |-> v]]
    BY <1>2 DEF WriteData, Mounted, TypeOK
  <1>3. CASE FlushIno \/ (\E f \in Files : ReadFile(f)) \/ Unmount
    BY <1>3 DEF FlushIno, ReadFile, FlushInode, Unmount, Mounted
  <1>4. CASE StoreCheckpoint
    BY <1>4 DEF StoreCheckpoint, PutCheckpoint, CpEnd, Mounted, Promised
  <1>5. CASE CleanSegFault \/ Crash \/ (\E s \in Segs : CrashErased(s))
    BY <1>5 DEF CleanSegFault, Crash, CrashErased, Mounted, history
  <1>6. ASSUME NEW k \in 0 .. ImageEnd, CrashTorn(k)
        PROVE  Mounted /\ ~Mounted' /\ saved' = saved
    BY <1>6, CrashTornImage DEF Mounted, TornPush, history
  <1>7. CASE UNCHANGED vars
    BY <1>7 DEF vars, history, Mounted
  <1>8. ASSUME NEW k \in 0 .. CpEnd, CrashTornCheckpoint(k)
        PROVE  Mounted /\ ~Mounted' /\ (saved' = saved \/ saved' = cur)
    BY <1>8 DEF CrashTornCheckpoint, PutCheckpoint, Mounted
  <1>. QED  BY <1>1, <1>2, <1>3, <1>4, <1>5, <1>6, <1>7, <1>8 DEF Next

\* Every step of Log is one of Store, or leaves it alone.
LEMMA StepIsStore ==
    ASSUME TypeOK, ViewsAreHistory, ViewsAreHistory', [Next]_vars
    PROVE  [S!Next]_(S!vars)
  <1>1. CASE ~Promised
    BY <1>1, PromiseEnds DEF S!Next, Promised
  <1>2. CASE Promised /\ ~Promised'
    BY <1>2 DEF S!Next, S!GiveUp, Promised
  <1>3. CASE Promised /\ Promised'
    <2>1. /\ DurableView = LastWritten(saved)
          /\ RunningView = LastWritten(IF Mounted THEN cur ELSE saved)
          /\ DurableView' = LastWritten(saved')
          /\ RunningView' = LastWritten(IF Mounted' THEN cur' ELSE saved')
      BY <1>3 DEF ViewsAreHistory, LastWritten
    <2>2. CASE ~Mounted /\ Mounted' /\ cur' = saved /\ saved' = saved
      BY <1>3, <2>1, <2>2 DEF S!Next, S!Start, Promised, Mounted
    <2>3. ASSUME Mounted, Mounted', saved' = saved,
                 NEW f \in Files, NEW v \in Vals, NEW a \in Addr,
                 cur' = [cur EXCEPT ![f] = [addr |-> a, data |-> v]]
          PROVE  S!Next
      <3>1. LastWritten(cur') = [LastWritten(cur) EXCEPT ![f] = v]
        BY <2>3 DEF LastWritten, TypeOK
      <3>. QED  BY <1>3, <2>1, <2>3, <3>1 DEF S!Next, S!Put, Promised, Mounted
    <2>4. CASE Mounted /\ ~Mounted' /\ saved' = cur
      BY <1>3, <2>1, <2>4 DEF S!Next, S!Save, Promised, Mounted
    <2>5. CASE Mounted /\ ~Mounted' /\ saved' = saved
      BY <1>3, <2>1, <2>5 DEF S!Next, S!Fail, Promised, Mounted
    <2>6. CASE Mounted' = Mounted /\ saved' = saved /\ (Mounted => cur' = cur)
      BY <1>3, <2>1, <2>6 DEF S!vars, Promised, Mounted
    <2>. QED  BY <1>3, <2>2, <2>3, <2>4, <2>5, <2>6, HistorySteps
  <1>. QED  BY <1>1, <1>2, <1>3

\* An empty log is an empty store.
LEMMA InitIsStore ==
    ASSUME Init
    PROVE  S!Init
  <1>1. DurableView = [f \in Files |-> Blank]
    <2>. SUFFICES ASSUME NEW f \in Files PROVE DurableValue(f) = Blank
      BY DEF DurableView
    <2>1. FlashInode(f) = Null
      BY NamesAssumption DEF Init, NoIfile, FlashInode
    <2>. QED  BY <2>1, NullAssumption DEF DurableValue
  <1>. QED  BY <1>1 DEF Init, S!Init, RunningView, Mounted, Promised
-----------------------------------------------------------------------------
(* The log keeps a value per file and a saved copy of them all: every step *)
(* of an append, a push, a move of the tail, an unmount, a mount, and a    *)
(* kill at any instant, within the write of the checkpoint too, is one     *)
(* step of Store or invisible, until the log wraps, a segment fails to     *)
(* reach the flash, or a torn checkpoint is mounted.                       *)
THEOREM Implements == Spec => ImplementsStore
  <1>1. Init => MemIsTail
    BY DEF Init, MemIsTail, Mounted
  <1>2. TypeOK /\ MemIsTail /\ [Next]_vars => MemIsTail'
    BY MemIsTailStep
  <1>3. Sound => ViewsAreHistory
    BY DurableViewIs, RunningViewIs DEF ViewsAreHistory
  <1>4. TypeOK /\ ViewsAreHistory /\ ViewsAreHistory' /\ [Next]_vars
            => [S!Next]_(S!vars)
    BY StepIsStore
  <1>5. Init => S!Init
    BY InitIsStore
  <1>. QED  BY <1>1, <1>2, <1>3, <1>4, <1>5, TypeCorrect, DataSafe, IfileSafe, PTL
            DEF Spec, Sound, ImplementsStore, S!Spec
=============================================================================
