---------------------- MODULE SnapshotterDeviceProofs ----------------------
(***************************************************************************)
(* Theorems about the directories, the configs and the devices of the       *)
(* snapshotter: what the steps do to them, beside the writer and beside the *)
(* calls of Mounts, on top of the metadata that SnapshotterProofs describes.*)
(***************************************************************************)
EXTENDS SnapshotterProofs

-----------------------------------------------------------------------------
(* How the calls go on.                                                    *)

\* Where the writer is says what it may do.
LEMMA StageActions ==
  ASSUME [Next]_vars, ~UNCHANGED writer
  PROVE  /\ pc \in Preparing => PrepareStep \/ Crash
         /\ pc \in Sealing \cup {"publish"} => CommitStep \/ Crash
         /\ pc \in Removing \cup Leaving => RemoveStep \/ Crash
         /\ pc = "idle" => \/ \E q \in Requests : BeginPrepare(q)
                           \/ \E k \in Keys, n \in Keys : BeginCommit(k, n)
                           \/ \E k \in Keys : BeginRemove(k)
                           \/ Crash
  <1>1. PrepareStep => pc \in Preparing
    BY DEF PrepareStep, RenameDirectory, PrepareRemote, PrepareLayer,
           PrepareDockerLayer, PrepareRootfs, AttachDevice, AttachDeviceFails,
           MarkDevice, MarkDeviceFails, MountDevice, MountDeviceFails, CommitPrepare,
           CommitPrepareFails, Preparing
  <1>2. CommitStep => pc \in Sealing \cup {"publish"}
    BY DEF CommitStep, SealWritable, DetachWritableFails, SealWritableFails,
           CommitMetadata, CommitCommit, CommitCommitFails, Sealing
  <1>3. RemoveStep => pc \in Removing \cup Leaving
    BY DEF RemoveStep, RemoveOwnDevice, RemoveOwnDeviceFails, RemoveDockerDevice,
           RemoveDockerDeviceFails, LockOwnId, LockParentId, RemoveParentDevice,
           RemoveParentDeviceFails, RemoveMetadata, RemoveDirectories, CommitRemove,
           CommitRemoveFails, Removing, Leaving
  <1>4. ASSUME NEW q, BeginPrepare(q) PROVE pc = "idle"
    BY <1>4 DEF BeginPrepare
  <1>5. ASSUME NEW k, NEW n, BeginCommit(k, n) \/ BeginRemove(k) PROVE pc = "idle"
    BY <1>5 DEF BeginCommit, BeginRemove
  <1> QED
    BY <1>1, <1>2, <1>3, <1>4, <1>5, WriterActions
       DEF WriterStep, Preparing, Sealing, Removing, Leaving

\* Prepare goes on, commits, or is rolled back.
LEMMA PrepareFlow ==
  ASSUME IInv, PrepareStep
  PROVE  \/ /\ pc' \in Preparing \ {"rename"} /\ call'.id = call.id
            /\ call'.key = call.key /\ UNCHANGED store
            /\ ~Rollback
         \/ CommitPrepare
         \/ AbandonPrepare /\ pc # "commit" /\ pc # "rename"
         \/ RenameDirectory /\ Rollback
         \/ CommitPrepareFails
  <1>1. \A d : LET c == [call EXCEPT !.dev = d] IN c.id = call.id /\ c.key = call.key
    BY DEF IInv, TypeOK, Call
  <1>2. CASE PrepareDockerLayer
    BY <1>1, <1>2 DEF PrepareDockerLayer, Preparing, Rollback, Finish
  <1>3. CASE PrepareRootfs
    <2>1. \/ AbandonPrepare /\ pc = "spec"
          \/ /\ pc' \in {"attach", "commit"} /\ UNCHANGED store
             /\ call' = call \/ \E d : call' = [call EXCEPT !.dev = d]
      BY <1>3 DEF PrepareRootfs
    <2> QED
      BY <1>1, <2>1 DEF Preparing, Rollback, Finish
  <1>4. CASE PrepareRemote \/ PrepareLayer
    BY <1>4 DEF PrepareRemote, PrepareLayer, Preparing, Rollback, Finish, AbandonPrepare
  <1>5. CASE AttachDevice \/ MarkDevice \/ MountDevice
    BY <1>5 DEF AttachDevice, MarkDevice, MountDevice, Preparing, Rollback, Finish
  <1>6. CASE AttachDeviceFails \/ MarkDeviceFails \/ MountDeviceFails
    BY <1>6 DEF AttachDeviceFails, MarkDeviceFails, MountDeviceFails, Preparing,
                Rollback
  <1>7. CASE RenameDirectory
    BY <1>7 DEF RenameDirectory, Preparing, Rollback, Finish
  <1> QED
    BY <1>2, <1>3, <1>4, <1>5, <1>6, <1>7 DEF PrepareStep

\* The parent whose device a call of Mounts attaches is an older snapshot, and it
\* is committed if it is still there.
LEMMA ReaderBelow ==
  ASSUME IInv, NEW r \in Readers,
         rpc[r] \in {"mark", "mount"} \/ (rpc[r] # "idle" /\ NeedsParent(r))
  PROVE  LET i == ParentId(rsnaps[r], rkey[r])
         IN  /\ i \in Ids /\ i <= seq
             /\ \A k \in Live(snaps) : snaps[k].id = i => snaps[k].kind = "committed"
  <1> DEFINE s == rsnaps[r] k == rkey[r]
  <1>1. ReaderOK(r)
    BY DEF IInv, MetaInv, ReaderInv
  <1>2. /\ k \in Live(s) /\ WellFormed(s, seq) /\ s[k].parent # None
        /\ \A c \in Committed(s), j \in Live(snaps) :
               s[c].id = snaps[j].id => snaps[j].kind = "committed"
    BY <1>1 DEF ReaderOK, NeedsParent, ParentIsBlock
  <1> HIDE DEF s, k
  <1>3. /\ s[k].parent \in Committed(s) /\ s[k].parent \in Live(s)
        /\ ParentId(s, k) \in Ids /\ ParentId(s, k) = s[s[k].parent].id
    BY <1>2, ParentTyped DEF Committed
  <1>4. ParentId(s, k) <= seq
    BY <1>2, <1>3 DEF WellFormed
  <1> QED
    BY <1>2, <1>3, <1>4 DEF s, k

-----------------------------------------------------------------------------
(* How a directory changes.                                                *)

\* A field of the directory of i changes.
Marks(i)       == dir[i] # None /\ dir'[i] = [dir[i] EXCEPT !.mark = TRUE]
Creates(i)     == /\ i = call.id /\ pc = "rename" /\ pc' = "spec" /\ call' = call
                  /\ dir[i] = None /\ dir'[i] = NewDir
Configures(i)  == /\ i = call.id /\ (PrepareRemote \/ CommitMetadata)
                  /\ ~Rollback /\ Whole(i) /\ BaseConf(wsnaps, call.key) # None
                  /\ CommitMetadata => Data(i) # "none"
                  /\ dir'[i] = [dir[i] EXCEPT !.conf = Append(BaseConf(wsnaps, call.key), i)]
Overwrites(i)  == /\ i = call.id /\ PrepareRootfs /\ ~Rollback
                  /\ BaseConf(wsnaps, call.key) # None
                  /\ wsnaps[call.key].flavor = "rw"
                  /\ dir'[i] = [NewDir EXCEPT !.conf = BaseConf(wsnaps, call.key),
                                   !.data = "writable", !.whole = Whole(i)]
Seals(i)       == /\ i = call.id /\ SealWritable /\ HasWritable /\ dir[i] # None
                  /\ dir'[i] = [dir[i] EXCEPT !.data = "sealed"]
Unpacks(i)     == \E k \in Keys : /\ ClientUnpack(k) /\ i = snaps[k].id /\ dir[i] # None
                                  /\ dir'[i] = [dir[i] EXCEPT !.data = "blob"]
Removes(i)     == /\ dir'[i] = Removed(i)
                  /\ \/ RemoveDoomed(i)
                     \/ i = call.id /\ pc \in Preparing \ {"commit"} /\ Rollback
                     \/ i \in call.removals /\ RemoveDirectories

\* Each directory stays, or is changed by one of these.
LEMMA DirChanges ==
  ASSUME IInv, [Next]_vars, NEW i \in Ids
  PROVE  \/ dir'[i] = dir[i]
         \/ Marks(i) \/ Creates(i) \/ Configures(i) \/ Overwrites(i) \/ Seals(i)
         \/ Unpacks(i) \/ Removes(i)
  <1>1. dir \in [Ids -> Directory \cup {None}]
    BY DEF IInv, TypeOK
  <1>2. ASSUME AbandonPrepare, pc \in Preparing \ {"commit"}
        PROVE  dir'[i] = dir[i] \/ Removes(i)
    BY <1>1, <1>2 DEF AbandonPrepare, Removes
  <1>3. CASE RenameDirectory
    BY <1>1, <1>3 DEF RenameDirectory, Creates, Removes, Preparing
  <1>4. CASE PrepareRemote
    <2>1. CASE AbandonPrepare
      BY <1>2, <1>4, <2>1 DEF PrepareRemote, Preparing
    <2>2. CASE ~AbandonPrepare
      <3>1. /\ Whole(call.id) /\ BaseConf(wsnaps, call.key) # None /\ ~Rollback
            /\ dir' = [dir EXCEPT ![call.id].conf = Append(BaseConf(wsnaps, call.key), call.id)]
            /\ pc = "spec"
        BY <1>4, <2>2 DEF PrepareRemote, Stacked, Rollback, Finish
      <3>2. CASE i = call.id
        <4>1. ~CommitMetadata
          BY <3>1 DEF CommitMetadata
        <4>2. dir'[i] = [dir[i] EXCEPT !.conf = Append(BaseConf(wsnaps, call.key), i)]
          BY <1>1, <3>1, <3>2
        <4> QED
          BY <1>4, <3>1, <3>2, <4>1, <4>2 DEF Configures
      <3>3. CASE i # call.id
        BY <1>1, <3>1, <3>3
      <3> QED
        BY <3>2, <3>3
    <2> QED
      BY <2>1, <2>2
  <1>5. CASE CommitMetadata
    <2>1. CASE UNCHANGED dir
      BY <2>1
    <2>2. CASE ~UNCHANGED dir
      <3>1. /\ Whole(call.id) /\ BaseConf(wsnaps, call.key) # None /\ ~Rollback
            /\ dir' = [dir EXCEPT ![call.id].conf = Append(BaseConf(wsnaps, call.key), call.id)]
            /\ Data(call.id) # "none"
        BY <1>5, <2>2 DEF CommitMetadata, Stacked, Rollback, Finish
      <3>2. CASE i = call.id
        <4>1. dir'[i] = [dir[i] EXCEPT !.conf = Append(BaseConf(wsnaps, call.key), i)]
          BY <1>1, <3>1, <3>2
        <4> QED
          BY <1>5, <3>1, <3>2, <4>1 DEF Configures
      <3>3. CASE i # call.id
        BY <1>1, <3>1, <3>3
      <3> QED
        BY <3>2, <3>3
    <2> QED
      BY <2>1, <2>2
  <1>6. CASE PrepareRootfs
    <2>1. CASE AbandonPrepare
      BY <1>2, <1>6, <2>1 DEF PrepareRootfs, Preparing
    <2>2. CASE UNCHANGED dir
      BY <2>2
    <2>3. CASE ~AbandonPrepare /\ ~UNCHANGED dir
      <3>1. /\ BaseConf(wsnaps, call.key) # None /\ ~Rollback
            /\ wsnaps[call.key].flavor = "rw"
            /\ dir' = [dir EXCEPT ![call.id] =
                          [NewDir EXCEPT !.conf = BaseConf(wsnaps, call.key),
                                         !.data = "writable", !.whole = Whole(call.id)]]
        BY <1>6, <2>3 DEF PrepareRootfs, Writable, Rollback, Finish, disk
      <3>2. CASE i = call.id
        BY <1>1, <1>6, <3>1, <3>2 DEF Overwrites
      <3>3. CASE i # call.id
        BY <1>1, <3>1, <3>3
      <3> QED
        BY <3>2, <3>3
    <2> QED
      BY <2>1, <2>2, <2>3
  <1>7. CASE AttachDeviceFails \/ MarkDeviceFails \/ MountDeviceFails
    BY <1>2, <1>7 DEF AttachDeviceFails, MarkDeviceFails, MountDeviceFails, Preparing
  <1>8. CASE MarkDevice
    BY <1>1, <1>8 DEF MarkDevice, Marking, Marks
  <1>9. ASSUME NEW r \in Readers, MountsMark(r)
        PROVE  dir'[i] = dir[i] \/ Marks(i)
    BY <1>1, <1>9 DEF MountsMark, Marking, Marks
  <1>10. CASE SealWritable
    BY <1>1, <1>10 DEF SealWritable, Data, Seals
  <1>11. ASSUME NEW k \in Keys, ClientUnpack(k)
         PROVE  dir'[i] = dir[i] \/ Unpacks(i)
    <2>1. /\ dir' = [dir EXCEPT ![snaps[k].id].data = "blob"] /\ dir[snaps[k].id] # None
      BY <1>11 DEF ClientUnpack
    <2> QED
      BY <1>1, <1>11, <2>1 DEF Unpacks
  <1>12. CASE RemoveDirectories
    <2>1. dir'[i] = IF i \in call.removals THEN Removed(i) ELSE dir[i]
      BY <1>12 DEF RemoveDirectories
    <2> QED
      BY <1>12, <2>1 DEF Removes
  <1>13. ASSUME NEW j \in Ids, RemoveDoomed(j)
         PROVE  dir'[i] = dir[i] \/ Removes(i)
    <2>1. dir' = [dir EXCEPT ![j] = Removed(j)]
      BY <1>13 DEF RemoveDoomed
    <2>2. CASE i = j
      BY <1>1, <1>13, <2>1, <2>2 DEF Removes
    <2>3. CASE i # j
      BY <1>1, <2>1, <2>3
    <2> QED
      BY <2>2, <2>3
  <1> QED
    BY <1>3, <1>4, <1>5, <1>6, <1>7, <1>8, <1>9, <1>10, <1>11, <1>12, <1>13, DirActions

\* The config with which the call's own begins.
LEMMA CallBase ==
  ASSUME IInv, PrepareRemote \/ PrepareRootfs \/ CommitMetadata,
         BaseConf(wsnaps, call.key) # None
  PROVE  BaseConf(wsnaps, call.key) \in Seq(Ids)
  <1>1. call.key \in Live(wsnaps)
    BY CallId DEF PrepareRemote, PrepareRootfs, CommitMetadata, Sealing
  <1> QED
    BY <1>1, BaseTyped DEF IInv, MetaInv

-----------------------------------------------------------------------------
(* The directory of every snapshot.                                        *)

\* No transaction fails to commit, and the process does not die. (Remove deletes
\* the directory of its snapshot before it commits, and a crash forgets what the
\* process was doing: see the runs with the faults "commit" and "crash".)
TransactionsHold == Faults \cap {"commit", "crash"} = {}

\* A listed snapshot has its directory, but for the one whose removal is about
\* to be committed. No id that the store has not given has a directory or a
\* mounted device, but for the one that is being made. And Cleanup's list names
\* ids that were given and that no snapshot has.
DirInv ==
    /\ \A k \in Live(snaps) : \/ Whole(snaps[k].id)
                              \/ k = call.key /\ pc = "removeCommit"
    /\ \A i \in Ids : i > seq /\ dir[i] # None
                          => i = call.id /\ pc \in Preparing \ {"rename"}
    /\ pc \in Preparing \ {"rename"} => Whole(call.id)
    /\ \A i \in mnt : i <= seq \/ (i = call.id /\ pc = "commit")
    /\ \A i \in doomed : i <= seq
    /\ doomed \cap LiveIds(snaps) = {}

\* A directory that stays in place stays whole.
LEMMA WholeStays ==
  ASSUME IInv, [Next]_vars, NEW i \in Ids, ~Removes(i), ~Creates(i)
  PROVE  /\ Whole(i)' <=> Whole(i)
         /\ dir'[i] = None => dir[i] = None
         /\ dir[i] = None => dir'[i] = None \/ (i = call.id /\ pc = "spec")
  <1>1. dir[i] \in Directory \cup {None} /\ dir'[i] \in Directory \cup {None}
    BY DirType DEF IInv, TypeOK
  <1>2. \A d \in Directory : d # None
    BY NoneAssumption
  <1>3. CASE dir'[i] = dir[i]
    BY <1>3, Zenon DEF Whole
  <1>4. CASE Overwrites(i)
    <2>1. BaseConf(wsnaps, call.key) \in Seq(Ids)
      BY <1>4, CallBase DEF Overwrites
    <2>2. dir'[i] = [NewDir EXCEPT !.conf = BaseConf(wsnaps, call.key),
                        !.data = "writable", !.whole = Whole(i)]
      BY <1>4 DEF Overwrites
    <2>3. dir'[i] \in Directory /\ dir'[i].whole = Whole(i)
      BY <2>1, <2>2 DEF NewDir, Directory, Whole
    <2> QED
      BY <1>2, <1>4, <2>3 DEF Whole, Overwrites, PrepareRootfs
  <1>5. CASE Marks(i) \/ Configures(i) \/ Seals(i) \/ Unpacks(i)
    <2>1. dir[i] \in Directory
      BY <1>1, <1>5 DEF Marks, Configures, Seals, Unpacks, Whole
    <2>2. PICK c \in Seq(Ids) :
             \/ dir'[i] = [dir[i] EXCEPT !.mark = TRUE]
             \/ dir'[i] = [dir[i] EXCEPT !.conf = c]
             \/ dir'[i] = [dir[i] EXCEPT !.data = "sealed"]
             \/ dir'[i] = [dir[i] EXCEPT !.data = "blob"]
      <3>1. <<>> \in Seq(Ids)
        OBVIOUS
      <3>2. CASE Configures(i)
        <4>1. BaseConf(wsnaps, call.key) \in Seq(Ids)
          BY <3>2, CallBase DEF Configures
        <4>2. Append(BaseConf(wsnaps, call.key), i) \in Seq(Ids)
          BY <4>1
        <4> QED
          BY <3>2, <4>2 DEF Configures
      <3> QED
        BY <1>5, <3>1, <3>2 DEF Marks, Seals, Unpacks
    <2>3. dir'[i].whole = dir[i].whole /\ dir'[i] \in Directory
      BY <2>1, <2>2 DEF Directory
    <2>4. dir[i] # None /\ dir'[i] # None
      BY <1>2, <2>1, <2>3
    <2> QED
      BY <2>3, <2>4, Zenon DEF Whole
  <1> QED
    BY <1>3, <1>4, <1>5, DirChanges

\* Which fault a failure is.
LEMMA NoSuchFault ==
  ASSUME TransactionsHold
  PROVE  ~CommitPrepareFails /\ ~CommitCommitFails /\ ~CommitRemoveFails /\ ~Crash
  BY DEF TransactionsHold, CommitPrepareFails, CommitCommitFails, CommitRemoveFails,
         Crash, Fault

\* A version of the metadata that the writer commits: it has the ids that the
\* store has, and at most the next one, which is the call's.
LEMMA CommitIds ==
  ASSUME IInv, CommitPrepare \/ CommitCommit \/ CommitRemove
  PROVE  /\ snaps' = wsnaps /\ seq' = wseq /\ call' = NoCall /\ pc' = "idle"
         /\ seq \in Nat /\ seq' \in Nat /\ seq <= seq'
         /\ \A k \in Live(wsnaps) :
               \/ k \in Live(snaps) /\ wsnaps[k] = snaps[k]
               \/ wsnaps[k].id = call.id /\ pc \in {"commit", "publish"}
         /\ CommitPrepare => call.id = seq + 1 /\ seq' = seq + 1
         /\ CommitCommit => call.key \in Live(snaps) /\ call.id = snaps[call.key].id
         /\ CommitRemove => call.key \notin Live(wsnaps)
  <1>1. /\ snaps' = wsnaps /\ seq' = wseq /\ call' = NoCall /\ pc' = "idle"
        /\ pc \in {"commit", "publish", "removeCommit"}
        /\ CommitPrepare => pc = "commit"
        /\ CommitCommit => pc = "publish"
        /\ CommitRemove => pc = "removeCommit"
    BY DEF CommitPrepare, CommitCommit, CommitRemove, CommitTransaction, Finish
  <1>2. seq \in Nat /\ snaps \in [Keys -> Snapshot \cup {None}]
    BY DEF IInv, TypeOK
  <1>3. CASE pc = "commit"
    <2>1. AddedInv
      BY <1>3 DEF IInv, MetaInv, WriterInv, Preparing
    <2> QED
      BY <1>1, <1>2, <1>3, <2>1 DEF AddedInv, Live
  <1>4. CASE pc = "publish"
    <2>1. /\ call.key \in Live(snaps) /\ call.id = snaps[call.key].id /\ wseq = seq
          /\ wsnaps[call.key] = None /\ wsnaps[call.name].id = call.id
          /\ \A k \in Keys \ {call.key, call.name} : wsnaps[k] = snaps[k]
      BY <1>4 DEF IInv, MetaInv, WriterInv
    <2> QED
      BY <1>1, <1>2, <1>4, <2>1 DEF Live
  <1>5. CASE pc = "removeCommit"
    <2>1. wsnaps = [snaps EXCEPT ![call.key] = None] /\ wseq = seq /\ call.key \in Keys
      BY <1>5 DEF IInv, MetaInv, WriterInv, Leaving, Live
    <2>2. wsnaps[call.key] = None /\ \A k \in Keys \ {call.key} : wsnaps[k] = snaps[k]
      BY <1>2, <2>1
    <2> QED
      BY <1>1, <1>2, <1>5, <2>1, <2>2 DEF Live
  <1> QED
    BY <1>1, <1>3, <1>4, <1>5

\* What is removed belongs to no snapshot but the one that leaves.
LEMMA RemovesOrphans ==
  ASSUME IInv, [Next]_vars, TransactionsHold, DirInv, NEW i \in Ids, Removes(i)
  PROVE  /\ UNCHANGED store
         /\ \A k \in Live(snaps) : snaps[k].id = i
                => k = call.key /\ pc' = "removeCommit" /\ call'.key = call.key
         /\ i > seq => dir'[i] = None
  <1>1. /\ WellFormed(snaps, seq) /\ seq \in Nat /\ call \in Call
        /\ snaps \in [Keys -> Snapshot \cup {None}]
    BY DEF IInv, MetaInv, TypeOK
  <1>2. UNCHANGED store
    BY DEF Removes, RemoveDoomed, Rollback, RemoveDirectories
  <1>3. i > seq => dir'[i] = None
    <2>1. i > seq => i \notin mnt
      <3>1. pc = "commit" => ~Removes(i) \/ RemoveDoomed(i)
        BY DEF Removes, RemoveDirectories
      <3>2. RemoveDoomed(i) => i <= seq
        BY DEF RemoveDoomed, DirInv
      <3> QED
        BY <1>1, <3>1, <3>2 DEF DirInv, Ids
    <2> QED
      BY <2>1 DEF Removes, Removed
  <1>4. ASSUME NEW k \in Live(snaps), snaps[k].id = i
        PROVE  k = call.key /\ pc' = "removeCommit" /\ call'.key = call.key
    <2>1. CASE RemoveDoomed(i)
      BY <1>4, <2>1 DEF RemoveDoomed, DirInv, LiveIds
    <2>2. CASE i = call.id /\ pc \in Preparing
      <3>1. i = seq + 1
        BY <2>2 DEF IInv, MetaInv, WriterInv, AddedInv
      <3>2. snaps[k].id <= seq
        BY <1>1, <1>4 DEF WellFormed
      <3> QED
        BY <1>1, <1>4, <3>1, <3>2
    <2>3. CASE i \in call.removals /\ RemoveDirectories
      <3>1. /\ pc = "removeDirectories" /\ pc' = "removeCommit"
            /\ call' = [call EXCEPT !.locks = {}]
        BY <2>3 DEF RemoveDirectories
      <3>2. /\ wsnaps = [snaps EXCEPT ![call.key] = None] /\ i \notin LiveIds(wsnaps)
        BY <2>3, <3>1 DEF IInv, MetaInv, WriterInv, Leaving
      <3>3. k # call.key => k \in Live(wsnaps) /\ wsnaps[k] = snaps[k]
        BY <1>1, <1>4, <3>2 DEF Live
      <3>4. k = call.key
        BY <1>4, <3>2, <3>3 DEF LiveIds
      <3> QED
        BY <1>1, <3>1, <3>4 DEF Call
    <2> QED
      BY <2>1, <2>2, <2>3 DEF Removes
  <1> QED
    BY <1>2, <1>3, <1>4

\* Every step keeps it.
LEMMA DirStep ==
  ASSUME IInv, [Next]_vars, TransactionsHold, DirInv
  PROVE  DirInv'
  <1>1. /\ WellFormed(snaps, seq) /\ WellFormed(wsnaps, wseq) /\ seq \in Nat /\ seq' \in Nat
        /\ snaps \in [Keys -> Snapshot \cup {None}] /\ mnt \subseteq Ids
        /\ MetaInv' /\ doomed \subseteq Ids
    BY MetaStep, SeqType DEF IInv, MetaInv, TypeOK
  <1>2. /\ seq <= seq'
        /\ \A k \in Live(snaps') : \/ k \in Live(snaps) /\ snaps'[k].id = snaps[k].id
                                   \/ snaps'[k].id = call.id /\ CommitPrepare
                                   \/ /\ snaps'[k].id = call.id /\ CommitCommit
                                      /\ call.key \in Live(snaps)
                                      /\ call.id = snaps[call.key].id
    <2>1. CASE UNCHANGED store
      BY <1>1, <2>1 DEF store, Live
    <2>2. CASE CommitPrepare \/ CommitCommit \/ CommitRemove
      <3>1. CommitRemove => pc # "commit" /\ pc # "publish"
        BY DEF CommitRemove
      <3> QED
        BY <1>1, <2>2, <3>1, CommitIds
    <2> QED
      BY <2>1, <2>2, StoreActions
  \* The calls that leave the stages of Prepare or Remove.
  <1>3. pc = "removeCommit" =>
           \/ UNCHANGED <<pc, call>>
           \/ CommitRemove
    <2>1. pc = "removeCommit" /\ RemoveStep => CommitRemove \/ CommitRemoveFails
      BY DEF RemoveStep, RemoveOwnDevice, RemoveOwnDeviceFails, RemoveDockerDevice,
             RemoveDockerDeviceFails, LockOwnId, LockParentId, RemoveParentDevice,
             RemoveParentDeviceFails, RemoveMetadata, RemoveDirectories
    <2> QED
      BY <2>1, StageActions, NoSuchFault DEF writer, Leaving
  <1>4. pc \in Preparing /\ ~UNCHANGED writer =>
           \/ /\ pc' \in Preparing \ {"rename"} /\ call'.id = call.id
              /\ call'.key = call.key /\ UNCHANGED store /\ ~Rollback
           \/ CommitPrepare
           \/ AbandonPrepare /\ pc # "commit" /\ pc # "rename"
           \/ RenameDirectory /\ Rollback
    BY StageActions, PrepareFlow, NoSuchFault
  <1>5. \A k \in Live(snaps)' : \/ Whole(snaps[k].id)'
                                \/ k = call'.key /\ pc' = "removeCommit"
    <2>1. ASSUME NEW k \in Live(snaps'), NEW i \in Ids, i = snaps'[k].id
          PROVE  Whole(i)' \/ (k = call'.key /\ pc' = "removeCommit")
      <3>1. CASE UNCHANGED store
        <4>1. k \in Live(snaps) /\ snaps[k].id = i
          BY <2>1, <3>1 DEF Live, store
        <4>2. CASE k = call.key /\ pc = "removeCommit"
          <5>1. CommitRemove => k \notin Live(snaps')
            BY <4>2, CommitIds
          <5> QED
            BY <1>3, <2>1, <4>2, <5>1
        <4>3. CASE Whole(i)
          <5>1. CASE Removes(i)
            BY <2>1, <4>1, <5>1, RemovesOrphans
          <5>2. CASE Creates(i)
            BY <4>3, <5>2 DEF Creates, Whole
          <5>3. CASE ~Removes(i) /\ ~Creates(i)
            BY <2>1, <4>3, <5>3, WholeStays
          <5> QED
            BY <5>1, <5>2, <5>3
        <4> QED
          BY <4>1, <4>2, <4>3 DEF DirInv
      <3>2. CASE CommitPrepare \/ CommitCommit \/ CommitRemove
        <4>1. UNCHANGED dir
          BY <3>2 DEF CommitPrepare, CommitCommit, CommitRemove, disk
        <4>2. \/ k \in Live(snaps) /\ snaps[k].id = i
              \/ i = call.id /\ CommitPrepare
              \/ CommitCommit /\ call.key \in Live(snaps) /\ i = snaps[call.key].id
          BY <1>2, <2>1
        <4>3. CASE i = call.id /\ CommitPrepare
          BY <4>1, <4>3 DEF DirInv, Whole, CommitPrepare, Preparing
        <4>4. CASE CommitCommit
          <5>1. \A j \in Live(snaps) : Whole(snaps[j].id)
            BY <4>4 DEF DirInv, CommitCommit
          <5> QED
            BY <4>1, <4>2, <4>4, <5>1 DEF Whole, CommitPrepare, CommitCommit
        <4>5. CASE ~CommitCommit /\ k \in Live(snaps) /\ snaps[k].id = i
          <5>1. pc = "removeCommit" => k # call.key
            BY <2>1, <3>2, CommitIds DEF CommitPrepare, CommitCommit
          <5>2. Whole(i)
            BY <4>5, <5>1 DEF DirInv
          <5> QED
            BY <4>1, <5>2 DEF Whole
        <4> QED
          BY <4>2, <4>3, <4>4, <4>5
      <3> QED
        BY <3>1, <3>2, StoreActions
    <2>2. \A k \in Live(snaps') : snaps'[k].id \in Ids
      BY <1>1 DEF MetaInv, WellFormed, Live, Snapshot
    <2>3. \A k \in Live(snaps') :
             Whole(snaps[k].id)' \/ (k = call'.key /\ pc' = "removeCommit")
      BY <2>1, <2>2 DEF Whole
    <2> QED
      BY <2>3 DEF Live
  <1>6. \A i \in Ids : i > seq' /\ dir'[i] # None
                           => i = call'.id /\ pc' \in Preparing \ {"rename"}
    <2> SUFFICES ASSUME NEW i \in Ids, i > seq', dir'[i] # None
                 PROVE  i = call'.id /\ pc' \in Preparing \ {"rename"}
      OBVIOUS
    <2>1. i > seq
      BY <1>1, <1>2 DEF Ids
    <2>2. CASE Removes(i)
      BY <2>1, <2>2, RemovesOrphans
    <2>3. CASE Creates(i)
      BY <2>3 DEF Creates, Preparing
    <2>4. CASE ~Removes(i) /\ ~Creates(i)
      <3>1. CASE dir[i] = None
        <4>1. i = call.id /\ pc = "spec"
          BY <2>4, <3>1, WholeStays
        <4> QED
          BY <3>1, <4>1 DEF DirInv, Whole, Preparing
      <3>2. CASE dir[i] # None
        <4>1. i = call.id /\ pc \in Preparing \ {"rename"}
          BY <2>1, <3>2 DEF DirInv
        <4>2. CASE UNCHANGED writer
          BY <4>1, <4>2 DEF writer
        <4>3. CASE CommitPrepare
          BY <1>1, <4>1, <4>3, CommitIds
        <4>4. CASE AbandonPrepare /\ pc # "commit"
          <5>1. dir' = [dir EXCEPT ![i] = Removed(i)] /\ Rollback
            BY <4>1, <4>4 DEF AbandonPrepare
          <5>2. dir'[i] = Removed(i)
            BY <5>1 DEF IInv, TypeOK
          <5> QED
            BY <2>4, <4>1, <4>4, <5>1, <5>2 DEF Removes
        <4>5. CASE RenameDirectory
          BY <4>1, <4>5 DEF RenameDirectory
        <4> QED
          BY <1>4, <4>1, <4>2, <4>3, <4>4, <4>5
      <3> QED
        BY <3>1, <3>2
    <2> QED
      BY <2>2, <2>3, <2>4
  <1>7. pc' \in Preparing \ {"rename"} => Whole(call.id)'
    <2> SUFFICES ASSUME pc' \in Preparing \ {"rename"}
                 PROVE  Whole(call.id)'
      OBVIOUS
    <2>1. CASE UNCHANGED writer
      <3>1. pc \in Preparing \ {"rename"} /\ call.id \in Ids /\ Whole(call.id)
        BY <2>1, CallId DEF writer, DirInv, Preparing
      <3>2. ~Creates(call.id)
        BY <3>1 DEF Creates
      <3>3. CASE Removes(call.id)
        <4>1. RemoveDoomed(call.id)
          BY <2>1, <3>1, <3>3
             DEF Removes, Rollback, Finish, RemoveDirectories, writer, Preparing
        <4>2. call.id = seq + 1 /\ call.id <= seq
          BY <3>1, <4>1 DEF RemoveDoomed, DirInv, IInv, MetaInv, WriterInv, AddedInv
        <4> QED
          BY <1>1, <4>2
      <3>4. CASE ~Removes(call.id)
        <4>1. Whole(call.id)' /\ call' = call
          BY <2>1, <3>1, <3>2, <3>4, WholeStays DEF writer, Whole
        <4> QED
          BY <4>1 DEF Whole
      <3> QED
        BY <3>3, <3>4
    <2>2. CASE ~UNCHANGED writer
      <3>1. pc \in Preparing
        <4>1. pc \in Sealing \cup {"publish"} \cup Removing \cup Leaving
                => CommitStep \/ RemoveStep
          BY <2>2, StageActions, NoSuchFault
        <4>2. CommitStep => pc' \notin Preparing
          BY DEF CommitStep, SealWritable, DetachWritableFails, SealWritableFails,
                 CommitMetadata, CommitCommit, CommitCommitFails, CommitTransaction,
                 Rollback, Finish, Preparing
        <4>3. RemoveStep => pc' \notin Preparing
          BY DEF RemoveStep, RemoveOwnDevice, RemoveOwnDeviceFails,
                 RemoveDockerDevice, RemoveDockerDeviceFails, LockOwnId, LockParentId,
                 RemoveParentDevice, RemoveParentDeviceFails, RemoveMetadata,
                 RemoveDirectories, CommitRemove, CommitRemoveFails,
                 CommitTransaction, Rollback, Finish, Preparing
        <4>4. pc # "idle"
          <5>1. ASSUME NEW q, BeginPrepare(q) PROVE pc' = "rename"
            BY <5>1 DEF BeginPrepare
          <5>2. ASSUME NEW k, NEW n, BeginCommit(k, n) \/ BeginRemove(k)
                PROVE  pc' \in {"seal", "ownDevice"}
            BY <5>2 DEF BeginCommit, BeginRemove
          <5> QED
            BY <2>2, <5>1, <5>2, StageActions, NoSuchFault DEF Preparing
        <4> QED
          BY <4>1, <4>2, <4>3, <4>4
             DEF IInv, TypeOK, Steps, Preparing, Sealing, Removing, Leaving
      <3>2. /\ call'.id = call.id /\ ~Rollback /\ PrepareStep
        <4>1. pc' # "idle"
          BY DEF Preparing
        <4> QED
          BY <1>4, <2>2, <3>1, <4>1, StageActions, NoSuchFault
             DEF CommitPrepare, CommitTransaction, AbandonPrepare, Rollback, Finish
      <3>3. call.id \in Ids
        BY <3>1, CallId DEF Preparing
      <3>4. CASE pc = "rename"
        <4>1. RenameDirectory
          BY <3>2, <3>4 DEF PrepareStep, PrepareRemote, PrepareLayer,
                            PrepareDockerLayer, PrepareRootfs, AttachDevice,
                            AttachDeviceFails, MarkDevice, MarkDeviceFails,
                            MountDevice, MountDeviceFails, CommitPrepare,
                            CommitPrepareFails
        <4>2. dir' = [dir EXCEPT ![call.id] = NewDir]
          BY <3>2, <4>1 DEF RenameDirectory
        <4>3. dir'[call.id] = NewDir /\ NewDir # None /\ NewDir.whole
          BY <3>3, <4>2, ConfTyped, NoneAssumption DEF IInv, TypeOK, NewDir
        <4> QED
          BY <3>2, <4>3 DEF Whole
      <3>5. CASE pc # "rename"
        <4>1. Whole(call.id) /\ ~Creates(call.id)
          BY <3>1, <3>5 DEF DirInv, Creates
        <4>2. ~Removes(call.id)
          <5>1. ~RemoveDoomed(call.id)
            BY <2>2 DEF RemoveDoomed
          <5> QED
            BY <3>1, <3>2, <5>1 DEF Removes, RemoveDirectories, Preparing
        <4> QED
          BY <3>2, <3>3, <4>1, <4>2, WholeStays
      <3> QED
        BY <3>4, <3>5
    <2> QED
      BY <2>1, <2>2
  <1>8. \A i \in mnt' : i <= seq' \/ (i = call'.id /\ pc' = "commit")
    <2>1. ASSUME NEW i \in mnt
          PROVE  i <= seq' \/ (i = call'.id /\ pc' = "commit")
      <3>1. CASE i <= seq
        BY <1>1, <1>2, <3>1 DEF Ids
      <3>2. CASE i = call.id /\ pc = "commit"
        <4>1. CASE UNCHANGED writer
          BY <3>2, <4>1 DEF writer
        <4>2. CASE ~UNCHANGED writer
          <5>1. PrepareStep
            BY <3>2, <4>2, StageActions, NoSuchFault DEF Preparing
          <5>2. CommitPrepare
            BY <3>2, <5>1, NoSuchFault DEF PrepareStep, RenameDirectory,
                                           PrepareRemote, PrepareLayer,
                                           PrepareDockerLayer, PrepareRootfs,
                                           AttachDevice, AttachDeviceFails,
                                           MarkDevice, MarkDeviceFails, MountDevice,
                                           MountDeviceFails
          <5> QED
            BY <1>1, <3>2, <5>2, CommitIds
        <4> QED
          BY <4>1, <4>2
      <3> QED
        BY <3>1, <3>2 DEF DirInv
    <2>2. ASSUME MountDevice, NEW i \in mnt', i \notin mnt
          PROVE  i <= seq' \/ (i = call'.id /\ pc' = "commit")
      <3>1. i = call.dev /\ pc = "mount" /\ pc' = "commit" /\ call' = call /\ seq' = seq
        BY <2>2 DEF MountDevice, store
      <3>2. AddedInv /\ AddedKind /\ call.dev # None /\ call.key \in Live(wsnaps)
        BY <3>1, CallId, NoneAssumption DEF IInv, MetaInv, WriterInv, Preparing
      <3>3. call.id = seq + 1
        BY <3>2 DEF AddedInv
      <3>4. CASE call.dev = call.id
        BY <3>1, <3>4
      <3>5. CASE /\ wsnaps[call.key].parent # None
                 /\ call.dev = ParentId(wsnaps, call.key)
        <4>1. ParentId(wsnaps, call.key) < wsnaps[call.key].id
              /\ ParentId(wsnaps, call.key) \in Ids
          BY <1>1, <3>2, <3>5, ParentTyped
        <4>2. wsnaps[call.key].id = call.id
          BY <3>2 DEF AddedInv, Made, Live
        <4> QED
          BY <1>1, <3>1, <3>3, <3>5, <4>1, <4>2 DEF Ids
      <3> QED
        BY <3>2, <3>4, <3>5 DEF AddedKind, Live
    <2>3. ASSUME NEW r \in Readers, MountsMount(r), NEW i \in mnt', i \notin mnt
          PROVE  i <= seq'
      <3>1. i = ParentId(rsnaps[r], rkey[r]) /\ rpc[r] = "mount" /\ seq' = seq
        BY <2>3 DEF MountsMount, store
      <3>2. i \in Ids /\ i <= seq
        BY <3>1, ReaderBelow
      <3> QED
        BY <3>1, <3>2
    <2>4. \/ mnt' \subseteq mnt \/ MountDevice \/ \E r \in Readers : MountsMount(r)
      BY KernelActions DEF kernel, AttachDevice, CommitPrepareFails, SealWritable,
                           DetachWritableFails, SealWritableFails, RemoveOwnDevice,
                           RemoveOwnDeviceFails, RemoveDockerDevice,
                           RemoveDockerDeviceFails, LockOwnId, LockParentId,
                           RemoveParentDevice, RemoveParentDeviceFails, MountsAttach
    <2> QED
      BY <2>1, <2>2, <2>3, <2>4
  <1>9. \A i \in doomed' : i <= seq' /\ i \notin LiveIds(snaps')
    <2>1. ASSUME NEW i \in Ids, i <= seq, i \notin LiveIds(snaps)
          PROVE  i <= seq' /\ i \notin LiveIds(snaps')
      <3>1. CommitPrepare => call.id = seq + 1
        BY CommitIds
      <3>2. \A k \in Live(snaps) : snaps[k].id # i
        BY <2>1 DEF LiveIds
      <3>3. \A k \in Live(snaps') : snaps'[k].id # i
        BY <1>1, <1>2, <2>1, <3>1, <3>2 DEF Ids
      <3> QED
        BY <1>1, <1>2, <2>1, <3>3 DEF LiveIds, Ids
    <2>2. ASSUME NEW i \in doomed', i \notin doomed
          PROVE  i \in Ids /\ i <= seq /\ i \notin LiveIds(snaps)
      <3>1. ScanOrphans
        BY <2>2, DoomedActions DEF Crash, RemoveDoomed
      <3>2. /\ i \in Ids /\ dir[i] # None /\ i \notin LiveIds(snaps)
            /\ pc = "idle"
        BY <2>2, <3>1 DEF ScanOrphans, Orphans
      <3>3. ~(i > seq)
        BY <3>2 DEF DirInv, Preparing
      <3> QED
        BY <1>1, <3>2, <3>3 DEF Ids
    <2> QED
      BY <1>1, <2>1, <2>2 DEF DirInv
  <1>10. \A i \in doomed' : i <= seq' /\ i \notin LiveIds(snaps)'
    BY <1>9 DEF LiveIds, Live
  <1> QED
    BY <1>5, <1>6, <1>7, <1>8, <1>10 DEF DirInv

\* Nothing is there at first.
LEMMA DirInit == ASSUME Init PROVE DirInv
  <1>1. Live(snaps) = {}
    BY DEF Init, NoSnaps, Live
  <1> QED
    BY <1>1 DEF Init, DirInv, Preparing

\* Unless transactions fail to commit or the process dies, a listed snapshot has
\* its directory: what Remove and a failed Prepare delete, in whatever order,
\* belongs to no listed snapshot, and Prepare lists none before its directory has
\* its final name.
THEOREM SnapshotterDirectories == TransactionsHold => (Safety => []LiveHasDir)
  <1> SUFFICES ASSUME TransactionsHold
               PROVE  Safety => []LiveHasDir
    OBVIOUS
  <1>1. Init => IInv /\ DirInv
    BY InitInv, DirInit
  <1>2. IInv /\ DirInv /\ [Next]_vars => (IInv /\ DirInv)'
    BY InvStep, DirStep
  <1>3. IInv /\ DirInv => LiveHasDir
    BY DEF DirInv, LiveHasDir
  <1> QED
    BY <1>1, <1>2, <1>3, PTL DEF Safety

\* Under the same condition Cleanup, which deletes what it has listed after its
\* transaction has ended, deletes the directory of no snapshot: an id that it has
\* listed is never given again.
THEOREM SnapshotterCleanup == TransactionsHold => (Safety => []CleanupSparesLive)
  <1> SUFFICES ASSUME TransactionsHold
               PROVE  Safety => []CleanupSparesLive
    OBVIOUS
  <1>1. Init => IInv /\ DirInv
    BY InitInv, DirInit
  <1>2. IInv /\ DirInv /\ [Next]_vars => (IInv /\ DirInv)'
    BY InvStep, DirStep
  <1>3. IInv /\ DirInv => CleanupSparesLive
    BY DEF DirInv, CleanupSparesLive
  <1> QED
    BY <1>1, <1>2, <1>3, PTL DEF Safety

-----------------------------------------------------------------------------
(* What is mounted on the mountpoint of a directory.                       *)

\* How the device of i and its mount change.
Attaches(i) == /\ dev[i] = None /\ Conf(i) # None /\ i \notin mnt
               /\ dev'[i] = Conf(i) /\ mnt' = mnt
               /\ \/ AttachDevice /\ i = call.dev /\ pc' = "mark"
                  \/ \E r \in Readers : MountsAttach(r) /\ NeedsParent(r)
                                        /\ i = ParentId(rsnaps[r], rkey[r])
Mounts(i)   == /\ CanMount(i) /\ dev'[i] = dev[i] /\ UNCHANGED dir
               /\ \/ MountDevice /\ i = call.dev
                  \/ \E r \in Readers : MountsMount(r)
                                        /\ i = ParentId(rsnaps[r], rkey[r])

\* Each device stays, with its mount or without, or is changed by one of these.
LEMMA DevChanges ==
  ASSUME IInv, [Next]_vars, NEW i \in Ids
  PROVE  \/ /\ dev'[i] = dev[i]
            /\ i \in mnt' => i \in mnt
         \/ /\ dev'[i] = None
            /\ i \notin mnt'
         \/ Attaches(i) \/ Mounts(i)
  <1>1. dev \in [Ids -> Seq(Ids) \cup {None}]
    BY DEF IInv, TypeOK
  <1>2. CASE UNCHANGED kernel
    BY <1>2 DEF kernel
  <1>3. CASE AttachDevice
    <2>1. CASE call.dev \in mnt
      BY <1>3, <2>1 DEF AttachDevice
    <2>2. CASE call.dev \notin mnt
      <3>1. /\ CanAttach(call.dev) /\ dev' = [dev EXCEPT ![call.dev] = Conf(call.dev)]
            /\ mnt' = mnt /\ pc' = "mark"
        BY <1>3, <2>2 DEF AttachDevice, Attached
      <3>2. CASE i = call.dev
        BY <1>1, <1>3, <2>2, <3>1, <3>2 DEF Attaches, CanAttach
      <3>3. CASE i # call.dev
        BY <1>1, <3>1, <3>3
      <3> QED
        BY <3>2, <3>3
    <2> QED
      BY <2>1, <2>2
  <1>4. ASSUME NEW r \in Readers, MountsAttach(r)
        PROVE  (dev'[i] = dev[i] /\ (i \in mnt' => i \in mnt)) \/ Attaches(i)
    <2> DEFINE p == ParentId(rsnaps[r], rkey[r])
    <2>1. CASE p \in mnt
      BY <1>4, <2>1 DEF MountsAttach
    <2>2. CASE p \notin mnt
      <3>1. /\ CanAttach(p) /\ dev' = [dev EXCEPT ![p] = Conf(p)] /\ mnt' = mnt
            /\ NeedsParent(r)
        BY <1>4, <2>2 DEF MountsAttach, Attached
      <3>2. CASE i = p
        BY <1>1, <1>4, <2>2, <3>1, <3>2 DEF Attaches, CanAttach
      <3>3. CASE i # p
        BY <1>1, <3>1, <3>3
      <3> QED
        BY <3>2, <3>3
    <2> QED
      BY <2>1, <2>2
  <1>5. CASE MountDevice
    BY <1>5 DEF MountDevice, Mounts, disk
  <1>6. ASSUME NEW r \in Readers, MountsMount(r)
        PROVE  (dev'[i] = dev[i] /\ (i \in mnt' => i \in mnt)) \/ Mounts(i)
    BY <1>6 DEF MountsMount, Mounts, disk
  <1>7. CASE CommitPrepareFails \/ SealWritable \/ DetachWritableFails \/ SealWritableFails
    BY <1>1, <1>7 DEF CommitPrepareFails, SealWritable, DetachWritableFails,
                      SealWritableFails, Detached, kernel
  <1>8. CASE RemoveOwnDevice \/ RemoveOwnDeviceFails \/ RemoveDockerDevice
             \/ RemoveDockerDeviceFails
    BY <1>1, <1>8 DEF RemoveOwnDevice, RemoveOwnDeviceFails, RemoveDockerDevice,
       RemoveDockerDeviceFails, Detached, kernel
  <1>9. CASE RemoveParentDevice \/ RemoveParentDeviceFails
    BY <1>1, <1>9 DEF RemoveParentDevice, RemoveParentDeviceFails, Detached, kernel
  <1> QED
    BY <1>2, <1>3, <1>4, <1>5, <1>6, <1>7, <1>8, <1>9, KernelActions

\* If i is attached, it is with the config of its directory.
CurrentAt(i) == Whole(i) /\ dev[i] # None => dev[i] = Conf(i)

\* A mounted device of its own, of a snapshot that is not a layer yet, is that of
\* a writable root filesystem.
OwnMounted(x) ==
    x.kind = "active" /\ x.id \in mnt
        => x.flavor = "rw" /\ (Data(x.id) = "none" \/ Conf(x.id) # None)

\* The device that a mountpoint shows is current, and so is the one that Prepare,
\* View or Mounts has attached and is about to mount; and the snapshot whose
\* config is about to be written, by Prepare or by Commit, is not mounted.
CurrentInv ==
    /\ \A i \in mnt : dir[i] # None
    /\ MountsAreCurrent
    /\ pc \in {"mark", "mount"} => CurrentAt(call.dev)
    /\ \A r \in Readers :
           rpc[r] \in {"mark", "mount"} => CurrentAt(ParentId(rsnaps[r], rkey[r]))
    /\ pc = "spec" => call.id \notin mnt
    /\ \A k \in Live(snaps) : OwnMounted(snaps[k])
    /\ pc # "rename" => \A k \in Live(wsnaps) : OwnMounted(wsnaps[k])
    /\ pc = "metadata" /\ call.id \in mnt => Data(call.id) = "none"

\* What happens to the config of a directory that stays.
LEMMA ConfChanges ==
  ASSUME IInv, [Next]_vars, NEW i \in Ids
  PROVE  \/ /\ Conf(i)' = Conf(i) /\ Whole(i)' = Whole(i)
            /\ dir[i] # None <=> dir'[i] # None
            /\ Data(i)' = Data(i) \/ Unpacks(i) \/ Seals(i)
         \/ /\ Configures(i) \/ Overwrites(i)
            /\ Conf(i)' # None /\ dir'[i] # None /\ Whole(i)' = Whole(i)
            /\ Configures(i) => Data(i)' = Data(i)
            /\ Overwrites(i) => Data(i)' = "writable"
         \/ Creates(i) /\ Conf(i)' = None /\ Data(i)' = "none"
         \/ /\ Removes(i) /\ Conf(i)' = None /\ Data(i)' = "none" /\ ~Whole(i)'
            /\ i \in mnt /\ dir[i] # None => dir'[i] # None
  <1>1. dir[i] \in Directory \cup {None} /\ dir'[i] \in Directory \cup {None}
    BY DirType DEF IInv, TypeOK
  <1>2. \A d \in Directory : d # None
    BY NoneAssumption
  <1>3. CASE dir'[i] = dir[i]
    BY <1>3, Zenon DEF Conf, Whole, Data
  <1>4. CASE Marks(i)
    <2>1. /\ dir'[i].conf = dir[i].conf /\ dir'[i].whole = dir[i].whole
          /\ dir'[i].data = dir[i].data /\ dir[i] # None /\ dir'[i] \in Directory
      BY <1>1, <1>4 DEF Marks, Directory
    <2>2. dir'[i] # None
      BY <1>2, <2>1
    <2> QED
      BY <2>1, <2>2, Zenon DEF Conf, Whole, Data
  <1>5. CASE Unpacks(i) \/ Seals(i)
    <2>1. /\ dir'[i].conf = dir[i].conf /\ dir'[i].whole = dir[i].whole
          /\ dir[i] # None /\ dir'[i] \in Directory
      <3>1. PICK x \in {"blob", "sealed"} : dir[i] # None /\ dir'[i] = [dir[i] EXCEPT !.data = x]
        BY <1>5 DEF Unpacks, Seals
      <3> QED
        BY <1>1, <3>1 DEF Directory
    <2>2. dir'[i] # None
      BY <1>2, <2>1
    <2> QED
      BY <1>5, <2>1, <2>2, Zenon DEF Conf, Whole
  <1>6. CASE Configures(i)
    <2>1. BaseConf(wsnaps, call.key) \in Seq(Ids)
      BY <1>6, CallBase DEF Configures
    <2>2. Append(BaseConf(wsnaps, call.key), i) \in Seq(Ids)
      BY <2>1
    <2>3. /\ dir'[i].conf \in Seq(Ids) /\ dir'[i].whole = dir[i].whole
          /\ dir'[i].data = dir[i].data
          /\ dir[i] # None /\ dir'[i] \in Directory
      BY <1>1, <1>6, <2>2 DEF Configures, Whole, Directory
    <2>4. dir'[i] # None /\ dir'[i].conf # None
      BY <1>2, <2>3, NoneAssumption
    <2>5. ~Overwrites(i)
      BY <1>6 DEF Overwrites, Configures, PrepareRemote, PrepareRootfs,
                  CommitMetadata, IsRootfs
    <2> QED
      BY <1>6, <2>3, <2>4, <2>5, Zenon DEF Conf, Whole, Data
  <1>7. CASE Overwrites(i)
    <2>1. BaseConf(wsnaps, call.key) \in Seq(Ids)
      BY <1>7, CallBase DEF Overwrites
    <2>2. dir'[i] = [NewDir EXCEPT !.conf = BaseConf(wsnaps, call.key),
                        !.data = "writable", !.whole = Whole(i)]
      BY <1>7 DEF Overwrites
    <2>3. /\ dir'[i].conf \in Seq(Ids) /\ dir'[i].whole = Whole(i)
          /\ dir'[i] \in Directory /\ dir'[i].data = "writable"
      BY <2>1, <2>2 DEF NewDir, Directory, Whole
    <2>4. dir'[i] # None /\ dir'[i].conf # None
      BY <1>2, <2>3, NoneAssumption
    <2>5. ~Configures(i)
      BY <1>7 DEF Overwrites, Configures, PrepareRemote, PrepareRootfs,
                  CommitMetadata, IsRootfs
    <2>6. Whole(i)' = Whole(i)
      BY <2>3, <2>4 DEF Whole
    <2>7. Data(i)' = "writable"
      BY <2>3, <2>4 DEF Data
    <2> QED
      BY <1>7, <2>4, <2>5, <2>6, <2>7 DEF Conf
  <1>8. CASE Removes(i)
    <2>1. \/ dir'[i] = None /\ ~(i \in mnt /\ dir[i] # None)
          \/ dir'[i] = [NewDir EXCEPT !.whole = FALSE]
      BY <1>8 DEF Removes, Removed
    <2>2. dir'[i] # None => /\ dir'[i].data = "none" /\ dir'[i].whole = FALSE
                            /\ dir'[i].conf = None
      BY <2>1 DEF NewDir
    <2>3. i \in mnt /\ dir[i] # None => dir'[i] # None
      <3>1. [NewDir EXCEPT !.whole = FALSE] \in Directory
        BY DEF NewDir, Directory
      <3> QED
        BY <1>2, <2>1, <3>1
    <2> QED
      BY <1>8, <2>2, <2>3 DEF Data, Whole, Conf
  <1>9. CASE Creates(i)
    <2>1. dir'[i] = NewDir /\ NewDir \in Directory
      BY <1>9 DEF Creates, NewDir, Directory
    <2> QED
      BY <1>2, <1>9, <2>1 DEF Conf, Data, NewDir
  <1> QED
    BY <1>3, <1>4, <1>5, <1>6, <1>7, <1>8, <1>9, DirChanges

\* The steps that take the writer where a device is about to be mounted, where a
\* config is about to be written, and where a layer is about to be named.
LEMMA Arrivals ==
  ASSUME [Next]_vars
  PROVE  /\ pc' = "mark" => UNCHANGED writer \/ (AttachDevice /\ call' = call)
         /\ pc' = "mount" => UNCHANGED writer \/ (MarkDevice /\ call' = call)
         /\ pc' = "spec" => UNCHANGED writer \/ (RenameDirectory /\ call' = call)
         /\ pc' = "metadata" => UNCHANGED writer \/ (SealWritable /\ call' = call)
  <1>1. CASE PrepareStep
    BY <1>1 DEF PrepareStep, RenameDirectory, PrepareRemote, PrepareLayer, Rollback,
                PrepareDockerLayer, PrepareRootfs, AttachDevice, AttachDeviceFails,
                MarkDevice, MarkDeviceFails, MountDevice, MountDeviceFails,
                CommitPrepare, CommitPrepareFails, AbandonPrepare, Finish,
                CommitTransaction
  <1>2. CASE CommitStep
    BY <1>2 DEF CommitStep, SealWritable, DetachWritableFails, SealWritableFails,
                CommitMetadata, CommitCommit, CommitCommitFails, Rollback, Finish,
                CommitTransaction
  <1>3. CASE RemoveStep
    BY <1>3 DEF RemoveStep, RemoveOwnDevice, RemoveOwnDeviceFails, RemoveDockerDevice,
                RemoveDockerDeviceFails, LockOwnId, LockParentId, RemoveParentDevice,
                RemoveParentDeviceFails, RemoveMetadata, RemoveDirectories,
                CommitRemove, CommitRemoveFails, Rollback, Finish, CommitTransaction
  <1>4. CASE \E q \in Requests : BeginPrepare(q)
    BY <1>4 DEF BeginPrepare
  <1>5. CASE \E k \in Keys, n \in Keys : BeginCommit(k, n)
    BY <1>5 DEF BeginCommit
  <1>6. CASE \E k \in Keys : BeginRemove(k)
    BY <1>6 DEF BeginRemove
  <1>7. CASE Crash
    BY <1>7 DEF Crash, Rollback, Finish
  <1> QED
    BY <1>1, <1>2, <1>3, <1>4, <1>5, <1>6, <1>7, WriterActions DEF WriterStep

\* The snapshots of the writer's version are those of the store, or the one that
\* its call is about.
LEMMA VersionIds ==
  ASSUME IInv, NEW k \in Live(wsnaps)
  PROVE  \/ k \in Live(snaps) /\ wsnaps[k] = snaps[k]
         \/ pc \in Preparing /\ k = Made /\ wsnaps[k].id = call.id /\ call.id = seq + 1
         \/ pc = "publish" /\ wsnaps[k].id = call.id /\ wsnaps[k].kind = "committed"
  <1>1. /\ pc \in Steps /\ call.key \in Keys \cup {None} /\ k \in Keys
        /\ snaps \in [Keys -> Snapshot \cup {None}]
    BY DEF IInv, TypeOK, Call, Live
  <1>2. CASE pc \in {"idle"} \cup Sealing \cup Removing
    BY <1>2 DEF IInv, MetaInv, WriterInv, Live
  <1>3. CASE pc \in Preparing
    BY <1>3 DEF IInv, MetaInv, WriterInv, AddedInv, Live
  <1>4. CASE pc = "publish"
    BY <1>4 DEF IInv, MetaInv, WriterInv, Live, Committed
  <1>5. CASE pc \in Leaving
    BY <1>1, <1>5 DEF IInv, MetaInv, WriterInv, Live
  <1> QED
    BY <1>1, <1>2, <1>3, <1>4, <1>5 DEF Steps, Preparing, Sealing, Removing, Leaving

\* How the writer's version of the metadata changes.
LEMMA WriterVersions ==
  ASSUME IInv, [Next]_vars, NEW k \in Live(wsnaps')
  PROVE  \/ wsnaps' = snaps'
         \/ k \in Live(wsnaps) /\ wsnaps'[k] = wsnaps[k]
         \/ /\ pc = "idle" /\ pc' = "rename" /\ UNCHANGED dir
            /\ k \notin Live(snaps) /\ wsnaps[k] = None
            /\ wsnaps'[k].kind # "committed" /\ wsnaps'[k].id = seq + 1
         \/ /\ PrepareRemote \/ CommitMetadata
            /\ ~Rollback /\ k = call.name /\ wsnaps[k] = None
            /\ wsnaps'[k].kind = "committed" /\ wsnaps'[k].id = call.id
            /\ wsnaps'[k].parent = wsnaps[call.key].parent
         \/ /\ pc = "spec" /\ k = call.key /\ UNCHANGED <<mnt, dir>>
            /\ wsnaps'[k].kind = wsnaps[k].kind /\ wsnaps[k].kind # "committed"
            /\ wsnaps'[k].id = call.id
  <1>1. /\ wsnaps \in [Keys -> Snapshot \cup {None}] /\ k \in Keys
        /\ wsnaps'[k] # None
    BY DEF IInv, TypeOK, Live
  <1>2. wsnaps' = wsnaps => k \in Live(wsnaps) /\ wsnaps'[k] = wsnaps[k]
    BY <1>1 DEF Live
  <1>3. Rollback \/ CommitTransaction => wsnaps' = snaps'
    BY DEF Rollback, CommitTransaction, store
  <1>4. CASE PrepareRemote
    <2>1. CASE AbandonPrepare
      BY <1>3, <2>1 DEF AbandonPrepare
    <2>2. CASE ~AbandonPrepare
      <3>1. /\ wsnaps' = [wsnaps EXCEPT
                 ![call.key] = None,
                 ![call.name] = [wsnaps[call.key] EXCEPT !.kind = "committed"]]
            /\ ~Rollback /\ wsnaps[call.name] = None /\ pc = "spec"
        BY <1>4, <2>2 DEF PrepareRemote, Rollback, Finish
      <3>2. /\ call.key \in Live(wsnaps) /\ wsnaps[call.key] \in Snapshot
            /\ wsnaps[call.key].id = call.id
        <4>1. call.key \in Live(wsnaps) /\ wsnaps[call.key] \in Snapshot
          BY <1>1, <3>1, CallId DEF Live
        <4>2. AddedInv
          BY <3>1 DEF IInv, MetaInv, WriterInv, Preparing
        <4> QED
          BY <4>1, <4>2 DEF AddedInv, Made, Live
      <3>3. CASE k = call.name
        <4>1. wsnaps'[k] = [wsnaps[call.key] EXCEPT !.kind = "committed"]
          BY <1>1, <3>1, <3>3
        <4> QED
          BY <1>4, <3>1, <3>2, <3>3, <4>1 DEF Snapshot
      <3>4. CASE k # call.name
        BY <1>1, <3>1, <3>4 DEF Live
      <3> QED
        BY <3>3, <3>4
    <2> QED
      BY <2>1, <2>2
  <1>5. CASE CommitMetadata
    <2>1. CASE Rollback
      BY <1>3, <2>1
    <2>2. CASE ~Rollback
      <3>1. PICK f \in {wsnaps[call.key].flavor, "layer"} : wsnaps' = [wsnaps EXCEPT
               ![call.key] = None,
               ![call.name] = [wsnaps[call.key] EXCEPT !.kind = "committed",
                                                       !.flavor = f]]
        BY <1>5, <2>2 DEF CommitMetadata
      <3>2. /\ call.key \in Live(wsnaps) /\ wsnaps[call.key] \in Snapshot
            /\ wsnaps[call.key].id = call.id /\ wsnaps[call.name] = None
        <4>1. pc = "metadata" /\ wsnaps[call.name] = None
          BY <1>5, <2>2 DEF CommitMetadata
        <4> QED
          BY <1>1, <4>1 DEF IInv, MetaInv, WriterInv, Sealing, Live
      <3>3. CASE k = call.name
        <4>1. wsnaps'[k] = [wsnaps[call.key] EXCEPT !.kind = "committed", !.flavor = f]
          BY <1>1, <3>1, <3>3
        <4> QED
          BY <1>5, <2>2, <3>2, <3>3, <4>1 DEF Snapshot
      <3>4. CASE k # call.name
        BY <1>1, <3>1, <3>4 DEF Live
      <3> QED
        BY <3>3, <3>4
    <2> QED
      BY <2>1, <2>2
  <1>6. CASE PrepareRootfs
    <2>1. CASE AbandonPrepare
      BY <1>3, <2>1 DEF AbandonPrepare
    <2>2. CASE UNCHANGED wsnaps
      BY <1>2, <2>2
    <2>3. CASE ~AbandonPrepare /\ ~UNCHANGED wsnaps
      <3>1. /\ pc = "spec" /\ UNCHANGED <<mnt, dir>>
            /\ wsnaps' = [wsnaps EXCEPT ![call.key].flavor = IF @ = "rw" THEN "rootfs" ELSE @]
        BY <1>6, <2>3 DEF PrepareRootfs, kernel, disk
      <3>2. /\ call.key \in Live(wsnaps) /\ wsnaps[call.key] \in Snapshot
            /\ AddedInv /\ AddedKind
        BY <1>1, <3>1, CallId DEF Live, IInv, MetaInv, WriterInv, Preparing
      <3>3. wsnaps[call.key].id = call.id /\ wsnaps[call.key].kind # "committed"
        BY <3>1, <3>2 DEF AddedInv, Made, Live, AddedKind
      <3>4. CASE k = call.key
        BY <1>1, <3>1, <3>2, <3>3, <3>4 DEF Snapshot
      <3>5. CASE k # call.key
        BY <1>1, <3>1, <3>5 DEF Live
      <3> QED
        BY <3>4, <3>5
    <2> QED
      BY <2>1, <2>2, <2>3
  <1>7. CASE RemoveMetadata
    <2>1. CASE Rollback
      BY <1>3, <2>1
    <2>2. CASE ~Rollback
      <3>1. wsnaps' = [wsnaps EXCEPT ![call.key] = None]
        BY <1>7, <2>2 DEF RemoveMetadata
      <3> QED
        BY <1>1, <3>1 DEF Live
    <2> QED
      BY <2>1, <2>2
  <1>8. CASE PrepareStep /\ ~PrepareRemote /\ ~PrepareRootfs
    BY <1>2, <1>3, <1>8 DEF PrepareStep, RenameDirectory, PrepareLayer,
                            PrepareDockerLayer, AttachDevice, AttachDeviceFails,
                            MarkDevice, MarkDeviceFails, MountDevice,
                            MountDeviceFails, CommitPrepare, CommitPrepareFails,
                            AbandonPrepare
  <1>9. CASE CommitStep /\ ~CommitMetadata
    BY <1>2, <1>3, <1>9 DEF CommitStep, SealWritable, DetachWritableFails,
                            SealWritableFails, CommitCommit, CommitCommitFails
  <1>10. CASE RemoveStep /\ ~RemoveMetadata
    BY <1>2, <1>3, <1>10 DEF RemoveStep, RemoveOwnDevice, RemoveOwnDeviceFails,
                             RemoveDockerDevice, RemoveDockerDeviceFails, LockOwnId,
                             LockParentId, RemoveParentDevice,
                             RemoveParentDeviceFails, RemoveDirectories, CommitRemove,
                             CommitRemoveFails
  <1>11. CASE \E q \in Requests : BeginPrepare(q)
    <2>1. PICK q \in Requests : BeginPrepare(q)
      BY <1>11
    <2>2. /\ q.key \in Keys /\ snaps[q.key] = None /\ pc = "idle" /\ pc' = "rename"
          /\ wsnaps' = [snaps EXCEPT ![q.key] =
               [id |-> seq + 1, parent |-> q.parent, flavor |-> q.flavor,
                kind |-> IF q.flavor = "view" THEN "view" ELSE "active"]]
          /\ UNCHANGED dir
      BY <2>1, RequestsAssumption DEF BeginPrepare
    <2>3. wsnaps = snaps
      BY <2>2 DEF IInv, MetaInv, WriterInv
    <2>4. CASE k = q.key
      BY <1>1, <2>2, <2>3, <2>4 DEF Live
    <2>5. CASE k # q.key
      BY <1>1, <2>2, <2>3, <2>5 DEF Live
    <2> QED
      BY <2>4, <2>5
  <1>12. CASE \E i \in Keys, n \in Keys : BeginCommit(i, n)
    BY <1>2, <1>12 DEF BeginCommit
  <1>13. CASE \E i \in Keys : BeginRemove(i)
    BY <1>2, <1>13 DEF BeginRemove
  <1>14. CASE Crash
    BY <1>3, <1>14 DEF Crash
  <1>15. CASE UNCHANGED writer
    BY <1>2, <1>15 DEF writer
  <1> QED
    BY <1>4, <1>5, <1>6, <1>7, <1>8, <1>9, <1>10, <1>11, <1>12, <1>13, <1>14, <1>15,
       WriterActions DEF WriterStep

\* The config of a committed snapshot is not written any more.
LEMMA LayerUnwritten ==
  ASSUME IInv, [Next]_vars, NEW i \in Ids, i <= seq,
         \A k \in Live(snaps) : snaps[k].id = i => snaps[k].kind = "committed"
  PROVE  ~Creates(i) /\ ~Configures(i) /\ ~Overwrites(i)
  <1>1. seq \in Nat
    BY DEF IInv, TypeOK
  <1>2. pc \in Preparing => i # call.id
    <2>1. pc \in Preparing => call.id = seq + 1
      BY DEF IInv, MetaInv, WriterInv, AddedInv
    <2> QED
      BY <1>1, <2>1 DEF Ids
  <1>3. pc = "metadata" => i # call.id
    <2>1. pc = "metadata" => /\ call.key \in Live(snaps) /\ call.id = snaps[call.key].id
                             /\ snaps[call.key].kind = "active"
      BY DEF IInv, MetaInv, WriterInv, Sealing
    <2> QED
      BY <2>1
  <1> QED
    BY <1>2, <1>3 DEF Creates, Configures, Overwrites, PrepareRemote, CommitMetadata,
       PrepareRootfs, Preparing

\* A device stays current as long as its config is not written.
LEMMA CurrentKept ==
  ASSUME IInv, [Next]_vars, NEW i \in Ids, CurrentAt(i),
         ~Creates(i), ~Configures(i), ~Overwrites(i)
  PROVE  CurrentAt(i)'
  <1>1. CASE Conf(i)' = Conf(i) /\ Whole(i)' = Whole(i)
    <2>1. \/ dev'[i] = dev[i]
          \/ dev'[i] = None
          \/ dev'[i] = Conf(i)
      BY DevChanges DEF Attaches, Mounts
    <2> QED
      BY <1>1, <2>1 DEF CurrentAt
  <1>2. CASE ~Whole(i)'
    BY <1>2 DEF CurrentAt
  <1> QED
    BY <1>1, <1>2, ConfChanges


\* A mounted device of its own, of a snapshot that is not a layer yet, stays that of
\* a writable root filesystem.
LEMMA OwnKept ==
  ASSUME IInv, CurrentInv, [Next]_vars, NEW k, NEW s,
         k \in Live(s),
         s = snaps \/ (s = wsnaps /\ pc # "rename")
  PROVE  OwnMounted(s[k])'
  <1>1. /\ WellFormed(snaps, seq) /\ WellFormed(wsnaps, wseq) /\ seq \in Nat
        /\ s[k] \in Snapshot /\ OwnMounted(s[k])
    BY DEF IInv, MetaInv, TypeOK, WellFormed, CurrentInv, Live
  <1> DEFINE x == s[k] i == s[k].id
  <1>2. i \in Ids
    BY <1>1 DEF Snapshot
  <1>3. \/ k \in Live(snaps) /\ x = snaps[k]
        \/ pc \in Preparing /\ k = Made /\ s = wsnaps /\ i = call.id /\ call.id = seq + 1
        \/ x.kind = "committed"
    BY VersionIds
  <1> SUFFICES ASSUME x.kind = "active", i \in mnt'
               PROVE  x.flavor = "rw" /\ (Data(i)' = "none" \/ Conf(i)' # None)
    BY DEF OwnMounted
  <1> HIDE DEF x, i
  <1>4. CASE i \in mnt
    <2>1. x.flavor = "rw" /\ (Data(i) = "none" \/ Conf(i) # None) /\ dir[i] # None
      BY <1>1, <1>4 DEF OwnMounted, CurrentInv, x, i
    <2>2. CASE Unpacks(i)
      <3>1. PICK j \in Keys : ClientUnpack(j) /\ i = snaps[j].id
        BY <2>2 DEF Unpacks
      <3>2. pc = "idle" /\ j \in Live(snaps) /\ snaps[j].flavor = "layer"
        BY <3>1 DEF ClientUnpack, Live
      <3>3. k \in Live(snaps) /\ x = snaps[k] /\ snaps[k].id = snaps[j].id
        BY <1>3, <3>1, <3>2 DEF Preparing, x, i
      <3> QED
        BY <1>1, <2>1, <3>2, <3>3 DEF WellFormed
    <2>3. CASE Seals(i)
      BY <2>3 DEF Seals, SealWritable
    <2>4. CASE ~Unpacks(i) /\ ~Seals(i)
      BY <1>2, <2>1, <2>4, ConfChanges DEF Creates
    <2> QED
      BY <2>2, <2>3, <2>4
  <1>5. CASE i \notin mnt
    <2>1. Mounts(i)
      BY <1>2, <1>5, DevChanges DEF Attaches
    <2>2. CASE \E r \in Readers : MountsMount(r) /\ i = ParentId(rsnaps[r], rkey[r])
      <3>1. /\ i <= seq
            /\ \A j \in Live(snaps) : snaps[j].id = i => snaps[j].kind = "committed"
        BY <2>2, ReaderBelow DEF MountsMount
      <3> QED
        BY <1>1, <1>2, <1>3, <3>1 DEF x, i, Ids
    <2>3. CASE MountDevice /\ i = call.dev
      <3>1. /\ AddedInv /\ AddedKind /\ call.key \in Live(wsnaps) /\ call.dev # None
            /\ pc = "mount" /\ call.id = seq + 1
        BY <1>2, <2>3, CallId, NoneAssumption
           DEF MountDevice, IInv, MetaInv, WriterInv, Preparing, AddedInv
      <3>2. Made = call.key /\ wsnaps[call.key].id = call.id
        BY <3>1 DEF AddedInv, Made, Live
      <3>3. CASE call.dev = call.id /\ wsnaps[call.key].flavor = "rw"
        <4>1. x = wsnaps[call.key]
          <5>1. k \in Live(snaps) => snaps[k].id <= seq
            BY <1>1 DEF WellFormed
          <5> QED
            BY <1>1, <1>3, <2>3, <3>1, <3>2, <3>3, <5>1 DEF x, i
        <4>2. Conf(i) # None
          <5>1. CurrentAt(i) /\ dev[i] # None /\ Whole(i)
            BY <2>3, <3>1 DEF CurrentInv, MountDevice, CanMount
          <5> QED
            BY <5>1 DEF CurrentAt
        <4> QED
          BY <2>1, <3>3, <4>1, <4>2 DEF Mounts, Conf
      <3>4. CASE /\ wsnaps[call.key].parent # None
                 /\ call.dev = ParentId(wsnaps, call.key)
        <4> DEFINE p == wsnaps[call.key].parent
        <4>1. /\ p \in Live(wsnaps) /\ i = wsnaps[p].id /\ wsnaps[p].kind = "committed"
              /\ i < call.id
          BY <1>1, <2>3, <3>1, <3>2, <3>4, ParentTyped
        <4>2. p \in Live(snaps) /\ snaps[p] = wsnaps[p]
          <5>1. p # Made
            BY <1>2, <3>1, <3>2, <4>1 DEF Ids
          <5> QED
            BY <3>1, <4>1, <5>1 DEF AddedInv, Live
        <4>3. k \in Live(snaps) /\ x = snaps[k]
          BY <1>2, <1>3, <3>1, <4>1 DEF Ids
        <4>4. k = p
          BY <1>1, <4>1, <4>2, <4>3 DEF WellFormed, i, x
        <4> QED
          BY <4>1, <4>2, <4>3, <4>4
      <3> QED
        BY <3>1, <3>3, <3>4 DEF AddedKind, Live
    <2> QED
      BY <2>1, <2>2, <2>3 DEF Mounts
  <1> QED
    BY <1>4, <1>5


\* The snapshot that Commit is about to commit is none that a call of Mounts or
\* another one's Prepare attaches, and neither is one that is being made.
LEMMA OwnUnmounted ==
  ASSUME IInv, [Next]_vars, NEW i \in Ids, Mounts(i), pc # "mount"
  PROVE  /\ i <= seq
         /\ \A k \in Live(snaps) : snaps[k].id = i => snaps[k].kind = "committed"
  <1>1. PICK r \in Readers : MountsMount(r) /\ i = ParentId(rsnaps[r], rkey[r])
    BY DEF Mounts, MountDevice
  <1>2. rpc[r] = "mount"
    BY <1>1 DEF MountsMount
  <1> QED
    BY <1>1, <1>2, ReaderBelow

\* Every step keeps it.
LEMMA CurrentStep ==
  ASSUME IInv, CurrentInv, [Next]_vars
  PROVE  CurrentInv'
  <1>1. /\ mnt \subseteq Ids /\ mnt' \subseteq Ids /\ seq \in Nat /\ IInv'
        /\ WellFormed(snaps, seq) /\ WellFormed(wsnaps, wseq)
    <2>1. IInv'
      BY InvStep
    <2> QED
      BY <2>1 DEF IInv, MetaInv, TypeOK
  <1>2. \A i \in mnt' : dir'[i] # None
    <2> SUFFICES ASSUME NEW i \in Ids, i \in mnt' PROVE dir'[i] # None
      BY <1>1
    <2>1. CASE i \in mnt
      BY <2>1, ConfChanges DEF CurrentInv, Creates
    <2>2. CASE i \notin mnt
      <3>1. Mounts(i)
        BY <2>2, DevChanges DEF Attaches
      <3> QED
        BY <3>1 DEF Mounts, CanMount, Whole
    <2> QED
      BY <2>1, <2>2
  <1>3. ASSUME NEW i \in Ids, i \in mnt', Whole(i)'
        PROVE  dev'[i] = Conf(i)'
    <2>1. CASE i \in mnt
      <3>1. dir[i] # None /\ (Whole(i) => dev[i] = Conf(i))
        BY <2>1 DEF CurrentInv, MountsAreCurrent
      <3>2. dev'[i] = dev[i]
        BY <1>3, <2>1, DevChanges DEF Attaches, Mounts
      <3>3. ~Configures(i)
        BY <2>1 DEF Configures, PrepareRemote, CommitMetadata, CurrentInv
      <3>4. ~Overwrites(i) /\ ~Creates(i)
        BY <2>1, <3>1 DEF Overwrites, PrepareRootfs, Creates, CurrentInv
      <3>5. Conf(i)' = Conf(i) /\ Whole(i)' = Whole(i)
        BY <1>3, <3>3, <3>4, ConfChanges
      <3> QED
        BY <1>3, <3>1, <3>2, <3>5
    <2>2. CASE i \notin mnt
      <3>1. Mounts(i)
        BY <1>3, <2>2, DevChanges DEF Attaches
      <3>2. CurrentAt(i)
        BY <3>1 DEF Mounts, MountDevice, MountsMount, CurrentInv
      <3> QED
        BY <3>1, <3>2 DEF Mounts, CanMount, CurrentAt, Conf
    <2> QED
      BY <2>1, <2>2
  <1>4. MountsAreCurrent'
    BY <1>1, <1>3 DEF MountsAreCurrent
  <1>5. ASSUME pc' \in {"mark", "mount"} PROVE CurrentAt(call.dev)'
    <2>1. ASSUME NEW i \in Ids, i = call.dev PROVE CurrentAt(i)'
      <3>1. CASE UNCHANGED writer \/ MarkDevice
        <4>1. pc \in {"mark", "mount"} /\ CurrentAt(i)
          BY <1>5, <2>1, <3>1 DEF writer, MarkDevice, CurrentInv
        <4>2. ~Creates(i) /\ ~Configures(i) /\ ~Overwrites(i)
          BY <4>1 DEF Creates, Configures, Overwrites, PrepareRemote, PrepareRootfs,
             CommitMetadata
        <4> QED
          BY <4>1, <4>2, CurrentKept
      <3>2. CASE AttachDevice
        <4>1. dev' = Attached(i) /\ pc = "attach"
          BY <1>5, <2>1, <3>2 DEF AttachDevice
        <4>2. dev'[i] = Conf(i)
          BY <4>1 DEF Attached, IInv, TypeOK
        <4>3. Conf(i)' = Conf(i) \/ ~Whole(i)'
          BY <4>1, ConfChanges DEF Creates, Configures, Overwrites, PrepareRemote,
             PrepareRootfs, CommitMetadata
        <4> QED
          BY <4>2, <4>3 DEF CurrentAt
      <3> QED
        BY <1>5, <3>1, <3>2, Arrivals
    <2>2. call.dev \in Ids /\ call' = call
      <3>1. call' = call /\ pc \in {"attach", "mark", "mount"}
        BY <1>5, Arrivals DEF writer, AttachDevice, MarkDevice
      <3> QED
        BY <3>1, CallId
    <2> QED
      BY <2>1, <2>2 DEF CurrentAt, Whole, Conf
  <1>6. ASSUME NEW r \in Readers, rpc'[r] \in {"mark", "mount"}
        PROVE  CurrentAt(ParentId(rsnaps[r], rkey[r]))'
    <2>1. /\ rsnaps'[r] = rsnaps[r] /\ rkey'[r] = rkey[r]
          /\ \/ rpc[r] \in {"mark", "mount"}
             \/ MountsAttach(r) /\ NeedsParent(r) /\ rpc[r] # "idle"
      <3>1. CASE UNCHANGED readers
        BY <1>6, <3>1 DEF readers
      <3>2. ASSUME NEW q \in Readers, MountsStep(q) PROVE <2>1
        BY <1>6, <3>2 DEF MountsStep, LockMounts, LockMountsParent, MountsOfDirectory,
                          MountsAttach, MountsAttachFails, MountsMark,
                          MountsMarkFails, MountsMount, MountsMountFails, Return,
                          EndMounts, IInv, TypeOK
      <3>3. ASSUME NEW q \in Readers, NEW k \in Keys, BeginMounts(q, k) PROVE <2>1
        BY <1>6, <3>3 DEF BeginMounts, IInv, TypeOK
      <3>4. ~Crash
        BY <1>6 DEF Crash
      <3> QED
        BY <3>1, <3>2, <3>3, <3>4, ReaderActions
    <2>2. ASSUME NEW i \in Ids, i = ParentId(rsnaps[r], rkey[r])
          PROVE  CurrentAt(i)'
      <3>1. ~Creates(i) /\ ~Configures(i) /\ ~Overwrites(i)
        BY <2>1, <2>2, ReaderBelow, LayerUnwritten
      <3>2. CASE rpc[r] \in {"mark", "mount"}
        BY <2>2, <3>1, <3>2, CurrentKept DEF CurrentInv
      <3>3. CASE MountsAttach(r)
        <4>1. dev' = Attached(i)
          <5>1. rpc'[r] = "mark" /\ i \notin mnt
            BY <1>6, <2>2, <3>3 DEF MountsAttach, Return, EndMounts, IInv, TypeOK
          <5> QED
            BY <1>6, <2>2, <3>3, <5>1 DEF MountsAttach
        <4>2. dev'[i] = Conf(i)
          BY <4>1 DEF Attached, IInv, TypeOK
        <4>3. Conf(i)' = Conf(i) \/ ~Whole(i)'
          BY <3>1, ConfChanges
        <4> QED
          BY <4>2, <4>3 DEF CurrentAt
      <3> QED
        BY <2>1, <3>2, <3>3
    <2>3. ParentId(rsnaps[r], rkey[r]) \in Ids
      BY <2>1, ReaderBelow
    <2>4. ParentId(rsnaps[r], rkey[r])' = ParentId(rsnaps[r], rkey[r])
      BY <2>1 DEF ParentId
    <2> QED
      BY <2>2, <2>3, <2>4 DEF CurrentAt, Whole, Conf
  <1>7. ASSUME pc' = "spec" PROVE call'.id \notin mnt'
    <2>1. call' = call /\ pc \in {"spec", "rename"} /\ (pc = "rename" => RenameDirectory)
      BY <1>7, Arrivals DEF writer, RenameDirectory
    <2>2. call.id \in Ids /\ call.id = seq + 1
      BY <2>1, CallId DEF IInv, MetaInv, WriterInv, Preparing, AddedInv
    <2>3. call.id \notin mnt
      BY <1>7, <2>1 DEF RenameDirectory, CurrentInv, Rollback, Finish
    <2>4. ~Mounts(call.id)
      BY <1>1, <2>1, <2>2, OwnUnmounted DEF Ids
    <2> QED
      BY <2>1, <2>2, <2>3, <2>4, DevChanges DEF Attaches
  <1>8. ASSUME NEW k \in Live(snaps')
        PROVE  OwnMounted(snaps[k])'
    <2>1. CASE UNCHANGED store
      <3>1. k \in Live(snaps) /\ snaps' = snaps
        BY <1>8, <2>1 DEF store, Live
      <3> QED
        BY <3>1, OwnKept DEF OwnMounted, Data, Conf
    <2>2. CASE CommitPrepare \/ CommitCommit \/ CommitRemove
      <3>1. k \in Live(wsnaps) /\ snaps' = wsnaps /\ pc # "rename"
        BY <1>8, <2>2 DEF CommitPrepare, CommitCommit, CommitRemove,
                          CommitTransaction, Live
      <3> QED
        BY <3>1, OwnKept DEF OwnMounted, Data, Conf
    <2> QED
      BY <2>1, <2>2, StoreActions
  <1>9. ASSUME pc' # "rename", NEW k \in Live(wsnaps')
        PROVE  OwnMounted(wsnaps[k])'
    <2>1. CASE wsnaps' = snaps'
      BY <1>8, <1>9, <2>1 DEF OwnMounted, Data, Conf, Live
    <2>2. CASE k \in Live(wsnaps) /\ wsnaps'[k] = wsnaps[k]
      <3>1. CASE pc # "rename"
        BY <2>2, <3>1, OwnKept DEF OwnMounted, Data, Conf
      <3>2. CASE pc = "rename"
        <4>1. CASE k \in Live(snaps) /\ wsnaps[k] = snaps[k]
          BY <2>2, <4>1, OwnKept DEF OwnMounted, Data, Conf
        <4>2. CASE wsnaps[k].id = call.id /\ call.id = seq + 1
          <5>1. call.id \in Ids
            BY <3>2, CallId
          <5>2. ~Mounts(call.id)
            BY <1>1, <3>2, <4>2, <5>1, OwnUnmounted DEF Ids
          <5>3. call.id \notin mnt' \/ wsnaps' = snaps'
            <6>1. pc' = "spec" \/ Crash \/ wsnaps' = snaps'
              <7>1. CASE UNCHANGED writer
                BY <1>9, <3>2, <7>1 DEF writer
              <7>2. CASE PrepareStep
                BY <3>2, <7>2 DEF PrepareStep, RenameDirectory, PrepareRemote,
                                  PrepareLayer, PrepareDockerLayer, PrepareRootfs,
                                  AttachDevice, AttachDeviceFails, MarkDevice,
                                  MarkDeviceFails, MountDevice, MountDeviceFails,
                                  CommitPrepare, CommitPrepareFails, Rollback, store
              <7> QED
                BY <3>2, <7>1, <7>2, StageActions DEF Preparing
            <6>2. Crash => wsnaps' = snaps'
              BY DEF Crash, Rollback, store
            <6>3. CASE pc' = "spec"
              BY <1>7, <3>2, <6>3, Arrivals DEF writer
            <6> QED
              BY <6>1, <6>2, <6>3
          <5> QED
            BY <2>1, <2>2, <4>2, <5>3 DEF OwnMounted
        <4> QED
          BY <2>2, <3>2, <4>1, <4>2, VersionIds
      <3> QED
        BY <3>1, <3>2
    <2>3. CASE wsnaps'[k].kind = "committed"
      BY <2>3 DEF OwnMounted
    <2>4. CASE wsnaps'[k].id = call.id /\ pc = "spec" /\ UNCHANGED mnt
      BY <2>4 DEF OwnMounted, CurrentInv
    <2> QED
      BY <1>9, <2>1, <2>2, <2>3, <2>4, WriterVersions
  <1>10. ASSUME pc' = "metadata", call'.id \in mnt' PROVE Data(call.id)' = "none"
    <2>1. /\ call' = call /\ pc \in {"metadata", "seal"}
          /\ pc = "seal" => SealWritable
          /\ pc = "metadata" => UNCHANGED writer
      BY <1>10, Arrivals DEF writer, SealWritable
    <2>2. /\ call.id \in Ids /\ call.key \in Live(snaps) /\ call.id = snaps[call.key].id
          /\ snaps[call.key].kind = "active"
      BY <2>1, CallId DEF IInv, MetaInv, WriterInv, Sealing
    <2>3. call.id \in mnt
      <3>1. ~Mounts(call.id)
        BY <2>1, <2>2, OwnUnmounted
      <3> QED
        BY <1>10, <2>1, <2>2, <3>1, DevChanges DEF Attaches
    <2>4. CASE pc = "metadata"
      <3>1. Data(call.id) = "none"
        BY <2>3, <2>4 DEF CurrentInv
      <3>2. /\ ~Creates(call.id) /\ ~Configures(call.id) /\ ~Overwrites(call.id)
            /\ ~Unpacks(call.id) /\ ~Seals(call.id)
        BY <2>4, <3>1 DEF Creates, Configures, Overwrites, Unpacks, Seals, ClientUnpack,
           PrepareRemote, PrepareRootfs, SealWritable
      <3>3. Data(call.id)' = "none"
        <4>1. ASSUME NEW i \in Ids, i = call.id PROVE Data(i)' = "none"
          BY <3>1, <3>2, <4>1, ConfChanges
        <4> QED
          BY <2>1, <2>2, <4>1 DEF Data
      <3> QED
        BY <3>3
    <2>5. CASE pc = "seal"
      <3>1. SealWritable /\ ~HasWritable
        BY <1>10, <2>1, <2>5 DEF SealWritable
      <3>2. OwnMounted(snaps[call.key]) /\ wsnaps = snaps
        BY <2>2, <2>5 DEF CurrentInv, IInv, MetaInv, WriterInv, Sealing
      <3>3. Data(call.id) = "none"
        BY <2>2, <2>3, <3>1, <3>2 DEF OwnMounted, HasWritable
      <3>4. dir' = dir
        BY <3>1 DEF SealWritable
      <3> QED
        BY <2>1, <3>3, <3>4 DEF Data
    <2> QED
      BY <2>1, <2>4, <2>5
  <1> QED
    BY <1>2, <1>4, <1>5, <1>6, <1>7, <1>8, <1>9, <1>10 DEF CurrentInv

\* What is mounted on the mountpoint of a snapshot's directory is the device of
\* that directory's config, whatever fails and whenever the process dies: ids are
\* given again, directories are made and removed, and configs written, but never
\* under a mounted device.
THEOREM SnapshotterMounts == Safety => []MountsAreCurrent
  <1>1. Init => IInv /\ CurrentInv
    <2>1. Init => CurrentInv
      BY DEF Init, CurrentInv, MountsAreCurrent, NoSnaps, Live
    <2> QED
      BY <2>1, InitInv
  <1>2. IInv /\ CurrentInv /\ [Next]_vars => (IInv /\ CurrentInv)'
    BY InvStep, CurrentStep
  <1>3. CurrentInv => MountsAreCurrent
    BY DEF CurrentInv
  <1> QED
    BY <1>1, <1>2, <1>3, PTL DEF Safety


=============================================================================
