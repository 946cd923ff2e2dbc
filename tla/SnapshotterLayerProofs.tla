----------------------- MODULE SnapshotterLayerProofs -----------------------
(***************************************************************************)
(* Theorems about what clients get from the snapshotter and what it keeps   *)
(* attached: that the config of an overlaybd layer stacks the layers of its *)
(* chain, that the devices behind the mounts it has returned are there, that *)
(* Mounts returns what Prepare returned, and that no device outlives its    *)
(* snapshot.                                                                *)
(***************************************************************************)
EXTENDS SnapshotterDeviceProofs

-----------------------------------------------------------------------------
(* The configs of the layers.                                              *)

\* The config of a layer is that of its parent with the layer on top.
ChainOf(s, k) ==
    IsBlock(s[k].id, s[k].flavor)
        => /\ BaseConf(s, k) # None
           /\ Conf(s[k].id) = Append(BaseConf(s, k), s[k].id)

\* A snapshot that is not committed has a config only if it has data, of which
\* Commit makes a layer.
Plain(x) == Conf(x.id) # None => Data(x.id) # "none"

\* Each committed snapshot has the config of its chain, in the store, but for the
\* one that is being removed, and in what the writer is about to commit.
ConfInv ==
    /\ \A k \in Committed(snaps) : ChainOf(snaps, k) \/ (k = call.key /\ pc = "removeCommit")
    /\ \A k \in Committed(wsnaps) : ChainOf(wsnaps, k)
    /\ \A k \in Live(snaps) :
           snaps[k].kind # "committed" => snaps[k].flavor # "remote" /\ Plain(snaps[k])
    /\ \A k \in Live(wsnaps) : wsnaps[k].kind # "committed" => Plain(wsnaps[k])
    /\ pc = "spec" => Conf(call.id) = None /\ Data(call.id) = "none"

\* Only Remove deletes the directory of a snapshot that the store lists.
LEMMA RemovesOwn ==
  ASSUME IInv, [Next]_vars, TransactionsHold, DirInv, NEW i \in Ids, Removes(i),
         NEW k \in Live(snaps), snaps[k].id = i
  PROVE  RemoveDirectories /\ k = call.key
  <1>1. k = call.key /\ pc' = "removeCommit"
    BY RemovesOrphans
  <1>2. ~RemoveDoomed(i)
    BY DEF RemoveDoomed, DirInv, LiveIds
  <1> QED
    BY <1>1, <1>2 DEF Removes, Rollback, Finish

\* The config and the data of a committed snapshot stay as they are, in the store
\* and in what the writer has made of it, until the snapshot is removed.
LEMMA LayerStays ==
  ASSUME IInv, [Next]_vars, TransactionsHold, DirInv,
         NEW s, s = snaps \/ s = wsnaps,
         NEW k \in Committed(s), NEW i \in Ids, i = s[k].id,
         ~(RemoveDirectories /\ k = call.key /\ s[k] = snaps[k])
  PROVE  Conf(i)' = Conf(i) /\ Data(i)' = Data(i)
  <1>1. /\ WellFormed(snaps, seq) /\ seq \in Nat
        /\ k \in Live(s) /\ s[k].kind = "committed"
    BY DEF IInv, MetaInv, TypeOK, Committed
  <1>2. CASE k \in Live(snaps) /\ s[k] = snaps[k]
    <2>1. \A j \in Live(snaps) : snaps[j].id = i => snaps[j] = snaps[k]
      BY <1>1, <1>2 DEF WellFormed
    <2>2. ~Creates(i) /\ ~Configures(i) /\ ~Overwrites(i)
      <3>1. i <= seq
        BY <1>1, <1>2 DEF WellFormed
      <3> QED
        BY <1>1, <1>2, <2>1, <3>1, LayerUnwritten
    <2>3. ~Unpacks(i)
      BY <1>1, <1>2, <2>1 DEF Unpacks, ClientUnpack, Live
    <2>4. ~Seals(i)
      <3>1. pc = "seal" => /\ call.key \in Live(snaps) /\ call.id = snaps[call.key].id
                           /\ snaps[call.key].kind = "active"
        BY DEF IInv, MetaInv, WriterInv, Sealing
      <3> QED
        BY <1>1, <1>2, <2>1, <3>1 DEF Seals, SealWritable
    <2>5. ~Removes(i)
      BY <1>2, RemovesOwn
    <2> QED
      BY <2>2, <2>3, <2>4, <2>5, ConfChanges
  <1>3. CASE /\ i = call.id /\ i \notin doomed
             /\ pc \in {"commit", "publish"}
    BY <1>3, ConfChanges
       DEF Creates, Configures, Overwrites, Seals, Unpacks, Removes, PrepareRemote,
           CommitMetadata, PrepareRootfs, SealWritable, ClientUnpack, RemoveDoomed,
           RemoveDirectories, Preparing
  <1>4. CASE pc \in Preparing /\ k = Made /\ s = wsnaps /\ i = call.id /\ call.id = seq + 1
    <2>1. AddedInv /\ AddedKind
      BY <1>4 DEF IInv, MetaInv, WriterInv
    <2>2. pc = "commit"
      BY <1>1, <1>4, <2>1 DEF AddedKind, Made
    <2>3. i \notin doomed
      BY <1>1, <1>4 DEF DirInv, Ids
    <2> QED
      BY <1>3, <1>4, <2>2, <2>3
  <1>5. CASE pc = "publish" /\ i = call.id
    <2>1. i \in LiveIds(snaps)
      BY <1>5 DEF IInv, MetaInv, WriterInv, LiveIds
    <2> QED
      BY <1>3, <1>5, <2>1 DEF DirInv
  <1> QED
    BY <1>1, <1>2, <1>4, <1>5, VersionIds

\* The config of the parent of a snapshot stays as it is.
LEMMA BaseStays ==
  ASSUME IInv, [Next]_vars, TransactionsHold, DirInv,
         NEW s, s = snaps \/ s = wsnaps,
         NEW k \in Live(s), s[k].parent # None, NEW i \in Ids, i = ParentId(s, k)
  PROVE  Conf(i)' = Conf(i)
  <1> DEFINE p == s[k].parent
  <1>1. p \in Committed(s) /\ i = s[p].id /\ p \in Live(s)
    BY DEF IInv, MetaInv, WellFormed, ParentId, Committed
  <1>2. ~(RemoveDirectories /\ p = call.key)
    <2>1. pc = "removeDirectories" =>
             /\ Children(snaps, call.key) = {}
             /\ wsnaps = [snaps EXCEPT ![call.key] = None]
             /\ call.key \in Keys /\ snaps \in [Keys -> Snapshot \cup {None}]
      BY DEF IInv, MetaInv, WriterInv, Leaving, TypeOK, Live
    <2>2. CASE s = snaps
      BY <2>1, <2>2 DEF RemoveDirectories, Children
    <2>3. CASE s = wsnaps
      BY <1>1, <2>1, <2>3 DEF RemoveDirectories, Live
    <2> QED
      BY <2>2, <2>3
  <1> QED
    BY <1>1, <1>2, LayerStays

\* A layer of the store, or of what the writer has made of it, keeps the config of
\* its chain in every version that has it and its parent.
LEMMA ChainStays ==
  ASSUME IInv, [Next]_vars, TransactionsHold, DirInv,
         NEW s, s = snaps \/ s = wsnaps,
         NEW k \in Committed(s), ChainOf(s, k),
         ~(RemoveDirectories /\ k = call.key /\ s[k] = snaps[k]),
         NEW t, t[k] = s[k],
         s[k].parent # None => t[s[k].parent] = s[s[k].parent]
  PROVE  ChainOf(t, k)'
  <1>1. k \in Live(s) /\ (WellFormed(s, seq) \/ WellFormed(s, wseq))
    BY DEF IInv, MetaInv, Committed
  <1>2. s[k].id \in Ids
    BY <1>1 DEF WellFormed, Live, Snapshot
  <1>3. Conf(s[k].id)' = Conf(s[k].id) /\ Data(s[k].id)' = Data(s[k].id)
    BY <1>2, LayerStays
  <1>4. IsBlock(t[k].id, t[k].flavor)' <=> IsBlock(s[k].id, s[k].flavor)
    BY <1>3 DEF IsBlock, Conf, Data
  <1>5. BaseConf(t, k)' = BaseConf(s, k)
    <2>1. CASE s[k].parent = None
      BY <2>1 DEF BaseConf
    <2>2. CASE s[k].parent # None
      <3>1. ParentId(s, k) \in Ids /\ ParentId(t, k) = ParentId(s, k)
        BY <1>1, <2>2, ParentTyped DEF ParentId
      <3>2. Conf(ParentId(s, k))' = Conf(ParentId(s, k))
        BY <1>1, <2>2, <3>1, BaseStays
      <3> QED
        BY <2>2, <3>1, <3>2 DEF BaseConf, ParentId, Conf
    <2> QED
      BY <2>1, <2>2
  <1>6. Conf(t[k].id)' = Conf(s[k].id)
    BY <1>3 DEF Conf
  <1> QED
    BY <1>4, <1>5, <1>6 DEF ChainOf, BaseConf, IsBlock

\* What Prepare and Commit name is the layer on top of its parent's chain.
LEMMA NewChain ==
  ASSUME IInv, ConfInv, PrepareRemote \/ CommitMetadata, ~Rollback,
         NEW k, NEW n, NEW i, k = call.key, n = call.name, i = call.id
  PROVE  ChainOf(wsnaps, n)'
  <1>1. /\ k \in Live(wsnaps) /\ i \in Ids /\ n \in Keys /\ wsnaps[n] = None
        /\ wsnaps[k].id = i /\ wsnaps[k] \in Snapshot /\ wsnaps[k].kind # "committed"
        /\ WellFormed(wsnaps, wseq) /\ wsnaps \in [Keys -> Snapshot \cup {None}]
        /\ dir \in [Ids -> Directory \cup {None}]
    <2>1. /\ WellFormed(wsnaps, wseq) /\ wsnaps \in [Keys -> Snapshot \cup {None}]
          /\ dir \in [Ids -> Directory \cup {None}]
      BY DEF IInv, MetaInv, TypeOK
    <2>2. wsnaps[n] = None /\ (pc = "spec" \/ pc = "metadata")
      BY DEF PrepareRemote, CommitMetadata, AbandonPrepare
    <2>3. k \in Live(wsnaps) /\ i \in Ids /\ wsnaps[k] \in Snapshot
      BY <2>1, <2>2, CallId DEF Sealing, Live
    <2>4. CASE pc = "spec"
      <3>1. AddedInv /\ AddedKind
        BY <2>4 DEF IInv, MetaInv, WriterInv, Preparing
      <3> QED
        BY <2>1, <2>2, <2>3, <3>1 DEF AddedInv, AddedKind, Made, Live
    <2>5. CASE pc = "metadata"
      BY <2>1, <2>2, <2>3, <2>5 DEF IInv, MetaInv, WriterInv, Sealing
    <2> QED
      BY <2>2, <2>4, <2>5
  <1>2. n # k
    BY <1>1 DEF Live
  <1>3. PICK f : /\ wsnaps' = [wsnaps EXCEPT ![k] = None,
                         ![n] = [wsnaps[k] EXCEPT !.kind = "committed", !.flavor = f]]
                 /\ CommitMetadata /\ Data(i) = "none" => f = wsnaps[k].flavor
    <2>1. CASE PrepareRemote
      <3>1. wsnaps' = [wsnaps EXCEPT ![k] = None,
                                     ![n] = [wsnaps[k] EXCEPT !.kind = "committed"]]
        BY <2>1 DEF PrepareRemote, AbandonPrepare
      <3>2. [wsnaps[k] EXCEPT !.kind = "committed"]
              = [wsnaps[k] EXCEPT !.kind = "committed", !.flavor = wsnaps[k].flavor]
        BY <1>1 DEF Snapshot
      <3> QED
        BY <3>1, <3>2
    <2>2. CASE CommitMetadata
      BY <2>2 DEF CommitMetadata
    <2> QED
      BY <2>1, <2>2
  <1>4. /\ wsnaps'[n].id = i /\ wsnaps'[n].parent = wsnaps[k].parent
        /\ wsnaps'[n].flavor = f
        /\ \A p \in Keys : p # k /\ p # n => wsnaps'[p] = wsnaps[p]
    BY <1>1, <1>2, <1>3 DEF Snapshot
  <1>5. \A j \in Ids : j # i => dir'[j] = dir[j]
    BY <1>1 DEF PrepareRemote, CommitMetadata, AbandonPrepare
  <1>6. BaseConf(wsnaps, n)' = BaseConf(wsnaps, k)
    <2>1. CASE wsnaps[k].parent = None
      BY <1>4, <2>1 DEF BaseConf
    <2>2. CASE wsnaps[k].parent # None
      <3> DEFINE p == wsnaps[k].parent
      <3>1. /\ p \in Live(wsnaps) /\ wsnaps[p].id \in Ids
            /\ wsnaps[p].kind = "committed" /\ wsnaps[p].id < i
            /\ ParentId(wsnaps, k) = wsnaps[p].id
        BY <1>1, <2>2, ParentTyped
      <3>2. wsnaps'[p] = wsnaps[p]
        BY <1>1, <1>4, <3>1 DEF Live
      <3>3. dir'[wsnaps[p].id] = dir[wsnaps[p].id]
        BY <1>1, <1>5, <3>1 DEF Ids
      <3> QED
        BY <1>4, <2>2, <3>1, <3>2, <3>3 DEF BaseConf, ParentId, Conf
    <2> QED
      BY <2>1, <2>2
  <1>7. CASE PrepareRemote \/ Data(i) # "none"
    <2>1. /\ BaseConf(wsnaps, k) # None /\ Whole(i)
          /\ dir' = [dir EXCEPT ![i].conf = Append(BaseConf(wsnaps, k), i)]
      <3>1. CASE PrepareRemote
        BY <3>1 DEF PrepareRemote, Stacked, AbandonPrepare
      <3>2. CASE CommitMetadata /\ Data(i) # "none"
        BY <3>2 DEF CommitMetadata, Stacked
      <3> QED
        BY <1>7, <3>1, <3>2
    <2>2. BaseConf(wsnaps, k) \in Seq(Ids)
      BY <1>1, <2>1, BaseTyped DEF IInv
    <2>3. dir'[i] \in Directory /\ dir'[i].conf = Append(BaseConf(wsnaps, k), i)
      <3>1. dir[i] \in Directory
        BY <1>1, <2>1 DEF Whole
      <3>2. Append(BaseConf(wsnaps, k), i) \in Seq(Ids)
        BY <1>1, <2>2
      <3>3. dir'[i] = [dir[i] EXCEPT !.conf = Append(BaseConf(wsnaps, k), i)]
        BY <1>1, <2>1
      <3> QED
        BY <3>1, <3>2, <3>3 DEF Directory
    <2>4. Conf(i)' = Append(BaseConf(wsnaps, k), i)
      <3>1. dir'[i] # None
        BY <2>3, NoneAssumption
      <3> QED
        BY <2>3, <3>1 DEF Conf
    <2> QED
      BY <1>4, <1>6, <2>1, <2>4 DEF ChainOf, Conf
  <1>8. CASE CommitMetadata /\ Data(i) = "none"
    <2>1. wsnaps = snaps /\ dir' = dir
      BY <1>8 DEF CommitMetadata, IInv, MetaInv, WriterInv, Sealing
    <2>2. f # "remote" /\ Conf(i) = None
      BY <1>1, <1>3, <1>8, <2>1 DEF ConfInv, Plain
    <2>3. ~IsBlock(wsnaps[n].id, wsnaps[n].flavor)'
      BY <1>4, <1>6, <1>8, <2>1, <2>2 DEF IsBlock, Data, Conf
    <2> QED
      BY <2>3 DEF ChainOf
  <1> QED
    BY <1>7, <1>8

\* A snapshot that is not committed does not get a config without data, unless it
\* is the remote layer that is committed in the same step.
LEMMA PlainStays ==
  ASSUME IInv, [Next]_vars, NEW x \in Snapshot, Plain(x),
         ~(PrepareRemote /\ Configures(x.id))
  PROVE  Plain(x)'
  <1> DEFINE i == x.id
  <1>1. i \in Ids /\ dir[i] \in Directory \cup {None} /\ dir'[i] \in Directory \cup {None}
    BY DirType DEF IInv, TypeOK, Snapshot
  <1>2. Unpacks(i) \/ Seals(i) => Data(i)' # "none"
    <2>1. Unpacks(i) => dir[i] # None /\ dir'[i] = [dir[i] EXCEPT !.data = "blob"]
      BY DEF Unpacks
    <2>2. Seals(i) => dir[i] # None /\ dir'[i] = [dir[i] EXCEPT !.data = "sealed"]
      BY DEF Seals
    <2>3. Unpacks(i) \/ Seals(i) => dir'[i].data # "none" /\ dir'[i] \in Directory
      BY <1>1, <2>1, <2>2 DEF Directory
    <2> QED
      BY <2>3, NoneAssumption DEF Data
  <1>3. Configures(i) => Data(i) # "none"
    BY DEF Configures
  <1> QED
    BY <1>1, <1>2, <1>3, ConfChanges DEF Plain


\* Every step keeps it.
LEMMA ConfStep ==
  ASSUME IInv, [Next]_vars, TransactionsHold, DirInv, ConfInv
  PROVE  ConfInv'
  <1>1. /\ WellFormed(snaps, seq) /\ WellFormed(wsnaps, wseq) /\ seq \in Nat /\ MetaInv'
        /\ snaps \in [Keys -> Snapshot \cup {None}] /\ call \in Call
        /\ wsnaps \in [Keys -> Snapshot \cup {None}]
    BY MetaStep DEF IInv, MetaInv, TypeOK
  <1>2. CommitPrepare \/ CommitCommit \/ CommitRemove
           => UNCHANGED dir /\ snaps' = wsnaps /\ wsnaps' = wsnaps
    BY DEF CommitPrepare, CommitCommit, CommitRemove, CommitTransaction, disk
  <1>3. ASSUME NEW k \in Committed(snaps')
        PROVE  ChainOf(snaps, k)' \/ (k = call'.key /\ pc' = "removeCommit")
    <2>1. CASE UNCHANGED store
      <3>1. k \in Committed(snaps) /\ snaps' = snaps
        BY <1>3, <2>1 DEF store, Committed, Live
      <3>2. CASE k = call.key /\ pc = "removeCommit"
        <4>1. UNCHANGED <<pc, call>> \/ CommitRemove
          <5>1. RemoveStep => CommitRemove \/ CommitRemoveFails
            BY <3>2 DEF RemoveStep, RemoveOwnDevice, RemoveOwnDeviceFails,
                        RemoveDockerDevice, RemoveDockerDeviceFails, LockOwnId,
                        LockParentId, RemoveParentDevice, RemoveParentDeviceFails,
                        RemoveMetadata, RemoveDirectories
          <5> QED
            BY <3>2, <5>1, StageActions, NoSuchFault DEF writer, Leaving
        <4>2. ~CommitRemove
          BY <1>2, <3>1, <3>2, CommitIds DEF Committed
        <4> QED
          BY <3>2, <4>1, <4>2
      <3>3. CASE RemoveDirectories /\ k = call.key
        <4>1. pc' = "removeCommit" /\ call'.key = call.key
          BY <1>1, <3>3 DEF RemoveDirectories, Call
        <4> QED
          BY <3>3, <4>1
      <3>4. CASE ChainOf(snaps, k) /\ ~(RemoveDirectories /\ k = call.key)
        <4>1. ASSUME NEW t, t = snaps PROVE ChainOf(t, k)'
          BY <3>1, <3>4, <4>1, ChainStays
        <4> QED
          BY <3>1, <4>1 DEF ChainOf, BaseConf, ParentId, Conf, Data, IsBlock
      <3> QED
        BY <3>1, <3>2, <3>3, <3>4 DEF ConfInv
    <2>2. CASE CommitPrepare \/ CommitCommit \/ CommitRemove
      BY <1>2, <1>3, <2>2
         DEF ConfInv, ChainOf, BaseConf, ParentId, Conf, Data, IsBlock, Committed, Live
    <2> QED
      BY <2>1, <2>2, StoreActions
  <1>4. ASSUME NEW k \in Committed(wsnaps')
        PROVE  ChainOf(wsnaps, k)'
    <2>1. CASE wsnaps' = snaps'
      <3>1. ~(k = call'.key /\ pc' = "removeCommit")
        BY <1>1, <1>4, <2>1 DEF MetaInv, WriterInv, Leaving, WellFormed, Committed, Live
      <3> QED
        BY <1>3, <1>4, <2>1, <3>1
           DEF ChainOf, BaseConf, ParentId, Conf, Data, IsBlock, Committed, Live
    <2>2. CASE k \in Live(wsnaps) /\ wsnaps'[k] = wsnaps[k] /\ wsnaps' # snaps'
      <3>1. k \in Committed(wsnaps) /\ ChainOf(wsnaps, k)
        BY <1>4, <2>2 DEF Committed, ConfInv
      <3>2. ASSUME NEW p, p = wsnaps[k].parent, p # None
            PROVE  wsnaps'[p] = wsnaps[p]
        <4>1. p \in Committed(wsnaps) /\ wsnaps[p] # None
          BY <1>1, <2>2, <3>2 DEF WellFormed, Committed, Live
        <4>2. p \in Live(wsnaps')
          BY <1>1, <1>4, <2>2, <3>2 DEF MetaInv, WellFormed, Committed, Live
        <4> QED
          BY <2>2, <4>1, <4>2, WriterVersions DEF Committed
      <3>3. ~(RemoveDirectories /\ k = call.key)
        BY <1>1, <2>2 DEF RemoveDirectories, IInv, MetaInv, WriterInv, Leaving, Live
      <3>4. ASSUME NEW t, t = wsnaps' PROVE ChainOf(t, k)'
        BY <2>2, <3>1, <3>2, <3>3, <3>4, ChainStays
      <3> QED
        BY <3>4 DEF ChainOf, BaseConf, ParentId, Conf, Data, IsBlock
    <2>3. CASE (PrepareRemote \/ CommitMetadata) /\ ~Rollback /\ k = call.name
      BY <2>3, NewChain
         DEF ChainOf, BaseConf, ParentId, Conf, Data, IsBlock
    <2> QED
      BY <1>4, <2>1, <2>2, <2>3, WriterVersions DEF Committed
  <1>5. ASSUME NEW k \in Live(snaps'), snaps'[k].kind # "committed"
        PROVE  snaps'[k].flavor # "remote" /\ Plain(snaps[k])'
    <2>1. CASE UNCHANGED store
      <3>1. /\ k \in Live(snaps) /\ snaps' = snaps /\ snaps[k] \in Snapshot
            /\ snaps[k].flavor # "remote" /\ Plain(snaps[k])
        BY <1>1, <1>5, <2>1 DEF store, Live, ConfInv
      <3>2. ~(PrepareRemote /\ Configures(snaps[k].id))
        <4>1. pc = "spec" => call.id = seq + 1
          BY DEF IInv, MetaInv, WriterInv, AddedInv, Preparing
        <4> QED
          BY <1>1, <3>1, <4>1 DEF WellFormed, Configures, PrepareRemote, Snapshot, Ids
      <3> QED
        BY <3>1, <3>2, PlainStays DEF Plain, Conf, Data
    <2>2. CASE CommitPrepare \/ CommitCommit \/ CommitRemove
      <3>1. k \in Live(wsnaps) /\ wsnaps[k].kind # "committed" /\ wsnaps'[k] = wsnaps[k]
        BY <1>2, <1>5, <2>2 DEF Live
      <3>2. wsnaps[k].flavor # "remote"
        <4>1. CASE pc \in Preparing /\ k = Made
          <5>1. AddedKind /\ pc = "commit"
            BY <2>2, <4>1 DEF IInv, MetaInv, WriterInv, CommitPrepare, CommitCommit,
               CommitRemove, Preparing
          <5> QED
            BY <3>1, <4>1, <5>1 DEF AddedKind, Made, Live
        <4> QED
          BY <3>1, <4>1, VersionIds DEF ConfInv
      <3> QED
        BY <1>2, <2>2, <3>1, <3>2 DEF ConfInv, Plain, Conf, Data
    <2> QED
      BY <2>1, <2>2, StoreActions
  <1>6. ASSUME NEW k \in Live(wsnaps'), wsnaps'[k].kind # "committed"
        PROVE  Plain(wsnaps[k])'
    <2>1. CASE wsnaps' = snaps'
      BY <1>5, <1>6, <2>1 DEF Plain, Conf, Data, Live
    <2>2. CASE k \in Live(wsnaps) /\ wsnaps'[k] = wsnaps[k] /\ wsnaps' # snaps'
      <3>1. ~(PrepareRemote /\ Configures(wsnaps[k].id))
        <4> SUFFICES ASSUME PrepareRemote, Configures(wsnaps[k].id)
                     PROVE  FALSE
          OBVIOUS
        <4>1. /\ AddedInv /\ wsnaps[k].id = call.id /\ call.key \in Live(wsnaps)
              /\ ~Rollback
          BY CallId DEF PrepareRemote, IInv, MetaInv, WriterInv, Preparing, Configures
        <4>2. k = call.key
          BY <1>1, <2>2, <4>1 DEF WellFormed, AddedInv, Made, Live
        <4>3. wsnaps' = [wsnaps EXCEPT ![call.key] = None,
                   ![call.name] = [wsnaps[call.key] EXCEPT !.kind = "committed"]]
              /\ wsnaps[call.name] = None
          BY <4>1 DEF PrepareRemote, AbandonPrepare
        <4>4. wsnaps'[call.key] = None
          BY <1>1, <4>1, <4>3 DEF Live
        <4> QED
          BY <1>6, <4>2, <4>4 DEF Live
      <3>2. wsnaps[k] \in Snapshot /\ Plain(wsnaps[k])
        BY <1>1, <1>6, <2>2 DEF Live, ConfInv
      <3> QED
        BY <2>2, <3>1, <3>2, PlainStays DEF Plain, Conf, Data
    <2>3. CASE pc = "idle" /\ UNCHANGED dir /\ wsnaps'[k].id = seq + 1
      <3>1. seq + 1 \in Ids => dir[seq + 1] = None
        BY <1>1, <2>3 DEF DirInv, Preparing
      <3>2. seq + 1 \in Ids
        BY <1>1, <1>6, <2>3 DEF MetaInv, WellFormed, Live, Snapshot
      <3> QED
        BY <2>3, <3>1, <3>2 DEF Plain, Conf
    <2>4. CASE pc = "spec" /\ UNCHANGED dir /\ wsnaps'[k].id = call.id
      BY <2>4 DEF Plain, Conf, ConfInv
    <2> QED
      BY <1>6, <2>1, <2>2, <2>3, <2>4, WriterVersions
  <1>7. ASSUME pc' = "spec" PROVE Conf(call.id)' = None /\ Data(call.id)' = "none"
    <2>1. call' = call /\ (UNCHANGED writer \/ RenameDirectory)
      BY <1>7, Arrivals DEF writer
    <2>2. call.id \in Ids /\ (pc = "spec" \/ pc = "rename")
      BY <1>7, <2>1, CallId DEF writer, RenameDirectory
    <2>3. ASSUME NEW i \in Ids, i = call.id PROVE Conf(i)' = None /\ Data(i)' = "none"
      <3>1. CASE UNCHANGED writer
        <4>1. pc = "spec" /\ Conf(i) = None /\ Data(i) = "none"
          BY <1>7, <2>3, <3>1 DEF writer, ConfInv
        <4>2. ~Configures(i) /\ ~Overwrites(i)
          BY <1>7, <3>1, <4>1 DEF Configures, Overwrites, PrepareRemote, CommitMetadata,
             PrepareRootfs, AbandonPrepare, writer
        <4>3. ~Unpacks(i) /\ ~Seals(i)
          BY <4>1 DEF Unpacks, ClientUnpack, Seals, SealWritable
        <4> QED
          BY <4>1, <4>2, <4>3, ConfChanges
      <3>2. CASE RenameDirectory
        <4>1. dir' = [dir EXCEPT ![i] = NewDir] /\ dir \in [Ids -> Directory \cup {None}]
          BY <1>7, <2>3, <3>2 DEF RenameDirectory, Rollback, Finish, IInv, TypeOK
        <4>2. dir'[i] = NewDir
          BY <4>1
        <4> QED
          BY <4>2 DEF NewDir, Conf, Data
      <3> QED
        BY <2>1, <3>1, <3>2
    <2> QED
      BY <2>1, <2>2, <2>3 DEF Conf, Data
  <1>8. /\ \A k \in Committed(snaps)' : ChainOf(snaps, k)' \/ (k = call'.key /\ pc' = "removeCommit")
        /\ \A k \in Committed(wsnaps)' : ChainOf(wsnaps, k)'
    BY <1>3, <1>4 DEF Committed, Live
  <1>9. /\ \A k \in Live(snaps)' : snaps'[k].kind # "committed"
                                     => snaps'[k].flavor # "remote" /\ Plain(snaps[k])'
        /\ \A k \in Live(wsnaps)' : wsnaps'[k].kind # "committed" => Plain(wsnaps[k])'
    BY <1>5, <1>6 DEF Live
  <1> QED
    BY <1>7, <1>8, <1>9 DEF ConfInv

\* Unless transactions fail to commit or the process dies, the device of a layer
\* stacks the layers of its chain in their order, whoever made it: Prepare from
\* the labels of a registry, or Commit from a blob or from a sealed writable layer.
THEOREM SnapshotterChains == TransactionsHold => (Safety => []ChainConfig)
  <1> SUFFICES ASSUME TransactionsHold PROVE Safety => []ChainConfig
    OBVIOUS
  <1>1. Init => IInv /\ DirInv /\ ConfInv
    <2>1. Init => Live(snaps) = {} /\ Live(wsnaps) = {} /\ pc = "idle"
      BY DEF Init, NoSnaps, Live
    <2> QED
      BY <2>1, InitInv, DirInit DEF ConfInv, Committed
  <1>2. IInv /\ DirInv /\ ConfInv /\ [Next]_vars => (IInv /\ DirInv /\ ConfInv)'
    BY InvStep, DirStep, ConfStep
  <1>3. ConfInv => ChainConfig
    BY DEF ConfInv, ChainConfig, ChainOf
  <1> QED
    BY <1>1, <1>2, <1>3, PTL DEF Safety


-----------------------------------------------------------------------------
(* The devices behind the mounts that clients hold.                        *)

\* Neither docker's layers nor writable root filesystems, and no client asks Remove
\* for a snapshot with children (see the run with docker's containers, whose
\* devices are not kept, and the calls of Mounts for a writable snapshot, which
\* answer with a device that a failed Commit has detached).
PlainClients ==
    /\ ~Docker /\ ~RemoveParents
    /\ \A q \in Requests : q.flavor # "rw"

\* A client holds mounts of a listed snapshot, served by the device of its parent,
\* which is mounted; of a snapshot that is committed or removed it holds none.
\* The device of the parent of a snapshot that is being prepared is mounted when
\* Prepare is about to return.
HandedInv ==
    /\ \A k \in Keys : snaps[k] = None => handed[k] = {} /\ use[k] = "none"
    /\ \A k \in Live(snaps) : handed[k] # {} =>
           /\ snaps[k].kind # "committed" /\ snaps[k].parent # None
           /\ handed[k] = {ParentId(snaps, k)} /\ ParentId(snaps, k) \in mnt
    /\ pc \notin Preparing \cup {"idle"} => handed[call.key] = {} /\ use[call.key] = "none"
    /\ pc = "commit" /\ call.dev # None => call.dev \in mnt
    /\ \A k \in Live(snaps) : snaps[k].flavor # "rw"
    /\ \A k \in Live(wsnaps) : wsnaps[k].flavor # "rw"
    /\ pc \in Removing => Children(snaps, call.key) = {}

\* How what the store knows of a key changes.
LEMMA StoreChanges ==
  ASSUME IInv, [Next]_vars, NEW k \in Keys
  PROVE  \/ snaps'[k] = snaps[k]
         \/ CommitPrepare /\ k = Made /\ snaps[k] = None /\ snaps'[k] = wsnaps[k]
         \/ /\ CommitCommit /\ k = call.name /\ snaps[k] = None
            /\ snaps'[k] # None /\ snaps'[k].kind = "committed"
         \/ /\ CommitCommit \/ CommitRemove
            /\ k = call.key /\ snaps[k] # None /\ snaps'[k] = None
  <1>1. snaps \in [Keys -> Snapshot \cup {None}]
    BY DEF IInv, TypeOK
  <1>2. CASE CommitPrepare
    BY <1>2 DEF CommitPrepare, CommitTransaction, IInv, MetaInv, WriterInv, AddedInv,
       Preparing
  <1>3. CASE CommitCommit
    BY <1>3 DEF CommitCommit, CommitTransaction, IInv, MetaInv, WriterInv, Committed,
                Live
  <1>4. CASE CommitRemove
    BY <1>1, <1>4 DEF CommitRemove, CommitTransaction, IInv, MetaInv, WriterInv,
                      Leaving, Live
  <1> QED
    BY <1>2, <1>3, <1>4, StoreActions DEF store

\* The labels of the writer's snapshots are what the clients asked for, but that of
\* a writable root filesystem, which may become another.
LEMMA Labels ==
  ASSUME IInv, [Next]_vars, NEW k \in Live(wsnaps')
  PROVE  \/ \E j \in Live(wsnaps) : wsnaps[j].flavor \in {"rw", wsnaps'[k].flavor}
         \/ \E j \in Live(snaps) : wsnaps'[k].flavor = snaps[j].flavor
         \/ \E q \in Requests : wsnaps'[k].flavor = q.flavor
  <1>1. /\ wsnaps \in [Keys -> Snapshot \cup {None}] /\ k \in Keys /\ wsnaps'[k] # None
        /\ snaps \in [Keys -> Snapshot \cup {None}]
    BY DEF IInv, TypeOK, Live
  <1>2. wsnaps' = wsnaps \/ wsnaps' = snaps =>
           \/ \E j \in Live(wsnaps) : wsnaps[j].flavor \in {"rw", wsnaps'[k].flavor}
           \/ \E j \in Live(snaps) : wsnaps'[k].flavor = snaps[j].flavor
    BY <1>1 DEF Live
  <1>3. CASE PrepareRemote \/ CommitMetadata \/ PrepareRootfs
    <2>1. /\ call.key \in Live(wsnaps) /\ wsnaps[call.key] \in Snapshot
      BY <1>1, <1>3, CallId
         DEF PrepareRemote, CommitMetadata, PrepareRootfs, Sealing, Live
    <2>2. CASE k # call.key /\ k # call.name
      <3>1. wsnaps'[k] = wsnaps[k] \/ wsnaps' = snaps
        <4>1. CASE PrepareRemote
          BY <1>1, <2>2, <4>1 DEF PrepareRemote, AbandonPrepare, Rollback
        <4>2. CASE CommitMetadata
          BY <1>1, <2>2, <4>2 DEF CommitMetadata, Rollback
        <4>3. CASE PrepareRootfs
          BY <1>1, <2>2, <4>3 DEF PrepareRootfs, AbandonPrepare, Rollback
        <4> QED
          BY <1>3, <4>1, <4>2, <4>3
      <3> QED
        BY <1>1, <1>2, <3>1 DEF Live
    <2>3. CASE k = call.key \/ k = call.name
      <3>1. \/ wsnaps' = snaps \/ wsnaps' = wsnaps
            \/ wsnaps'[k] = wsnaps[k]
            \/ wsnaps'[k].flavor = wsnaps[call.key].flavor
            \/ wsnaps[call.key].flavor = "rw"
        <4>1. CASE PrepareRemote
          <5>1. CASE AbandonPrepare
            BY <5>1 DEF AbandonPrepare, Rollback
          <5>2. CASE ~AbandonPrepare
            <6>1. wsnaps' = [wsnaps EXCEPT ![call.key] = None,
                     ![call.name] = [wsnaps[call.key] EXCEPT !.kind = "committed"]]
                  /\ call.name # call.key
              BY <2>1, <4>1, <5>2 DEF PrepareRemote, Live
            <6>2. k = call.name /\ wsnaps'[k] = [wsnaps[call.key] EXCEPT !.kind = "committed"]
              BY <1>1, <2>1, <2>3, <6>1
            <6> QED
              BY <2>1, <6>2 DEF Snapshot
          <5> QED
            BY <5>1, <5>2
        <4>2. CASE CommitMetadata
          <5>1. CASE Rollback
            BY <5>1 DEF Rollback
          <5>2. CASE ~Rollback
            <6> DEFINE f == IF Data(call.id) # "none" /\ wsnaps[call.key].flavor = "rw"
                            THEN "layer" ELSE wsnaps[call.key].flavor
            <6>1. /\ wsnaps' = [wsnaps EXCEPT ![call.key] = None,
                        ![call.name] = [wsnaps[call.key] EXCEPT !.kind = "committed",
                                                                !.flavor = f]]
                  /\ call.name # call.key
              BY <2>1, <4>2, <5>2 DEF CommitMetadata, Live
            <6>2. k = call.name /\ wsnaps'[k] =
                     [wsnaps[call.key] EXCEPT !.kind = "committed", !.flavor = f]
              BY <1>1, <2>1, <2>3, <6>1
            <6>3. f = wsnaps[call.key].flavor \/ wsnaps[call.key].flavor = "rw"
              OBVIOUS
            <6> HIDE DEF f
            <6>4. wsnaps'[k].flavor = f
              BY <2>1, <6>2 DEF Snapshot
            <6> QED
              BY <6>3, <6>4
          <5> QED
            BY <5>1, <5>2
        <4>3. CASE PrepareRootfs
          <5>1. CASE UNCHANGED wsnaps \/ AbandonPrepare
            BY <5>1 DEF AbandonPrepare, Rollback
          <5>2. CASE ~(UNCHANGED wsnaps \/ AbandonPrepare)
            <6>1. wsnaps' = [wsnaps EXCEPT ![call.key].flavor = IF @ = "rw" THEN "rootfs" ELSE @]
              BY <4>3, <5>2 DEF PrepareRootfs
            <6>2. k # call.key => wsnaps'[k] = wsnaps[k]
              BY <1>1, <6>1
            <6>3. k = call.key /\ wsnaps[k].flavor # "rw" =>
                     wsnaps'[k].flavor = wsnaps[k].flavor
              BY <1>1, <2>1, <6>1 DEF Snapshot, Live
            <6> QED
              BY <6>2, <6>3
          <5> QED
            BY <5>1, <5>2
        <4> QED
          BY <1>3, <4>1, <4>2, <4>3
      <3>2. wsnaps'[k] = wsnaps[k] => k \in Live(wsnaps)
        BY <1>1 DEF Live
      <3> QED
        BY <1>2, <2>1, <3>1, <3>2
    <2> QED
      BY <2>2, <2>3
  <1>4. CASE \E q \in Requests : BeginPrepare(q)
    <2>1. PICK q \in Requests : BeginPrepare(q)
      BY <1>4
    <2>2. /\ q.key \in Keys
          /\ wsnaps' = [snaps EXCEPT ![q.key] =
               [id |-> seq + 1, parent |-> q.parent, flavor |-> q.flavor,
                kind |-> IF q.flavor = "view" THEN "view" ELSE "active"]]
      BY <2>1, RequestsAssumption DEF BeginPrepare
    <2>3. CASE k = q.key
      BY <1>1, <2>2, <2>3
    <2>4. CASE k # q.key
      BY <1>1, <2>2, <2>4 DEF Live
    <2> QED
      BY <2>3, <2>4
  <1>5. CASE RemoveMetadata
    <2>1. wsnaps' = snaps \/ wsnaps' = [wsnaps EXCEPT ![call.key] = None]
      BY <1>5 DEF RemoveMetadata, Rollback
    <2>2. CASE wsnaps' = [wsnaps EXCEPT ![call.key] = None]
      BY <1>1, <2>2 DEF Live
    <2> QED
      BY <1>2, <2>1, <2>2
  <1>6. CASE PrepareStep /\ ~PrepareRemote /\ ~PrepareRootfs
    BY <1>2, <1>6 DEF PrepareStep, RenameDirectory, PrepareLayer, PrepareDockerLayer,
                      AttachDevice, AttachDeviceFails, MarkDevice, MarkDeviceFails,
                      MountDevice, MountDeviceFails, CommitPrepare,
                      CommitPrepareFails, AbandonPrepare, Rollback, CommitTransaction
  <1>7. CASE CommitStep /\ ~CommitMetadata
    BY <1>2, <1>7 DEF CommitStep, SealWritable, DetachWritableFails,
                      SealWritableFails, CommitCommit, CommitCommitFails, Rollback,
                      CommitTransaction
  <1>8. CASE RemoveStep /\ ~RemoveMetadata
    BY <1>2, <1>8 DEF RemoveStep, RemoveOwnDevice, RemoveOwnDeviceFails,
                      RemoveDockerDevice, RemoveDockerDeviceFails, LockOwnId,
                      LockParentId, RemoveParentDevice, RemoveParentDeviceFails,
                      RemoveDirectories, CommitRemove, CommitRemoveFails, Rollback,
                      CommitTransaction
  <1>9. CASE \E i \in Keys, n \in Keys : BeginCommit(i, n)
    BY <1>2, <1>9 DEF BeginCommit
  <1>10. CASE \E i \in Keys : BeginRemove(i)
    BY <1>2, <1>10 DEF BeginRemove
  <1>11. CASE Crash
    BY <1>2, <1>11 DEF Crash, Rollback
  <1>12. CASE UNCHANGED writer
    BY <1>2, <1>12 DEF writer
  <1> QED
    BY <1>3, <1>4, <1>5, <1>6, <1>7, <1>8, <1>9, <1>10, <1>11, <1>12,
       WriterActions DEF WriterStep


\* Call r of Mounts answers for a snapshot that is as it was when the call began:
\* with the device of its parent, which is mounted, or with none.
Returns(r, k) ==
    /\ rpc[r] \in {"serve", "mount"} /\ k = rkey[r] /\ call.key # k
    /\ k \in Live(snaps) /\ snaps[k] = rsnaps[r][k] /\ snaps[k].kind # "committed"
    /\ UNCHANGED <<store, writer, given>> /\ mnt \subseteq mnt'
    /\ use'[k] = IF use[k] = "none" THEN "handed" ELSE use[k]
    /\ \/ rpc[r] = "serve" /\ ~NeedsParent(r) /\ handed'[k] = {}
       \/ /\ rpc[r] = "mount" \/ NeedsParent(r)
          /\ snaps[k].parent # None
          /\ handed'[k] = {ParentId(snaps, k)} /\ ParentId(snaps, k) \in mnt'

\* Prepare or View answers for the snapshot that it has committed: with the device
\* of its parent, or with none.
Answers(k) ==
    /\ CommitPrepare /\ k = call.key /\ wsnaps[k] # None /\ snaps' = wsnaps
    /\ use'[k] = "handed" /\ UNCHANGED mnt
    /\ handed'[k] = given'[k]
    /\ given'[k] = IF wsnaps[k].flavor = "layer" \/ call.dev = None THEN {} ELSE {call.dev}
    /\ call.dev # None => wsnaps[k].parent # None /\ call.dev = ParentId(wsnaps, k)

\* A call of Mounts that returns the devices in D.
LEMMA ReturnOf ==
  ASSUME IInv, NEW r \in Readers, NEW k \in Keys, NEW D, Return(r, D),
         rpc[r] \in {"serve", "mount"}, mnt \subseteq mnt',
         UNCHANGED <<store, writer>>,
         \/ rpc[r] = "serve" /\ ~NeedsParent(r)
            /\ (snaps[rkey[r]] = rsnaps[r][rkey[r]] => D = {})
         \/ /\ rpc[r] = "mount" \/ NeedsParent(r)
            /\ D = {ParentId(rsnaps[r], rkey[r])}
            /\ ParentId(rsnaps[r], rkey[r]) \in mnt'
  PROVE  (handed'[k] = handed[k] /\ use'[k] = use[k]) \/ Returns(r, k)
  <1>1. /\ handed \in [Keys -> SUBSET Ids] /\ use \in [Keys -> {"none", "handed", "mounted"}]
        /\ snaps \in [Keys -> Snapshot \cup {None}]
    BY DEF IInv, TypeOK
  <1>2. ReaderOK(r)
    BY DEF IInv, MetaInv, ReaderInv
  <1>3. CASE UNCHANGED client
    BY <1>3 DEF client
  <1>4. CASE ~UNCHANGED client
    <2>1. /\ snaps[rkey[r]] = rsnaps[r][rkey[r]] /\ call.key # rkey[r]
          /\ handed' = [handed EXCEPT ![rkey[r]] = D]
          /\ use' = [use EXCEPT ![rkey[r]] = IF @ = "none" THEN "handed" ELSE @]
          /\ UNCHANGED given
      BY <1>4 DEF Return
    <2>2. CASE k # rkey[r]
      BY <1>1, <2>1, <2>2
    <2>3. CASE k = rkey[r]
      <3>1. /\ k \in Live(snaps) /\ snaps[k].kind # "committed"
        BY <1>2, <2>1, <2>3 DEF ReaderOK, Live
      <3>2. handed'[k] = D /\ use'[k] = IF use[k] = "none" THEN "handed" ELSE use[k]
        BY <1>1, <2>1, <2>3
      <3>3. rpc[r] = "mount" \/ NeedsParent(r) =>
               snaps[k].parent # None /\ ParentId(snaps, k) = ParentId(rsnaps[r], k)
        BY <1>2, <2>1, <2>3, ReaderParent DEF ReaderOK, ParentId
      <3> QED
        BY <2>1, <2>3, <3>1, <3>2, <3>3 DEF Returns
    <2> QED
      BY <2>2, <2>3
  <1> QED
    BY <1>3, <1>4

\* What Prepare and View return is what they have recorded.
LEMMA PrepareAnswers ==
  ASSUME IInv, PlainClients, HandedInv, CommitPrepare, NEW k, k = call.key,
         wsnaps[k] # None
  PROVE  Answers(k)
  <1>1. /\ k \in Keys /\ snaps[k] = None /\ given \in [Keys -> SUBSET Ids]
        /\ handed \in [Keys -> SUBSET Ids]
        /\ use \in [Keys -> {"none", "handed", "mounted"}] /\ AddedKind
    BY DEF IInv, TypeOK, MetaInv, WriterInv, AddedInv, CommitPrepare, Preparing
  <1>2. /\ given' = [given EXCEPT ![k] = PreparedDevices]
        /\ handed' = [handed EXCEPT ![k] = PreparedDevices]
        /\ use' = [use EXCEPT ![k] = "handed"]
        /\ snaps' = wsnaps /\ UNCHANGED mnt
    BY DEF CommitPrepare, CommitTransaction, kernel
  <1>3. wsnaps[k].flavor # "rw"
    BY <1>1 DEF HandedInv, Live
  <1>4. call.dev # None => wsnaps[k].parent # None /\ call.dev = ParentId(wsnaps, k)
    BY <1>1, <1>3 DEF AddedKind
  <1>5. PreparedDevices =
           IF wsnaps[k].flavor = "layer" \/ call.dev = None THEN {} ELSE {call.dev}
    BY DEF PreparedDevices, PlainClients, IsInitLayer, IsContainerLayer
  <1> QED
    BY <1>1, <1>2, <1>4, <1>5 DEF Answers

\* What a client holds of a key changes in one of these ways.
LEMMA ClientChanges ==
  ASSUME IInv, PlainClients, HandedInv, [Next]_vars, NEW k \in Keys
  PROVE  \/ handed'[k] = handed[k] /\ use'[k] = use[k]
         \/ handed'[k] = {} /\ use'[k] = "none"
         \/ ClientMount(k) /\ handed'[k] = handed[k]
         \/ Answers(k)
         \/ \E r \in Readers : Returns(r, k)
  <1>1. /\ handed \in [Keys -> SUBSET Ids] /\ use \in [Keys -> {"none", "handed", "mounted"}]
        /\ given \in [Keys -> SUBSET Ids] /\ mnt \subseteq Ids
        /\ snaps \in [Keys -> Snapshot \cup {None}]
        /\ wsnaps \in [Keys -> Snapshot \cup {None}]
    BY DEF IInv, TypeOK
  <1>2. CASE CommitPrepare
    <2>1. CASE UNCHANGED client
      BY <2>1 DEF client
    <2>2. CASE ~UNCHANGED client
      <3>1. /\ wsnaps[call.key] # None
            /\ given' = [given EXCEPT ![call.key] = PreparedDevices]
            /\ handed' = [handed EXCEPT ![call.key] = PreparedDevices]
            /\ use' = [use EXCEPT ![call.key] = "handed"]
            /\ snaps' = wsnaps /\ UNCHANGED mnt
        BY <1>2, <2>2 DEF CommitPrepare, CommitTransaction, kernel
      <3>2. CASE k # call.key
        BY <1>1, <3>1, <3>2
      <3>3. CASE k = call.key
        BY <1>2, <3>1, <3>3, PrepareAnswers
      <3> QED
        BY <3>2, <3>3
    <2> QED
      BY <2>1, <2>2
  <1>3. CASE CommitCommit \/ CommitRemove
    BY <1>3 DEF CommitCommit, CommitRemove
  <1>4. ASSUME NEW j \in Keys, NEW n \in Keys, BeginCommit(j, n) \/ BeginRemove(j)
        PROVE  \/ handed'[k] = handed[k] /\ use'[k] = use[k]
               \/ handed'[k] = {} /\ use'[k] = "none"
    BY <1>1, <1>4 DEF BeginCommit, BeginRemove, GiveUp
  <1>5. ASSUME NEW j \in Keys, ClientMount(j) \/ ClientUnmount(j)
        PROVE  \/ handed'[k] = handed[k] /\ use'[k] = use[k]
               \/ handed'[k] = {} /\ use'[k] = "none"
               \/ ClientMount(k) /\ handed'[k] = handed[k]
    BY <1>1, <1>5 DEF ClientMount, ClientUnmount
  <1>6. ASSUME NEW r \in Readers, MountsOfDirectory(r)
        PROVE  (handed'[k] = handed[k] /\ use'[k] = use[k]) \/ Returns(r, k)
    <2> DEFINE D == LET s == rsnaps[r] j == rkey[r]
                    IN  IF s[j].parent = None THEN {}
                        ELSE IF s[j].flavor = "rw" /\ Conf(s[j].id) # None
                        THEN {s[j].id}
                        ELSE IF IsContainerLayer(s, j) THEN ImageDevice(s, j)
                        ELSE {}
    <2>1. /\ rpc[r] = "serve" /\ ~NeedsParent(r) /\ Return(r, D)
          /\ UNCHANGED <<store, writer>> /\ mnt \subseteq mnt'
      BY <1>6 DEF MountsOfDirectory, kernel
    <2>2. snaps[rkey[r]] = rsnaps[r][rkey[r]] => D = {}
      <3>1. ReaderOK(r)
        BY <2>1 DEF IInv, MetaInv, ReaderInv
      <3>2. snaps[rkey[r]] = rsnaps[r][rkey[r]] => rsnaps[r][rkey[r]].flavor # "rw"
        BY <3>1 DEF ReaderOK, HandedInv, Live
      <3> QED
        BY <3>2 DEF PlainClients, IsContainerLayer
    <2> HIDE DEF D
    <2> QED
      BY <2>1, <2>2, ReturnOf
  <1>7. ASSUME NEW r \in Readers, MountsAttach(r)
        PROVE  (handed'[k] = handed[k] /\ use'[k] = use[k]) \/ Returns(r, k)
    <2>1. CASE UNCHANGED client
      BY <2>1 DEF client
    <2>2. CASE ~UNCHANGED client
      <3>1. /\ rpc[r] = "serve" /\ NeedsParent(r) /\ UNCHANGED <<store, writer, mnt>>
            /\ ParentId(rsnaps[r], rkey[r]) \in mnt
            /\ Return(r, {ParentId(rsnaps[r], rkey[r])})
        BY <1>7, <2>2 DEF MountsAttach
      <3> QED
        BY <3>1, ReturnOf
    <2> QED
      BY <2>1, <2>2
  <1>8. ASSUME NEW r \in Readers, MountsMount(r)
        PROVE  (handed'[k] = handed[k] /\ use'[k] = use[k]) \/ Returns(r, k)
    <2>1. /\ rpc[r] = "mount" /\ UNCHANGED <<store, writer>>
          /\ mnt' = mnt \cup {ParentId(rsnaps[r], rkey[r])}
          /\ Return(r, {ParentId(rsnaps[r], rkey[r])})
      BY <1>8 DEF MountsMount
    <2> QED
      BY <2>1, ReturnOf
  <1>9. CASE UNCHANGED client
    BY <1>9 DEF client
  <1> QED
    BY <1>2, <1>3, <1>4, <1>5, <1>6, <1>7, <1>8, <1>9, ClientActions


\* A call that is under way is the one of before, or has just begun.
LEMMA CallGoesOn ==
  ASSUME IInv, [Next]_vars, pc' # "idle"
  PROVE  /\ UNCHANGED store
         /\ \/ /\ call'.key = call.key /\ pc # "idle"
               /\ pc \in Preparing <=> pc' \in Preparing
               /\ pc' \in Removing => pc \in Removing
            \/ \E q \in Requests : BeginPrepare(q)
            \/ \E k \in Keys, n \in Keys : BeginCommit(k, n)
            \/ \E k \in Keys : BeginRemove(k)
  <1>1. UNCHANGED store
    BY StoreActions DEF CommitPrepare, CommitCommit, CommitRemove, CommitTransaction,
                        Finish
  <1>2. CASE UNCHANGED writer
    BY <1>1, <1>2 DEF writer
  <1>3. CASE PrepareStep
    <2>1. pc \in Preparing /\ pc # "idle"
      BY <1>3 DEF PrepareStep, RenameDirectory, PrepareRemote, PrepareLayer,
                  PrepareDockerLayer, PrepareRootfs, AttachDevice, AttachDeviceFails,
                  MarkDevice, MarkDeviceFails, MountDevice, MountDeviceFails,
                  CommitPrepare, CommitPrepareFails, Preparing
    <2>2. pc' \in Preparing /\ call'.key = call.key
      BY <1>3, PrepareFlow DEF CommitPrepare, CommitPrepareFails, AbandonPrepare,
         CommitTransaction, Rollback, Finish
    <2> QED
      BY <1>1, <2>1, <2>2 DEF Preparing, Removing
  <1>4. CASE CommitStep
    <2>1. /\ pc \in {"seal", "metadata", "publish"}
          /\ Finish \/ (call' = call /\ pc' \in {"metadata", "publish"})
      BY <1>4 DEF CommitStep, SealWritable, DetachWritableFails, SealWritableFails,
                  CommitMetadata, CommitCommit, CommitCommitFails, CommitTransaction,
                  Rollback
    <2> QED
      BY <1>1, <2>1 DEF Finish, Preparing, Removing
  <1>5. CASE RemoveStep
    <2>1. \/ Finish
          \/ /\ pc \in Removing /\ pc' \in Removing \cup Leaving
             /\ \/ call' = call
                \/ \E l : call' = [call EXCEPT !.locks = l]
                \/ \E l : call' = [call EXCEPT !.removals = l]
          \/ /\ pc = "removeDirectories" /\ pc' = "removeCommit"
             /\ call' = [call EXCEPT !.locks = {}]
      <3>1. CASE RemoveOwnDevice \/ RemoveOwnDeviceFails \/ RemoveDockerDevice
                 \/ RemoveDockerDeviceFails
        BY <3>1 DEF RemoveOwnDevice, RemoveOwnDeviceFails, RemoveDockerDevice,
           RemoveDockerDeviceFails, Rollback, Removing
      <3>2. CASE RemoveParentDevice \/ RemoveParentDeviceFails
        BY <3>2 DEF RemoveParentDevice, RemoveParentDeviceFails, Rollback, Removing
      <3>5. CASE LockOwnId \/ LockParentId
        BY <3>5 DEF LockOwnId, LockParentId, Removing
      <3>3. CASE RemoveMetadata
        BY <3>3 DEF RemoveMetadata, Rollback, Removing, Leaving
      <3>4. CASE RemoveDirectories \/ CommitRemove \/ CommitRemoveFails
        BY <3>4 DEF RemoveDirectories, CommitRemove, CommitRemoveFails, Rollback,
           CommitTransaction
      <3> QED
        BY <1>5, <3>1, <3>2, <3>3, <3>4, <3>5 DEF RemoveStep
    <2>2. \A l : /\ [call EXCEPT !.locks = l].key = call.key
                 /\ [call EXCEPT !.removals = l].key = call.key
      BY DEF IInv, TypeOK, Call
    <2> QED
      BY <1>1, <2>1, <2>2 DEF Finish, Preparing, Removing, Leaving
  <1>6. CASE Crash
    BY <1>6 DEF Crash, Rollback, Finish
  <1> QED
    BY <1>1, <1>2, <1>3, <1>4, <1>5, <1>6, WriterActions DEF WriterStep

\* What unmounts a device: the removal of its snapshot, and that of its last child.
LEMMA Unmounts ==
  ASSUME IInv, PlainClients, HandedInv, [Next]_vars, NEW i \in mnt, i \notin mnt'
  PROVE  \/ pc = "ownDevice" /\ i = call.id
         \/ /\ pc = "parentDevice"
            /\ wsnaps[call.key].parent # None /\ i = ParentId(wsnaps, call.key)
            /\ OtherUsers(wsnaps, wsnaps[call.key].parent, call.key) = {}
  <1>1. wsnaps \in [Keys -> Snapshot \cup {None}]
    BY DEF IInv, TypeOK
  <1>2. CASE SealWritable \/ DetachWritableFails \/ SealWritableFails
    <2>1. pc = "seal" => call.key \in Live(snaps) /\ wsnaps = snaps
      BY DEF IInv, MetaInv, WriterInv, Sealing
    <2> QED
      BY <1>2, <2>1 DEF SealWritable, DetachWritableFails, SealWritableFails,
                        HasWritable, HandedInv, kernel
  <1>3. CASE CommitPrepareFails
    <2>1. AddedInv /\ AddedKind /\ WellFormed(wsnaps, wseq)
      BY <1>3 DEF CommitPrepareFails, IInv, MetaInv, WriterInv, Preparing
    <2>2. call.dev = call.id
      BY <1>3 DEF CommitPrepareFails
    <2>3. call.id \in Ids /\ call.dev # None
      BY <1>3, <2>2, CallId, NoneAssumption DEF CommitPrepareFails
    <2>4. wsnaps[call.key] # None /\ call.key \in Live(wsnaps) /\ Made = call.key
      BY <2>1, <2>3 DEF AddedKind, AddedInv, Live, Made
    <2>5. wsnaps[call.key].parent # None /\ call.id = ParentId(wsnaps, call.key)
      BY <2>1, <2>2, <2>3, <2>4 DEF AddedKind, HandedInv
    <2>6. wsnaps[call.key].id = call.id
      BY <2>1, <2>4 DEF AddedInv
    <2> QED
      BY <2>1, <2>3, <2>4, <2>5, <2>6, ParentTyped DEF Ids
  <1>4. CASE RemoveOwnDevice \/ RemoveOwnDeviceFails
    BY <1>4 DEF RemoveOwnDevice, RemoveOwnDeviceFails, kernel
  <1>5. CASE RemoveDockerDevice \/ RemoveDockerDeviceFails
    BY <1>5 DEF RemoveDockerDevice, RemoveDockerDeviceFails, RemovesImageDevice,
       IsInitLayer, PlainClients, kernel
  <1>6. CASE RemoveParentDevice \/ RemoveParentDeviceFails
    <2>1. /\ pc = "parentDevice" /\ wsnaps = snaps
          /\ snaps[call.key].parent # None
      BY <1>6 DEF RemoveParentDevice, RemoveParentDeviceFails, IInv, MetaInv, WriterInv,
                  Removing
    <2>2. mnt' = mnt \/ (mnt' = mnt \ {ParentId(wsnaps, call.key)} /\ ParentDeviceUnused)
      BY <1>6 DEF RemoveParentDevice, RemoveParentDeviceFails, kernel
    <2> QED
      BY <2>1, <2>2 DEF ParentDeviceUnused
  <1>7. CASE AttachDevice \/ MountDevice
    BY <1>7 DEF AttachDevice, MountDevice
  <1>8. ASSUME NEW r \in Readers, MountsAttach(r) \/ MountsMount(r)
        PROVE  mnt \subseteq mnt'
    BY <1>8 DEF MountsAttach, MountsMount
  <1> QED
    BY <1>2, <1>3, <1>4, <1>5, <1>6, <1>7, <1>8, KernelActions DEF kernel


\* A device that serves a mount of k, a child of a listed snapshot, stays mounted.
LEMMA ServedStays ==
  ASSUME IInv, PlainClients, HandedInv, [Next]_vars, NEW k \in Live(snaps),
         snaps[k].kind # "committed", snaps[k].parent # None, handed[k] # {},
         NEW i, i = ParentId(snaps, k), i \in mnt
  PROVE  i \in mnt'
  <1> DEFINE p == snaps[k].parent
  <1>1. /\ WellFormed(snaps, seq) /\ p \in Live(snaps) /\ i = snaps[p].id /\ p # None
    BY ParentTyped DEF IInv, MetaInv
  <1>2. ~(pc = "ownDevice" /\ i = call.id)
    <2> SUFFICES ASSUME pc = "ownDevice", i = call.id PROVE FALSE
      OBVIOUS
    <2>1. call.key \in Live(snaps) /\ call.id = snaps[call.key].id
      BY DEF IInv, MetaInv, WriterInv, Removing
    <2>2. p = call.key
      BY <1>1, <2>1 DEF WellFormed
    <2> QED
      BY <2>2 DEF HandedInv, Removing, Children
  <1>3. ~(/\ pc = "parentDevice"
          /\ wsnaps[call.key].parent # None /\ i = ParentId(wsnaps, call.key)
          /\ OtherUsers(wsnaps, wsnaps[call.key].parent, call.key) = {})
    <2> SUFFICES ASSUME pc = "parentDevice",
                        wsnaps[call.key].parent # None, i = ParentId(wsnaps, call.key),
                        OtherUsers(wsnaps, wsnaps[call.key].parent, call.key) = {}
                 PROVE  FALSE
      OBVIOUS
    <2>1. wsnaps = snaps /\ call.key \in Live(snaps)
      BY DEF IInv, MetaInv, WriterInv, Removing
    <2>2. k # call.key
      BY DEF HandedInv, Preparing
    <2>3. snaps[call.key].parent = p
      <3> DEFINE j == call.key
      <3>1. j \in Live(snaps) /\ snaps[j].parent # None /\ i = ParentId(snaps, j)
        BY <2>1
      <3>2. snaps[j].parent \in Live(snaps) /\ i = snaps[snaps[j].parent].id
        BY <1>1, <3>1, ParentTyped
      <3> QED
        BY <1>1, <3>2 DEF WellFormed
    <2> QED
      BY <2>1, <2>2, <2>3 DEF OtherUsers, Children
  <1> QED
    BY <1>2, <1>3, Unmounts

\* The parent of a snapshot that stays stays as well.
LEMMA ParentStays ==
  ASSUME IInv, [Next]_vars, NEW k \in Live(snaps), snaps'[k] = snaps[k],
         snaps[k].parent # None
  PROVE  /\ snaps'[snaps[k].parent] = snaps[snaps[k].parent]
         /\ ParentId(snaps', k) = ParentId(snaps, k)
  <1> DEFINE p == snaps[k].parent
  <1>1. /\ p \in Committed(snaps) /\ p \in Keys /\ snaps[p] # None
    BY DEF IInv, MetaInv, WellFormed, Committed, Live
  <1>2. ~(CommitCommit /\ p = call.key)
    BY <1>1 DEF CommitCommit, IInv, MetaInv, WriterInv, Committed
  <1>3. ~(CommitRemove /\ p = call.key)
    BY DEF CommitRemove, IInv, MetaInv, WriterInv, Leaving, Children
  <1>4. snaps'[p] = snaps[p]
    BY <1>1, <1>2, <1>3, StoreChanges
  <1> QED
    BY <1>4 DEF ParentId

\* Every step keeps it.
LEMMA HandedStep ==
  ASSUME IInv, IInv', PlainClients, HandedInv, [Next]_vars
  PROVE  HandedInv'
  <1>1. /\ handed \in [Keys -> SUBSET Ids] /\ snaps \in [Keys -> Snapshot \cup {None}]
        /\ wsnaps \in [Keys -> Snapshot \cup {None}]
        /\ snaps' \in [Keys -> Snapshot \cup {None}]
        /\ wsnaps' \in [Keys -> Snapshot \cup {None}]
    BY DEF IInv, TypeOK
  <1>2. ASSUME NEW k \in Keys, snaps'[k] = None
        PROVE  handed'[k] = {} /\ use'[k] = "none"
    <2>1. CASE handed'[k] = handed[k] /\ use'[k] = use[k]
      <3>1. CASE snaps[k] = None
        BY <2>1, <3>1 DEF HandedInv
      <3>2. CASE snaps[k] # None
        <4>1. (CommitCommit \/ CommitRemove) /\ k = call.key
          BY <1>2, <3>2, StoreChanges
        <4>2. pc \notin Preparing \cup {"idle"}
          BY <4>1 DEF CommitCommit, CommitRemove, Preparing
        <4> QED
          BY <2>1, <4>1, <4>2 DEF HandedInv
      <3> QED
        BY <3>1, <3>2
    <2>2. ~ClientMount(k)
      BY <1>2 DEF ClientMount, store
    <2>3. ~Answers(k)
      BY <1>2 DEF Answers
    <2>4. ASSUME NEW r \in Readers, Returns(r, k) PROVE FALSE
      BY <1>2, <2>4 DEF Returns, store, Live
    <2> QED
      BY <2>1, <2>2, <2>3, <2>4, ClientChanges
  <1>3. ASSUME NEW k \in Live(snaps'), handed'[k] # {}
        PROVE  /\ snaps'[k].kind # "committed" /\ snaps'[k].parent # None
               /\ handed'[k] = {ParentId(snaps', k)} /\ ParentId(snaps', k) \in mnt'
    <2>1. k \in Keys /\ snaps'[k] # None
      BY DEF Live
    <2>2. CASE handed'[k] = handed[k]
      <3>1. k \in Live(snaps)
        BY <1>3, <2>1, <2>2 DEF HandedInv, Live
      <3>2. snaps'[k] = snaps[k]
        BY <2>1, <3>1, StoreChanges DEF Live
      <3>3. /\ snaps[k].kind # "committed" /\ snaps[k].parent # None
            /\ handed[k] = {ParentId(snaps, k)} /\ ParentId(snaps, k) \in mnt
        BY <1>3, <2>2, <3>1 DEF HandedInv
      <3>4. ParentId(snaps, k) \in mnt'
        BY <1>3, <2>2, <3>1, <3>3, ServedStays
      <3>5. ParentId(snaps', k) = ParentId(snaps, k)
        BY <3>1, <3>2, <3>3, ParentStays
      <3> QED
        BY <2>2, <3>2, <3>3, <3>4, <3>5
    <2>3. CASE Answers(k)
      <3>1. handed'[k] = {call.dev} /\ call.dev # None
        BY <1>3, <2>3 DEF Answers
      <3>2. call.dev \in mnt'
        BY <2>3, <3>1 DEF Answers, CommitPrepare, HandedInv
      <3>3. wsnaps[k].kind # "committed"
        BY <2>3 DEF Answers, CommitPrepare, IInv, MetaInv, WriterInv, AddedKind,
                    Preparing
      <3> QED
        BY <2>3, <3>1, <3>2, <3>3 DEF Answers, ParentId
    <2>4. ASSUME NEW r \in Readers, Returns(r, k)
          PROVE  /\ snaps'[k].kind # "committed" /\ snaps'[k].parent # None
                 /\ handed'[k] = {ParentId(snaps', k)} /\ ParentId(snaps', k) \in mnt'
      BY <1>3, <2>4 DEF Returns, store
    <2> QED
      BY <1>3, <2>1, <2>2, <2>3, <2>4, ClientChanges
  <1>4. ASSUME pc' \notin Preparing \cup {"idle"}
        PROVE  handed'[call'.key] = {} /\ use'[call'.key] = "none"
    <2>1. CASE call'.key = call.key /\ pc \notin Preparing /\ pc # "idle"
      <3>1. call.key \in Keys /\ handed[call.key] = {} /\ use[call.key] = "none"
        BY <2>1, CallId DEF HandedInv
      <3>2. ~ClientMount(call.key) /\ ~Answers(call.key)
        BY <2>1 DEF ClientMount, Answers, CommitPrepare, Preparing
      <3>3. ASSUME NEW r \in Readers PROVE ~Returns(r, call.key)
        BY DEF Returns
      <3> QED
        BY <2>1, <3>1, <3>2, <3>3, ClientChanges
    <2>2. ASSUME NEW q \in Requests, BeginPrepare(q) PROVE FALSE
      BY <1>4, <2>2 DEF BeginPrepare, Preparing
    <2>3. ASSUME NEW k \in Keys, NEW n \in Keys, BeginCommit(k, n) \/ BeginRemove(k)
          PROVE  handed'[call'.key] = {} /\ use'[call'.key] = "none"
      <3>1. call'.key = k /\ GiveUp(k)
        BY <2>3 DEF BeginCommit, BeginRemove, NoCall
      <3> QED
        BY <1>1, <3>1 DEF GiveUp, IInv, TypeOK
    <2> QED
      BY <1>4, <2>1, <2>2, <2>3, CallGoesOn
  <1>5. ASSUME pc' = "commit", call'.dev # None PROVE call'.dev \in mnt'
    <2>1. AddedKind'
      BY <1>5 DEF IInv, MetaInv, WriterInv, Preparing
    <2>2. CASE UNCHANGED writer
      <3>1. call'.dev \in mnt /\ pc = "commit"
        BY <1>5, <2>2 DEF HandedInv, writer
      <3> QED
        BY <2>2, <3>1, Unmounts
    <2>3. CASE PrepareStep
      <3>1. CASE PrepareRemote
        BY <1>5, <2>1, <3>1 DEF PrepareRemote, AddedKind, IInv, MetaInv, WriterInv,
                                Preparing, AbandonPrepare, Rollback, Finish, AddedInv
      <3>2. CASE PrepareLayer \/ PrepareDockerLayer \/ PrepareRootfs
        <4>1. pc = "spec" /\ call' = call
          BY <1>5, <3>2 DEF PrepareLayer, PrepareDockerLayer, PrepareRootfs,
             AbandonPrepare, Rollback, Finish
        <4>2. AddedInv /\ AddedKind
          BY <4>1 DEF IInv, MetaInv, WriterInv, Preparing
        <4> QED
          BY <1>5, <4>1, <4>2 DEF AddedKind
      <3>3. CASE AttachDevice
        BY <1>5, <3>3 DEF AttachDevice
      <3>4. CASE MarkDevice \/ MountDevice
        BY <1>5, <3>4 DEF MarkDevice, MountDevice
      <3>5. CASE RenameDirectory \/ AttachDeviceFails \/ MarkDeviceFails \/ MountDeviceFails
                 \/ CommitPrepare \/ CommitPrepareFails
        BY <1>5, <3>5 DEF RenameDirectory, AttachDeviceFails, MarkDeviceFails,
                          MountDeviceFails, CommitPrepare, CommitPrepareFails,
                          AbandonPrepare, Rollback, CommitTransaction, Finish
      <3> QED
        BY <2>3, <3>1, <3>2, <3>3, <3>4, <3>5 DEF PrepareStep
    <2>4. CASE ~UNCHANGED writer /\ ~PrepareStep
      <3>1. pc \in Preparing \/ \E q \in Requests : BeginPrepare(q)
        BY <1>5, CallGoesOn DEF Preparing, BeginCommit, BeginRemove
      <3>2. CASE pc \in Preparing
        BY <1>5, <2>4, <3>2, StageActions DEF Crash, Rollback, Finish
      <3> QED
        BY <1>5, <3>1, <3>2 DEF BeginPrepare
    <2> QED
      BY <2>2, <2>3, <2>4
  <1>6. ASSUME NEW k \in Live(wsnaps') PROVE wsnaps'[k].flavor # "rw"
    BY <1>6, Labels DEF HandedInv, PlainClients
  <1>7. ASSUME NEW k \in Live(snaps') PROVE snaps'[k].flavor # "rw"
    <2>1. UNCHANGED store \/ snaps' = wsnaps
      BY StoreActions DEF CommitPrepare, CommitCommit, CommitRemove, CommitTransaction
    <2> QED
      BY <2>1 DEF HandedInv, store, Live
  <1>8. ASSUME pc' \in Removing PROVE Children(snaps', call'.key) = {}
    <2>1. pc' # "idle" /\ pc' \notin Preparing
      BY <1>8 DEF Removing, Preparing
    <2>2. UNCHANGED store
      BY <2>1, CallGoesOn
    <2>3. CASE call'.key = call.key /\ pc \in Removing
      BY <2>2, <2>3 DEF HandedInv, store, Children, Live
    <2>4. ASSUME NEW k \in Keys, BeginRemove(k) PROVE Children(snaps', call'.key) = {}
      <3>1. call'.key = k /\ Children(snaps, k) = {}
        BY <2>4 DEF BeginRemove, NoCall, PlainClients
      <3> QED
        BY <2>2, <3>1 DEF store, Children, Live
    <2>5. ASSUME NEW k, NEW n, BeginCommit(k, n) PROVE FALSE
      BY <1>8, <2>5 DEF BeginCommit, Removing
    <2>6. ASSUME NEW q \in Requests, BeginPrepare(q) PROVE FALSE
      BY <1>8, <2>6 DEF BeginPrepare, Removing
    <2> QED
      BY <1>8, <2>1, <2>3, <2>4, <2>5, <2>6, CallGoesOn
  <1> QED
    BY <1>2, <1>3, <1>4, <1>5, <1>6, <1>7, <1>8 DEF HandedInv

\* The device behind every mount that a client holds is mounted, whatever calls of
\* Prepare, View, Commit, Remove, Mounts and Cleanup run beside it, whichever of
\* them fail, and although the process crashes.
THEOREM SnapshotterServes == PlainClients => (Safety => []ServedDevices)
  <1> SUFFICES ASSUME PlainClients
               PROVE  Safety => []ServedDevices
    OBVIOUS
  <1>1. Init => IInv
    BY InitInv
  <1>2. Init => HandedInv
    BY DEF Init, HandedInv, NoSnaps, Live, Preparing, Removing
  <1>3. IInv /\ [Next]_vars => IInv'
    BY InvStep
  <1>4. IInv /\ HandedInv /\ [Next]_vars => HandedInv'
    BY <1>3, HandedStep
  <1>5. HandedInv => ServedDevices
    BY DEF HandedInv, ServedDevices
  <1> QED
    BY <1>1, <1>2, <1>3, <1>4, <1>5, PTL DEF Safety


-----------------------------------------------------------------------------
(* What Mounts returns, and what Prepare and View returned.                *)

\* All layers are pulled from a registry: no client unpacks one. (For a layer to be
\* unpacked Prepare returns directories, and Mounts the device of its parent.)
PulledImages == PlainClients /\ \A q \in Requests : q.flavor # "layer"

\* The devices that serve the mounts of a snapshot, as its metadata has it.
Served(s, k) ==
    IF s[k].parent # None /\ s[s[k].parent].flavor = "remote" THEN {ParentId(s, k)} ELSE {}

\* No config and no data.
Bare(i) == Conf(i) = None /\ Data(i) = "none"

\* Only remote layers have a config, and nothing has data: what Prepare and View
\* returned is what the metadata says, and so is what Mounts returns.
GivenInv ==
    /\ \A k \in Live(snaps) :
           IF snaps[k].kind = "committed" THEN use[k] = "none"
           ELSE /\ given[k] = Served(snaps, k)
                /\ use[k] # "none" => handed[k] = given[k]
                /\ snaps[k].flavor # "remote"
    /\ \A k \in Live(snaps) :
           /\ snaps[k].flavor # "layer"
           /\ snaps[k].flavor = "remote" \/ Bare(snaps[k].id)
    /\ \A k \in Live(wsnaps) : wsnaps[k].flavor # "layer"
    /\ pc \in Preparing \ {"rename"} /\ wsnaps[call.key] # None => Bare(call.id)
    /\ pc \in {"attach", "mark", "mount", "commit"} /\ wsnaps[call.key] # None =>
           (IF call.dev = None THEN {} ELSE {call.dev}) = Served(wsnaps, call.key)
    /\ \A r \in Readers : rpc[r] # "idle" =>
           /\ \A k \in Live(rsnaps[r]) :
                  rsnaps[r][k].flavor = "remote" \/ Bare(rsnaps[r][k].id)
           /\ rpc[r] \in {"mark", "mount"}
                 => rsnaps[r][rsnaps[r][rkey[r]].parent].flavor = "remote"

\* What Prepare or View has returned for a key is recorded once.
LEMMA GivenChanges ==
  ASSUME IInv, [Next]_vars, NEW k \in Keys
  PROVE  \/ given'[k] = given[k]
         \/ (CommitPrepare \/ CommitCommit \/ CommitRemove) /\ k = call.key
  <1>1. given \in [Keys -> SUBSET Ids]
    BY DEF IInv, TypeOK
  <1>2. CASE CommitPrepare
    BY <1>1, <1>2 DEF CommitPrepare, client
  <1>3. CASE CommitCommit \/ CommitRemove
    BY <1>1, <1>3 DEF CommitCommit, CommitRemove
  <1>4. ASSUME NEW j \in Keys, NEW n \in Keys,
               BeginCommit(j, n) \/ BeginRemove(j) \/ ClientMount(j) \/ ClientUnmount(j)
        PROVE  given' = given
    BY <1>4 DEF BeginCommit, BeginRemove, GiveUp, ClientMount, ClientUnmount
  <1>5. ASSUME NEW r \in Readers, MountsOfDirectory(r) \/ MountsAttach(r) \/ MountsMount(r)
        PROVE  given' = given
    BY <1>5 DEF MountsOfDirectory, MountsAttach, MountsMount, Return, client
  <1> QED
    BY <1>2, <1>3, <1>4, <1>5, ClientActions DEF client

\* A directory without config and data stays so, unless it becomes that of a remote
\* layer.
LEMMA BareStays ==
  ASSUME IInv, PulledImages, HandedInv, GivenInv, [Next]_vars,
         NEW i \in Ids, Bare(i), PrepareRemote => i # call.id
  PROVE  Bare(i)'
  <1>1. ~Configures(i)
    BY DEF Configures, Bare
  <1>2. ~Overwrites(i)
    <2>1. pc = "spec" => call.key \in Live(wsnaps)
      BY CallId DEF IInv, TypeOK, Live
    <2> QED
      BY <2>1 DEF Overwrites, PrepareRootfs, HandedInv
  <1>3. ~Seals(i)
    <2>1. pc = "seal" => call.key \in Live(wsnaps)
      BY DEF IInv, MetaInv, WriterInv, Sealing
    <2> QED
      BY <2>1 DEF Seals, SealWritable, HasWritable, HandedInv
  <1>4. ~Unpacks(i)
    BY DEF Unpacks, ClientUnpack, GivenInv, Live
  <1> QED
    BY <1>1, <1>2, <1>3, <1>4, ConfChanges DEF Bare

\* The id of a snapshot that the store has listed, or once had, is not that of the
\* snapshot that is being prepared.
LEMMA OldIds ==
  ASSUME IInv, NEW s, WellFormed(s, seq), NEW k \in Live(s)
  PROVE  s[k].id \in Ids /\ (PrepareRemote => s[k].id # call.id)
  <1>1. s[k].id \in Ids /\ s[k].id <= seq /\ seq \in Nat
    BY DEF WellFormed, Live, Snapshot, IInv, TypeOK
  <1>2. PrepareRemote => call.id = seq + 1
    BY DEF PrepareRemote, IInv, MetaInv, WriterInv, Preparing, AddedInv
  <1> QED
    BY <1>1, <1>2 DEF Ids

\* A parent is an overlaybd layer if and only if it is a remote layer.
LEMMA ServedByBlock ==
  ASSUME NEW s, NEW k, s[k].parent # None,
         s[s[k].parent].flavor = "remote" \/ Bare(s[s[k].parent].id)
  PROVE  ParentIsBlock(s, k) <=> s[s[k].parent].flavor = "remote"
  BY DEF ParentIsBlock, ParentId, IsBlock, Bare

\* What Mounts returns for a snapshot is what its metadata says.
LEMMA ReturnsServed ==
  ASSUME IInv, PulledImages, HandedInv, GivenInv, NEW r \in Readers, NEW k \in Keys,
         Returns(r, k)
  PROVE  handed'[k] = Served(snaps, k)
  <1>1. /\ rpc[r] # "idle" /\ k = rkey[r] /\ k \in Live(snaps) /\ snaps[k] = rsnaps[r][k]
        /\ ReaderOK(r)
    BY DEF Returns, IInv, MetaInv, ReaderInv
  <1>2. snaps[k].flavor # "rw"
    BY <1>1 DEF HandedInv
  <1>3. CASE snaps[k].parent = None
    <2>1. handed'[k] = {}
      BY <1>3 DEF Returns
    <2> QED
      BY <1>3, <2>1 DEF Served
  <1>4. CASE snaps[k].parent # None
    <2> DEFINE p == snaps[k].parent
    <2>1. /\ snaps[p] = rsnaps[r][p]
          /\ p \in Live(rsnaps[r]) /\ rsnaps[r][k].parent = p
      BY <1>1, <1>4 DEF ReaderOK, WellFormed, Committed
    <2>2. rsnaps[r][p].flavor = "remote" \/ Bare(rsnaps[r][p].id)
      BY <1>1, <2>1 DEF GivenInv
    <2>3. ParentIsBlock(rsnaps[r], k) <=> snaps[p].flavor = "remote"
      BY <1>1, <1>4, <2>1, <2>2, ServedByBlock
    <2>4. NeedsParent(r) <=> snaps[p].flavor = "remote"
      BY <1>1, <1>2, <2>3 DEF NeedsParent
    <2>5. rpc[r] = "mount" => snaps[p].flavor = "remote"
      BY <1>1, <2>1 DEF GivenInv
    <2>6. IF snaps[p].flavor = "remote" THEN handed'[k] = {ParentId(snaps, k)}
          ELSE handed'[k] = {}
      BY <2>4, <2>5 DEF Returns
    <2> QED
      BY <1>4, <2>6 DEF Served
  <1> QED
    BY <1>3, <1>4

\* A snapshot that the store lists is what it was, or has been prepared, or has been
\* committed.
LEMMA ListedFrom ==
  ASSUME IInv, [Next]_vars, NEW k \in Live(snaps')
  PROVE  \/ k \in Live(snaps) /\ snaps'[k] = snaps[k]
         \/ /\ CommitPrepare /\ snaps' = wsnaps /\ k = call.key /\ wsnaps[k] # None
            /\ snaps[k] = None
            /\ snaps'[k].kind # "committed" /\ snaps'[k].flavor # "remote"
            /\ snaps'[k].id = call.id
         \/ /\ CommitPrepare /\ snaps[k] = None /\ k # call.key
            /\ snaps'[k].kind = "committed" /\ snaps'[k].flavor = "remote"
            /\ snaps'[k].id = call.id
         \/ /\ CommitCommit /\ k = call.name /\ snaps[k] = None
            /\ snaps'[k].kind = "committed"
            /\ call.key \in Live(snaps) /\ snaps[call.key].kind = "active"
            /\ snaps'[k].id = snaps[call.key].id
  <1>1. k \in Keys /\ snaps'[k] # None
    BY DEF Live
  <1>2. CASE snaps'[k] = snaps[k]
    BY <1>1, <1>2 DEF Live
  <1>3. CASE CommitPrepare /\ k = Made /\ snaps[k] = None /\ snaps'[k] = wsnaps[k]
    <2>1. AddedInv /\ AddedKind /\ snaps' = wsnaps /\ pc = "commit"
      BY <1>3 DEF CommitPrepare, CommitTransaction, IInv, MetaInv, WriterInv, Preparing
    <2>2. CASE wsnaps[call.key] # None
      BY <1>3, <2>1, <2>2 DEF Made, AddedInv, AddedKind
    <2>3. CASE wsnaps[call.key] = None
      BY <1>1, <1>3, <2>1, <2>3 DEF Made, AddedInv, AddedKind
    <2> QED
      BY <2>2, <2>3
  <1>4. CASE /\ CommitCommit /\ k = call.name /\ snaps[k] = None
             /\ snaps'[k] # None /\ snaps'[k].kind = "committed"
    <2>1. /\ call.key \in Live(snaps) /\ snaps[call.key].kind = "active"
          /\ call.id = snaps[call.key].id /\ wsnaps[call.name].id = call.id
          /\ snaps' = wsnaps
      BY <1>4 DEF CommitCommit, CommitTransaction, IInv, MetaInv, WriterInv, Sealing
    <2> QED
      BY <1>4, <2>1
  <1> QED
    BY <1>1, <1>2, <1>3, <1>4, StoreChanges

\* What the clients hold of a snapshot is what Prepare or View has returned.
LEMMA ListedGiven ==
  ASSUME IInv, IInv', PulledImages, HandedInv, GivenInv, [Next]_vars,
         NEW k \in Live(snaps')
  PROVE  IF snaps'[k].kind = "committed" THEN use'[k] = "none"
         ELSE /\ given'[k] = Served(snaps', k)
              /\ use'[k] # "none" => handed'[k] = given'[k]
              /\ snaps'[k].flavor # "remote"
  <1>1. k \in Keys /\ PlainClients
    BY DEF Live, PulledImages
  <1>2. CASE k \in Live(snaps) /\ snaps'[k] = snaps[k] /\ snaps[k].kind = "committed"
    <2>1. use[k] = "none"
      BY <1>2 DEF GivenInv
    <2>2. ~ClientMount(k) /\ ~Answers(k)
      <3>1. ~ClientMount(k)
        BY <2>1 DEF ClientMount
      <3>2. CommitPrepare => snaps[call.key] = None
        BY DEF CommitPrepare, IInv, MetaInv, WriterInv, AddedInv, Preparing
      <3> QED
        BY <1>2, <3>1, <3>2 DEF Answers, Live
    <2>3. ASSUME NEW r \in Readers PROVE ~Returns(r, k)
      BY <1>2 DEF Returns
    <2> QED
      BY <1>1, <1>2, <2>1, <2>2, <2>3, ClientChanges
  <1>3. CASE k \in Live(snaps) /\ snaps'[k] = snaps[k] /\ snaps[k].kind # "committed"
    <2>1. /\ given[k] = Served(snaps, k)
          /\ use[k] # "none" => handed[k] = given[k]
          /\ snaps[k].flavor # "remote"
      BY <1>3 DEF GivenInv
    <2>2. Served(snaps', k) = Served(snaps, k)
      <3>1. CASE snaps[k].parent = None
        BY <1>3, <3>1 DEF Served
      <3>2. CASE snaps[k].parent # None
        BY <1>3, <3>2, ParentStays DEF Served
      <3> QED
        BY <3>1, <3>2
    <2>3. CommitPrepare => k # call.key
      BY <1>3 DEF CommitPrepare, IInv, MetaInv, WriterInv, AddedInv, Preparing, Live
    <2>4. CommitCommit \/ CommitRemove => k # call.key
      <3>1. CommitCommit \/ CommitRemove => snaps' = wsnaps /\ wsnaps[call.key] = None
        BY DEF CommitCommit, CommitRemove, CommitTransaction, IInv, TypeOK, MetaInv,
               WriterInv, Leaving, Live
      <3> QED
        BY <1>3, <3>1 DEF Live
    <2>5. given'[k] = given[k]
      BY <1>1, <2>3, <2>4, GivenChanges
    <2>6. use'[k] # "none" => handed'[k] = given[k]
      <3>1. CASE handed'[k] = handed[k] /\ use'[k] = use[k]
        BY <2>1, <3>1
      <3>2. CASE ClientMount(k) /\ handed'[k] = handed[k]
        BY <2>1, <3>2 DEF ClientMount
      <3>3. ~Answers(k)
        BY <2>3 DEF Answers
      <3>4. ASSUME NEW r \in Readers, Returns(r, k) PROVE handed'[k] = given[k]
        BY <1>1, <2>1, <3>4, ReturnsServed
      <3> QED
        BY <1>1, <3>1, <3>2, <3>3, <3>4, ClientChanges
    <2> QED
      BY <1>3, <2>1, <2>2, <2>5, <2>6
  <1>4. CASE /\ CommitPrepare /\ snaps' = wsnaps /\ k = call.key /\ wsnaps[k] # None
             /\ snaps'[k].kind # "committed" /\ snaps'[k].flavor # "remote"
    <2>1. Answers(k)
      BY <1>1, <1>4, PrepareAnswers
    <2>2. wsnaps[k].flavor # "layer"
      BY <1>1, <1>4 DEF GivenInv, Live
    <2>3. (IF call.dev = None THEN {} ELSE {call.dev}) = Served(wsnaps, k)
      BY <1>4 DEF GivenInv, CommitPrepare
    <2> QED
      BY <1>4, <2>1, <2>2, <2>3 DEF Answers
  <1>5. CASE snaps[k] = None /\ snaps'[k].kind = "committed" /\ ~Answers(k)
    <2>1. use[k] = "none" /\ ~ClientMount(k)
      BY <1>1, <1>5 DEF HandedInv, ClientMount
    <2>2. ASSUME NEW r \in Readers PROVE ~Returns(r, k)
      BY <1>5 DEF Returns, Live
    <2> QED
      BY <1>1, <1>5, <2>1, <2>2, ClientChanges
  <1>6. CommitCommit => ~Answers(k)
    BY DEF CommitCommit, Answers, CommitPrepare
  <1> QED
    BY <1>2, <1>3, <1>4, <1>5, <1>6, ListedFrom DEF Answers

\* Prepare and View attach the device that serves the mounts they return.
LEMMA PreparedServed ==
  ASSUME IInv, PulledImages, HandedInv, GivenInv, [Next]_vars,
         pc' \in {"attach", "mark", "mount", "commit"}, wsnaps'[call'.key] # None
  PROVE  (IF call'.dev = None THEN {} ELSE {call'.dev}) = Served(wsnaps', call'.key)
  <1>1. CASE UNCHANGED writer
    BY <1>1 DEF GivenInv, writer, Served, ParentId
  <1>2. CASE AttachDevice \/ MarkDevice \/ MountDevice
    <2>1. pc \in {"attach", "mark", "mount"} /\ UNCHANGED <<call, wsnaps>>
      BY <1>2 DEF AttachDevice, MarkDevice, MountDevice
    <2> QED
      BY <2>1 DEF GivenInv, Served, ParentId
  <1>3. CASE PrepareRemote
    <2>1. /\ ~AbandonPrepare
          /\ wsnaps \in [Keys -> Snapshot \cup {None}] /\ call.key \in Keys
          /\ wsnaps[call.key] \in Snapshot
      BY <1>3, CallId DEF PrepareRemote, AbandonPrepare, Rollback, Finish, IInv, TypeOK
    <2>2. /\ wsnaps' = [wsnaps EXCEPT ![call.key] = None,
                ![call.name] = [wsnaps[call.key] EXCEPT !.kind = "committed"]]
          /\ wsnaps[call.name] = None /\ call' = call
      BY <1>3, <2>1 DEF PrepareRemote
    <2>3. call.name # call.key
      BY <2>1, <2>2, NoneAssumption
    <2> QED
      BY <2>1, <2>2, <2>3
  <1>4. CASE PrepareLayer \/ PrepareDockerLayer
    <2>1. wsnaps[call.key].flavor # "layer"
      BY <1>4, CallId
         DEF PrepareLayer, PrepareDockerLayer, GivenInv, IInv, TypeOK, Live
    <2> QED
      BY <1>4, <2>1 DEF PrepareLayer, PrepareDockerLayer, IsInitLayer, IsContainerLayer,
         PulledImages, PlainClients
  <1>5. CASE PrepareRootfs
    <2> DEFINE k == call.key
    <2>1. /\ AddedInv /\ AddedKind /\ WellFormed(wsnaps, wseq) /\ WellFormed(snaps, seq)
          /\ wsnaps \in [Keys -> Snapshot \cup {None}]
          /\ k \in Live(wsnaps) /\ wsnaps[k] \in Snapshot /\ pc = "spec"
      BY <1>5, CallId DEF PrepareRootfs, IInv, TypeOK, MetaInv, WriterInv, Preparing,
                          Live
    <2>2. wsnaps[k].flavor # "rw" /\ call.dev = None /\ wsnaps[k].kind # "committed"
      BY <2>1 DEF HandedInv, AddedKind, Live
    <2>3. ~AbandonPrepare
      BY DEF AbandonPrepare, Rollback, Finish
    <2>4. \/ /\ ParentIsBlock(wsnaps, k) /\ UNCHANGED wsnaps
             /\ call' = [call EXCEPT !.dev = ParentId(wsnaps, k)]
          \/ /\ ~ParentIsBlock(wsnaps, k) /\ UNCHANGED call
             /\ wsnaps' = [wsnaps EXCEPT ![k].flavor = IF @ = "rw" THEN "rootfs" ELSE @]
      BY <1>5, <2>2, <2>3 DEF PrepareRootfs, Writable
    <2>5. UNCHANGED wsnaps
      BY <2>1, <2>2, <2>4 DEF Snapshot
    <2>6. CASE wsnaps[k].parent = None
      <3>1. UNCHANGED call
        BY <2>4, <2>6 DEF ParentIsBlock
      <3> QED
        BY <2>2, <2>5, <2>6, <3>1 DEF Served
    <2>7. CASE wsnaps[k].parent # None
      <3> DEFINE p == wsnaps[k].parent
      <3>1. p \in Committed(wsnaps) /\ p \in Keys /\ wsnaps[p] # None /\ p # k
        BY <2>1, <2>2, <2>7 DEF WellFormed, Committed, Live
      <3>2. wsnaps[p] = snaps[p] /\ p \in Live(snaps)
        BY <2>1, <3>1 DEF AddedInv, Made, Live
      <3>3. wsnaps[p].flavor = "remote" \/ Bare(wsnaps[p].id)
        BY <3>2 DEF GivenInv
      <3>4. ParentIsBlock(wsnaps, k) <=> wsnaps[p].flavor = "remote"
        BY <2>7, <3>3, ServedByBlock
      <3>5. CASE ParentIsBlock(wsnaps, k)
        <4>1. ParentId(wsnaps, k) \in Ids /\ ParentId(wsnaps, k) # None
          BY <2>1, <2>7, ParentTyped, NoneAssumption
        <4>2. call'.dev = ParentId(wsnaps, k) /\ call'.key = k
          BY <2>4, <3>5 DEF IInv, TypeOK, Call
        <4> QED
          BY <2>5, <2>7, <3>4, <3>5, <4>1, <4>2 DEF Served, ParentId
      <3>6. CASE ~ParentIsBlock(wsnaps, k)
        BY <2>2, <2>4, <2>5, <3>4, <3>6 DEF Served
      <3> QED
        BY <3>5, <3>6
    <2> QED
      BY <2>6, <2>7
  <1>6. CASE RenameDirectory \/ AttachDeviceFails \/ MarkDeviceFails \/ MountDeviceFails
             \/ CommitPrepare \/ CommitPrepareFails
    BY <1>6 DEF RenameDirectory, AttachDeviceFails, MarkDeviceFails, MountDeviceFails,
       CommitPrepare, CommitPrepareFails, AbandonPrepare, Rollback, CommitTransaction,
       Finish
  <1>7. CASE ~UNCHANGED writer /\ ~PrepareStep
    <2>0. pc' # "idle" /\ pc' \in Preparing
      BY DEF Preparing
    <2>1. pc \in Preparing \/ \E q \in Requests : BeginPrepare(q)
      BY <2>0, CallGoesOn DEF Preparing, BeginCommit, BeginRemove
    <2>2. CASE pc \in Preparing
      BY <1>7, <2>2, StageActions DEF Crash, Rollback, Finish
    <2> QED
      BY <2>1, <2>2 DEF BeginPrepare
  <1> QED
    BY <1>1, <1>2, <1>3, <1>4, <1>5, <1>6, <1>7 DEF PrepareStep


\* The directory of the snapshot that is being prepared is bare until a remote layer
\* gets its config.
LEMMA PreparedBare ==
  ASSUME IInv, PulledImages, HandedInv, GivenInv, [Next]_vars,
         pc' \in Preparing \ {"rename"}, wsnaps'[call'.key] # None,
         NEW i, i = call'.id
  PROVE  Bare(i)'
  <1>1. CASE RenameDirectory
    <2>1. /\ dir' = [dir EXCEPT ![call.id] = NewDir] /\ i = call.id
      BY <1>1 DEF RenameDirectory, Rollback, Finish, Preparing
    <2>2. call.id \in Ids /\ dir \in [Ids -> Directory \cup {None}] /\ NewDir \in Directory
      BY <1>1, CallId, ConfTyped DEF RenameDirectory, IInv, TypeOK
    <2>3. dir'[i] = NewDir /\ NewDir # None
      BY <2>1, <2>2, NoneAssumption
    <2> QED
      BY <2>3 DEF Bare, Conf, Data, NewDir
  <1>2. CASE ~RenameDirectory
    <2>1. /\ pc \in Preparing \ {"rename"} /\ i = call.id /\ call'.key = call.key
      <3>1. CASE UNCHANGED writer
        BY <3>1 DEF writer
      <3>2. CASE PrepareStep
        <4>1. call'.id = call.id /\ call'.key = call.key
          BY <3>2, PrepareFlow DEF CommitPrepare, CommitPrepareFails, AbandonPrepare,
             CommitTransaction, Rollback, Finish, Preparing
        <4>2. pc \in Preparing \ {"rename"}
          BY <1>2, <3>2 DEF PrepareStep, PrepareRemote, PrepareLayer,
                            PrepareDockerLayer, PrepareRootfs, AttachDevice,
                            AttachDeviceFails, MarkDevice, MarkDeviceFails,
                            MountDevice, MountDeviceFails, CommitPrepare,
                            CommitPrepareFails, Preparing
        <4> QED
          BY <4>1, <4>2
      <3>3. CASE ~UNCHANGED writer /\ ~PrepareStep
        <4>1. pc' # "idle"
          BY DEF Preparing
        <4>2. pc \in Preparing \/ \E q \in Requests : BeginPrepare(q)
          BY <4>1, CallGoesOn DEF Preparing, BeginCommit, BeginRemove
        <4>3. CASE pc \in Preparing
          BY <3>3, <4>1, <4>3, StageActions DEF Crash, Rollback, Finish
        <4> QED
          BY <4>2, <4>3 DEF BeginPrepare
      <3> QED
        BY <3>1, <3>2, <3>3
    <2>2. ~PrepareRemote
      <3> SUFFICES ASSUME PrepareRemote PROVE FALSE
        OBVIOUS
      <3>1. /\ ~AbandonPrepare
            /\ wsnaps \in [Keys -> Snapshot \cup {None}] /\ call.key \in Keys
            /\ wsnaps[call.key] \in Snapshot
        BY CallId DEF PrepareRemote, AbandonPrepare, Rollback, Finish, IInv, TypeOK,
           Preparing
      <3>2. /\ wsnaps' = [wsnaps EXCEPT ![call.key] = None,
                  ![call.name] = [wsnaps[call.key] EXCEPT !.kind = "committed"]]
            /\ wsnaps[call.name] = None
        BY <3>1 DEF PrepareRemote
      <3>3. call.name # call.key
        BY <3>1, <3>2, NoneAssumption
      <3> QED
        BY <2>1, <3>1, <3>2, <3>3
    <2>3. wsnaps[call.key] # None
      <3>1. CASE UNCHANGED wsnaps
        BY <2>1, <3>1
      <3>2. CASE PrepareRootfs
        BY <3>2, CallId DEF PrepareRootfs, Live
      <3>3. UNCHANGED wsnaps \/ PrepareRootfs
        <4>1. CASE UNCHANGED writer
          BY <4>1 DEF writer
        <4>2. CASE ~UNCHANGED writer
          <5>1. PrepareStep
            BY <2>1, <4>2, StageActions DEF Crash, Rollback, Finish, Preparing
          <5> QED
            BY <1>2, <2>2, <5>1 DEF PrepareStep, PrepareLayer, PrepareDockerLayer,
                                    AttachDevice, AttachDeviceFails, MarkDevice,
                                    MarkDeviceFails, MountDevice, MountDeviceFails,
                                    CommitPrepare, CommitPrepareFails,
                                    CommitTransaction, AbandonPrepare, Rollback,
                                    Finish, Preparing
        <4> QED
          BY <4>1, <4>2
      <3> QED
        BY <3>1, <3>2, <3>3
    <2>4. Bare(i) /\ i \in Ids
      BY <2>1, <2>3, CallId DEF GivenInv, Preparing
    <2> QED
      BY <2>2, <2>4, BareStays
  <1> QED
    BY <1>1, <1>2

\* A call of Mounts attaches, marks and mounts the parent's device if it needs it.
OnwardsOf(r) ==
    rpc'[r] \in {"mark", "mount"} => rpc[r] \in {"mark", "mount"} \/ NeedsParent(r)

\* Every step keeps it.
LEMMA GivenStep ==
  ASSUME IInv, IInv', PulledImages, HandedInv, GivenInv, [Next]_vars
  PROVE  GivenInv'
  <1>1. /\ snaps \in [Keys -> Snapshot \cup {None}] /\ WellFormed(snaps, seq)
        /\ rpc \in [Readers -> {"idle", "lock", "lockParent", "serve", "mark", "mount"}]
        /\ rsnaps \in [Readers -> [Keys -> Snapshot \cup {None}]]
        /\ rkey \in [Readers -> Keys \cup {None}]
    BY DEF IInv, TypeOK, MetaInv
  <1>2. ASSUME NEW k \in Live(snaps')
        PROVE  IF snaps'[k].kind = "committed" THEN use'[k] = "none"
               ELSE /\ given'[k] = Served(snaps', k)
                    /\ use'[k] # "none" => handed'[k] = given'[k]
                    /\ snaps'[k].flavor # "remote"
    BY <1>2, ListedGiven
  <1>3. ASSUME NEW k \in Live(snaps') PROVE snaps'[k].flavor # "layer"
    <2>1. UNCHANGED store \/ snaps' = wsnaps
      BY StoreActions DEF CommitPrepare, CommitCommit, CommitRemove, CommitTransaction
    <2> QED
      BY <2>1 DEF GivenInv, store, Live
  <1>4. ASSUME NEW k \in Live(snaps') PROVE snaps'[k].flavor = "remote" \/ Bare(snaps[k].id)'
    <2>1. CASE k \in Live(snaps) /\ snaps'[k] = snaps[k]
      <3>1. snaps[k].flavor = "remote" \/ Bare(snaps[k].id)
        BY <2>1 DEF GivenInv
      <3>2. snaps[k].id \in Ids /\ (PrepareRemote => snaps[k].id # call.id)
        BY <1>1, <2>1, OldIds
      <3>3. Bare(snaps[k].id) => Bare(snaps[k].id)'
        <4> DEFINE i == snaps[k].id
        <4>1. ASSUME NEW j \in Ids, j = i, Bare(j) PROVE Bare(j)'
          BY <3>2, <4>1, BareStays
        <4> QED
          BY <2>1, <3>2, <4>1 DEF Bare, Conf, Data
      <3> QED
        BY <2>1, <3>1, <3>3
    <2>2. CASE CommitPrepare /\ k = call.key /\ wsnaps[k] # None /\ snaps'[k].id = call.id
      <3>1. Bare(call.id) /\ UNCHANGED dir
        BY <2>2 DEF GivenInv, CommitPrepare, Preparing, disk
      <3> QED
        BY <2>2, <3>1 DEF Bare, Conf, Data
    <2>3. CASE /\ CommitCommit /\ call.key \in Live(snaps)
               /\ snaps[call.key].kind = "active"
               /\ snaps'[k].id = snaps[call.key].id
      <3>1. Bare(snaps[call.key].id) /\ UNCHANGED dir
        BY <2>3 DEF GivenInv, CommitCommit, disk
      <3> QED
        BY <2>3, <3>1 DEF Bare, Conf, Data
    <2> QED
      BY <2>1, <2>2, <2>3, ListedFrom
  <1>5. ASSUME NEW k \in Live(wsnaps') PROVE wsnaps'[k].flavor # "layer"
    BY <1>5, Labels DEF HandedInv, GivenInv, PulledImages
  <1>6. pc' \in Preparing \ {"rename"} /\ wsnaps'[call'.key] # None => Bare(call.id)'
    <2> SUFFICES ASSUME pc' \in Preparing \ {"rename"}, wsnaps'[call'.key] # None
                 PROVE  Bare(call.id)'
      OBVIOUS
    <2>1. \A i : i = call'.id => Bare(i)'
      BY PreparedBare
    <2> QED
      BY <2>1 DEF Bare, Conf, Data
  <1>7. pc' \in {"attach", "mark", "mount", "commit"} /\ wsnaps'[call'.key] # None =>
           (IF call'.dev = None THEN {} ELSE {call'.dev}) = Served(wsnaps', call'.key)
    BY PreparedServed
  <1>8. ASSUME NEW r \in Readers, rpc'[r] # "idle"
        PROVE  /\ \A k \in Live(rsnaps'[r]) :
                      rsnaps'[r][k].flavor = "remote" \/ Bare(rsnaps[r][k].id)'
               /\ rpc'[r] \in {"mark", "mount"}
                     => rsnaps'[r][rsnaps'[r][rkey'[r]].parent].flavor = "remote"
    <2>1. CASE /\ rsnaps'[r] = snaps /\ rpc'[r] = "lock" /\ UNCHANGED <<store, dir>>
      <3>1. \A k \in Live(rsnaps'[r]) :
               rsnaps'[r][k].flavor = "remote" \/ Bare(rsnaps'[r][k].id)
        BY <2>1 DEF GivenInv, Live
      <3> QED
        BY <2>1, <3>1 DEF Bare, Conf, Data
    <2>2. CASE rsnaps'[r] = rsnaps[r] /\ rkey'[r] = rkey[r] /\ rpc[r] # "idle"
               /\ OnwardsOf(r)
      <3>1. ReaderOK(r) /\ WellFormed(rsnaps[r], seq)
        BY <2>2 DEF IInv, MetaInv, ReaderInv, ReaderOK
      <3>2. ASSUME NEW k \in Live(rsnaps[r])
            PROVE  rsnaps'[r][k].flavor = "remote" \/ Bare(rsnaps[r][k].id)'
        <4>1. rsnaps[r][k].flavor = "remote" \/ Bare(rsnaps[r][k].id)
          BY <2>2 DEF GivenInv
        <4>2. rsnaps[r][k].id \in Ids /\ (PrepareRemote => rsnaps[r][k].id # call.id)
          BY <3>1, OldIds
        <4>3. ASSUME NEW j \in Ids, j = rsnaps[r][k].id, Bare(j) PROVE Bare(j)'
          BY <4>2, <4>3, BareStays
        <4> QED
          BY <2>2, <4>1, <4>2, <4>3 DEF Bare, Conf, Data
      <3>3. ASSUME rpc'[r] \in {"mark", "mount"}
            PROVE  rsnaps[r][rsnaps[r][rkey[r]].parent].flavor = "remote"
        <4>1. CASE rpc[r] \in {"mark", "mount"}
          BY <4>1 DEF GivenInv
        <4>2. CASE NeedsParent(r)
          <5> DEFINE s == rsnaps[r]
                     k == rkey[r]
          <5>1. s[k].parent # None /\ s[k].parent \in Live(s)
            BY <2>2, <3>1, <4>2, ReaderParent, ParentTyped DEF ReaderOK
          <5>2. s[s[k].parent].flavor = "remote" \/ Bare(s[s[k].parent].id)
            BY <2>2, <5>1 DEF GivenInv
          <5> QED
            BY <4>2, <5>1, <5>2, ServedByBlock DEF NeedsParent
        <4> QED
          BY <2>2, <3>3, <4>1, <4>2 DEF OnwardsOf
      <3> QED
        BY <2>2, <3>2, <3>3 DEF Live
    <2>3. CASE UNCHANGED readers
      BY <1>8, <2>2, <2>3 DEF readers, OnwardsOf
    <2>4. ASSUME NEW q \in Readers, MountsStep(q)
          PROVE  rsnaps'[r] = rsnaps[r] /\ rkey'[r] = rkey[r] /\ rpc[r] # "idle"
                 /\ OnwardsOf(r)
      <3>1. CASE EndMounts(q)
        BY <1>1, <1>8, <3>1 DEF EndMounts, OnwardsOf
      <3>2. CASE LockMounts(q) \/ LockMountsParent(q) \/ MountsMark(q)
        <4>1. /\ UNCHANGED <<rkey, rsnaps>> /\ rpc[q] # "idle"
              /\ \/ \E s \in {"lockParent", "serve"} : rpc' = [rpc EXCEPT ![q] = s]
                 \/ rpc[q] = "mark" /\ rpc' = [rpc EXCEPT ![q] = "mount"]
          BY <3>2 DEF LockMounts, LockMountsParent, MountsMark
        <4> QED
          BY <1>1, <1>8, <4>1 DEF OnwardsOf
      <3>3. CASE MountsAttach(q) /\ ~EndMounts(q)
        <4>1. /\ rpc[q] = "serve" /\ NeedsParent(q)
              /\ rpc' = [rpc EXCEPT ![q] = "mark"] /\ UNCHANGED <<rkey, rsnaps>>
          BY <3>3 DEF MountsAttach, Return
        <4> QED
          BY <1>1, <1>8, <4>1 DEF OnwardsOf
      <3> QED
        BY <2>4, <3>1, <3>2, <3>3 DEF MountsStep, MountsOfDirectory,
                                      MountsAttachFails, MountsMarkFails, MountsMount,
                                      MountsMountFails, Return
    <2>5. ASSUME NEW q \in Readers, NEW k \in Keys, BeginMounts(q, k)
          PROVE  \/ rsnaps'[r] = snaps /\ rpc'[r] = "lock" /\ UNCHANGED <<store, dir>>
                 \/ /\ rsnaps'[r] = rsnaps[r] /\ rkey'[r] = rkey[r] /\ rpc[r] # "idle"
                    /\ OnwardsOf(r)
      BY <1>1, <1>8, <2>5 DEF BeginMounts, disk, OnwardsOf
    <2>6. ~Crash
      BY <1>8 DEF Crash
    <2> QED
      BY <2>1, <2>2, <2>3, <2>4, <2>5, <2>6, ReaderActions
  <1> QED
    BY <1>2, <1>3, <1>4, <1>5, <1>6, <1>7, <1>8 DEF GivenInv, Live

\* Mounts, called again or beside other calls, returns what Prepare or View returned
\* of the snapshot, whatever fails and although the process crashes.
THEOREM SnapshotterRecovers == PulledImages => (Safety => []RecoverMounts)
  <1> SUFFICES ASSUME PulledImages
               PROVE  Safety => []RecoverMounts
    OBVIOUS
  <1>1. PlainClients
    BY DEF PulledImages
  <1>2. Init => IInv /\ HandedInv /\ GivenInv
    <2> SUFFICES ASSUME Init PROVE IInv /\ HandedInv /\ GivenInv
      OBVIOUS
    <2>1. HandedInv
      BY DEF Init, HandedInv, NoSnaps, Live, Preparing, Removing
    <2>2. GivenInv
      BY DEF Init, GivenInv, NoSnaps, Live, Preparing
    <2> QED
      BY <2>1, <2>2, InitInv
  <1>3. IInv /\ [Next]_vars => IInv'
    BY InvStep
  <1>4. IInv /\ HandedInv /\ [Next]_vars => HandedInv'
    BY <1>1, <1>3, HandedStep
  <1>5. IInv /\ HandedInv /\ GivenInv /\ [Next]_vars => GivenInv'
    BY <1>3, GivenStep
  <1>6. GivenInv => RecoverMounts
    BY DEF GivenInv, RecoverMounts
  <1> QED
    BY <1>2, <1>3, <1>4, <1>5, <1>6, PTL DEF Safety


-----------------------------------------------------------------------------
(* The snapshot of every attached device.                                  *)

\* No call of Mounts runs beside a Remove, where it may attach a device again that
\* Remove has just detached, and no call of Prepare or View is rolled back when it
\* has attached a writable device, which then stays attached.
AttachesKept == Readers = {} /\ Faults \cap {"mark", "mount", "commit", "crash"} = {}

\* The ids of a snapshot, of its parent and of the parent's parent.
Below(s, k) ==
    {s[k].id} \cup
    (IF s[k].parent = None THEN {}
     ELSE {ParentId(s, k)} \cup
          IF s[s[k].parent].parent = None THEN {} ELSE {ParentId(s, s[k].parent)})

\* The directory of a device has its mark, or gets it in the next step.
Found(i) == Marked(i) \/ (pc = "mark" /\ i = call.dev /\ dir[i] # None)

\* A device belongs to a listed snapshot, or is the writable one of the snapshot that
\* is being prepared. Remove finds it, for its directory is marked and is that of a
\* layer; and detaches it, unless an overlay mount uses it, which is that of a child
\* or of a child's child.
OwnedInv ==
    /\ \A i \in Ids : dev[i] # None => i \in LiveIds(snaps) \/ (pc \in Preparing /\ i = call.id)
    /\ \A k \in Live(snaps) : dev[snaps[k].id] # None =>
           Found(snaps[k].id) /\ IsBlock(snaps[k].id, snaps[k].flavor)
    /\ pc \in Preparing /\ dev[call.id] # None =>
           /\ pc \in {"mark", "mount", "commit"} /\ call.dev = call.id
           /\ Found(call.id) /\ Conf(call.id) # None
    /\ pc = "publish" /\ dev[call.id] # None => IsBlock(call.id, wsnaps[call.name].flavor)
    /\ pc \in Removing \ {"ownDevice"} => dev[call.id] = None \/ Children(snaps, call.key) # {}
    /\ pc \in Leaving => dev[call.id] = None
    /\ \A k \in Keys :
           snaps[k] = None \/ (k = call.key /\ pc \notin Preparing) => handed[k] = {}
    /\ \A k \in Live(snaps) : handed[k] \subseteq Below(snaps, k)

\* A device that is attached after a step was attached before, or is the one that
\* Prepare or View attaches and is about to mark.
LEMMA QuietDev ==
  ASSUME IInv, AttachesKept, [Next]_vars, NEW i \in Ids, dev'[i] # None
  PROVE  \/ dev[i] # None /\ ~(pc = "attach" /\ i = call.dev /\ pc' = "mark")
         \/ /\ AttachDevice /\ i = call.dev /\ pc' = "mark" /\ call' = call
            /\ Conf(i) # None /\ UNCHANGED <<store, wsnaps>>
            /\ Found(i)' /\ Conf(i)' = Conf(i)
  <1>1. ~(\E r \in Readers : MountsAttach(r) \/ MountsMount(r))
    BY DEF AttachesKept
  <1>2. CASE AttachDevice /\ call.dev \notin mnt
    <2>1. /\ CanAttach(call.dev) /\ dev' = [dev EXCEPT ![call.dev] = Conf(call.dev)]
          /\ pc' = "mark" /\ pc = "attach"
          /\ UNCHANGED <<store, call, wsnaps, dir>>
      BY <1>2 DEF AttachDevice, Attached, disk
    <2>2. dev \in [Ids -> Seq(Ids) \cup {None}]
      BY DEF IInv, TypeOK
    <2>3. CASE i # call.dev
      BY <2>1, <2>2, <2>3
    <2>4. CASE i = call.dev
      <3>1. Conf(i) # None /\ dir[i] # None
        BY <2>1, <2>4 DEF CanAttach, Conf
      <3>2. Found(i)' /\ Conf(i)' = Conf(i)
        BY <2>1, <2>4, <3>1 DEF Found, Conf
      <3> QED
        BY <1>2, <2>1, <2>4, <3>1, <3>2
    <2> QED
      BY <2>3, <2>4
  <1>3. CASE ~(AttachDevice /\ call.dev \notin mnt)
    <2>1. dev[i] # None
      BY <1>1, <1>3, DevChanges DEF Attaches, Mounts
    <2>2. ~(pc = "attach" /\ pc' = "mark")
      <3> SUFFICES ASSUME pc = "attach", pc' = "mark" PROVE FALSE
        OBVIOUS
      <3>1. AttachDevice
        BY Arrivals DEF writer
      <3> QED
        BY <1>3, <3>1 DEF AttachDevice
    <2> QED
      BY <2>1, <2>2
  <1> QED
    BY <1>2, <1>3

\* An overlay mount that uses a device is that of a snapshot above the device's.
LEMMA BusyHasChildren ==
  ASSUME IInv, OwnedInv, NEW j \in Live(snaps), Busy(snaps[j].id)
  PROVE  Children(snaps, j) # {}
  <1> DEFINE i == snaps[j].id
  <1>1. PICK k \in Keys : i \in handed[k] /\ snaps[k] # None /\ snaps[k].id # i
    BY DEF Busy
  <1>2. k \in Live(snaps) /\ i \in Below(snaps, k) /\ WellFormed(snaps, seq)
    BY <1>1 DEF OwnedInv, Live, IInv, MetaInv
  <1>3. snaps[k].parent # None
    BY <1>1, <1>2 DEF Below
  <1> DEFINE p == snaps[k].parent
  <1>4. p \in Live(snaps) /\ ParentId(snaps, k) = snaps[p].id
    BY <1>2, <1>3, ParentTyped
  <1>5. CASE i = ParentId(snaps, k)
    <2>1. p = j
      BY <1>2, <1>4, <1>5 DEF WellFormed
    <2> QED
      BY <1>2, <2>1 DEF Children
  <1>6. CASE i # ParentId(snaps, k)
    <2>1. snaps[p].parent # None /\ i = ParentId(snaps, p)
      BY <1>1, <1>2, <1>3, <1>6 DEF Below
    <2>2. snaps[p].parent \in Live(snaps) /\ i = snaps[snaps[p].parent].id
      BY <1>2, <1>4, <2>1, ParentTyped
    <2>3. snaps[p].parent = j
      BY <1>2, <2>2 DEF WellFormed
    <2> QED
      BY <1>4, <2>3 DEF Children
  <1> QED
    BY <1>5, <1>6

\* A directory keeps its mark, unless it is removed or new.
LEMMA MarkStays ==
  ASSUME IInv, [Next]_vars, NEW i \in Ids, Marked(i), ~Removes(i), ~Overwrites(i)
  PROVE  Marked(i)'
  <1>1. dir[i] \in Directory /\ dir[i] # None /\ dir[i].mark = TRUE
    BY DEF Marked, IInv, TypeOK, Directory
  <1>2. CASE dir'[i] = dir[i]
    BY <1>2, Zenon DEF Marked
  <1>3. CASE dir'[i] # dir[i]
    <2>1. PICK y : \/ dir'[i] = [dir[i] EXCEPT !.mark = TRUE]
                   \/ dir'[i] = [dir[i] EXCEPT !.conf = y]
                   \/ dir'[i] = [dir[i] EXCEPT !.data = y]
      BY <1>1, <1>3, DirChanges DEF Marks, Configures, Seals, Unpacks, Creates
    <2>2. dir'[i].mark = TRUE
      BY <1>1, <2>1 DEF Directory
    <2>3. dir'[i] # None
      BY <1>1, WholeStays DEF Creates
    <2> QED
      BY <2>2, <2>3, Zenon DEF Marked
  <1> QED
    BY <1>2, <1>3

\* So Remove finds the device in the next state as well.
LEMMA FoundStays ==
  ASSUME IInv, AttachesKept, [Next]_vars, NEW i \in Ids, Found(i), ~Removes(i),
         ~Overwrites(i)
  PROVE  Found(i)'
  <1>1. CASE Marked(i)
    BY <1>1, MarkStays DEF Found
  <1>2. CASE ~Marked(i)
    <2>1. pc = "mark" /\ i = call.dev /\ dir[i] # None
      BY <1>2 DEF Found
    <2>2. ~Creates(i)
      BY <2>1 DEF Creates
    <2>3. dir'[i] # None
      BY <2>1, <2>2, WholeStays
    <2>4. CASE UNCHANGED writer
      BY <2>1, <2>3, <2>4 DEF writer, Found
    <2>5. CASE ~UNCHANGED writer
      <3>1. PrepareStep
        BY <2>1, <2>5, StageActions DEF Preparing, Crash, Fault, AttachesKept
      <3>2. MarkDevice
        BY <2>1, <3>1 DEF PrepareStep, RenameDirectory, PrepareRemote, PrepareLayer,
                          PrepareDockerLayer, PrepareRootfs, AttachDevice,
                          AttachDeviceFails, MarkDeviceFails, Fault, AttachesKept,
                          MountDevice, MountDeviceFails, CommitPrepare,
                          CommitPrepareFails
      <3>3. dir[i] \in Directory /\ dir'[i] = [dir[i] EXCEPT !.mark = TRUE]
        BY <2>1, <3>2 DEF MarkDevice, Marking, IInv, TypeOK
      <3>4. dir'[i].mark = TRUE
        BY <3>3 DEF Directory
      <3> QED
        BY <2>3, <3>4, Zenon DEF Found, Marked
    <2> QED
      BY <2>4, <2>5
  <1> QED
    BY <1>1, <1>2

\* A directory stays that of an overlaybd layer, until it is removed or new.
LEMMA BlockStays ==
  ASSUME IInv, [Next]_vars, NEW i \in Ids, NEW f, IsBlock(i, f),
         ~Removes(i), ~Creates(i)
  PROVE  IsBlock(i, f)'
  <1>1. dir \in [Ids -> Directory \cup {None}] /\ None \notin Directory
    BY NoneAssumption DEF IInv, TypeOK
  <1>2. Unpacks(i) => Data(i)' = "blob"
    <2> SUFFICES ASSUME Unpacks(i) PROVE Data(i)' = "blob"
      OBVIOUS
    <2>1. dir[i] \in Directory /\ dir'[i] = [dir[i] EXCEPT !.data = "blob"]
      BY <1>1 DEF Unpacks
    <2>2. dir'[i].data = "blob" /\ dir'[i] \in Directory
      BY <2>1 DEF Directory
    <2> QED
      BY <1>1, <2>2, Zenon DEF Data
  <1>3. Seals(i) => Data(i)' = "sealed"
    <2> SUFFICES ASSUME Seals(i) PROVE Data(i)' = "sealed"
      OBVIOUS
    <2>1. dir[i] \in Directory /\ dir'[i] = [dir[i] EXCEPT !.data = "sealed"]
      BY <1>1 DEF Seals
    <2>2. dir'[i].data = "sealed" /\ dir'[i] \in Directory
      BY <2>1 DEF Directory
    <2> QED
      BY <1>1, <2>2, Zenon DEF Data
  <1>4. \/ Conf(i)' # None \/ Data(i)' # "none"
        \/ Conf(i)' = Conf(i) /\ Data(i)' = Data(i)
    BY <1>2, <1>3, ConfChanges
  <1> QED
    BY <1>4 DEF IsBlock


\* What a client holds of a key, when no call of Mounts returns.
LEMMA QuietClient ==
  ASSUME IInv, AttachesKept, [Next]_vars, NEW k \in Keys
  PROVE  \/ handed'[k] \in {handed[k], {}}
         \/ CommitPrepare /\ k = call.key /\ wsnaps[k] # None /\ handed'[k] = PreparedDevices
  <1>1. handed \in [Keys -> SUBSET Ids]
    BY DEF IInv, TypeOK
  <1>2. CASE CommitPrepare
    BY <1>1, <1>2 DEF CommitPrepare, client
  <1>3. CASE CommitCommit \/ CommitRemove
    BY <1>3 DEF CommitCommit, CommitRemove
  <1>4. ASSUME NEW j \in Keys, NEW n \in Keys,
               BeginCommit(j, n) \/ BeginRemove(j) \/ ClientMount(j) \/ ClientUnmount(j)
        PROVE  handed'[k] \in {handed[k], {}}
    BY <1>1, <1>4 DEF BeginCommit, BeginRemove, GiveUp, ClientMount, ClientUnmount
  <1> QED
    BY <1>2, <1>3, <1>4, ClientActions DEF client, AttachesKept

\* What Prepare and View return is served by a device below their snapshot.
LEMMA PreparedBelow ==
  ASSUME IInv, CommitPrepare, wsnaps[call.key] # None
  PROVE  PreparedDevices \subseteq Below(wsnaps, call.key)
  <1> DEFINE k == call.key
  <1>1. AddedInv /\ AddedKind
    BY DEF CommitPrepare, IInv, MetaInv, WriterInv, Preparing
  <1>2. wsnaps[k].id = call.id
    BY <1>1 DEF AddedInv, Made
  <1>3. (IF call.dev = None THEN {} ELSE {call.dev}) \subseteq Below(wsnaps, k)
    BY <1>1, <1>2 DEF AddedKind, Below
  <1>4. IsContainerLayer(wsnaps, k) => ImageDevice(wsnaps, k) \subseteq Below(wsnaps, k)
    <2> SUFFICES ASSUME IsContainerLayer(wsnaps, k), ParentIsBlock(wsnaps, wsnaps[k].parent)
                 PROVE  ImageDevice(wsnaps, k) \subseteq Below(wsnaps, k)
      BY DEF ImageDevice
    <2>1. wsnaps[k].parent # None
      BY NoneAssumption DEF IsContainerLayer
    <2>2. wsnaps[wsnaps[k].parent].parent # None
      BY DEF ParentIsBlock
    <2> QED
      BY <2>1, <2>2 DEF ImageDevice, Below
  <1> QED
    BY <1>3, <1>4 DEF PreparedDevices

\* What is below a snapshot that stays is the same.
LEMMA BelowStays ==
  ASSUME IInv, [Next]_vars, NEW k \in Live(snaps), snaps'[k] = snaps[k]
  PROVE  Below(snaps', k) = Below(snaps, k)
  <1>1. CASE snaps[k].parent = None
    BY <1>1 DEF Below
  <1>2. CASE snaps[k].parent # None
    <2> DEFINE p == snaps[k].parent
    <2>1. /\ p \in Live(snaps) /\ snaps'[p] = snaps[p]
          /\ ParentId(snaps', k) = ParentId(snaps, k)
      BY <1>2, ParentTyped, ParentStays DEF IInv, MetaInv
    <2>2. snaps[p].parent # None => ParentId(snaps', p) = ParentId(snaps, p)
      BY <2>1, ParentStays
    <2> QED
      BY <1>2, <2>1, <2>2 DEF Below
  <1> QED
    BY <1>1, <1>2

\* Prepare and View end with their device attached only by committing.
LEMMA PrepareKeeps ==
  ASSUME IInv, DirInv, OwnedInv, AttachesKept, [Next]_vars,
         pc \in Preparing, dev[call.id] # None
  PROVE  \/ /\ pc' \in {"mark", "mount", "commit"} /\ UNCHANGED <<call, store>>
            /\ ~PrepareRemote /\ ~PrepareRootfs
         \/ CommitPrepare
  <1>1. pc \in {"mark", "mount", "commit"} /\ call.dev = call.id
    BY DEF OwnedInv
  <1>2. CASE UNCHANGED writer
    <2>1. UNCHANGED store
      BY <1>1, <1>2, CallGoesOn DEF writer
    <2> QED
      BY <1>1, <1>2, <2>1 DEF writer, PrepareRemote, PrepareRootfs
  <1>3. CASE ~UNCHANGED writer
    <2>1. PrepareStep
      BY <1>3, StageActions DEF Crash, Fault, AttachesKept
    <2>2. CASE MarkDevice \/ MountDevice
      BY <2>2 DEF MarkDevice, MountDevice, PrepareRemote, PrepareRootfs
    <2>5. ~MarkDeviceFails
      BY <1>1 DEF MarkDeviceFails, Fault, AttachesKept, DirInv, Whole, Preparing
    <2>3. ~MountDeviceFails
      <3> SUFFICES ASSUME MountDeviceFails PROVE FALSE
        OBVIOUS
      <3>1. CanMount(call.id)
        BY <1>1 DEF DirInv, CanMount, Preparing
      <3> QED
        BY <1>1, <3>1 DEF MountDeviceFails, Fault, AttachesKept
    <2>4. ~CommitPrepareFails
      BY DEF CommitPrepareFails, Fault, AttachesKept
    <2> QED
      BY <1>1, <2>1, <2>2, <2>3, <2>4, <2>5
                                      DEF PrepareStep, RenameDirectory, PrepareRemote,
                                          PrepareLayer, PrepareDockerLayer,
                                          PrepareRootfs, AttachDevice,
                                          AttachDeviceFails
  <1> QED
    BY <1>2, <1>3

\* Every attached device has its snapshot.
LEMMA DeviceKept ==
  ASSUME IInv, IInv', DirInv, OwnedInv, AttachesKept, [Next]_vars,
         NEW i \in Ids, dev'[i] # None
  PROVE  i \in LiveIds(snaps') \/ (pc' \in Preparing /\ i = call'.id)
  <1>1. ASSUME i \in LiveIds(snaps), dev[i] # None PROVE i \in LiveIds(snaps')
    <2>1. PICK k \in Live(snaps) : snaps[k].id = i
      BY <1>1 DEF LiveIds
    <2>2. k \in Keys /\ snaps[k] # None /\ snaps \in [Keys -> Snapshot \cup {None}]
      BY DEF Live, IInv, TypeOK
    <2>3. CASE snaps'[k] = snaps[k]
      BY <2>1, <2>2, <2>3 DEF LiveIds, Live
    <2>4. CASE CommitCommit /\ k = call.key
      <3>1. /\ snaps' = wsnaps /\ call.name \in Live(wsnaps)
            /\ wsnaps[call.name].id = call.id /\ call.id = i
        BY <2>1, <2>4 DEF CommitCommit, CommitTransaction, IInv, MetaInv, WriterInv,
                          Committed
      <3> QED
        BY <3>1 DEF LiveIds
    <2>5. ~(CommitRemove /\ k = call.key)
      BY <1>1, <2>1 DEF CommitRemove, OwnedInv, IInv, MetaInv, WriterInv, Leaving
    <2> QED
      BY <2>2, <2>3, <2>4, <2>5, StoreChanges
  <1>2. CASE dev[i] # None /\ i \in LiveIds(snaps)
    BY <1>1, <1>2
  <1>3. CASE dev[i] # None /\ pc \in Preparing /\ i = call.id
    <2>1. CASE UNCHANGED call /\ pc' \in {"mark", "mount", "commit"}
      BY <1>3, <2>1 DEF Preparing
    <2>2. CASE CommitPrepare
      <3>1. snaps' = wsnaps /\ Made \in Live(wsnaps) /\ wsnaps[Made].id = call.id
        BY <1>3, <2>2 DEF CommitPrepare, CommitTransaction, IInv, MetaInv, WriterInv,
                          AddedInv, Made, Live
      <3> QED
        BY <1>3, <3>1 DEF LiveIds
    <2> QED
      BY <1>3, <2>1, <2>2, PrepareKeeps
  <1>4. CASE AttachDevice /\ i = call.dev /\ pc' = "mark" /\ call' = call
             /\ UNCHANGED <<store, wsnaps>>
    <2>1. AddedInv /\ AddedKind /\ WellFormed(wsnaps, wseq)
      BY <1>4 DEF AttachDevice, IInv, MetaInv, WriterInv, Preparing
    <2>2. CASE call.dev = call.id
      BY <1>4, <2>2 DEF Preparing
    <2>3. CASE call.dev # call.id
      <3>1. /\ wsnaps[call.key] # None /\ wsnaps[call.key].parent # None
            /\ i = ParentId(wsnaps, call.key) /\ wsnaps[call.key].kind # "committed"
            /\ call.key \in Live(wsnaps)
        BY <1>4, <2>1, <2>3 DEF AddedKind, AttachDevice, AddedInv, Live
      <3> DEFINE p == wsnaps[call.key].parent
      <3>2. p \in Live(wsnaps) /\ i = wsnaps[p].id /\ p # call.key
        BY <2>1, <3>1, ParentTyped
      <3>3. p \in Live(snaps) /\ snaps[p].id = i
        BY <2>1, <3>1, <3>2 DEF AddedInv, Made, Live
      <3> QED
        BY <1>4, <3>3 DEF LiveIds, store
    <2> QED
      BY <2>2, <2>3
  <1> QED
    BY <1>2, <1>3, <1>4, QuietDev DEF OwnedInv


\* Remove finds the device of every listed snapshot.
LEMMA DeviceFound ==
  ASSUME IInv, DirInv, OwnedInv, AttachesKept, [Next]_vars,
         NEW k \in Live(snaps'), NEW i, i = snaps'[k].id, dev'[i] # None,
         NEW f, f = snaps'[k].flavor
  PROVE  Found(i)' /\ IsBlock(i, f)'
  <1>1. /\ WellFormed(snaps, seq) /\ seq \in Nat /\ TransactionsHold
        /\ snaps \in [Keys -> Snapshot \cup {None}]
    BY DEF IInv, MetaInv, TypeOK, TransactionsHold, AttachesKept
  <1>2. CASE k \in Live(snaps) /\ snaps'[k] = snaps[k]
    <2>1. i \in Ids /\ i <= seq
      BY <1>1, <1>2 DEF WellFormed, Live, Snapshot
    <2>2. ~Creates(i) /\ ~Overwrites(i)
      <3>1. pc \in Preparing => call.id = seq + 1
        BY DEF IInv, MetaInv, WriterInv, AddedInv
      <3> QED
        BY <1>1, <2>1, <3>1 DEF Creates, Overwrites, PrepareRootfs, Preparing
    <2>3. CASE dev[i] # None
      <3>1. Found(i) /\ IsBlock(i, f)
        BY <1>2, <2>3 DEF OwnedInv
      <3>2. ~Removes(i)
        <4> SUFFICES ASSUME Removes(i) PROVE FALSE
          OBVIOUS
        <4>1. RemoveDirectories /\ k = call.key
          BY <1>1, <1>2, <2>1, RemovesOwn
        <4>2. pc \in Leaving /\ call.id = i
          BY <1>2, <4>1 DEF RemoveDirectories, Leaving, IInv, MetaInv, WriterInv
        <4>3. dev[call.id] = None
          BY <4>2 DEF OwnedInv
        <4> QED
          BY <2>3, <4>2, <4>3
      <3> QED
        BY <2>1, <2>2, <3>1, <3>2, FoundStays, BlockStays
    <2>4. CASE dev[i] = None
      <3>1. Conf(i) # None /\ Found(i)' /\ Conf(i)' = Conf(i)
        BY <2>1, <2>4, QuietDev
      <3> QED
        BY <3>1 DEF IsBlock
    <2> QED
      BY <2>3, <2>4
  <1>3. CASE /\ CommitPrepare /\ i = call.id
    <2>1. dev[i] # None /\ UNCHANGED dir /\ pc \in Preparing
      BY <1>3 DEF CommitPrepare, kernel, disk, Preparing
    <2>2. Marked(i) /\ Conf(i) # None
      BY <1>3, <2>1 DEF OwnedInv, Found, CommitPrepare
    <2> QED
      BY <2>1, <2>2 DEF Found, Marked, IsBlock, Conf, Data
  <1>4. CASE /\ CommitCommit /\ k = call.name
             /\ call.key \in Live(snaps) /\ i = snaps[call.key].id
    <2>1. dev[i] # None /\ UNCHANGED dir /\ snaps' = wsnaps /\ pc = "publish"
      BY <1>4 DEF CommitCommit, CommitTransaction, kernel, disk
    <2>2. i = call.id
      BY <1>4, <2>1 DEF IInv, MetaInv, WriterInv
    <2>3. IsBlock(i, f)
      BY <1>4, <2>1, <2>2 DEF OwnedInv
    <2>4. Marked(i)
      BY <1>4, <2>1 DEF OwnedInv, Found
    <2> QED
      BY <2>1, <2>3, <2>4 DEF Found, Marked, IsBlock, Conf, Data
  <1> QED
    BY <1>2, <1>3, <1>4, ListedFrom

\* Until Prepare or View commits, only its own device is there.
LEMMA PreparedDevice ==
  ASSUME IInv, IInv', DirInv, OwnedInv, AttachesKept, [Next]_vars,
         pc' \in Preparing, NEW i, i = call'.id, dev'[i] # None
  PROVE  /\ pc' \in {"mark", "mount", "commit"} /\ call'.dev = i
         /\ Found(i)' /\ Conf(i)' # None
  <1>1. /\ i \in Ids /\ pc' # "idle" /\ seq \in Nat /\ WellFormed(snaps, seq)
    <2>1. AddedInv' /\ Made' \in Keys /\ wsnaps'[Made'] # None /\ wsnaps'[Made'].id = i
      BY DEF IInv, MetaInv, WriterInv, AddedInv, Made
    <2>2. wsnaps'[Made'] \in Snapshot
      BY <2>1 DEF IInv, TypeOK
    <2> QED
      BY <2>2, <2>1 DEF Snapshot, Preparing, IInv, TypeOK, MetaInv
  <1>2. CASE dev[i] # None /\ i = call.id /\ pc \in Preparing
    <2>1. /\ pc' \in {"mark", "mount", "commit"} /\ UNCHANGED <<call, store>>
          /\ ~PrepareRemote /\ ~PrepareRootfs
      BY <1>1, <1>2, PrepareKeeps DEF CommitPrepare, CommitTransaction, Finish
    <2>2. /\ pc \in {"mark", "mount", "commit"} /\ call.dev = i /\ Found(i)
          /\ Conf(i) # None
      BY <1>2 DEF OwnedInv
    <2>3. ~Removes(i)
      <3>1. i > seq
        BY <1>1, <1>2 DEF IInv, MetaInv, WriterInv, AddedInv
      <3>2. ~RemoveDoomed(i)
        BY <1>1, <3>1 DEF RemoveDoomed, DirInv, Ids
      <3> QED
        BY <1>1, <1>2, <3>2 DEF Removes, Rollback, Finish, RemoveDirectories, Preparing
    <2>4. ~Overwrites(i) /\ ~Creates(i)
      BY <2>1, <2>2 DEF Overwrites, Creates
    <2>5. Conf(i)' # None
      BY <1>1, <2>2, <2>3, <2>4, ConfChanges
    <2> QED
      BY <1>1, <2>1, <2>2, <2>3, <2>4, <2>5, FoundStays
  <1>3. CASE AttachDevice /\ i = call.dev /\ pc' = "mark" /\ call' = call
             /\ Conf(i) # None /\ Found(i)' /\ Conf(i)' = Conf(i)
    BY <1>3
  <1>4. CASE /\ dev[i] # None /\ ~(i = call.id /\ pc \in Preparing)
    <2>1. CASE pc \in Preparing
      <3>1. PrepareStep \/ UNCHANGED writer
        BY <1>1, <2>1, StageActions DEF Crash, Rollback, Finish
      <3>2. call'.id = call.id
        BY <1>1, <3>1, PrepareFlow DEF writer, CommitPrepare, CommitPrepareFails,
           AbandonPrepare, CommitTransaction, Rollback, Finish
      <3> QED
        BY <1>4, <2>1, <3>2
    <2>2. CASE pc \notin Preparing
      <3>1. PICK q \in Requests : BeginPrepare(q)
        BY <1>1, <2>2, CallGoesOn DEF BeginCommit, BeginRemove, Preparing
      <3>2. i = seq + 1
        BY <3>1 DEF BeginPrepare, NoCall
      <3>3. i \in LiveIds(snaps)
        BY <1>1, <1>4 DEF OwnedInv
      <3> QED
        BY <1>1, <3>2, <3>3 DEF LiveIds, WellFormed
    <2> QED
      BY <2>1, <2>2
  <1> QED
    BY <1>1, <1>2, <1>3, <1>4, QuietDev


\* Commit publishes a layer with the device of the snapshot that it makes one of.
LEMMA PublishedBlock ==
  ASSUME IInv, DirInv, OwnedInv, AttachesKept, [Next]_vars,
         pc' = "publish", NEW i, i = call'.id, dev'[i] # None,
         NEW f, f = wsnaps'[call'.name].flavor
  PROVE  IsBlock(i, f)'
  <1>1. CASE UNCHANGED writer
    <2>1. /\ i \in Ids /\ i \in LiveIds(snaps) /\ pc = "publish" /\ i = call.id
          /\ f = wsnaps[call.name].flavor
      BY <1>1, CallId DEF writer, IInv, MetaInv, WriterInv, LiveIds
    <2>2. dev[i] # None
      BY <2>1, QuietDev DEF AttachDevice
    <2>3. IsBlock(i, f)
      BY <2>1, <2>2 DEF OwnedInv
    <2>4. ~Removes(i) /\ ~Creates(i)
      <3>1. ~RemoveDoomed(i)
        BY <2>1 DEF RemoveDoomed, DirInv
      <3> QED
        BY <1>1, <2>1, <3>1 DEF writer, Removes, Creates, Preparing, RemoveDirectories
    <2> QED
      BY <2>1, <2>3, <2>4, BlockStays
  <1>2. CASE ~UNCHANGED writer
    <2>1. pc \in Sealing \cup {"publish"}
      <3>1. pc \notin Preparing
        BY <1>2, CallGoesOn DEF Preparing, BeginPrepare, BeginCommit, BeginRemove
      <3>2. pc # "idle"
        BY CallGoesOn DEF BeginPrepare, BeginCommit, BeginRemove
      <3>3. pc \notin Removing \cup Leaving
        BY <1>2, StageActions DEF Crash, RemoveStep, RemoveOwnDevice,
                                  RemoveOwnDeviceFails, RemoveDockerDevice,
                                  RemoveDockerDeviceFails, LockOwnId, LockParentId,
                                  RemoveParentDevice, RemoveParentDeviceFails,
                                  RemoveMetadata, RemoveDirectories, CommitRemove,
                                  CommitRemoveFails, CommitTransaction, Rollback,
                                  Finish
      <3> QED
        BY <3>1, <3>2, <3>3 DEF IInv, TypeOK, Steps, Preparing, Sealing, Removing,
                                Leaving
    <2>2. CommitStep
      BY <1>2, <2>1, StageActions DEF Crash, Rollback, Finish
    <2>3. CommitMetadata /\ ~Rollback
      BY <2>2 DEF CommitStep, SealWritable, DetachWritableFails, SealWritableFails,
                  CommitMetadata, CommitCommit, CommitCommitFails, CommitTransaction,
                  Rollback, Finish
    <2> DEFINE k == call.key
    <2>4. /\ k \in Live(wsnaps) /\ k \in Live(snaps) /\ wsnaps = snaps
          /\ call.id = snaps[k].id /\ wsnaps[k] \in Snapshot
          /\ wsnaps \in [Keys -> Snapshot \cup {None}] /\ call.name \in Keys
          /\ call.id \in Ids
      BY <2>1, <2>3, CallId
         DEF CommitMetadata, IInv, TypeOK, MetaInv, WriterInv, Sealing, Live
    <2> DEFINE g == IF Data(call.id) # "none" /\ wsnaps[k].flavor = "rw"
                    THEN "layer" ELSE wsnaps[k].flavor
    <2>5. /\ wsnaps' = [wsnaps EXCEPT ![k] = None,
                ![call.name] = [wsnaps[k] EXCEPT !.kind = "committed", !.flavor = g]]
          /\ UNCHANGED <<call, kernel>> /\ pc = "metadata"
      BY <2>3 DEF CommitMetadata
    <2>6. wsnaps'[call.name] = [wsnaps[k] EXCEPT !.kind = "committed", !.flavor = g]
      BY <2>4, <2>5
    <2>7. dev[i] # None /\ i = call.id /\ IsBlock(i, wsnaps[k].flavor)
      BY <2>4, <2>5 DEF OwnedInv, kernel
    <2>8. IsBlock(i, g)
      BY <2>7 DEF IsBlock
    <2> HIDE DEF g
    <2>9. f = g
      BY <2>4, <2>5, <2>6 DEF Snapshot
    <2>10. ~Removes(i) /\ ~Creates(i)
      BY <2>5 DEF Removes, RemoveDoomed, Creates, writer, Preparing, RemoveDirectories,
         CommitMetadata
    <2> QED
      BY <2>4, <2>7, <2>8, <2>9, <2>10, BlockStays
  <1> QED
    BY <1>1, <1>2


\* Remove leaves no device of its own, unless its snapshot has children.
LEMMA OwnDetached ==
  ASSUME IInv, OwnedInv, AttachesKept, [Next]_vars,
         pc' \in (Removing \ {"ownDevice"}) \cup Leaving
  PROVE  \/ dev'[call'.id] = None
         \/ pc' \in Removing /\ Children(snaps', call'.key) # {}
  <1>1. pc' \notin {"idle", "mark"} \cup Preparing /\ UNCHANGED store
    BY CallGoesOn DEF Removing, Leaving, Preparing
  <1>2. ASSUME NEW i \in Ids, dev[i] = None PROVE dev'[i] = None
    BY <1>1, <1>2, QuietDev
  <1>3. CASE UNCHANGED writer
    <2>1. pc \in (Removing \ {"ownDevice"}) \cup Leaving /\ call.id \in Ids
      BY <1>1, <1>3, CallId DEF writer
    <2>2. dev[call.id] = None \/ (pc \in Removing /\ Children(snaps, call.key) # {})
      BY <2>1 DEF OwnedInv
    <2> QED
      BY <1>1, <1>2, <1>3, <2>1, <2>2 DEF writer, store
  <1>4. CASE ~UNCHANGED writer
    <2>1. RemoveStep
      <3>1. pc \notin Preparing /\ pc # "idle"
        BY <1>1, CallGoesOn DEF BeginPrepare, BeginCommit, BeginRemove, Preparing,
                                Removing, Leaving
      <3>2. ~CommitStep /\ ~Crash
        BY <1>1 DEF CommitStep, SealWritable, DetachWritableFails, SealWritableFails,
                    CommitMetadata, CommitCommit, CommitCommitFails,
                    CommitTransaction, Rollback, Finish, Removing, Leaving, Crash
      <3>3. pc \in Sealing \cup {"publish"} \cup Removing \cup Leaving
        BY <3>1 DEF IInv, TypeOK, Steps, Preparing, Sealing, Removing, Leaving
      <3> QED
        BY <1>4, <3>2, <3>3, StageActions
    <2>2. pc # "idle"
      BY <2>1 DEF RemoveStep, RemoveOwnDevice, RemoveOwnDeviceFails,
                  RemoveDockerDevice, RemoveDockerDeviceFails, LockOwnId,
                  LockParentId, RemoveParentDevice, RemoveParentDeviceFails,
                  RemoveMetadata, RemoveDirectories, CommitRemove, CommitRemoveFails
    <2>3. call.id \in Ids /\ call \in Call /\ dev \in [Ids -> Seq(Ids) \cup {None}]
      BY <2>2, CallId DEF IInv, TypeOK
    <2>4. \A l : /\ [call EXCEPT !.locks = l].key = call.key
                 /\ [call EXCEPT !.locks = l].id = call.id
                 /\ [call EXCEPT !.removals = l].key = call.key
                 /\ [call EXCEPT !.removals = l].id = call.id
      BY <2>3 DEF Call
    <2>5. CASE RemoveOwnDevice
      <3>1. /\ pc = "ownDevice" /\ call' = call /\ pc' = "dockerDevice"
        BY <2>5 DEF RemoveOwnDevice
      <3>2. /\ wsnaps = snaps /\ call.key \in Live(snaps) /\ call.id = snaps[call.key].id
        BY <3>1 DEF IInv, MetaInv, WriterInv, Removing
      <3>3. CASE IsBlock(call.id, wsnaps[call.key].flavor) /\ Marked(call.id) /\ ~Busy(call.id)
        BY <2>3, <2>5, <3>1, <3>3 DEF RemoveOwnDevice, Detached
      <3>4. CASE Busy(call.id)
        <4>1. Children(snaps, call.key) # {}
          BY <3>2, <3>4, BusyHasChildren
        <4> QED
          BY <1>1, <3>1, <4>1 DEF store, Removing
      <3>5. CASE ~(IsBlock(call.id, wsnaps[call.key].flavor) /\ Marked(call.id))
        <4>1. dev[call.id] = None
          BY <3>1, <3>2, <3>5 DEF OwnedInv, Found
        <4> QED
          BY <1>2, <2>3, <3>1, <4>1
      <3> QED
        BY <3>3, <3>4, <3>5
    <2>6. CASE pc \in Removing \ {"ownDevice"} /\ pc' \in Removing
      <3>1. call'.key = call.key /\ call'.id = call.id
        <4>1. CASE RemoveDockerDevice \/ RemoveDockerDeviceFails
          BY <4>1 DEF RemoveDockerDevice, RemoveDockerDeviceFails
        <4>2. CASE LockOwnId \/ LockParentId
          BY <2>4, <4>2 DEF LockOwnId, LockParentId
        <4>3. CASE RemoveParentDevice
          BY <4>3 DEF RemoveParentDevice
        <4> QED
          BY <1>1, <2>1, <2>6, <4>1, <4>2, <4>3 DEF RemoveStep, RemoveOwnDevice,
             RemoveOwnDeviceFails, RemoveParentDeviceFails, RemoveMetadata,
             RemoveDirectories, CommitRemove, CommitRemoveFails, CommitTransaction,
             Rollback, Finish, Removing
      <3>2. dev[call.id] = None \/ Children(snaps, call.key) # {}
        BY <2>6 DEF OwnedInv
      <3> QED
        BY <1>1, <1>2, <2>3, <2>6, <3>1, <3>2 DEF store
    <2>7. CASE RemoveMetadata
      <3>1. /\ pc = "removeMetadata" /\ Children(wsnaps, call.key) = {}
            /\ call' = [call EXCEPT !.removals =
                           IF AsyncRemove THEN {} ELSE Orphans(wsnaps')]
        BY <1>1, <2>7 DEF RemoveMetadata, Rollback, Finish
      <3>2. wsnaps = snaps
        BY <3>1 DEF IInv, MetaInv, WriterInv, Removing
      <3>3. dev[call.id] = None
        BY <3>1, <3>2 DEF OwnedInv, Removing
      <3> QED
        BY <1>2, <2>3, <2>4, <3>1, <3>3
    <2>8. CASE RemoveDirectories
      <3>1. pc \in Leaving /\ call' = [call EXCEPT !.locks = {}]
        BY <2>8 DEF RemoveDirectories, Leaving
      <3>2. dev[call.id] = None
        BY <3>1 DEF OwnedInv
      <3> QED
        BY <1>2, <2>3, <2>4, <3>1, <3>2
    <2>9. \/ RemoveOwnDevice \/ (pc \in Removing \ {"ownDevice"} /\ pc' \in Removing)
          \/ RemoveMetadata \/ RemoveDirectories
      BY <1>1, <2>1 DEF RemoveStep, RemoveOwnDeviceFails, RemoveDockerDevice,
                        RemoveDockerDeviceFails, LockOwnId, LockParentId,
                        RemoveParentDevice, RemoveParentDeviceFails, CommitRemove,
                        CommitRemoveFails, CommitTransaction, Rollback, Finish,
                        Removing
    <2> QED
      BY <2>5, <2>6, <2>7, <2>8, <2>9
  <1> QED
    BY <1>3, <1>4

\* Every step keeps it.
LEMMA OwnedStep ==
  ASSUME IInv, IInv', DirInv, OwnedInv, AttachesKept, [Next]_vars
  PROVE  OwnedInv'
  <1>1. \A i \in Ids : dev'[i] # None => i \in LiveIds(snaps') \/ (pc' \in Preparing /\ i = call'.id)
    BY DeviceKept
  <1>2. ASSUME NEW k \in Live(snaps'), dev'[snaps'[k].id] # None
        PROVE  Found(snaps[k].id)' /\ IsBlock(snaps[k].id, snaps[k].flavor)'
    <2>1. ASSUME NEW i, NEW f, i = snaps'[k].id, f = snaps'[k].flavor
          PROVE  Found(i)' /\ IsBlock(i, f)'
      BY <1>2, <2>1, DeviceFound
    <2> QED
      BY <2>1 DEF Found, Marked, IsBlock, Conf, Data
  <1>3. ASSUME pc' \in Preparing, dev'[call'.id] # None
        PROVE  /\ pc' \in {"mark", "mount", "commit"} /\ call'.dev = call'.id
               /\ Found(call.id)' /\ Conf(call.id)' # None
    <2>1. ASSUME NEW i, i = call'.id
          PROVE  /\ pc' \in {"mark", "mount", "commit"} /\ call'.dev = i /\ Found(i)'
                 /\ Conf(i)' # None
      BY <1>3, <2>1, PreparedDevice
    <2> QED
      BY <2>1 DEF Found, Marked, Conf
  <1>4. ASSUME pc' = "publish", dev'[call'.id] # None
        PROVE  IsBlock(call.id, wsnaps[call.name].flavor)'
    <2>1. ASSUME NEW i, NEW f, i = call'.id, f = wsnaps'[call'.name].flavor
          PROVE  IsBlock(i, f)'
      BY <1>4, <2>1, PublishedBlock
    <2> QED
      BY <2>1 DEF IsBlock, Conf, Data
  <1>5. /\ pc' \in Removing \ {"ownDevice"}
               => dev'[call'.id] = None \/ Children(snaps', call'.key) # {}
        /\ pc' \in Leaving => dev'[call'.id] = None
    BY OwnDetached DEF Removing, Leaving
  <1>6. ASSUME NEW k \in Keys, snaps'[k] = None \/ (k = call'.key /\ pc' \notin Preparing)
        PROVE  handed'[k] = {}
    <2>1. CASE snaps'[k] = None
      <3>1. handed[k] = {}
        <4>1. CASE snaps[k] = None
          BY <4>1 DEF OwnedInv
        <4>2. CASE snaps[k] # None
          <5>1. (CommitCommit \/ CommitRemove) /\ k = call.key
            BY <2>1, <4>2, StoreChanges
          <5>2. pc \notin Preparing
            BY <5>1 DEF CommitCommit, CommitRemove, Preparing
          <5> QED
            BY <5>1, <5>2 DEF OwnedInv
        <4> QED
          BY <4>1, <4>2
      <3>2. ~(CommitPrepare /\ wsnaps[k] # None)
        BY <2>1 DEF CommitPrepare, CommitTransaction
      <3> QED
        BY <3>1, <3>2, QuietClient
    <2>2. CASE k = call'.key /\ pc' \notin Preparing
      <3>1. pc' # "idle"
        BY <2>2, NoneAssumption DEF IInv, MetaInv, WriterInv, NoCall
      <3>2. ASSUME NEW j \in Keys, NEW n \in Keys, BeginCommit(j, n) \/ BeginRemove(j)
            PROVE  handed'[k] = {}
        <4>1. call'.key = j /\ GiveUp(j)
          BY <3>2 DEF BeginCommit, BeginRemove, NoCall
        <4> QED
          BY <2>2, <4>1 DEF GiveUp, IInv, TypeOK
      <3>3. CASE call'.key = call.key /\ pc \notin Preparing
        <4>1. handed[k] = {} /\ ~CommitPrepare
          BY <2>2, <3>3 DEF OwnedInv, CommitPrepare, Preparing
        <4> QED
          BY <4>1, QuietClient
      <3>4. ~(\E q \in Requests : BeginPrepare(q))
        BY <2>2 DEF BeginPrepare, Preparing
      <3> QED
        BY <2>2, <3>1, <3>2, <3>3, <3>4, CallGoesOn
    <2> QED
      BY <1>6, <2>1, <2>2
  <1>7. ASSUME NEW k \in Live(snaps')
        PROVE  handed'[k] \subseteq Below(snaps', k)
    <2>1. k \in Keys
      BY DEF Live
    <2>2. CASE k \in Live(snaps) /\ snaps'[k] = snaps[k]
      <3>1. handed[k] \subseteq Below(snaps', k)
        BY <2>2, BelowStays DEF OwnedInv
      <3>2. CommitPrepare => k # call.key
        BY <2>2 DEF CommitPrepare, IInv, MetaInv, WriterInv, AddedInv, Preparing, Live
      <3> QED
        BY <2>1, <3>1, <3>2, QuietClient
    <2>3. CASE CommitPrepare /\ snaps' = wsnaps /\ k = call.key /\ wsnaps[k] # None
               /\ snaps[k] = None
      <3>1. handed[k] = {} /\ PreparedDevices \subseteq Below(wsnaps, k)
        BY <2>1, <2>3, PreparedBelow DEF OwnedInv
      <3> QED
        BY <2>1, <2>3, <3>1, QuietClient
    <2>4. CASE snaps[k] = None /\ ~(CommitPrepare /\ k = call.key)
      <3>1. handed[k] = {}
        BY <2>1, <2>4 DEF OwnedInv
      <3> QED
        BY <2>1, <2>4, <3>1, QuietClient
    <2>5. CommitCommit => ~CommitPrepare
      BY DEF CommitCommit, CommitPrepare
    <2> QED
      BY <2>2, <2>3, <2>4, <2>5, ListedFrom
  <1> QED
    BY <1>1, <1>2, <1>3, <1>4, <1>5, <1>6, <1>7 DEF OwnedInv, Live

\* When no call of Mounts attaches a device again, and neither the mark, the mount nor
\* the commit of a transaction fails after a device was attached, Remove and the failures of
\* every other step leave no attached device without its snapshot.
THEOREM SnapshotterDevices == AttachesKept => (Safety => []DeviceHasSnapshot)
  <1> SUFFICES ASSUME AttachesKept
               PROVE  Safety => []DeviceHasSnapshot
    OBVIOUS
  <1>1. TransactionsHold
    BY DEF AttachesKept, TransactionsHold
  <1>2. Init => IInv /\ DirInv /\ OwnedInv
    <2> SUFFICES ASSUME Init PROVE IInv /\ DirInv /\ OwnedInv
      OBVIOUS
    <2>1. OwnedInv
      BY DEF Init, OwnedInv, NoSnaps, Live, Preparing, Removing, Leaving
    <2> QED
      BY <2>1, InitInv, DirInit
  <1>3. IInv /\ DirInv /\ [Next]_vars => IInv' /\ DirInv'
    BY <1>1, InvStep, DirStep
  <1>4. IInv /\ DirInv /\ OwnedInv /\ [Next]_vars => OwnedInv'
    BY <1>3, OwnedStep
  <1>5. OwnedInv => DeviceHasSnapshot
    BY DEF OwnedInv, DeviceHasSnapshot
  <1> QED
    BY <1>2, <1>3, <1>4, <1>5, PTL DEF Safety


=============================================================================
