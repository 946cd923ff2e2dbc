---------------------------- MODULE Snapshotter ----------------------------
(***************************************************************************)
(* The overlaybd snapshotter (pkg/snapshot): metadata in a transactional    *)
(* store, one directory per snapshot, and one TCMU block device, with its   *)
(* mountpoint, per overlaybd layer that is in use.                          *)
(*                                                                         *)
(* Write transactions are exclusive, so at most one of Prepare, View,       *)
(* Commit, Remove and the scan of Cleanup is under way; `pc' says where it  *)
(* stands, and what it did to the metadata is in wsnaps and wseq until it   *)
(* commits. Mounts runs in read transactions, beside the writer and beside  *)
(* other Mounts. The removals of Cleanup run outside of any transaction.    *)
(* Directories, devices and mounts change as each step runs: they are not   *)
(* part of the transaction, and they survive the process.                   *)
(***************************************************************************)
EXTENDS Integers, Sequences, FiniteSets

CONSTANTS
    Keys,           \* snapshot keys and names
    None,           \* "no snapshot", "no directory", "no config", ...
    Readers,        \* concurrent calls of Mounts
    Requests,       \* what clients ask Prepare and View for
    Names,          \* <<key, name>> pairs clients ask Commit for
    Unpacked,       \* keys whose unpacked layer is an overlaybd blob
    AutoRemoveDev,  \* the boot configuration
    AsyncRemove,
    Docker,         \* runtimeType "docker" with rwMode "overlayfs"
    InitKeys,       \* the keys IsDockerInitLayer recognises
    InitNames,      \* those of them with the suffix "-init"
    Faults,         \* the faults that may happen
    MaxFaults,      \* bound: how many of them
    RemoveParents,  \* clients may ask Remove for a snapshot with children
    MaxId           \* bound: snapshot ids

Ids == 1 .. MaxId

\* "remote": an overlaybd layer of a registry, known by its labels.
\* "layer":  a layer that the client unpacks and commits.
\* "rootfs": a container's root filesystem; "view": the same, read-only.
\* "rw":     a root filesystem with the label that asks for a writable device
\*           mounted as a directory (RwDir).
Flavors == {"remote", "layer", "rootfs", "view", "rw"}

Snapshot == [id : Ids, parent : Keys \cup {None}, flavor : Flavors,
             kind : {"active", "view", "committed"}]

Directory == [conf : Seq(Ids) \cup {None},
              data : {"none", "blob", "writable", "sealed"},
              mark : BOOLEAN, whole : BOOLEAN]

AllFaults == {"attach", "mark", "mount", "detach", "seal", "commit", "crash"}

ASSUME ModesAssumption == AutoRemoveDev \in BOOLEAN /\ AsyncRemove \in BOOLEAN
                          /\ Docker \in BOOLEAN /\ RemoveParents \in BOOLEAN
ASSUME RequestsAssumption ==
    \A q \in Requests : /\ q.key \in Keys
                        /\ q.parent \in Keys \cup {None}
                        /\ q.flavor \in Flavors
                        /\ q.name \in Keys
ASSUME NamesAssumption == Names \subseteq Keys \X Keys
ASSUME NoneAssumption ==
    /\ None \notin Keys \cup Ids \cup InitNames
    /\ None \notin Snapshot /\ None \notin Directory /\ None \notin Seq(Ids)
ASSUME BoundsAssumption == MaxFaults \in Nat /\ MaxId \in Nat /\ Faults \subseteq AllFaults

VARIABLES
    snaps,      \* committed metadata: the snapshot of each key, or None
    seq,        \* committed sequence: the last id given
    pc,         \* where the writer stands
    call,       \* what the writer works on
    wsnaps,     \* the writer's uncommitted metadata
    wseq,
    dir,        \* snapshots/<id>: its config, data and backstore mark, or None
    temp,       \* a snapshots/new-* directory exists
    dev,        \* the config with which each id's device is attached, or None
    mnt,        \* ids whose device is mounted on block/mountpoint
    rpc,        \* where each call of Mounts stands
    rkey,       \* the key it is about
    rsnaps,     \* the metadata its read transaction sees
    doomed,     \* directories Cleanup has listed and not removed yet
    given,      \* devices behind the mounts Prepare or View returned for a key
    handed,     \* devices behind the mounts last returned for a key
    use,        \* "none", "handed" or "mounted": what its client did with them
    faults      \* faults so far

store   == <<snaps, seq>>
writer  == <<pc, call, wsnaps, wseq>>
disk    == <<dir, temp>>
kernel  == <<dev, mnt>>
readers == <<rpc, rkey, rsnaps>>
client  == <<given, handed, use>>
vars == <<store, writer, disk, kernel, readers, doomed, client, faults>>

NoCall == [key |-> None, name |-> None, id |-> None, dev |-> None,
           locks |-> {}, removals |-> {}]

NoSnaps == [k \in Keys |-> None]

Init ==
    /\ snaps = NoSnaps /\ seq = 0
    /\ pc = "idle" /\ call = NoCall /\ wsnaps = NoSnaps /\ wseq = 0
    /\ dir = [i \in Ids |-> None] /\ temp = FALSE
    /\ dev = [i \in Ids |-> None] /\ mnt = {}
    /\ rpc = [r \in Readers |-> "idle"]
    /\ rkey = [r \in Readers |-> None]
    /\ rsnaps = [r \in Readers |-> NoSnaps]
    /\ doomed = {}
    /\ given = [k \in Keys |-> {}]
    /\ handed = [k \in Keys |-> {}]
    /\ use = [k \in Keys |-> "none"]
    /\ faults = 0

-----------------------------------------------------------------------------
(* Faults: the calls to the kernel and to the store that fail, and crashes. *)

Fault(f) == f \in Faults /\ faults < MaxFaults /\ faults' = faults + 1
NoFault  == UNCHANGED faults

-----------------------------------------------------------------------------
(* The metadata store (containerd's snapshots/storage).                     *)

Live(s)        == {k \in Keys : s[k] # None}
LiveIds(s)     == {s[k].id : k \in Live(s)}
Children(s, k) == {c \in Live(s) : s[c].parent = k}
Committed(s)   == {k \in Live(s) : s[k].kind = "committed"}

\* Mutant: a view does not count as a user of its parent.
OtherContainers(s, k, exclude) ==
    {c \in Children(s, k) \ {exclude} : s[c].kind = "active"}

\* checkIsParent: an active or view child of k other than the excluded one.
OtherUsers(s, k, exclude) ==
    {c \in Children(s, k) \ {exclude} : s[c].kind # "committed"}

ParentId(s, k) == IF s[k].parent = None THEN None ELSE s[s[k].parent].id

-----------------------------------------------------------------------------
(* Snapshot directories.                                                   *)

\* data: "none"; "blob", an unpacked overlaybd.commit; "writable", the
\* writable_data of an RwDir snapshot; "sealed", overlaybd.sealed.
\* whole: its fs and block/mountpoint directories are there.
NewDir == [conf |-> None, data |-> "none", mark |-> FALSE, whole |-> TRUE]

Conf(i) == IF dir[i] = None THEN None ELSE dir[i].conf
Data(i) == IF dir[i] = None THEN "none" ELSE dir[i].data
Marked(i) == dir[i] # None /\ dir[i].mark
Whole(i) == dir[i] # None /\ dir[i].whole

\* os.RemoveAll leaves the path of a mountpoint that is mounted.
Removed(i) == IF i \in mnt /\ dir[i] # None THEN [NewDir EXCEPT !.whole = FALSE]
              ELSE None

\* Mutant: the lowers of a config are listed from the top down.
StackedBelow(base, i) == <<i>> \o base

\* Mutant: the directory of the layer is counted from zero.
StackedFromZero(base, i) == Append(base, i - 1)

\* ConstructOverlayBDSpec: the parent's lowers, and this layer on top of them.
Stacked(base, i) == Append(base, i)

\* identifySnapshotStorageType: remote by its labels, local by its data file,
\* remote again if there is a config; otherwise a normal overlayfs layer.
IsBlock(i, flavor) == flavor = "remote" \/ Data(i) # "none" \/ Conf(i) # None

\* loadBackingStoreConfig of the parent of k, with which its own config begins.
BaseConf(s, k) == IF s[k].parent = None THEN <<>> ELSE Conf(ParentId(s, k))

\* getWritableType in Prepare: the label counts if the parent is overlaybd.
Writable(s, k) == s[k].flavor = "rw" /\ BaseConf(s, k) # None

ParentIsBlock(s, k) ==
    s[k].parent # None /\ IsBlock(ParentId(s, k), s[s[k].parent].flavor)

IsInitLayer(k)         == Docker /\ k \in InitKeys
IsContainerLayer(s, k) == Docker /\ s[k].parent \in InitNames

\* The image under the init layer of a docker container.
ImageDevice(s, k) ==
    LET init == s[k].parent
    IN  IF ParentIsBlock(s, init) THEN {ParentId(s, init)} ELSE {}

-----------------------------------------------------------------------------
(* Block devices.                                                          *)

\* checkOverlaybdInUse: an overlay mount has the mountpoint among its layers.
\* The bind mounts of a view and of an RwDir snapshot are not overlays.
Busy(i) == \E k \in Keys : /\ use[k] = "mounted" /\ i \in handed[k]
                           /\ snaps[k] # None /\ snaps[k].kind = "active"
                           /\ snaps[k].id # i

\* A device that a failed attempt left attached cannot be attached again, and
\* one whose config is missing cannot be enabled.
CanAttach(i) == dev[i] = None /\ Conf(i) # None

CanMount(i) == dev[i] # None /\ Whole(i)

Attached(i) == [dev EXCEPT ![i] = Conf(i)]
Detached(i) == [dev EXCEPT ![i] = None]

Marking(d, i) == [d EXCEPT ![i].mark = TRUE]

-----------------------------------------------------------------------------
(* The transaction of the writer.                                          *)

Finish == pc' = "idle" /\ call' = NoCall

Rollback == Finish /\ wsnaps' = snaps /\ wseq' = seq /\ UNCHANGED store

CommitTransaction ==
    Finish /\ snaps' = wsnaps /\ seq' = wseq /\ UNCHANGED <<wsnaps, wseq>>

\* createMountPoint fails after createSnapshot and before the commit.
AbandonPrepare ==
    /\ Rollback
    /\ dir' = [dir EXCEPT ![call.id] = Removed(call.id)]
    /\ UNCHANGED temp

-----------------------------------------------------------------------------
(* Prepare and View.                                                       *)

\* createSnapshot: a temporary directory, then the metadata. A request for a
\* key that exists or whose parent is not committed is refused and leaves no
\* trace.
BeginPrepare(q) ==
    /\ pc = "idle"
    /\ snaps[q.key] = None
    /\ q.parent \in Committed(snaps) \cup {None}
    /\ seq < MaxId
    /\ wseq' = seq + 1
    /\ wsnaps' = [snaps EXCEPT ![q.key] =
          [id |-> seq + 1, parent |-> q.parent, flavor |-> q.flavor,
           kind |-> IF q.flavor = "view" THEN "view" ELSE "active"]]
    /\ temp' = TRUE
    /\ pc' = "rename"
    /\ call' = [NoCall EXCEPT !.key = q.key, !.name = q.name, !.id = seq + 1]
    /\ UNCHANGED <<store, dir, kernel, readers, doomed, client, faults>>

\* Mutant: a directory that is left from before is replaced.
RenameOver ==
    /\ pc = "rename"
    /\ temp' = FALSE
    /\ dir' = [dir EXCEPT ![call.id] = NewDir]
    /\ pc' = "spec"
    /\ UNCHANGED <<store, call, wsnaps, wseq, kernel, readers, doomed, client,
                   faults>>

\* createSnapshot goes on: the temporary directory takes its final name. If a
\* directory of that name is there, or the parent's is not, the call fails; it
\* then removes the temporary directory, and the other one too.
RenameDirectory ==
    /\ pc = "rename"
    /\ temp' = FALSE
    /\ LET p == ParentId(wsnaps, call.key)
           parentThere == p = None \/ Whole(p)
       IN  IF parentThere /\ dir[call.id] = None
           THEN /\ dir' = [dir EXCEPT ![call.id] = NewDir]
                /\ pc' = "spec"
                /\ UNCHANGED <<store, call, wsnaps, wseq>>
           ELSE /\ dir' = [dir EXCEPT ![call.id] =
                              IF parentThere THEN Removed(call.id) ELSE @]
                /\ Rollback
    /\ UNCHANGED <<kernel, readers, doomed, client, faults>>

\* A remote layer is committed under its target name in the same transaction,
\* and its config is the parent's with this layer on top.
PrepareRemote ==
    /\ pc = "spec"
    /\ LET k == call.key
           base == BaseConf(wsnaps, k)
       IN  /\ wsnaps[k].flavor = "remote"
           /\ IF base # None /\ wsnaps[call.name] = None /\ Whole(call.id)
              THEN /\ wsnaps' = [wsnaps EXCEPT
                         ![k] = None,
                         ![call.name] = [wsnaps[k] EXCEPT !.kind = "committed"]]
                   /\ dir' = [dir EXCEPT ![call.id].conf = Stacked(base, call.id)]
                   /\ pc' = "commit"
                   /\ UNCHANGED <<store, call, wseq, temp>>
              ELSE AbandonPrepare
    /\ UNCHANGED <<kernel, readers, doomed, client, faults>>

\* A layer to be unpacked: nothing but a directory.
PrepareLayer ==
    /\ pc = "spec"
    /\ wsnaps[call.key].flavor = "layer"
    /\ pc' = "commit"
    /\ UNCHANGED <<store, call, wsnaps, wseq, disk, kernel, readers, doomed,
                   client, faults>>

IsRootfs == wsnaps[call.key].flavor \in {"rootfs", "view", "rw"}

\* The docker init layer attaches the image's device; the container layer
\* above it relies on that.
PrepareDockerLayer ==
    /\ pc = "spec"
    /\ IsRootfs
    /\ IF IsInitLayer(call.key) /\ ParentIsBlock(wsnaps, call.key)
       THEN /\ pc' = "attach"
            /\ call' = [call EXCEPT !.dev = ParentId(wsnaps, call.key)]
       ELSE /\ IsInitLayer(call.key) \/ IsContainerLayer(wsnaps, call.key)
            /\ pc' = "commit"
            /\ UNCHANGED call
    /\ UNCHANGED <<store, wsnaps, wseq, disk, kernel, readers, doomed, client,
                   faults>>

\* A root filesystem: a writable device of its own over the parent's lowers,
\* the device of an overlaybd parent, or a plain overlay of directories, which
\* drops the writable label.
PrepareRootfs ==
    /\ pc = "spec"
    /\ IsRootfs
    /\ ~IsInitLayer(call.key) /\ ~IsContainerLayer(wsnaps, call.key)
    /\ LET k == call.key
           p == ParentId(wsnaps, k)
           base == BaseConf(wsnaps, k)
       IN  IF Writable(wsnaps, k)
           THEN /\ dir' = [dir EXCEPT ![call.id] =
                              [NewDir EXCEPT !.conf = base, !.data = "writable",
                                             !.whole = Whole(call.id)]]
                /\ call' = [call EXCEPT !.dev = call.id]
                /\ pc' = "attach"
                /\ UNCHANGED <<store, wsnaps, wseq, temp>>
           ELSE IF ParentIsBlock(wsnaps, k)
           THEN IF base = None
                THEN AbandonPrepare
                ELSE /\ call' = [call EXCEPT !.dev = p]
                     /\ pc' = "attach"
                     /\ UNCHANGED <<store, wsnaps, wseq, disk>>
           ELSE /\ wsnaps' = [wsnaps EXCEPT ![k].flavor =
                                 IF @ = "rw" THEN "rootfs" ELSE @]
                /\ pc' = "commit"
                /\ UNCHANGED <<store, call, wseq, disk>>
    /\ UNCHANGED <<kernel, readers, doomed, client, faults>>

\* attachAndMountBlockDevice: nothing to do if the mountpoint is mounted.
AttachDevice ==
    /\ pc = "attach"
    /\ LET i == call.dev
       IN  IF i \in mnt
           THEN pc' = "commit" /\ UNCHANGED dev
           ELSE /\ CanAttach(i)
                /\ dev' = Attached(i)
                /\ pc' = "mark"
    /\ UNCHANGED <<store, call, wsnaps, wseq, disk, mnt, readers, doomed,
                   client, faults>>

AttachDeviceFails ==
    /\ pc = "attach"
    /\ call.dev \notin mnt
    /\ \/ ~CanAttach(call.dev) /\ NoFault
       \/ Fault("attach")
    /\ AbandonPrepare
    /\ UNCHANGED <<kernel, readers, doomed, client>>

\* The mark by which Remove knows of the device; no mark, and the device stays
\* attached.
MarkDevice ==
    /\ pc = "mark"
    /\ dir[call.dev] # None
    /\ dir' = Marking(dir, call.dev)
    /\ pc' = "mount"
    /\ UNCHANGED <<store, call, wsnaps, wseq, temp, kernel, readers, doomed,
                   client, faults>>

MarkDeviceFails ==
    /\ pc = "mark"
    /\ \/ dir[call.dev] = None /\ NoFault
       \/ Fault("mark")
    /\ AbandonPrepare
    /\ UNCHANGED <<kernel, readers, doomed, client>>

MountDevice ==
    /\ pc = "mount"
    /\ CanMount(call.dev)
    /\ mnt' = mnt \cup {call.dev}
    /\ pc' = "commit"
    /\ UNCHANGED <<store, call, wsnaps, wseq, disk, dev, readers, doomed,
                   client, faults>>

\* mkfs or all the mount attempts failed: the device stays attached.
MountDeviceFails ==
    /\ pc = "mount"
    /\ \/ ~CanMount(call.dev) /\ NoFault
       \/ Fault("mount")
    /\ AbandonPrepare
    /\ UNCHANGED <<kernel, readers, doomed, client>>

\* What the mounts that Prepare or View returns are served by.
PreparedDevices ==
    LET k == call.key
    IN  IF IsInitLayer(k) \/ wsnaps[k].flavor = "layer" THEN {}
        ELSE IF IsContainerLayer(wsnaps, k) THEN ImageDevice(wsnaps, k)
        ELSE IF call.dev = None THEN {} ELSE {call.dev}

CommitPrepare ==
    /\ pc = "commit"
    /\ CommitTransaction
    /\ IF wsnaps[call.key] = None
       THEN UNCHANGED client     \* a remote layer: ErrAlreadyExists, no mounts
       ELSE /\ given' = [given EXCEPT ![call.key] = PreparedDevices]
            /\ handed' = [handed EXCEPT ![call.key] = PreparedDevices]
            /\ use' = [use EXCEPT ![call.key] = "handed"]
    /\ UNCHANGED <<disk, kernel, readers, doomed, faults>>

\* The commit itself fails: the directory stays, a writable device is
\* unmounted and stays attached.
CommitPrepareFails ==
    /\ pc = "commit"
    /\ Fault("commit")
    /\ Rollback
    /\ mnt' = IF call.dev = call.id THEN mnt \ {call.id} ELSE mnt
    /\ UNCHANGED <<disk, dev, readers, doomed, client>>

-----------------------------------------------------------------------------
(* Mounts.                                                                 *)

\* Mutant: the parent's lock is taken first.
ParentLockFirst(r) ==
    LET s == rsnaps[r] k == rkey[r]
    IN  IF AutoRemoveDev /\ s[k].parent # None
        THEN <<ParentId(s, k), s[k].id>> ELSE <<>>

\* The ids whose locks call r of Mounts takes, one after the other.
ReaderLocks(r) ==
    LET s == rsnaps[r] k == rkey[r]
    IN  IF AutoRemoveDev /\ s[k].parent # None
        THEN <<s[k].id, ParentId(s, k)>> ELSE <<>>

\* It holds the first one while it waits for the second.
LockedByReader(i) ==
    \E r \in Readers :
        \/ rpc[r] = "lockParent" /\ i = ReaderLocks(r)[1]
        \/ /\ rpc[r] \in {"serve", "mark", "mount"}
           /\ i \in {ReaderLocks(r)[n] : n \in DOMAIN ReaderLocks(r)}

LockFree(i) == i \notin call.locks /\ ~LockedByReader(i)

BeginMounts(r, k) ==
    /\ rpc[r] = "idle"
    /\ snaps[k] # None /\ snaps[k].kind # "committed"
    /\ rpc' = [rpc EXCEPT ![r] = "lock"]
    /\ rkey' = [rkey EXCEPT ![r] = k]
    /\ rsnaps' = [rsnaps EXCEPT ![r] = snaps]
    /\ UNCHANGED <<store, writer, disk, kernel, doomed, client, faults>>

LockMounts(r) ==
    /\ rpc[r] = "lock"
    /\ IF ReaderLocks(r) = <<>>
       THEN rpc' = [rpc EXCEPT ![r] = "serve"]
       ELSE /\ LockFree(ReaderLocks(r)[1])
            /\ rpc' = [rpc EXCEPT ![r] = "lockParent"]
    /\ UNCHANGED <<store, writer, disk, kernel, rkey, rsnaps, doomed, client,
                   faults>>

LockMountsParent(r) ==
    /\ rpc[r] = "lockParent"
    /\ LockFree(ReaderLocks(r)[2])
    /\ rpc' = [rpc EXCEPT ![r] = "serve"]
    /\ UNCHANGED <<store, writer, disk, kernel, rkey, rsnaps, doomed, client,
                   faults>>

EndMounts(r) ==
    /\ rpc' = [rpc EXCEPT ![r] = "idle"]
    /\ rkey' = [rkey EXCEPT ![r] = None]
    /\ rsnaps' = [rsnaps EXCEPT ![r] = NoSnaps]

\* The call returns mounts served by the devices in D.
Return(r, D) ==
    /\ EndMounts(r)
    /\ IF snaps[rkey[r]] # rsnaps[r][rkey[r]] \/ call.key = rkey[r]
       THEN UNCHANGED client     \* its client asks, or asked, to remove it
       ELSE /\ handed' = [handed EXCEPT ![rkey[r]] = D]
            /\ use' = [use EXCEPT ![rkey[r]] = IF @ = "none" THEN "handed" ELSE @]
            /\ UNCHANGED given

\* Mutant: the mounts of a view are taken for those of a directory.
ContainerNeedsParent(r) ==
    LET s == rsnaps[r] k == rkey[r]
    IN  /\ s[k].kind = "active"
        /\ ~(s[k].flavor = "rw" /\ Conf(s[k].id) # None)
        /\ ParentIsBlock(s, k)

\* The device of the parent serves the mounts, and must be attached first.
NeedsParent(r) ==
    LET s == rsnaps[r] k == rkey[r]
    IN  /\ ~(s[k].flavor = "rw" /\ Conf(s[k].id) # None)
        /\ ParentIsBlock(s, k)

\* The mounts that need nothing: those of a snapshot without parent, of a
\* writable device, which Prepare has attached, of a docker container, whose
\* init layer has attached the image, and of plain directories.
MountsOfDirectory(r) ==
    /\ rpc[r] = "serve"
    /\ LET s == rsnaps[r] k == rkey[r]
       IN  /\ ~NeedsParent(r)
           /\ Return(r, IF s[k].parent = None THEN {}
                        ELSE IF s[k].flavor = "rw" /\ Conf(s[k].id) # None
                        THEN {s[k].id}
                        ELSE IF IsContainerLayer(s, k) THEN ImageDevice(s, k)
                        ELSE {})
    /\ UNCHANGED <<store, writer, disk, kernel, doomed, faults>>

MountsAttach(r) ==
    /\ rpc[r] = "serve"
    /\ NeedsParent(r)
    /\ LET i == ParentId(rsnaps[r], rkey[r])
       IN  IF i \in mnt
           THEN Return(r, {i}) /\ UNCHANGED dev
           ELSE /\ CanAttach(i)
                /\ dev' = Attached(i)
                /\ rpc' = [rpc EXCEPT ![r] = "mark"]
                /\ UNCHANGED <<rkey, rsnaps, client>>
    /\ UNCHANGED <<store, writer, disk, mnt, doomed, faults>>

MountsAttachFails(r) ==
    /\ rpc[r] = "serve"
    /\ NeedsParent(r)
    /\ LET i == ParentId(rsnaps[r], rkey[r])
       IN  /\ i \notin mnt
           /\ \/ ~CanAttach(i) /\ NoFault
              \/ Fault("attach")
    /\ EndMounts(r)
    /\ UNCHANGED <<store, writer, disk, kernel, doomed, client>>

MountsMark(r) ==
    /\ rpc[r] = "mark"
    /\ LET i == ParentId(rsnaps[r], rkey[r])
       IN  dir[i] # None /\ dir' = Marking(dir, i)
    /\ rpc' = [rpc EXCEPT ![r] = "mount"]
    /\ UNCHANGED <<store, writer, temp, kernel, rkey, rsnaps, doomed, client,
                   faults>>

MountsMarkFails(r) ==
    /\ rpc[r] = "mark"
    /\ \/ dir[ParentId(rsnaps[r], rkey[r])] = None /\ NoFault
       \/ Fault("mark")
    /\ EndMounts(r)
    /\ UNCHANGED <<store, writer, disk, kernel, doomed, client>>

MountsMount(r) ==
    /\ rpc[r] = "mount"
    /\ LET i == ParentId(rsnaps[r], rkey[r])
       IN  CanMount(i) /\ mnt' = mnt \cup {i} /\ Return(r, {i})
    /\ UNCHANGED <<store, writer, disk, dev, doomed, faults>>

MountsMountFails(r) ==
    /\ rpc[r] = "mount"
    /\ \/ ~CanMount(ParentId(rsnaps[r], rkey[r])) /\ NoFault
       \/ Fault("mount")
    /\ EndMounts(r)
    /\ UNCHANGED <<store, writer, disk, kernel, doomed, client>>

-----------------------------------------------------------------------------
(* Commit.                                                                 *)

\* The client of a snapshot does not use its mounts any more.
GiveUp(k) ==
    /\ handed' = [handed EXCEPT ![k] = {}]
    /\ use' = [use EXCEPT ![k] = "none"]
    /\ UNCHANGED given

\* A client commits a snapshot that it no longer has mounted.
BeginCommit(k, n) ==
    /\ pc = "idle"
    /\ snaps[k] # None /\ snaps[k].kind = "active" /\ use[k] # "mounted"
    /\ pc' = "seal"
    /\ call' = [NoCall EXCEPT !.key = k, !.name = n, !.id = snaps[k].id]
    /\ GiveUp(k)
    /\ UNCHANGED <<store, wsnaps, wseq, disk, kernel, readers, doomed, faults>>

HasWritable == wsnaps[call.key].flavor = "rw" /\ Conf(call.id) # None

\* The writable device is detached and its data sealed in place.
SealWritable ==
    /\ pc = "seal"
    /\ IF HasWritable
       THEN /\ Data(call.id) = "writable"
            /\ mnt' = mnt \ {call.id}
            /\ dev' = Detached(call.id)
            /\ dir' = [dir EXCEPT ![call.id].data = "sealed"]
       ELSE UNCHANGED <<kernel, dir>>
    /\ pc' = "metadata"
    /\ UNCHANGED <<store, call, wsnaps, wseq, temp, readers, doomed, client,
                   faults>>

\* The unmount or the detach fails.
DetachWritableFails ==
    /\ pc = "seal"
    /\ HasWritable
    /\ Fault("detach")
    /\ mnt' \in {mnt, mnt \ {call.id}}
    /\ Rollback
    /\ UNCHANGED <<disk, dev, readers, doomed, client>>

\* Nothing left to seal, or the seal fails, with the device detached already.
SealWritableFails ==
    /\ pc = "seal"
    /\ HasWritable
    /\ \/ Data(call.id) # "writable" /\ NoFault
       \/ Fault("seal")
    /\ mnt' = mnt \ {call.id}
    /\ dev' = Detached(call.id)
    /\ Rollback
    /\ UNCHANGED <<disk, readers, doomed, client>>

\* The snapshot becomes the committed snapshot of the given name. If there is
\* local overlaybd data the config of the layer is written: the parent's, with
\* this layer on top.
CommitMetadata ==
    /\ pc = "metadata"
    /\ LET k == call.key
           base == BaseConf(wsnaps, k)
           block == Data(call.id) # "none"
       IN  IF wsnaps[call.name] = None /\ Whole(call.id)
              /\ (block => base # None)
           THEN /\ wsnaps' = [wsnaps EXCEPT
                      ![k] = None,
                      ![call.name] = [wsnaps[k] EXCEPT
                          !.kind = "committed",
                          !.flavor = IF block /\ @ = "rw" THEN "layer" ELSE @]]
                /\ dir' = IF block
                          THEN [dir EXCEPT ![call.id].conf = Stacked(base, call.id)]
                          ELSE dir
                /\ pc' = "publish"
                /\ UNCHANGED <<store, call, wseq>>
           ELSE Rollback /\ UNCHANGED dir
    /\ UNCHANGED <<temp, kernel, readers, doomed, client, faults>>

CommitCommit ==
    /\ pc = "publish"
    /\ CommitTransaction
    /\ given' = [given EXCEPT ![call.key] = {}]
    /\ UNCHANGED <<disk, kernel, readers, doomed, handed, use, faults>>

CommitCommitFails ==
    /\ pc = "publish"
    /\ Fault("commit")
    /\ Rollback
    /\ UNCHANGED <<disk, kernel, readers, doomed, client>>

-----------------------------------------------------------------------------
(* Remove.                                                                 *)

\* A client removes a snapshot that it no longer has mounted. containerd's own
\* metadata refuses to remove one with children before it asks the snapshotter.
BeginRemove(k) ==
    /\ pc = "idle"
    /\ snaps[k] # None /\ use[k] # "mounted"
    /\ RemoveParents \/ Children(snaps, k) = {}
    /\ pc' = "ownDevice"
    /\ call' = [NoCall EXCEPT !.key = k, !.id = snaps[k].id]
    /\ GiveUp(k)
    /\ UNCHANGED <<store, wsnaps, wseq, disk, kernel, readers, doomed, faults>>

\* Mutant: the device is unmounted and stays attached.
OwnDeviceUnmounted ==
    /\ pc = "ownDevice"
    /\ pc' = "dockerDevice"
    /\ mnt' = mnt \ {call.id}
    /\ UNCHANGED <<store, call, wsnaps, wseq, disk, dev, readers, doomed, client,
                   faults>>

\* UnmountAndDetachBlockDevice of the snapshot's own device.
RemoveOwnDevice ==
    /\ pc = "ownDevice"
    /\ pc' = "dockerDevice"
    /\ IF IsBlock(call.id, wsnaps[call.key].flavor) /\ Marked(call.id)
          /\ ~Busy(call.id)
       THEN mnt' = mnt \ {call.id} /\ dev' = Detached(call.id)
       ELSE UNCHANGED kernel
    /\ UNCHANGED <<store, call, wsnaps, wseq, disk, readers, doomed, client,
                   faults>>

RemoveOwnDeviceFails ==
    /\ pc = "ownDevice"
    /\ IsBlock(call.id, wsnaps[call.key].flavor) /\ Marked(call.id)
    /\ ~Busy(call.id)
    /\ Fault("detach")
    /\ mnt' \in {mnt, mnt \ {call.id}}
    /\ Rollback
    /\ UNCHANGED <<disk, dev, readers, doomed, client>>

\* RemoveDockerLayer: the device of the image under an init layer is detached
\* unless it is busy or another active snapshot has the image as its parent.
RemovesImageDevice ==
    LET k == call.key
        p == ParentId(wsnaps, k)
    IN  /\ IsInitLayer(k) /\ ParentIsBlock(wsnaps, k) /\ Marked(p)
        /\ LockFree(p)
        /\ ~Busy(p)
        /\ OtherUsers(wsnaps, wsnaps[k].parent, k) = {}

\* Mutant: the device is detached under its mount.
DockerDeviceNotUnmounted ==
    /\ pc = "dockerDevice"
    /\ IF RemovesImageDevice
       THEN dev' = Detached(ParentId(wsnaps, call.key))
       ELSE UNCHANGED dev
    /\ pc' = "lockOwn"
    /\ UNCHANGED <<store, call, wsnaps, wseq, disk, mnt, readers, doomed, client,
                   faults>>

RemoveDockerDevice ==
    /\ pc = "dockerDevice"
    /\ LET k == call.key
           p == ParentId(wsnaps, k)
       IN  /\ IsInitLayer(k) /\ wsnaps[k].parent # None => LockFree(p)
           /\ IF RemovesImageDevice
              THEN mnt' = mnt \ {p} /\ dev' = Detached(p)
              ELSE UNCHANGED kernel
    /\ pc' = "lockOwn"
    /\ UNCHANGED <<store, call, wsnaps, wseq, disk, readers, doomed, client,
                   faults>>

\* A failure to detach it is logged and Remove goes on.
RemoveDockerDeviceFails ==
    /\ pc = "dockerDevice"
    /\ Fault("detach")
    /\ RemovesImageDevice
    /\ mnt' \in {mnt, mnt \ {ParentId(wsnaps, call.key)}}
    /\ pc' = "lockOwn"
    /\ UNCHANGED <<store, call, wsnaps, wseq, disk, dev, readers, doomed, client>>

\* autoRemoveDev: the device of the parent goes with its last active child.
RemovesParentDevice ==
    /\ AutoRemoveDev
    /\ wsnaps[call.key].kind = "active" /\ wsnaps[call.key].parent # None

LockOwnId ==
    /\ pc = "lockOwn"
    /\ IF RemovesParentDevice
       THEN /\ LockFree(call.id)
            /\ call' = [call EXCEPT !.locks = {call.id}]
            /\ pc' = "lockParent"
       ELSE pc' = "removeMetadata" /\ UNCHANGED call
    /\ UNCHANGED <<store, wsnaps, wseq, disk, kernel, readers, doomed, client,
                   faults>>

LockParentId ==
    /\ pc = "lockParent"
    /\ LET p == ParentId(wsnaps, call.key)
       IN  LockFree(p) /\ call' = [call EXCEPT !.locks = @ \cup {p}]
    /\ pc' = "parentDevice"
    /\ UNCHANGED <<store, wsnaps, wseq, disk, kernel, readers, doomed, client,
                   faults>>

ParentDeviceUnused ==
    LET k == call.key p == ParentId(wsnaps, k)
    IN  /\ IsBlock(p, wsnaps[k].flavor) /\ ~Busy(p)
        /\ OtherUsers(wsnaps, wsnaps[k].parent, k) = {}

RemoveParentDevice ==
    /\ pc = "parentDevice"
    /\ LET p == ParentId(wsnaps, call.key)
       IN  IF ParentDeviceUnused
           THEN mnt' = mnt \ {p} /\ dev' = Detached(p)
           ELSE UNCHANGED kernel
    /\ pc' = "removeMetadata"
    /\ UNCHANGED <<store, call, wsnaps, wseq, disk, readers, doomed, client,
                   faults>>

RemoveParentDeviceFails ==
    /\ pc = "parentDevice"
    /\ ParentDeviceUnused
    /\ Fault("detach")
    /\ mnt' \in {mnt, mnt \ {ParentId(wsnaps, call.key)}}
    /\ Rollback
    /\ UNCHANGED <<disk, dev, readers, doomed, client>>

\* Mutant: only committed snapshots count as being in the metadata.
NotCommitted(s) ==
    {i \in Ids : dir[i] # None} \ {s[k].id : k \in Committed(s)}

\* getCleanupDirectories: what is on disk and not in the metadata.
Orphans(s) == {i \in Ids : dir[i] # None} \ LiveIds(s)

\* A snapshot whose mountpoint is mounted is not removed, nor one with children.
RemoveMetadata ==
    /\ pc = "removeMetadata"
    /\ IF call.id \in mnt \/ Children(wsnaps, call.key) # {}
       THEN Rollback
       ELSE /\ wsnaps' = [wsnaps EXCEPT ![call.key] = None]
            /\ call' = [call EXCEPT !.removals =
                           IF AsyncRemove THEN {} ELSE Orphans(wsnaps')]
            /\ pc' = "removeDirectories"
            /\ UNCHANGED <<store, wseq>>
    /\ UNCHANGED <<disk, kernel, readers, doomed, client, faults>>

\* The deferred calls run in reverse: first the directories, then the locks,
\* last the commit of the transaction.
RemoveDirectories ==
    /\ pc = "removeDirectories"
    /\ dir' = [i \in Ids |-> IF i \in call.removals THEN Removed(i) ELSE dir[i]]
    /\ temp' = (temp /\ AsyncRemove)
    /\ call' = [call EXCEPT !.locks = {}]
    /\ pc' = "removeCommit"
    /\ UNCHANGED <<store, wsnaps, wseq, kernel, readers, doomed, client, faults>>

\* Remove returns nil whether or not the transaction commits.
CommitRemove ==
    /\ pc = "removeCommit"
    /\ CommitTransaction
    /\ given' = [given EXCEPT ![call.key] = {}]
    /\ UNCHANGED <<disk, kernel, readers, doomed, handed, use, faults>>

CommitRemoveFails ==
    /\ pc = "removeCommit"
    /\ Fault("commit")
    /\ Rollback
    /\ UNCHANGED <<disk, kernel, readers, doomed, client>>

-----------------------------------------------------------------------------
(* Cleanup.                                                                *)

\* Mutant: the scan runs outside of the write transaction.
ScanBesideWriter ==
    /\ doomed = {}
    /\ Orphans(snaps) # {} \/ temp
    /\ doomed' = Orphans(snaps)
    /\ temp' = FALSE
    /\ UNCHANGED <<store, writer, dir, kernel, readers, client, faults>>

\* The scan holds the write transaction; the removals come after it. That of a
\* temporary directory, whose name nothing uses again, is part of the scan here.
ScanOrphans ==
    /\ pc = "idle"
    /\ doomed = {}
    /\ Orphans(snaps) # {} \/ temp
    /\ doomed' = Orphans(snaps)
    /\ temp' = FALSE
    /\ UNCHANGED <<store, writer, dir, kernel, readers, client, faults>>

\* Mutant: the removal of a directory fails and is forgotten.
ForgetDoomed(i) ==
    /\ i \in doomed
    /\ doomed' = doomed \ {i}
    /\ UNCHANGED <<store, writer, disk, kernel, readers, client, faults>>

RemoveDoomed(i) ==
    /\ i \in doomed
    /\ doomed' = doomed \ {i}
    /\ dir' = [dir EXCEPT ![i] = Removed(i)]
    /\ UNCHANGED <<store, writer, temp, kernel, readers, client, faults>>

-----------------------------------------------------------------------------
(* Clients, and the process.                                               *)

\* The client unpacks an overlaybd blob into the layer it prepared.
ClientUnpack(k) ==
    /\ k \in Unpacked
    /\ pc = "idle"
    /\ snaps[k] # None /\ snaps[k].flavor = "layer" /\ snaps[k].kind = "active"
    /\ dir[snaps[k].id] # None /\ Data(snaps[k].id) = "none"
    /\ dir' = [dir EXCEPT ![snaps[k].id].data = "blob"]
    /\ UNCHANGED <<store, writer, temp, kernel, readers, doomed, client, faults>>

ClientMount(k) ==
    /\ snaps[k] # None /\ use[k] = "handed" /\ call.key # k
    /\ use' = [use EXCEPT ![k] = "mounted"]
    /\ UNCHANGED <<store, writer, disk, kernel, readers, doomed, given, handed,
                   faults>>

ClientUnmount(k) ==
    /\ use[k] = "mounted"
    /\ use' = [use EXCEPT ![k] = "none"]
    /\ handed' = [handed EXCEPT ![k] = {}]
    /\ UNCHANGED <<store, writer, disk, kernel, readers, doomed, given, faults>>

\* The process dies and starts again. The kernel and the disk keep what they
\* have; a transaction that did not commit is gone.
Crash ==
    /\ Fault("crash")
    /\ Rollback
    /\ rpc' = [r \in Readers |-> "idle"]
    /\ rkey' = [r \in Readers |-> None]
    /\ rsnaps' = [r \in Readers |-> NoSnaps]
    /\ doomed' = {}
    /\ UNCHANGED <<disk, kernel, client>>

-----------------------------------------------------------------------------

PrepareStep ==
    \/ RenameDirectory \/ PrepareRemote \/ PrepareLayer \/ PrepareDockerLayer
    \/ PrepareRootfs \/ AttachDevice \/ AttachDeviceFails \/ MarkDevice
    \/ MarkDeviceFails \/ MountDevice \/ MountDeviceFails
    \/ CommitPrepare \/ CommitPrepareFails

CommitStep ==
    \/ SealWritable \/ DetachWritableFails \/ SealWritableFails \/ CommitMetadata
    \/ CommitCommit \/ CommitCommitFails

RemoveStep ==
    \/ RemoveOwnDevice \/ RemoveOwnDeviceFails \/ RemoveDockerDevice
    \/ RemoveDockerDeviceFails \/ LockOwnId \/ LockParentId
    \/ RemoveParentDevice \/ RemoveParentDeviceFails \/ RemoveMetadata
    \/ RemoveDirectories \/ CommitRemove \/ CommitRemoveFails

MountsStep(r) ==
    \/ LockMounts(r) \/ LockMountsParent(r) \/ MountsOfDirectory(r)
    \/ MountsAttach(r) \/ MountsAttachFails(r) \/ MountsMark(r)
    \/ MountsMarkFails(r) \/ MountsMount(r) \/ MountsMountFails(r)

WriterStep == PrepareStep \/ CommitStep \/ RemoveStep

Next ==
    \/ WriterStep
    \/ \E q \in Requests : BeginPrepare(q)
    \/ \E m \in Names : BeginCommit(m[1], m[2])
    \/ \E k \in Keys : BeginRemove(k) \/ ClientUnpack(k) \/ ClientMount(k)
                       \/ ClientUnmount(k)
    \/ \E r \in Readers : MountsStep(r)
    \/ \E r \in Readers, k \in Keys : BeginMounts(r, k)
    \/ ScanOrphans
    \/ \E i \in Ids : RemoveDoomed(i)
    \/ Crash

Safety == Init /\ [][Next]_vars

\* Every call goes on. A lock is all that holds one up, and as Go's mutexes do not
\* starve a waiter, a call that could go on again and again does go on.
Fairness ==
    /\ SF_vars(WriterStep)
    /\ \A r \in Readers : SF_vars(MountsStep(r))
    /\ SF_vars(ScanOrphans)
    /\ \A i \in Ids : WF_vars(RemoveDoomed(i))

Spec == Safety /\ Fairness

-----------------------------------------------------------------------------

Steps == {"idle", "rename", "spec", "attach", "mark", "mount", "commit", "seal",
          "metadata", "publish", "ownDevice", "dockerDevice", "lockOwn",
          "lockParent", "parentDevice", "removeMetadata", "removeDirectories",
          "removeCommit"}

Call == [key : Keys \cup {None}, name : Keys \cup {None},
         id : Ids \cup {None}, dev : Ids \cup {None},
         locks : SUBSET Ids, removals : SUBSET Ids]

\* Each variable stays in its range: metadata, directories, devices and mounts name
\* ids from 1 on, within the bound.
TypeOK ==
    /\ snaps \in [Keys -> Snapshot \cup {None}]
    /\ seq \in 0 .. MaxId
    /\ pc \in Steps
    /\ call \in Call
    /\ wsnaps \in [Keys -> Snapshot \cup {None}]
    /\ wseq \in 0 .. MaxId
    /\ dir \in [Ids -> Directory \cup {None}]
    /\ temp \in BOOLEAN
    /\ dev \in [Ids -> Seq(Ids) \cup {None}] /\ mnt \subseteq Ids
    /\ rpc \in [Readers -> {"idle", "lock", "lockParent", "serve", "mark", "mount"}]
    /\ rkey \in [Readers -> Keys \cup {None}]
    /\ rsnaps \in [Readers -> [Keys -> Snapshot \cup {None}]]
    /\ doomed \subseteq Ids
    /\ given \in [Keys -> SUBSET Ids]
    /\ handed \in [Keys -> SUBSET Ids]
    /\ use \in [Keys -> {"none", "handed", "mounted"}]
    /\ faults \in 0 .. MaxFaults

\* A listed snapshot has its directory (the comment on the snapshotter struct,
\* "snapshots stores each snapshot's data in unique folder"), whatever Remove
\* and Cleanup delete beside it.
LiveHasDir == \A k \in Live(snaps) : k = call.key \/ Whole(snaps[k].id)

\* The device of a committed overlaybd layer stacks the layers of its chain, in
\* their order and each once: its config is its parent's with itself on top.
ChainConfig ==
    \A k \in Committed(snaps) :
        k # call.key /\ IsBlock(snaps[k].id, snaps[k].flavor)
            => /\ BaseConf(snaps, k) # None
               /\ Conf(snaps[k].id) = Append(BaseConf(snaps, k), snaps[k].id)

\* The devices behind the mounts that a client holds are mounted, whatever is
\* removed, prepared or committed beside it.
ServedDevices == \A k \in Live(snaps) : handed[k] \subseteq mnt

\* What is mounted on the mountpoint of a snapshot's directory is the device of
\* that directory's config, although ids are given again after a rollback: a
\* mount never shows the layers of an earlier snapshot.
MountsAreCurrent == \A i \in mnt : Whole(i) => dev[i] = Conf(i)

\* Mounts recovers what Prepare or View returned.
RecoverMounts ==
    \A k \in Live(snaps) : use[k] # "none" => handed[k] = given[k]

\* What Cleanup is about to delete belongs to no snapshot.
CleanupSparesLive == doomed \cap LiveIds(snaps) = {}

\* An attached device belongs to a snapshot, or to one that is being made.
DeviceHasSnapshot ==
    \A i \in Ids : dev[i] # None => i \in LiveIds(snaps) \cup {call.id}

\* Every call of Prepare, View, Commit, Remove and Mounts ends.
CallsEnd ==
    /\ (pc # "idle") ~> (pc = "idle")
    /\ \A r \in Readers : (rpc[r] # "idle") ~> (rpc[r] = "idle")

\* The directory of a snapshot that is gone goes too.
OrphansRemoved ==
    \A i \in Ids : (i \in Orphans(snaps)) ~> (i \notin Orphans(snaps))
=============================================================================
