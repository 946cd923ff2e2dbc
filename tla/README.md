# Models of the accelerated container image components

This directory holds TLA+ models of the parts of this repository that keep state
and run concurrently: the overlaybd **snapshotter** with its block devices
(`pkg/snapshot`, `cmd/overlaybd-attacher`), the **image convertor**
(`cmd/convertor`), the **stand-alone conversion** (`pkg/convertor`,
`ctr obdconv`) and **trace recording** (`ctr record-trace`). The models are
checked with TLC on small instances, and every invariant among the results is
proved with TLAPS for every size. Paths
below are relative to the repository.

## 1. Inventory

### Parts, their state and their operations

| Part | State | Operations | Module |
|---|---|---|---|
| Snapshotter, `pkg/snapshot/overlay.go` | metadata in containerd's transactional store (key, id, parent, kind, labels); `snapshots/<id>` directories with a config, data files and a backstore mark; per-id locks | Prepare, View, Mounts, Commit, Remove, Cleanup; Stat, Update, Usage, Walk | `Snapshotter` |
| Block devices, `pkg/snapshot/storage.go` | TCMU backstores and loopback LUNs in configfs; mounts on `block/mountpoint` | AttachDevice, DetachDevice, attachAndMountBlockDevice, UnmountAndDetachBlockDevice, ConstructOverlayBDSpec, updateSpec | `BlockDevice` (one step per operation on configfs), `Snapshotter` (one step per call) |
| Attacher, `cmd/overlaybd-attacher` | none | attach with five attempts, detach | `BlockDevice` |
| Docker runtime, `pkg/snapshot/docker.go` | none of its own; recognises keys with `-init-key` and `-init` | PrepareDockerLayer, RemoveDockerLayer, dockerContainerLayerMount | `Snapshotter` |
| Layer pipeline, `cmd/convertor/builder/builder.go` (`overlaybdBuilder.Build`) and `overlaybd_builder.go` | three unbuffered channels per layer, an errgroup; the engine's lowers, descriptors and working directory | check, deduplicate, download, build, upload, publish, store, clean up | `LayerPipeline`, `ConversionContract` |
| Graph builder, `builder.go` (`graphBuilder`) | one errgroup over all descriptors of an image, a semaphore, the index under construction | Build, process, buildOne | `GraphBuild` |
| Deduplication database, `cmd/convertor/database` | layer and manifest rows per repository | get, create, delete | inside `LayerPipeline` (rows of one repository; what others hold is `Known` and `OldRows`) |
| turboOCI engine, `turboOCI_builder.go` | archive and metadata file of each layer in the working directory; its own lowers and descriptors | the engine interface without deduplication | `LayerPipeline` (`turbo`) |
| Stand-alone conversion, `pkg/convertor` (`ctr obdconv`) | the layers of one conversion; committed snapshots, the blobs of registries, the table `overlaybd_layers` | findRemote, convertLayers, applyOCIV1LayerInObd, sentToRemote, commitImage | `StandaloneConvert` |
| Trace recording, `cmd/ctr/record_trace.go` | a container, a task, a timer, signal handlers, a trace file and its lock | the action, watchThread, preventTaskHang, collectTrace | `RecordTrace` |
| `ctr rpull`, flags and gRPC set-up of the entry points, metrics, labels, idmap, disk quota, utilities | configuration, counters | | not modelled |
| overlaybd-tcmu, configfs, containerd, the registry, the overlaybd tools | outside of the repository | used by the above | external steps |

### How they interact

containerd and docker call the snapshotter over gRPC. Write transactions of the
metadata store are exclusive, so Prepare, View, Commit, Remove and the scan of
Cleanup never overlap; Mounts runs in read transactions beside them, and the
removals of Cleanup run outside of any transaction. Directories, devices and
mounts are changed as each call proceeds and are *not* part of the transaction:
every failure path has to undo them by hand, and a crash undoes nothing. The
config of a layer is derived from its parent's config on disk; overlaybd-tcmu
reads it when the device is attached.

In the convertor, `graphBuilder` runs one goroutine per descriptor of an index
and one `overlaybdBuilder.Build` per manifest; that in turn runs four goroutines
per layer. Deduplication talks to download over `alreadyConverted`, download to
convert over `downloaded`, and convert to both upload and the next layer's
convert over `converted`. An error cancels the errgroup's context, and the
deferred `close` of each channel releases its readers. The working directory,
the registry and the database outlive the process.

`ctr obdconv` converts through the snapshotter of its host: each layer is
prepared over the last one, unpacked and committed, or, if the table names a
blob for its chain, prepared as a remote layer. `ctr record-trace` runs a
container whose snapshot is labelled so that the device records what is read.
The snapshotter and overlaybd-attacher set up devices by writing configfs, and
nothing but the kernel orders them.

### What is hard

* Ids given out by a transaction that is rolled back are given again, while
  directories, devices and mounts of the first use may still be there.
* Device lifetime depends on three sources that can disagree: the metadata, the
  mount table and the mark file.
* Mounts races with Remove; with `autoRemoveDev` two per-id locks order them, which
  each of them takes one after the other, Remove inside the write transaction.
* The deferred calls of Remove delete directories before the commit.
* A channel closed by a failing goroutine looks like a ready layer until the
  context is cancelled.
* `wg.Done` of a manifest runs before the errgroup knows its error.
* The engine's `overlaybdConfig` is shared by all layers without a lock.
* The semaphore of `buildOne` may keep tokens, or lose those of others, once the
  context is cancelled.
* SIGINT ends the convertor by `os.Exit`: no deferred call runs.
* Two callers may set up one device at once, each ready to take down what it
  believes to be its own; any of them may die between two writes.
* The stand-alone conversion names what it builds by the source layer alone, and
  several commands share snapshots, blobs and rows.
* In record-trace a timer, a signal and the end of the task race for one select.

The full list, with lines, is under `hazards` in `PROJECT.json`.

## 2. The modules

### `LayerPipeline` (with `ConversionContract`, `MCLayerPipeline`)

One manifest of `N` layers. `dedup`, `dl`, `cv`, `up` are the program counters
of the four goroutines of each layer, `main` that of Build. A send and its
receive on an unbuffered channel are one joint action (`OfferCached`,
`SendDownloaded`, `ParentConverted`, `ConvertedReceived`); a closed channel is
the state of the goroutine that closes it (`ClosedDownloaded`, ...). The engine's
calls are actions with a success and a failure disjunct: `DownloadLayer`,
`DownloadConvertedLayer`, `PrepareLayer` and `ApplyAndCommit` (together
BuildLayer), `UploadLayer`, `UploadImage`, and the database calls. `RecordError`
is the moment at which the errgroup sees an error, which is *later* than the
deferred close; `CancelOuter` is the cancellation by another manifest of the
index; `Restart` is `os.Exit` at any point followed by another run in the same
working directory.

`turbo` says which of the two engines Build drives, and `Outputs` which images the
command is to make: with both, `NextOutput` runs Build again with the turboOCI
engine, as `main.go` does, once the overlaybd image is done. The goroutines and
channels are the same; the engines differ in `PrepareLayer` (turboOCI does not look
for a commit file), in `ApplyAndCommit` against `ApplyAndArchive` (turboOCI renames
the commit file, packs it, keeps the tar and always drops the writable layer), in
`LayerFile` (what is uploaded) and in `UsesDatabase` (turboOCI has no
deduplication). `EnterBuild` says what of the working directory the next engine can
use: a tar that one engine has unpacked is not what the other one stores, and a
writable layer made for one is not a new one for the other.

Before the goroutines start, `CheckForConvertedManifest` reads the row of the
repository, and `MountConvertedManifest` is the search of the others with mountImage:
it mounts the blobs of a converted image one by one, pushes its manifest and inserts
the row, and whatever of that fails leaves what was mounted before. The layers that
other repositories and the database know already are `Known`, of the qualities
`OldRows`.

Files, blobs and rows are reduced to "absent", "good" (what converting this layer
yields) and "bad". `ApplyAndCommit` yields "good" only if the tar is the verified
one, the writable layer is fresh, and the lowers are the predecessors in order,
each intact. A push that fails may have reached the registry.

`ConversionContract` is the abstract specification: the tag is left alone or made
to name an intact image, success needs the latter, and the outcome is final.
`ImplementsContract` states the refinement, once for each image (`Overlaybd`,
`TurboOCI`), with the outcome read off `turbo`, `main` and `result`.

### `GraphBuild` (with `MCGraphBuild`)

The tree of descriptors of an image is a constant. `pc` has one goroutine per
descriptor. A manifest is converted by one action that has the two outcomes
`ConversionContract` allows. `FinishProcess` is the assignment to
`index.Manifests[i]` and the deferred `wg.Done`; `RecordError` is what the
errgroup does afterwards. `PushIndex` pushes what is listed at that time. A
failing push may have reached the registry.

### `Snapshotter` (with `MCSnapshotter`)

`snaps` and `seq` are the committed metadata; `wsnaps` and `wseq` the view of the
one write transaction, whose position is `pc` and whose operands are `call`.
`dir`, `dev` and `mnt` are the directories, attached devices (each with the
config it was attached with) and mountpoints per id. Calls of Mounts are
`Readers`, each with its snapshot of the metadata. `doomed` is what Cleanup has
listed and not removed yet. `given`, `handed` and `use` record what clients were
given and whether they have mounted it; checkOverlaybdInUse reads the mount table,
so it only sees the latter.

| Call | Actions |
|---|---|
| Prepare, View | `BeginPrepare`, `RenameDirectory`, then `PrepareRemote`, `PrepareLayer`, `PrepareDockerLayer` or `PrepareRootfs`, then `AttachDevice`, `MarkDevice`, `MountDevice`, `CommitPrepare`, and their failures |
| Mounts | `BeginMounts`, `LockMounts` and `LockMountsParent` (one id each), then `MountsOfDirectory`, or `MountsAttach`, `MountsMark` and `MountsMount`, and their failures |
| Commit | `BeginCommit`, `SealWritable`, `CommitMetadata`, `CommitCommit`, and their failures (`DetachWritableFails` and `SealWritableFails` for the two halves of the seal) |
| Remove | `BeginRemove`, `RemoveOwnDevice`, `RemoveDockerDevice`, `LockOwnId` and `LockParentId`, `RemoveParentDevice`, `RemoveMetadata`, `RemoveDirectories`, `CommitRemove`, and their failures |
| Cleanup | `ScanOrphans`, `RemoveDoomed` |
| clients, process | `ClientUnpack`, `ClientMount`, `ClientUnmount`, `Crash` |

A request has a *flavor*, which stands for the labels the code branches on:
"remote" (targetSnapshotRef of an overlaybd layer), "layer" (a layer to unpack),
"rootfs", "view" and "rw" (the label for a writable device in mode dir).

Taken from outside of the repository: the store gives back ids of a rolled-back
transaction (bolt's bucket sequence is part of the transaction); a backstore that
is enabled cannot be enabled a second time; os.RemoveAll cannot remove a
directory on which something is mounted, but removes what is beside it; a
container is unmounted before its snapshot is removed; and containerd's metadata
refuses to remove a snapshot with children, except where `RemoveParents` is TRUE.

### `BlockDevice` (with `MCBlockDevice`)

One device and its callers: calls of the snapshotter (`Mounters`) and attach and
detach commands (`Attachers`). `nodes` is what configfs has of the device: the
target, whether it is enabled, the loopback, its portal group, the LUN, the nexus
and the link. Each operation of AttachDevice is an action (`MakeTarget`,
`WriteConfig`, ..., `WaitDevice`): it says which nodes the kernel demands, which
it refuses and which it makes. If it fails, `CleanFrom` says where the deferred
calls begin, depending on which of them have been registered. DetachDevice runs
the same removals, but returns at the first error. `BeginAttach`, `Mark`, `Mount`
and `Unmount` are attachAndMountBlockDevice and UnmountAndDetachBlockDevice around
them, `TryAgain` the loop of the attach command. `Crash` ends the snapshotter with
all its calls, or one command, between any two steps.

`found`, `alone`, `struck`, `upSince` and `calm` are history: what the attempt
found, whether another caller was at work since, whether one of its calls failed,
whether the device has been linked all the time, and how many attempts in a row
failed although nothing disturbed them. Taken from the kernel: a target that is
linked cannot be removed; a target cannot be enabled twice, nor its data area
resized once it is enabled; a loopback directory goes with all below it.

### `StandaloneConvert` (with `MCStandaloneConvert`)

Commands (`Convertor`) on hosts, each with an image and a repository. `conv` is
the loop of convertLayers with the lookups of findRemote unrolled into the calls
it makes (`FindRow`, `FetchFound`, `DeleteRow`, `QueryRows`, `MountFrom`,
`RecordMount`), since other commands run between them. A blob is the sequence of
layers it was made over, itself last, so that a blob that is used above other
layers than its own is seen. `snaps` are the committed snapshots of a host by
name: the chain ID for a layer that was found, the digest of the source layer for
one that was built. Without a table the exports run beside the loop
(`ExportLayer`). Around them: registries lose blobs (`LoseBlob`), snapshots are
collected (`Collect`), calls fail (`Fail`, `LookupFails`, `MountFails`, `RecordFails`,
`ExportFails`). A command has a lease of its own, which ends after an hour
(`overlaybd_conv.go:81-88`) and holds what the command made, not what it found. So any
snapshot may be collected at any time, also the one that a command goes on from, of
which it keeps the name only: `ParentThere` says whether there is one of that name,
`SnapshotGone` is the command that finds none. Whether conversion is reproducible is
chosen at the start.

### `RecordTrace` (with `MCRecordTrace`)

`main` is the action, `watch` watchThread, `hangs` preventTaskHang, `forwarder`
and `collector` the two goroutines that take signals. `held` is the stack of
deferred releases. A send on an unbuffered channel and its receive are one step
(`SendStop`, `ReceiveSignal`, `CollectCancelled`). `handler` says which channels
are notified of signals; with none, a signal kills the command (`SignalKills`).

### Proof modules

`LayerPipelineProofs`, `GraphBuildProofs`, `BlockDeviceProofs`, `RecordTraceProofs`
and `StandaloneConvertProofs` are about the modules of these names. The proofs about
`Snapshotter` are in three modules, each on top of the one before:
`SnapshotterProofs` (types and metadata), `SnapshotterDeviceProofs` (directories and
what is mounted in them) and `SnapshotterLayerProofs` (configs, what clients hold,
and which devices are attached). See section 5.

## 3. The runs

| Run | Question | Distinct states |
|---|---|---|
| `LayerPipelineRestart` | types, `CommitFileOnlyFromDedup`, `RowsNameUploadedBlobs`, `Terminates`: both images of one layer with `--reserve`, database rows present, stale, absent or mountable, right or wrong, manifests mounted from other repositories, and two restarts | 2.1 million |
| `LayerPipelineLive` | `SerialBuild`, `PublishComplete`, `SuccessStoresIntactRows`, `ImplementsContract`, `Terminates`: both images of two layers, the lower one known to the database, without `--reserve` | 1.2 million |
| `GraphBuild` | types, `BuildsBounded`, `SuccessIsWhole`, `BuildReturns` for a nested index with an attestation | 48 thousand |
| `SnapshotterImages` | types, `LiveHasDir`, `ChainConfig`, `DeviceHasSnapshot`, `CleanupSparesLive`, `MountsAreCurrent`, `OrphansRemoved` for images of up to two layers of every origin and a docker container | 144 thousand |
| `SnapshotterDevices` | `ServedDevices`, `RecoverMounts` for two containers, a view and two calls of Mounts with one fault | 3.2 million |
| `SnapshotterLive` | `MountsAreCurrent`, `CallsEnd` for writable snapshots, a view and a call of Mounts, with two faults, crashes included, synchronous removal and locks | 284 thousand |
| `StandaloneConvert` | types, `ImageIntact`, `RowsNameTheirChain`, `NamedBlobsWerePushed`, `StackedOnParent` for three commands on two hosts and two repositories | 4.2 million |
| `RecordTrace` | types, `ImageHasTrace`, `NothingLeft`, `WatchedTaskEnds`, `UnsignalledReturns` with two signals and a fault | 91 thousand |
| `BlockDevice` | types, `FailedAttachCleans`, `RetriesGetThrough`, `DetachedIsGone`, `AttachedIsWhole`, `AttachSparesAttached` for the snapshotter and an attacher with two faults | 5.9 million |

Three runs are expected to find a violation; each is explained under `findings`
in `PROJECT.json`:

* `StandaloneConvertRepeat` (`RowsNameTheirChain`): an image that holds one layer
  twice. The second occurrence is committed under the same name as the first, so
  the first one's snapshot is used for it: its blob gets the row of the longer
  chain, and the layers between the two are missing below all that follows. The
  run `StandaloneConvert` has images in which a layer occurs over one chain only
  (`LayersHaveOneChain`).
* `SnapshotterDocker` (`ServedDevices`): with two docker containers of one image,
  removing the first init layer detaches the image device under the mounts that
  the second container was given and has not mounted yet.
* `SnapshotterCleanupRace` (`CleanupSparesLive`): Cleanup lists a leftover
  directory, its id is given to a new snapshot, and Cleanup removes that one's
  directory.

Further properties are refuted by TLC, but are not among the runs; the hazards name
them:

* `TagIsWhole` of `GraphBuild`: an index can be pushed under the target tag with
  the source descriptor of a manifest whose conversion failed, because `wg.Wait`
  returns before the errgroup has the error (`builder.go:178-190`). Build still
  fails: `SuccessIsWhole` is proved.
* `CommandReturns` of `RecordTrace`: if a signal arrives as the task ends, main
  sends on `watchStop` to a thread that is not there any more
  (`record_trace.go:297`), and the command hangs.
* That every layer row the convertor adds is "good": the channel of a failing
  goroutine is closed before the errgroup cancels the others (`builder.go:466-476`),
  so convert and upload of that layer may run on missing input, and
  StoreConvertedLayerDetails stores the result. After an interrupt, a used writable
  layer can do the same. The conversion that stores such a row fails
  (`SuccessStoresIntactRows`), but nothing takes the row back.
* `PublishComplete` and `ImplementsContract` when `OldRows` may be "bad": a conversion
  trusts the rows it finds, and so it publishes what such a row names.

While modelling, further behaviours were seen that no document or test speaks
against, and they are recorded as hazards only: a device whose mount failed stays
attached and blocks later attaches of its id; Commit cannot go back once it has
detached and sealed a writable device, and Mounts then returns mounts of an empty
mountpoint; Remove whose commit fails has already deleted the directory; a call of
Mounts that read the metadata before a Remove can leave the device attached and
mounted, so the directory cannot be deleted; Mounts answers otherwise than Prepare
for a writable snapshot without a parent, for a docker init layer and for a layer to
be unpacked above an overlaybd layer; a commit file left by an interrupted conversion
makes every later one in that directory fail; a task whose status cannot be read is never stopped.

### Bounds, and why they are enough

* Two layers (`N = 2`) in `LayerPipelineLive`: the relations between layers are
  between neighbours (convert waits for the layer below, a sender has at most two
  readers, one of which is missing on the top layer). The proofs cover every `N`.
* `Known` is the lower of the two layers in `LayerPipelineLive`, the case of images
  over one base; the manifest of a whole image is known, and mounted, in
  `LayerPipelineRestart`, where `N = 1`. The theorems cover every `Known`.
* `MaxRuns = 2` with one layer: what a later process finds is a state of the
  working directory, the registry and the rows; two restarts let it find what a
  process that itself started on leftovers has left. `PublishComplete` and
  `ImplementsContract` are about a working directory that starts empty: a used
  writable layer that an interrupted process has left does get into an image, and
  so does the one that `--reserve` keeps of the overlaybd image when the turboOCI
  image is made next. Hence both images without `--reserve` in `LayerPipelineLive`,
  and with it in `LayerPipelineRestart`, whose properties do not depend on it.
* Four built manifests at most, two tokens: three manifests and an index compete,
  so that a token can be kept and another be swapped. The proofs cover every tree.
* `MaxId` of 3 to 5: every flavor in question plus one more id, so that an id is
  reused after a rollback while its predecessor's leftovers are there.
  `BeginPrepare` stops at `MaxId`; ids given back are not counted.
* `MaxFaults` of 1 or 2 among those in `Faults`: one fault leaves something behind
  and, where it matters (`SnapshotterLive`), the second meets it.
* The two calls of Mounts in `SnapshotterDevices` are interchangeable, and so are its
  two containers; that run checks only invariants, so they are symmetry sets.
* `StandaloneConvert`: three commands, so that two share a host, two a repository
  and all of them a layer; one run each, one fault, one lost blob, one collection.
  The proofs cover every number.
* `BlockDevice`: one call of the snapshotter beside one command, three attaches,
  one detach and two faults: a crash can leave any part of a device, and an
  undisturbed sequence of attempts can meet it. The proofs cover every number.
* `RecordTrace`: two signals, since the second meets another handler than the
  first; one fault, so that each failing call is seen by itself; two changes of
  the image name, so that it appears and goes between two calls. The proofs cover
  every number.

The flags split the runs rather than multiply them: asynchronous removal with
images and docker (where Cleanup matters), `autoRemoveDev` with containers and
locks. `CleanupSparesLive` and `LiveHasDir` hold in `SnapshotterImages` because no
fault leaves a directory whose id is given again; with a crash they do not, which
is what `SnapshotterCleanupRace` shows. `DeviceHasSnapshot` is checked without
concurrent calls of Mounts, `ServedDevices` without writable snapshots, for the
reasons given under the hazards. The theorems of section 5 have the same conditions,
as hypotheses, and no others.

`CHECK_DEADLOCK FALSE` is set everywhere: conversions and commands end, and in the
snapshotter and around a device clients may stop asking. That nothing is stuck
half-way is `Terminates`, `BuildReturns`, `CallsEnd` and `UnsignalledReturns`
instead.

### Fairness

* `LayerPipeline`, `GraphBuild`: weak fairness of each goroutine, since the Go
  scheduler runs whatever can run, and calls to the registry, to the database and
  to the overlaybd tools return. No fairness of failures as such: that an action
  of a goroutine happens is fair, which of its outcomes is not. `CancelOuter` and
  `Restart` are never required.
* `Snapshotter`: strong fairness of the writer and of each call of Mounts, since each
  may wait for a per-id lock that others take again and again (Go's mutexes do not
  starve a waiter), and of the scan of Cleanup, which waits for the write transaction
  and which containerd's garbage collector calls again and again; weak fairness of
  each removal of Cleanup. Strong fairness does not help a call that waits for a
  lock whose holder waits for it: `CallsEnd` fails if Mounts takes its locks in the
  other order. Clients' calls and crashes
  are never required.
* `RecordTrace`: weak fairness of each goroutine; a timer expires and a sleep ends.
  Nobody has to send a signal, no task to end by itself, no backing store to
  complete a trace. That a task that is sent SIGKILL ends is the kernel's.
* `StandaloneConvert` and `BlockDevice` state safety only.

## 4. What the properties say about the code

* `SerialBuild` is why BuildLayer may use `overlaybdConfig` without a lock.
* `PublishComplete` and `ImplementsContract` are why a channel closed by a failing
  goroutine is harmless: later steps of other layers do run on missing input, and
  none of them leads to a published image.
* `RowsNameUploadedBlobs` says that a row that is added names a blob the repository
  has at that time; of what the blob holds it says nothing.
* `SuccessStoresIntactRows` is what can be said of that: a conversion that succeeds,
  from right rows, leaves right rows. One that fails or is interrupted may store a
  row for a layer that was made from missing input, as section 3 says.
* `BuildsBounded` is why the release in `buildOne` may give up.
* `ChainConfig` says that remote, unpacked and sealed layers stack to one device
  with every layer once, in order, whichever way each was made.
* `ServedDevices` and `RecoverMounts` are the contract of Prepare, View and Mounts
  with a client that has not mounted yet.
* `MountsAreCurrent` says that reuse of ids never shows old data.
* `AttachSparesAttached` is why an attach of a device that is in use is harmless,
  although its deferred calls remove target and loopback: it stops at the enabled
  target, before the loopback's removal is registered, and the kernel keeps a
  target that is linked.
* `RetriesGetThrough` is why five attempts of the attach command are enough: the
  clean-up of one failed attempt removes what made it fail, whatever crashes left.
* `ImageIntact`, `RowsNameTheirChain` and `StackedOnParent` say when snapshots and
  blobs of other conversions may be used. `StackedOnParent` does not say that the
  snapshot a command goes on from is there, which no lease assures, but that it is
  the right one if it is; `NamedBlobsWerePushed` is the comment
  "must synchronize registry and db" of convertLayers.
* `WatchedTaskEnds` and `NothingLeft` are what the user of record-trace is promised:
  the recording ends and the temporary resources go.

`LiveHasDir`, `DeviceHasSnapshot`, `CleanupSparesLive`, `OrphansRemoved` relate
metadata, disk and kernel, which no transaction keeps together.

## 5. What is proved

For every number of layers, every tree of descriptors and every limit, without a
bound on failures:

* `Typing`, `BuildIsSerial` and `RowsAreBacked` hold for any number of restarts.
* `PublishedIsComplete` and `ConversionImplementsContract`, about both engines,
  assume `CleanStarts`: no restart (`MaxRuns = 0`), and not both images with
  `--reserve`, so that the working directory is empty whenever Build begins; and right
  rows and images of earlier conversions (`OldRows` without "bad"), as each
  successful conversion leaves them: `SuccessLeavesIntactRows`, under the same
  assumption.
  `NoStrayCommitFile` is about the overlaybd engine in the first process: with
  leftovers of an interrupted run BuildLayer does meet the file that it says should
  not be there.
* `GraphTyping`, `AtMostLimit` and `SuccessMeansWhole` are about `GraphBuild`.
* `DeviceTyping`, `AttachedIsSpared`, `AttachCleansUp`, `DetachIsComplete`,
  `AttachIsComplete` and `RetriesSucceed` are about `BlockDevice`, with any number
  of callers, attempts and faults.
* `RecordTyping`, `ImagesHaveTraces` and `ResourcesAreReleased` are about
  `RecordTrace`, with any number of signals, failing calls and other clients.
* `SnapshotterTyping`, `SnapshotterMetadata` and `SnapshotterMounts`, about
  `Snapshotter`, hold without conditions: for any keys, requests and calls of Mounts,
  in every configuration, whatever fails and whenever the process dies.
* `SnapshotterDirectories`, `SnapshotterCleanup` and `SnapshotterChains` assume
  `TransactionsHold`: neither "commit" nor "crash" is among the faults. Remove deletes
  the directory of its snapshot before it commits (`overlay.go:1089`), and after a
  crash an id that Cleanup has listed may be given again (`SnapshotterCleanupRace`).
* `SnapshotterServes` assumes `PlainClients`, with any faults and crashes: no docker
  runtime, for which `SnapshotterDocker` refutes it; no writable devices, since Mounts
  of such a snapshot does not attach the device (`overlay.go:826`); and nobody removes
  a snapshot that has children, which containerd's metadata refuses.
* `SnapshotterRecovers` assumes `PulledImages`: besides that, no layer to be unpacked,
  for which Prepare and Mounts answer differently (`overlay.go:864`).
* `SnapshotterDevices` assumes `AttachesKept`, with docker, writable devices and
  removals of parents: no call of Mounts, since one that began before a Remove can
  attach the device again after it; and no failing mark, mount or commit and no crash,
  each of which leaves the device attached that Prepare has just attached.
* `CommandTyping`, `RowsAreTrue`, `NamedArePushed`, `ParentsHoldTheLayers` and
  `ImagesAreIntact` are about `StandaloneConvert`, for any commands, images, hosts and
  repositories, failures, lost blobs and collections. All of them assume
  `LayersHaveOneChain`, without which `RowsNameTheirChain` is refuted by
  `StandaloneConvertRepeat`.

Assumptions: those stated in the modules (`NAssumption`, `OutputsAssumption`,
`FlagsAssumption`, `RunsAssumption`, `OldAssumption`, `TreeAssumption`,
`LimitAssumption`, `FiniteAssumption`, `CallersAssumption`, `BoundsAssumption`,
`ImageAssumption`, `NoneAssumption`, `NamesAssumption`, `RequestsAssumption`,
`ModesAssumption`), which TLC evaluates in every run. None of the proofs uses
fairness.

The invariants, and why the properties need them:

* `TypeInv` is `TypeOK` plus: a layer that is offered from the cache has a row, and
  with the turboOCI engine no layer is.
* `Ordered`: below a layer that is inside BuildLayer, or past it while the context
  is alive, every layer is past BuildLayer. `SerialBuild` follows from it but is not
  inductive: it does not say that the layer below, which is about to be waited for,
  has finished.
* `IInv`: while no goroutine has failed and no error is recorded, the lowers are
  exactly the layers that are past BuildLayer, each of them intact, and each
  uploaded layer has its blob. A failed goroutine breaks all of that and is
  remembered by `failed` or by `err` until GroupWait reads it; hence
  `PublishComplete`. Its part `Emptied` carries the empty directory from the
  Cleanup of the first image to the Build of the second.
* `OutcomeInv` adds what is known after GroupWait, and with `IInv` gives the step
  by step refinement to `ConversionContract`.
* `CommitInv`: a commit file comes from deduplication or from BuildLayer itself.
* `RowsInv`: as long as no goroutine has failed, the rows are right, and so is what an
  upload goroutine is about to store; a failure is remembered until GroupWait.
* `StoreInv`: a layer about to be stored has its blob in the repository, and, if
  the context is alive, was released by its own download.
* `TokensInv` of `GraphBuild`: as many tokens as goroutines between acquire and
  release are in the channel, or more. Tokens may be left behind, never missing.
* `ResultsInv` of `GraphBuild`: what each goroutine's result says about its image
  and its place in the index, and that an index pushed as a mixture implies that
  some goroutine failed, whose error is recorded by the time that goroutine has
  ended; so g.Wait, which waits for all of them, cannot miss it.
* `SInv` of `BlockDevice`, for any interleaving: the target of a link is neither
  removed nor disabled (`LinkStands`, which configfs guarantees), and an attempt
  that has seen the device linked all along stops before it enables the target and
  has only the target's removal deferred (`Spares`), which configfs then refuses.
  `AttachedIsSpared` follows: without `LinkStands` an attempt could find the target
  disabled, enable it again and go on to take down the rest.
* `IInv` of `BlockDevice` is about a caller that nobody disturbed: what is there at
  each step on the way up (`Climbs`), what is left on the way down (`Descends`), and
  what of it the attempt has made itself (`Leaves`). The three contracts of a
  single call follow.
* `RInv` counts: an undisturbed attempt fails only because of something that
  a killed caller left (`Reason`); the first failure clears a half-made device down to
  its target, the second what is left (`Cleared`), so the third attempt
  meets nothing. Hence `RetriesGetThrough`: of the five attempts of
  overlaybd-attacher no more than two are lost to leftovers.
* `HeldInv` of `RecordTrace`: the deferred releases are those of the first resources
  of the setup, in order, so the task comes last and its container before it.
* `TraceInv`: the command that goes on after the wait has a task that has stopped,
  and one that goes on after collectTrace has a complete trace; the image is made by
  the last step, so neither changes after it. `ImagesHaveTraces` follows.
* `LeakInv`: without a failing call the releases meet no running task, so none of
  them fails; and a task that stays has its container below it on the stack of
  releases, or left with it already. `ResourcesAreReleased` follows.
* `IInv` of `StandaloneConvert` says of everything that holds a blob what the blob
  converts: a snapshot of either name is a stack of conversions of what it is named
  for (`SnapsOK`, where `LayersHaveOneChain` is needed: a layer is committed under its
  own digest, whatever lies below it), a row names a conversion of its chain that its
  repository has had (`RowsOK`), and a command has such a stack below its layer, such
  a blob in its hand, and one for each layer it has converted or is exporting
  (`CommandOK`). Of the parent `CommandOK` keeps the name only, which is one for the
  layers before (`NamedFor`); with `SnapsOK` that is what `StackedOnParent` needs. So a
  command that stands still keeps all that (`CommandFrame`), whatever is collected and
  made again meanwhile.

* `MetaInv` of `Snapshotter` is about the three views of the metadata: the store's, the
  writer's and each call's of Mounts. Each is `WellFormed`: ids are given once and in
  order, and a parent is an older, committed snapshot. `WriterInv` says by what the
  writer's view differs from the store's at each step of its call: `TypeOK` needs it,
  since a rolled-back Prepare has to find the key it added. `ReaderInv` says how much
  of what a call of Mounts has read is still true: snapshots may have been removed
  since, but no id that it knows as committed becomes an active snapshot's. With
  `TypeOK` it is the `IInv` of the snapshotter, on which all that follows rests.
* `DirInv`: between Remove's deletion and its commit, the one listed snapshot without
  a directory is that of the call; above the last id that the store has given there
  is no directory and no mounted device but those of the snapshot that is being
  made; and Cleanup's list names given ids only. So what is
  given next is neither in the way of a rename nor about to be deleted.
  `LiveHasDir` and `CleanupSparesLive` follow, which alone do not exclude that an
  id on the list is given again.
* `CurrentInv`: besides what is mounted, a device that Prepare, View or Mounts has
  attached and is about to mount is that of the directory's config; and a config is
  never written while its directory is mounted. An active snapshot that is mounted has
  a writable device, and no data yet or a config already (`OwnMounted`), so Commit
  writes it none.
  `MountsAreCurrent` is one of its parts.
* `ConfInv`: `ChainConfig` for the store, but for the snapshot that is being removed,
  and for what the writer is about to commit; a snapshot that is not committed has a
  config only if it has data (`Plain`), so no config is left below a new one.
* `HandedInv`: mounts that a client holds are served by the device of the parent, which
  is mounted, and a snapshot that is committed or removed is held by nobody. What
  unmounts a device is the removal of the parent, which then has no children, or
  of its last child (`Unmounts`); hence `ServedDevices`.
* `GivenInv`: what Prepare and View have returned is what the metadata says of the
  parent (`Served`), since only a remote layer has a config and nothing has data; and a
  call of Mounts that reads an old view of the metadata finds the parent as it was.
* `OwnedInv`: an attached device has a directory with a mark, or is about to be marked by the
  call that has attached it (`Found`), and has the files of a layer, so Remove takes it
  for a device (`DeviceFound`); and an overlay mount that uses it is
  that of a child, or of a child's child with docker, so that the check of the mount
  table does not keep Remove from detaching it (`OwnDetached`).

TLC refutes each property about `Snapshotter` when a condition of its theorem is
dropped: a fault at a time of `TransactionsHold` and `AttachesKept`, calls of Mounts,
docker, writable devices, layers to be unpacked, removals of parents. The one condition
for which it finds no counterexample is that of removals for `RecoverMounts`.

Only model-checked: liveness (`Terminates`, `BuildReturns`, `CallsEnd`,
`OrphansRemoved`, `WatchedTaskEnds`, `UnsignalledReturns`), which is beyond the
prover. Every invariant of the runs that pass has a theorem.

## 6. What is not modelled

* Snapshotter: Stat, Update, Usage, Walk (metadata only); acceleration layers and
  trace recording; turboOCI layers; idmapped lowers; disk quota; mode dev of a
  writable device; more than one snapshotter on one root.
* Devices: updateSpec and the config files of a device (a device reads its config
  when it is enabled); `Snapshotter` takes an attach of another reader as one step,
  `BlockDevice` is where it is taken apart.
* Convertor: `--no-upload`, the default base layer of
  `--mkfs=false`, referrers, the rows of other repositories (what they hold
  are images of earlier conversions, mounted whole by `MountConvertedManifest` or by
  layer in `CheckForConvertedLayer`), several convertors on one database,
  certificates and HTTP.
* Data: what a layer contains, the formats of configs and manifests, file headers.
* `ctr rpull`, metrics, logging, labels, idmap, disk quota, utilities: commands that
  call the parts above, or code without state.

## 7. Plan

1. Done: `LayerPipeline`, `ConversionContract`, `GraphBuild`, `Snapshotter`,
   `BlockDevice`, `StandaloneConvert`, `RecordTrace`, the runs above, and the proofs
   about the convertors, the block devices and the trace recording. Runs of one module
   are merged where one instance answers several questions.
2. Done: the turboOCI engine beside the overlaybd engine in `LayerPipeline`, and the
   command that makes both images.
3. `DedupDatabase`: several convertors on one database and one registry, rows of
   other repositories, `--no-upload`.
4. `StorageTypes`: identifySnapshotStorageType, getWritableType and
   ConstructOverlayBDSpec as operators over labels and files, checked against a
   table of what each label combination promises.
5. Done: theorems about `Snapshotter`, for each invariant that its runs check.
6. Proofs: what is left of `LiveHasDir` after a crash or a failed commit, and
   `ServedDevices` for a single docker container.
