--------------------------- MODULE LayerPipeline ---------------------------
(***************************************************************************)
(* The conversion of one manifest by cmd/convertor/builder: overlaybdBuilder*)
(* .Build runs four goroutines per layer (deduplication, download, convert, *)
(* upload) that meet on unbuffered channels under one errgroup, and drives  *)
(* one of two engines. Working directory, registry repository and           *)
(* deduplication database outlive it: a command that is to make both images *)
(* runs Build once with the overlaybd engine and then, over the same        *)
(* directory, with the turboOCI engine, and a process may be interrupted    *)
(* and started again.                                                       *)
(*                                                                         *)
(* A file, a blob and a database row is reduced to its quality: it is       *)
(* "absent" or "none", it is what the conversion of this layer should yield *)
(* ("good"), or it is something else ("bad").                               *)
(***************************************************************************)
EXTENDS Integers, Sequences

CONSTANTS
    N,          \* number of layers of the manifest
    Outputs,    \* the images to make: --overlaybd, --turboOCI or both
    Dedup,      \* whether a database is configured (e.db # nil)
    Known,      \* layers that earlier conversions, in this repository or in
                \* others of the registry, have made
    OldRows,    \* the qualities of what they have made
    Reserve,    \* the --reserve flag: keep the working directory
    MaxRuns     \* bound: how many more convertor processes may start

ASSUME NAssumption == N \in Nat \ {0}
ASSUME OutputsAssumption ==
    Outputs \in {{"overlaybd"}, {"turboOCI"}, {"overlaybd", "turboOCI"}}
ASSUME FlagsAssumption == Dedup \in BOOLEAN /\ Reserve \in BOOLEAN
ASSUME RunsAssumption == MaxRuns \in Nat

Quality == {"good", "bad"}
Layers == 0 .. (N - 1)

ASSUME OldAssumption == Known \subseteq Layers /\ OldRows \subseteq Quality

\* The lowers of a layer converted over all of its predecessors, in order.
Chain(i) == [k \in 1 .. i |-> k - 1]

VARIABLES
    main,       \* where Build itself stands
    result,     \* what Build returned
    err,        \* the errgroup holds an error, which cancels rctx
    outer,      \* the context of the whole graph was cancelled
    dedup,      \* pc of the deduplication goroutine of each layer
    dl,         \* pc of the download goroutine
    cv,         \* pc of the convert goroutine
    up,         \* pc of the upload goroutine
    turbo,      \* the turboOCI engine is at work, not the overlaybd engine
    tar,        \* layer.tar: "good" once verified; "unverified" if it is
                \* missing, truncated or not what the manifest names
    writable,   \* writable_data and writable_index
    commit,     \* overlaybd.commit
    archive,    \* turboOCIv1.tar.gz, and the metadata file that is put into it
    fromDedup,  \* overlaybdLayers[idx].fromDedup
    desc,       \* overlaybdLayers[idx].desc
    lowers,     \* overlaybdConfig.Lowers
    blobs,      \* layer blobs of either engine in the target repository
    rows,       \* layer rows of the database
    tag,        \* manifest that the target tag of either engine names
    mrow,       \* manifest row of the database
    runs        \* processes started after the first

goroutines == <<dedup, dl, cv, up>>
workdir    == <<tar, writable, commit, archive>>
engine     == <<turbo, fromDedup, desc, lowers>>
registry   == <<blobs, tag>>
database   == <<rows, mrow>>
vars == <<main, result, err, outer, goroutines, workdir, engine, registry,
          database, runs>>

-----------------------------------------------------------------------------

\* The memory of a process that enters Build.
NewMemory ==
    /\ main = "check"
    /\ result = "none"
    /\ err = FALSE
    /\ outer = FALSE
    /\ dedup = [i \in Layers |-> "check"]
    /\ dl = [i \in Layers |-> "wait"]
    /\ cv = [i \in Layers |-> "waitDownloaded"]
    /\ up = [i \in Layers |-> "waitConverted"]
    /\ fromDedup = [i \in Layers |-> FALSE]
    /\ desc = [i \in Layers |-> "none"]
    /\ lowers = <<>>

\* The overlaybd image is made first.
FirstIsTurbo == "overlaybd" \notin Outputs

EmptyWorkdir ==
    /\ tar = [i \in Layers |-> "unverified"]
    /\ writable = [i \in Layers |-> "absent"]
    /\ commit = [i \in Layers |-> "absent"]
    /\ archive = [i \in Layers |-> "absent"]

\* The manifest of an image whose layers are of these qualities, and the images
\* that were converted from this manifest before.
Image(f) == IF \A i \in Layers : f[i] = "good" THEN "good" ELSE "bad"
OldImages == IF Known = Layers THEN [Layers -> OldRows] ELSE {}

\* Earlier conversions may have left rows behind, with or without the blob.
Init ==
    /\ NewMemory
    /\ turbo = FirstIsTurbo
    /\ EmptyWorkdir
    /\ rows \in [Layers -> OldRows \cup {"none"}]
    /\ \A i \in Layers : rows[i] # "none" => Dedup /\ i \in Known
    /\ blobs \in SUBSET {<<FALSE, i, rows[i]>> : i \in {j \in Layers : rows[j] # "none"}}
    /\ tag = [e \in BOOLEAN |-> "none"]
    /\ mrow \in {"none"} \cup {Image(f) : f \in OldImages}
    /\ mrow # "none" => Dedup
    /\ runs = 0

-----------------------------------------------------------------------------
(* Channels and contexts.                                                  *)

Running == main = "wait"

\* rctx.Done() is closed: an error was recorded or the outer context is done.
Cancelled == err \/ outer

\* The goroutine of layer i that closes a channel closes it when its function
\* returns, which is before the errgroup records the error it returned.
ClosedAlready(i)    == dedup[i] = "done"
ClosedDownloaded(i) == dl[i] \in {"failed", "done"}
ClosedConverted(i)  == cv[i] \in {"failed", "done"}

\* Mutant: the last layer, too, sends a value for a layer above it.
SendAlwaysTwice(i) == "send2"

\* converted[i] carries one value for upload(i) and one for convert(i + 1).
FirstSend(i) == IF i + 1 < N THEN "send2" ELSE "send1"
AfterSend(pc) == IF pc = "send2" THEN "send1" ELSE "done"

-----------------------------------------------------------------------------
(* Build before the goroutines start.                                      *)

\* The turboOCI engine has no deduplication: it finds nothing and stores nothing.
UsesDatabase == Dedup /\ ~turbo

Stale(i) == rows[i] # "none" /\ <<FALSE, i, rows[i]>> \notin blobs

Tagged(q) == [tag EXCEPT ![turbo] = q]

\* The row of this repository names a manifest that is there, or other
\* repositories are asked; a row whose manifest the registry does not have is
\* deleted. A database error falls back to the regular conversion.
CheckForConvertedManifest ==
    /\ main = "check"
    /\ \/ UsesDatabase /\ mrow # "none" /\ main' = "tag" /\ UNCHANGED mrow
       \/ UsesDatabase /\ main' = "mountImage" /\ mrow' \in {mrow, "none"}
       \/ main' = "wait" /\ UNCHANGED mrow
    /\ UNCHANGED <<result, err, outer, goroutines, workdir, engine, registry,
                   rows, runs>>

\* The search of other repositories and mountImage: the blobs of a converted
\* image are mounted one by one, then its manifest is pushed, which the registry
\* refuses if a blob is missing, and its row inserted, which must not collide
\* with one that this repository has. What fails on the way stays mounted.
Mounted(f) == {<<FALSE, i, f[i]>> : i \in Layers}
MountConvertedManifest ==
    /\ main = "mountImage"
    /\ \E mounted \in SUBSET UNION {Mounted(f) : f \in OldImages} :
          blobs' = blobs \cup mounted
    /\ \/ \E f \in OldImages :
             /\ Mounted(f) \subseteq blobs'
             /\ tag' = Tagged(Image(f))
             /\ \/ mrow = "none" /\ mrow' = Image(f) /\ main' = "tag"
                \/ main' = "wait" /\ UNCHANGED mrow
       \/ main' = "wait" /\ UNCHANGED <<tag, mrow>>
    /\ UNCHANGED <<result, err, outer, goroutines, workdir, engine, rows, runs>>

\* Here and below, a push that fails may have reached the registry.
TagPreviouslyConvertedManifest ==
    /\ main = "tag"
    /\ \/ tag' = Tagged(mrow) /\ main' = "cleanup" /\ result' = "reused"
       \/ tag' \in {tag, Tagged(mrow)} /\ main' = "wait" /\ UNCHANGED result
    /\ UNCHANGED <<err, outer, goroutines, workdir, engine, blobs, database,
                   runs>>

-----------------------------------------------------------------------------
(* The deduplication goroutine of layer i.                                 *)

\* The row of this repository, else a mount from another repository, whose
\* new row must not collide with the one this repository has: if it does, or
\* the insert fails, the blob is mounted and the layer not found.
CheckForConvertedLayer(i) ==
    /\ Running
    /\ dedup[i] = "check"
    /\ \/ /\ UsesDatabase /\ rows[i] # "none" /\ ~Stale(i)
          /\ dedup' = [dedup EXCEPT ![i] = "offer"]
          /\ UNCHANGED <<rows, blobs>>
       \/ \E q \in OldRows :
             /\ UsesDatabase /\ i \in Known
             /\ blobs' = blobs \cup {<<FALSE, i, q>>}
             /\ \/ /\ rows[i] = "none" \/ Stale(i)
                   /\ dedup' = [dedup EXCEPT ![i] = "offer"]
                   /\ rows' = [rows EXCEPT ![i] = q]
                \/ /\ dedup' = [dedup EXCEPT ![i] = "done"]
                   /\ rows' \in {rows, [rows EXCEPT ![i] = IF Stale(i) THEN "none" ELSE @]}
       \/ /\ UsesDatabase
          /\ dedup' = [dedup EXCEPT ![i] = "done"]
          /\ rows' = [rows EXCEPT ![i] = IF Stale(i) THEN "none" ELSE @]
          /\ UNCHANGED blobs
       \/ /\ dedup' = [dedup EXCEPT ![i] = "done"]
          /\ UNCHANGED <<rows, blobs>>
    /\ UNCHANGED <<main, result, err, outer, dl, cv, up, workdir, engine, tag,
                   mrow, runs>>

\* alreadyConverted[i] <- &desc, received by the download goroutine.
OfferCached(i) ==
    /\ Running
    /\ dedup[i] = "offer" /\ dl[i] = "wait"
    /\ dedup' = [dedup EXCEPT ![i] = "done"]
    /\ dl' = [dl EXCEPT ![i] = "fetchConverted"]
    /\ UNCHANGED <<main, result, err, outer, cv, up, workdir, engine, registry,
                   database, runs>>

\* The send gives up when the context is done.
DropOffer(i) ==
    /\ Running
    /\ dedup[i] = "offer" /\ Cancelled
    /\ dedup' = [dedup EXCEPT ![i] = "done"]
    /\ UNCHANGED <<main, result, err, outer, dl, cv, up, workdir, engine,
                   registry, database, runs>>

-----------------------------------------------------------------------------
(* The download goroutine of layer i.                                      *)

\* Mutant: the nil descriptor of a closed channel is taken for a cached layer.
NilDescriptorUsed(i) ==
    /\ Running
    /\ dl[i] = "wait" /\ (ClosedAlready(i) \/ Cancelled)
    /\ dl' = [dl EXCEPT ![i] = "fetchConverted"]
    /\ UNCHANGED <<main, result, err, outer, dedup, cv, up, workdir, engine,
                   registry, database, runs>>

\* Nothing cached: the channel was closed, or the context is done.
NothingCached(i) ==
    /\ Running
    /\ dl[i] = "wait" /\ (ClosedAlready(i) \/ Cancelled)
    /\ dl' = [dl EXCEPT ![i] = "fetchLayer"]
    /\ UNCHANGED <<main, result, err, outer, dedup, cv, up, workdir, engine,
                   registry, database, runs>>

\* Mutant: the file of a failed download is not removed.
PartialDownloadKept(i) ==
    /\ Running
    /\ dl[i] = "fetchConverted"
    /\ dl' = [dl EXCEPT ![i] = "fetchLayer"]
    /\ commit' = [commit EXCEPT ![i] = "bad"]
    /\ UNCHANGED <<main, result, err, outer, dedup, cv, up, tar, writable,
                   archive, engine, registry, database, runs>>

\* A verified download of the converted layer; otherwise its file is removed
\* and the layer is downloaded to be converted.
DownloadConvertedLayer(i) ==
    /\ Running
    /\ dl[i] = "fetchConverted"
    /\ \/ /\ dl' = [dl EXCEPT ![i] = "send"]
          /\ commit' = [commit EXCEPT ![i] = rows[i]]
          /\ fromDedup' = [fromDedup EXCEPT ![i] = TRUE]
          /\ desc' = [desc EXCEPT ![i] = rows[i]]
       \/ /\ dl' = [dl EXCEPT ![i] = "fetchLayer"]
          /\ commit' = [commit EXCEPT ![i] = "absent"]
          /\ UNCHANGED <<fromDedup, desc>>
    /\ UNCHANGED <<main, result, err, outer, dedup, cv, up, tar, writable,
                   archive, turbo, lowers, registry, database, runs>>

\* The tar is verified only once it is written: a download that fails after it
\* has opened the file may leave it empty, truncated or wrong.
DownloadLayer(i) ==
    /\ Running
    /\ dl[i] = "fetchLayer"
    /\ \/ /\ dl' = [dl EXCEPT ![i] = "send"]
          /\ tar' = [tar EXCEPT ![i] = "good"]
       \/ /\ dl' = [dl EXCEPT ![i] = "failed"]
          /\ tar' \in {tar, [tar EXCEPT ![i] = "unverified"]}
    /\ UNCHANGED <<main, result, err, outer, dedup, cv, up, writable, commit,
                   archive, engine, registry, database, runs>>

\* sendToChannel(downloaded[i]) and the convert goroutine's receive.
SendDownloaded(i) ==
    /\ Running
    /\ dl[i] = "send"
    /\ \/ /\ cv[i] = "waitDownloaded" /\ ~Cancelled
          /\ cv' = [cv EXCEPT ![i] = IF i = 0 THEN "build" ELSE "waitParent"]
       \/ Cancelled /\ UNCHANGED cv
    /\ dl' = [dl EXCEPT ![i] = "done"]
    /\ UNCHANGED <<main, result, err, outer, dedup, up, workdir, engine,
                   registry, database, runs>>

-----------------------------------------------------------------------------
(* The convert goroutine of layer i.                                       *)

\* A closed channel releases the wait as a value does.
DownloadedClosed(i) ==
    /\ Running
    /\ cv[i] = "waitDownloaded" /\ ClosedDownloaded(i) /\ ~Cancelled
    /\ cv' = [cv EXCEPT ![i] = IF i = 0 THEN "build" ELSE "waitParent"]
    /\ UNCHANGED <<main, result, err, outer, dedup, dl, up, workdir, engine,
                   registry, database, runs>>

\* Mutant: the convert goroutine does not wait for the layer below.
ParentNotAwaited(i) ==
    /\ Running
    /\ cv[i] = "waitParent" /\ ~Cancelled
    /\ cv' = [cv EXCEPT ![i] = "build"]
    /\ UNCHANGED <<main, result, err, outer, dedup, dl, up, workdir, engine,
                   registry, database, runs>>

\* converted[i - 1]: a value of convert(i - 1), or the channel it closed.
ParentConverted(i) ==
    /\ Running
    /\ cv[i] = "waitParent" /\ ~Cancelled
    /\ \/ /\ cv[i - 1] \in {"send1", "send2"}
          /\ cv' = [cv EXCEPT ![i] = "build", ![i - 1] = AfterSend(@)]
       \/ /\ ClosedConverted(i - 1)
          /\ cv' = [cv EXCEPT ![i] = "build"]
    /\ UNCHANGED <<main, result, err, outer, dedup, dl, up, workdir, engine,
                   registry, database, runs>>

\* BuildLayer, first part. The commit file of a deduplicated layer must be
\* there and is used as it is; that of another layer must not be there, except
\* that the turboOCI engine does not look. Create keeps a writable layer that
\* exists already.
PrepareLayer(i) ==
    /\ Running
    /\ cv[i] = "build"
    /\ \/ /\ fromDedup[i] /\ commit[i] # "absent"
          /\ lowers' = Append(lowers, i)
          /\ cv' = [cv EXCEPT ![i] = FirstSend(i)]
          /\ UNCHANGED writable
       \/ /\ fromDedup[i] /\ commit[i] = "absent"
          /\ cv' = [cv EXCEPT ![i] = "failed"]
          /\ UNCHANGED <<lowers, writable>>
       \/ /\ ~fromDedup[i] /\ ~turbo /\ commit[i] # "absent"
          /\ cv' = [cv EXCEPT ![i] = "failed"]
          /\ UNCHANGED <<lowers, writable>>
       \/ /\ ~fromDedup[i] /\ (turbo \/ commit[i] = "absent")
          /\ cv' \in {[cv EXCEPT ![i] = "apply"], [cv EXCEPT ![i] = "failed"]}
          /\ writable' = [writable EXCEPT ![i] = IF @ = "absent" THEN "fresh"
                                                               ELSE @]
          /\ UNCHANGED lowers
    /\ UNCHANGED <<main, result, err, outer, dedup, dl, up, tar, commit,
                   archive, turbo, fromDedup, desc, registry, database, runs>>

\* The layer that BuildLayer has made. One of the turboOCI engine is an index
\* into its tar, which is read with it.
LayerFile(i) == IF turbo THEN archive[i] ELSE commit[i]
LayerIntact(i) == LayerFile(i) = "good" /\ (turbo => tar[i] = "good")

\* All the lowers of layer i are in place and intact.
IntactBelow(i) == lowers = Chain(i) /\ \A j \in Layers : j < i => LayerIntact(j)

\* What the apply and the commit of a writable layer make of it.
Applied(i) == IF writable[i] = "fresh" /\ tar[i] = "good" /\ IntactBelow(i)
              THEN "good" ELSE "bad"

\* BuildLayer, second part: overlaybd-apply writes layer.tar into the writable
\* layer over the lowers and overlaybd-commit makes the commit file of it. What
\* fails half-way leaves a used writable layer, and maybe a commit file.
ApplyAndCommit(i) ==
    /\ Running
    /\ cv[i] = "apply" /\ ~turbo
    /\ \/ /\ commit' = [commit EXCEPT ![i] = Applied(i)]
          /\ tar' = [tar EXCEPT ![i] = IF Reserve THEN @ ELSE "unverified"]
          /\ writable' = [writable EXCEPT ![i] = IF Reserve THEN "used" ELSE "absent"]
          /\ lowers' = Append(lowers, i)
          /\ cv' = [cv EXCEPT ![i] = FirstSend(i)]
       \/ /\ writable' = [writable EXCEPT ![i] = "used"]
          /\ commit' \in {commit, [commit EXCEPT ![i] = "bad"]}
          /\ cv' = [cv EXCEPT ![i] = "failed"]
          /\ UNCHANGED <<tar, lowers>>
    /\ UNCHANGED <<main, result, err, outer, dedup, dl, up, archive, turbo,
                   fromDedup, desc, registry, database, runs>>

\* The same of the turboOCI engine: the commit file is renamed and packed, the
\* tar stays, and the writable layer goes even with --reserve.
ApplyAndArchive(i) ==
    /\ Running
    /\ cv[i] = "apply" /\ turbo
    /\ \/ /\ archive' = [archive EXCEPT ![i] = Applied(i)]
          /\ commit' = [commit EXCEPT ![i] = "absent"]
          /\ writable' = [writable EXCEPT ![i] = "absent"]
          /\ lowers' = Append(lowers, i)
          /\ cv' = [cv EXCEPT ![i] = FirstSend(i)]
       \/ /\ writable' = [writable EXCEPT ![i] = "used"]
          /\ \/ commit' \in {commit, [commit EXCEPT ![i] = "bad"]} /\ UNCHANGED archive
             \/ /\ commit' = [commit EXCEPT ![i] = "absent"]
                /\ archive' = [archive EXCEPT ![i] = "bad"]
          /\ cv' = [cv EXCEPT ![i] = "failed"]
          /\ UNCHANGED lowers
    /\ UNCHANGED <<main, result, err, outer, dedup, dl, up, tar, turbo, fromDedup,
                   desc, registry, database, runs>>

\* A pending send on converted[i] gives up when the context is done.
DropConverted(i) ==
    /\ Running
    /\ cv[i] \in {"send1", "send2"} /\ Cancelled
    /\ cv' = [cv EXCEPT ![i] = AfterSend(@)]
    /\ UNCHANGED <<main, result, err, outer, dedup, dl, up, workdir, engine,
                   registry, database, runs>>

-----------------------------------------------------------------------------
(* The upload goroutine of layer i.                                        *)

ConvertedReceived(i) ==
    /\ Running
    /\ up[i] = "waitConverted" /\ ~Cancelled
    /\ \/ /\ cv[i] \in {"send1", "send2"}
          /\ cv' = [cv EXCEPT ![i] = AfterSend(@)]
       \/ ClosedConverted(i) /\ UNCHANGED cv
    /\ up' = [up EXCEPT ![i] = "upload"]
    /\ UNCHANGED <<main, result, err, outer, dedup, dl, workdir, engine,
                   registry, database, runs>>

\* Mutant: a push that fails is not reported.
PushErrorDropped(i) ==
    /\ Running
    /\ up[i] = "upload" /\ LayerFile(i) # "absent"
    /\ blobs' \in {blobs, blobs \cup {<<turbo, i, LayerFile(i)>>}}
    /\ desc' = [desc EXCEPT ![i] = LayerFile(i)]
    /\ up' = [up EXCEPT ![i] = "store"]
    /\ UNCHANGED <<main, result, err, outer, dedup, dl, cv, workdir, turbo,
                   fromDedup, lowers, tag, database, runs>>

\* The digest of a deduplicated layer is checked against the one expected.
UploadLayer(i) ==
    /\ Running
    /\ up[i] = "upload"
    /\ \/ /\ LayerFile(i) # "absent"
          /\ fromDedup[i] => LayerFile(i) = desc[i]
          /\ blobs' = blobs \cup {<<turbo, i, LayerFile(i)>>}
          /\ \/ /\ desc' = [desc EXCEPT ![i] = LayerFile(i)]
                /\ up' = [up EXCEPT ![i] = "store"]
             \/ UNCHANGED desc /\ up' = [up EXCEPT ![i] = "failed"]
       \/ up' = [up EXCEPT ![i] = "failed"] /\ UNCHANGED <<blobs, desc>>
    /\ UNCHANGED <<main, result, err, outer, dedup, dl, cv, workdir, turbo,
                   fromDedup, lowers, tag, database, runs>>

\* An INSERT that a row with the same key refuses; its error is ignored.
StoreConvertedLayerDetails(i) ==
    /\ Running
    /\ up[i] = "store"
    /\ up' = [up EXCEPT ![i] = "done"]
    /\ \/ /\ UsesDatabase /\ ~fromDedup[i] /\ rows[i] = "none"
          /\ rows' = [rows EXCEPT ![i] = desc[i]]
       \/ UNCHANGED rows
    /\ UNCHANGED <<main, result, err, outer, dedup, dl, cv, workdir, engine,
                   registry, mrow, runs>>

-----------------------------------------------------------------------------
(* Errors and cancellation.                                                *)

\* A wait that ends because the context is done returns rctx.Err().
AbortConvert(i) ==
    /\ Running
    /\ cv[i] \in {"waitDownloaded", "waitParent"} /\ Cancelled
    /\ cv' = [cv EXCEPT ![i] = "failed"]
    /\ UNCHANGED <<main, result, err, outer, dedup, dl, up, workdir, engine,
                   registry, database, runs>>

AbortUpload(i) ==
    /\ Running
    /\ up[i] = "waitConverted" /\ Cancelled
    /\ up' = [up EXCEPT ![i] = "failed"]
    /\ UNCHANGED <<main, result, err, outer, dedup, dl, cv, workdir, engine,
                   registry, database, runs>>

\* Mutant: a goroutine logs its error and returns nil.
ErrorSwallowed(i) ==
    /\ Running
    /\ \/ dl[i] = "failed" /\ dl' = [dl EXCEPT ![i] = "done"] /\ UNCHANGED <<cv, up>>
       \/ cv[i] = "failed" /\ cv' = [cv EXCEPT ![i] = "done"] /\ UNCHANGED <<dl, up>>
       \/ up[i] = "failed" /\ up' = [up EXCEPT ![i] = "done"] /\ UNCHANGED <<dl, cv>>
    /\ UNCHANGED <<main, result, err, outer, dedup, workdir, engine, registry,
                   database, runs>>

\* The errgroup takes the error of a goroutine that has returned, and cancels.
RecordError(i) ==
    /\ Running
    /\ \/ dl[i] = "failed" /\ dl' = [dl EXCEPT ![i] = "done"] /\ UNCHANGED <<cv, up>>
       \/ cv[i] = "failed" /\ cv' = [cv EXCEPT ![i] = "done"] /\ UNCHANGED <<dl, up>>
       \/ up[i] = "failed" /\ up' = [up EXCEPT ![i] = "done"] /\ UNCHANGED <<dl, cv>>
    /\ err' = TRUE
    /\ UNCHANGED <<main, result, outer, dedup, workdir, engine, registry,
                   database, runs>>

\* Another manifest of the same index failed: the context of Build is done.
CancelOuter ==
    /\ Running
    /\ ~outer
    /\ outer' = TRUE
    /\ UNCHANGED <<main, result, err, goroutines, workdir, engine, registry,
                   database, runs>>

-----------------------------------------------------------------------------
(* Build after the goroutines.                                             *)

AllReturned == \A i \in Layers : dedup[i] = "done" /\ dl[i] = "done"
                                 /\ cv[i] = "done" /\ up[i] = "done"

GroupWait ==
    /\ Running
    /\ AllReturned
    /\ IF err THEN main' = "cleanup" /\ result' = "failed"
              ELSE main' = "uploadImage" /\ UNCHANGED result
    /\ UNCHANGED <<err, outer, goroutines, workdir, engine, registry, database,
                   runs>>

\* Mutant: a manifest that could not be pushed counts as uploaded.
ManifestErrorDropped ==
    /\ main = "uploadImage"
    /\ tag' \in {tag, Tagged("good")}
    /\ main' = "storeManifest"
    /\ UNCHANGED <<result, err, outer, goroutines, workdir, engine, blobs,
                   database, runs>>

\* The manifest lists the descriptors the upload goroutines left.
Manifest == Image(desc)

UploadImage ==
    /\ main = "uploadImage"
    /\ \/ tag' = Tagged(Manifest) /\ main' = "storeManifest" /\ UNCHANGED result
       \/ tag' \in {tag, Tagged(Manifest)} /\ main' = "cleanup" /\ result' = "failed"
    /\ UNCHANGED <<err, outer, goroutines, workdir, engine, blobs, database,
                   runs>>

StoreConvertedManifestDetails ==
    /\ main = "storeManifest"
    /\ main' = "cleanup"
    /\ result' = "converted"
    /\ \/ UsesDatabase /\ mrow = "none" /\ mrow' = tag[turbo]
       \/ UNCHANGED mrow
    /\ UNCHANGED <<err, outer, goroutines, workdir, engine, registry, rows, runs>>

\* The deferred Cleanup removes the working directory unless it is reserved.
Cleanup ==
    /\ main = "cleanup"
    /\ main' = "done"
    /\ IF Reserve THEN UNCHANGED workdir
       ELSE /\ tar' = [i \in Layers |-> "unverified"]
            /\ writable' = [i \in Layers |-> "absent"]
            /\ commit' = [i \in Layers |-> "absent"]
            /\ archive' = [i \in Layers |-> "absent"]
    /\ UNCHANGED <<result, err, outer, goroutines, engine, registry, database,
                   runs>>

\* Build begins anew. What one engine has unpacked or created is not what the
\* other one would.
EnterBuild(t) ==
    /\ main' = "check" /\ result' = "none"
    /\ err' = FALSE /\ outer' = FALSE
    /\ dedup' = [i \in Layers |-> "check"]
    /\ dl' = [i \in Layers |-> "wait"]
    /\ cv' = [i \in Layers |-> "waitDownloaded"]
    /\ up' = [i \in Layers |-> "waitConverted"]
    /\ turbo' = t
    /\ fromDedup' = [i \in Layers |-> FALSE]
    /\ desc' = [i \in Layers |-> "none"]
    /\ lowers' = <<>>
    /\ IF t = turbo THEN UNCHANGED <<tar, writable>>
       ELSE /\ tar' = [i \in Layers |-> "unverified"]
            /\ writable' = [i \in Layers |-> IF writable[i] = "absent" THEN "absent"
                                                                   ELSE "used"]
    /\ UNCHANGED <<commit, archive, registry, database>>

\* The command goes on to the turboOCI image in the same working directory.
LastOutput == turbo \/ "turboOCI" \notin Outputs
NextOutput ==
    /\ main = "done" /\ result # "failed" /\ ~LastOutput
    /\ EnterBuild(TRUE)
    /\ UNCHANGED runs

\* The process ends, by os.Exit on an interrupt at any point, and the same
\* command is started again in the same working directory.
Restart ==
    /\ runs < MaxRuns
    /\ runs' = runs + 1
    /\ EnterBuild(FirstIsTurbo)

-----------------------------------------------------------------------------

DedupStep(i) == CheckForConvertedLayer(i) \/ OfferCached(i) \/ DropOffer(i)

DownloadStep(i) ==
    \/ OfferCached(i) \/ NothingCached(i) \/ DownloadConvertedLayer(i)
    \/ DownloadLayer(i) \/ SendDownloaded(i)

ConvertStep(i) ==
    \/ SendDownloaded(i) \/ DownloadedClosed(i) \/ ParentConverted(i)
    \/ PrepareLayer(i) \/ ApplyAndCommit(i) \/ ApplyAndArchive(i)
    \/ DropConverted(i) \/ AbortConvert(i)

UploadStep(i) ==
    \/ ConvertedReceived(i) \/ UploadLayer(i) \/ StoreConvertedLayerDetails(i)
    \/ AbortUpload(i)

MainStep ==
    \/ CheckForConvertedManifest \/ MountConvertedManifest
    \/ TagPreviouslyConvertedManifest \/ GroupWait \/ UploadImage
    \/ StoreConvertedManifestDetails \/ Cleanup

LayerStep(i) ==
    \/ DedupStep(i) \/ DownloadStep(i) \/ ConvertStep(i) \/ UploadStep(i)
    \/ RecordError(i)

Next ==
    \/ MainStep \/ CancelOuter \/ NextOutput \/ Restart
    \/ \E i \in Layers : LayerStep(i)

Safety == Init /\ [][Next]_vars

\* The Go scheduler runs every goroutine that can run, and every call to the
\* registry, the database and the overlaybd tools returns.
Spec ==
    /\ Safety
    /\ WF_vars(MainStep) /\ WF_vars(NextOutput)
    /\ \A i \in Layers :
          /\ WF_vars(DedupStep(i)) /\ WF_vars(DownloadStep(i))
          /\ WF_vars(ConvertStep(i)) /\ WF_vars(UploadStep(i))
          /\ WF_vars(RecordError(i))

-----------------------------------------------------------------------------

\* Each variable stays among the values its comment names, through failures,
\* cancellation and restarts.
TypeOK ==
    /\ main \in {"check", "mountImage", "tag", "wait", "uploadImage",
                 "storeManifest", "cleanup", "done"}
    /\ result \in {"none", "reused", "converted", "failed"}
    /\ err \in BOOLEAN /\ outer \in BOOLEAN
    /\ dedup \in [Layers -> {"check", "offer", "done"}]
    /\ dl \in [Layers -> {"wait", "fetchConverted", "fetchLayer", "send",
                          "failed", "done"}]
    /\ cv \in [Layers -> {"waitDownloaded", "waitParent", "build", "apply",
                          "send1", "send2", "failed", "done"}]
    /\ up \in [Layers -> {"waitConverted", "upload", "store", "failed", "done"}]
    /\ tar \in [Layers -> {"unverified", "good"}]
    /\ writable \in [Layers -> {"absent", "fresh", "used"}]
    /\ commit \in [Layers -> Quality \cup {"absent"}]
    /\ archive \in [Layers -> Quality \cup {"absent"}]
    /\ turbo \in BOOLEAN
    /\ fromDedup \in [Layers -> BOOLEAN]
    /\ desc \in [Layers -> Quality \cup {"none"}]
    /\ lowers \in Seq(Layers)
    /\ blobs \subseteq BOOLEAN \X Layers \X Quality
    /\ rows \in [Layers -> Quality \cup {"none"}]
    /\ tag \in [BOOLEAN -> Quality \cup {"none"}]
    /\ mrow \in Quality \cup {"none"}
    /\ runs \in 0 .. MaxRuns

\* BuildLayer calls of different layers never overlap, although nothing but the
\* channels orders them: they read and write the one overlaybdConfig of the
\* engine without a lock (builder.go Build, overlaybd_builder.go BuildLayer).
Building(i) == cv[i] \in {"build", "apply"}
SerialBuild == \A i, j \in Layers : Building(i) /\ Building(j) => i = j

\* When Build goes on to upload the manifest, every layer was downloaded or
\* deduplicated, the lowers are all the layers in manifest order, each was
\* built over intact predecessors, and the blob the manifest will name is in
\* the repository. A channel that is closed by a failing goroutine releases
\* its readers before the context is cancelled, so later steps of the layers
\* do run on missing input: none of them may lead to a published image.
PublishComplete ==
    main \in {"uploadImage", "storeManifest"} =>
        /\ lowers = Chain(N)
        /\ \A i \in Layers : desc[i] = "good" /\ <<turbo, i, "good">> \in blobs

\* A row for a layer is only ever added or changed when the blob it names is
\* already in the repository, whatever fails and whenever the process ends
\* (CheckForConvertedLayer, StoreConvertedLayerDetails). It says nothing of
\* what the blob holds.
RowsNameUploadedBlobs ==
    [][\A i \in Layers : rows'[i] \notin {"none", rows[i]}
                            => <<FALSE, i, rows'[i]>> \in blobs']_vars

\* A conversion that succeeds leaves no row that names something else than the
\* conversion of its layer. A row is stored by the upload goroutine while the
\* others still run (StoreConvertedLayerDetails), and one that is released by
\* the channel of a failing goroutine may store a layer that was built from
\* missing input: the failure must then be the result of Build.
SuccessStoresIntactRows ==
    result \in {"reused", "converted"} => \A i \in Layers : rows[i] # "bad"

\* "This should not happen" (BuildLayer): a layer that was not deduplicated has
\* no commit file when its conversion starts, in a working directory that no
\* interrupted process has left.
CommitFileOnlyFromDedup ==
    runs = 0 /\ ~turbo => \A i \in Layers : cv[i] = "build" /\ ~fromDedup[i]
                                              => commit[i] = "absent"

\* Every command ends: no goroutine waits for ever on an unbuffered channel,
\* whichever calls fail and whenever the context is cancelled.
Ended == main = "done" /\ (result = "failed" \/ LastOutput)
Terminates == <>Ended

-----------------------------------------------------------------------------

Outcome == CASE main # "done" -> "pending"
             [] main = "done" /\ result = "failed" -> "failure"
             [] OTHER -> "success"

Overlaybd == INSTANCE ConversionContract WITH
    tag <- tag[FALSE],
    outcome <- IF ~turbo THEN Outcome
               ELSE IF FirstIsTurbo THEN "pending" ELSE "success"
TurboOCI == INSTANCE ConversionContract WITH
    tag <- tag[TRUE],
    outcome <- IF turbo THEN Outcome ELSE "pending"

\* Without a restart, the conversion to either image implements the contract.
ImplementsContract == Overlaybd!Safety /\ TurboOCI!Safety
=============================================================================
