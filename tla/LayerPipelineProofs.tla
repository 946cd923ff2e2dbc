------------------------ MODULE LayerPipelineProofs ------------------------
(* Theorems about LayerPipeline for every number of layers N.              *)
EXTENDS LayerPipeline, TLAPS

-----------------------------------------------------------------------------
(* Types.                                                                  *)

\* The layer that a download goroutine is told of has a row: the row is only
\* deleted by the deduplication goroutine that has not made its offer yet.
OffersHaveRows ==
    \A i \in Layers :
        /\ dedup[i] = "offer" => rows[i] # "none"
        /\ dl[i] = "fetchConverted" => dedup[i] = "done" /\ rows[i] # "none"

\* The turboOCI engine deduplicates nothing.
TurboIsPlain ==
    turbo => \A i \in Layers : ~fromDedup[i] /\ dedup[i] # "offer"
                                /\ dl[i] # "fetchConverted"

\* TypeOK is not inductive alone: the commit file a layer is downloaded to has
\* the quality of its row, which must be there.
TypeInv ==
    TypeOK /\ OffersHaveRows /\ TurboIsPlain /\ (FirstIsTurbo => turbo)

\* The initial states have the types of TypeOK.
LEMMA TypeInit == Init => TypeInv
  <1> SUFFICES ASSUME Init PROVE TypeInv
    OBVIOUS
  <1>1. /\ dedup \in [Layers -> {"check", "offer", "done"}]
        /\ dl \in [Layers -> {"wait", "fetchConverted", "fetchLayer", "send",
                              "failed", "done"}]
        /\ cv \in [Layers -> {"waitDownloaded", "waitParent", "build", "apply",
                              "send1", "send2", "failed", "done"}]
        /\ up \in [Layers -> {"waitConverted", "upload", "store", "failed", "done"}]
        /\ fromDedup \in [Layers -> BOOLEAN]
        /\ desc \in [Layers -> Quality \cup {"none"}]
        /\ lowers \in Seq(Layers)
    BY DEF Init, NewMemory
  <1>2. /\ tar \in [Layers -> {"unverified", "good"}]
        /\ writable \in [Layers -> {"absent", "fresh", "used"}]
        /\ commit \in [Layers -> Quality \cup {"absent"}]
        /\ archive \in [Layers -> Quality \cup {"absent"}]
    BY DEF Init, EmptyWorkdir
  <1>3. /\ rows \in [Layers -> Quality \cup {"none"}]
        /\ mrow \in Quality \cup {"none"}
    <2>1. rows \in [Layers -> OldRows \cup {"none"}]
      BY DEF Init
    <2>2. mrow \in {"none"} \cup {Image(f) : f \in OldImages}
      BY DEF Init
    <2> QED
      BY <2>1, <2>2, OldAssumption DEF Quality, Image
  <1>4. blobs \subseteq BOOLEAN \X Layers \X Quality
    <2> SUFFICES ASSUME NEW b \in blobs PROVE b \in BOOLEAN \X Layers \X Quality
      OBVIOUS
    <2>1. PICK i \in Layers : b = <<FALSE, i, rows[i]>> /\ rows[i] # "none"
      BY DEF Init
    <2> QED
      BY <1>3, <2>1
  <1>5. runs \in 0 .. MaxRuns
    BY RunsAssumption DEF Init
  <1>6. turbo \in BOOLEAN /\ tag \in [BOOLEAN -> Quality \cup {"none"}]
    BY DEF Init, FirstIsTurbo
  <1>7. OffersHaveRows /\ TurboIsPlain
    BY DEF Init, NewMemory, OffersHaveRows, TurboIsPlain
  <1> QED
    BY <1>1, <1>2, <1>3, <1>4, <1>5, <1>6, <1>7
       DEF Init, NewMemory, TypeInv, TypeOK, Quality

\* The receive of what a download has announced.
LEMMA SendDownloadedTyped ==
  ASSUME TypeInv, NEW i \in Layers, SendDownloaded(i)
  PROVE  TypeInv'
  <1>1. /\ UNCHANGED <<main, result, err, outer, dedup, up, workdir, engine,
                       registry, database, runs>>
        /\ dl' = [dl EXCEPT ![i] = "done"]
        /\ cv' \in {cv, [cv EXCEPT ![i] = "build"], [cv EXCEPT ![i] = "waitParent"]}
    BY DEF SendDownloaded
  <1>2. dl' \in [Layers -> {"wait", "fetchConverted", "fetchLayer", "send",
                           "failed", "done"}]
    BY <1>1 DEF TypeInv, TypeOK
  <1>3. cv' \in [Layers -> {"waitDownloaded", "waitParent", "build", "apply",
                           "send1", "send2", "failed", "done"}]
    BY <1>1 DEF TypeInv, TypeOK
  <1>4. OffersHaveRows' /\ TurboIsPlain'
    BY <1>1 DEF TypeInv, TypeOK, OffersHaveRows, TurboIsPlain, engine, database
  <1> QED
    BY <1>1, <1>2, <1>3, <1>4
       DEF TypeInv, TypeOK, workdir, engine, registry, database

\* The search for a converted layer changes the row of that layer alone: it
\* deletes it, or inserts one whose blob it has mounted.
LEMMA CheckedLayer ==
  ASSUME rows \in [Layers -> Quality \cup {"none"}], NEW i \in Layers,
         CheckForConvertedLayer(i)
  PROVE  /\ UNCHANGED <<main, result, err, outer, dl, cv, up, workdir, engine, tag,
                        mrow, runs>>
         /\ dedup[i] = "check"
         /\ \/ dedup' = [dedup EXCEPT ![i] = "done"]
            \/ /\ dedup' = [dedup EXCEPT ![i] = "offer"]
               /\ UsesDatabase /\ rows'[i] # "none"
         /\ \/ blobs' = blobs
            \/ \E q \in OldRows : blobs' = blobs \cup {<<FALSE, i, q>>}
         /\ \E q \in OldRows \cup {"none"} :
               rows' = rows \/ rows' = [rows EXCEPT ![i] = q]
         /\ rows'[i] \notin {"none", rows[i]} => <<FALSE, i, rows'[i]>> \in blobs'
  <1>1. /\ UNCHANGED <<main, result, err, outer, dl, cv, up, workdir, engine, tag,
                       mrow, runs>>
        /\ dedup[i] = "check"
    BY DEF CheckForConvertedLayer
  <1>2. [rows EXCEPT ![i] = IF Stale(i) THEN "none" ELSE @]
            \in {rows, [rows EXCEPT ![i] = "none"]}
    OBVIOUS
  <1>3. CASE /\ UsesDatabase /\ rows[i] # "none"
             /\ dedup' = [dedup EXCEPT ![i] = "offer"]
             /\ UNCHANGED <<rows, blobs>>
    BY <1>1, <1>3
  <1>4. CASE /\ dedup' = [dedup EXCEPT ![i] = "done"]
             /\ rows' \in {rows, [rows EXCEPT ![i] = "none"]}
             /\ \/ UNCHANGED blobs
                \/ \E q \in OldRows : blobs' = blobs \cup {<<FALSE, i, q>>}
    <2>1. rows'[i] \in {"none", rows[i]}
      BY <1>4
    <2> QED
      BY <1>1, <1>4, <2>1
  <1>5. ASSUME NEW q \in OldRows,
               blobs' = blobs \cup {<<FALSE, i, q>>},
               rows' = [rows EXCEPT ![i] = q]
        PROVE  /\ rows'[i] # "none"
               /\ rows'[i] \notin {"none", rows[i]} => <<FALSE, i, rows'[i]>> \in blobs'
    <2>1. rows'[i] = q
      BY <1>5
    <2>2. q # "none"
      BY OldAssumption DEF Quality
    <2> QED
      BY <1>5, <2>1, <2>2
  <1>6. \/ /\ UsesDatabase /\ rows[i] # "none"
           /\ dedup' = [dedup EXCEPT ![i] = "offer"]
           /\ UNCHANGED <<rows, blobs>>
        \/ /\ dedup' = [dedup EXCEPT ![i] = "done"]
           /\ rows' \in {rows, [rows EXCEPT ![i] = IF Stale(i) THEN "none" ELSE @]}
           /\ \/ UNCHANGED blobs
              \/ \E q \in OldRows : blobs' = blobs \cup {<<FALSE, i, q>>}
        \/ \E q \in OldRows : /\ UsesDatabase
                              /\ blobs' = blobs \cup {<<FALSE, i, q>>}
                              /\ dedup' = [dedup EXCEPT ![i] = "offer"]
                              /\ rows' = [rows EXCEPT ![i] = q]
    BY ZenonT(60) DEF CheckForConvertedLayer
  <1> QED
    BY <1>1, <1>2, <1>3, <1>4, <1>5, <1>6

\* So it keeps the types.
LEMMA CheckedLayerTyped ==
  ASSUME TypeInv, NEW i \in Layers, CheckForConvertedLayer(i)
  PROVE  TypeInv'
  <1>0. /\ rows \in [Layers -> Quality \cup {"none"}]
        /\ dedup \in [Layers -> {"check", "offer", "done"}]
        /\ blobs \subseteq BOOLEAN \X Layers \X Quality
    BY DEF TypeInv, TypeOK
  <1>1. /\ UNCHANGED <<main, result, err, outer, dl, cv, up, workdir, engine, tag,
                       mrow, runs>>
        /\ dedup[i] = "check"
        /\ \/ dedup' = [dedup EXCEPT ![i] = "done"]
           \/ /\ dedup' = [dedup EXCEPT ![i] = "offer"]
              /\ UsesDatabase /\ rows'[i] # "none"
    BY <1>0, CheckedLayer
  <1>2. PICK q \in OldRows \cup {"none"} : rows' = rows \/ rows' = [rows EXCEPT ![i] = q]
    BY <1>0, CheckedLayer
  <1>3. rows' \in [Layers -> Quality \cup {"none"}]
    BY <1>0, <1>2, OldAssumption
  <1>4. blobs' \subseteq BOOLEAN \X Layers \X Quality
    <2>1. CASE blobs' = blobs
      BY <1>0, <2>1
    <2>2. ASSUME NEW b \in OldRows, blobs' = blobs \cup {<<FALSE, i, b>>}
          PROVE  blobs' \subseteq BOOLEAN \X Layers \X Quality
      <3>1. <<FALSE, i, b>> \in BOOLEAN \X Layers \X Quality
        BY OldAssumption
      <3> QED
        BY <1>0, <2>2, <3>1
    <2> QED
      BY <1>0, <2>1, <2>2, CheckedLayer
  <1>5. dedup' \in [Layers -> {"check", "offer", "done"}]
    BY <1>0, <1>1
  <1>6. TurboIsPlain'
    BY <1>0, <1>1 DEF TypeInv, TurboIsPlain, UsesDatabase, engine
  <1>7. OffersHaveRows'
    <2>1. \A k \in Layers \ {i} : dedup'[k] = dedup[k] /\ rows'[k] = rows[k]
      BY <1>0, <1>1, <1>2
    <2>2. dl'[i] # "fetchConverted" /\ (dedup'[i] = "offer" => rows'[i] # "none")
      BY <1>0, <1>1 DEF TypeInv, OffersHaveRows
    <2> QED
      BY <1>1, <2>1, <2>2 DEF TypeInv, OffersHaveRows
  <1> QED
    BY <1>1, <1>3, <1>4, <1>5, <1>6, <1>7 DEF TypeInv, TypeOK, workdir, engine

\* mountImage leaves the memory of Build alone, adds blobs that earlier
\* conversions have made, and may tag an image of such blobs.
LEMMA MountedManifest ==
  ASSUME MountConvertedManifest
  PROVE  /\ UNCHANGED <<result, err, outer, goroutines, workdir, engine, rows, runs>>
         /\ main = "mountImage" /\ main' \in {"tag", "wait"}
         /\ blobs \subseteq blobs'
         /\ blobs' \subseteq blobs \cup ({FALSE} \X Layers \X OldRows)
         /\ \/ main' = "wait" /\ UNCHANGED <<tag, mrow>>
            \/ \E f \in [Layers -> OldRows] :
                  /\ tag' = Tagged(Image(f))
                  /\ \/ mrow' = Image(f)
                     \/ main' = "wait" /\ UNCHANGED mrow
  <1>1. OldImages \subseteq [Layers -> OldRows]
    BY DEF OldImages
  <1>2. PICK mounted \in SUBSET UNION {Mounted(f) : f \in OldImages} :
            blobs' = blobs \cup mounted
    BY DEF MountConvertedManifest
  <1>3. mounted \subseteq {FALSE} \X Layers \X OldRows
    <2> SUFFICES ASSUME NEW b \in mounted PROVE b \in {FALSE} \X Layers \X OldRows
      OBVIOUS
    <2>1. PICK f \in OldImages : b \in Mounted(f)
      BY <1>2
    <2>2. PICK i \in Layers : b = <<FALSE, i, f[i]>>
      BY <2>1 DEF Mounted
    <2>3. f[i] \in OldRows
      BY <1>1, <2>1
    <2> QED
      BY <2>2, <2>3
  <1>4. blobs \subseteq blobs' /\ blobs' \subseteq blobs \cup ({FALSE} \X Layers \X OldRows)
    BY <1>2, <1>3
  <1> QED
    BY <1>1, <1>4, ZenonT(30) DEF MountConvertedManifest

\* What earlier conversions made for an image is an image.
LEMMA OldImageTyped ==
  ASSUME NEW f \in [Layers -> OldRows]
  PROVE  Image(f) \in Quality /\ (OldRows \subseteq {"good"} => Image(f) = "good")
  <1>1. \A i \in Layers : f[i] \in OldRows
    OBVIOUS
  <1> QED
    BY <1>1 DEF Image, Quality

\* Every step of Next keeps the types.
LEMMA TypeStep == TypeInv /\ [Next]_vars => TypeInv'
  <1> SUFFICES ASSUME TypeInv, [Next]_vars PROVE TypeInv'
    OBVIOUS
  <1> USE DEF TypeInv, OffersHaveRows, TurboIsPlain, TypeOK, Quality,
              goroutines, workdir, engine, registry, database
  <1>0. ASSUME NEW q \in Quality \cup {"none"}
        PROVE  Tagged(q) \in [BOOLEAN -> Quality \cup {"none"}]
    BY DEF Tagged
  <1>1. CASE MainStep
    <2>1. CASE CheckForConvertedManifest
      BY <2>1 DEF CheckForConvertedManifest
    <2>1a. CASE MountConvertedManifest
      <3> DEFINE Blobs == BOOLEAN \X Layers \X Quality
      <3>1. {FALSE} \X Layers \X OldRows \subseteq Blobs /\ blobs \subseteq Blobs
        BY OldAssumption
      <3> HIDE DEF Blobs
      <3>2. blobs' \subseteq Blobs
        BY <2>1a, <3>1, MountedManifest
      <3>3. blobs' \subseteq BOOLEAN \X Layers \X Quality
        BY <3>2 DEF Blobs
      <3>4. /\ tag' \in [BOOLEAN -> Quality \cup {"none"}]
            /\ mrow' \in Quality \cup {"none"}
        BY <1>0, <2>1a, MountedManifest, OldImageTyped
      <3> QED
        BY <2>1a, <3>3, <3>4, MountedManifest
    <2>2. CASE TagPreviouslyConvertedManifest
      BY <1>0, <2>2 DEF TagPreviouslyConvertedManifest
    <2>3. CASE GroupWait
      BY <2>3 DEF GroupWait
    <2>4. CASE UploadImage
      BY <1>0, <2>4 DEF UploadImage, Manifest, Image
    <2>5. CASE StoreConvertedManifestDetails
      BY <2>5 DEF StoreConvertedManifestDetails
    <2>6. CASE Cleanup
      BY <2>6 DEF Cleanup
    <2> QED
      BY <1>1, <2>1, <2>1a, <2>2, <2>3, <2>4, <2>5, <2>6 DEF MainStep
  <1>2. CASE CancelOuter
    BY <1>2 DEF CancelOuter
  <1>3. CASE NextOutput \/ Restart
    <2>0. PICK t \in BOOLEAN : EnterBuild(t) /\ (FirstIsTurbo => t)
      BY <1>3 DEF NextOutput, Restart, FirstIsTurbo
    <2>1. runs' \in 0 .. MaxRuns
      <3>1. CASE NextOutput
        BY <3>1 DEF NextOutput
      <3>2. CASE Restart
        <4>1. runs < MaxRuns /\ runs' = runs + 1 /\ runs \in 0 .. MaxRuns
          BY <3>2 DEF Restart
        <4> QED
          BY <4>1, RunsAssumption
      <3> QED
        BY <1>3, <3>1, <3>2
    <2>2. lowers' \in Seq(Layers)
      BY <2>0 DEF EnterBuild
    <2>3. /\ dedup' \in [Layers -> {"check", "offer", "done"}]
          /\ dl' \in [Layers -> {"wait", "fetchConverted", "fetchLayer", "send",
                                 "failed", "done"}]
          /\ cv' \in [Layers -> {"waitDownloaded", "waitParent", "build", "apply",
                                 "send1", "send2", "failed", "done"}]
          /\ up' \in [Layers -> {"waitConverted", "upload", "store", "failed",
                                 "done"}]
          /\ fromDedup' \in [Layers -> BOOLEAN]
          /\ desc' \in [Layers -> Quality \cup {"none"}]
      BY <2>0 DEF EnterBuild
    <2>4. OffersHaveRows' /\ TurboIsPlain'
      BY <2>0 DEF EnterBuild
    <2>5. /\ tar' \in [Layers -> {"unverified", "good"}]
          /\ writable' \in [Layers -> {"absent", "fresh", "used"}]
      BY <2>0 DEF EnterBuild
    <2>6. /\ turbo' \in BOOLEAN /\ (FirstIsTurbo => turbo')
          /\ main' = "check" /\ result' = "none" /\ err' = FALSE /\ outer' = FALSE
          /\ UNCHANGED <<commit, archive, blobs, tag, rows, mrow>>
      BY <2>0 DEF EnterBuild
    <2> QED
      BY <2>1, <2>2, <2>3, <2>4, <2>5, <2>6 DEF FirstIsTurbo
  <1>4. ASSUME NEW i \in Layers, DedupStep(i)
        PROVE  TypeInv'
    <2>1. CASE CheckForConvertedLayer(i)
      BY <2>1, CheckedLayerTyped
    <2>2. CASE OfferCached(i)
      BY <2>2 DEF OfferCached
    <2>3. CASE DropOffer(i)
      BY <2>3 DEF DropOffer
    <2> QED
      BY <1>4, <2>1, <2>2, <2>3 DEF DedupStep
  <1>5. ASSUME NEW i \in Layers, DownloadStep(i)
        PROVE  TypeInv'
    <2>1. CASE OfferCached(i)
      BY <2>1 DEF OfferCached
    <2>2. CASE NothingCached(i)
      BY <2>2 DEF NothingCached
    <2>3. CASE DownloadConvertedLayer(i)
      <3>1. rows[i] \in Quality
        BY <2>3 DEF DownloadConvertedLayer
      <3>2. /\ commit' \in [Layers -> Quality \cup {"absent"}]
            /\ desc' \in [Layers -> Quality \cup {"none"}]
        BY <2>3, <3>1 DEF DownloadConvertedLayer
      <3>3. /\ dl' \in [Layers -> {"wait", "fetchConverted", "fetchLayer", "send",
                                   "failed", "done"}]
            /\ fromDedup' \in [Layers -> BOOLEAN]
        <4>1. dl' \in [Layers -> {"wait", "fetchConverted", "fetchLayer", "send",
                                  "failed", "done"}]
          <5>1. dl' \in {[dl EXCEPT ![i] = "send"], [dl EXCEPT ![i] = "fetchLayer"]}
            BY <2>3 DEF DownloadConvertedLayer
          <5> QED
            BY <5>1
        <4>2. CASE fromDedup' = fromDedup
          BY <4>1, <4>2
        <4>3. CASE fromDedup' = [fromDedup EXCEPT ![i] = TRUE]
          BY <4>1, <4>3
        <4> QED
          BY <2>3, <4>2, <4>3 DEF DownloadConvertedLayer
      <3>4. OffersHaveRows' /\ TurboIsPlain'
        BY <2>3 DEF DownloadConvertedLayer
      <3> QED
        BY <2>3, <3>2, <3>3, <3>4 DEF DownloadConvertedLayer
    <2>4. CASE DownloadLayer(i)
      <3>1. tar' \in [Layers -> {"unverified", "good"}]
        <4>1. \E q \in {"unverified", "good"} : tar' \in {tar, [tar EXCEPT ![i] = q]}
          BY <2>4 DEF DownloadLayer
        <4> QED
          BY <4>1
      <3>2. dl' \in [Layers -> {"wait", "fetchConverted", "fetchLayer", "send",
                               "failed", "done"}]
        BY <2>4 DEF DownloadLayer
      <3>3. OffersHaveRows' /\ TurboIsPlain'
        BY <2>4 DEF DownloadLayer
      <3> QED
        BY <2>4, <3>1, <3>2, <3>3 DEF DownloadLayer
    <2>5. CASE SendDownloaded(i)
      BY <2>5, SendDownloadedTyped
    <2> QED
      BY <1>5, <2>1, <2>2, <2>3, <2>4, <2>5 DEF DownloadStep
  <1>6. ASSUME NEW i \in Layers, ConvertStep(i)
        PROVE  TypeInv'
    <2>1. CASE SendDownloaded(i)
      BY <2>1, SendDownloadedTyped
    <2>2. CASE DownloadedClosed(i)
      BY <2>2 DEF DownloadedClosed
    <2>3. CASE ParentConverted(i)
      <3>1. cv' \in [Layers -> {"waitDownloaded", "waitParent", "build", "apply",
                                "send1", "send2", "failed", "done"}]
        <4>1. AfterSend(cv[i - 1]) \in {"send1", "done"}
          BY DEF AfterSend
        <4>2. \/ cv' = [cv EXCEPT ![i] = "build"]
              \/ cv' = [[cv EXCEPT ![i] = "build"] EXCEPT ![i - 1] = AfterSend(cv[i - 1])]
          BY <2>3 DEF ParentConverted
        <4> QED
          BY <4>1, <4>2
      <3> QED
        BY <2>3, <3>1 DEF ParentConverted
    <2>4. CASE PrepareLayer(i)
      <3>1. writable' \in [Layers -> {"absent", "fresh", "used"}]
        <4>1. \/ UNCHANGED writable
              \/ writable' = [writable EXCEPT ![i] = IF @ = "absent" THEN "fresh"
                                                                     ELSE @]
          BY <2>4 DEF PrepareLayer
        <4> QED
          BY <4>1
      <3>2. cv' \in [Layers -> {"waitDownloaded", "waitParent", "build", "apply",
                                "send1", "send2", "failed", "done"}]
        <4>1. FirstSend(i) \in {"send1", "send2"}
          BY DEF FirstSend
        <4>2. \E pc \in {FirstSend(i), "failed", "apply"} : cv' = [cv EXCEPT ![i] = pc]
          BY <2>4 DEF PrepareLayer
        <4> QED
          BY <4>1, <4>2
      <3>3. lowers' \in Seq(Layers)
        <4>1. Append(lowers, i) \in Seq(Layers)
          OBVIOUS
        <4>2. lowers' \in {lowers, Append(lowers, i)}
          BY <2>4 DEF PrepareLayer
        <4> QED
          BY <4>1, <4>2
      <3> QED
        BY <2>4, <3>1, <3>2, <3>3 DEF PrepareLayer
    <2>5. CASE ApplyAndCommit(i)
      <3>1. tar' \in [Layers -> {"unverified", "good"}]
        <4>1. \/ UNCHANGED tar
              \/ tar' = [tar EXCEPT ![i] = IF Reserve THEN @ ELSE "unverified"]
          BY <2>5 DEF ApplyAndCommit
        <4> QED
          BY <4>1
      <3>2. writable' \in [Layers -> {"absent", "fresh", "used"}]
        BY <2>5 DEF ApplyAndCommit
      <3>3. commit' \in [Layers -> Quality \cup {"absent"}]
        <4>1. Applied(i) \in Quality
          BY DEF Applied
        <4>2. commit' = commit \/ \E q \in Quality : commit' = [commit EXCEPT ![i] = q]
          BY <2>5, <4>1 DEF ApplyAndCommit
        <4> QED
          BY <4>2
      <3>4. cv' \in [Layers -> {"waitDownloaded", "waitParent", "build", "apply",
                                "send1", "send2", "failed", "done"}]
        <4>1. FirstSend(i) \in {"send1", "send2"}
          BY DEF FirstSend
        <4>2. cv' \in {[cv EXCEPT ![i] = FirstSend(i)], [cv EXCEPT ![i] = "failed"]}
          BY <2>5 DEF ApplyAndCommit
        <4> QED
          BY <4>1, <4>2
      <3>5. lowers' \in Seq(Layers)
        <4>1. Append(lowers, i) \in Seq(Layers)
          OBVIOUS
        <4>2. lowers' \in {lowers, Append(lowers, i)}
          BY <2>5 DEF ApplyAndCommit
        <4> QED
          BY <4>1, <4>2
      <3> QED
        BY <2>5, <3>1, <3>2, <3>3, <3>4, <3>5 DEF ApplyAndCommit
    <2>6. CASE ApplyAndArchive(i)
      <3>1. /\ writable' \in [Layers -> {"absent", "fresh", "used"}]
            /\ commit' \in [Layers -> Quality \cup {"absent"}]
        BY <2>6, ZenonT(30) DEF ApplyAndArchive
      <3>2. archive' \in [Layers -> Quality \cup {"absent"}]
        <4>1. \E q \in Quality : archive' \in {archive, [archive EXCEPT ![i] = q]}
          BY <2>6 DEF ApplyAndArchive, Applied
        <4> QED
          BY <4>1
      <3>3. cv' \in [Layers -> {"waitDownloaded", "waitParent", "build", "apply",
                                "send1", "send2", "failed", "done"}]
        <4>1. FirstSend(i) \in {"send1", "send2"}
          BY DEF FirstSend
        <4>2. cv' \in {[cv EXCEPT ![i] = FirstSend(i)], [cv EXCEPT ![i] = "failed"]}
          BY <2>6 DEF ApplyAndArchive
        <4> QED
          BY <4>1, <4>2
      <3>4. lowers' \in Seq(Layers)
        <4>1. Append(lowers, i) \in Seq(Layers)
          OBVIOUS
        <4>2. lowers' \in {lowers, Append(lowers, i)}
          BY <2>6 DEF ApplyAndArchive
        <4> QED
          BY <4>1, <4>2
      <3> QED
        BY <2>6, <3>1, <3>2, <3>3, <3>4 DEF ApplyAndArchive
    <2>7. CASE DropConverted(i)
      BY <2>7 DEF DropConverted, AfterSend
    <2>8. CASE AbortConvert(i)
      BY <2>8 DEF AbortConvert
    <2> QED
      BY <1>6, <2>1, <2>2, <2>3, <2>4, <2>5, <2>6, <2>7, <2>8 DEF ConvertStep
  <1>7. ASSUME NEW i \in Layers, UploadStep(i)
        PROVE  TypeInv'
    <2>1. CASE ConvertedReceived(i)
      BY <2>1 DEF ConvertedReceived, AfterSend
    <2>2. CASE UploadLayer(i)
      <3>1. blobs' \subseteq BOOLEAN \X Layers \X Quality
        BY <2>2 DEF UploadLayer, LayerFile
      <3>2. desc' \in [Layers -> Quality \cup {"none"}]
        <4>1. \/ UNCHANGED desc
              \/ /\ LayerFile(i) \in Quality
                 /\ desc' = [desc EXCEPT ![i] = LayerFile(i)]
          BY <2>2 DEF UploadLayer, LayerFile
        <4> QED
          BY <4>1
      <3>3. up' \in [Layers -> {"waitConverted", "upload", "store", "failed",
                                "done"}]
        <4>1. up' \in {[up EXCEPT ![i] = "store"], [up EXCEPT ![i] = "failed"]}
          BY <2>2 DEF UploadLayer
        <4> QED
          BY <4>1
      <3> QED
        BY <2>2, <3>1, <3>2, <3>3 DEF UploadLayer
    <2>3. CASE StoreConvertedLayerDetails(i)
      <3>1. rows' = rows \/ (rows[i] = "none" /\ rows' = [rows EXCEPT ![i] = desc[i]])
        BY <2>3 DEF StoreConvertedLayerDetails
      <3>2. rows' \in [Layers -> Quality \cup {"none"}]
        BY <3>1
      <3>3. /\ up' = [up EXCEPT ![i] = "done"]
            /\ UNCHANGED <<main, result, err, outer, dedup, dl, cv, workdir, engine,
                           registry, mrow, runs>>
        BY <2>3 DEF StoreConvertedLayerDetails
      <3>4. OffersHaveRows' /\ TurboIsPlain'
        <4>1. \A k \in Layers : rows[k] # "none" => rows'[k] # "none"
          BY <3>1
        <4> QED
          BY <3>3, <4>1
      <3> QED
        BY <3>2, <3>3, <3>4
    <2>4. CASE AbortUpload(i)
      BY <2>4 DEF AbortUpload
    <2> QED
      BY <1>7, <2>1, <2>2, <2>3, <2>4 DEF UploadStep
  <1>8. ASSUME NEW i \in Layers, RecordError(i)
        PROVE  TypeInv'
    <2>1. CASE dl[i] = "failed" /\ dl' = [dl EXCEPT ![i] = "done"] /\ UNCHANGED <<cv, up>>
      BY <1>8, <2>1 DEF RecordError
    <2>2. CASE cv[i] = "failed" /\ cv' = [cv EXCEPT ![i] = "done"] /\ UNCHANGED <<dl, up>>
      BY <1>8, <2>2 DEF RecordError
    <2>3. CASE up[i] = "failed" /\ up' = [up EXCEPT ![i] = "done"] /\ UNCHANGED <<dl, cv>>
      BY <1>8, <2>3 DEF RecordError
    <2> QED
      BY <1>8, <2>1, <2>2, <2>3 DEF RecordError
  <1>9. CASE UNCHANGED vars
    BY <1>9 DEF vars
  <1> QED
    BY <1>1, <1>2, <1>3, <1>4, <1>5, <1>6, <1>7, <1>8, <1>9 DEF Next, LayerStep

\* TypeInv holds throughout.
LEMMA TypeInvariant == Safety => []TypeInv
  BY TypeInit, TypeStep, PTL DEF Safety

\* Every state of a conversion, restarts included, has the types of TypeOK.
THEOREM Typing == Safety => []TypeOK
  BY TypeInvariant, PTL DEF TypeInv

-----------------------------------------------------------------------------
(* One BuildLayer at a time.                                               *)

\* The convert goroutine of layer i has left BuildLayer, or will not enter it.
Past(i) == cv[i] \in {"send1", "send2", "failed", "done"}

\* A layer that is being built comes after layers that are past it. The same
\* is true of a layer that is past it unless it gave up, which it does only
\* when the context is cancelled; nobody enters BuildLayer after that.
Ordered ==
    \A i, k \in Layers :
        k < i /\ (Building(i) \/ (Past(i) /\ ~Cancelled)) => Past(k)

\* No layer is past BuildLayer when a process enters Build.
LEMMA OrderedInit == Init => Ordered
  BY DEF Init, NewMemory, Ordered, Building, Past

\* Every step keeps the order: only ParentConverted lets a layer in, when the
\* layer before it is past BuildLayer.
LEMMA OrderedStep == TypeInv /\ Ordered /\ [Next]_vars => Ordered'
  <1> SUFFICES ASSUME TypeInv, Ordered, [Next]_vars PROVE Ordered'
    OBVIOUS
  <1> USE DEF Ordered, Building, Past, Cancelled
  <1>0. cv \in [Layers -> {"waitDownloaded", "waitParent", "build", "apply",
                           "send1", "send2", "failed", "done"}]
    BY DEF TypeInv, TypeOK
  <1>1. CASE UNCHANGED <<cv, err, outer>>
    BY <1>1
  <1>2. CASE CancelOuter
    BY <1>2 DEF CancelOuter, goroutines
  <1>3. CASE NextOutput \/ Restart
    BY <1>3 DEF NextOutput, Restart, EnterBuild
  <1>4. ASSUME NEW i \in Layers, SendDownloaded(i) \/ DownloadedClosed(i)
        PROVE  Ordered'
    <2>1. UNCHANGED <<err, outer>>
      BY <1>4 DEF SendDownloaded, DownloadedClosed
    <2>2. CASE cv' = [cv EXCEPT ![i] = "waitParent"] /\ cv[i] = "waitDownloaded"
      BY <1>0, <2>1, <2>2
    <2>3. CASE i = 0 /\ cv' = [cv EXCEPT ![i] = "build"] /\ cv[i] = "waitDownloaded"
      BY <1>0, <2>1, <2>3, NAssumption DEF Layers
    <2> QED
      BY <1>1, <1>4, <2>1, <2>2, <2>3 DEF SendDownloaded, DownloadedClosed
  <1>5. ASSUME NEW i \in Layers, ParentConverted(i)
        PROVE  Ordered'
    <2>1. /\ UNCHANGED <<err, outer>>
          /\ ~Cancelled
          /\ cv[i] = "waitParent"
      BY <1>5 DEF ParentConverted
    <2>2. \A k \in Layers : Past(k) => Past(k)'
      BY <1>0, <1>5 DEF ParentConverted, AfterSend
    <2>3. \A k \in Layers \ {i} : Building(k)' => Building(k)
      BY <1>0, <1>5 DEF ParentConverted, AfterSend
    <2>4. \A k \in Layers : Past(k)' => Past(k)
      BY <1>0, <1>5 DEF ParentConverted, AfterSend
    <2>5. ASSUME NEW k \in Layers, k < i
          PROVE  Past(k)
      <3>1. i - 1 \in Layers /\ (k = i - 1 \/ k < i - 1)
        BY <2>5, NAssumption DEF Layers
      <3>2. Past(i - 1)
        BY <1>5 DEF ParentConverted, ClosedConverted
      <3> QED
        BY <2>1, <3>1, <3>2
    <2> QED
      BY <2>1, <2>2, <2>3, <2>4, <2>5
  <1>6. ASSUME NEW i \in Layers,
               PrepareLayer(i) \/ ApplyAndCommit(i) \/ ApplyAndArchive(i)
                 \/ DropConverted(i) \/ ConvertedReceived(i) \/ RecordError(i)
        PROVE  Ordered'
    <2>1. outer' = outer /\ (err => err')
      BY <1>6 DEF PrepareLayer, ApplyAndCommit, ApplyAndArchive, DropConverted,
                  ConvertedReceived, RecordError
    <2>2. \A k \in Layers \ {i} : cv'[k] = cv[k]
      BY <1>0, <1>6 DEF PrepareLayer, ApplyAndCommit, ApplyAndArchive,
                        DropConverted, ConvertedReceived, RecordError
    <2>3. /\ Past(i) => Past(i)'
          /\ Building(i)' \/ Past(i)' => Building(i) \/ Past(i)
          /\ Building(i)' => Building(i)
      BY <1>0, <1>6 DEF PrepareLayer, ApplyAndCommit, ApplyAndArchive,
                        DropConverted, ConvertedReceived, RecordError, FirstSend, AfterSend
    <2> QED
      BY <2>1, <2>2, <2>3
  <1>7. ASSUME NEW i \in Layers, AbortConvert(i)
        PROVE  Ordered'
    BY <1>0, <1>7 DEF AbortConvert
  <1> QED
    <2>1. CASE MainStep
      BY <1>1, <2>1 DEF MainStep, CheckForConvertedManifest, MountConvertedManifest,
         TagPreviouslyConvertedManifest, GroupWait, UploadImage,
         StoreConvertedManifestDetails, Cleanup, goroutines
    <2>2. ASSUME NEW i \in Layers, LayerStep(i)
          PROVE  Ordered'
      <3>1. CASE \/ CheckForConvertedLayer(i) \/ OfferCached(i) \/ DropOffer(i)
                 \/ NothingCached(i) \/ DownloadConvertedLayer(i) \/ DownloadLayer(i)
                 \/ UploadLayer(i) \/ StoreConvertedLayerDetails(i) \/ AbortUpload(i)
        BY <1>1, <3>1 DEF CheckForConvertedLayer, OfferCached, DropOffer,
           NothingCached, DownloadConvertedLayer, DownloadLayer, UploadLayer,
           StoreConvertedLayerDetails, AbortUpload
      <3> QED
        BY <1>4, <1>5, <1>6, <1>7, <2>2, <3>1
           DEF LayerStep, DedupStep, DownloadStep, ConvertStep, UploadStep
    <2>3. CASE UNCHANGED vars
      BY <1>1, <2>3 DEF vars, goroutines
    <2> QED
      BY <1>2, <1>3, <2>1, <2>2, <2>3 DEF Next

\* For any number of layers, failures, cancellations and restarts, the calls of
\* BuildLayer never overlap, although they share the engine's overlaybdConfig
\* without a lock.
THEOREM BuildIsSerial == Safety => []SerialBuild
  <1>1. TypeInv /\ Ordered => SerialBuild
    BY NAssumption DEF Ordered, SerialBuild, Building, Past, Layers
  <1>2. Safety => [](TypeInv /\ Ordered)
    BY TypeInit, TypeStep, OrderedInit, OrderedStep, PTL DEF Safety
  <1> QED
    BY <1>1, <1>2, PTL

-----------------------------------------------------------------------------
(* The published image.                                                    *)

\* No goroutine has failed. A conversion that fails may go on with missing
\* input until the error is recorded; one that does not fail never does.
NoFailure ==
    ~err /\ \A i \in Layers : dl[i] # "failed" /\ cv[i] # "failed" /\ up[i] # "failed"

\* The working directory is in use: Cleanup has not begun.
Converting ==
    main \in {"check", "mountImage", "tag", "wait", "uploadImage", "storeManifest"}

\* What the conversion of layer i starts from: its verified tar and a new
\* writable layer, or the verified commit file of an earlier conversion.
SourceIntact(i) ==
    /\ rows[i] # "bad" \/ turbo
    /\ cv[i] # "waitDownloaded" => dl[i] = "done"
    /\ fromDedup[i] => dl[i] \in {"send", "done"} /\ commit[i] = "good"
    /\ dl[i] \in {"send", "done"} /\ ~fromDedup[i] /\ ~Past(i) => tar[i] = "good"
    /\ cv[i] \in {"waitDownloaded", "waitParent", "build"} => writable[i] = "absent"
    /\ cv[i] = "apply" => writable[i] = "fresh" /\ ~fromDedup[i]

\* The lowers are the layers that are past BuildLayer, and these are intact.
LowersIntact ==
    /\ Len(lowers) <= N /\ lowers = Chain(Len(lowers))
    /\ \A i \in Layers : Past(i) <=> i < Len(lowers)
    /\ \A i \in Layers : Past(i) => LayerIntact(i)

\* An uploaded layer is in the repository, and is what the manifest will name.
UploadIntact(i) ==
    /\ desc[i] # "bad"
    /\ up[i] # "waitConverted" => Past(i)
    /\ up[i] \in {"store", "done"} =>
          desc[i] = "good" /\ <<turbo, i, "good">> \in blobs

Intact ==
    /\ LowersIntact
    /\ \A i \in Layers : SourceIntact(i) /\ UploadIntact(i)

\* Build goes on only after every goroutine has returned without an error.
Waited == main \in {"uploadImage", "storeManifest"} => ~err /\ AllReturned

\* Cleanup has removed what the engine of the next image could stumble over.
Emptied ==
    main = "done" /\ ~Reserve =>
        \A i \in Layers : writable[i] = "absent" /\ commit[i] = "absent"
                          /\ archive[i] = "absent"

IInv == (Converting /\ NoFailure => Intact) /\ Waited /\ Emptied

\* The working directory is empty whenever Build begins: the process is not
\* interrupted, and does not make a second image in a directory that it keeps.
\* And what earlier conversions have stored is right.
CleanStarts ==
    /\ MaxRuns = 0 /\ OldRows \subseteq {"good"}
    /\ (Reserve => Outputs # {"overlaybd", "turboOCI"})

\* Appending the next layer to a chain of lowers makes the next chain.
LEMMA ChainAppend == ASSUME NEW n \in Nat
                     PROVE  Append(Chain(n), n) = Chain(n + 1)
  <1>1. Chain(n) \in Seq(Int) /\ Len(Chain(n)) = n
    BY DEF Chain
  <1>2. Chain(n + 1) \in Seq(Int) /\ Len(Chain(n + 1)) = n + 1
    BY DEF Chain
  <1>3. Len(Append(Chain(n), n)) = n + 1
    BY <1>1
  <1>4. ASSUME NEW k \in 1 .. (n + 1)
        PROVE  Append(Chain(n), n)[k] = Chain(n + 1)[k]
    BY <1>1 DEF Chain
  <1>5. ASSUME NEW s \in Seq(Int), NEW t \in Seq(Int), Len(s) = Len(t),
               \A k \in 1 .. Len(s) : s[k] = t[k]
        PROVE  s = t
    BY <1>5, SMTT(30)
  <1>6. Append(Chain(n), n) \in Seq(Int)
    BY <1>1
  <1> QED
    BY <1>2, <1>3, <1>4, <1>5, <1>6

\* A conversion starts with an empty working directory and no lowers.
LEMMA IInvInit == CleanStarts /\ Init => IInv
  <1> SUFFICES ASSUME CleanStarts, Init PROVE IInv
    OBVIOUS
  <1>0. \A i \in Layers : rows[i] # "bad"
    BY DEF CleanStarts, Init
  <1>1. LowersIntact
    BY NAssumption DEF Init, NewMemory, LowersIntact, Chain, Past, Layers
  <1>2. ASSUME NEW i \in Layers
        PROVE  SourceIntact(i) /\ UploadIntact(i)
    BY <1>0 DEF Init, NewMemory, EmptyWorkdir, SourceIntact, UploadIntact, Past
  <1>3. Waited /\ Emptied
    BY DEF Init, NewMemory, Waited, Emptied
  <1> QED
    BY <1>1, <1>2, <1>3 DEF IInv, Intact

\* While layer i is in BuildLayer, the lowers are exactly its predecessors.
LEMMA LowersOfBuilding ==
  ASSUME TypeInv, Ordered, LowersIntact, NEW i \in Layers, Building(i)
  PROVE  /\ Len(lowers) = i /\ IntactBelow(i)
         /\ Append(lowers, i) = Chain(i + 1) /\ Len(Append(lowers, i)) = i + 1
  <1>1. i \in Nat /\ i < N /\ Len(lowers) \in Nat
    BY NAssumption DEF TypeInv, TypeOK, Layers
  <1>2. ~Past(i)
    BY DEF Building, Past
  <1>3. \A k \in Layers : k < i => Past(k)
    BY DEF Ordered
  <1>4. Len(lowers) <= i
    BY <1>1, <1>2 DEF LowersIntact
  <1>5. i <= Len(lowers)
    <2>1. CASE i = 0
      BY <1>1, <2>1
    <2>2. CASE i > 0
      <3>1. i - 1 \in Layers /\ i - 1 < i
        BY <1>1, <2>2, NAssumption DEF Layers
      <3>2. i - 1 < Len(lowers)
        BY <1>3, <3>1 DEF LowersIntact
      <3> QED
        BY <1>1, <3>2
    <2> QED
      BY <1>1, <2>1, <2>2
  <1>6. Len(lowers) = i
    BY <1>1, <1>4, <1>5
  <1>7. lowers = Chain(i) /\ IntactBelow(i)
    BY <1>3, <1>6 DEF LowersIntact, IntactBelow
  <1>8. Append(lowers, i) = Chain(i + 1)
    BY <1>1, <1>7, ChainAppend
  <1>9. Len(Append(lowers, i)) = i + 1
    BY <1>1, <1>6 DEF TypeInv, TypeOK
  <1> QED
    BY <1>6, <1>7, <1>8, <1>9

\* A process that has not been interrupted has not failed unless a goroutine
\* failed or an error was recorded, and does not return to work after Cleanup.
LEMMA NoFailureBack ==
  ASSUME TypeInv, MaxRuns = 0, [Next]_vars, ~NextOutput, Converting', NoFailure'
  PROVE  Converting /\ NoFailure /\ ~Restart /\ \A i \in Layers : ~RecordError(i)
  <1>1. ~Restart
    BY DEF TypeInv, TypeOK, Restart
  <1>2. \A i \in Layers : ~RecordError(i)
    BY DEF RecordError, NoFailure
  <1> USE DEF NoFailure, Converting, goroutines
  <1>3. CASE MainStep
    <2>1. UNCHANGED <<err, dl, cv, up>>
      BY <1>3 DEF MainStep, CheckForConvertedManifest, MountConvertedManifest,
         TagPreviouslyConvertedManifest, GroupWait, UploadImage,
         StoreConvertedManifestDetails, Cleanup
    <2>2. Converting
      BY <1>3 DEF MainStep, CheckForConvertedManifest, MountConvertedManifest,
         TagPreviouslyConvertedManifest, GroupWait, UploadImage,
         StoreConvertedManifestDetails, Cleanup, Running
    <2> QED
      BY <1>1, <1>2, <2>1, <2>2
  <1>4. CASE CancelOuter
    BY <1>1, <1>2, <1>4 DEF CancelOuter
  <1>5. ASSUME NEW i \in Layers, LayerStep(i)
        PROVE  Converting /\ NoFailure
    <2> USE DEF TypeInv, TypeOK, Running
    <2>1. CASE DedupStep(i)
      <3>1. /\ main = "wait" /\ UNCHANGED <<err, cv, up>>
            /\ \A k \in Layers : dl[k] = "failed" => dl'[k] = "failed"
        BY <2>1, CheckedLayer DEF DedupStep, CheckForConvertedLayer, OfferCached, DropOffer
      <3> QED
        BY <3>1
    <2>2. CASE DownloadStep(i)
      BY <2>2 DEF DownloadStep, OfferCached, NothingCached,
         DownloadConvertedLayer, DownloadLayer, SendDownloaded
    <2>3. CASE ConvertStep(i)
      <3>1. /\ main = "wait" /\ UNCHANGED <<err, up>>
            /\ \A k \in Layers : cv[k] = "failed" => cv'[k] = "failed"
            /\ \A k \in Layers : dl[k] = "failed" => dl'[k] = "failed"
        BY <2>3 DEF ConvertStep, SendDownloaded, DownloadedClosed,
           ParentConverted, PrepareLayer, ApplyAndCommit, ApplyAndArchive,
           DropConverted, AbortConvert, AfterSend
      <3> QED
        BY <3>1
    <2>4. CASE UploadStep(i)
      <3>1. /\ main = "wait" /\ UNCHANGED <<err, dl>>
            /\ \A k \in Layers : cv[k] = "failed" => cv'[k] = "failed"
            /\ \A k \in Layers : up[k] = "failed" => up'[k] = "failed"
        BY <2>4 DEF UploadStep, ConvertedReceived, UploadLayer,
           StoreConvertedLayerDetails, AbortUpload, AfterSend
      <3> QED
        BY <3>1
    <2> QED
      BY <1>2, <1>5, <2>1, <2>2, <2>3, <2>4 DEF LayerStep
  <1>6. CASE UNCHANGED vars
    BY <1>1, <1>2, <1>6 DEF vars
  <1> QED
    BY <1>1, <1>2, <1>3, <1>4, <1>5, <1>6 DEF Next

\* The deduplication and download goroutines of layer i keep what is intact: a
\* layer is replaced only before its convert goroutine reads it.
LEMMA DownloadKeepsIntact ==
  ASSUME CleanStarts, TypeInv, Intact, NoFailure, NoFailure', NEW i \in Layers,
         DedupStep(i) \/ DownloadStep(i)
  PROVE  Intact'
  <1>0. /\ rows \in [Layers -> Quality \cup {"none"}]
        /\ \A k \in Layers : rows[k] # "bad" \/ turbo
    BY DEF TypeInv, TypeOK, Intact, SourceIntact
  <1>a. \A k \in Layers : cv[k] = "waitDownloaded" => up[k] = "waitConverted"
    BY DEF Intact, UploadIntact, Past
  <1>b. ASSUME CheckForConvertedLayer(i)
        PROVE  \A k \in Layers : rows'[k] # "bad" \/ turbo
    <2>1. PICK q \in {"none", "good"} : rows' = rows \/ rows' = [rows EXCEPT ![i] = q]
      BY <1>0, <1>b, CheckedLayer DEF CleanStarts
    <2> QED
      BY <1>0, <2>1
  <1>c. ASSUME CheckForConvertedLayer(i)
        PROVE  UNCHANGED <<dl, cv, up, workdir, engine>> /\ blobs \subseteq blobs'
    BY <1>0, <1>c, CheckedLayer
  <1> USE DEF TypeInv, TypeOK, OffersHaveRows, TurboIsPlain, Quality, Intact,
              LowersIntact, LayerIntact, LayerFile, SourceIntact, UploadIntact,
              Past, goroutines, workdir, engine, registry, database
  <1>1. CASE CheckForConvertedLayer(i)
    <2>1. /\ UNCHANGED <<dl, cv, up, workdir, engine>>
          /\ blobs \subseteq blobs'
      BY <1>1, <1>c
    <2> QED
      BY <1>1, <1>b, <2>1
  <1>2. CASE OfferCached(i)
    BY <1>2 DEF OfferCached
  <1>3. CASE DropOffer(i)
    BY <1>3 DEF DropOffer
  <1>4. CASE NothingCached(i)
    BY <1>4 DEF NothingCached
  <1>5. CASE DownloadConvertedLayer(i)
    <2>1. ~turbo /\ rows[i] = "good" /\ cv[i] = "waitDownloaded" /\ ~fromDedup[i]
      BY <1>5 DEF DownloadConvertedLayer
    <2>2. /\ UNCHANGED <<cv, up, tar, writable, archive, turbo, lowers, blobs, rows>>
          /\ \A k \in Layers \ {i} : /\ commit'[k] = commit[k] /\ desc'[k] = desc[k]
                                   /\ dl'[k] = dl[k] /\ fromDedup'[k] = fromDedup[k]
      BY <1>5 DEF DownloadConvertedLayer
    <2>3. /\ desc'[i] # "bad"
          /\ dl'[i] \in {"send", "fetchLayer"}
          /\ fromDedup'[i] => dl'[i] = "send" /\ commit'[i] = "good"
          /\ ~fromDedup'[i] => dl'[i] = "fetchLayer"
      <3>1. CASE /\ dl' = [dl EXCEPT ![i] = "send"]
                 /\ commit' = [commit EXCEPT ![i] = rows[i]]
                 /\ fromDedup' = [fromDedup EXCEPT ![i] = TRUE]
                 /\ desc' = [desc EXCEPT ![i] = rows[i]]
        <4>1. fromDedup'[i] /\ dl'[i] = "send"
          BY <3>1
        <4>2. commit'[i] = "good" /\ desc'[i] = "good"
          BY <2>1, <3>1
        <4> QED
          BY <4>1, <4>2
      <3>2. CASE /\ dl' = [dl EXCEPT ![i] = "fetchLayer"]
                 /\ UNCHANGED <<fromDedup, desc>>
        <4>1. dl'[i] = "fetchLayer" /\ desc'[i] = desc[i] /\ fromDedup'[i] = fromDedup[i]
          BY <3>2
        <4> QED
          BY <2>1, <4>1
      <3> QED
        BY <1>5, <3>1, <3>2 DEF DownloadConvertedLayer
    <2>4. up[i] = "waitConverted"
      BY <1>a, <2>1
    <2>5. LowersIntact'
      BY <2>1, <2>2
    <2>6. ASSUME NEW k \in Layers PROVE SourceIntact(k)' /\ UploadIntact(k)'
      BY <2>1, <2>2, <2>3, <2>4
    <2> QED
      BY <2>5, <2>6
  <1>6. CASE DownloadLayer(i)
    <2>1. dl' = [dl EXCEPT ![i] = "send"] /\ tar' = [tar EXCEPT ![i] = "good"]
      BY <1>6 DEF DownloadLayer, NoFailure
    <2> QED
      BY <1>6, <2>1 DEF DownloadLayer
  <1>7. CASE SendDownloaded(i)
    BY <1>7 DEF SendDownloaded
  <1> QED
    BY <1>1, <1>2, <1>3, <1>4, <1>5, <1>6, <1>7 DEF DedupStep, DownloadStep

\* The convert goroutine of layer i makes an intact commit file of what is
\* intact, and adds itself to the lowers.
LEMMA ConvertKeepsIntact ==
  ASSUME TypeInv, Ordered, Intact, NoFailure, NoFailure', NEW i \in Layers,
         ConvertStep(i), ~SendDownloaded(i)
  PROVE  Intact'
  <1>0. /\ cv \in [Layers -> {"waitDownloaded", "waitParent", "build", "apply",
                             "send1", "send2", "failed", "done"}]
        /\ commit \in [Layers -> Quality \cup {"absent"}]
        /\ archive \in [Layers -> Quality \cup {"absent"}]
        /\ tar \in [Layers -> {"unverified", "good"}]
        /\ writable \in [Layers -> {"absent", "fresh", "used"}]
        /\ Len(lowers) \in Nat
        /\ i \in Nat /\ i < N /\ N \in Nat
    BY NAssumption DEF TypeInv, TypeOK, Layers
  <1>1. ASSUME DownloadedClosed(i) \/ ParentConverted(i) \/ DropConverted(i)
        PROVE  Intact'
    <2>1. /\ UNCHANGED <<dl, up, workdir, engine, blobs, rows>>
          /\ \A k \in Layers : Past(k)' <=> Past(k)
          /\ \A k \in Layers : cv'[k] # "waitDownloaded" => dl[k] = "done"
          /\ \A k \in Layers : cv'[k] \in {"waitDownloaded", "waitParent", "build"}
                                  => cv[k] \in {"waitDownloaded", "waitParent", "build"}
          /\ \A k \in Layers : cv'[k] = "apply" => cv[k] = "apply"
      BY <1>0, <1>1 DEF DownloadedClosed, ParentConverted, DropConverted, AfterSend,
         Past, ClosedDownloaded, NoFailure, Intact, SourceIntact, registry, database
    <2> QED
      BY <2>1 DEF Intact, LowersIntact, LayerIntact, LayerFile, SourceIntact,
         UploadIntact, workdir, engine
  <1>2. ASSUME AbortConvert(i)
        PROVE  FALSE
    BY <1>0, <1>2 DEF AbortConvert, NoFailure
  <1>3. ASSUME PrepareLayer(i) \/ ApplyAndCommit(i) \/ ApplyAndArchive(i)
        PROVE  /\ Len(lowers) = i /\ IntactBelow(i)
               /\ Append(lowers, i) = Chain(i + 1) /\ Len(Append(lowers, i)) = i + 1
    <2>1. Building(i)
      BY <1>3 DEF PrepareLayer, ApplyAndCommit, ApplyAndArchive, Building
    <2> QED
      BY <2>1, LowersOfBuilding DEF Intact
  <1>4. ASSUME /\ lowers' = Append(lowers, i)
               /\ cv' = [cv EXCEPT ![i] = FirstSend(i)]
               /\ PrepareLayer(i) \/ ApplyAndCommit(i) \/ ApplyAndArchive(i)
               /\ LayerIntact(i)'
               /\ \A k \in Layers \ {i} : LayerIntact(k)' <=> LayerIntact(k)
        PROVE  LowersIntact'
    <2>1. Len(lowers) = i /\ lowers' = Chain(i + 1) /\ Len(lowers') = i + 1
      BY <1>3, <1>4
    <2>2. Past(i)' /\ \A k \in Layers \ {i} : Past(k)' <=> Past(k)
      BY <1>0, <1>4 DEF Past, FirstSend
    <2>3. \A k \in Layers : Past(k)' <=> k < i + 1
      BY <1>0, <2>1, <2>2 DEF Intact, LowersIntact, Layers
    <2>4. \A k \in Layers : Past(k)' => LayerIntact(k)'
      BY <1>4, <2>2 DEF Intact, LowersIntact
    <2> QED
      BY <1>0, <2>1, <2>3, <2>4 DEF LowersIntact
  <1>5. CASE PrepareLayer(i)
    <2>1. /\ cv[i] = "build" /\ writable[i] = "absent" /\ ~Past(i)
          /\ fromDedup[i] => commit[i] = "good"
          /\ dl[i] = "done"
          /\ UNCHANGED <<dl, up, tar, commit, archive, turbo, fromDedup, desc,
                         blobs, rows>>
          /\ \A k \in Layers : LayerIntact(k)' <=> LayerIntact(k)
      BY <1>5 DEF PrepareLayer, Intact, SourceIntact, Past, LayerIntact, LayerFile,
         registry, database
    <2>2. CASE /\ fromDedup[i]
               /\ lowers' = Append(lowers, i)
               /\ cv' = [cv EXCEPT ![i] = FirstSend(i)]
               /\ UNCHANGED writable
      <3>1. LowersIntact'
        <4>1. LayerIntact(i)
          BY <2>1, <2>2 DEF TypeInv, TurboIsPlain, LayerIntact, LayerFile
        <4> QED
          BY <1>4, <1>5, <2>1, <2>2, <4>1
      <3>2. /\ Past(i)' /\ cv'[i] \in {"send1", "send2"}
            /\ \A k \in Layers \ {i} : cv'[k] = cv[k]
        BY <1>0, <2>2 DEF Past, FirstSend
      <3>3. ASSUME NEW k \in Layers PROVE SourceIntact(k)' /\ UploadIntact(k)'
        BY <2>1, <2>2, <3>2 DEF Intact, SourceIntact, UploadIntact, Past
      <3> QED
        BY <3>1, <3>3 DEF Intact
    <2>3. CASE /\ ~fromDedup[i]
               /\ cv' = [cv EXCEPT ![i] = "apply"]
               /\ writable' = [writable EXCEPT ![i] = "fresh"]
               /\ UNCHANGED lowers
      <3>1. /\ cv'[i] = "apply" /\ writable'[i] = "fresh"
            /\ \A k \in Layers \ {i} : cv'[k] = cv[k] /\ writable'[k] = writable[k]
            /\ \A k \in Layers : Past(k)' <=> Past(k)
        BY <1>0, <2>1, <2>3 DEF Past
      <3>2. LowersIntact'
        BY <2>1, <2>3, <3>1 DEF Intact, LowersIntact
      <3>3. ASSUME NEW k \in Layers PROVE SourceIntact(k)' /\ UploadIntact(k)'
        BY <2>1, <2>3, <3>1 DEF Intact, SourceIntact, UploadIntact
      <3> QED
        BY <3>2, <3>3 DEF Intact
    <2>4. cv'[i] # "failed"
      BY DEF NoFailure
    <2> QED
      BY <1>0, <1>5, <2>1, <2>2, <2>3, <2>4 DEF PrepareLayer
  <1>6. ASSUME ApplyAndCommit(i) \/ ApplyAndArchive(i)
        PROVE  Intact'
    <2>1. /\ cv[i] = "apply" /\ writable[i] = "fresh" /\ ~fromDedup[i] /\ ~Past(i)
          /\ dl[i] = "done" /\ tar[i] = "good"
          /\ UNCHANGED <<dl, up, turbo, fromDedup, desc, blobs, rows>>
      BY <1>6 DEF ApplyAndCommit, ApplyAndArchive, Intact, SourceIntact, Past,
         registry, database
    <2>2. cv'[i] # "failed" /\ Applied(i) = "good"
      BY <1>3, <1>6, <2>1 DEF NoFailure, Applied
    <2>3. /\ lowers' = Append(lowers, i)
          /\ cv' = [cv EXCEPT ![i] = FirstSend(i)]
      BY <1>0, <1>6, <2>2 DEF ApplyAndCommit, ApplyAndArchive
    <2>4. /\ LayerIntact(i)'
          /\ \A k \in Layers \ {i} : LayerIntact(k)' <=> LayerIntact(k)
      <3>1. CASE ApplyAndCommit(i)
        <4>1. /\ ~turbo
              /\ commit' = [commit EXCEPT ![i] = "good"]
              /\ tar' = [tar EXCEPT ![i] = IF Reserve THEN @ ELSE "unverified"]
              /\ writable' = [writable EXCEPT ![i] = IF Reserve THEN "used"
                                                               ELSE "absent"]
          BY <1>0, <2>2, <3>1 DEF ApplyAndCommit
        <4> QED
          BY <1>0, <2>1, <2>3, <4>1 DEF LayerIntact, LayerFile
      <3>2. CASE ApplyAndArchive(i)
        <4>1. /\ turbo /\ tar' = tar
              /\ archive' = [archive EXCEPT ![i] = "good"]
              /\ writable' = [writable EXCEPT ![i] = "absent"]
          BY <1>0, <2>2, <3>2 DEF ApplyAndArchive
        <4> QED
          BY <1>0, <2>1, <2>3, <4>1 DEF LayerIntact, LayerFile
      <3> QED
        BY <1>6, <3>1, <3>2
    <2>5. LowersIntact'
      BY <1>4, <1>6, <2>3, <2>4
    <2>6. Past(i)' /\ cv'[i] \in {"send1", "send2"}
      BY <1>0, <2>3 DEF Past, FirstSend
    <2>7. ASSUME NEW k \in Layers PROVE SourceIntact(k)' /\ UploadIntact(k)'
      <3>1. fromDedup[k] => ~turbo
        BY DEF TypeInv, TurboIsPlain
      <3>2. CASE k = i
        BY <2>1, <2>4, <2>6, <3>1, <3>2 DEF Intact, SourceIntact, UploadIntact, Past
      <3>3. CASE k # i
        <4>1. /\ cv'[k] = cv[k] /\ tar'[k] = tar[k] /\ writable'[k] = writable[k]
              /\ ~turbo => commit'[k] = commit[k]
          <5>1. CASE ApplyAndCommit(i)
            BY <1>0, <2>3, <3>3, <5>1 DEF ApplyAndCommit
          <5>2. CASE ApplyAndArchive(i)
            BY <1>0, <2>3, <3>3, <5>2 DEF ApplyAndArchive
          <5> QED
            BY <1>6, <5>1, <5>2
        <4>2. SourceIntact(k) /\ UploadIntact(k)
          BY DEF Intact
        <4> QED
          BY <2>1, <3>1, <4>1, <4>2 DEF SourceIntact, UploadIntact, Past
      <3> QED
        BY <3>2, <3>3
    <2> QED
      BY <2>5, <2>7 DEF Intact
  <1> QED
    BY <1>1, <1>2, <1>5, <1>6 DEF ConvertStep

\* The upload goroutine of layer i uploads the intact commit file, and stores
\* the descriptor it uploaded.
LEMMA UploadKeepsIntact ==
  ASSUME TypeInv, Intact, NoFailure, NoFailure', NEW i \in Layers, UploadStep(i)
  PROVE  Intact'
  <1>0. /\ cv \in [Layers -> {"waitDownloaded", "waitParent", "build", "apply",
                             "send1", "send2", "failed", "done"}]
        /\ up \in [Layers -> {"waitConverted", "upload", "store", "failed", "done"}]
        /\ desc \in [Layers -> Quality \cup {"none"}]
        /\ rows \in [Layers -> Quality \cup {"none"}]
    BY DEF TypeInv, TypeOK
  <1>1. CASE ConvertedReceived(i)
    <2>1. /\ UNCHANGED <<dl, workdir, engine, blobs, rows>>
          /\ \A k \in Layers : Past(k)' <=> Past(k)
          /\ \A k \in Layers : cv'[k] # cv[k] => Past(k)
          /\ \A k \in Layers \ {i} : up'[k] = up[k]
          /\ Past(i) /\ up'[i] = "upload"
      BY <1>0, <1>1 DEF ConvertedReceived, AfterSend, Past, ClosedConverted,
         NoFailure, registry, database
    <2>2. LowersIntact'
      BY <2>1 DEF Intact, LowersIntact, LayerIntact, LayerFile, workdir, engine
    <2>3. ASSUME NEW k \in Layers PROVE SourceIntact(k)'
      BY <2>1, <2>3 DEF Intact, SourceIntact, Past, workdir, engine
    <2>4. ASSUME NEW k \in Layers PROVE UploadIntact(k)'
      BY <2>1, <2>4 DEF Intact, UploadIntact, engine
    <2> QED
      BY <2>2, <2>3, <2>4 DEF Intact
  <1>2. CASE UploadLayer(i)
    <2>1. up[i] = "upload" /\ Past(i) /\ LayerFile(i) = "good"
      BY <1>2 DEF UploadLayer, Intact, UploadIntact, LowersIntact, LayerIntact
    <2>2. up'[i] # "failed"
      BY DEF NoFailure
    <2>3. /\ blobs' = blobs \cup {<<turbo, i, "good">>}
          /\ desc' = [desc EXCEPT ![i] = "good"]
          /\ up' = [up EXCEPT ![i] = "store"]
          /\ UNCHANGED <<dl, cv, workdir, turbo, fromDedup, lowers, rows>>
      BY <1>0, <1>2, <2>1, <2>2 DEF UploadLayer, database
    <2>4. LowersIntact' /\ \A k \in Layers : SourceIntact(k)'
      BY <2>3 DEF Intact, LowersIntact, LayerIntact, LayerFile, SourceIntact,
         Past, workdir
    <2>5. ASSUME NEW k \in Layers PROVE UploadIntact(k)'
      BY <1>0, <2>1, <2>3 DEF Intact, UploadIntact, Past
    <2> QED
      BY <2>4, <2>5 DEF Intact
  <1>3. CASE StoreConvertedLayerDetails(i)
    <2>1. desc[i] = "good" /\ up[i] = "store"
      BY <1>3 DEF StoreConvertedLayerDetails, Intact, UploadIntact
    <2>2. /\ up' = [up EXCEPT ![i] = "done"]
          /\ rows' = rows \/ rows' = [rows EXCEPT ![i] = "good"]
          /\ UNCHANGED <<dl, cv, workdir, engine, blobs>>
      BY <1>3, <2>1 DEF StoreConvertedLayerDetails, registry
    <2>3. \A k \in Layers : rows'[k] # "bad" \/ turbo
      BY <1>0, <2>2 DEF Intact, SourceIntact
    <2>4. LowersIntact' /\ \A k \in Layers : SourceIntact(k)'
      BY <2>2, <2>3 DEF Intact, LowersIntact, LayerIntact, LayerFile,
         SourceIntact, Past, workdir, engine
    <2>5. ASSUME NEW k \in Layers PROVE UploadIntact(k)'
      BY <1>0, <2>1, <2>2 DEF Intact, UploadIntact, Past, engine
    <2> QED
      BY <2>4, <2>5 DEF Intact
  <1>4. ASSUME AbortUpload(i)
        PROVE  FALSE
    BY <1>0, <1>4 DEF AbortUpload, NoFailure
  <1> QED
    BY <1>1, <1>2, <1>3, <1>4 DEF UploadStep

\* Build itself leaves the layers alone until Cleanup.
LEMMA MainKeepsIntact ==
  ASSUME Intact, Converting', MainStep \/ CancelOuter
  PROVE  Intact'
  <1>1. UNCHANGED <<goroutines, workdir, engine, rows>> /\ blobs \subseteq blobs'
    <2>1. CASE MountConvertedManifest
      BY <2>1, MountedManifest
    <2>2. CASE (MainStep /\ ~MountConvertedManifest) \/ CancelOuter
      BY <2>2 DEF MainStep, CheckForConvertedManifest,
         TagPreviouslyConvertedManifest, GroupWait, UploadImage,
         StoreConvertedManifestDetails, Cleanup, CancelOuter, Converting,
         registry, database
    <2> QED
      BY <2>1, <2>2
  <1>2. /\ LowersIntact' /\ \A i \in Layers : SourceIntact(i)'
    BY <1>1 DEF Intact, LowersIntact, LayerIntact, LayerFile, SourceIntact,
       Past, goroutines, workdir, engine
  <1>3. ASSUME NEW i \in Layers PROVE UploadIntact(i)'
    BY <1>1 DEF Intact, UploadIntact, Past, goroutines, engine
  <1> QED
    BY <1>2, <1>3 DEF Intact

\* Build leaves the wait once, when every goroutine has returned, and only it
\* moves afterwards.
LEMMA WaitedStep == ASSUME Waited, [Next]_vars PROVE Waited'
  <1> USE DEF Waited, AllReturned, goroutines
  <1>1. CASE MainStep
    BY <1>1 DEF MainStep, CheckForConvertedManifest, MountConvertedManifest,
       TagPreviouslyConvertedManifest, GroupWait, UploadImage,
       StoreConvertedManifestDetails, Cleanup
  <1>2. CASE CancelOuter
    BY <1>2 DEF CancelOuter, Running
  <1>3. CASE NextOutput \/ Restart
    BY <1>3 DEF NextOutput, Restart, EnterBuild
  <1>4. ASSUME NEW i \in Layers, LayerStep(i)
        PROVE  main' = "wait"
    BY <1>4 DEF LayerStep, DedupStep, DownloadStep, ConvertStep, UploadStep,
       CheckForConvertedLayer, OfferCached, DropOffer, NothingCached,
       DownloadConvertedLayer, DownloadLayer, SendDownloaded, DownloadedClosed,
       ParentConverted, PrepareLayer, ApplyAndCommit, ApplyAndArchive,
       DropConverted, AbortConvert, ConvertedReceived, UploadLayer, StoreConvertedLayerDetails,
       AbortUpload, RecordError, Running
  <1>5. CASE UNCHANGED vars
    BY <1>5 DEF vars
  <1> QED
    BY <1>1, <1>2, <1>3, <1>4, <1>5 DEF Next

\* A directory that is not kept is empty when Build returns.
LEMMA EmptiedStep ==
  ASSUME TypeInv, Emptied, [Next]_vars PROVE Emptied'
  <1> USE DEF Emptied, workdir
  <1>1. CASE MainStep
    <2>1. CASE Cleanup
      BY <2>1 DEF Cleanup
    <2> QED
      BY <1>1, <2>1 DEF MainStep, CheckForConvertedManifest, MountConvertedManifest,
         TagPreviouslyConvertedManifest, GroupWait, UploadImage,
         StoreConvertedManifestDetails
  <1>2. CASE CancelOuter
    BY <1>2 DEF CancelOuter, Running
  <1>3. CASE NextOutput \/ Restart
    BY <1>3 DEF NextOutput, Restart, EnterBuild
  <1>4. ASSUME NEW i \in Layers, LayerStep(i)
        PROVE  main' = "wait"
    BY <1>4 DEF LayerStep, DedupStep, DownloadStep, ConvertStep, UploadStep,
       CheckForConvertedLayer, OfferCached, DropOffer, NothingCached,
       DownloadConvertedLayer, DownloadLayer, SendDownloaded, DownloadedClosed,
       ParentConverted, PrepareLayer, ApplyAndCommit, ApplyAndArchive,
       DropConverted, AbortConvert, ConvertedReceived, UploadLayer,
       StoreConvertedLayerDetails, AbortUpload, RecordError, Running
  <1>5. CASE UNCHANGED vars
    BY <1>5 DEF vars
  <1> QED
    BY <1>1, <1>2, <1>3, <1>4, <1>5 DEF Next

\* The second image starts as the first one did.
LEMMA NextOutputIntact ==
  ASSUME CleanStarts, TypeInv, Emptied, NextOutput PROVE Intact'
  <1>1. ~Reserve /\ main = "done"
    BY OutputsAssumption
       DEF NextOutput, LastOutput, CleanStarts, TypeInv, FirstIsTurbo
  <1>2. /\ turbo' /\ lowers' = <<>>
        /\ \A i \in Layers : /\ cv'[i] = "waitDownloaded" /\ up'[i] = "waitConverted"
                            /\ dl'[i] = "wait" /\ ~fromDedup'[i] /\ desc'[i] = "none"
    BY DEF NextOutput, EnterBuild
  <1>3. \A i \in Layers : writable'[i] = "absent"
    BY <1>1 DEF NextOutput, EnterBuild, Emptied
  <1>4. LowersIntact'
    BY <1>2, NAssumption DEF LowersIntact, Chain, Past, Layers
  <1>5. ASSUME NEW i \in Layers
        PROVE  SourceIntact(i)' /\ UploadIntact(i)'
    BY <1>2, <1>3 DEF SourceIntact, UploadIntact, Past
  <1> QED
    BY <1>4, <1>5 DEF Intact

\* Every step of a process that is not interrupted keeps IInv.
LEMMA IInvStep ==
  CleanStarts /\ TypeInv /\ Ordered /\ IInv /\ [Next]_vars => IInv'
  <1> SUFFICES ASSUME CleanStarts, TypeInv, Ordered, IInv, [Next]_vars
               PROVE  IInv'
    OBVIOUS
  <1>1. Waited' /\ Emptied'
    BY WaitedStep, EmptiedStep DEF IInv
  <1>2. CASE NextOutput
    BY <1>1, <1>2, NextOutputIntact DEF IInv
  <1>3. ASSUME Converting', NoFailure', ~NextOutput
        PROVE  Intact'
    <2>1. Converting /\ NoFailure /\ ~Restart /\ \A i \in Layers : ~RecordError(i)
      BY <1>3, NoFailureBack DEF CleanStarts
    <2>2. Intact
      BY <2>1 DEF IInv
    <2>3. CASE MainStep \/ CancelOuter
      BY <1>3, <2>2, <2>3, MainKeepsIntact
    <2>4. ASSUME NEW i \in Layers, LayerStep(i)
          PROVE  Intact'
      <3>1. CASE DedupStep(i) \/ DownloadStep(i)
        BY <1>3, <2>1, <2>2, <3>1, DownloadKeepsIntact
      <3>2. CASE ConvertStep(i) /\ ~SendDownloaded(i)
        BY <1>3, <2>1, <2>2, <3>2, ConvertKeepsIntact
      <3>3. CASE UploadStep(i)
        BY <1>3, <2>1, <2>2, <3>3, UploadKeepsIntact
      <3> QED
        BY <2>1, <2>4, <3>1, <3>2, <3>3 DEF LayerStep, DownloadStep
    <2>5. CASE UNCHANGED vars
      BY <2>2, <2>5 DEF vars, Intact, LowersIntact, LayerIntact, LayerFile,
         SourceIntact, UploadIntact, Past, goroutines, workdir, engine,
         registry, database
    <2> QED
      BY <1>3, <2>1, <2>3, <2>4, <2>5 DEF Next
  <1> QED
    BY <1>1, <1>2, <1>3 DEF IInv

\* IInv holds throughout.
LEMMA IInvariant ==
  ASSUME CleanStarts
  PROVE  Safety => [](TypeInv /\ Ordered /\ IInv)
  <1>1. Init => TypeInv /\ Ordered /\ IInv
    BY TypeInit, OrderedInit, IInvInit
  <1>2. TypeInv /\ Ordered /\ IInv /\ [Next]_vars => (TypeInv /\ Ordered /\ IInv)'
    BY TypeStep, OrderedStep, IInvStep
  <1> QED
    BY <1>1, <1>2, PTL DEF Safety

\* With either engine and with both, without an interrupt and over a directory
\* that is empty, whichever calls fail and whenever the context is cancelled,
\* Build uploads a manifest only when all N layers are the lowers in
\* order and each blob it names was built over intact predecessors and is in
\* the repository.
THEOREM PublishedIsComplete ==
  ASSUME CleanStarts
  PROVE  Safety => []PublishComplete
  <1>1. ASSUME TypeInv, IInv
        PROVE  PublishComplete
    <2> SUFFICES ASSUME main \in {"uploadImage", "storeManifest"}
                 PROVE  /\ lowers = Chain(N)
                        /\ \A i \in Layers : /\ desc[i] = "good"
                                             /\ <<turbo, i, "good">> \in blobs
      BY DEF PublishComplete
    <2>1. ~err /\ AllReturned
      BY <1>1 DEF IInv, Waited
    <2>2. Intact
      BY <1>1, <2>1 DEF IInv, Converting, NoFailure, AllReturned
    <2>3. \A i \in Layers : desc[i] = "good" /\ <<turbo, i, "good">> \in blobs
      BY <2>1, <2>2 DEF AllReturned, Intact, UploadIntact
    <2>4. N - 1 \in Layers /\ Past(N - 1)
      BY <2>1, NAssumption DEF AllReturned, Past, Layers
    <2>5. Len(lowers) = N
      BY <1>1, <2>2, <2>4, NAssumption DEF Intact, LowersIntact, TypeInv, TypeOK
    <2> QED
      BY <2>2, <2>3, <2>5 DEF Intact, LowersIntact
  <1>2. Safety => [](TypeInv /\ Ordered /\ IInv)
    BY IInvariant
  <1> QED
    BY <1>1, <1>2, PTL

-----------------------------------------------------------------------------
(* The contract of the conversion.                                         *)

\* What the outcome of Build rests on: the manifest row names an intact image,
\* and so does the tag once Build can no longer fail.
OutcomeInv ==
    /\ mrow \in {"none", "good"}
    /\ main = "tag" => mrow = "good"
    /\ main = "storeManifest" => tag[turbo] = "good"
    /\ main \in {"cleanup", "done"} =>
           \/ result = "failed"
           \/ result \in {"reused", "converted"} /\ tag[turbo] = "good"

\* Nothing has been returned when a process enters Build.
LEMMA OutcomeInit == CleanStarts /\ Init => OutcomeInv
  <1> SUFFICES ASSUME CleanStarts, Init PROVE OutcomeInv
    OBVIOUS
  <1>1. mrow \in {"none", "good"}
    <2>1. \A f \in OldImages : Image(f) = "good"
      BY OldImageTyped DEF CleanStarts, OldImages
    <2> QED
      BY <2>1 DEF Init
  <1> QED
    BY <1>1 DEF Init, NewMemory, OutcomeInv

\* A step of a goroutine of layer i leaves Build, the tag and the manifest row
\* alone.
LEMMA LayerFrame ==
  ASSUME NEW i \in Layers, LayerStep(i)
  PROVE  main = "wait" /\ UNCHANGED <<main, result, turbo, tag, mrow, runs>>
  <1> USE DEF Running, engine, registry, database
  <1>1. CASE DedupStep(i)
    BY <1>1 DEF DedupStep, CheckForConvertedLayer, OfferCached, DropOffer
  <1>2. CASE DownloadStep(i)
    BY <1>2 DEF DownloadStep, OfferCached, NothingCached,
       DownloadConvertedLayer, DownloadLayer, SendDownloaded
  <1>3. CASE ConvertStep(i)
    BY <1>3 DEF ConvertStep, SendDownloaded, DownloadedClosed, ParentConverted,
       PrepareLayer, ApplyAndCommit, ApplyAndArchive, DropConverted,
       AbortConvert
  <1>4. CASE UploadStep(i)
    BY <1>4 DEF UploadStep, ConvertedReceived, UploadLayer,
       StoreConvertedLayerDetails, AbortUpload
  <1>5. CASE RecordError(i)
    BY <1>5 DEF RecordError
  <1> QED
    BY <1>1, <1>2, <1>3, <1>4, <1>5 DEF LayerStep

\* The steps of both contracts.
ContractNext == [Overlaybd!Next]_(Overlaybd!vars) /\ [TurboOCI!Next]_(TurboOCI!vars)

\* Every step keeps OutcomeInv and is, for either image, a step of the contract
\* or leaves the tag and the outcome alone.
LEMMA ContractStep ==
  ASSUME CleanStarts, TypeInv, PublishComplete, OutcomeInv, [Next]_vars
  PROVE  OutcomeInv' /\ ContractNext
  <1> USE DEF OutcomeInv, ContractNext, Outcome, registry, database, engine,
              Overlaybd!Next, Overlaybd!Publish, Overlaybd!Succeed,
              Overlaybd!Fail, Overlaybd!vars,
              TurboOCI!Next, TurboOCI!Publish, TurboOCI!Succeed,
              TurboOCI!Fail, TurboOCI!vars
  <1>0. turbo \in BOOLEAN /\ tag \in [BOOLEAN -> Quality \cup {"none"}]
    BY DEF TypeInv, TypeOK
  <1>a. ASSUME NEW q, tag' = Tagged(q)
        PROVE  tag'[turbo] = q /\ tag'[~turbo] = tag[~turbo]
    BY <1>0, <1>a DEF Tagged
  <1>1. CASE CheckForConvertedManifest
    BY <1>1 DEF CheckForConvertedManifest
  <1>1a. CASE MountConvertedManifest
    <2>1. \A f \in [Layers -> OldRows] : Image(f) = "good"
      BY OldImageTyped DEF CleanStarts
    <2>2. /\ UNCHANGED <<result, turbo>> /\ main = "mountImage" /\ main' \in {"tag", "wait"}
          /\ \/ main' = "wait" /\ UNCHANGED <<tag, mrow>>
             \/ tag' = Tagged("good") /\ mrow' = "good"
             \/ tag' = Tagged("good") /\ main' = "wait" /\ UNCHANGED mrow
      BY <1>1a, <2>1, MountedManifest
    <2> QED
      BY <1>0, <1>a, <2>2
  <1>2. CASE TagPreviouslyConvertedManifest
    BY <1>0, <1>a, <1>2 DEF TagPreviouslyConvertedManifest
  <1>3. CASE GroupWait
    BY <1>3 DEF GroupWait, Running
  <1>4. CASE UploadImage
    <2>1. Manifest = "good"
      BY <1>4 DEF UploadImage, Manifest, Image, PublishComplete
    <2> QED
      BY <1>0, <1>a, <1>4, <2>1 DEF UploadImage
  <1>5. CASE StoreConvertedManifestDetails
    BY <1>5 DEF StoreConvertedManifestDetails
  <1>6. CASE Cleanup
    BY <1>0, <1>6 DEF Cleanup
  <1>7. CASE CancelOuter
    BY <1>7 DEF CancelOuter
  <1>8. CASE NextOutput
    BY <1>8 DEF NextOutput, LastOutput, EnterBuild, TypeInv
  <1>9. ~Restart
    <2>1. MaxRuns = 0 /\ runs \in 0 .. MaxRuns
      BY DEF CleanStarts, TypeInv, TypeOK
    <2> QED
      BY <2>1 DEF Restart
  <1>10. ASSUME NEW i \in Layers, LayerStep(i)
         PROVE  OutcomeInv' /\ ContractNext
    <2>1. main = "wait" /\ UNCHANGED <<main, result, turbo, tag, mrow>>
      BY <1>10, LayerFrame
    <2> QED
      BY <2>1
  <1>11. CASE UNCHANGED vars
    BY <1>11 DEF vars
  <1> QED
    BY <1>1, <1>1a, <1>2, <1>3, <1>4, <1>5, <1>6, <1>7, <1>8, <1>9, <1>10, <1>11
       DEF Next, MainStep

\* Without an interrupt, and over an empty directory, Build reports success only
\* when the target tag of its image names an intact one, and never makes a tag
\* name another one, be it the tag of the first or of the second image.
THEOREM ConversionImplementsContract ==
  ASSUME CleanStarts
  PROVE  Safety => ImplementsContract
  <1>1. Init => Overlaybd!Init /\ TurboOCI!Init
    BY DEF Init, NewMemory, Outcome, Overlaybd!Init, TurboOCI!Init
  <1>2. TypeInv /\ PublishComplete /\ OutcomeInv /\ [Next]_vars
          => OutcomeInv' /\ ContractNext
    BY ContractStep
  <1>3. Safety => []TypeInv /\ []PublishComplete
    BY TypeInvariant, PublishedIsComplete
  <1> QED
    BY <1>1, <1>2, <1>3, OutcomeInit, PTL
       DEF Safety, ContractNext, ImplementsContract, Overlaybd!Safety, TurboOCI!Safety

-----------------------------------------------------------------------------
(* Commit files and rows.                                                  *)

\* In the first process a commit file comes from deduplication or from BuildLayer
\* itself.
CommitInv ==
    runs = 0 /\ ~turbo =>
        \A i \in Layers : commit[i] = "absent" \/ fromDedup[i] \/ Past(i)

\* Until an interrupt, BuildLayer never meets the commit file that its comment
\* says should not happen, whatever fails before it is called.
THEOREM NoStrayCommitFile == Safety => []CommitFileOnlyFromDedup
  <1>1. Init => CommitInv
    BY DEF Init, EmptyWorkdir, CommitInv
  <1>2. ASSUME TypeInv, CommitInv, [Next]_vars
        PROVE  CommitInv'
    <2> SUFFICES ASSUME runs' = 0, ~turbo' PROVE CommitInv'
      BY DEF CommitInv
    <2>a. ~Restart /\ ~NextOutput
      <3>1. runs \in 0 .. MaxRuns
        BY <1>2 DEF TypeInv, TypeOK
      <3>2. ~Restart
        BY <3>1, RunsAssumption DEF Restart
      <3> QED
        BY <3>2 DEF NextOutput, EnterBuild
    <2>b. runs = 0 /\ ~turbo
      <3>1. CASE MainStep \/ CancelOuter \/ UNCHANGED vars
        BY <3>1 DEF MainStep, CheckForConvertedManifest, MountConvertedManifest,
           TagPreviouslyConvertedManifest, GroupWait, UploadImage,
           StoreConvertedManifestDetails, Cleanup, CancelOuter, vars, engine
      <3>2. ASSUME NEW i \in Layers, LayerStep(i)
            PROVE  runs = 0 /\ ~turbo
        BY <3>2, LayerFrame
      <3> QED
        BY <1>2, <2>a, <3>1, <3>2 DEF Next
    <2>0. /\ cv \in [Layers -> {"waitDownloaded", "waitParent", "build", "apply",
                               "send1", "send2", "failed", "done"}]
          /\ commit \in [Layers -> Quality \cup {"absent"}]
          /\ fromDedup \in [Layers -> BOOLEAN]
      BY <1>2 DEF TypeInv, TypeOK
    <2> USE <1>2, <2>b DEF CommitInv, Past, goroutines, workdir, engine
    <2>1. CASE UNCHANGED <<commit, fromDedup, cv>>
      BY <2>1
    <2>2. CASE MainStep \/ CancelOuter
      BY <2>2 DEF MainStep, CheckForConvertedManifest, MountConvertedManifest,
         TagPreviouslyConvertedManifest, GroupWait, UploadImage,
         StoreConvertedManifestDetails, Cleanup, CancelOuter
    <2>4. ASSUME NEW i \in Layers, LayerStep(i), cv' # cv
          PROVE  CommitInv'
      <3>1. /\ UNCHANGED fromDedup
            /\ \A k \in Layers : Past(k) => Past(k)'
            /\ \A k \in Layers : commit'[k] # commit[k] => Past(k)'
        BY <2>0, <2>4 DEF LayerStep, DedupStep, DownloadStep, ConvertStep,
           UploadStep, CheckForConvertedLayer, OfferCached, DropOffer,
           NothingCached, DownloadConvertedLayer, DownloadLayer, SendDownloaded,
           DownloadedClosed, ParentConverted, PrepareLayer, ApplyAndCommit,
           ApplyAndArchive, DropConverted, AbortConvert, ConvertedReceived, UploadLayer,
           StoreConvertedLayerDetails, AbortUpload, RecordError, FirstSend,
           AfterSend
      <3> QED
        BY <2>0, <3>1
    <2>5. ASSUME NEW i \in Layers, DownloadConvertedLayer(i)
          PROVE  CommitInv'
      <3>1. /\ UNCHANGED cv
            /\ commit'[i] = "absent" \/ fromDedup'[i]
            /\ \A k \in Layers \ {i} : commit'[k] = commit[k] /\ fromDedup'[k] = fromDedup[k]
        BY <2>0, <2>5 DEF DownloadConvertedLayer
      <3> QED
        BY <2>0, <3>1
    <2>6. ASSUME NEW i \in Layers, LayerStep(i), cv' = cv, ~DownloadConvertedLayer(i)
          PROVE  UNCHANGED <<commit, fromDedup>>
      <3>1. ~PrepareLayer(i) /\ ~ApplyAndCommit(i) /\ ~ApplyAndArchive(i)
        BY <2>0, <2>6 DEF PrepareLayer, ApplyAndCommit, ApplyAndArchive, FirstSend
      <3> QED
        BY <2>6, <3>1 DEF LayerStep, DedupStep, DownloadStep, ConvertStep,
           UploadStep, CheckForConvertedLayer, OfferCached, DropOffer,
           NothingCached, DownloadLayer, SendDownloaded, DownloadedClosed,
           ParentConverted, DropConverted, AbortConvert, ConvertedReceived,
           UploadLayer, StoreConvertedLayerDetails, AbortUpload, RecordError
    <2> QED
      BY <2>1, <2>2, <2>a, <2>4, <2>5, <2>6 DEF Next, vars
  <1>3. Safety => [](TypeInv /\ CommitInv)
    BY <1>1, <1>2, TypeInit, TypeStep, PTL DEF Safety
  <1>4. TypeInv /\ CommitInv => CommitFileOnlyFromDedup
    BY DEF TypeInv, TypeOK, CommitInv, Past, CommitFileOnlyFromDedup
  <1> QED
    BY <1>3, <1>4, PTL

\* The descriptor that an upload goroutine is about to store names a blob it
\* uploaded: nobody replaces it, because the download goroutine has returned by
\* then. Only a convert goroutine that was cancelled returns before it.
StoreInv ==
    \A i \in Layers :
        /\ cv[i] # "waitDownloaded" /\ ~Cancelled => dl[i] \in {"failed", "done"}
        /\ up[i] \in {"upload", "store"} => dl[i] \in {"failed", "done"}
        /\ up[i] = "store" => <<turbo, i, desc[i]>> \in blobs

\* For any number of layers, failures, cancellations and restarts, a row that is
\* added or changed names a blob that is in the repository already.
THEOREM RowsAreBacked == Safety => RowsNameUploadedBlobs
  <1>1. Init => StoreInv
    BY DEF Init, NewMemory, StoreInv
  <1>2. ASSUME TypeInv, StoreInv, [Next]_vars
        PROVE  /\ StoreInv'
               /\ \A i \in Layers : rows'[i] \notin {"none", rows[i]}
                                      => <<FALSE, i, rows'[i]>> \in blobs'
    <2>0. /\ cv \in [Layers -> {"waitDownloaded", "waitParent", "build", "apply",
                               "send1", "send2", "failed", "done"}]
          /\ dl \in [Layers -> {"wait", "fetchConverted", "fetchLayer", "send",
                                "failed", "done"}]
          /\ up \in [Layers -> {"waitConverted", "upload", "store", "failed", "done"}]
          /\ desc \in [Layers -> Quality \cup {"none"}]
          /\ rows \in [Layers -> Quality \cup {"none"}]
          /\ turbo \in BOOLEAN
      BY <1>2 DEF TypeInv, TypeOK
    <2> USE <1>2 DEF Cancelled, goroutines, workdir, engine, registry, database
    <2>1. CASE MainStep \/ CancelOuter \/ NextOutput \/ Restart \/ UNCHANGED vars
      <3>1. UNCHANGED rows /\ blobs \subseteq blobs'
        BY <2>1, MountedManifest DEF MainStep, CheckForConvertedManifest,
           TagPreviouslyConvertedManifest, GroupWait, UploadImage,
           StoreConvertedManifestDetails, Cleanup, CancelOuter, NextOutput,
           Restart, EnterBuild, vars
      <3>2. CASE NextOutput \/ Restart
        BY <3>1, <3>2 DEF NextOutput, Restart, EnterBuild, StoreInv
      <3>3. CASE ~NextOutput /\ ~Restart
        <4>1. UNCHANGED <<err, goroutines, turbo, desc>> /\ (outer => outer')
          BY <2>1, <3>3 DEF MainStep, CheckForConvertedManifest, MountConvertedManifest,
             TagPreviouslyConvertedManifest, GroupWait, UploadImage,
             StoreConvertedManifestDetails, Cleanup, CancelOuter, vars
        <4> QED
          BY <3>1, <4>1 DEF StoreInv
      <3> QED
        BY <3>2, <3>3
    <2>2. ASSUME NEW i \in Layers, CheckForConvertedLayer(i)
          PROVE  /\ UNCHANGED <<err, outer, cv, dl, up, turbo, desc>>
                 /\ blobs \subseteq blobs'
                 /\ \A k \in Layers : rows'[k] \notin {"none", rows[k]}
                                        => <<FALSE, k, rows'[k]>> \in blobs'
      <3>1. PICK q \in OldRows \cup {"none"} : rows' = rows \/ rows' = [rows EXCEPT ![i] = q]
        BY <2>0, <2>2, CheckedLayer
      <3>2. \A k \in Layers \ {i} : rows'[k] = rows[k]
        BY <2>0, <3>1
      <3> QED
        BY <2>0, <2>2, <3>2, CheckedLayer
    <2>3. ASSUME NEW i \in Layers, DownloadConvertedLayer(i)
          PROVE  StoreInv' /\ UNCHANGED rows
      <3>1. /\ up[i] \notin {"upload", "store"} /\ (~Cancelled => cv[i] = "waitDownloaded")
            /\ UNCHANGED <<err, outer, cv, up, turbo, blobs, rows>>
            /\ \A k \in Layers \ {i} : dl'[k] = dl[k] /\ desc'[k] = desc[k]
        BY <2>0, <2>3 DEF DownloadConvertedLayer, StoreInv
      <3> QED
        BY <3>1 DEF StoreInv
    <2>4. ASSUME NEW i \in Layers, UploadLayer(i)
          PROVE  StoreInv' /\ UNCHANGED rows
      <3>1. CASE /\ up' = [up EXCEPT ![i] = "failed"] /\ UNCHANGED desc
                 /\ blobs \subseteq blobs'
        BY <2>0, <2>4, <3>1 DEF UploadLayer, StoreInv
      <3>2. CASE /\ blobs' = blobs \cup {<<turbo, i, LayerFile(i)>>}
                 /\ desc' = [desc EXCEPT ![i] = LayerFile(i)]
                 /\ up' = [up EXCEPT ![i] = "store"]
        <4>1. /\ UNCHANGED <<err, outer, cv, dl, turbo, rows>> /\ up[i] = "upload"
          BY <2>4 DEF UploadLayer
        <4> QED
          BY <2>0, <3>2, <4>1 DEF StoreInv
      <3> QED
        BY <2>4, <3>1, <3>2 DEF UploadLayer
    <2>5. ASSUME NEW i \in Layers, StoreConvertedLayerDetails(i)
          PROVE  /\ StoreInv'
                 /\ \A k \in Layers : rows'[k] \notin {"none", rows[k]}
                                        => <<FALSE, k, rows'[k]>> \in blobs'
      BY <2>0, <2>5 DEF StoreConvertedLayerDetails, UsesDatabase, StoreInv
    <2>6. ASSUME NEW i \in Layers, ParentConverted(i) \/ ConvertedReceived(i)
          PROVE  StoreInv' /\ UNCHANGED rows
      <3>1. /\ UNCHANGED <<err, outer, dl, turbo, desc, blobs, rows>>
            /\ \A k \in Layers : cv'[k] # "waitDownloaded" => cv[k] # "waitDownloaded"
            /\ \A k \in Layers : up'[k] = "store" => up[k] = "store"
            /\ \A k \in Layers : up'[k] # up[k] => k = i /\ cv[i] # "waitDownloaded"
                                                    /\ ~Cancelled
        BY <2>0, <2>6 DEF ParentConverted, ConvertedReceived, ClosedConverted,
           AfterSend
      <3> QED
        BY <3>1 DEF StoreInv
    <2>7. ASSUME NEW i \in Layers,
                 SendDownloaded(i) \/ DownloadedClosed(i) \/ AbortConvert(i)
          PROVE  StoreInv' /\ UNCHANGED rows
      BY <2>0, <2>7 DEF SendDownloaded, DownloadedClosed, AbortConvert,
         ClosedDownloaded, StoreInv
    <2>8. ASSUME NEW i \in Layers,
                 \/ OfferCached(i) \/ DropOffer(i) \/ NothingCached(i)
                 \/ DownloadLayer(i) \/ PrepareLayer(i) \/ ApplyAndCommit(i)
                 \/ ApplyAndArchive(i) \/ DropConverted(i) \/ AbortUpload(i) \/ RecordError(i)
          PROVE  StoreInv' /\ UNCHANGED rows
      <3>1. /\ (err => err') /\ UNCHANGED <<outer, turbo, desc, blobs, rows>>
            /\ \A k \in Layers : cv'[k] # "waitDownloaded" => cv[k] # "waitDownloaded"
            /\ \A k \in Layers : dl[k] \in {"failed", "done"}
                                   => dl'[k] \in {"failed", "done"}
            /\ \A k \in Layers : up'[k] \in {"upload", "store"} => up'[k] = up[k]
        BY <2>0, <2>8 DEF OfferCached, DropOffer, NothingCached, DownloadLayer,
           PrepareLayer, ApplyAndCommit, ApplyAndArchive, DropConverted,
           AbortUpload, RecordError, AfterSend, FirstSend
      <3> QED
        BY <3>1 DEF StoreInv
    <2>9. ASSUME NEW i \in Layers, CheckForConvertedLayer(i)
          PROVE  StoreInv'
      <3>1. UNCHANGED <<err, outer, cv, dl, up, turbo, desc>> /\ blobs \subseteq blobs'
        BY <2>2, <2>9
      <3> QED
        BY <3>1 DEF StoreInv
    <2>10. ASSUME UNCHANGED rows
           PROVE  \A k \in Layers : rows'[k] \notin {"none", rows[k]}
                                       => <<FALSE, k, rows'[k]>> \in blobs'
      BY <2>10
    <2>11. ASSUME NEW i \in Layers, LayerStep(i)
           PROVE  /\ StoreInv'
                  /\ \A k \in Layers : rows'[k] \notin {"none", rows[k]}
                                         => <<FALSE, k, rows'[k]>> \in blobs'
      BY <2>2, <2>3, <2>4, <2>5, <2>6, <2>7, <2>8, <2>9, <2>10, <2>11
         DEF LayerStep, DedupStep, DownloadStep, ConvertStep, UploadStep
    <2> QED
      BY <2>1, <2>10, <2>11 DEF Next
  <1>3. TypeInv /\ StoreInv /\ [Next]_vars
          => /\ StoreInv'
             /\ [\A i \in Layers : rows'[i] \notin {"none", rows[i]}
                                     => <<FALSE, i, rows'[i]>> \in blobs']_vars
    BY <1>2
  <1> QED
    BY <1>1, <1>3, TypeInit, TypeStep, PTL DEF Safety, RowsNameUploadedBlobs

-----------------------------------------------------------------------------
(* The rows of a conversion that succeeds.                                 *)

RowsIntact == \A i \in Layers : rows[i] # "bad"

\* Until a goroutine fails every row is right, and Build only gets past the wait
\* without an error if none has failed; the second image stores no rows.
RowsInv ==
    /\ main \in {"check", "mountImage", "tag"} => NoFailure
    /\ NoFailure \/ turbo => RowsIntact
    /\ result # "none" => main \in {"cleanup", "done"}
    /\ main \in {"cleanup", "done"} =>
           result = "failed" \/ (result \in {"reused", "converted"} /\ RowsIntact)

\* A step of a goroutine changes rows to right ones as long as none has failed.
LEMMA LayerKeepsRows ==
  ASSUME CleanStarts, TypeInv, IInv, RowsInv, NEW i \in Layers, LayerStep(i),
         NoFailure' \/ turbo'
  PROVE  RowsIntact'
  <1>0. /\ rows \in [Layers -> Quality \cup {"none"}]
        /\ desc \in [Layers -> Quality \cup {"none"}]
    BY DEF TypeInv, TypeOK
  <1>1. main = "wait" /\ UNCHANGED <<main, turbo>>
    BY LayerFrame
  <1>2. NoFailure' => NoFailure
    <2> SUFFICES ASSUME NoFailure' PROVE NoFailure
      OBVIOUS
    <2>1. MaxRuns = 0 /\ [Next]_vars /\ ~NextOutput /\ Converting'
      BY <1>1 DEF CleanStarts, Next, NextOutput, Converting
    <2> QED
      BY <2>1, NoFailureBack
  <1>3. RowsIntact
    BY <1>1, <1>2 DEF RowsInv
  <1>4. CASE CheckForConvertedLayer(i)
    <2>1. PICK q \in {"none", "good"} : rows' = rows \/ rows' = [rows EXCEPT ![i] = q]
      BY <1>0, <1>4, CheckedLayer DEF CleanStarts
    <2> QED
      BY <1>0, <1>3, <2>1 DEF RowsIntact
  <1>5. CASE StoreConvertedLayerDetails(i)
    <2>1. CASE turbo
      BY <1>3, <1>5, <2>1 DEF StoreConvertedLayerDetails, UsesDatabase, RowsIntact
    <2>2. CASE ~turbo
      <3>1. desc[i] # "bad"
        BY <1>1, <1>2, <2>2 DEF IInv, Converting, Intact, UploadIntact
      <3> QED
        BY <1>0, <1>3, <1>5, <3>1 DEF StoreConvertedLayerDetails, RowsIntact
    <2> QED
      BY <2>1, <2>2
  <1>6. CASE ~CheckForConvertedLayer(i) /\ ~StoreConvertedLayerDetails(i)
    <2>1. rows' = rows
      BY <1>6 DEF LayerStep, DedupStep, DownloadStep, ConvertStep, UploadStep,
         OfferCached, DropOffer, NothingCached, DownloadConvertedLayer,
         DownloadLayer, SendDownloaded, DownloadedClosed, ParentConverted,
         PrepareLayer, ApplyAndCommit, ApplyAndArchive, DropConverted,
         AbortConvert, ConvertedReceived, UploadLayer, AbortUpload, RecordError,
         database
    <2> QED
      BY <1>3, <2>1 DEF RowsIntact
  <1> QED
    BY <1>4, <1>5, <1>6

\* Every step keeps RowsInv.
LEMMA RowsInvStep ==
  ASSUME CleanStarts, TypeInv, IInv, RowsInv, [Next]_vars
  PROVE  RowsInv'
  <1> USE DEF RowsInv, NoFailure, goroutines, engine, database
  <1>1. CASE CheckForConvertedManifest \/ TagPreviouslyConvertedManifest
    BY <1>1 DEF CheckForConvertedManifest, TagPreviouslyConvertedManifest, RowsIntact
  <1>2. CASE MountConvertedManifest
    <2>1. /\ UNCHANGED <<result, err, dl, cv, up, turbo, rows>>
          /\ main = "mountImage" /\ main' \in {"tag", "wait"}
      BY <1>2, MountedManifest
    <2> QED
      BY <2>1 DEF RowsIntact
  <1>3. CASE GroupWait \/ UploadImage \/ Cleanup
    BY <1>3 DEF GroupWait, UploadImage, Cleanup, Running, RowsIntact
  <1>4. CASE StoreConvertedManifestDetails
    <2>1. NoFailure
      BY <1>4 DEF StoreConvertedManifestDetails, IInv, Waited, AllReturned
    <2> QED
      BY <1>4, <2>1 DEF StoreConvertedManifestDetails, RowsIntact
  <1>5. CASE CancelOuter
    BY <1>5 DEF CancelOuter, Running, RowsIntact
  <1>6. CASE NextOutput
    <2>1. RowsIntact /\ rows' = rows
      BY <1>6 DEF NextOutput, EnterBuild
    <2> QED
      BY <1>6, <2>1 DEF NextOutput, EnterBuild, RowsIntact
  <1>7. ~Restart
    BY DEF CleanStarts, TypeInv, TypeOK, Restart
  <1>8. ASSUME NEW i \in Layers, LayerStep(i)
        PROVE  RowsInv'
    <2>1. main = "wait" /\ UNCHANGED <<main, result, turbo>>
      BY <1>8, LayerFrame
    <2>2. NoFailure' \/ turbo' => RowsIntact'
      BY <1>8, LayerKeepsRows
    <2> QED
      BY <2>1, <2>2
  <1>9. CASE UNCHANGED vars
    BY <1>9 DEF vars, RowsIntact
  <1> QED
    BY <1>1, <1>2, <1>3, <1>4, <1>5, <1>6, <1>7, <1>8, <1>9 DEF Next, MainStep

\* Without an interrupt, over an empty directory and right old rows: whatever a
\* goroutine stores while another one fails, a conversion that succeeds leaves
\* only rows that name the conversion of their layers.
THEOREM SuccessLeavesIntactRows ==
  ASSUME CleanStarts
  PROVE  Safety => []SuccessStoresIntactRows
  <1>1. Init => RowsInv
    <2> SUFFICES ASSUME Init PROVE RowsInv
      OBVIOUS
    <2>1. RowsIntact
      BY DEF CleanStarts, Init, RowsIntact
    <2> QED
      BY <2>1 DEF Init, NewMemory, RowsInv, NoFailure
  <1>2. TypeInv /\ IInv /\ RowsInv /\ [Next]_vars => RowsInv'
    BY RowsInvStep
  <1>3. Safety => [](TypeInv /\ Ordered /\ IInv)
    BY IInvariant
  <1>4. RowsInv => SuccessStoresIntactRows
    BY DEF RowsInv, RowsIntact, SuccessStoresIntactRows
  <1> QED
    BY <1>1, <1>2, <1>3, <1>4, PTL DEF Safety
=============================================================================
