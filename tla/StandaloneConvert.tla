-------------------------- MODULE StandaloneConvert --------------------------
(***************************************************************************)
(* The stand-alone conversion of `ctr obdconv`                             *)
(* (pkg/convertor/convertor.go): overlaybdConvertor.Convert applies the    *)
(* layers of an image one after the other through the overlaybd            *)
(* snapshotter of its host and exports each of them.  Several commands run *)
(* beside each other; they share the snapshots of a host, the registry     *)
(* and, with --dbstr, the table overlaybd_layers.                          *)
(*                                                                         *)
(* A converted layer is a difference of blocks: it can be read only above  *)
(* the very layers it was made over.  A blob is therefore the sequence of  *)
(* the layers it was made of, itself last, each with the stamp of its      *)
(* build; if conversion is reproducible there is one stamp.                *)
(***************************************************************************)
EXTENDS Integers, Sequences

CONSTANTS
    Layer,        \* layer blobs of the source images
    Convertor,    \* commands
    Image,        \* the layers of the image a command converts
    Host,         \* the host a command runs on
    Repo,         \* the repository a command reads and pushes to
    Modes,        \* "remote" with --dbstr, "local" without
    None,
    MaxRuns,      \* how often a command may be run
    MaxFaults,    \* calls that fail or are cut short
    MaxLost,      \* blobs a registry may lose
    MaxCollect    \* how often snapshots may be collected

Hosts == {Host[c] : c \in Convertor}
Repos == {Repo[c] : c \in Convertor}

\* A prefix of an image, which its chain ID names.
Chain(c, i) == SubSeq(Image[c], 1, i)
Chains == UNION {{Chain(c, i) : i \in 1 .. Len(Image[c])} : c \in Convertor}

\* Two kinds of committed snapshots: "overlaybd-conv-" with the chain ID for
\* a layer that was found, with the digest of the blob for one that was built.
Names == Chains \cup Layer

ASSUME ImageAssumption == Image \in [Convertor -> Seq(Layer) \ {<<>>}]
ASSUME NoneAssumption == None \notin Names
\* A chain ID is no digest of a blob (it is for an uncompressed first layer, whose
\* two snapshots are one then, of the same contents).
ASSUME NamesAssumption == Chains \cap Layer = {}
ASSUME ModesAssumption == \A c \in Convertor : Modes[c] \subseteq {"remote", "local"}
ASSUME BoundsAssumption ==
    /\ MaxRuns \in Nat /\ MaxFaults \in Nat
    /\ MaxLost \in Nat /\ MaxCollect \in Nat

VARIABLES
    reproducible, \* whether equal conversions make equal blobs
    snaps,        \* the blobs below and of each committed snapshot of a host
    collected,    \* how often snapshots were collected
    registry,     \* the blobs of each repository
    pushed,       \* the blobs each repository has ever had
    rows,         \* overlaybd_layers: the blob of a chain in a repository
    conv,         \* the commands
    images,       \* the images that were returned
    faults, lost  \* what the bounds have left

vars == <<reproducible, snaps, collected, registry, pushed, rows, conv,
          images, faults, lost>>
world == <<snaps, collected, registry, pushed, rows, images, lost>>

-----------------------------------------------------------------------------
(* Blobs and stacks of blobs. *)

Stamps == (Hosts \cup {None}) \X (0 .. MaxCollect)
Stamp(h) == IF reproducible THEN <<None, 0>> ELSE <<h, collected>>
Blobs == Seq(Layer \X Stamps)

Top(b) == b[Len(b)]
SourceLayers(b) == [i \in DOMAIN b |-> b[i][1]]

\* What a blob is made over when it is made in a snapshot on this stack.
Built(stack, l, h) ==
    [i \in 1 .. Len(stack) + 1 |->
        IF i <= Len(stack) THEN Top(stack[i]) ELSE <<l, Stamp(h)>>]

\* Each blob was made over the ones below it.
Stacked(stack) ==
    \A i \in DOMAIN stack : stack[i] = [k \in 1 .. i |-> Top(stack[k])]

\* The blobs convert the layers of the chain, one each and in order.
Converts(stack, chain) ==
    /\ Len(stack) = Len(chain)
    /\ \A i \in DOMAIN stack : SourceLayers(stack[i]) = SubSeq(chain, 1, i)

-----------------------------------------------------------------------------
(* The commands. *)

Idle == [stage |-> "idle", run |-> 0, mode |-> "local", idx |-> 1,
         parent |-> None, found |-> <<>>, rest |-> {},
         layers |-> <<>>, exports |-> {}, cancelled |-> FALSE]

Ended == {"idle", "done", "failed"}
Loop == {"find", "fetch", "delete", "query", "mount", "record", "prepare",
         "apply", "push", "insert"}
Stages == Ended \cup Loop \cup {"wait", "commit"}

Init ==
    /\ reproducible \in BOOLEAN
    /\ snaps = [h \in Hosts |-> [n \in Names |-> <<>>]]
    /\ collected = 0
    /\ registry = [r \in Repos |-> {}]
    /\ pushed = registry
    /\ rows = [r \in Repos |-> [ch \in Chains |-> <<>>]]
    /\ conv = [c \in Convertor |-> Idle]
    /\ images = {}
    /\ faults = 0
    /\ lost = 0

At(c, stage) == conv[c].stage = stage
ChainOf(c) == Chain(c, conv[c].idx)
LayerOf(c) == Image[c][conv[c].idx]
Row(c) == rows[Repo[c]][ChainOf(c)]
Snapshot(c, n) == snaps[Host[c]][n]
Parent(c) == IF conv[c].parent = None THEN <<>> ELSE Snapshot(c, conv[c].parent)
ParentThere(c) == conv[c].parent = None \/ Parent(c) # <<>>

Goto(c, stage) == conv' = [conv EXCEPT ![c].stage = stage]
FirstStage(mode) == IF mode = "remote" THEN "find" ELSE "apply"

\* Mutant: the index is advanced behind the last layer, too.
AfterAnyLayer(r, c) ==
    [r EXCEPT !.found = <<>>, !.rest = {}, !.idx = r.idx + 1,
              !.stage = IF r.idx < Len(Image[c]) THEN FirstStage(r.mode)
                        ELSE "wait"]

\* The next turn of the loop over the layers, or the wait behind it.
AfterLayer(r, c) ==
    [r EXCEPT !.found = <<>>, !.rest = {},
              !.idx = IF r.idx < Len(Image[c]) THEN r.idx + 1 ELSE r.idx,
              !.stage = IF r.idx < Len(Image[c]) THEN FirstStage(r.mode)
                        ELSE "wait"]

\* The command returns without its image; its goroutines end with it.
Stop(c) == conv' = [conv EXCEPT ![c] = [Idle EXCEPT !.stage = "failed",
                                                    !.run = conv[c].run]]

Insert(r, ch, b) == rows' = [rows EXCEPT ![r][ch] = b]

Convert(c) ==
    /\ conv[c].stage \in Ended
    /\ conv[c].run < MaxRuns
    /\ \E m \in Modes[c] :
        conv' = [conv EXCEPT ![c] =
            [Idle EXCEPT !.stage = FirstStage(m), !.run = conv[c].run + 1,
                         !.mode = m,
                         !.layers = [i \in DOMAIN Image[c] |-> <<>>]]]
    /\ UNCHANGED <<world, reproducible, faults>>

-----------------------------------------------------------------------------
(* findRemote: the row of this repository first. *)

FindRow(c) ==
    /\ At(c, "find")
    /\ conv' = [conv EXCEPT ![c].found = Row(c),
                            ![c].stage = IF Row(c) = <<>> THEN "query" ELSE "fetch"]
    /\ UNCHANGED <<world, reproducible, faults>>

FetchFound(c) ==
    /\ At(c, "fetch")
    /\ Goto(c, IF conv[c].found \in registry[Repo[c]] THEN "prepare" ELSE "delete")
    /\ UNCHANGED <<world, reproducible, faults>>

\* The statement deletes whatever row is there by now.
DeleteRow(c) ==
    /\ At(c, "delete")
    /\ Insert(Repo[c], ChainOf(c), <<>>)
    /\ Goto(c, "query")
    /\ UNCHANGED <<snaps, collected, registry, pushed, images, lost,
                   reproducible, faults>>

\* The rows of all repositories, this one included.
QueryRows(c) ==
    /\ At(c, "query")
    /\ conv' = [conv EXCEPT ![c].stage = "mount",
                            ![c].rest = {<<r, rows[r][ChainOf(c)]>> :
                                         r \in {q \in Repos : rows[q][ChainOf(c)] # <<>>}}]
    /\ UNCHANGED <<world, reproducible, faults>>

\* An error of the first lookup is not looked at, unless it says not found.
LookupFails(c) ==
    /\ conv[c].stage \in {"find", "fetch"}
    /\ faults < MaxFaults
    /\ faults' = faults + 1
    /\ Goto(c, "query")
    /\ UNCHANGED <<world, reproducible>>

\* Mutant: any push that does not fail is taken for a mount.
MountAssumed(c, p) ==
    /\ At(c, "mount")
    /\ p \in conv[c].rest
    /\ conv' = [conv EXCEPT ![c].rest = @ \ {p}, ![c].found = p[2],
                            ![c].stage = "record"]
    /\ UNCHANGED <<world, reproducible, faults>>

\* A push that names the repository to mount from: "already exists" if the
\* registry has the blob there or here.
MountFrom(c, p) ==
    LET has == p[2] \in registry[p[1]] \cup registry[Repo[c]] IN
    /\ At(c, "mount")
    /\ p \in conv[c].rest
    /\ conv' = [conv EXCEPT ![c].rest = @ \ {p},
                            ![c].found = p[2],
                            ![c].stage = IF has THEN "record" ELSE "mount"]
    /\ IF has THEN /\ registry' = [registry EXCEPT ![Repo[c]] = @ \cup {p[2]}]
                   /\ pushed' = [pushed EXCEPT ![Repo[c]] = @ \cup {p[2]}]
       ELSE UNCHANGED <<registry, pushed>>
    /\ UNCHANGED <<snaps, collected, rows, images, lost, reproducible, faults>>

\* Any other answer, too, sends it to the next candidate.
MountFails(c, p) ==
    /\ At(c, "mount")
    /\ p \in conv[c].rest
    /\ faults < MaxFaults
    /\ faults' = faults + 1
    /\ conv' = [conv EXCEPT ![c].rest = @ \ {p}]
    /\ UNCHANGED <<world, reproducible>>

\* The row of the mounted blob; a duplicate sends it to the next candidate.
RecordMount(c) ==
    /\ At(c, "record")
    /\ IF Row(c) = <<>>
       THEN Insert(Repo[c], ChainOf(c), conv[c].found) /\ Goto(c, "prepare")
       ELSE UNCHANGED rows /\ Goto(c, "mount")
    /\ UNCHANGED <<snaps, collected, registry, pushed, images, lost,
                   reproducible, faults>>

\* Any other error of the insert does, too.
RecordFails(c) ==
    /\ At(c, "record")
    /\ faults < MaxFaults
    /\ faults' = faults + 1
    /\ Goto(c, "mount")
    /\ UNCHANGED <<world, reproducible>>

NotFoundRemote(c) ==
    /\ At(c, "mount")
    /\ conv[c].rest = {}
    /\ Goto(c, "apply")
    /\ UNCHANGED <<world, reproducible, faults>>

\* Mutant: lastParentID is not advanced.
PrepareKeepsParent(c) ==
    /\ At(c, "prepare")
    /\ snaps' = IF Snapshot(c, ChainOf(c)) # <<>> THEN snaps
                ELSE [snaps EXCEPT ![Host[c]][ChainOf(c)] =
                        Append(Parent(c), conv[c].found)]
    /\ conv' = [conv EXCEPT ![c] =
                  AfterLayer([@ EXCEPT !.layers[conv[c].idx] = conv[c].found], c)]
    /\ UNCHANGED <<collected, registry, pushed, rows, images, lost,
                   reproducible, faults>>

\* Prepare with the target label commits the snapshot of the chain at once and
\* says that it exists, as it says of one that was there before; it makes one
\* only over a parent that is there.
PrepareRemote(c) ==
    /\ At(c, "prepare")
    /\ Snapshot(c, ChainOf(c)) # <<>> \/ ParentThere(c)
    /\ snaps' = IF Snapshot(c, ChainOf(c)) # <<>> THEN snaps
                ELSE [snaps EXCEPT ![Host[c]][ChainOf(c)] =
                        Append(Parent(c), conv[c].found)]
    /\ conv' = [conv EXCEPT ![c] =
                  AfterLayer([@ EXCEPT !.parent = ChainOf(c),
                                       !.layers[conv[c].idx] = conv[c].found], c)]
    /\ UNCHANGED <<collected, registry, pushed, rows, images, lost,
                   reproducible, faults>>

-----------------------------------------------------------------------------
(* Layers that are built. *)

\* applyOCIV1LayerInObd: the layer is unpacked over the parent and committed
\* under the digest of its blob.  If that name is taken, the new snapshot is
\* removed and the one of that name is used.
ApplyLayer(c) ==
    LET l == LayerOf(c)
        next == [conv[c] EXCEPT !.parent = l]
    IN
    /\ At(c, "apply")
    /\ ParentThere(c)
    /\ snaps' = IF Snapshot(c, l) # <<>> THEN snaps
                ELSE [snaps EXCEPT ![Host[c]][l] =
                        Append(Parent(c), Built(Parent(c), l, Host[c]))]
    /\ conv' = [conv EXCEPT ![c] =
                  IF next.mode = "remote" THEN [next EXCEPT !.stage = "push"]
                  ELSE AfterLayer([next EXCEPT !.exports = @ \cup {next.idx}], c)]
    /\ UNCHANGED <<collected, registry, pushed, rows, images, lost,
                   reproducible, faults>>

\* sendToContentStore and pushObject.
PushLayer(c) ==
    LET b == Top(Parent(c)) IN
    /\ At(c, "push")
    /\ ParentThere(c)
    /\ conv' = [conv EXCEPT ![c].stage = "insert",
                            ![c].layers[conv[c].idx] = b]
    /\ registry' = [registry EXCEPT ![Repo[c]] = @ \cup {b}]
    /\ pushed' = [pushed EXCEPT ![Repo[c]] = @ \cup {b}]
    /\ UNCHANGED <<snaps, collected, rows, images, lost, reproducible, faults>>

\* Mutant: the row is that of the layer after, idx being advanced first.
InsertNextRow(c) ==
    /\ At(c, "insert")
    /\ conv' = [conv EXCEPT ![c] = AfterLayer(@, c)]
    /\ Insert(Repo[c], Chain(c, conv'[c].idx), conv[c].layers[conv[c].idx])
    /\ UNCHANGED <<snaps, collected, registry, pushed, images, lost,
                   reproducible, faults>>

\* The insert of sentToRemote; a duplicate entry ends the conversion.
InsertRow(c) ==
    /\ At(c, "insert")
    /\ IF Row(c) = <<>>
       THEN /\ Insert(Repo[c], ChainOf(c), conv[c].layers[conv[c].idx])
            /\ conv' = [conv EXCEPT ![c] = AfterLayer(@, c)]
       ELSE UNCHANGED rows /\ Stop(c)
    /\ UNCHANGED <<snaps, collected, registry, pushed, images, lost,
                   reproducible, faults>>

\* Mutant: the goroutine captures lastParentID itself, without a copy.
ExportCaptured(c, i) ==
    /\ i \in conv[c].exports
    /\ Parent(c) # <<>>
    /\ conv' = [conv EXCEPT ![c].exports = @ \ {i},
                            ![c].layers[i] = Top(Parent(c))]
    /\ UNCHANGED <<world, reproducible, faults>>

\* Without a database the exports are goroutines beside the loop.
ExportLayer(c, i) ==
    /\ i \in conv[c].exports
    /\ Snapshot(c, Image[c][i]) # <<>>
    /\ conv' = [conv EXCEPT ![c].exports = @ \ {i},
                            ![c].layers[i] = Top(Snapshot(c, Image[c][i]))]
    /\ UNCHANGED <<world, reproducible, faults>>

\* It fails if the snapshot is gone, or for another reason.
ExportFails(c, i) ==
    /\ i \in conv[c].exports
    /\ \/ Snapshot(c, Image[c][i]) = <<>> /\ UNCHANGED faults
       \/ faults < MaxFaults /\ faults' = faults + 1
    /\ conv' = [conv EXCEPT ![c].exports = @ \ {i}, ![c].cancelled = TRUE]
    /\ UNCHANGED <<world, reproducible>>

\* The snapshot that the layer is to be made over, or pushed from, was collected.
SnapshotGone(c) ==
    /\ conv[c].stage \in {"prepare", "apply", "push"}
    /\ ~ParentThere(c)
    /\ At(c, "prepare") => Snapshot(c, ChainOf(c)) = <<>>
    /\ Stop(c)
    /\ UNCHANGED <<world, reproducible, faults>>

\* The loop runs under the context that a failed export has cancelled.
LoopCancelled(c) ==
    /\ conv[c].stage \in Loop /\ conv[c].cancelled
    /\ Stop(c)
    /\ UNCHANGED <<world, reproducible, faults>>

Wait(c) ==
    /\ At(c, "wait")
    /\ conv[c].exports = {}
    /\ IF conv[c].cancelled THEN Stop(c) ELSE Goto(c, "commit")
    /\ UNCHANGED <<world, reproducible, faults>>

\* commitImage: config and manifest are written and, remotely, pushed.
CommitImage(c) ==
    /\ At(c, "commit")
    /\ images' = images \cup {[conv |-> c, mode |-> conv[c].mode,
                               layers |-> conv[c].layers]}
    /\ conv' = [conv EXCEPT ![c] = [Idle EXCEPT !.stage = "done",
                                                !.run = conv[c].run]]
    /\ UNCHANGED <<snaps, collected, registry, pushed, rows, lost,
                   reproducible, faults>>

\* Any other call fails, or the command is killed.
Fail(c) ==
    /\ conv[c].stage \notin Ended
    /\ faults < MaxFaults
    /\ faults' = faults + 1
    /\ Stop(c)
    /\ UNCHANGED <<world, reproducible>>

-----------------------------------------------------------------------------
(* The world around the commands. *)

LoseBlob(r, b) ==
    /\ b \in registry[r]
    /\ lost < MaxLost
    /\ lost' = lost + 1
    /\ registry' = [registry EXCEPT ![r] = @ \ {b}]
    /\ UNCHANGED <<snaps, collected, pushed, rows, images, conv, reproducible,
                   faults>>

\* containerd collects snapshots that no lease holds.  The lease of a command
\* holds what the command has made, for one hour; a snapshot that it found was
\* made under the lease of another.  So any snapshot may be gone at any time.
Collect(h) ==
    /\ collected < MaxCollect
    /\ collected' = collected + 1
    /\ \E gone \in SUBSET {n \in Names : snaps[h][n] # <<>>} \ {{}} :
          snaps' = [snaps EXCEPT ![h] =
                      [n \in Names |-> IF n \in gone THEN <<>> ELSE snaps[h][n]]]
    /\ UNCHANGED <<registry, pushed, rows, images, lost, conv, reproducible,
                   faults>>

FindRemote(c) ==
    \/ FindRow(c) \/ FetchFound(c) \/ DeleteRow(c) \/ QueryRows(c)
    \/ LookupFails(c) \/ RecordMount(c) \/ RecordFails(c) \/ NotFoundRemote(c)
    \/ \E p \in conv[c].rest : MountFrom(c, p) \/ MountFails(c, p)

ConvertLayers(c) ==
    \/ PrepareRemote(c) \/ ApplyLayer(c) \/ PushLayer(c) \/ InsertRow(c)
    \/ \E i \in conv[c].exports : ExportLayer(c, i) \/ ExportFails(c, i)
    \/ SnapshotGone(c) \/ LoopCancelled(c) \/ Wait(c) \/ CommitImage(c) \/ Fail(c)

Next ==
    \/ \E c \in Convertor : Convert(c) \/ FindRemote(c) \/ ConvertLayers(c)
    \/ \E r \in Repos : \E b \in registry[r] : LoseBlob(r, b)
    \/ \E h \in Hosts : Collect(h)

Spec == Init /\ [][Next]_vars

-----------------------------------------------------------------------------
(* Properties *)

\* Every variable has its type; in particular the index of the loop over the
\* layers of an image stays within the image.
TypeOK ==
    /\ reproducible \in BOOLEAN
    /\ snaps \in [Hosts -> [Names -> Seq(Blobs)]]
    /\ collected \in 0 .. MaxCollect
    /\ registry \in [Repos -> SUBSET Blobs]
    /\ pushed \in [Repos -> SUBSET Blobs]
    /\ rows \in [Repos -> [Chains -> Blobs]]
    /\ \A c \in Convertor :
        /\ conv[c].stage \in Stages
        /\ conv[c].run \in 0 .. MaxRuns
        /\ conv[c].mode \in {"local", "remote"}
        /\ conv[c].idx \in DOMAIN Image[c]
        /\ conv[c].parent \in Names \cup {None}
        /\ conv[c].found \in Blobs
        /\ conv[c].rest \subseteq Repos \X Blobs
        /\ conv[c].layers \in Seq(Blobs)
        /\ conv[c].exports \subseteq DOMAIN Image[c]
        /\ conv[c].cancelled \in BOOLEAN
    /\ faults \in 0 .. MaxFaults /\ lost \in 0 .. MaxLost

\* A layer that occurs in the images occurs above one and the same chain.
LayersHaveOneChain ==
    \A c, d \in Convertor : \A i \in DOMAIN Image[c], j \in DOMAIN Image[d] :
        Image[c][i] = Image[d][j] => Chain(c, i) = Chain(d, j)

\* An image that Convert returns has one blob per layer of its source, each a
\* conversion of its chain; if conversions are reproducible, each was made
\* over the very blobs below it, whoever made and found them in between.
ImageIntact ==
    \A im \in images :
        /\ Converts(im.layers, Image[im.conv])
        /\ reproducible => Stacked(im.layers)

\* A row of overlaybd_layers names a conversion of its chain ("the
\* correspondence between OCIv1 image layer and overlaybd layer"), although
\* rows are deleted, mounted and inserted by several commands.
RowsNameTheirChain ==
    \A r \in Repos : \A ch \in Chains :
        rows[r][ch] # <<>> => SourceLayers(rows[r][ch]) = ch

\* "must synchronize registry and db": a row, and an image converted with a
\* database, name only blobs that were pushed to their repository.
NamedBlobsWerePushed ==
    /\ \A r \in Repos : \A ch \in Chains :
        rows[r][ch] # <<>> => rows[r][ch] \in pushed[r]
    /\ \A im \in images : im.mode = "remote" =>
        \A i \in DOMAIN im.layers : im.layers[i] \in pushed[Repo[im.conv]]

\* A command keeps only the name of the snapshot it goes on from.  If one of
\* that name is there it holds the layers that were converted, in order: also
\* when another command made it, before this one or after the one that this
\* command has used was collected.
StackedOnParent ==
    \A c \in Convertor :
        conv[c].stage \in Loop /\ ParentThere(c) =>
            Converts(Parent(c), SubSeq(Image[c], 1,
                IF conv[c].stage \in {"push", "insert"} THEN conv[c].idx
                ELSE conv[c].idx - 1))
=============================================================================
