----------------------------- MODULE GraphBuild -----------------------------
(***************************************************************************)
(* The conversion of a whole image by cmd/convertor/builder: graphBuilder   *)
(* .Build walks the source, an index of manifests (and of indexes) or one   *)
(* manifest, with one goroutine for each descriptor under one errgroup. A   *)
(* manifest is converted by overlaybdBuilder.Build, at most Limit at a      *)
(* time, and enters here only by its contract (ConversionContract). An      *)
(* index waits for the goroutines below it and is pushed with what they     *)
(* returned; the root is pushed under the target tag.                       *)
(***************************************************************************)
EXTENDS Integers, FiniteSets

CONSTANTS
    Nodes,      \* the descriptors of the source image
    Root,
    Kind,       \* what each of them is
    Parent,     \* the index that lists it
    Limit       \* ConcurrencyLimit: manifests built at once, 0 for no limit

Kinds == {"manifest", "index", "attestation", "unsupported"}

ASSUME TreeAssumption ==
    /\ Root \in Nodes
    /\ Kind \in [Nodes -> Kinds]
    /\ Kind[Root] # "attestation"
    /\ Parent \in [Nodes \ {Root} -> {n \in Nodes : Kind[n] = "index"}]
ASSUME LimitAssumption == Limit \in Nat
ASSUME FiniteAssumption == IsFiniteSet(Nodes)

VARIABLES
    pc,         \* where the goroutine of each descriptor stands
    res,        \* what its process returns
    listed,     \* index.Manifests[i] of the parent: the source or the target
    sem,        \* tokens in the channel b.sem
    err,        \* the errgroup holds an error, which cancels gctx
    image,      \* what was pushed for each descriptor
    result      \* what Build returned

vars == <<pc, res, listed, sem, err, image, result>>

Init ==
    /\ pc = [n \in Nodes |-> IF n = Root THEN "process" ELSE "none"]
    /\ res = [n \in Nodes |-> "none"]
    /\ listed = [n \in Nodes |-> "source"]
    /\ sem = 0
    /\ err = FALSE
    /\ image = [n \in Nodes |-> "none"]
    /\ result = "none"

-----------------------------------------------------------------------------

\* The descriptors of index n that are converted: an attestation is skipped,
\* and dropped from the index that is pushed.
Converted(n) == {c \in Nodes \ {Root} : Parent[c] = n /\ Kind[c] # "attestation"}

\* The process of n returns.
Returns(n, r) ==
    /\ pc' = [pc EXCEPT ![n] = "return"]
    /\ res' = [res EXCEPT ![n] = r]

ProcessManifest(n) ==
    /\ pc[n] = "process" /\ Kind[n] = "manifest"
    /\ pc' = [pc EXCEPT ![n] = "acquire"]
    /\ UNCHANGED <<res, listed, sem, err, image, result>>

\* The index is fetched, and each of its descriptors gets a goroutine.
ProcessIndex(n) ==
    /\ pc[n] = "process" /\ Kind[n] = "index"
    /\ pc' = [m \in Nodes |-> IF m = n THEN "wait"
                              ELSE IF m \in Converted(n) THEN "process"
                              ELSE pc[m]]
    /\ UNCHANGED <<res, listed, sem, err, image, result>>

\* An index that cannot be fetched, or a media type that is not supported.
ProcessFails(n) ==
    /\ pc[n] = "process" /\ Kind[n] # "manifest"
    /\ Returns(n, "failed")
    /\ UNCHANGED <<listed, sem, err, image, result>>

-----------------------------------------------------------------------------
(* buildOne.                                                               *)

\* Mutant: a token is put into the channel whether or not there is room.
AcquireFull(n) ==
    /\ pc[n] = "acquire"
    /\ pc' = [pc EXCEPT ![n] = "build"]
    /\ sem' = sem + 1
    /\ UNCHANGED <<res, listed, err, image, result>>

\* The select on b.sem and the context; without a limit there is no channel.
Acquire(n) ==
    /\ pc[n] = "acquire"
    /\ \/ /\ Limit = 0 \/ sem < Limit
          /\ sem' = IF Limit = 0 THEN sem ELSE sem + 1
          /\ pc' = [pc EXCEPT ![n] = "build"]
          /\ UNCHANGED res
       \/ Limit # 0 /\ err /\ Returns(n, "failed") /\ UNCHANGED sem
    /\ UNCHANGED <<listed, err, image, result>>

\* The conversion keeps its contract: it succeeds with its image pushed, or it
\* fails, with or without that.
BuildManifest(n) ==
    /\ pc[n] = "build"
    /\ pc' = [pc EXCEPT ![n] = "release"]
    /\ \/ /\ image' = [image EXCEPT ![n] = "whole"]
          /\ res' = [res EXCEPT ![n] = "converted"]
       \/ /\ image' \in {image, [image EXCEPT ![n] = "whole"]}
          /\ res' = [res EXCEPT ![n] = "failed"]
    /\ UNCHANGED <<listed, sem, err, result>>

\* The deferred select: a done context may leave the token in the channel.
Release(n) ==
    /\ pc[n] = "release"
    /\ \/ Limit # 0 /\ sem > 0 /\ sem' = sem - 1
       \/ (Limit = 0 \/ err) /\ UNCHANGED sem
    /\ pc' = [pc EXCEPT ![n] = "return"]
    /\ UNCHANGED <<res, listed, err, image, result>>

-----------------------------------------------------------------------------
(* An index after its goroutines are started.                              *)

\* Mutant: wg.Done is called at the end of a process that succeeds.
WgDoneOnSuccess(n) == pc[n] \in {"returned", "ended"} /\ res[n] = "converted"

\* wg.Done of a goroutine comes before the errgroup has its error.
WgDone(n) == pc[n] \in {"returned", "ended"}

\* wg.Wait, and the check of ctx.Err() that follows it.
WaitChildren(n) ==
    /\ pc[n] = "wait"
    /\ \A c \in Converted(n) : WgDone(c)
    /\ IF err THEN Returns(n, "failed")
              ELSE pc' = [pc EXCEPT ![n] = "push"] /\ UNCHANGED res
    /\ UNCHANGED <<listed, sem, err, image, result>>

\* The index as it is pushed.
Composed(n) ==
    IF \A c \in Converted(n) : listed[c] = "target" /\ image[c] = "whole"
    THEN "whole" ELSE "mixed"

\* A push succeeds only under a live context; that of a failed one may have
\* reached the registry.
PushIndex(n) ==
    /\ pc[n] = "push"
    /\ \/ /\ ~err
          /\ image' = [image EXCEPT ![n] = Composed(n)]
          /\ Returns(n, "converted")
       \/ /\ image' \in {image, [image EXCEPT ![n] = Composed(n)]}
          /\ Returns(n, "failed")
    /\ UNCHANGED <<listed, sem, err, result>>

-----------------------------------------------------------------------------
(* The goroutine of a descriptor after process, and Build.                  *)

\* index.Manifests[i] is set if process succeeded, and then wg.Done runs.
FinishProcess(n) ==
    /\ pc[n] = "return"
    /\ listed' = [listed EXCEPT ![n] = IF res[n] = "converted" THEN "target" ELSE @]
    /\ pc' = [pc EXCEPT ![n] = "returned"]
    /\ UNCHANGED <<res, sem, err, image, result>>

\* Mutant: the goroutine logs the error and returns nil.
LogError(n) ==
    /\ pc[n] = "returned"
    /\ pc' = [pc EXCEPT ![n] = "ended"]
    /\ UNCHANGED <<res, listed, sem, err, image, result>>

\* The errgroup sees what the goroutine returned.
RecordError(n) ==
    /\ pc[n] = "returned"
    /\ err' = (err \/ res[n] = "failed")
    /\ pc' = [pc EXCEPT ![n] = "ended"]
    /\ UNCHANGED <<res, listed, sem, image, result>>

\* g.Wait of Build.
GroupWait ==
    /\ result = "none"
    /\ \A n \in Nodes : pc[n] \in {"none", "ended"}
    /\ result' = IF err THEN "failed" ELSE "converted"
    /\ UNCHANGED <<pc, res, listed, sem, err, image>>

-----------------------------------------------------------------------------

NodeStep(n) ==
    \/ ProcessManifest(n) \/ ProcessIndex(n) \/ ProcessFails(n)
    \/ Acquire(n) \/ BuildManifest(n) \/ Release(n)
    \/ WaitChildren(n) \/ PushIndex(n)
    \/ FinishProcess(n) \/ RecordError(n)

Next == GroupWait \/ \E n \in Nodes : NodeStep(n)

Safety == Init /\ [][Next]_vars

\* Every goroutine that can run does, and conversions and pushes end.
Spec == Safety /\ WF_vars(GroupWait) /\ \A n \in Nodes : WF_vars(NodeStep(n))

-----------------------------------------------------------------------------

\* Each variable stays in its range; the channel b.sem never holds more tokens
\* than its capacity.
TypeOK ==
    /\ pc \in [Nodes -> {"none", "process", "acquire", "build", "release",
                         "wait", "push", "return", "returned", "ended"}]
    /\ res \in [Nodes -> {"none", "converted", "failed"}]
    /\ listed \in [Nodes -> {"source", "target"}]
    /\ sem \in 0 .. Limit
    /\ err \in BOOLEAN
    /\ image \in [Nodes -> {"none", "whole", "mixed"}]
    /\ result \in {"none", "converted", "failed"}

\* "the number of manifests that can be built at the same time" (the flag
\* concurrency-limit), although a token may stay in the channel or be taken
\* out by another goroutine than the one that put it in (buildOne).
BuildsBounded ==
    Limit # 0 => Cardinality({n \in Nodes : pc[n] = "build"}) <= Limit

\* Build reports success only for an image converted as a whole: an index that
\* was pushed with the source of a conversion that failed makes Build fail,
\* however late that error reaches the errgroup (process, Build).
SuccessIsWhole == result = "converted" => image[Root] = "whole"

\* "Build return a descriptor of the converted target, as the caller may need
\* it to ... compose an index": what is pushed under the target tag never
\* names a manifest of the source (process).
TagIsWhole == image[Root] \in {"none", "whole"}

\* Build returns: no goroutine waits for ever for a token or for the goroutines
\* of its index, whichever conversions fail.
BuildReturns == <>(result # "none")
=============================================================================
