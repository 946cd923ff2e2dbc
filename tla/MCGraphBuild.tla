---------------------------- MODULE MCGraphBuild ----------------------------
(* Instances of GraphBuild for TLC: source images.                         *)
EXTENDS GraphBuild

CONSTANTS top, sub, amd, arm, vm, sbom

\* An index of two manifests, an attestation of theirs, and an index that has
\* a manifest of its own.
ImageNodes == {top, sub, amd, arm, vm, sbom}
ImageKind == [n \in ImageNodes |-> CASE n \in {top, sub} -> "index"
                                     [] n = sbom -> "attestation"
                                     [] OTHER -> "manifest"]
ImageParent == [n \in ImageNodes \ {top} |-> IF n = vm THEN sub ELSE top]

\* An index of two manifests.
PairNodes == {top, amd, arm}
PairKind == [n \in PairNodes |-> IF n = top THEN "index" ELSE "manifest"]
PairParent == [n \in PairNodes \ {top} |-> top]
=============================================================================
