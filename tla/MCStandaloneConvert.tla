------------------------- MODULE MCStandaloneConvert -------------------------
(* Instances of StandaloneConvert for TLC: three commands, two hosts and two *)
(* repositories, so that rows, snapshots and blobs are shared.               *)
EXTENDS StandaloneConvert, TLC

CONSTANTS base, app, c1, c2, c3, h1, h2, r1, r2

\* All images share their base layer.
MCImage == (c1 :> <<base, app>>) @@ (c2 :> <<base>>) @@ (c3 :> <<base, app>>)
\* A blob that an image holds twice, as the empty layers of many images are.
MCRepeated == c1 :> <<base, app, base>>

MCHost == (c1 :> h1) @@ (c2 :> h2) @@ (c3 :> h1)
MCRepo == (c1 :> r1) @@ (c2 :> r1) @@ (c3 :> r2)
MCModes == (c1 :> {"remote"}) @@ (c2 :> {"remote"}) @@ (c3 :> {"remote", "local"})
=============================================================================
