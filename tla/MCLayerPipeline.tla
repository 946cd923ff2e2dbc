-------------------------- MODULE MCLayerPipeline --------------------------
(* Instances of LayerPipeline for TLC.                                     *)
EXTENDS LayerPipeline

\* The bottom layer, the one that whole families of images share.
BaseLayer == {0}

\* Earlier conversions were right, or may have stored anything.
RightRows == {"good"}
AnyRows == {"good", "bad"}

BothImages == {"overlaybd", "turboOCI"}
=============================================================================
