------------------------- MODULE ConversionContract -------------------------
(***************************************************************************)
(* What one conversion (overlaybdBuilder.Build) promises its caller and    *)
(* the users of the registry: the target tag is either left alone or made  *)
(* to name an intact converted image, success is reported only once it     *)
(* does, and the conversion ends.                                          *)
(***************************************************************************)

VARIABLES
    tag,        \* what the target tag names: "none", "good" or "bad"
    outcome     \* what Build returned: "pending", "success" or "failure"

vars == <<tag, outcome>>

Init == tag = "none" /\ outcome = "pending"

\* The manifest is pushed under the target tag.
Publish ==
    /\ outcome = "pending"
    /\ tag' = "good"
    /\ UNCHANGED outcome

\* Build returns a descriptor: only for an image that was published.
Succeed ==
    /\ outcome = "pending"
    /\ tag = "good"
    /\ outcome' = "success"
    /\ UNCHANGED tag

\* Build returns an error.
Fail ==
    /\ outcome = "pending"
    /\ outcome' = "failure"
    /\ UNCHANGED tag

Next == Publish \/ Succeed \/ Fail

Safety == Init /\ [][Next]_vars

Spec == Safety /\ WF_vars(Succeed \/ Fail)
=============================================================================
