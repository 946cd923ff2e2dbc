------------------------- MODULE BlockDeviceProofs ---------------------------
(***************************************************************************)
(* What BlockDevice promises, for any callers, any number of attempts and  *)
(* any number of calls and faults.  The inductive invariant says what the  *)
(* kernel keeps (LinkStands), where an attempt can be that has seen the    *)
(* device linked all along (Spares), and, for a caller that was not        *)
(* disturbed, what is there at each of its steps (Climbs, Descends) and    *)
(* what of it is its own (Leaves).                                         *)
(***************************************************************************)
EXTENDS BlockDevice, TLAPS

\* While a caller is alone, all others rest.
Quiet == \A c, d \in Callers : alone[c] /\ d # c => ~Busy(d)

\* The target of a link can be neither removed nor disabled.
Stands(S) ==
    /\ "link" \in S => "enabled" \in S
    /\ "enabled" \in S => "target" \in S
LinkStands == Stands(nodes)

\* An attempt that has seen the device linked all along stops before it
\* enables the target and has only the target's removal deferred.
Spares(c) ==
    upSince[c] =>
        /\ "link" \in nodes
        /\ job[c] = "attach" => pc[c] \in {"target", "config", "area", "rmtarget", "again"}

\* What an undisturbed attempt has made, or found, so far.
After(steps) == steps \cup {"mark", "mount", "attached"}
Climbs(c) ==
    job[c] = "attach" =>
        /\ pc[c] \notin {"umount", "detached"}
        /\ pc[c] \in AttachSteps => struck[c] # "clean"
        /\ pc[c] \in After(AttachSteps \ {"target"}) => "target" \in nodes
        /\ pc[c] \in After({"timeout", "loop", "lun", "nexus", "link", "address", "device"})
             => "enabled" \in nodes
        /\ pc[c] \in After({"lun", "nexus", "link", "address", "device"}) => "loop" \in nodes
        /\ pc[c] \in After({"nexus", "link", "address", "device"})
             => "tpgt" \in nodes /\ "lun" \in nodes
        /\ pc[c] \in After({"link", "address", "device"}) => "nexus" \in nodes
        /\ pc[c] \in After({"address", "device"}) => "link" \in nodes

\* What an undisturbed detach has left.
Descends(c) ==
    job[c] = "detach" =>
        /\ pc[c] \in {"idle", "umount", "detached", "failed"} \cup CleanSteps
        /\ pc[c] = "rmlun" => "link" \notin nodes
        /\ pc[c] = "rmtpgt" => nodes \cap Below("lun") = {}
        /\ pc[c] = "rmloop" => nodes \cap Below("tpgt") = {}
        /\ pc[c] = "rmtarget" => nodes \cap Below("loop") = {}
        /\ pc[c] = "detached" => nodes = {}

\* What there may be that an undisturbed attempt did not find.
Own(step) ==
    CASE step = "target" -> {}
      [] step \in {"config", "area", "enable"} -> {"target"}
      [] step \in {"timeout", "loop"} -> {"target", "enabled"}
      [] step \in {"lun", "rmtarget"} -> {"target", "enabled", "loop"}
      [] step = "nexus" -> {"target", "enabled", "loop", "tpgt", "lun"}
      [] step = "link" -> Nodes \ {"link"}
      [] step = "again" -> {"loop"}
      [] OTHER -> Nodes
Leaves(c) ==
    job[c] = "attach" /\ struck[c] # "clean" /\ Busy(c) =>
        /\ nodes \subseteq found[c] \cup Own(pc[c])
        /\ Stands(found[c])

Alone(c) == Climbs(c) /\ Descends(c) /\ Leaves(c)

IInv ==
    /\ TypeOK /\ Quiet /\ LinkStands
    /\ \A c \in Callers : Spares(c)
    /\ \A c \in Callers : alone[c] => Alone(c)

-----------------------------------------------------------------------------
(* Types *)

LEMMA DoesTyped ==
    ASSUME TypeOK, NEW c \in Callers, NEW here, NEW demands, NEW refuses,
           NEW makes \in SUBSET Nodes, NEW next \in Steps,
           here \in AttachSteps, Does(c, here, demands, refuses, makes, next), Watch
    PROVE  TypeOK'
<1>1. CleanFrom(here) \in Steps
  BY DEF CleanFrom, AttachSteps, CleanSteps, Steps
<1>2. /\ nodes' \subseteq Nodes /\ pc' \in [Callers -> Steps]
      /\ mounted' = mounted /\ job' = job /\ tries' = tries
      /\ alone' = alone /\ struck' = struck /\ calm' = calm
      /\ attaches' = attaches /\ detaches' = detaches /\ faults' = faults
  BY <1>1 DEF Does, TypeOK, Goto, memory, bounds
<1>3. upSince' \in [Callers -> BOOLEAN] /\ found' \in [Callers -> SUBSET Nodes]
  BY DEF Watch, TypeOK
<1> QED BY <1>2, <1>3 DEF TypeOK

LEMMA RemovesTyped ==
    ASSUME TypeOK, NEW c \in Callers, NEW here, NEW node, NEW next \in Steps,
           Removes(c, here, node, next), Watch
    PROVE  TypeOK'
<1>1. /\ nodes' \subseteq Nodes /\ pc' \in [Callers -> Steps]
      /\ mounted' = mounted /\ job' = job /\ tries' = tries
      /\ alone' = alone /\ struck' = struck /\ calm' = calm
      /\ attaches' = attaches /\ detaches' = detaches /\ faults' = faults
  BY DEF Removes, TypeOK, Goto, memory, bounds, Steps
<1>2. upSince' \in [Callers -> BOOLEAN] /\ found' \in [Callers -> SUBSET Nodes]
  BY DEF Watch, TypeOK
<1> QED BY <1>1, <1>2 DEF TypeOK

LEMMA AttachTyped ==
    ASSUME TypeOK, NEW c \in Callers, AttachStep(c), Watch
    PROVE  TypeOK'
<1> USE DEF Steps, Nodes, AttachSteps
<1>1. CASE MakeTarget(c) BY <1>1, DoesTyped DEF MakeTarget
<1>2. CASE WriteConfig(c) BY <1>2, DoesTyped DEF WriteConfig
<1>3. CASE WriteArea(c) BY <1>3, DoesTyped DEF WriteArea
<1>4. CASE Enable(c) BY <1>4, DoesTyped DEF Enable
<1>5. CASE SetTimeout(c) BY <1>5, DoesTyped DEF SetTimeout
<1>6. CASE MakeLoop(c) BY <1>6, DoesTyped DEF MakeLoop
<1>7. CASE MakeLun(c) BY <1>7, DoesTyped DEF MakeLun
<1>8. CASE WriteNexus(c) BY <1>8, DoesTyped DEF WriteNexus
<1>9. CASE Link(c) BY <1>9, DoesTyped DEF Link
<1>10. CASE ReadAddress(c) BY <1>10, DoesTyped DEF ReadAddress
<1>11. CASE WaitDevice(c) BY <1>11, DoesTyped DEF WaitDevice
<1>12. CASE AttachFails(c)
  <2>1. CleanFrom(pc[c]) \in Steps BY <1>12 DEF AttachFails, CleanFrom, CleanSteps
  <2>2. pc' \in [Callers -> Steps] /\ struck' \in [Callers -> {"no", "attach", "clean"}]
    BY <1>12, <2>1 DEF AttachFails, Goto, TypeOK
  <2>3. faults' \in 0 .. MaxFaults
    BY <1>12, BoundsAssumption DEF AttachFails, Fault, TypeOK
  <2>4. upSince' \in [Callers -> BOOLEAN] /\ found' \in [Callers -> SUBSET Nodes]
    BY DEF Watch, TypeOK
  <2> QED BY <1>12, <2>2, <2>3, <2>4 DEF AttachFails, Fault, TypeOK
<1> QED
  BY <1>1, <1>2, <1>3, <1>4, <1>5, <1>6, <1>7, <1>8, <1>9, <1>10, <1>11, <1>12
     DEF AttachStep

LEMMA CleanTyped ==
    ASSUME TypeOK, NEW c \in Callers, CleanStep(c), Watch
    PROVE  TypeOK'
<1> USE DEF Steps, Nodes, AttachSteps, CleanSteps
<1>1. CASE RemoveLink(c) BY <1>1, RemovesTyped DEF RemoveLink
<1>2. CASE RemoveLun(c) BY <1>2, RemovesTyped DEF RemoveLun
<1>3. CASE RemoveTpgt(c) BY <1>3, RemovesTyped DEF RemoveTpgt
<1>4. CASE RemoveLoop(c) BY <1>4, RemovesTyped DEF RemoveLoop
<1>5. CASE RemoveTarget(c) BY <1>5, RemovesTyped DEF RemoveTarget
<1>6. CASE RemoveFails(c)
  <2>1. AfterClean[pc[c]] \in Steps BY <1>6 DEF RemoveFails, AfterClean
  <2>2. pc' \in [Callers -> Steps] /\ struck' \in [Callers -> {"no", "attach", "clean"}]
    BY <1>6, <2>1 DEF RemoveFails, Goto, TypeOK
  <2>3. faults' \in 0 .. MaxFaults
    BY <1>6, BoundsAssumption DEF RemoveFails, Fault, TypeOK
  <2>4. upSince' \in [Callers -> BOOLEAN] /\ found' \in [Callers -> SUBSET Nodes]
    BY DEF Watch, TypeOK
  <2> QED BY <1>6, <2>2, <2>3, <2>4 DEF RemoveFails, Fault, TypeOK
<1> QED BY <1>1, <1>2, <1>3, <1>4, <1>5, <1>6 DEF CleanStep

LEMMA CallTyped ==
    ASSUME TypeOK, NEW c \in Callers, CallStep(c), Watch
    PROVE  TypeOK'
<1>1. PICK step \in {"unlink", "failed", "mount", "attached"} :
          pc' = [pc EXCEPT ![c] = step]
  BY DEF CallStep, Unmount, UnmountFails, GiveUp, Mark, Mount, MountRefused,
         MountFails, LeaveUnmounted, Goto
<1>5. pc' \in [Callers -> Steps]
  BY <1>1 DEF TypeOK, Steps, CleanSteps
<1>2. /\ mounted' = mounted \/ mounted' = TRUE \/ mounted' = FALSE
      /\ calm' = calm \/ calm' = 0 \/ calm' = calm + 1
      /\ faults' = faults \/ (faults < MaxFaults /\ faults' = faults + 1)
  BY DEF CallStep, Unmount, UnmountFails, GiveUp, AttemptFailed, Mark, Mount,
         MountRefused, MountFails, LeaveUnmounted, Fault, memory, bounds
<1>6. calm' \in Nat /\ faults' \in 0 .. MaxFaults
  BY <1>2, BoundsAssumption DEF TypeOK
<1>7. mounted' \in BOOLEAN
  BY <1>2, Zenon DEF TypeOK
<1>3. /\ nodes' = nodes /\ job' = job /\ tries' = tries
      /\ alone' = alone /\ struck' = struck
      /\ attaches' = attaches /\ detaches' = detaches
  BY DEF CallStep, Unmount, UnmountFails, GiveUp, Mark, Mount, MountRefused,
         MountFails, LeaveUnmounted, Fault, memory, bounds
<1>4. upSince' \in [Callers -> BOOLEAN] /\ found' \in [Callers -> SUBSET Nodes]
  BY DEF Watch, TypeOK
<1> QED BY <1>3, <1>4, <1>5, <1>6, <1>7 DEF TypeOK

LEMMA BeginTyped ==
    ASSUME TypeOK, NEW c \in Callers, Begin(c)
    PROVE  TypeOK'
<1>1. ASSUME NEW step \in Steps, NEW j \in {"attach", "detach"}, Enters(c, step, j)
      PROVE  /\ nodes' \subseteq Nodes /\ mounted' \in BOOLEAN
             /\ pc' \in [Callers -> Steps] /\ job' \in [Callers -> {"attach", "detach"}]
             /\ found' \in [Callers -> SUBSET Nodes] /\ alone' \in [Callers -> BOOLEAN]
             /\ struck' \in [Callers -> {"no", "attach", "clean"}]
             /\ upSince' \in [Callers -> BOOLEAN] /\ faults' \in 0 .. MaxFaults
  <2>1. /\ nodes' \subseteq Nodes /\ mounted' \in BOOLEAN /\ faults' \in 0 .. MaxFaults
        /\ pc' \in [Callers -> Steps] /\ job' \in [Callers -> {"attach", "detach"}]
        /\ struck' \in [Callers -> {"no", "attach", "clean"}]
    BY <1>1 DEF Enters, Goto, TypeOK
  <2>2. found' \in [Callers -> SUBSET Nodes] BY <1>1 DEF Enters, TypeOK
  <2>3. alone' \in [Callers -> BOOLEAN] BY <1>1 DEF Enters
  <2>4. upSince' \in [Callers -> BOOLEAN] BY <1>1 DEF Enters, TypeOK
  <2> QED BY <2>1, <2>2, <2>3, <2>4
<1>2. CASE BeginAttach(c)
  <2>1. Enters(c, "target", "attach") BY <1>2 DEF BeginAttach
  <2>2. tries' \in [Callers -> 0 .. Retries] /\ attaches' \in 0 .. MaxAttaches
    BY <1>2, BoundsAssumption DEF BeginAttach, TypeOK
  <2>3. "target" \in Steps BY DEF Steps, AttachSteps
  <2> QED BY <1>1, <1>2, <2>1, <2>2, <2>3 DEF BeginAttach, TypeOK
<1>3. CASE BeginDetach(c)
  <2>1. PICK step \in {"umount", "unlink"} : Enters(c, step, "detach")
    BY <1>3 DEF BeginDetach
  <2>2. step \in Steps BY DEF Steps, CleanSteps
  <2>3. /\ tries' \in [Callers -> 0 .. Retries] /\ calm' \in Nat
        /\ detaches' \in 0 .. MaxDetaches /\ attaches' = attaches
    BY <1>3, BoundsAssumption DEF BeginDetach, TypeOK
  <2> QED BY <1>1, <2>1, <2>2, <2>3 DEF TypeOK
<1>4. CASE TryAgain(c)
  <2>1. Enters(c, "target", "attach") BY <1>4 DEF TryAgain
  <2>2. /\ tries' \in [Callers -> 0 .. Retries] /\ calm' \in Nat
        /\ attaches' = attaches /\ detaches' = detaches
    BY <1>4, BoundsAssumption DEF TryAgain, AttemptFailed, TypeOK
  <2>3. "target" \in Steps BY DEF Steps, AttachSteps
  <2> QED BY <1>1, <2>1, <2>2, <2>3 DEF TypeOK
<1> QED BY <1>2, <1>3, <1>4 DEF Begin

LEMMA DieTyped ==
    ASSUME TypeOK, Die, Watch
    PROVE  TypeOK'
<1>1. PICK P : Crash(P) BY DEF Die
<1>2. pc' \in [Callers -> Steps] BY <1>1 DEF Crash, TypeOK, Steps
<1>3. faults' \in 0 .. MaxFaults /\ calm' \in Nat
  BY <1>1, BoundsAssumption DEF Crash, Fault, TypeOK
<1>4. upSince' \in [Callers -> BOOLEAN] /\ found' \in [Callers -> SUBSET Nodes]
  BY DEF Watch, TypeOK
<1> QED BY <1>1, <1>2, <1>3, <1>4 DEF Crash, Fault, TypeOK

LEMMA InitTyped == Init => TypeOK
<1> SUFFICES ASSUME Init PROVE TypeOK OBVIOUS
<1>1. calm \in Nat /\ attaches \in 0 .. MaxAttaches /\ detaches \in 0 .. MaxDetaches
      /\ faults \in 0 .. MaxFaults /\ tries \in [Callers -> 0 .. Retries]
  BY BoundsAssumption DEF Init
<1>2. /\ alone \in [Callers -> BOOLEAN] /\ upSince \in [Callers -> BOOLEAN]
      /\ mounted \in BOOLEAN
  BY DEF Init
<1>3. /\ nodes \subseteq Nodes /\ pc \in [Callers -> Steps]
      /\ job \in [Callers -> {"attach", "detach"}]
      /\ found \in [Callers -> SUBSET Nodes]
      /\ struck \in [Callers -> {"no", "attach", "clean"}]
  BY DEF Init, Steps
<1> QED BY <1>1, <1>2, <1>3 DEF TypeOK

LEMMA NextTyped == TypeOK /\ [Next]_vars => TypeOK'
<1> SUFFICES ASSUME TypeOK, [Next]_vars PROVE TypeOK' OBVIOUS
<1>1. CASE UNCHANGED vars
  BY <1>1 DEF vars, work, memory, bounds, TypeOK
<1>2. CASE Next
  BY <1>2, AttachTyped, CleanTyped, CallTyped, BeginTyped, DieTyped DEF Next
<1> QED BY <1>1, <1>2

\* Every variable keeps its type, for any callers and any bounds.
THEOREM DeviceTyping == Spec => []TypeOK
  BY InitTyped, NextTyped, PTL DEF Spec

-----------------------------------------------------------------------------
(* Which steps move whom *)

Step(c) == AttachStep(c) \/ CleanStep(c) \/ CallStep(c)

\* A step within a call is one of a caller at work, and moves only this caller.
LEMMA StepMoves ==
    ASSUME TypeOK, NEW c \in Callers, Step(c)
    PROVE  /\ Busy(c)
           /\ \E step \in Steps : pc' = [pc EXCEPT ![c] = step]
           /\ job' = job /\ alone' = alone
<1> USE DEF Busy, Resting, Goto, memory, bounds
<1>1. CASE AttachStep(c)
  <2>1. CASE AttachFails(c)
    <3>1. CleanFrom(pc[c]) \in Steps
      BY <2>1 DEF AttachFails, CleanFrom, AttachSteps, CleanSteps, Steps
    <3> QED BY <2>1, <3>1 DEF AttachFails, AttachSteps
  <2>2. ASSUME NEW here \in AttachSteps, NEW demands, NEW refuses, NEW makes,
               NEW next \in Steps, Does(c, here, demands, refuses, makes, next)
        PROVE  /\ Busy(c)
               /\ \E step \in Steps : pc' = [pc EXCEPT ![c] = step]
               /\ job' = job /\ alone' = alone
    <3>1. CleanFrom(here) \in Steps
      BY DEF CleanFrom, AttachSteps, CleanSteps, Steps
    <3>2. Busy(c) BY <2>2 DEF Does, AttachSteps
    <3>3. pc' = [pc EXCEPT ![c] = next] \/ pc' = [pc EXCEPT ![c] = CleanFrom(here)]
      BY <2>2 DEF Does
    <3> QED BY <2>2, <3>1, <3>2, <3>3 DEF Does
  <2>3. /\ "mark" \in Steps /\ "attached" \in Steps /\ AttachSteps \subseteq Steps
        /\ \A s \in {"target", "config", "area", "enable", "timeout", "loop", "lun",
                     "nexus", "link", "address", "device"} : s \in AttachSteps
    BY DEF Steps, AttachSteps
  <2>4. \/ \E here \in AttachSteps, next \in Steps :
              \E demands, refuses, makes \in SUBSET Nodes :
                 Does(c, here, demands, refuses, makes, next)
        \/ AttachFails(c)
    <3>1. CASE MakeTarget(c) BY <3>1, <2>3 DEF MakeTarget, Nodes
    <3>2. CASE WriteConfig(c) BY <3>2, <2>3 DEF WriteConfig, Nodes
    <3>3. CASE WriteArea(c) BY <3>3, <2>3 DEF WriteArea, Nodes
    <3>4. CASE Enable(c) BY <3>4, <2>3 DEF Enable, Nodes
    <3>5. CASE SetTimeout(c) BY <3>5, <2>3 DEF SetTimeout, Nodes
    <3>6. CASE MakeLoop(c) BY <3>6, <2>3 DEF MakeLoop, Nodes
    <3>7. CASE MakeLun(c) BY <3>7, <2>3 DEF MakeLun, Nodes
    <3>8. CASE WriteNexus(c) BY <3>8, <2>3 DEF WriteNexus, Nodes
    <3>9. CASE Link(c) BY <3>9, <2>3 DEF Link, Nodes
    <3>10. CASE ReadAddress(c) BY <3>10, <2>3 DEF ReadAddress, Nodes
    <3>11. CASE WaitDevice(c) BY <3>11, <2>3 DEF WaitDevice, Nodes
    <3> QED
      BY <1>1, <3>1, <3>2, <3>3, <3>4, <3>5, <3>6, <3>7, <3>8, <3>9, <3>10, <3>11
         DEF AttachStep
  <2> QED BY <2>1, <2>2, <2>4
<1>2. CASE CleanStep(c)
  <2> USE DEF Steps, CleanSteps
  <2>1. CASE RemoveLink(c) BY <2>1 DEF RemoveLink, Removes
  <2>2. CASE RemoveLun(c) BY <2>2 DEF RemoveLun, Removes
  <2>3. CASE RemoveTpgt(c) BY <2>3 DEF RemoveTpgt, Removes
  <2>4. CASE RemoveLoop(c) BY <2>4 DEF RemoveLoop, Removes
  <2>5. CASE RemoveTarget(c) BY <2>5 DEF RemoveTarget, Removes
  <2>6. CASE RemoveFails(c)
    <3>1. AfterClean[pc[c]] \in Steps BY <2>6 DEF RemoveFails, AfterClean
    <3> QED BY <2>6, <3>1 DEF RemoveFails
  <2> QED BY <1>2, <2>1, <2>2, <2>3, <2>4, <2>5, <2>6 DEF CleanStep
<1>3. CASE CallStep(c)
  <2>1. \E step \in {"unlink", "failed", "mount", "attached"} :
            pc' = [pc EXCEPT ![c] = step]
    BY <1>3 DEF CallStep, Unmount, UnmountFails, GiveUp, Mark, Mount, MountRefused,
                MountFails, LeaveUnmounted
  <2>2. Busy(c) /\ job' = job /\ alone' = alone
    BY <1>3 DEF CallStep, Unmount, UnmountFails, GiveUp, AttemptFailed, Mark, Mount,
                MountRefused, MountFails, LeaveUnmounted
  <2> QED BY <2>1, <2>2 DEF Steps, CleanSteps
<1> QED BY <1>1, <1>2, <1>3 DEF Step

\* The beginning of an attempt or of a detach.
LEMMA BeginEnters ==
    ASSUME NEW c \in Callers, Begin(c)
    PROVE  \/ Enters(c, "target", "attach")
           \/ Enters(c, "umount", "detach")
           \/ Enters(c, "unlink", "detach")
  BY DEF Begin, BeginAttach, BeginDetach, TryAgain

\* A step is the beginning of a call, one of its steps, a death or nothing.
LEMMA NextSteps ==
    ASSUME [Next]_vars
    PROVE  \/ \E c \in Callers : Begin(c)
           \/ (\E c \in Callers : Step(c)) /\ Watch
           \/ Die /\ Watch
           \/ UNCHANGED vars
  BY DEF Next, Step

LEMMA QuietStep ==
    ASSUME TypeOK, Quiet, [Next]_vars
    PROVE  Quiet'
<1>1. CASE \E c \in Callers : Begin(c)
  <2>1. PICK c \in Callers : Begin(c) BY <1>1
  <2>2. PICK s, j : Enters(c, s, j) BY <2>1, BeginEnters
  <2>3. SUFFICES ASSUME NEW a \in Callers, NEW d \in Callers, alone'[a], d # a
                 PROVE  ~Busy(d)'
    BY DEF Quiet
  <2>4. a = c /\ ~Busy(d) BY <2>2, <2>3 DEF Enters
  <2>5. pc'[d] = pc[d] BY <2>2, <2>3, <2>4 DEF Enters, Goto, TypeOK
  <2> QED BY <2>4, <2>5 DEF Busy, Resting
<1>2. CASE \E c \in Callers : Step(c)
  <2>1. PICK c \in Callers : Step(c) BY <1>2
  <2>2. SUFFICES ASSUME NEW a \in Callers, NEW d \in Callers, alone'[a], d # a
                 PROVE  ~Busy(d)'
    BY DEF Quiet
  <2>3. Busy(c) /\ alone' = alone BY <2>1, StepMoves
  <2>4. ~Busy(d) /\ c # d BY <2>2, <2>3 DEF Quiet
  <2>5. pc'[d] = pc[d] BY <2>1, <2>4, StepMoves DEF TypeOK
  <2> QED BY <2>4, <2>5 DEF Busy, Resting
<1>3. CASE Die
  <2>1. PICK P : Crash(P) BY <1>3 DEF Die
  <2> QED BY <2>1 DEF Crash, Quiet, Busy, Resting
<1>4. CASE UNCHANGED vars
  BY <1>4 DEF vars, work, memory, Quiet, Busy, Resting
<1> QED BY <1>1, <1>2, <1>3, <1>4, NextSteps

-----------------------------------------------------------------------------
(* An attached device is spared *)

LEMMA StandsStep ==
    ASSUME LinkStands, [Next]_vars
    PROVE  LinkStands'
<1> USE DEF LinkStands, Stands
<1>1. CASE \E c \in Callers : Begin(c)
  BY <1>1, BeginEnters DEF Enters
<1>2. ASSUME NEW c \in Callers, AttachStep(c) PROVE LinkStands'
  BY <1>2 DEF AttachStep, MakeTarget, WriteConfig, WriteArea, Enable, SetTimeout,
              MakeLoop, MakeLun, WriteNexus, Link, ReadAddress, WaitDevice,
              AttachFails, Does
<1>3. ASSUME NEW c \in Callers, CleanStep(c) PROVE LinkStands'
  BY <1>3 DEF CleanStep, RemoveLink, RemoveLun, RemoveTpgt, RemoveLoop,
              RemoveTarget, RemoveFails, Removes, Removable, Below
<1>4. ASSUME NEW c \in Callers, CallStep(c) PROVE LinkStands'
  BY <1>4 DEF CallStep, Unmount, UnmountFails, GiveUp, Mark, Mount,
              MountRefused, MountFails, LeaveUnmounted
<1>5. CASE Die BY <1>5 DEF Die, Crash
<1>6. CASE UNCHANGED vars BY <1>6 DEF vars
<1> QED BY <1>1, <1>2, <1>3, <1>4, <1>5, <1>6, NextSteps DEF Step

\* A step of an attempt that has seen the link all along keeps the link and
\* leads to another place of Spares, or to rest.
LEMMA SparingStep ==
    ASSUME TypeOK, LinkStands, NEW c \in Callers, Spares(c), upSince[c],
           job[c] = "attach", Step(c)
    PROVE  /\ "link" \in nodes'
           /\ pc'[c] \in {"config", "area", "rmtarget", "again", "failed"}
<1>1. pc[c] \in {"target", "config", "area", "rmtarget", "again"} /\ "link" \in nodes
  BY DEF Spares
<1>2. "target" \in nodes /\ "enabled" \in nodes BY <1>1 DEF LinkStands, Stands
<1> USE DEF Goto, TypeOK
<1>3. CASE AttachStep(c)
  <2>1. CASE MakeTarget(c) BY <1>1, <2>1 DEF MakeTarget, Does
  <2>2. CASE WriteConfig(c) BY <1>1, <1>2, <2>2 DEF WriteConfig, Does
  <2>3. CASE WriteArea(c) BY <1>1, <1>2, <2>3 DEF WriteArea, Does, CleanFrom
  <2>4. CASE AttachFails(c)
    BY <1>1, <2>4 DEF AttachFails, CleanFrom, AttachSteps
  <2>5. pc[c] \in {"target", "config", "area", "rmtarget", "again"} =>
          ~ (\/ Enable(c) \/ SetTimeout(c) \/ MakeLoop(c) \/ MakeLun(c)
             \/ WriteNexus(c) \/ Link(c) \/ ReadAddress(c) \/ WaitDevice(c))
    BY DEF Enable, SetTimeout, MakeLoop, MakeLun, WriteNexus, Link, ReadAddress,
           WaitDevice, Does
  <2> QED BY <1>1, <1>3, <2>1, <2>2, <2>3, <2>4, <2>5 DEF AttachStep
<1>4. CASE CleanStep(c)
  <2>1. CASE RemoveTarget(c)
    BY <1>1, <2>1 DEF RemoveTarget, Removes, Removable
  <2>2. CASE RemoveFails(c)
    BY <1>1, <2>2 DEF RemoveFails, AfterClean, CleanSteps
  <2>3. pc[c] \in {"target", "config", "area", "rmtarget", "again"} =>
          ~ (RemoveLink(c) \/ RemoveLun(c) \/ RemoveTpgt(c) \/ RemoveLoop(c))
    BY DEF RemoveLink, RemoveLun, RemoveTpgt, RemoveLoop, Removes
  <2> QED BY <1>1, <1>4, <2>1, <2>2, <2>3 DEF CleanStep
<1>5. CASE CallStep(c)
  BY <1>1, <1>5
     DEF CallStep, Unmount, UnmountFails, GiveUp, Mark, Mount,
         MountRefused, MountFails, LeaveUnmounted
<1> QED BY <1>3, <1>4, <1>5 DEF Step

LEMMA SparesStep ==
    ASSUME TypeOK, LinkStands, \A c \in Callers : Spares(c), [Next]_vars
    PROVE  \A c \in Callers : Spares(c)'
<1> SUFFICES ASSUME NEW c \in Callers, upSince'[c]
             PROVE  /\ "link" \in nodes'
                    /\ job'[c] = "attach" =>
                         pc'[c] \in {"target", "config", "area", "rmtarget", "again"}
  BY DEF Spares
<1>1. CASE \E d \in Callers : Begin(d)
  <2>1. PICK d \in Callers : Begin(d) BY <1>1
  <2>2. PICK s, j : Enters(d, s, j) /\ (j = "attach" => s = "target")
    BY <2>1, BeginEnters
  <2>3. "link" \in nodes' /\ (c = d \/ upSince[c]) BY <2>2 DEF Enters
  <2>4. CASE c = d BY <2>2, <2>3, <2>4 DEF Enters, Goto, TypeOK
  <2>5. CASE c # d
    <3>1. pc'[c] = pc[c] /\ job'[c] = job[c]
      BY <2>2, <2>5 DEF Enters, Goto, TypeOK
    <3> QED BY <2>3, <2>5, <3>1 DEF Spares
  <2> QED BY <2>4, <2>5
<1>2. CASE (\E d \in Callers : Step(d)) /\ Watch
  <2>1. PICK d \in Callers : Step(d) BY <1>2
  <2>2. upSince[c] /\ "link" \in nodes' /\ pc'[c] \notin Resting
    BY <1>2 DEF Watch
  <2>3. job' = job BY <2>1, StepMoves
  <2>4. CASE c = d
    BY <2>1, <2>2, <2>3, <2>4, SparingStep DEF Resting
  <2>5. CASE c # d
    <3>1. pc'[c] = pc[c] BY <2>1, <2>5, StepMoves DEF TypeOK
    <3> QED BY <2>2, <2>3, <3>1 DEF Spares
  <2> QED BY <2>4, <2>5
<1>3. CASE Die /\ Watch
  <2>1. PICK P : Crash(P) BY <1>3 DEF Die
  <2>2. upSince[c] /\ "link" \in nodes' /\ pc'[c] \notin Resting
    BY <1>3 DEF Watch
  <2>3. pc'[c] = pc[c] /\ job' = job BY <2>1, <2>2 DEF Crash, Resting
  <2> QED BY <2>2, <2>3 DEF Spares
<1>4. CASE UNCHANGED vars
  BY <1>4 DEF vars, work, Spares
<1> QED BY <1>1, <1>2, <1>3, <1>4, NextSteps

SInv == TypeOK /\ LinkStands /\ \A c \in Callers : Spares(c)

LEMMA SparesAlways == Spec => []SInv
<1>1. Init => SInv
  BY InitTyped DEF Init, SInv, LinkStands, Stands, Spares
<1>2. SInv /\ [Next]_vars => SInv'
  BY NextTyped, StandsStep, SparesStep DEF SInv
<1> QED BY <1>1, <1>2, PTL DEF Spec

\* However many callers attach, detach, fail and die: an attempt that has seen
\* the device linked since it began never takes the link away.
THEOREM AttachedIsSpared == Spec => AttachSparesAttached
<1>1. SInv /\ [Next]_vars =>
        [\A c \in Callers :
           job[c] = "attach" /\ upSince[c] /\ pc'[c] # pc[c] => "link" \in nodes']_vars
  <2> SUFFICES ASSUME SInv, [Next]_vars, NEW c \in Callers,
                      job[c] = "attach", upSince[c], pc'[c] # pc[c]
               PROVE  "link" \in nodes'
    OBVIOUS
  <2>1. "link" \in nodes BY DEF SInv, Spares
  <2>2. CASE \E d \in Callers : Begin(d)
    BY <2>1, <2>2, BeginEnters DEF Enters
  <2>3. CASE \E d \in Callers : Step(d)
    <3>1. PICK d \in Callers : Step(d) BY <2>3
    <3>2. d = c BY <3>1, StepMoves DEF SInv, TypeOK
    <3> QED BY <3>1, <3>2, SparingStep DEF SInv
  <2>4. CASE Die BY <2>1, <2>4 DEF Die, Crash
  <2>5. CASE UNCHANGED vars BY <2>1, <2>5 DEF vars
  <2> QED BY <2>2, <2>3, <2>4, <2>5, NextSteps
<1> QED BY <1>1, SparesAlways, PTL DEF Spec, AttachSparesAttached

-----------------------------------------------------------------------------
(* An undisturbed caller *)

\* What an operation of AttachDevice leaves to its caller.
LEMMA AttachAlone ==
    ASSUME TypeOK, LinkStands, NEW c \in Callers, Alone(c), AttachStep(c), Watch
    PROVE  Alone(c)'
<1> USE DEF Goto
<1>1. /\ pc[c] \in AttachSteps /\ job' = job /\ pc'[c] \in Steps
      /\ (pc'[c] \notin Resting => found'[c] = found[c])
  <2>1. AttachSteps # {} /\ pc[c] \in AttachSteps
    BY DEF AttachStep, MakeTarget, WriteConfig, WriteArea, Enable, SetTimeout,
           MakeLoop, MakeLun, WriteNexus, Link, ReadAddress, WaitDevice,
           AttachFails, Does, AttachSteps
  <2>2. pc'[c] \in Steps BY AttachTyped DEF TypeOK
  <2> QED BY <2>1, <2>2, StepMoves DEF Step, Watch
<1>2. job[c] = "attach" BY <1>1 DEF Alone, Descends, AttachSteps, CleanSteps, TypeOK
<1>3. Climbs(c)'
  <2> USE <1>2 DEF Climbs, Alone, After, AttachSteps, TypeOK, memory
  <2>1. CASE MakeTarget(c) BY <1>1, <2>1 DEF MakeTarget, Does, CleanFrom
  <2>2. CASE WriteConfig(c) BY <1>1, <2>2 DEF WriteConfig, Does, CleanFrom
  <2>3. CASE WriteArea(c) BY <1>1, <2>3 DEF WriteArea, Does, CleanFrom
  <2>4. CASE Enable(c) BY <1>1, <2>4 DEF Enable, Does, CleanFrom
  <2>5. CASE SetTimeout(c) BY <1>1, <2>5 DEF SetTimeout, Does, CleanFrom
  <2>6. CASE MakeLoop(c) BY <1>1, <2>6 DEF MakeLoop, Does, CleanFrom
  <2>7. CASE MakeLun(c) BY <1>1, <2>7 DEF MakeLun, Does, CleanFrom
  <2>8. CASE WriteNexus(c) BY <1>1, <2>8 DEF WriteNexus, Does, CleanFrom
  <2>9. CASE Link(c) BY <1>1, <2>9 DEF Link, Does, CleanFrom
  <2>10. CASE ReadAddress(c) BY <1>1, <2>10 DEF ReadAddress, Does, CleanFrom
  <2>11. CASE WaitDevice(c) BY <1>1, <2>11 DEF WaitDevice, Does, CleanFrom
  <2>12. CASE AttachFails(c) BY <1>1, <2>12 DEF AttachFails, CleanFrom
  <2> QED
    BY <2>1, <2>2, <2>3, <2>4, <2>5, <2>6, <2>7, <2>8, <2>9, <2>10, <2>11, <2>12
       DEF AttachStep
<1>4. Descends(c)' BY <1>1, <1>2 DEF Descends
<1>5. Leaves(c)'
  <2> USE <1>2 DEF Leaves, Stands, Alone, Climbs, Own, Nodes, Busy, Resting, TypeOK, memory
  <2>1. CASE MakeTarget(c) BY <1>1, <2>1 DEF MakeTarget, Does, CleanFrom
  <2>2. CASE WriteConfig(c) BY <1>1, <2>2 DEF WriteConfig, Does, CleanFrom
  <2>3. CASE WriteArea(c) BY <1>1, <2>3 DEF WriteArea, Does, CleanFrom
  <2>4. CASE Enable(c) BY <1>1, <2>4 DEF Enable, Does, CleanFrom
  <2>5. CASE SetTimeout(c) BY <1>1, <2>5 DEF SetTimeout, Does, CleanFrom
  <2>6. CASE MakeLoop(c) BY <1>1, <2>6 DEF MakeLoop, Does, CleanFrom
  <2>7. CASE MakeLun(c) BY <1>1, <2>7 DEF MakeLun, Does, CleanFrom
  <2>8. CASE WriteNexus(c) BY <1>1, <2>8 DEF WriteNexus, Does, CleanFrom
  <2>9. CASE Link(c) BY <1>1, <2>9 DEF Link, Does, CleanFrom
  <2>10. CASE ReadAddress(c) BY <1>1, <2>10 DEF ReadAddress, Does, CleanFrom
  <2>11. CASE WaitDevice(c) BY <1>1, <2>11 DEF WaitDevice, Does, CleanFrom
  <2>12. CASE AttachFails(c)
    BY <1>1, <2>12 DEF AttachFails, CleanFrom, AttachSteps
  <2> QED
    BY <2>1, <2>2, <2>3, <2>4, <2>5, <2>6, <2>7, <2>8, <2>9, <2>10, <2>11, <2>12
       DEF AttachStep
<1> QED BY <1>3, <1>4, <1>5 DEF Alone

LEMMA CleanAlone ==
    ASSUME TypeOK, LinkStands, NEW c \in Callers, Alone(c), CleanStep(c), Watch
    PROVE  Alone(c)'
<1> USE DEF Goto
<1>1. /\ pc[c] \in CleanSteps /\ job' = job
      /\ (pc'[c] \notin Resting => found'[c] = found[c])
  <2>1. pc[c] \in CleanSteps
    BY DEF CleanStep, RemoveLink, RemoveLun, RemoveTpgt, RemoveLoop,
           RemoveTarget, RemoveFails, Removes, CleanSteps
  <2> QED BY <2>1, StepMoves DEF Step, Watch
<1>2. Climbs(c)'
  <2> SUFFICES ASSUME job[c] = "attach"
               PROVE  pc'[c] \in CleanSteps \cup {"again"}
    BY <1>1 DEF Climbs, After, AttachSteps, CleanSteps
  <2> USE DEF TypeOK, CleanSteps
  <2>1. CASE RemoveLink(c) BY <2>1 DEF RemoveLink, Removes
  <2>2. CASE RemoveLun(c) BY <2>2 DEF RemoveLun, Removes
  <2>3. CASE RemoveTpgt(c) BY <2>3 DEF RemoveTpgt, Removes
  <2>4. CASE RemoveLoop(c) BY <2>4 DEF RemoveLoop, Removes
  <2>5. CASE RemoveTarget(c) BY <2>5 DEF RemoveTarget, Removes
  <2>6. CASE RemoveFails(c)
    <3>1. AfterClean[pc[c]] \in CleanSteps \cup {"again"}
      BY <1>1 DEF AfterClean
    <3> QED BY <2>6, <3>1 DEF RemoveFails
  <2> QED BY <2>1, <2>2, <2>3, <2>4, <2>5, <2>6 DEF CleanStep
<1>3. Descends(c)'
  <2> SUFFICES ASSUME job[c] = "detach" PROVE Descends(c)' BY <1>1 DEF Descends
  <2> USE DEF Descends, Alone, TypeOK, CleanSteps
  <2>1. CASE RemoveLink(c)
    BY <1>1, <2>1 DEF RemoveLink, Removes, Removable, Below
  <2>2. CASE RemoveLun(c)
    BY <1>1, <2>2 DEF RemoveLun, Removes, Removable, Below
  <2>3. CASE RemoveTpgt(c)
    BY <1>1, <2>3 DEF RemoveTpgt, Removes, Removable, Below
  <2>4. CASE RemoveLoop(c)
    BY <1>1, <2>4 DEF RemoveLoop, Removes, Removable, Below
  <2>5. CASE RemoveTarget(c)
    BY <1>1, <2>5 DEF RemoveTarget, Removes, Removable, Below, Nodes
  <2>6. CASE RemoveFails(c)
    BY <1>1, <2>6 DEF RemoveFails
  <2> QED BY <2>1, <2>2, <2>3, <2>4, <2>5, <2>6 DEF CleanStep
<1>4. Leaves(c)'
  <2> SUFFICES ASSUME job[c] = "attach" PROVE Leaves(c)' BY <1>1 DEF Leaves
  <2> USE DEF Leaves, Stands, Alone, Own, Nodes, Busy, Resting, TypeOK, memory
  <2>1. CASE RemoveLink(c)
    BY <1>1, <2>1 DEF RemoveLink, Removes, Removable, Below
  <2>2. CASE RemoveLun(c)
    BY <1>1, <2>2 DEF RemoveLun, Removes, Removable, Below
  <2>3. CASE RemoveTpgt(c)
    BY <1>1, <2>3 DEF RemoveTpgt, Removes, Removable, Below
  <2>4. CASE RemoveLoop(c)
    BY <1>1, <2>4 DEF RemoveLoop, Removes, Removable, Below
  <2>5. CASE RemoveTarget(c)
    BY <1>1, <2>5 DEF RemoveTarget, Removes, Removable, Below, LinkStands, Stands
  <2>6. CASE RemoveFails(c)
    BY <1>1, <2>6 DEF RemoveFails
  <2> QED BY <2>1, <2>2, <2>3, <2>4, <2>5, <2>6 DEF CleanStep
<1> QED BY <1>2, <1>3, <1>4 DEF Alone

LEMMA CallAlone ==
    ASSUME TypeOK, NEW c \in Callers, Alone(c), CallStep(c), Watch
    PROVE  Alone(c)'
<1>1. /\ nodes' = nodes /\ job' = job /\ struck' = struck
      /\ \/ pc[c] = "umount" /\ pc'[c] \in {"unlink", "failed"}
         \/ pc[c] = "again" /\ pc'[c] = "failed"
         \/ pc[c] = "mark" /\ pc'[c] \in {"mount", "failed"}
         \/ pc[c] = "mount" /\ pc'[c] \in {"attached", "failed"}
  BY DEF CallStep, Unmount, UnmountFails, GiveUp, AttemptFailed, Mark, Mount, Goto,
         MountRefused, MountFails, LeaveUnmounted, Fault, memory, bounds, TypeOK
<1>2. pc'[c] \notin Resting => found'[c] = found[c] BY DEF Watch
<1>3. Climbs(c)' BY <1>1 DEF Climbs, Alone, After, AttachSteps
<1>4. Descends(c)' BY <1>1 DEF Descends, Alone, CleanSteps
<1>5. Leaves(c)' BY <1>1, <1>2 DEF Leaves, Stands, Alone, Own, Busy, Resting, Climbs
<1> QED BY <1>3, <1>4, <1>5 DEF Alone

LEMMA BeginAlone ==
    ASSUME TypeOK, LinkStands, NEW c \in Callers, Begin(c)
    PROVE  Alone(c)'
<1>1. PICK s, j : /\ Enters(c, s, j)
                  /\ <<s, j>> \in {<<"target", "attach">>, <<"umount", "detach">>,
                                   <<"unlink", "detach">>}
  BY BeginEnters
<1>2. /\ nodes' = nodes /\ found'[c] = nodes /\ struck'[c] = "no"
      /\ pc'[c] = s /\ job'[c] = j
  BY <1>1 DEF Enters, Goto, TypeOK
<1>3. Climbs(c)' BY <1>1, <1>2 DEF Climbs, After, AttachSteps
<1>4. Descends(c)' BY <1>1, <1>2 DEF Descends, CleanSteps
<1>5. Leaves(c)' BY <1>1, <1>2 DEF Leaves, Own, LinkStands, Nodes
<1> QED BY <1>3, <1>4, <1>5 DEF Alone

LEMMA AloneStep ==
    ASSUME IInv, [Next]_vars
    PROVE  \A c \in Callers : alone'[c] => Alone(c)'
<1> SUFFICES ASSUME NEW c \in Callers, alone'[c] PROVE Alone(c)'
  OBVIOUS
<1> USE DEF IInv
<1>1. CASE \E d \in Callers : Begin(d)
  <2>1. PICK d \in Callers : Begin(d) BY <1>1
  <2>2. c = d BY <2>1, BeginEnters DEF Enters
  <2> QED BY <2>1, <2>2, BeginAlone
<1>2. CASE (\E d \in Callers : Step(d)) /\ Watch
  <2>1. PICK d \in Callers : Step(d) BY <1>2
  <2>2. Busy(d) /\ alone[c] BY <2>1, StepMoves
  <2>3. c = d BY <2>2 DEF Quiet
  <2> QED BY <1>2, <2>1, <2>2, <2>3, AttachAlone, CleanAlone, CallAlone DEF Step
<1>3. CASE Die /\ Watch
  <2>1. PICK P : Crash(P) BY <1>3 DEF Die
  <2>2. /\ Alone(c) /\ nodes' = nodes /\ job' = job /\ struck' = struck
        /\ pc'[c] = pc[c] \/ pc'[c] = "idle"
        /\ pc'[c] \notin Resting => found'[c] = found[c]
    BY <1>3, <2>1 DEF Crash, Watch
  <2>3. Climbs(c)'
    BY <2>2 DEF Alone, Climbs, After, AttachSteps
  <2>4. Descends(c)' BY <2>2 DEF Alone, Descends
  <2>5. Leaves(c)' BY <2>2 DEF Alone, Leaves, Busy, Resting
  <2> QED BY <2>3, <2>4, <2>5 DEF Alone
<1>4. CASE UNCHANGED vars
  BY <1>4 DEF vars, work, memory, Alone, Climbs, Descends, Leaves, Busy
<1> QED BY <1>1, <1>2, <1>3, <1>4, NextSteps

LEMMA IInvAlways == Spec => []IInv
<1>1. Init => IInv
  BY InitTyped DEF Init, IInv, Quiet, LinkStands, Stands, Spares
<1>2. IInv /\ [Next]_vars => IInv'
  <2> SUFFICES ASSUME IInv, [Next]_vars PROVE IInv' OBVIOUS
  <2>1. TypeOK' BY NextTyped DEF IInv
  <2>2. Quiet' BY QuietStep DEF IInv
  <2>3. LinkStands' BY StandsStep DEF IInv
  <2>4. \A c \in Callers : Spares(c)' BY SparesStep DEF IInv
  <2>5. \A c \in Callers : alone'[c] => Alone(c)' BY AloneStep
  <2> QED BY <2>1, <2>2, <2>3, <2>4, <2>5 DEF IInv
<1> QED BY <1>1, <1>2, PTL DEF Spec

\* A failed attempt that was alone, and whose clean-up had no error, leaves
\* nothing it did not find, but perhaps the empty directory of the loopback.
THEOREM AttachCleansUp == Spec => []FailedAttachCleans
<1>1. IInv => FailedAttachCleans
  BY DEF IInv, Alone, Leaves, Own, FailedAttachCleans, Busy, Resting
<1> QED BY <1>1, IInvAlways, PTL

\* A detach that was alone and returned without error has removed everything.
THEOREM DetachIsComplete == Spec => []DetachedIsGone
<1>1. IInv => DetachedIsGone
  BY DEF IInv, Alone, Climbs, Descends, DetachedIsGone, TypeOK
<1> QED BY <1>1, IInvAlways, PTL

\* An attach that was alone and returned without error has a whole device.
THEOREM AttachIsComplete == Spec => []AttachedIsWhole
<1>1. ASSUME IInv, NEW c \in Callers, pc[c] = "attached", alone[c]
      PROVE  nodes = Nodes
  <2>1. job[c] \in {"attach", "detach"} /\ nodes \subseteq Nodes /\ Climbs(c) /\ Descends(c)
    BY <1>1 DEF IInv, TypeOK, Alone
  <2>2. job[c] = "attach"
    BY <1>1, <2>1 DEF Descends, CleanSteps
  <2>3. \A S : pc[c] \in After(S)
    BY <1>1 DEF After
  <2>4. {"target", "enabled", "loop", "tpgt", "lun", "nexus", "link"} \subseteq nodes
    BY <2>1, <2>2, <2>3 DEF Climbs
  <2> QED
    BY <2>1, <2>4 DEF Nodes
<1>2. IInv => AttachedIsWhole
  BY <1>1 DEF AttachedIsWhole
<1> QED BY <1>2, IInvAlways, PTL

-----------------------------------------------------------------------------
(* Retries get through *)

\* What k attempts in a row have cleared away, unless the device is attached:
\* the first one an enabled target, the second one a loopback with a nexus.
Cleared(k, S) ==
    \/ "link" \in S
    \/ /\ k >= 1 => "target" \notin S
       /\ k >= 2 => "nexus" \notin S
       /\ k < 3

Undisturbed(c) == Busy(c) /\ alone[c] /\ struck[c] = "no" /\ job[c] = "attach"

Failing(c) == pc[c] \in CleanSteps \cup {"again"}

\* Why an undisturbed attempt fails, and what is gone when it has.
Reason(c) ==
    Undisturbed(c) =>
        /\ Cleared(calm, found[c])
        /\ "link" \in found[c] => upSince[c]
        /\ Failing(c) /\ "target" \notin found[c] =>
              /\ "nexus" \in found[c] /\ pc[c] # "unlink"
              /\ pc[c] \in {"rmloop", "rmtarget", "again"} => "nexus" \notin nodes
        /\ pc[c] = "again" => "target" \notin nodes \/ "link" \in nodes

\* An attach that was disturbed while it went on ends the count, unless the
\* link it needs is there.
Lost == \E d \in Callers : ~alone[d] /\ job[d] = "attach" /\ Failing(d)

\* Which steps belong to which job.
Fits(c) ==
    /\ pc[c] \in {"umount", "detached"} => job[c] = "detach"
    /\ pc[c] \in AttachSteps \cup {"mark", "mount", "again", "attached"} =>
          job[c] = "attach"

\* What the count of failed attempts says, of a device nobody is at work on and
\* of one that somebody is.
Count ==
    /\ (\A c \in Callers : ~Busy(c)) => Cleared(calm, nodes)
    /\ \A c \in Callers : Busy(c) /\ job[c] = "detach" => calm = 0
    /\ calm > 2 => "link" \in nodes /\ \A c \in Callers : Busy(c) => upSince[c]
    /\ \A c \in Callers :
          calm > 0 /\ pc[c] \in {"mark", "mount"} => "link" \in nodes \/ Lost

RInv == (\A c \in Callers : Fits(c) /\ Reason(c)) /\ Count

LEMMA FitsStep ==
    ASSUME TypeOK, \A c \in Callers : Fits(c), [Next]_vars
    PROVE  \A c \in Callers : Fits(c)'
<1> SUFFICES ASSUME NEW c \in Callers PROVE Fits(c)' OBVIOUS
<1>1. CASE \E d \in Callers : Begin(d)
  <2>1. PICK d \in Callers : Begin(d) BY <1>1
  <2>2. PICK s, j : /\ Enters(d, s, j)
                    /\ <<s, j>> \in {<<"target", "attach">>, <<"umount", "detach">>,
                                     <<"unlink", "detach">>}
    BY <2>1, BeginEnters
  <2>3. CASE c = d
    BY <2>2, <2>3 DEF Enters, Goto, TypeOK, Fits, AttachSteps
  <2>4. CASE c # d
    BY <2>2, <2>4 DEF Enters, Goto, TypeOK, Fits
  <2> QED BY <2>3, <2>4
<1>2. CASE \E d \in Callers : Step(d)
  <2>1. PICK d \in Callers : Step(d) BY <1>2
  <2>2. job' = job BY <2>1, StepMoves
  <2>3. CASE c # d BY <2>1, <2>2, <2>3, StepMoves DEF Fits, TypeOK
  <2>4. CASE c = d /\ AttachStep(c)
    <3>1. job[c] = "attach"
      BY <2>4 DEF AttachStep, MakeTarget, WriteConfig, WriteArea, Enable, SetTimeout,
             MakeLoop, MakeLun, WriteNexus, Link, ReadAddress, WaitDevice,
             AttachFails, Does, Fits, AttachSteps
    <3>2. pc'[c] \in AttachSteps \cup CleanSteps \cup {"mark", "attached", "again"}
      <4> USE <2>4 DEF Goto, TypeOK, CleanFrom, AttachSteps, CleanSteps
      <4>1. CASE AttachFails(c) BY <4>1 DEF AttachFails
      <4>2. CASE MakeTarget(c) \/ WriteConfig(c) \/ WriteArea(c) \/ Enable(c)
        BY <4>2 DEF MakeTarget, WriteConfig, WriteArea, Enable, Does
      <4>3. CASE SetTimeout(c) \/ MakeLoop(c) \/ MakeLun(c) \/ WriteNexus(c)
        BY <4>3 DEF SetTimeout, MakeLoop, MakeLun, WriteNexus, Does
      <4>4. CASE Link(c) \/ ReadAddress(c) \/ WaitDevice(c)
        BY <4>4 DEF Link, ReadAddress, WaitDevice, Does
      <4> QED BY <4>1, <4>2, <4>3, <4>4 DEF AttachStep
    <3> QED BY <2>2, <3>1, <3>2 DEF Fits, AttachSteps, CleanSteps
  <2>5. CASE c = d /\ CleanStep(c)
    <3>1. /\ pc'[c] \in CleanSteps \cup {"again", "detached", "failed"}
          /\ pc'[c] = "again" => job[c] = "attach"
          /\ pc'[c] = "detached" => job[c] = "detach"
      <4> USE <2>5 DEF Goto, TypeOK, CleanSteps
      <4>1. CASE RemoveLink(c) \/ RemoveLun(c) \/ RemoveTpgt(c)
        BY <4>1 DEF RemoveLink, RemoveLun, RemoveTpgt, Removes
      <4>2. CASE RemoveLoop(c) \/ RemoveTarget(c)
        BY <4>2 DEF RemoveLoop, RemoveTarget, Removes
      <4>3. CASE RemoveFails(c)
        <5>1. AfterClean[pc[c]] \in CleanSteps \cup {"again"}
          BY <4>3 DEF RemoveFails, AfterClean
        <5> QED BY <4>3, <5>1 DEF RemoveFails
      <4> QED BY <4>1, <4>2, <4>3 DEF CleanStep
    <3> QED BY <2>2, <3>1 DEF Fits, AttachSteps, CleanSteps
  <2>6. CASE c = d /\ CallStep(c)
    <3>1. \/ pc[c] = "umount" /\ pc'[c] \in {"unlink", "failed"}
          \/ pc[c] = "again" /\ pc'[c] = "failed"
          \/ pc[c] = "mark" /\ pc'[c] \in {"mount", "failed"}
          \/ pc[c] = "mount" /\ pc'[c] \in {"attached", "failed"}
      BY <2>6 DEF CallStep, Unmount, UnmountFails, GiveUp, AttemptFailed, Mark, Mount,
                  Goto, MountRefused, MountFails, LeaveUnmounted, TypeOK
    <3> QED BY <2>2, <3>1 DEF Fits, AttachSteps
  <2> QED BY <2>1, <2>3, <2>4, <2>5, <2>6 DEF Step
<1>3. CASE Die
  <2>1. PICK P : Crash(P) BY <1>3 DEF Die
  <2> QED BY <2>1 DEF Crash, Fits, AttachSteps
<1>4. CASE UNCHANGED vars BY <1>4 DEF vars, work, Fits
<1> QED BY <1>1, <1>2, <1>3, <1>4, NextSteps

\* An attempt that has failed alone and without a fault has cleared one thing
\* more, and the one after the second of them was over before it began.
LEMMA FailureClears ==
    ASSUME IInv, RInv, NEW c \in Callers, AttemptFailed(c)
    PROVE  /\ calm' = 0 \/ (calm' = calm + 1 /\ \A d \in Callers \ {c} : ~Busy(d))
           /\ Cleared(calm', nodes)
           /\ calm' > 2 => "link" \in nodes
<1> USE DEF IInv, RInv, Count
<1>1. calm \in Nat /\ pc[c] = "again" /\ Busy(c) /\ job[c] = "attach"
  BY DEF AttemptFailed, TypeOK, Busy, Resting, Fits
<1>2. CASE ~(alone[c] /\ struck[c] = "no")
  BY <1>2 DEF AttemptFailed, Cleared
<1>3. CASE alone[c] /\ struck[c] = "no"
  <2>1. Undisturbed(c) /\ Failing(c) BY <1>1, <1>3 DEF Undisturbed, Failing
  <2>2. calm' = calm + 1 BY <1>3 DEF AttemptFailed
  <2>3. \A d \in Callers \ {c} : ~Busy(d) BY <1>3 DEF Quiet
  <2>4. CASE "link" \in found[c]
    <3>1. "link" \in nodes BY <2>1, <2>4 DEF Reason, Spares
    <3> QED BY <2>2, <2>3, <3>1 DEF Cleared
  <2>5. CASE "link" \notin found[c]
    <3>1. "target" \notin nodes \/ "link" \in nodes BY <1>1, <2>1 DEF Reason
    <3>2. CASE calm = 0 BY <1>1, <2>2, <2>3, <3>1, <3>2 DEF Cleared
    <3>3. CASE calm >= 1
      <4>1. /\ "target" \notin found[c] /\ calm < 3
            /\ calm >= 2 => "nexus" \notin found[c]
        BY <2>1, <2>5, <3>3 DEF Reason, Cleared
      <4>2. "nexus" \in found[c] /\ "nexus" \notin nodes
        BY <1>1, <2>1, <4>1 DEF Reason
      <4>3. calm = 1 BY <1>1, <3>3, <4>1, <4>2
      <4> QED BY <2>2, <2>3, <3>1, <4>2, <4>3 DEF Cleared
    <3> QED BY <1>1, <3>2, <3>3
  <2> QED BY <2>4, <2>5
<1> QED BY <1>2, <1>3

\* What a step keeps for an undisturbed attempt.
LEMMA ReasonStep ==
    ASSUME IInv, RInv, NEW c \in Callers, Step(c), Watch, Undisturbed(c)'
    PROVE  Reason(c)'
<1> USE DEF IInv, RInv, Count, Goto, TypeOK
<1>1. /\ alone[c] /\ job[c] = "attach" /\ Busy(c) /\ job' = job
      /\ pc'[c] \notin Resting /\ struck'[c] = "no"
      /\ found'[c] = found[c]
  BY StepMoves DEF Undisturbed, Busy, Watch
<1>2. Alone(c) BY <1>1
<1>3. "link" \in found[c] /\ Undisturbed(c) => upSince'[c]
  BY <1>1, SparingStep DEF Watch, Reason
<1>4. CASE AttachStep(c)
  <2>1. ~AttachFails(c) BY <1>1 DEF AttachFails
  <2>2. struck'[c] = struck[c] /\ calm' = calm
    BY <1>4, <2>1 DEF AttachStep, MakeTarget, WriteConfig, WriteArea, Enable, SetTimeout,
           MakeLoop, MakeLun, WriteNexus, Link, ReadAddress, WaitDevice, Does, memory
  <2>3. Undisturbed(c) BY <1>1, <2>2 DEF Undisturbed
  <2>4. nodes \subseteq found[c] \cup Own(pc[c]) /\ Stands(found[c])
    BY <1>1, <1>2, <2>2 DEF Alone, Leaves
  <2>5. ASSUME "target" \notin found[c], Failing(c)'
        PROVE  pc[c] = "nexus" /\ "nexus" \in found[c] /\ pc'[c] = "rmlun"
    <3>0. /\ "link" \notin found[c] /\ "enabled" \notin found[c] /\ Climbs(c)
      BY <1>2, <2>4, <2>5 DEF Stands, Alone
    <3> USE <1>1, <2>4, <2>5, <3>0 DEF Does, Failing, CleanSteps, Own
    <3>1. CASE MakeTarget(c) BY <3>1 DEF MakeTarget
    <3>2. CASE WriteConfig(c)
      BY <3>2 DEF WriteConfig, Climbs, After, AttachSteps
    <3>3. CASE WriteArea(c)
      BY <3>3 DEF WriteArea, Climbs, After, AttachSteps
    <3>4. CASE Enable(c) BY <3>4 DEF Enable, Climbs, After, AttachSteps
    <3>5. CASE SetTimeout(c) BY <3>5 DEF SetTimeout, Climbs, After, AttachSteps
    <3>6. CASE MakeLoop(c) BY <3>6 DEF MakeLoop
    <3>7. CASE MakeLun(c) BY <3>7 DEF MakeLun
    <3>8. CASE WriteNexus(c)
      BY <3>8 DEF WriteNexus, Climbs, After, AttachSteps, CleanFrom
    <3>9. CASE Link(c) BY <3>9 DEF Link, Climbs, After, AttachSteps
    <3>10. CASE ReadAddress(c) BY <3>10 DEF ReadAddress, Climbs, After, AttachSteps
    <3>11. CASE WaitDevice(c) BY <3>11 DEF WaitDevice, Climbs, After, AttachSteps
    <3> QED
      BY <1>4, <2>1, <3>1, <3>2, <3>3, <3>4, <3>5, <3>6, <3>7, <3>8, <3>9, <3>10, <3>11
         DEF AttachStep
  <2>6. pc'[c] # "again"
    BY <1>4, <2>1 DEF AttachStep, MakeTarget, WriteConfig, WriteArea, Enable, SetTimeout,
           MakeLoop, MakeLun, WriteNexus, Link, ReadAddress, WaitDevice, Does, CleanFrom
  <2> QED BY <1>1, <1>3, <2>2, <2>3, <2>5, <2>6 DEF Reason
<1>5. CASE CleanStep(c)
  <2>1. ~RemoveFails(c) BY <1>1 DEF RemoveFails
  <2>2. struck'[c] = struck[c] /\ calm' = calm
    BY <1>5, <2>1 DEF CleanStep, RemoveLink, RemoveLun, RemoveTpgt, RemoveLoop,
           RemoveTarget, Removes, memory
  <2>3. Undisturbed(c) BY <1>1, <2>2 DEF Undisturbed
  <2>4. Failing(c)
    BY <1>5 DEF CleanStep, RemoveLink, RemoveLun, RemoveTpgt, RemoveLoop,
           RemoveTarget, RemoveFails, Removes, Failing, CleanSteps
  <2> USE <1>1, <2>3, <2>4 DEF Removes, Removable, Below, Reason
  <2>5. "target" \notin found[c] =>
           /\ "nexus" \in found[c] /\ pc'[c] # "unlink"
           /\ pc'[c] \in {"rmloop", "rmtarget", "again"} => "nexus" \notin nodes'
    <3>1. CASE RemoveLink(c) BY <3>1 DEF RemoveLink
    <3>2. CASE RemoveLun(c) BY <3>2 DEF RemoveLun
    <3>3. CASE RemoveTpgt(c) BY <3>3 DEF RemoveTpgt
    <3>4. CASE RemoveLoop(c) BY <3>4 DEF RemoveLoop
    <3>5. CASE RemoveTarget(c) BY <3>5 DEF RemoveTarget
    <3> QED BY <1>5, <2>1, <3>1, <3>2, <3>3, <3>4, <3>5 DEF CleanStep
  <2>6. pc'[c] = "again" => "target" \notin nodes' \/ "link" \in nodes'
    BY <1>5, <2>1 DEF CleanStep, RemoveLink, RemoveLun, RemoveTpgt, RemoveLoop,
           RemoveTarget
  <2> QED BY <1>3, <2>2, <2>5, <2>6
<1>6. CASE CallStep(c)
  <2>1. /\ pc[c] = "mark" /\ pc'[c] = "mount"
        /\ struck'[c] = struck[c] /\ calm' = calm
    BY <1>1, <1>6
       DEF CallStep, Unmount, UnmountFails, GiveUp, Mark, Mount, MountRefused,
           MountFails, LeaveUnmounted, Fits, Resting, memory
  <2>2. Undisturbed(c) BY <1>1, <2>1 DEF Undisturbed
  <2> QED BY <1>1, <1>3, <2>1, <2>2 DEF Reason, Failing, CleanSteps
<1> QED BY <1>4, <1>5, <1>6 DEF Step

LEMMA BeginCounts ==
    ASSUME IInv, RInv, NEW c \in Callers, Begin(c)
    PROVE  Count' /\ \A d \in Callers : Reason(d)'
<1> USE DEF IInv, RInv, Count
<1>1. PICK s, j : /\ Enters(c, s, j)
                  /\ <<s, j>> \in {<<"target", "attach">>, <<"umount", "detach">>,
                                   <<"unlink", "detach">>}
  BY BeginEnters
<1>2. /\ nodes' = nodes /\ found'[c] = nodes /\ pc'[c] = s /\ job'[c] = j
      /\ upSince'[c] = ("link" \in nodes)
      /\ Busy(c)' /\ (j = "attach" => ~Failing(c)')
      /\ \A d \in Callers \ {c} :
            /\ pc'[d] = pc[d] /\ job'[d] = job[d] /\ ~alone'[d]
            /\ "link" \in nodes => upSince'[d] = upSince[d]
            /\ Busy(d)' <=> Busy(d)
            /\ Failing(d)' <=> Failing(d)
  <2>1. /\ nodes' = nodes /\ found'[c] = nodes /\ pc'[c] = s /\ job'[c] = j
        /\ upSince'[c] = ("link" \in nodes)
    BY <1>1 DEF Enters, Goto, TypeOK
  <2>2. Busy(c)' /\ (j = "attach" => ~Failing(c)')
    BY <1>1, <2>1 DEF Busy, Resting, Failing, CleanSteps
  <2>3. ASSUME NEW d \in Callers \ {c}
        PROVE  /\ pc'[d] = pc[d] /\ job'[d] = job[d] /\ ~alone'[d]
               /\ "link" \in nodes => upSince'[d] = upSince[d]
    BY <1>1 DEF Enters, Goto, TypeOK
  <2>4. ASSUME NEW d \in Callers \ {c}
        PROVE  (Busy(d)' <=> Busy(d)) /\ (Failing(d)' <=> Failing(d))
    BY <2>3 DEF Busy, Failing, Resting, CleanSteps
  <2> QED BY <2>1, <2>2, <2>3, <2>4
<1>3. /\ calm' = 0 \/ j = "attach"
      /\ \/ calm' = 0
         \/ calm' = calm /\ ~Busy(c)
         \/ calm' = calm + 1 /\ \A d \in Callers \ {c} : ~Busy(d)
      /\ alone'[c] => Cleared(calm', nodes)
      /\ calm' > 2 => "link" \in nodes
  <2>1. alone'[c] => \A d \in Callers \ {c} : ~Busy(d) BY <1>1 DEF Enters
  <2>2. CASE BeginAttach(c)
    <3>1. calm' = calm /\ ~Busy(c) /\ j = "attach"
      BY <1>2, <2>2 DEF BeginAttach, Enters, TypeOK
    <3> QED BY <2>1, <3>1
  <2>3. CASE BeginDetach(c) BY <2>3 DEF BeginDetach, Cleared
  <2>4. CASE TryAgain(c)
    <3>1. j = "attach" BY <1>2, <2>4 DEF TryAgain, Enters, TypeOK
    <3> QED BY <2>4, <3>1, FailureClears DEF TryAgain
  <2> QED BY <2>2, <2>3, <2>4 DEF Begin
<1>4. ASSUME NEW d \in Callers PROVE Reason(d)'
  BY <1>2, <1>3 DEF Reason, Undisturbed, Failing, CleanSteps
<1>5. ASSUME NEW d \in Callers, Busy(d)', job'[d] = "detach" PROVE calm' = 0
  BY <1>2, <1>3, <1>5
<1>6. ASSUME calm' > 2, NEW d \in Callers, Busy(d)' PROVE upSince'[d]
  <2>1. "link" \in nodes BY <1>3, <1>6
  <2>2. CASE d = c BY <1>2, <2>1, <2>2
  <2>3. CASE d # c
    <3>1. Busy(d) /\ calm' = calm BY <1>2, <1>3, <1>6, <2>3
    <3> QED BY <1>2, <1>6, <2>1, <2>3, <3>1
  <2> QED BY <2>2, <2>3
<1>7. ASSUME calm' > 0, NEW d \in Callers, pc'[d] \in {"mark", "mount"}
      PROVE  "link" \in nodes' \/ Lost'
  <2>1. d # c BY <1>1, <1>2, <1>7
  <2>2. Busy(d) /\ pc[d] \in {"mark", "mount"}
    BY <1>2, <1>7, <2>1 DEF Busy, Resting
  <2>3. calm' = calm /\ ~Busy(c) BY <1>3, <1>7, <2>1, <2>2
  <2>4. CASE "link" \in nodes BY <1>2, <2>4
  <2>5. CASE Lost
    <3>1. PICK e \in Callers : ~alone[e] /\ job[e] = "attach" /\ Failing(e)
      BY <2>5 DEF Lost
    <3>2. e # c BY <2>3, <3>1 DEF Failing, Busy, Resting, CleanSteps
    <3> QED BY <1>2, <3>1, <3>2 DEF Lost
  <2> QED BY <1>7, <2>2, <2>3, <2>4, <2>5
<1>8. (\A d \in Callers : ~Busy(d)') => Cleared(calm', nodes')
  BY <1>2
<1> QED BY <1>2, <1>3, <1>4, <1>5, <1>6, <1>7, <1>8 DEF Count

LEMMA StepCounts ==
    ASSUME IInv, RInv, NEW c \in Callers, Step(c), Watch
    PROVE  Count'
<1> USE DEF IInv, RInv, Count, TypeOK
<1>1. /\ Busy(c) /\ job' = job /\ alone' = alone
      /\ \A d \in Callers \ {c} :
            pc'[d] = pc[d] /\ (Busy(d)' <=> Busy(d)) /\ (Failing(d)' <=> Failing(d))
      /\ \A d \in Callers \ {c} : Busy(d) => ~alone[c]
  BY StepMoves DEF Quiet, Busy, Failing, Resting, CleanSteps
<1>2. \/ calm' = calm
      \/ calm' = 0
      \/ AttemptFailed(c) /\ pc'[c] = "failed" /\ nodes' = nodes
  <2>1. CASE AttachStep(c)
    <3>1. calm' = calm
      BY <2>1 DEF AttachStep, MakeTarget, WriteConfig, WriteArea, Enable, SetTimeout,
             MakeLoop, MakeLun, WriteNexus, Link, ReadAddress, WaitDevice,
             AttachFails, Does, memory
    <3> QED BY <3>1
  <2>2. CASE CleanStep(c)
    <3>1. calm' = calm
      BY <2>2 DEF CleanStep, RemoveLink, RemoveLun, RemoveTpgt, RemoveLoop,
             RemoveTarget, RemoveFails, Removes, memory
    <3> QED BY <3>1
  <2>3. CASE GiveUp(c) BY <2>3 DEF GiveUp, Goto
  <2>4. CASE MountFails(c) BY <2>4 DEF MountFails
  <2>5. CASE Unmount(c) \/ UnmountFails(c) \/ Mark(c) \/ Mount(c) \/ MountRefused(c)
             \/ LeaveUnmounted(c)
    <3>1. calm' = calm
      BY <2>5 DEF Unmount, UnmountFails, Mark, Mount, MountRefused, LeaveUnmounted,
             memory
    <3> QED BY <3>1
  <2> QED BY <2>1, <2>2, <2>3, <2>4, <2>5 DEF Step, CallStep
<1>5. CASE calm' = 0 /\ calm' # calm
  BY <1>5 DEF Count, Cleared
<1>3. CASE AttemptFailed(c) /\ pc'[c] = "failed" /\ nodes' = nodes /\ calm' # 0
  <2>1. /\ \A d \in Callers \ {c} : ~Busy(d)
        /\ Cleared(calm', nodes') /\ (calm' > 2 => "link" \in nodes')
    BY <1>3, FailureClears
  <2>2. ASSUME NEW d \in Callers PROVE ~Busy(d)' /\ pc'[d] \notin {"mark", "mount"}
    BY <1>1, <1>3, <2>1 DEF Busy, Resting
  <2> QED BY <2>1, <2>2 DEF Count
<1>4. CASE calm' = calm
  <2>1. ASSUME NEW d \in Callers, Busy(d)', job'[d] = "detach" PROVE calm' = 0
    BY <1>1, <1>4, <2>1
  <2>2. ASSUME calm > 2
        PROVE  "link" \in nodes' /\ \A d \in Callers : Busy(d)' => upSince'[d]
    <3>1. upSince[c] /\ job[c] = "attach" BY <1>1, <2>2
    <3>2. "link" \in nodes' BY <3>1, SparingStep
    <3>3. ASSUME NEW d \in Callers, Busy(d)' PROVE upSince'[d]
      BY <1>1, <2>2, <3>2, <3>3 DEF Watch, Busy
    <3> QED BY <3>2, <3>3
  <2>3. ASSUME calm > 0, "link" \notin nodes', NEW d \in Callers,
               pc'[d] \in {"mark", "mount"}
        PROVE  Lost'
    <3>1. job[c] = "attach" BY <1>1, <2>3
    <3>2. CASE AttachStep(c)
      <4>1. nodes \subseteq nodes' /\ ~Failing(c)
        BY <3>2 DEF AttachStep, MakeTarget, WriteConfig, WriteArea, Enable, SetTimeout,
               MakeLoop, MakeLun, WriteNexus, Link, ReadAddress, WaitDevice,
               AttachFails, Does, Failing, AttachSteps, CleanSteps
      <4>2. c # d
        <5>1. pc'[c] \in {"mark", "mount"} => "link" \in nodes'
          <6> USE DEF Goto, CleanFrom, AttachSteps
          <6>1. CASE AttachFails(c) BY <6>1 DEF AttachFails
          <6>2. CASE MakeTarget(c) \/ WriteConfig(c) \/ WriteArea(c) \/ Enable(c)
            BY <6>2 DEF MakeTarget, WriteConfig, WriteArea, Enable, Does
          <6>3. CASE SetTimeout(c) \/ MakeLoop(c) \/ MakeLun(c) \/ WriteNexus(c)
            BY <6>3 DEF SetTimeout, MakeLoop, MakeLun, WriteNexus, Does
          <6>4. CASE Link(c) \/ ReadAddress(c) \/ WaitDevice(c)
            BY <6>4 DEF Link, ReadAddress, WaitDevice, Does
          <6> QED BY <3>2, <6>1, <6>2, <6>3, <6>4 DEF AttachStep
        <5> QED BY <2>3, <5>1
      <4>3. Lost BY <1>1, <2>3, <4>1, <4>2
      <4> QED BY <1>1, <4>1, <4>3 DEF Lost
    <3>3. CASE CleanStep(c)
      <4>1. Failing(c)' /\ Failing(c)
        <5> USE <3>1 DEF Goto, Failing, CleanSteps
        <5>1. CASE RemoveLink(c) \/ RemoveLun(c) \/ RemoveTpgt(c)
          BY <5>1 DEF RemoveLink, RemoveLun, RemoveTpgt, Removes
        <5>2. CASE RemoveLoop(c) \/ RemoveTarget(c)
          BY <5>2 DEF RemoveLoop, RemoveTarget, Removes
        <5>3. CASE RemoveFails(c)
          <6>1. AfterClean[pc[c]] \in CleanSteps \cup {"again"}
            BY <5>3 DEF RemoveFails, AfterClean
          <6> QED BY <5>3, <6>1 DEF RemoveFails
        <5> QED BY <3>3, <5>1, <5>2, <5>3 DEF CleanStep
      <4>2. c # d /\ Busy(d)
        BY <1>1, <2>3, <4>1 DEF Failing, CleanSteps, Busy, Resting
      <4> QED BY <1>1, <3>1, <4>1, <4>2 DEF Lost
    <3>4. CASE CallStep(c)
      <4>1. /\ nodes' = nodes
            /\ \/ pc[c] = "umount"
               \/ pc[c] = "again" /\ pc'[c] = "failed"
               \/ pc[c] \in {"mark", "mount"}
        BY <3>4 DEF CallStep, Unmount, UnmountFails, GiveUp, AttemptFailed, Mark, Mount,
               Goto, MountRefused, MountFails, LeaveUnmounted
      <4>2. pc[c] # "umount" BY <3>1 DEF Fits
      <4>3. Lost
        <5>1. CASE c = d BY <2>3, <4>1, <4>2, <5>1
        <5>2. CASE c # d BY <1>1, <2>3, <4>1, <5>2
        <5> QED BY <5>1, <5>2
      <4>4. PICK e \in Callers : ~alone[e] /\ job[e] = "attach" /\ Failing(e)
        BY <4>3 DEF Lost
      <4>5. pc[c] = "again" => alone[c]
        <5> SUFFICES ASSUME pc[c] = "again", ~alone[c] PROVE FALSE OBVIOUS
        <5>1. calm' = 0
          BY <3>4 DEF CallStep, Unmount, UnmountFails, GiveUp, AttemptFailed, Mark,
                 Mount, MountRefused, MountFails, LeaveUnmounted
        <5> QED BY <1>4, <2>3, <5>1
      <4>6. e # c BY <4>1, <4>2, <4>4, <4>5 DEF Failing, CleanSteps
      <4> QED BY <1>1, <4>4, <4>6 DEF Lost
    <3> QED BY <3>2, <3>3, <3>4 DEF Step
  <2>4. ASSUME \A d \in Callers : ~Busy(d)' PROVE Cleared(calm', nodes')
    <3>1. CASE calm = 0 BY <1>4, <3>1 DEF Cleared
    <3>2. CASE calm # 0
      <4>1. job[c] = "attach" /\ calm > 0 BY <1>1, <3>2
      <4>2. ~Lost
        <5> SUFFICES ASSUME NEW e \in Callers, Failing(e), ~alone[e], Busy(e),
                            e = c
                     PROVE  FALSE
          BY <1>1, <2>4 DEF Lost, Failing, Busy, Resting, CleanSteps
        <5>1. CASE CleanStep(c)
          <6> USE <4>1 DEF Goto, Failing, CleanSteps, Busy, Resting
          <6>1. CASE RemoveLink(c) \/ RemoveLun(c) \/ RemoveTpgt(c)
            BY <2>4, <6>1 DEF RemoveLink, RemoveLun, RemoveTpgt, Removes
          <6>2. CASE RemoveLoop(c) \/ RemoveTarget(c)
            BY <2>4, <6>2 DEF RemoveLoop, RemoveTarget, Removes
          <6>3. CASE RemoveFails(c)
            <7>1. AfterClean[pc[c]] \in CleanSteps \cup {"again"}
              BY <6>3 DEF RemoveFails, AfterClean
            <7> QED BY <2>4, <6>3, <7>1 DEF RemoveFails
          <6> QED BY <5>1, <6>1, <6>2, <6>3 DEF CleanStep
        <5>2. CASE AttachStep(c)
          BY <5>2 DEF AttachStep, MakeTarget, WriteConfig, WriteArea, Enable, SetTimeout,
               MakeLoop, MakeLun, WriteNexus, Link, ReadAddress, WaitDevice,
               AttachFails, Does, Failing, AttachSteps, CleanSteps
        <5>3. CASE CallStep(c)
          <6>1. GiveUp(c) \/ Unmount(c) \/ UnmountFails(c)
            BY <5>3 DEF CallStep, Mark, Mount, MountRefused, MountFails, LeaveUnmounted,
                   Failing, CleanSteps
          <6>2. CASE GiveUp(c)
            BY <1>4, <3>2, <6>2 DEF GiveUp, AttemptFailed
          <6>3. CASE Unmount(c) \/ UnmountFails(c)
            BY <6>3 DEF Unmount, UnmountFails, Failing, CleanSteps
          <6> QED BY <6>1, <6>2, <6>3
        <5> QED BY <5>1, <5>2, <5>3 DEF Step
      <4>3. "link" \in nodes'
        <5> USE DEF Goto, Busy, Resting
        <5>1. CASE AttachStep(c)
          <6> USE DEF CleanFrom
          <6>1. CASE AttachFails(c) BY <2>4, <6>1 DEF AttachFails, AttachSteps
          <6>2. CASE MakeTarget(c) \/ WriteConfig(c) \/ WriteArea(c) \/ Enable(c)
            BY <2>4, <6>2 DEF MakeTarget, WriteConfig, WriteArea, Enable, Does
          <6>3. CASE SetTimeout(c) \/ MakeLoop(c) \/ MakeLun(c) \/ WriteNexus(c)
            BY <2>4, <6>3 DEF SetTimeout, MakeLoop, MakeLun, WriteNexus, Does
          <6>4. CASE Link(c) \/ ReadAddress(c) \/ WaitDevice(c)
            BY <2>4, <6>4 DEF Link, ReadAddress, WaitDevice, Does
          <6> QED BY <5>1, <6>1, <6>2, <6>3, <6>4 DEF AttachStep
        <5>2. CASE CleanStep(c)
          <6> USE <4>1 DEF CleanSteps
          <6>1. CASE RemoveLink(c) \/ RemoveLun(c) \/ RemoveTpgt(c)
            BY <2>4, <6>1 DEF RemoveLink, RemoveLun, RemoveTpgt, Removes
          <6>2. CASE RemoveLoop(c) \/ RemoveTarget(c)
            BY <2>4, <6>2 DEF RemoveLoop, RemoveTarget, Removes
          <6>3. CASE RemoveFails(c)
            <7>1. AfterClean[pc[c]] \in CleanSteps \cup {"again"}
              BY <6>3 DEF RemoveFails, AfterClean
            <7> QED BY <2>4, <6>3, <7>1 DEF RemoveFails
          <6> QED BY <5>2, <6>1, <6>2, <6>3 DEF CleanStep
        <5>3. CASE CallStep(c)
          <6>1. pc[c] # "umount" BY <4>1 DEF Fits
          <6>2. (~GiveUp(c) /\ ~MountFails(c)) \/ "link" \in nodes'
            <7>1. GiveUp(c) => calm' = 0 \/ calm' = calm + 1
              BY DEF GiveUp, AttemptFailed
            <7> QED BY <1>4, <3>2, <7>1 DEF MountFails
          <6>3. CASE Mount(c) \/ MountRefused(c) \/ LeaveUnmounted(c)
            BY <4>1, <4>2, <6>3 DEF Mount, MountRefused, LeaveUnmounted
          <6>4. CASE Mark(c) BY <2>4, <6>4 DEF Mark
          <6> QED BY <5>3, <6>1, <6>2, <6>3, <6>4 DEF CallStep, Unmount, UnmountFails
        <5> QED BY <5>1, <5>2, <5>3 DEF Step
      <4> QED BY <4>3 DEF Cleared
    <3> QED BY <3>1, <3>2
  <2> QED BY <1>4, <2>1, <2>2, <2>3, <2>4 DEF Count
<1> QED BY <1>2, <1>3, <1>4, <1>5

LEMMA RInvStep ==
    ASSUME IInv, RInv, [Next]_vars
    PROVE  RInv'
<1> USE DEF RInv, Count
<1>1. \A c \in Callers : Fits(c)' BY FitsStep DEF IInv
<1>2. CASE \E c \in Callers : Begin(c) BY <1>1, <1>2, BeginCounts
<1>3. CASE (\E c \in Callers : Step(c)) /\ Watch
  <2>1. PICK c \in Callers : Step(c) BY <1>3
  <2>2. ASSUME NEW d \in Callers PROVE Reason(d)'
    <3>1. CASE d = c BY <1>3, <2>1, <3>1, ReasonStep DEF Reason
    <3>2. CASE d # c
      <4>1. ~alone'[d] BY <2>1, <3>2, StepMoves DEF IInv, Quiet
      <4> QED BY <4>1 DEF Reason, Undisturbed
    <3> QED BY <3>1, <3>2
  <2> QED BY <1>1, <1>3, <2>1, <2>2, StepCounts
<1>4. CASE Die /\ Watch
  <2>1. PICK P : Crash(P) BY <1>4 DEF Die
  <2>2. /\ nodes' = nodes /\ job' = job /\ alone' = alone /\ struck' = struck
        /\ calm' = 0
        /\ \A c \in Callers : pc'[c] = pc[c] \/ pc'[c] = "idle"
        /\ \A c \in Callers : pc'[c] \notin Resting =>
              found'[c] = found[c] /\ (upSince'[c] <=> upSince[c] /\ "link" \in nodes)
    BY <1>4, <2>1 DEF Crash, Watch
  <2>3. ASSUME NEW c \in Callers PROVE Reason(c)'
    <3> SUFFICES ASSUME Undisturbed(c)' PROVE Reason(c)' BY DEF Reason
    <3>1. pc'[c] = pc[c] /\ Undisturbed(c)
      BY <2>2 DEF Undisturbed, Busy, Resting
    <3>2. "link" \in found[c] => upSince'[c]
      BY <2>2, <3>1 DEF Reason, Undisturbed, Busy, IInv, Spares, Resting
    <3>3. found'[c] = found[c] BY <2>2, <3>1 DEF Undisturbed, Busy, Resting
    <3> QED BY <2>2, <3>1, <3>2, <3>3 DEF Reason, Failing, Cleared
  <2> QED BY <1>1, <2>2, <2>3 DEF Cleared
<1>5. CASE UNCHANGED vars
  BY <1>1, <1>5 DEF vars, work, memory, Reason, Undisturbed, Failing, Busy, Lost
<1> QED BY <1>2, <1>3, <1>4, <1>5, NextSteps

\* For any callers and whatever crashes, races and failures have left: of the
\* attempts that nothing disturbs and that follow one another, two at most fail
\* unless the device is attached.
THEOREM RetriesSucceed == Spec => []RetriesGetThrough
<1>1. Init => RInv
  BY DEF Init, RInv, Count, Fits, Reason, Undisturbed, Busy, Resting, Cleared, AttachSteps
<1>2. IInv /\ RInv /\ [Next]_vars => RInv' BY RInvStep
<1>3. RInv => RetriesGetThrough BY DEF RInv, Count, RetriesGetThrough
<1> QED BY <1>1, <1>2, <1>3, IInvAlways, PTL DEF Spec
=============================================================================
