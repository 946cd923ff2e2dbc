----------------------------- MODULE BlockDevice -----------------------------
(***************************************************************************)
(* One overlaybd block device, as AttachDevice and DetachDevice            *)
(* (pkg/snapshot/storage.go) set it up and take it down, one operation on  *)
(* configfs at a time, with the calls of the snapshotter and the commands  *)
(* of overlaybd-attacher (cmd/overlaybd-attacher/main.go) around them.     *)
(*                                                                         *)
(* A device is a target (user_<hba>/dev_<id>), configured and enabled, and *)
(* a loopback (naa.<id>/tpgt_1/lun/lun_0) with a nexus, which a symbolic   *)
(* link to the target makes a disk.  Nothing excludes two callers from     *)
(* working on the same device, and any of them may die between two steps.  *)
(***************************************************************************)
EXTENDS Integers, FiniteSets

CONSTANTS
    Mounters,     \* calls of the snapshotter that work on the device
    Attachers,    \* overlaybd-attacher commands for the same id
    Retries,      \* attempts of `overlaybd-attacher attach`
    MaxAttaches,  \* calls that attach
    MaxDetaches,  \* calls that detach
    MaxFaults     \* calls that fail and processes that end

Callers == Mounters \cup Attachers

ASSUME CallersAssumption == Mounters \cap Attachers = {}
ASSUME BoundsAssumption ==
    /\ Retries \in Nat \ {0} /\ MaxAttaches \in Nat
    /\ MaxDetaches \in Nat /\ MaxFaults \in Nat

Nodes == {"target", "enabled", "loop", "tpgt", "lun", "nexus", "link"}

AttachSteps == {"target", "config", "area", "enable", "timeout", "loop", "lun",
                "nexus", "link", "address", "device"}
CleanSteps == {"unlink", "rmlun", "rmtpgt", "rmloop", "rmtarget"}
Steps == {"idle", "mark", "mount", "again", "umount", "attached", "detached",
          "failed"} \cup AttachSteps \cup CleanSteps

VARIABLES
    nodes,    \* what there is of the device
    mounted,  \* whether it is mounted on the snapshot's mountpoint
    pc,       \* where each caller is
    job,      \* "attach" or "detach"
    tries,    \* attempts that the call of a caller has made
    found,    \* what there was when its attempt began
    alone,    \* no other caller has been at work since
    struck,   \* whether a call of its attempt failed: "no", "attach", "clean"
    upSince,  \* the device has been linked ever since its attempt began
    calm,     \* attempts in a row that failed, alone and with no fault
    attaches, detaches, faults

work == <<pc, job, tries>>
memory == <<alone, struck, calm>>
bounds == <<attaches, detaches, faults>>
vars == <<nodes, mounted, work, memory, found, upSince, bounds>>

Init ==
    /\ nodes = {} /\ mounted = FALSE
    /\ pc = [c \in Callers |-> "idle"]
    /\ job = [c \in Callers |-> "attach"]
    /\ tries = [c \in Callers |-> 0]
    /\ found = [c \in Callers |-> {}]
    /\ alone = [c \in Callers |-> FALSE]
    /\ struck = [c \in Callers |-> "no"]
    /\ upSince = [c \in Callers |-> FALSE]
    /\ calm = 0 /\ attaches = 0 /\ detaches = 0 /\ faults = 0

Resting == {"idle", "attached", "detached", "failed"}
Busy(c) == pc[c] \notin Resting

-----------------------------------------------------------------------------
(* The configfs of the kernel, as AttachDevice and DetachDevice use it. *)

\* A loopback directory goes with everything below it, the link included.
Below(n) ==
    CASE n = "link" -> {"link"}
      [] n = "lun" -> {"lun", "link"}
      [] n = "tpgt" -> {"tpgt", "nexus", "lun", "link"}
      [] n = "loop" -> {"loop", "tpgt", "nexus", "lun", "link"}
      [] n = "target" -> {"target", "enabled"}

\* A target that is linked cannot be removed.
Removable(n) == n = "target" => "link" \notin nodes

-----------------------------------------------------------------------------
(* Steps of a call *)

Goto(c, step) == pc' = [pc EXCEPT ![c] = step]

\* What a caller at work remembers of the device, after any step.
Watch ==
    /\ upSince' = [c \in Callers |->
                     upSince[c] /\ "link" \in nodes' /\ pc'[c] \notin Resting]
    /\ found' = [c \in Callers |-> IF pc'[c] \in Resting THEN {} ELSE found[c]]

\* A mutant: the deferred removals are registered on entry.
CleanFromEntry(step) == IF step = "target" THEN "again" ELSE "rmlun"

\* A mutant: the loopback's removal is registered after the link.
CleanFromLate(step) ==
    CASE step = "target" -> "again"
      [] step \in {"address", "device"} -> "unlink"
      [] OTHER -> "rmtarget"

\* A mutant: the target's removal is registered once it is enabled.
CleanFromEnabled(step) ==
    CASE step \in {"target", "config", "area", "enable"} -> "again"
      [] step \in {"timeout", "loop", "lun"} -> "rmtarget"
      [] step \in {"nexus", "link"} -> "rmlun"
      [] step \in {"address", "device"} -> "unlink"

\* The deferred calls that have been registered: they run if the attempt fails.
CleanFrom(step) ==
    CASE step = "target" -> "again"
      [] step \in {"config", "area", "enable", "timeout", "loop", "lun"} -> "rmtarget"
      [] step \in {"nexus", "link"} -> "rmlun"
      [] step \in {"address", "device"} -> "unlink"

\* An operation of AttachDevice: the kernel demands some nodes, refuses others
\* and makes what the operation makes.
Does(c, here, demands, refuses, makes, next) ==
    /\ pc[c] = here
    /\ IF demands \subseteq nodes /\ refuses \cap nodes = {}
       THEN nodes' = nodes \cup makes /\ Goto(c, next)
       ELSE UNCHANGED nodes /\ Goto(c, CleanFrom(here))
    /\ UNCHANGED <<mounted, job, tries, memory, bounds>>

MakeTarget(c) == Does(c, "target", {}, {}, {"target"}, "config")
WriteConfig(c) == Does(c, "config", {"target"}, {}, {}, "area")
\* The size of the data area cannot be set once the device is enabled.
WriteArea(c) == Does(c, "area", {"target"}, {"enabled"}, {}, "enable")
Enable(c) == Does(c, "enable", {"target"}, {"enabled"}, {"enabled"}, "timeout")
SetTimeout(c) == Does(c, "timeout", {"target"}, {"link"}, {}, "loop")
MakeLoop(c) == Does(c, "loop", {}, {}, {"loop"}, "lun")
\* A mutant: a loopback that is there already is taken as it is.
MakeLunReused(c) ==
    Does(c, "lun", {}, {}, {"loop", "tpgt", "lun"},
         IF "lun" \in nodes THEN "link" ELSE "nexus")

MakeLun(c) == Does(c, "lun", {}, {}, {"loop", "tpgt", "lun"}, "nexus")
WriteNexus(c) == Does(c, "nexus", {"tpgt"}, {"nexus"}, {"nexus"}, "link")
Link(c) == Does(c, "link", {"lun", "target", "enabled"}, {"link"}, {"link"}, "address")
ReadAddress(c) == Does(c, "address", {"tpgt"}, {}, {}, "device")

\* The disk shows up if the link is there; the poll gives up after a while.
WaitDevice(c) ==
    Does(c, "device", {"link"}, {}, {}, IF c \in Mounters THEN "mark" ELSE "attached")

\* Any of these calls may fail: a write, a directory, EAGAIN a hundred times,
\* a disk that does not show up in time.
Fault == faults < MaxFaults /\ faults' = faults + 1 /\ UNCHANGED <<attaches, detaches>>

AttachFails(c) ==
    /\ pc[c] \in AttachSteps /\ Fault
    /\ Goto(c, CleanFrom(pc[c]))
    /\ struck' = [struck EXCEPT ![c] = "attach"]
    /\ UNCHANGED <<nodes, mounted, job, tries, alone, calm>>

\* RemoveAll of a node.  AttachDevice logs an error of its clean-up and goes
\* on, DetachDevice returns it.
Removes(c, here, node, next) ==
    /\ pc[c] = here
    /\ IF Removable(node)
       THEN nodes' = nodes \ Below(node) /\ Goto(c, next)
       ELSE UNCHANGED nodes /\ Goto(c, IF job[c] = "attach" THEN next ELSE "failed")
    /\ UNCHANGED <<mounted, job, tries, memory, bounds>>

RemoveLink(c) == Removes(c, "unlink", "link", "rmlun")
RemoveLun(c) == Removes(c, "rmlun", "lun", "rmtpgt")
RemoveTpgt(c) == Removes(c, "rmtpgt", "tpgt", "rmloop")
\* A mutant: the portal group is removed twice, the loopback never.
RemoveTpgtTwice(c) == Removes(c, "rmloop", "tpgt", "rmtarget")

RemoveLoop(c) == Removes(c, "rmloop", "loop", "rmtarget")
RemoveTarget(c) ==
    Removes(c, "rmtarget", "target", IF job[c] = "attach" THEN "again" ELSE "detached")

AfterClean ==
    [unlink |-> "rmlun", rmlun |-> "rmtpgt", rmtpgt |-> "rmloop",
     rmloop |-> "rmtarget", rmtarget |-> "again"]

RemoveFails(c) ==
    /\ pc[c] \in CleanSteps /\ Fault
    /\ Goto(c, IF job[c] = "attach" THEN AfterClean[pc[c]] ELSE "failed")
    /\ struck' = [struck EXCEPT ![c] = "clean"]
    /\ UNCHANGED <<nodes, mounted, job, tries, alone, calm>>

-----------------------------------------------------------------------------
(* Calls *)

\* An attempt or a detach begins; whoever is at work is not alone any more.
Enters(c, step, j) ==
    /\ Goto(c, step)
    /\ job' = [job EXCEPT ![c] = j]
    /\ found' = [found EXCEPT ![c] = nodes]
    /\ alone' = [d \in Callers |-> d = c /\ \A e \in Callers \ {c} : ~Busy(e)]
    /\ struck' = [struck EXCEPT ![c] = "no"]
    /\ upSince' = [d \in Callers |-> (d = c \/ upSince[d]) /\ "link" \in nodes]
    /\ UNCHANGED <<nodes, mounted, faults>>

\* attachAndMountBlockDevice, when the device is not mounted, and the attach
\* command.
BeginAttach(c) ==
    /\ ~Busy(c) /\ (c \in Mounters => ~mounted)
    /\ attaches < MaxAttaches /\ attaches' = attaches + 1
    /\ tries' = [tries EXCEPT ![c] = 1]
    /\ Enters(c, "target", "attach")
    /\ UNCHANGED <<calm, detaches>>

\* UnmountAndDetachBlockDevice, with nothing using the device, and the detach
\* command, which does not unmount.
BeginDetach(c) ==
    /\ ~Busy(c)
    /\ detaches < MaxDetaches /\ detaches' = detaches + 1
    /\ tries' = [tries EXCEPT ![c] = 0]
    /\ Enters(c, IF c \in Mounters THEN "umount" ELSE "unlink", "detach")
    /\ calm' = 0
    /\ UNCHANGED attaches

Unmount(c) ==
    /\ pc[c] = "umount"
    /\ mounted' = FALSE /\ Goto(c, "unlink")
    /\ UNCHANGED <<nodes, job, tries, memory, bounds>>

UnmountFails(c) ==
    /\ pc[c] = "umount" /\ Fault
    /\ Goto(c, "failed")
    /\ UNCHANGED <<nodes, mounted, job, tries, memory>>

\* The clean-up of an attempt is over.
AttemptFailed(c) ==
    /\ pc[c] = "again"
    /\ calm' = IF alone[c] /\ struck[c] = "no" THEN calm + 1 ELSE 0

\* A mutant: one attempt too many.
TryOnceMore(c) ==
    /\ AttemptFailed(c) /\ c \in Attachers /\ tries[c] <= Retries
    /\ tries' = [tries EXCEPT ![c] = @ + 1]
    /\ Enters(c, "target", "attach")
    /\ UNCHANGED <<attaches, detaches>>

\* The attach command tries again, a second later.
TryAgain(c) ==
    /\ AttemptFailed(c) /\ c \in Attachers /\ tries[c] < Retries
    /\ tries' = [tries EXCEPT ![c] = @ + 1]
    /\ Enters(c, "target", "attach")
    /\ UNCHANGED <<attaches, detaches>>

GiveUp(c) ==
    /\ AttemptFailed(c) /\ (c \in Attachers => tries[c] = Retries)
    /\ Goto(c, "failed")
    /\ UNCHANGED <<nodes, mounted, job, tries, alone, struck, bounds>>

Mark(c) ==
    /\ pc[c] = "mark" /\ Goto(c, "mount")
    /\ UNCHANGED <<nodes, mounted, job, tries, memory, bounds>>

\* The mount is tried for five seconds; on one mountpoint it succeeds once.
Mount(c) ==
    /\ pc[c] = "mount" /\ "link" \in nodes /\ ~mounted
    /\ mounted' = TRUE /\ Goto(c, "attached")
    /\ UNCHANGED <<nodes, job, tries, memory, bounds>>

\* A device that cannot be mounted, or that is gone, stays as it is.
MountRefused(c) ==
    /\ pc[c] = "mount" /\ ("link" \notin nodes \/ mounted)
    /\ Goto(c, "failed")
    /\ UNCHANGED <<nodes, mounted, job, tries, memory, bounds>>

\* The mark file cannot be written, mkfs fails, or every mount does.
MountFails(c) ==
    /\ pc[c] \in {"mark", "mount"} /\ Fault
    /\ Goto(c, "failed")
    /\ calm' = 0
    /\ UNCHANGED <<nodes, mounted, job, tries, alone, struck>>

\* A device that is written as a block device is not mounted.
LeaveUnmounted(c) ==
    /\ pc[c] = "mount" /\ Goto(c, "attached")
    /\ UNCHANGED <<nodes, mounted, job, tries, memory, bounds>>

\* The snapshotter dies with all its calls, an attacher by itself.
Crash(P) ==
    /\ Fault /\ \E c \in P : Busy(c)
    /\ pc' = [c \in Callers |-> IF c \in P THEN "idle" ELSE pc[c]]
    /\ calm' = 0
    /\ UNCHANGED <<nodes, mounted, job, tries, alone, struck>>

-----------------------------------------------------------------------------

AttachStep(c) ==
    \/ MakeTarget(c) \/ WriteConfig(c) \/ WriteArea(c) \/ Enable(c) \/ SetTimeout(c)
    \/ MakeLoop(c) \/ MakeLun(c) \/ WriteNexus(c) \/ Link(c)
    \/ ReadAddress(c) \/ WaitDevice(c)
    \/ AttachFails(c)

CleanStep(c) ==
    \/ RemoveLink(c) \/ RemoveLun(c) \/ RemoveTpgt(c) \/ RemoveLoop(c)
    \/ RemoveTarget(c) \/ RemoveFails(c)

CallStep(c) ==
    \/ Unmount(c) \/ UnmountFails(c) \/ GiveUp(c)
    \/ Mark(c) \/ Mount(c) \/ MountRefused(c) \/ MountFails(c) \/ LeaveUnmounted(c)

Die == Crash(Mounters) \/ \E c \in Attachers : Crash({c})

Begin(c) == BeginAttach(c) \/ BeginDetach(c) \/ TryAgain(c)

Next ==
    \/ \E c \in Callers : Begin(c)
    \/ (\E c \in Callers : AttachStep(c) \/ CleanStep(c) \/ CallStep(c)) /\ Watch
    \/ Die /\ Watch

Spec == Init /\ [][Next]_vars

-----------------------------------------------------------------------------
(* Properties *)

TypeOK ==
    /\ nodes \subseteq Nodes /\ mounted \in BOOLEAN
    /\ pc \in [Callers -> Steps]
    /\ job \in [Callers -> {"attach", "detach"}]
    /\ tries \in [Callers -> 0 .. Retries]
    /\ found \in [Callers -> SUBSET Nodes]
    /\ alone \in [Callers -> BOOLEAN] /\ struck \in [Callers -> {"no", "attach", "clean"}]
    /\ upSince \in [Callers -> BOOLEAN]
    /\ calm \in Nat /\ attaches \in 0 .. MaxAttaches
    /\ detaches \in 0 .. MaxDetaches /\ faults \in 0 .. MaxFaults

\* An attempt to attach a device that is attached already fails, and its
\* clean-up, which removes what the attempt found as well as what it made,
\* leaves the device alone, whoever else is at work: it stops at the enabled
\* target, before it reaches the loopback, and the kernel keeps a target that
\* is linked (AttachDevice and its deferred calls).
AttachSparesAttached ==
    [][\A c \in Callers :
         job[c] = "attach" /\ upSince[c] /\ pc'[c] # pc[c] => "link" \in nodes']_vars

\* A failed attempt that no other caller and no error of the clean-up disturbed
\* leaves nothing that was not there before, but the empty directory of the
\* loopback when the directory of the lun could not be made.
FailedAttachCleans ==
    \A c \in Callers :
        job[c] = "attach" /\ pc[c] = "again" /\ alone[c] /\ struck[c] # "clean" =>
            nodes \subseteq found[c] \cup {"loop"}

\* Whatever crashes, races and failures have left: of calls that are made one
\* after the other and meet no fault themselves, at most two fail before one
\* succeeds, unless the device is attached.  So the five attempts of the attach
\* command are enough, and only an attached device that is not mounted (the
\* mounts failed, or the snapshotter died) keeps the snapshotter from using it.
RetriesGetThrough == calm > 2 => "link" \in nodes

\* A detach that returns without error and was alone has removed everything, in
\* whatever state it found the device.
DetachedIsGone ==
    \A c \in Callers : pc[c] = "detached" /\ alone[c] => nodes = {}

\* Whoever was told that the device is attached, with no other call since the
\* attempt began, has a device that is whole.
AttachedIsWhole ==
    \A c \in Callers : pc[c] = "attached" /\ alone[c] => nodes = Nodes
=============================================================================
