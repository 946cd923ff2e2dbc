----------------------------- MODULE RecordTrace -----------------------------
(***************************************************************************)
(* `ctr record-trace` (cmd/ctr/record_trace.go): a temporary container of  *)
(* an image runs until it ends, a timer expires or the user sends a        *)
(* signal; the trace of what it read is collected and becomes the top      *)
(* layer of a new image.                                                   *)
(*                                                                         *)
(* The command is the goroutine of the action, main, and beside it         *)
(* watchThread, the goroutine that forwards signals to the task,           *)
(* preventTaskHang, and the goroutine that takes signals while the trace   *)
(* is collected.  All channels but those of the signals are unbuffered: a  *)
(* send is one step of both sides.  Signals are SIGINT and SIGTERM.        *)
(***************************************************************************)
EXTENDS Integers, Sequences, SequencesExt

CONSTANTS
    MaxSignals,   \* signals a user sends
    MaxFaults,    \* calls that fail
    MaxOthers     \* changes of the image name by other clients

ASSUME BoundsAssumption ==
    MaxSignals \in Nat /\ MaxFaults \in Nat /\ MaxOthers \in Nat

\* What the action sets up, with a deferred release each, in this order.
Setups == {<<"trace">>,                                         \* --priority_list
           <<"trace", "lease", "container", "task">>,           \* host network
           <<"trace", "lease", "netns", "cni", "container", "task">>}
Resources == {"trace", "lease", "netns", "cni", "container", "task"}

VARIABLES
    setup,      \* the resources this command needs
    main,       \* where main is
    held,       \* releases that are deferred, the last one first to run
    leaked,     \* resources that were not released
    failed,     \* whether the action returns an error
    task,       \* "none", "created", "running", "stopped"
    timer,      \* "off", "armed", "expired", "stopped"
    watch,      \* where watchThread is
    forwarder,  \* where the goroutine of registerSignalsForTask is
    inbox,      \* signals in its channel
    handler,    \* whether the command is notified of signals, and how
    unwatched,  \* a call that was to stop the task has failed
    hangs,      \* where preventTaskHang is
    collector,  \* where the goroutine of registerSignalsForTraceCollection is
    trace,      \* "locked", "unlocked", "ok": what the backing store has done
    image,      \* who made the image under the new name
    signals, faults, others   \* what the bounds have left

mainVars == <<main, held, leaked, failed>>
watchVars == <<watch, unwatched>>
signalVars == <<forwarder, inbox, handler, collector>>
bounds == <<signals, faults, others>>
vars == <<setup, mainVars, task, timer, watchVars, signalVars, hangs, trace,
          image, bounds>>

Init ==
    /\ setup \in Setups
    /\ main = "setup" /\ held = <<>> /\ leaked = {} /\ failed = FALSE
    /\ task = "none" /\ timer = "off"
    /\ watch = "none" /\ unwatched = FALSE
    /\ forwarder = "none" /\ inbox = 0 /\ handler = {} /\ collector = "none"
    /\ hangs = "none"
    /\ trace = "locked" /\ image = "none"
    /\ signals = 0 /\ faults = 0 /\ others = 0

Running == main \notin {"returned", "killed"}

\* When main returns, or a signal kills the command, all goroutines are gone.
EndProcess ==
    /\ watch' = "none" /\ forwarder' = "none" /\ hangs' = "none"
    /\ collector' = "none" /\ handler' = {}

Fault == faults < MaxFaults /\ faults' = faults + 1 /\ UNCHANGED <<signals, others>>

-----------------------------------------------------------------------------
(* main *)

\* The action returns; its deferred calls run, the last one first.
Return(err) == main' = "release" /\ failed' = err /\ UNCHANGED <<held, leaked>>

Acquire ==
    LET r == setup[Len(held) + 1] IN
    /\ main = "setup"
    /\ Len(held) < Len(setup)
    /\ held' = Append(held, r)
    /\ task' = IF r = "task" THEN "created" ELSE task
    /\ UNCHANGED <<setup, main, leaked, failed, timer, watchVars, signalVars,
                   hangs, trace, image, bounds>>

\* A resource cannot be had; the network's release is deferred before Setup.
AcquireFails ==
    /\ main = "setup"
    /\ Len(held) < Len(setup)
    /\ Fault
    /\ main' = "release" /\ failed' = TRUE
    /\ \/ UNCHANGED held
       \/ setup[Len(held) + 1] = "cni" /\ held' = Append(held, "cni")
    /\ UNCHANGED <<setup, leaked, task, timer, watchVars, signalVars, hangs,
                   trace, image>>

\* The list of files is copied and there is nothing to record.
UsePriorityList ==
    /\ main = "setup" /\ held = setup /\ task = "none"
    /\ main' = "load"
    /\ UNCHANGED <<setup, held, leaked, failed, task, timer, watchVars,
                   signalVars, hangs, trace, image, bounds>>

\* The list cannot be opened or copied.
PriorityListFails ==
    /\ main = "setup" /\ held = setup /\ task = "none"
    /\ Fault /\ Return(TRUE)
    /\ UNCHANGED <<setup, task, timer, watchVars, signalVars, hangs, trace, image>>

\* task.Wait and task.Start, the timer, and the thread that watches it.
StartTask ==
    /\ main = "setup" /\ held = setup /\ task = "created"
    /\ main' = "wait" /\ task' = "running"
    /\ timer' = "armed" /\ watch' = "starting"
    /\ UNCHANGED <<setup, held, leaked, failed, unwatched, signalVars, hangs,
                   trace, image, bounds>>

StartTaskFails ==
    /\ main = "setup" /\ held = setup /\ task = "created"
    /\ Fault /\ Return(TRUE)
    /\ UNCHANGED <<setup, task, timer, watchVars, signalVars, hangs, trace, image>>

\* Mutant: main waits for the thread instead of the task.
ThreadStopped ==
    /\ main = "wait" /\ watch = "done"
    /\ main' = "stopTimer"
    /\ UNCHANGED <<setup, held, leaked, failed, task, timer, watchVars,
                   signalVars, hangs, trace, image, bounds>>

TaskStopped ==
    /\ main = "wait" /\ task = "stopped"
    /\ main' = "stopTimer"
    /\ UNCHANGED <<setup, held, leaked, failed, task, timer, watchVars,
                   signalVars, hangs, trace, image, bounds>>

\* The status carries an error, for instance because the connection is lost.
WaitFails ==
    /\ main = "wait"
    /\ Fault /\ Return(TRUE)
    /\ UNCHANGED <<setup, task, timer, watchVars, signalVars, hangs, trace, image>>

\* Mutant: the answer of Stop is not looked at.
StopTimerAlways ==
    /\ main = "stopTimer"
    /\ main' = "sendStop" /\ timer' = "stopped"
    /\ UNCHANGED <<setup, held, leaked, failed, task, watchVars, signalVars,
                   hangs, trace, image, bounds>>

\* Stop is true unless the timer's value was received or it was stopped.
StopTimer ==
    /\ main = "stopTimer"
    /\ main' = IF timer = "armed" THEN "sendStop" ELSE "unlock"
    /\ timer' = IF timer = "armed" THEN "stopped" ELSE timer
    /\ UNCHANGED <<setup, held, leaked, failed, task, watchVars, signalVars,
                   hangs, trace, image, bounds>>

SendStop ==
    /\ main = "sendStop" /\ watch = "select"
    /\ main' = "unlock" /\ watch' = "leaving"
    /\ UNCHANGED <<setup, held, leaked, failed, task, timer, unwatched,
                   signalVars, hangs, trace, image, bounds>>

\* collectTrace: signals are its own from here on; then the lock goes.
Unlock ==
    /\ main = "unlock"
    /\ main' = "poll" /\ trace' = "unlocked"
    /\ handler' = handler \cup {"collect"} /\ collector' = "idle"
    /\ UNCHANGED <<setup, held, leaked, failed, task, timer, watchVars,
                   forwarder, inbox, hangs, image, bounds>>

LeaveCollect == handler' = handler \ {"collect"} /\ collector' = "none"

UnlockFails ==
    /\ main = "unlock"
    /\ Fault /\ Return(TRUE)
    /\ UNCHANGED <<setup, task, timer, watchVars, signalVars, hangs, trace, image>>

\* Mutant: the trace file itself is looked for, which was there from the start.
FoundFile ==
    /\ main = "poll"
    /\ main' = "load"
    /\ LeaveCollect
    /\ UNCHANGED <<setup, held, leaked, failed, task, timer, watchVars,
                   forwarder, inbox, hangs, trace, image, bounds>>

\* The loop ends with the file, with a signal or after maxCollectTraceTime.
FoundOK ==
    /\ main = "poll" /\ trace = "ok"
    /\ main' = "load"
    /\ LeaveCollect
    /\ UNCHANGED <<setup, held, leaked, failed, task, timer, watchVars,
                   forwarder, inbox, hangs, trace, image, bounds>>

CollectTimesOut ==
    /\ main = "poll"
    /\ Return(TRUE) /\ LeaveCollect
    /\ UNCHANGED <<setup, task, timer, watchVars, forwarder, inbox, hangs,
                   trace, image, bounds>>

CollectCancelled ==
    /\ main = "poll" /\ collector = "sending"
    /\ Return(TRUE) /\ LeaveCollect
    /\ UNCHANGED <<setup, task, timer, watchVars, forwarder, inbox, hangs,
                   trace, image, bounds>>

\* contentLoader.Load and createImageWithAccelLayer: content only.
LoadTrace ==
    /\ main = "load"
    /\ main' = "create"
    /\ UNCHANGED <<setup, held, leaked, failed, task, timer, watchVars,
                   signalVars, hangs, trace, image, bounds>>

\* The image service is asked to create the image, and to update it if it is
\* there; if it has gone by then, once more to create it.
CreateImage ==
    /\ main = "create"
    /\ IF image = "none"
       THEN image' = "ours" /\ Return(FALSE)
       ELSE main' = "update" /\ UNCHANGED <<image, held, leaked, failed>>
    /\ UNCHANGED <<setup, task, timer, watchVars, signalVars, hangs, trace, bounds>>

UpdateImage ==
    /\ main = "update"
    /\ IF image = "none"
       THEN main' = "create" /\ UNCHANGED <<image, held, leaked, failed>>
       ELSE image' = "ours" /\ Return(FALSE)
    /\ UNCHANGED <<setup, task, timer, watchVars, signalVars, hangs, trace, bounds>>

PublishFails ==
    /\ main \in {"load", "create", "update"}
    /\ Fault /\ Return(TRUE)
    /\ UNCHANGED <<setup, task, timer, watchVars, signalVars, hangs, trace, image>>

\* A task cannot be deleted while it runs, nor a container while it has a task.
Deletable(r) ==
    /\ r = "task" => task # "running"
    /\ r = "container" => "task" \notin leaked

\* Mutant: the first resource is released first.
ReleaseFirst ==
    /\ main = "release" /\ held # <<>>
    /\ held' = Tail(held)
    /\ leaked' = IF Deletable(Head(held)) THEN leaked ELSE leaked \cup {Head(held)}
    /\ UNCHANGED <<setup, main, failed, task, timer, watchVars, signalVars,
                   hangs, trace, image, bounds>>

Release ==
    /\ main = "release" /\ held # <<>>
    /\ held' = Front(held)
    /\ leaked' = IF Deletable(Last(held)) THEN leaked ELSE leaked \cup {Last(held)}
    /\ UNCHANGED <<setup, main, failed, task, timer, watchVars, signalVars,
                   hangs, trace, image, bounds>>

\* The errors of these calls are dropped, or set in a variable of a block that
\* has been left.
ReleaseFails ==
    /\ main = "release" /\ held # <<>>
    /\ Fault
    /\ held' = Front(held)
    /\ leaked' = leaked \cup {Last(held)}
    /\ UNCHANGED <<setup, main, failed, task, timer, watchVars, signalVars,
                   hangs, trace, image>>

Returned ==
    /\ main = "release" /\ held = <<>>
    /\ main' = "returned"
    /\ EndProcess
    /\ UNCHANGED <<setup, held, leaked, failed, task, timer, unwatched, inbox,
                   trace, image, bounds>>

-----------------------------------------------------------------------------
(* watchThread and preventTaskHang *)

Register ==
    /\ watch = "starting"
    /\ watch' = "select"
    /\ handler' = handler \cup {"task"} /\ forwarder' = "idle"
    /\ UNCHANGED <<setup, mainVars, task, timer, unwatched, inbox, collector,
                   hangs, trace, image, bounds>>

\* The forwarder's send meets the select ...
ReceiveSignal ==
    /\ watch = "select" /\ forwarder = "sending"
    /\ watch' = "signalled" /\ forwarder' = "killing"
    /\ UNCHANGED <<setup, mainVars, task, timer, unwatched, inbox, handler,
                   collector, hangs, trace, image, bounds>>

\* ... and the timer is stopped in a step of its own.
SignalStopsTimer ==
    /\ watch = "signalled"
    /\ watch' = "leaving"
    /\ timer' = IF timer = "armed" THEN "stopped" ELSE timer
    /\ UNCHANGED <<setup, mainVars, task, unwatched, signalVars, hangs, trace,
                   image, bounds>>

Timeout ==
    /\ watch = "select" /\ timer = "armed"
    /\ watch' = "leaving" /\ timer' = "expired"
    /\ UNCHANGED <<setup, mainVars, task, unwatched, signalVars, hangs, trace,
                   image, bounds>>

\* Signals have their default effect from here on, which is to kill.
Unregister ==
    /\ watch = "leaving"
    /\ watch' = "check"
    /\ handler' = handler \ {"task"}
    /\ UNCHANGED <<setup, mainVars, task, timer, unwatched, forwarder, inbox,
                   collector, hangs, trace, image, bounds>>

\* A task that is sent SIGTERM may end or not.
MayStop == task' \in IF task = "running" THEN {"running", "stopped"} ELSE {task}

\* Mutant: SIGTERM is sent and nothing waits behind it.
KillTaskOnce ==
    /\ watch = "check"
    /\ watch' = "done"
    /\ MayStop
    /\ UNCHANGED <<setup, mainVars, timer, unwatched, signalVars, hangs, trace,
                   image, bounds>>

KillTask ==
    /\ watch = "check"
    /\ watch' = "done"
    /\ hangs' = IF task = "running" THEN "asleep" ELSE hangs
    /\ MayStop
    /\ UNCHANGED <<setup, mainVars, timer, unwatched, signalVars, trace, image,
                   bounds>>

\* Without its status the task counts as not running and is left alone; when
\* only the kill fails, preventTaskHang is there already.
KillTaskFails ==
    /\ watch = "check"
    /\ Fault
    /\ watch' = "done"
    /\ \/ unwatched' = TRUE /\ UNCHANGED hangs
       \/ task = "running" /\ hangs' = "asleep" /\ UNCHANGED unwatched
    /\ UNCHANGED <<setup, mainVars, task, timer, signalVars, trace, image>>

ForceKill ==
    /\ hangs = "asleep"
    /\ hangs' = "done"
    /\ task' = IF task = "running" THEN "stopped" ELSE task
    /\ UNCHANGED <<setup, mainVars, timer, watchVars, signalVars, trace, image,
                   bounds>>

ForceKillFails ==
    /\ hangs = "asleep"
    /\ Fault
    /\ hangs' = "done" /\ unwatched' = TRUE
    /\ UNCHANGED <<setup, mainVars, task, timer, watch, signalVars, trace, image>>

-----------------------------------------------------------------------------
(* The goroutine of registerSignalsForTask *)

TakeSignal ==
    /\ forwarder = "idle" /\ inbox > 0
    /\ forwarder' = "sending" /\ inbox' = inbox - 1
    /\ UNCHANGED <<setup, mainVars, task, timer, watchVars, handler, collector,
                   hangs, trace, image, bounds>>

ForwardSignal ==
    /\ forwarder = "killing"
    /\ MayStop
    /\ forwarder' = IF task = "running" THEN "idle" ELSE "ended"
    /\ UNCHANGED <<setup, mainVars, timer, watchVars, inbox, handler, collector,
                   hangs, trace, image, bounds>>

-----------------------------------------------------------------------------
(* What happens around the command *)

TaskExits ==
    /\ task = "running"
    /\ task' = "stopped"
    /\ UNCHANGED <<setup, mainVars, timer, watchVars, signalVars, hangs, trace,
                   image, bounds>>

\* A signal reaches every channel that asked for it ...
Signal ==
    /\ signals < MaxSignals /\ handler # {}
    /\ signals' = signals + 1
    /\ inbox' = IF "task" \in handler THEN inbox + 1 ELSE inbox
    /\ collector' = IF collector = "idle" THEN "sending" ELSE collector
    /\ UNCHANGED <<setup, mainVars, task, timer, watchVars, forwarder, handler,
                   hangs, trace, image, faults, others>>

\* ... and if there is none it kills the command, and no deferred call runs.
SignalKills ==
    /\ signals < MaxSignals /\ handler = {} /\ Running
    /\ signals' = signals + 1
    /\ main' = "killed" /\ leaked' = leaked \cup ToSet(held)
    /\ EndProcess
    /\ UNCHANGED <<setup, held, failed, task, timer, unwatched, inbox, trace,
                   image, faults, others>>

\* The backing store sees that the lock is gone and completes the trace.
CompleteTrace ==
    /\ trace = "unlocked"
    /\ trace' = "ok"
    /\ UNCHANGED <<setup, mainVars, task, timer, watchVars, signalVars, hangs,
                   image, bounds>>

OtherClient ==
    /\ others < MaxOthers
    /\ others' = others + 1
    /\ image' = IF image = "none" THEN "other" ELSE "none"
    /\ UNCHANGED <<setup, mainVars, task, timer, watchVars, signalVars, hangs,
                   trace, signals, faults>>

Main ==
    \/ Acquire \/ UsePriorityList \/ StartTask \/ TaskStopped \/ StopTimer
    \/ SendStop \/ Unlock \/ FoundOK \/ CollectTimesOut \/ CollectCancelled
    \/ LoadTrace \/ CreateImage \/ UpdateImage \/ Release \/ Returned
Watch ==
    \/ Register \/ ReceiveSignal \/ SignalStopsTimer \/ Timeout \/ Unregister
    \/ KillTask
Forward == TakeSignal \/ ForwardSignal
Failures ==
    \/ AcquireFails \/ PriorityListFails \/ StartTaskFails \/ WaitFails
    \/ UnlockFails \/ PublishFails \/ ReleaseFails \/ KillTaskFails \/ ForceKillFails
Around == TaskExits \/ Signal \/ SignalKills \/ CompleteTrace \/ OtherClient

Next == Main \/ Watch \/ ForceKill \/ Forward \/ Failures \/ Around

Spec == Init /\ [][Next]_vars

\* Goroutines run, timers expire and sleeps end.  Nobody has to send a signal,
\* no task has to end by itself, no backing store to complete a trace, and no
\* call to fail.
Fairness ==
    /\ WF_vars(Main)
    /\ WF_vars(Watch)
    /\ WF_vars(ForceKill)
    /\ WF_vars(Forward)
FairSpec == Spec /\ Fairness

-----------------------------------------------------------------------------
(* Properties *)

\* Every variable has its type; the deferred releases are those of the first
\* resources of the setup, in order.
TypeOK ==
    /\ setup \in Setups
    /\ main \in {"setup", "wait", "stopTimer", "sendStop", "unlock", "poll",
                 "load", "create", "update", "release", "returned", "killed"}
    /\ IsPrefix(held, setup)
    /\ leaked \subseteq Resources
    /\ failed \in BOOLEAN /\ unwatched \in BOOLEAN
    /\ task \in {"none", "created", "running", "stopped"}
    /\ timer \in {"off", "armed", "expired", "stopped"}
    /\ watch \in {"none", "starting", "select", "signalled", "leaving", "check", "done"}
    /\ forwarder \in {"none", "idle", "sending", "killing", "ended"}
    /\ collector \in {"none", "idle", "sending"}
    /\ inbox \in 0 .. MaxSignals
    /\ handler \subseteq {"task", "collect"}
    /\ hangs \in {"none", "asleep", "done"}
    /\ trace \in {"locked", "unlocked", "ok"}
    /\ image \in {"none", "ours", "other"}
    /\ signals \in 0 .. MaxSignals /\ faults \in 0 .. MaxFaults
    /\ others \in 0 .. MaxOthers

\* "The trace file is not generated": an image is made of a trace only after
\* the container has stopped and the backing store has completed the trace.
ImageHasTrace ==
    image = "ours" /\ Len(setup) > 1 => trace = "ok" /\ task = "stopped"

\* "The temporary resources shall be cleaned": a command that returns, however
\* the task ended, has released what it acquired, unless a call failed; a
\* running task that it leaves takes its container with it.
NothingLeft ==
    main = "returned" =>
        /\ faults = 0 => leaked = {}
        /\ "task" \in leaked => "container" \in leaked

\* Once the thread has stopped watching, the task ends: by itself, by SIGTERM
\* or after maxTaskRunningTime by SIGKILL ("In case the task is not able to
\* respond to SIGTERM"), unless one of these calls failed or the command ended.
WatchedTaskEnds ==
    watch \in {"signalled", "leaving"} ~> task = "stopped" \/ unwatched \/ ~Running

\* A command that is sent no signal returns, whenever its timer expires and
\* the task ends, unless the task could not be stopped.
UnsignalledReturns == <>(main = "returned" \/ signals > 0 \/ unwatched)

\* "The recording progress will be terminated by either timeout, or user
\* signals" (docs/trace-prefetch.md).
CommandReturns == <>~Running
=============================================================================
