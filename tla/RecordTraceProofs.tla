-------------------------- MODULE RecordTraceProofs --------------------------
(* Theorems about RecordTrace, for any number of signals, failing calls and *)
(* other clients.                                                          *)
EXTENDS RecordTrace, SequenceTheorems, TLAPS

-----------------------------------------------------------------------------
(* The resources of a setup.                                               *)

\* The command has something to record, and not just a list of files.
Records == Len(setup) > 1

\* The task is the last resource of a setup that has one, after its container.
LEMMA SetupShape ==
  ASSUME NEW s \in Setups
  PROVE  /\ s \in Seq(Resources) /\ Len(s) \in Nat \ {0}
         /\ \A k \in 1 .. Len(s) : s[k] = "task" <=> Len(s) > 1 /\ k = Len(s)
         /\ Len(s) > 1 => Len(s) - 1 \in 1 .. Len(s) /\ s[Len(s) - 1] = "container"
  <1>1. CASE s = <<"trace">>
    BY <1>1 DEF Resources
  <1>2. CASE s = <<"trace", "lease", "container", "task">>
    BY <1>2 DEF Resources
  <1>3. CASE s = <<"trace", "lease", "netns", "cni", "container", "task">>
    BY <1>3 DEF Resources
  <1> QED
    BY <1>1, <1>2, <1>3 DEF Setups

\* A sequence that agrees with another one as far as it goes is its prefix.
LEMMA AgreeingIsPrefix ==
  ASSUME NEW S, NEW s \in Seq(S), NEW t \in Seq(S), Len(s) <= Len(t),
         \A k \in 1 .. Len(s) : s[k] = t[k]
  PROVE  IsPrefix(s, t)
  <1>1. SubSeq(s, 1, Len(s)) = s
    BY SubSeqFull
  <1>2. /\ SubSeq(t, 1, Len(s)) \in Seq(S)
        /\ Len(SubSeq(t, 1, Len(s))) = Len(s)
        /\ \A k \in 1 .. Len(s) : SubSeq(t, 1, Len(s))[k] = t[k]
    BY SubSeqProperties, LenProperties
  <1>3. SubSeq(t, 1, Len(s)) = s
    BY <1>2, SeqEqual
  <1> QED
    BY <1>1, <1>3 DEF IsPrefix

\* The deferred releases are those of the first resources of the setup.
HeldInv ==
    /\ held \in Seq(Resources)
    /\ Len(held) <= Len(setup)
    /\ \A k \in 1 .. Len(held) : held[k] = setup[k]

\* One resource more.
LEMMA HeldAppend ==
  ASSUME setup \in Setups, HeldInv, Len(held) < Len(setup),
         NEW h, h = Append(held, setup[Len(held) + 1])
  PROVE  /\ h \in Seq(Resources) /\ Len(h) = Len(held) + 1
         /\ \A k \in 1 .. Len(h) : h[k] = setup[k]
  <1>1. setup \in Seq(Resources) /\ Len(held) \in Nat
    BY SetupShape, LenProperties DEF HeldInv
  <1>2. setup[Len(held) + 1] \in Resources
    BY <1>1, ElementOfSeq
  <1> QED
    BY <1>1, <1>2, AppendProperties DEF HeldInv

\* What the first elements of a sequence are.
LEMMA FirstElements ==
  ASSUME NEW S, NEW s \in Seq(S), NEW n \in 0 .. Len(s)
  PROVE  /\ SubSeq(s, 1, n) \in Seq(S) /\ Len(SubSeq(s, 1, n)) = n
         /\ \A k \in 1 .. n : SubSeq(s, 1, n)[k] = s[k]
  <1>1. n \in Int /\ 1 \in Int
    OBVIOUS
  <1>2. \A k \in 1 .. n : s[k] \in S
    BY ElementOfSeq, LenProperties
  <1>3. /\ SubSeq(s, 1, n) \in Seq(S)
        /\ Len(SubSeq(s, 1, n)) = IF 1 <= n THEN n - 1 + 1 ELSE 0
        /\ \A k \in 1 .. n - 1 + 1 : SubSeq(s, 1, n)[k] = s[1 + k - 1]
    BY <1>1, <1>2, SubSeqProperties
  <1> QED
    BY <1>3

\* One release run.
LEMMA HeldFront ==
  ASSUME HeldInv, held # <<>>
  PROVE  /\ Front(held) \in Seq(Resources) /\ Len(Front(held)) = Len(held) - 1
         /\ Len(held) \in Nat \ {0}
         /\ \A k \in 1 .. (Len(held) - 1) : Front(held)[k] = held[k]
         /\ Last(held) \in Resources
  <1>1. Len(held) \in Nat \ {0}
    BY EmptySeq, LenProperties DEF HeldInv
  <1>2. Last(held) \in Resources
    BY <1>1, ElementOfSeq DEF HeldInv, Last
  <1>3. /\ SubSeq(held, 1, Len(held) - 1) \in Seq(Resources)
        /\ Len(SubSeq(held, 1, Len(held) - 1)) = Len(held) - 1
        /\ \A k \in 1 .. (Len(held) - 1) : SubSeq(held, 1, Len(held) - 1)[k] = held[k]
    <2>1. Len(held) - 1 \in 0 .. Len(held)
      BY <1>1
    <2> QED
      BY <2>1, FirstElements DEF HeldInv
  <1> QED
    BY <1>1, <1>2, <1>3 DEF Front

-----------------------------------------------------------------------------
(* Types.                                                                  *)

\* A signal that is waiting in the channel has been sent.
TypeInv == TypeOK /\ HeldInv /\ inbox <= signals

\* The initial states are typed.
LEMMA TypeInit == Init => TypeInv
  <1> SUFFICES ASSUME Init PROVE TypeInv
    OBVIOUS
  <1>1. HeldInv
    BY SetupShape DEF Init, HeldInv
  <1>2. IsPrefix(held, setup)
    BY <1>1, SetupShape, AgreeingIsPrefix DEF Init, HeldInv
  <1>3. /\ inbox \in 0 .. MaxSignals /\ inbox <= signals
        /\ signals \in 0 .. MaxSignals /\ faults \in 0 .. MaxFaults
        /\ others \in 0 .. MaxOthers
    BY BoundsAssumption DEF Init
  <1>4. leaked \subseteq Resources /\ handler \subseteq {"task", "collect"}
    BY DEF Init
  <1> QED
    BY <1>1, <1>2, <1>3, <1>4 DEF Init, TypeInv, TypeOK

\* Releases and what was not released.
LEMMA HeldStep ==
  ASSUME TypeInv, [Next]_vars
  PROVE  HeldInv' /\ setup' = setup /\ leaked' \subseteq Resources
  <1> USE DEF TypeInv, TypeOK, mainVars
  <1>1. CASE UNCHANGED <<setup, held, leaked>>
    BY <1>1 DEF HeldInv
  <1>2. CASE Acquire
    BY <1>2, HeldAppend DEF Acquire, HeldInv
  <1>3. CASE AcquireFails
    BY <1>3, HeldAppend DEF AcquireFails, HeldInv
  <1>4. CASE Release \/ ReleaseFails
    <2>1. /\ held # <<>> /\ held' = Front(held) /\ setup' = setup
          /\ leaked' \subseteq leaked \cup {Last(held)}
      BY <1>4 DEF Release, ReleaseFails
    <2>2. HeldInv'
      <3>1. /\ held' \in Seq(Resources) /\ Len(held') = Len(held) - 1
            /\ Len(held) \in Nat \ {0} /\ Len(held) <= Len(setup)
            /\ \A k \in 1 .. (Len(held) - 1) : held'[k] = held[k]
            /\ \A k \in 1 .. Len(held) : held[k] = setup[k]
        BY <2>1, HeldFront DEF HeldInv
      <3>2. Len(setup) \in Nat
        BY SetupShape, LenProperties
      <3> QED
        BY <2>1, <3>1, <3>2 DEF HeldInv
    <2> QED
      BY <2>1, <2>2, HeldFront
  <1>5. CASE SignalKills
    <2>1. UNCHANGED <<setup, held>> /\ leaked' = leaked \cup ToSet(held)
      BY <1>5 DEF SignalKills
    <2>2. ToSet(held) \subseteq Resources
      BY ElementOfSeq, LenProperties DEF HeldInv, ToSet
    <2> QED
      BY <2>1, <2>2 DEF HeldInv
  <1>6. CASE /\ Main \/ Watch \/ ForceKill \/ Forward \/ Failures \/ Around
             /\ ~Acquire /\ ~Release /\ ~AcquireFails /\ ~ReleaseFails /\ ~SignalKills
    BY <1>1, <1>6 DEF Main, Watch, Forward, Failures, Around, Return,
       UsePriorityList, StartTask, TaskStopped, StopTimer, SendStop, Unlock, FoundOK,
       CollectTimesOut, CollectCancelled, LoadTrace, CreateImage, UpdateImage,
       Returned, Register, ReceiveSignal, SignalStopsTimer, Timeout, Unregister,
       KillTask, ForceKill, TakeSignal, ForwardSignal, StartTaskFails,
       PriorityListFails, WaitFails, UnlockFails, PublishFails, KillTaskFails, ForceKillFails, TaskExits, Signal,
       CompleteTrace, OtherClient
  <1>7. CASE UNCHANGED vars
    BY <1>1, <1>7 DEF vars
  <1> QED
    BY <1>2, <1>3, <1>4, <1>5, <1>6, <1>7 DEF Next

\* Every step keeps the types.
LEMMA TypeStep == TypeInv /\ [Next]_vars => TypeInv'
  <1> SUFFICES ASSUME TypeInv, [Next]_vars PROVE TypeInv'
    OBVIOUS
  <1>1. HeldInv' /\ setup' = setup /\ leaked' \subseteq Resources
    BY HeldStep
  <1>2. IsPrefix(held, setup)'
    BY <1>1, SetupShape, AgreeingIsPrefix DEF TypeInv, TypeOK, HeldInv
  <1> DEFINE Rest ==
        /\ main \in {"setup", "wait", "stopTimer", "sendStop", "unlock", "poll",
                     "load", "create", "update", "release", "returned", "killed"}
        /\ failed \in BOOLEAN /\ unwatched \in BOOLEAN
        /\ task \in {"none", "created", "running", "stopped"}
        /\ timer \in {"off", "armed", "expired", "stopped"}
        /\ watch \in {"none", "starting", "select", "signalled", "leaving", "check",
                      "done"}
        /\ forwarder \in {"none", "idle", "sending", "killing", "ended"}
        /\ collector \in {"none", "idle", "sending"}
        /\ inbox \in Nat /\ inbox <= signals
        /\ handler \subseteq {"task", "collect"}
        /\ hangs \in {"none", "asleep", "done"}
        /\ trace \in {"locked", "unlocked", "ok"}
        /\ image \in {"none", "ours", "other"}
        /\ signals \in 0 .. MaxSignals /\ faults \in 0 .. MaxFaults
        /\ others \in 0 .. MaxOthers
  <1>3. Rest
    BY DEF TypeInv, TypeOK
  <1>4. Rest'
    <2> USE <1>3, BoundsAssumption DEF mainVars, watchVars, signalVars, bounds
    <2>1. CASE Main
      <3>1. CASE Acquire
        BY <3>1 DEF Acquire
      <3>2. CASE UsePriorityList
        BY <3>2 DEF UsePriorityList
      <3>3. CASE StartTask
        BY <3>3 DEF StartTask
      <3>4. CASE TaskStopped
        BY <3>4 DEF TaskStopped
      <3>5. CASE StopTimer
        BY <3>5 DEF StopTimer
      <3>6. CASE SendStop
        BY <3>6 DEF SendStop
      <3>7. CASE Unlock
        BY <3>7 DEF Unlock
      <3>8. CASE FoundOK
        BY <3>8 DEF FoundOK, LeaveCollect
      <3>9. CASE CollectTimesOut
        BY <3>9 DEF CollectTimesOut, Return, LeaveCollect
      <3>10. CASE CollectCancelled
        BY <3>10 DEF CollectCancelled, Return, LeaveCollect
      <3>11. CASE LoadTrace
        BY <3>11 DEF LoadTrace
      <3>12. CASE CreateImage
        <4>1. /\ main' \in {"release", "update"} /\ failed' \in BOOLEAN
              /\ image' \in {image, "ours"}
          BY <3>12 DEF CreateImage, Return
        <4>2. UNCHANGED <<task, timer, watchVars, signalVars, hangs, trace, bounds>>
          BY <3>12 DEF CreateImage
        <4> QED
          BY <4>1, <4>2
      <3>13. CASE UpdateImage
        <4>1. /\ main' \in {"release", "create"} /\ failed' \in BOOLEAN
              /\ image' \in {image, "ours"}
          BY <3>13 DEF UpdateImage, Return
        <4>2. UNCHANGED <<task, timer, watchVars, signalVars, hangs, trace, bounds>>
          BY <3>13 DEF UpdateImage
        <4> QED
          BY <4>1, <4>2
      <3>14. CASE Release
        BY <3>14 DEF Release
      <3>15. CASE Returned
        BY <3>15 DEF Returned, EndProcess
      <3> QED
        BY <2>1, <3>1, <3>2, <3>3, <3>4, <3>5, <3>6, <3>7, <3>8, <3>9, <3>10, <3>11,
           <3>12, <3>13, <3>14, <3>15 DEF Main
    <2>2. CASE Watch
      <3>1. CASE Register
        BY <3>1 DEF Register
      <3>2. CASE ReceiveSignal
        BY <3>2 DEF ReceiveSignal
      <3>3. CASE SignalStopsTimer
        BY <3>3 DEF SignalStopsTimer
      <3>4. CASE Timeout
        BY <3>4 DEF Timeout
      <3>5. CASE Unregister
        BY <3>5 DEF Unregister
      <3>6. CASE KillTask
        BY <3>6 DEF KillTask, MayStop
      <3> QED
        BY <2>2, <3>1, <3>2, <3>3, <3>4, <3>5, <3>6 DEF Watch
    <2>3. CASE Forward
      <3>1. CASE TakeSignal
        BY <3>1 DEF TakeSignal
      <3>2. CASE ForwardSignal
        BY <3>2 DEF ForwardSignal, MayStop
      <3> QED
        BY <2>3, <3>1, <3>2 DEF Forward
    <2>4. CASE Failures
      <3>1. CASE AcquireFails
        BY <3>1 DEF AcquireFails, Fault
      <3>2. CASE StartTaskFails
        BY <3>2 DEF StartTaskFails, Fault, Return
      <3>2a. CASE PriorityListFails
        BY <3>2a DEF PriorityListFails, Fault, Return
      <3>3. CASE WaitFails
        BY <3>3 DEF WaitFails, Fault, Return
      <3>4. CASE UnlockFails
        BY <3>4 DEF UnlockFails, Fault, Return
      <3>5. CASE PublishFails
        BY <3>5 DEF PublishFails, Fault, Return
      <3>6. CASE ReleaseFails
        BY <3>6 DEF ReleaseFails, Fault
      <3>7. CASE KillTaskFails
        <4>1. /\ faults < MaxFaults /\ faults' = faults + 1 /\ watch' = "done"
              /\ unwatched' \in BOOLEAN /\ hangs' \in {hangs, "asleep"}
          BY <3>7 DEF KillTaskFails, Fault
        <4>2. UNCHANGED <<mainVars, task, timer, signalVars, trace, image, signals,
                          others>>
          BY <3>7 DEF KillTaskFails, Fault
        <4> QED
          BY <4>1, <4>2
      <3>8. CASE ForceKillFails
        BY <3>8 DEF ForceKillFails, Fault
      <3> QED
        BY <2>4, <3>1, <3>2, <3>2a, <3>3, <3>4, <3>5, <3>6, <3>7, <3>8 DEF Failures
    <2>5. CASE Around
      <3>1. CASE TaskExits
        BY <3>1 DEF TaskExits
      <3>2. CASE Signal
        BY <3>2 DEF Signal
      <3>3. CASE SignalKills
        BY <3>3 DEF SignalKills, EndProcess
      <3>4. CASE CompleteTrace
        BY <3>4 DEF CompleteTrace
      <3>5. CASE OtherClient
        BY <3>5 DEF OtherClient
      <3> QED
        BY <2>5, <3>1, <3>2, <3>3, <3>4, <3>5 DEF Around
    <2>7. CASE ForceKill
      BY <2>7 DEF ForceKill
    <2>6. CASE UNCHANGED vars
      BY <2>6 DEF vars
    <2> QED
      BY <2>1, <2>2, <2>3, <2>4, <2>5, <2>6, <2>7 DEF Next
  <1>5. inbox' \in 0 .. MaxSignals
    BY <1>4, BoundsAssumption
  <1> QED
    BY <1>1, <1>2, <1>4, <1>5 DEF TypeInv, TypeOK

\* TypeInv holds throughout.
LEMMA TypeInvariant == Spec => []TypeInv
  BY TypeInit, TypeStep, PTL DEF Spec

\* Every state of a recording has the types of TypeOK: in particular the deferred
\* releases are always those of the first resources of the setup, in order.
THEOREM RecordTyping == Spec => []TypeOK
  BY TypeInvariant, PTL DEF TypeInv

-----------------------------------------------------------------------------
(* The image has a trace.                                                  *)

Past == {"stopTimer", "sendStop", "unlock", "poll", "load", "create", "update"}

\* What a command that records has reached on its way to the image: the task is
\* there when all resources are, has stopped when main goes on after it, and the
\* trace is complete when main goes on after collectTrace. The image is made by
\* the last step, so nothing touches task or trace after it.
TraceInv ==
    /\ image = "ours" => main \in {"release", "returned", "killed"}
    /\ ~Records => task = "none"
    /\ Records =>
           /\ main = "setup" => task = IF Len(held) = Len(setup) THEN "created"
                                                               ELSE "none"
           /\ main \in Past => task = "stopped"
           /\ main \in {"load", "create", "update"} => trace = "ok"
           /\ image = "ours" => trace = "ok" /\ task = "stopped"

\* Nothing has been acquired, and no image been made.
LEMMA TraceInit == Init => TraceInv
  BY SetupShape DEF Init, TraceInv, Records, Past

\* Every step keeps TraceInv.
LEMMA TraceStep == TypeInv /\ TraceInv /\ [Next]_vars => TraceInv'
  <1> SUFFICES ASSUME TypeInv, TraceInv, [Next]_vars PROVE TraceInv'
    OBVIOUS
  <1>0. /\ setup \in Setups /\ setup' = setup /\ Len(setup) \in Nat \ {0}
        /\ (Records' <=> Records)
    BY HeldStep, SetupShape DEF TypeInv, TypeOK, Records
  <1> USE DEF mainVars, watchVars, signalVars, bounds
  <1>1. CASE UNCHANGED <<main, held, task, trace, image>>
    BY <1>0, <1>1 DEF TraceInv
  <1>2. CASE Acquire
    <2>1. /\ Len(held') = Len(held) + 1 /\ Len(held) < Len(setup) /\ Len(held) \in Nat
          /\ main = "setup" /\ main' = "setup" /\ UNCHANGED <<trace, image>>
          /\ task' = IF setup[Len(held) + 1] = "task" THEN "created" ELSE task
      BY <1>0, <1>2, HeldAppend, LenProperties DEF Acquire, TypeInv, HeldInv
    <2>2. setup[Len(held) + 1] = "task" <=> Records /\ Len(held) + 1 = Len(setup)
      BY <1>0, <2>1, SetupShape DEF Records
    <2> QED
      BY <1>0, <2>1, <2>2 DEF TraceInv, Past
  <1>3. CASE UsePriorityList
    <2>1. ~Records /\ main = "setup" /\ main' = "load" /\ UNCHANGED <<task, image>>
      BY <1>3 DEF UsePriorityList, TraceInv
    <2> QED
      BY <1>0, <2>1 DEF TraceInv
  <1>4. CASE StartTask
    <2>1. Records /\ main = "setup" /\ main' = "wait" /\ UNCHANGED <<trace, image>>
      BY <1>4 DEF StartTask, TraceInv
    <2> QED
      BY <1>0, <2>1 DEF TraceInv, Past
  <1>5. CASE TaskStopped \/ StopTimer \/ SendStop \/ Unlock \/ FoundOK \/ LoadTrace
    BY <1>0, <1>5 DEF TaskStopped, StopTimer, SendStop, Unlock, FoundOK, LoadTrace,
       TraceInv, Past
  <1>6. CASE CreateImage \/ UpdateImage
    BY <1>0, <1>6 DEF CreateImage, UpdateImage, Return, TraceInv, Past
  <1>7. CASE \/ CollectTimesOut \/ CollectCancelled \/ AcquireFails \/ StartTaskFails
             \/ PriorityListFails \/ WaitFails \/ UnlockFails \/ PublishFails \/ Release \/ ReleaseFails
             \/ Returned \/ SignalKills
    <2>1. /\ main' \in {"release", "returned", "killed"}
          /\ UNCHANGED <<task, trace, image>>
      BY <1>7 DEF CollectTimesOut, CollectCancelled, AcquireFails, StartTaskFails,
         PriorityListFails, WaitFails, UnlockFails, PublishFails, Release, ReleaseFails, Returned,
         SignalKills, Return
    <2> QED
      BY <1>0, <2>1 DEF TraceInv, Past
  <1>8. CASE KillTask \/ ForceKill \/ ForwardSignal \/ TaskExits
    <2>1. /\ UNCHANGED <<main, held, trace, image>>
          /\ task' = task \/ (task = "running" /\ task' = "stopped")
      BY <1>8 DEF KillTask, ForceKill, ForwardSignal, TaskExits, MayStop
    <2> QED
      BY <1>0, <2>1 DEF TraceInv, Past
  <1>9. CASE CompleteTrace \/ OtherClient
    BY <1>0, <1>9 DEF CompleteTrace, OtherClient, TraceInv, Past
  <1>10. CASE \/ Register \/ ReceiveSignal \/ SignalStopsTimer \/ Timeout \/ Unregister
              \/ TakeSignal \/ KillTaskFails \/ ForceKillFails \/ Signal
    BY <1>1, <1>10 DEF Register, ReceiveSignal, SignalStopsTimer, Timeout, Unregister,
       TakeSignal, KillTaskFails, ForceKillFails, Signal
  <1>11. CASE UNCHANGED vars
    BY <1>1, <1>11 DEF vars
  <1> QED
    BY <1>2, <1>3, <1>4, <1>5, <1>6, <1>7, <1>8, <1>9, <1>10, <1>11
       DEF Next, Main, Watch, Forward, Failures, Around

\* For any signals, failures and other clients, an image is made of a trace only
\* after its container has stopped and the backing store has completed the trace.
THEOREM ImagesHaveTraces == Spec => []ImageHasTrace
  <1>1. TraceInv => ImageHasTrace
    BY DEF TraceInv, ImageHasTrace, Records
  <1>2. Spec => [](TypeInv /\ TraceInv)
    BY TypeInit, TypeStep, TraceInit, TraceStep, PTL DEF Spec
  <1> QED
    BY <1>1, <1>2, PTL

-----------------------------------------------------------------------------
(* Nothing is left.                                                        *)

Ended == {"release", "returned", "killed"}

\* Nothing is leaked before the releases run. Without a failing call the action
\* returns only with a task that has stopped, so each release succeeds; and one
\* that leaves a task meets its container next, which it cannot delete either.
LeakInv ==
    /\ main \notin Ended => leaked = {}
    /\ main = "returned" => held = <<>>
    /\ faults = 0 /\ main # "killed" => leaked = {}
    /\ faults = 0 /\ main = "release" => task # "running"
    /\ main # "killed" /\ "task" \in leaked =>
           "container" \in leaked \/ \E k \in 1 .. Len(held) : held[k] = "container"

\* Nothing is held, and nothing leaked.
LEMMA LeakInit == Init => LeakInv
  BY DEF Init, LeakInv, Ended

\* A release keeps LeakInv, whether it succeeds or not.
LEMMA ReleaseStep ==
  ASSUME TypeInv, TraceInv, LeakInv, Release \/ ReleaseFails, faults' \in Nat
  PROVE  LeakInv'
  <1>1. /\ main = "release" /\ main' = "release" /\ task' = task /\ held # <<>>
        /\ held' = Front(held) /\ setup \in Setups
        /\ leaked' \in {leaked, leaked \cup {Last(held)}}
        /\ ~Deletable(Last(held)) => Last(held) \in leaked'
    BY DEF Release, ReleaseFails, TypeInv, TypeOK
  <1>2. faults' = 0 => faults = 0 /\ leaked' = leaked
    <2>1. CASE ReleaseFails
      BY <2>1 DEF ReleaseFails, Fault, TypeInv, TypeOK
    <2>2. CASE Release
      BY <2>2 DEF Release, LeakInv, Deletable, bounds
    <2> QED
      BY <2>1, <2>2
  <1>3. /\ Len(held) \in Nat \ {0} /\ Len(held') = Len(held) - 1
        /\ \A k \in 1 .. (Len(held) - 1) : held'[k] = held[k]
        /\ Last(held) = held[Len(held)] /\ Len(held) <= Len(setup)
        /\ \A k \in 1 .. Len(held) : held[k] = setup[k]
    BY <1>1, HeldFront DEF TypeInv, HeldInv, Last
  <1>4. ASSUME "task" \in leaked'
        PROVE  \/ "container" \in leaked'
               \/ \E k \in 1 .. Len(held') : held'[k] = "container"
    <2>1. CASE Last(held) = "task"
      <3>1. Len(held) = Len(setup) /\ Len(setup) > 1
        <4>1. Len(held) \in 1 .. Len(setup) /\ setup[Len(held)] = "task"
          <5>1. Len(setup) \in Nat
            BY <1>1, SetupShape
          <5>2. Len(held) \in 1 .. Len(held) /\ Len(held) \in 1 .. Len(setup)
            BY <1>3, <5>1
          <5> QED
            BY <1>3, <2>1, <5>2
        <4>2. \A k \in 1 .. Len(setup) :
                setup[k] = "task" <=> Len(setup) > 1 /\ k = Len(setup)
          BY <1>1, SetupShape
        <4> QED
          BY <4>1, <4>2
      <3>2. setup[Len(setup) - 1] = "container" /\ Len(held) - 1 \in 1 .. (Len(held) - 1)
        BY <1>1, <1>3, <3>1, SetupShape
      <3> QED
        BY <1>3, <3>1, <3>2
    <2>2. CASE Last(held) # "task"
      <3>1. "task" \in leaked
        BY <1>1, <1>4, <2>2
      <3>2. CASE "container" \in leaked
        BY <1>1, <3>2
      <3>3. CASE Last(held) = "container"
        BY <1>1, <3>1, <3>3 DEF Deletable
      <3>4. CASE "container" \notin leaked /\ Last(held) # "container"
        <4>1. PICK k \in 1 .. Len(held) : held[k] = "container"
          BY <1>1, <3>1, <3>4 DEF LeakInv
        <4>2. k \in 1 .. (Len(held) - 1)
          BY <1>3, <3>4, <4>1
        <4> QED
          BY <1>3, <4>1, <4>2
      <3> QED
        BY <3>2, <3>3, <3>4
    <2> QED
      BY <2>1, <2>2
  <1> QED
    BY <1>1, <1>2, <1>4 DEF LeakInv, Ended

\* Every step keeps LeakInv.
LEMMA LeakStep == TypeInv /\ TraceInv /\ LeakInv /\ [Next]_vars => LeakInv'
  <1> SUFFICES ASSUME TypeInv, TraceInv, LeakInv, [Next]_vars PROVE LeakInv'
    OBVIOUS
  <1>0. faults \in Nat /\ TypeInv'
    BY TypeStep, BoundsAssumption DEF TypeInv, TypeOK
  <1> USE DEF mainVars, watchVars, signalVars, bounds
  <1>1. CASE Release \/ ReleaseFails
    <2>1. faults' \in Nat
      BY <1>0, BoundsAssumption DEF TypeInv, TypeOK
    <2> QED
      BY <1>1, <2>1, ReleaseStep
  <1>2. CASE Acquire \/ UsePriorityList \/ StartTask
    BY <1>2 DEF Acquire, UsePriorityList, StartTask, LeakInv, Ended
  <1>3. CASE \/ TaskStopped \/ StopTimer \/ SendStop \/ Unlock \/ FoundOK \/ LoadTrace
    BY <1>3 DEF TaskStopped, StopTimer, SendStop, Unlock, FoundOK, LoadTrace, LeakInv,
       Ended
  <1>4. CASE CollectTimesOut \/ CollectCancelled
    <2>1. /\ leaked = {} /\ leaked' = {} /\ task' = task /\ task # "running"
          /\ main' = "release"
      BY <1>4 DEF CollectTimesOut, CollectCancelled, Return, LeakInv, TraceInv, Past, Ended
    <2> QED
      BY <2>1 DEF LeakInv, Ended
  <1>5. CASE CreateImage \/ UpdateImage
    <2>1. /\ leaked = {} /\ leaked' = {} /\ task' = task /\ task # "running"
          /\ main' \in {"release", "create", "update"}
      BY <1>5 DEF CreateImage, UpdateImage, Return, LeakInv, TraceInv, Past, Ended
    <2> QED
      BY <2>1 DEF LeakInv, Ended
  <1>6. CASE AcquireFails \/ PriorityListFails \/ StartTaskFails \/ WaitFails \/ UnlockFails \/ PublishFails
    <2>1. leaked = {} /\ leaked' = {} /\ main' = "release" /\ faults' = faults + 1
      BY <1>6 DEF AcquireFails, PriorityListFails, StartTaskFails, WaitFails, UnlockFails, PublishFails,
         Return, Fault, LeakInv, Ended
    <2> QED
      BY <1>0, <2>1 DEF LeakInv, Ended
  <1>7. CASE Returned
    BY <1>7 DEF Returned, LeakInv, Ended
  <1>8. CASE SignalKills
    BY <1>8 DEF SignalKills, LeakInv, Ended
  <1>9. CASE \/ KillTask \/ ForceKill \/ ForwardSignal \/ TaskExits \/ CompleteTrace
             \/ OtherClient \/ Register \/ ReceiveSignal \/ SignalStopsTimer \/ Timeout
             \/ Unregister \/ TakeSignal \/ Signal \/ UNCHANGED vars
    <2>1. /\ UNCHANGED <<main, held, leaked, faults>>
          /\ task' = task \/ task' = "stopped"
      BY <1>9 DEF KillTask, ForceKill, ForwardSignal, TaskExits, CompleteTrace,
         OtherClient, Register, ReceiveSignal, SignalStopsTimer, Timeout, Unregister,
         TakeSignal, Signal, MayStop, vars
    <2> QED
      BY <2>1 DEF LeakInv, Ended
  <1>10. CASE KillTaskFails \/ ForceKillFails
    <2>1. UNCHANGED <<main, held, leaked>> /\ faults' = faults + 1
      BY <1>10 DEF KillTaskFails, ForceKillFails, Fault
    <2> QED
      BY <1>0, <2>1 DEF LeakInv, Ended
  <1> QED
    BY <1>1, <1>2, <1>3, <1>4, <1>5, <1>6, <1>7, <1>8, <1>9, <1>10
       DEF Next, Main, Watch, Forward, Failures, Around

\* However the task ends and whatever signals come, a command that returns has
\* released all that it acquired unless a call failed, and then never leaves a
\* task without its container.
THEOREM ResourcesAreReleased == Spec => []NothingLeft
  <1>1. LeakInv => NothingLeft
    <2> SUFFICES ASSUME LeakInv, main = "returned"
                 PROVE  /\ faults = 0 => leaked = {}
                        /\ "task" \in leaked => "container" \in leaked
      BY DEF NothingLeft
    <2>1. held = <<>> /\ 1 .. Len(held) = {}
      BY DEF LeakInv
    <2> QED
      BY <2>1 DEF LeakInv
  <1>2. Spec => [](TypeInv /\ TraceInv /\ LeakInv)
    BY TypeInit, TypeStep, TraceInit, TraceStep, LeakInit, LeakStep, PTL DEF Spec
  <1> QED
    BY <1>1, <1>2, PTL
=============================================================================
