-------------------------- MODULE LanServerProofs --------------------------
(***************************************************************************)
(* Theorems about LanServer, for every set of states, every sequence-number *)
(* bound and every pair of timeouts.  Each induction splits a step by the   *)
(* thread that takes it.                                                   *)
(***************************************************************************)
EXTENDS LanServer, TLAPS

USE LanServerAssumption
    DEF sessionVars, targetVars, transportVars, timeVars, threadVars,
        Terminal, Sockets, IoThreads, ApiLabels, WorkerLabels, IoLabels

(* Every variable keeps its type: in particular times stay within their     *)
(* timeouts and the sequence numbers within their bound.                    *)
THEOREM TypeCorrect == Spec => []TypeOK
<1>1. Init => TypeOK
  <2> SUFFICES ASSUME Init PROVE TypeOK
    OBVIOUS
  <2>1. SessionTypeOK BY DEF Init, SessionTypeOK
  <2>2. CounterTypeOK BY DEF Init, CounterTypeOK
  <2>3. TransportTypeOK BY DEF Init, TransportTypeOK
  <2>4. ThreadTypeOK BY DEF Init, ThreadTypeOK
  <2> QED BY <2>1, <2>2, <2>3, <2>4 DEF TypeOK
<1>2. TypeOK /\ [Next]_vars => TypeOK'
  <2> SUFFICES ASSUME SessionTypeOK, CounterTypeOK, TransportTypeOK, ThreadTypeOK,
                      [Next]_vars
               PROVE  TypeOK'
    BY DEF TypeOK
  <2>1. CASE CallerStep \/ ApiStep
    <3> USE <2>1 DEF CallerStep, ApiStep, StartCheck, StartCreate, StartRun, StartLaunch,
               StopBegin, StopNotify, StopFlag, StopClose, StopJoin, StopJoinWorker,
               StopDestroy, Delete, Join, Over, CloseSockets, Woken,
               ReleaseIf, Neutralize, SubmitNeutral, KeepOutput
    <3>1. SessionTypeOK'
      BY DEF SessionTypeOK, CounterTypeOK
    <3>2. CounterTypeOK'
      BY DEF SessionTypeOK, CounterTypeOK
    <3>3. TransportTypeOK'
      BY DEF TransportTypeOK
    <3>4. ThreadTypeOK'
      BY DEF ThreadTypeOK
    <3> QED BY <3>1, <3>2, <3>3, <3>4 DEF TypeOK
  <2>2. CASE StartUpStep
    <3> USE <2>2 DEF StartUpStep, Enter, Bind, Accept, Accepted, Ack, AckSent, Publish,
               LaunchControl, Abort, CreateControl, CreateInput,
               StartUpUnchanged, CloseSockets, Goto
    <3>1. SessionTypeOK'
      BY DEF SessionTypeOK, CounterTypeOK
    <3>2. CounterTypeOK'
      BY DEF SessionTypeOK, CounterTypeOK
    <3>3. TransportTypeOK'
      BY DEF TransportTypeOK
    <3>4. ThreadTypeOK'
      BY DEF ThreadTypeOK
    <3> QED BY <3>1, <3>2, <3>3, <3>4 DEF TypeOK
  <2>3. CASE WatchStep \/ SpuriousWakeUp
    <3> USE <2>3 DEF WatchStep, StartFailed, Decide, DeadlinePasses, TimedOut,
               SpuriousWakeUp, Remaining, Woken,
               ReleaseIf, Neutralize, SubmitNeutral, KeepOutput
    <3>1. SessionTypeOK'
      BY DEF SessionTypeOK, CounterTypeOK
    <3>2. CounterTypeOK'
      BY DEF SessionTypeOK, CounterTypeOK
    <3>3. TransportTypeOK'
      BY DEF TransportTypeOK
    <3>4. ThreadTypeOK'
      BY DEF ThreadTypeOK
    <3> QED BY <3>1, <3>2, <3>3, <3>4 DEF TypeOK
  <2>4. CASE ControlHead \/ ControlRecv
    <3> USE <2>4 DEF ControlHead, ControlRecv, IoUnchanged, Goto, Signal, AgeAfterPoll
    <3>1. SessionTypeOK'
      BY DEF SessionTypeOK, CounterTypeOK
    <3>2. CounterTypeOK'
      BY DEF SessionTypeOK, CounterTypeOK
    <3>3. TransportTypeOK'
      BY DEF TransportTypeOK
    <3>4. ThreadTypeOK'
      BY DEF ThreadTypeOK
    <3> QED BY <3>1, <3>2, <3>3, <3>4 DEF TypeOK
  <2>5. CASE InputHead \/ InputRecv \/ OnState
    <3> USE <2>5 DEF InputHead, InputRecv, OnState, IoUnchanged, Goto, Signal, Seqs,
               Refused, Woken,
               ReleaseIf, Neutralize, SubmitNeutral, KeepOutput
    <3>1. SessionTypeOK'
      BY DEF SessionTypeOK, CounterTypeOK
    <3>2. CounterTypeOK'
      BY DEF SessionTypeOK, CounterTypeOK
    <3>3. TransportTypeOK'
      BY DEF TransportTypeOK
    <3>4. ThreadTypeOK'
      BY DEF ThreadTypeOK
    <3> QED BY <3>1, <3>2, <3>3, <3>4 DEF TypeOK
  <2>6. CASE \E t \in IoThreads : Disconnecting(t)
    <3> USE <2>6 DEF Disconnecting, Disconnect, OnTransportDisconnected,
               DisconnectNotify, IoUnchanged, Goto, Woken,
               ReleaseIf, Neutralize, SubmitNeutral, KeepOutput
    <3>1. SessionTypeOK'
      BY DEF SessionTypeOK, CounterTypeOK
    <3>2. CounterTypeOK'
      BY DEF SessionTypeOK, CounterTypeOK
    <3>3. TransportTypeOK'
      BY DEF TransportTypeOK
    <3>4. ThreadTypeOK'
      BY DEF ThreadTypeOK
    <3> QED BY <3>1, <3>2, <3>3, <3>4 DEF TypeOK
  <2>7. CASE Tick \/ FallSilent \/ Deleted \/ UNCHANGED vars
    <3> USE <2>7 DEF Tick, FallSilent, Deleted, vars
    <3>1. SessionTypeOK'
      BY DEF SessionTypeOK, CounterTypeOK
    <3>2. CounterTypeOK'
      BY DEF SessionTypeOK, CounterTypeOK
    <3>3. TransportTypeOK'
      BY DEF TransportTypeOK
    <3>4. ThreadTypeOK'
      BY DEF ThreadTypeOK
    <3> QED BY <3>1, <3>2, <3>3, <3>4 DEF TypeOK
  <2> QED
    BY <2>1, <2>2, <2>3, <2>4, <2>5, <2>6, <2>7
    DEF Next, WorkerStep, ControlStep, InputStep
<1> QED BY <1>1, <1>2, PTL DEF Spec

-----------------------------------------------------------------------------
\* The steps that may change the session or what the pad shows.
OutputStep == \/ StartCreate \/ StartRun \/ StopBegin \/ StopDestroy
              \/ StartFailed \/ TimedOut \/ OnState
              \/ \E t \in IoThreads : OnTransportDisconnected(t)

(* Every other step of the API thread, the worker and the transport leaves  *)
(* the session and its pad as they are: only the eight handlers above reach *)
(* LanControllerServer's members or the virtual controller.                 *)
LEMMA OtherStepsKeepOutput ==
  ASSUME [Next]_vars, ~OutputStep
  PROVE  UNCHANGED <<sessionVars, targetVars>>
<1>1. CASE CallerStep \/ ApiStep
  BY <1>1 DEF OutputStep, CallerStep, ApiStep, StartCheck, StartLaunch, StopNotify,
              StopFlag, StopClose, StopJoin, Join, Over, StopJoinWorker, Delete
<1>2. CASE WorkerStep \/ SpuriousWakeUp
  BY <1>2 DEF OutputStep, WorkerStep, StartUpStep, WatchStep, Enter, Bind, Accept,
              Accepted, Ack, AckSent, Publish, LaunchControl, Abort, CreateControl,
              CreateInput, StartUpUnchanged, Decide, DeadlinePasses, SpuriousWakeUp
<1>3. CASE ControlStep \/ InputStep
  BY <1>3 DEF OutputStep, ControlStep, InputStep, ControlHead, ControlRecv, InputHead,
              InputRecv, Disconnecting, Disconnect, DisconnectNotify, IoUnchanged
<1>4. CASE Tick \/ FallSilent \/ Deleted \/ UNCHANGED vars
  BY <1>4 DEF Tick, FallSilent, Deleted, vars
<1> QED BY <1>1, <1>2, <1>3, <1>4 DEF Next

CreatingIsCreated == api \in {"create", "run"} => state = "Created"

(* Start creates the pad and sets Running for a session that has not begun:  *)
(* no handler can have ended it, since no thread of it exists yet.          *)
LEMMA CreatingInvariant == Spec => []CreatingIsCreated
<1>1. Init => CreatingIsCreated
  BY DEF Init, CreatingIsCreated
<1>2. CreatingIsCreated /\ [Next]_vars => CreatingIsCreated'
  <2> SUFFICES ASSUME CreatingIsCreated, [Next]_vars PROVE CreatingIsCreated'
    OBVIOUS
  <2>1. CASE CallerStep \/ ApiStep
    <3> USE <2>1 DEF CallerStep, ApiStep, StartCheck, StartCreate, StartRun, StartLaunch,
               StopBegin, StopNotify, StopFlag, StopClose, StopJoin, StopJoinWorker,
               StopDestroy, Delete, Join, Over, CloseSockets, Woken,
               ReleaseIf, Neutralize, SubmitNeutral, KeepOutput
    <3> QED BY DEF CreatingIsCreated
  <2>2. CASE StartUpStep
    <3> USE <2>2 DEF StartUpStep, Enter, Bind, Accept, Accepted, Ack, AckSent, Publish,
               LaunchControl, Abort, CreateControl, CreateInput,
               StartUpUnchanged, CloseSockets, Goto
    <3> QED BY DEF CreatingIsCreated
  <2>3. CASE WatchStep \/ SpuriousWakeUp
    <3> USE <2>3 DEF WatchStep, StartFailed, Decide, DeadlinePasses, TimedOut,
               SpuriousWakeUp, Remaining, Woken,
               ReleaseIf, Neutralize, SubmitNeutral, KeepOutput
    <3> QED BY DEF CreatingIsCreated
  <2>4. CASE ControlHead \/ ControlRecv
    <3> USE <2>4 DEF ControlHead, ControlRecv, IoUnchanged, Goto, Signal, AgeAfterPoll
    <3> QED BY DEF CreatingIsCreated
  <2>5. CASE InputHead \/ InputRecv \/ OnState
    <3> USE <2>5 DEF InputHead, InputRecv, OnState, IoUnchanged, Goto, Signal, Seqs,
               Refused, Woken,
               ReleaseIf, Neutralize, SubmitNeutral, KeepOutput
    <3> QED BY DEF CreatingIsCreated
  <2>6. CASE \E t \in IoThreads : Disconnecting(t)
    <3> USE <2>6 DEF Disconnecting, Disconnect, OnTransportDisconnected,
               DisconnectNotify, IoUnchanged, Goto, Woken,
               ReleaseIf, Neutralize, SubmitNeutral, KeepOutput
    <3> QED BY DEF CreatingIsCreated
  <2>7. CASE Tick \/ FallSilent \/ Deleted \/ UNCHANGED vars
    <3> USE <2>7 DEF Tick, FallSilent, Deleted, vars
    <3> QED BY DEF CreatingIsCreated
  <2> QED
    BY <2>1, <2>2, <2>3, <2>4, <2>5, <2>6, <2>7
    DEF Next, WorkerStep, ControlStep, InputStep
<1> QED BY <1>1, <1>2, PTL DEF Spec

\* What HeldOnlyWhileArmed and SnapshotShowsPad need to be inductive: a
\* session that does not run is disarmed and shows neutral.
EndedIsNeutral == state # "Running" => ~armed /\ cur = Neutral

OutputInv == HeldOnlyWhileArmed /\ SnapshotShowsPad /\ EndedIsNeutral

(* NeutralizeLocked is called on every path out of Running, so the session   *)
(* that has ended is disarmed and neutral, and the two output properties    *)
(* hold of every reachable state.                                          *)
LEMMA OutputInvariant == Spec => []OutputInv
<1>1. Init => OutputInv
  BY DEF Init, OutputInv, HeldOnlyWhileArmed, SnapshotShowsPad, EndedIsNeutral
<1>2. CreatingIsCreated /\ OutputInv /\ [Next]_vars => OutputInv'
  <2> SUFFICES ASSUME CreatingIsCreated, OutputInv, [Next]_vars PROVE OutputInv'
    OBVIOUS
  <2> USE DEF OutputInv, HeldOnlyWhileArmed, SnapshotShowsPad, EndedIsNeutral
  <2>1. CASE StartCreate
    BY <2>1 DEF StartCreate, CreatingIsCreated
  <2>2. CASE StartRun
    BY <2>2 DEF StartRun, CreatingIsCreated
  <2>3. CASE StopBegin
    BY <2>3 DEF StopBegin, ReleaseIf, Neutralize, SubmitNeutral, KeepOutput
  <2>4. CASE StopDestroy
    BY <2>4 DEF StopDestroy
  <2>5. CASE StartFailed
    BY <2>5 DEF StartFailed, ReleaseIf, Neutralize, SubmitNeutral, KeepOutput
  <2>6. CASE TimedOut
    BY <2>6 DEF TimedOut, ReleaseIf, Neutralize, SubmitNeutral, KeepOutput
  <2>7. CASE OnState
    BY <2>7 DEF OnState, Refused, ReleaseIf, Neutralize, SubmitNeutral, KeepOutput
  <2>8. ASSUME NEW t \in IoThreads, OnTransportDisconnected(t) PROVE OutputInv'
    BY <2>8 DEF OnTransportDisconnected, ReleaseIf, Neutralize, SubmitNeutral, KeepOutput
  <2>9. CASE ~OutputStep
    BY <2>9, OtherStepsKeepOutput
  <2> QED
    BY <2>1, <2>2, <2>3, <2>4, <2>5, <2>6, <2>7, <2>8, <2>9 DEF OutputStep
<1> QED BY <1>1, <1>2, CreatingInvariant, PTL DEF Spec

(* No stuck button, and the UI is shown what the game sees: with a driver   *)
(* that accepts submissions, input is on the pad only while the session     *)
(* runs with its watchdog armed, whichever of Stop, watchdog, disconnect,   *)
(* driver fault and failed start came before, in any order.                 *)
THEOREM NoStuckInput == Spec => [](HeldOnlyWhileArmed /\ SnapshotShowsPad)
<1>1. OutputInv => HeldOnlyWhileArmed /\ SnapshotShowsPad
  BY DEF OutputInv
<1> QED BY <1>1, OutputInvariant, PTL

(* Neutral submissions are not repeated: at most one per accepted input and *)
(* one for the end of the session.                                         *)
THEOREM ReleaseBudget == Spec => []OneReleasePerSilence
<1>1. Init => OneReleasePerSilence
  BY DEF Init, OneReleasePerSilence
<1>2. /\ TypeOK /\ CreatingIsCreated /\ EndedIsNeutral /\ OneReleasePerSilence
      /\ [Next]_vars
      => OneReleasePerSilence'
  <2> SUFFICES ASSUME SessionTypeOK, CounterTypeOK, CreatingIsCreated,
                      EndedIsNeutral, OneReleasePerSilence, [Next]_vars
               PROVE  OneReleasePerSilence'
    BY DEF TypeOK
  <2> USE DEF SessionTypeOK, CounterTypeOK, EndedIsNeutral, OneReleasePerSilence
  <2>1. CASE StartCreate
    BY <2>1 DEF StartCreate
  <2>2. CASE StartRun
    BY <2>2 DEF StartRun, CreatingIsCreated
  <2>3. CASE StopBegin
    BY <2>3 DEF StopBegin, ReleaseIf, Neutralize, SubmitNeutral, KeepOutput
  <2>4. CASE StopDestroy
    BY <2>4 DEF StopDestroy
  <2>5. CASE StartFailed
    BY <2>5 DEF StartFailed, ReleaseIf, Neutralize, SubmitNeutral, KeepOutput
  <2>6. CASE TimedOut
    BY <2>6 DEF TimedOut, ReleaseIf, Neutralize, SubmitNeutral, KeepOutput
  <2>7. CASE OnState
    BY <2>7 DEF OnState, Refused, ReleaseIf, Neutralize, SubmitNeutral, KeepOutput
  <2>8. ASSUME NEW t \in IoThreads, OnTransportDisconnected(t) PROVE OneReleasePerSilence'
    BY <2>8 DEF OnTransportDisconnected, ReleaseIf, Neutralize, SubmitNeutral, KeepOutput
  <2>9. CASE ~OutputStep
    BY <2>9, OtherStepsKeepOutput
  <2> QED
    BY <2>1, <2>2, <2>3, <2>4, <2>5, <2>6, <2>7, <2>8, <2>9 DEF OutputStep
<1>3. OutputInv => EndedIsNeutral
  BY DEF OutputInv
<1> QED BY <1>1, <1>2, <1>3, TypeCorrect, CreatingInvariant, OutputInvariant, PTL DEF Spec

(* What has ended stays ended: no handler that was under way revives the    *)
(* session or puts input on its pad.                                        *)
THEOREM EndIsFinal == Spec => NoResurrection
<1>1. CreatingIsCreated /\ [Next]_vars
      => [(state \in Terminal) =>
            /\ state' \in {state, "Stopped"}
            /\ pad' \in {pad, Neutral, Absent}]_vars
  <2> SUFFICES ASSUME CreatingIsCreated, [Next]_vars, state \in Terminal
               PROVE  /\ state' \in {state, "Stopped"}
                      /\ pad' \in {pad, Neutral, Absent}
    OBVIOUS
  <2>1. CASE StartCreate
    BY <2>1 DEF StartCreate, CreatingIsCreated
  <2>2. CASE StartRun
    BY <2>2 DEF StartRun, CreatingIsCreated
  <2>3. CASE StopBegin
    BY <2>3 DEF StopBegin, ReleaseIf, Neutralize, SubmitNeutral, KeepOutput
  <2>4. CASE StopDestroy
    BY <2>4 DEF StopDestroy
  <2>5. CASE StartFailed
    BY <2>5 DEF StartFailed, ReleaseIf, Neutralize, SubmitNeutral, KeepOutput
  <2>6. CASE TimedOut
    BY <2>6 DEF TimedOut, ReleaseIf, Neutralize, SubmitNeutral, KeepOutput
  <2>7. CASE OnState
    BY <2>7 DEF OnState, Refused, ReleaseIf, Neutralize, SubmitNeutral, KeepOutput
  <2>8. ASSUME NEW t \in IoThreads, OnTransportDisconnected(t) 
      PROVE  /\ state' \in {state, "Stopped"}
             /\ pad' \in {pad, Neutral, Absent}
    BY <2>8 DEF OnTransportDisconnected, ReleaseIf, Neutralize, SubmitNeutral, KeepOutput
  <2>9. CASE ~OutputStep
    BY <2>9, OtherStepsKeepOutput
  <2> QED
    BY <2>1, <2>2, <2>3, <2>4, <2>5, <2>6, <2>7, <2>8, <2>9 DEF OutputStep
<1> QED BY <1>1, CreatingInvariant, PTL DEF Spec, NoResurrection

(* The watchdog never sleeps through what it has to do: while it waits      *)
(* without a deadline the session runs disarmed, or the thread that changed *)
(* that has its notify_all() still ahead of it.                             *)
THEOREM WakeUpsArrive == Spec => []NoLostWakeUp
<1>1. Init => NoLostWakeUp
  BY DEF Init, NoLostWakeUp
<1>2. TypeOK /\ CreatingIsCreated /\ NoLostWakeUp /\ [Next]_vars => NoLostWakeUp'
  <2> SUFFICES ASSUME ThreadTypeOK, CreatingIsCreated, NoLostWakeUp, [Next]_vars
               PROVE  NoLostWakeUp'
    BY DEF TypeOK
  <2> USE DEF ThreadTypeOK, CreatingIsCreated, NoLostWakeUp
  <2>1. CASE CallerStep \/ ApiStep
    <3> USE <2>1 DEF CallerStep, ApiStep, StartCheck, StartCreate, StartRun, StartLaunch,
               StopBegin, StopNotify, StopFlag, StopClose, StopJoin, StopJoinWorker,
               StopDestroy, Delete, Join, Over, CloseSockets, Woken,
               ReleaseIf, Neutralize, SubmitNeutral, KeepOutput
    <3> QED OBVIOUS
  <2>2. CASE StartUpStep
    <3> USE <2>2 DEF StartUpStep, Enter, Bind, Accept, Accepted, Ack, AckSent, Publish,
               LaunchControl, Abort, CreateControl, CreateInput,
               StartUpUnchanged, CloseSockets, Goto
    <3> QED OBVIOUS
  <2>3. CASE WatchStep \/ SpuriousWakeUp
    <3> USE <2>3 DEF WatchStep, StartFailed, Decide, DeadlinePasses, TimedOut,
               SpuriousWakeUp, Remaining, Woken,
               ReleaseIf, Neutralize, SubmitNeutral, KeepOutput
    <3> QED OBVIOUS
  <2>4. CASE ControlHead \/ ControlRecv
    <3> USE <2>4 DEF ControlHead, ControlRecv, IoUnchanged, Goto, Signal, AgeAfterPoll
    <3> QED OBVIOUS
  <2>5. CASE InputHead \/ InputRecv \/ OnState
    <3> USE <2>5 DEF InputHead, InputRecv, OnState, IoUnchanged, Goto, Signal, Seqs,
               Refused, Woken,
               ReleaseIf, Neutralize, SubmitNeutral, KeepOutput
    <3> QED OBVIOUS
  <2>6. CASE \E t \in IoThreads : Disconnecting(t)
    <3> USE <2>6 DEF Disconnecting, Disconnect, OnTransportDisconnected,
               DisconnectNotify, IoUnchanged, Goto, Woken,
               ReleaseIf, Neutralize, SubmitNeutral, KeepOutput
    <3> QED OBVIOUS
  <2>7. CASE Tick \/ FallSilent \/ Deleted \/ UNCHANGED vars
    <3> USE <2>7 DEF Tick, FallSilent, Deleted, vars
    <3> QED OBVIOUS
  <2> QED
    BY <2>1, <2>2, <2>3, <2>4, <2>5, <2>6, <2>7
    DEF Next, WorkerStep, ControlStep, InputStep
<1> QED BY <1>1, <1>2, TypeCorrect, CreatingInvariant, PTL DEF Spec

-----------------------------------------------------------------------------
\* When the target is plugged in: a running session has one, a session that
\* was not started has none, and Stop takes it away only after the end.
TargetFollowsSession ==
  /\ state = "Running" \/ api = "run" => pad # Absent
  /\ state = "Created" /\ api # "run" => pad = Absent /\ padOk = TRUE
StoppingIsStopped ==
  api \in {"notify", "flag", "close", "joinControl", "joinInput", "joinWorker",
           "destroy"} => state = "Stopped"

(* While Stop is past its first critical section the session is Stopped: no  *)
(* other handler overwrites that state.                                     *)
LEMMA StoppingInvariant == Spec => []StoppingIsStopped
<1>1. Init => StoppingIsStopped
  BY DEF Init, StoppingIsStopped
<1>2. CreatingIsCreated /\ StoppingIsStopped /\ [Next]_vars => StoppingIsStopped'
  <2> SUFFICES ASSUME CreatingIsCreated, StoppingIsStopped, [Next]_vars
               PROVE  StoppingIsStopped'
    OBVIOUS
  <2> USE DEF CreatingIsCreated, StoppingIsStopped
  <2>1. CASE CallerStep \/ ApiStep
    <3> USE <2>1 DEF CallerStep, ApiStep, StartCheck, StartCreate, StartRun, StartLaunch,
               StopBegin, StopNotify, StopFlag, StopClose, StopJoin, StopJoinWorker,
               StopDestroy, Delete, Join, Over, CloseSockets, Woken,
               ReleaseIf, Neutralize, SubmitNeutral, KeepOutput
    <3> QED OBVIOUS
  <2>2. CASE StartUpStep
    <3> USE <2>2 DEF StartUpStep, Enter, Bind, Accept, Accepted, Ack, AckSent, Publish,
               LaunchControl, Abort, CreateControl, CreateInput,
               StartUpUnchanged, CloseSockets, Goto
    <3> QED OBVIOUS
  <2>3. CASE WatchStep \/ SpuriousWakeUp
    <3> USE <2>3 DEF WatchStep, StartFailed, Decide, DeadlinePasses, TimedOut,
               SpuriousWakeUp, Remaining, Woken,
               ReleaseIf, Neutralize, SubmitNeutral, KeepOutput
    <3> QED OBVIOUS
  <2>4. CASE ControlHead \/ ControlRecv
    <3> USE <2>4 DEF ControlHead, ControlRecv, IoUnchanged, Goto, Signal, AgeAfterPoll
    <3> QED OBVIOUS
  <2>5. CASE InputHead \/ InputRecv \/ OnState
    <3> USE <2>5 DEF InputHead, InputRecv, OnState, IoUnchanged, Goto, Signal, Seqs,
               Refused, Woken,
               ReleaseIf, Neutralize, SubmitNeutral, KeepOutput
    <3> QED OBVIOUS
  <2>6. CASE \E t \in IoThreads : Disconnecting(t)
    <3> USE <2>6 DEF Disconnecting, Disconnect, OnTransportDisconnected,
               DisconnectNotify, IoUnchanged, Goto, Woken,
               ReleaseIf, Neutralize, SubmitNeutral, KeepOutput
    <3> QED OBVIOUS
  <2>7. CASE Tick \/ FallSilent \/ Deleted \/ UNCHANGED vars
    <3> USE <2>7 DEF Tick, FallSilent, Deleted, vars
    <3> QED OBVIOUS
  <2> QED
    BY <2>1, <2>2, <2>3, <2>4, <2>5, <2>6, <2>7
    DEF Next, WorkerStep, ControlStep, InputStep
<1> QED BY <1>1, <1>2, CreatingInvariant, PTL DEF Spec

(* The ViGEm target exists exactly as long as the refinement needs it: while *)
(* the session runs, never before Start created it.                         *)
LEMMA TargetInvariant == Spec => []TargetFollowsSession
<1>1. Init => TargetFollowsSession
  BY DEF Init, TargetFollowsSession
<1>2. /\ TypeOK /\ CreatingIsCreated /\ StoppingIsStopped /\ TargetFollowsSession
      /\ [Next]_vars
      => TargetFollowsSession'
  <2> SUFFICES ASSUME CounterTypeOK, CreatingIsCreated, StoppingIsStopped,
                      TargetFollowsSession, [Next]_vars
               PROVE  TargetFollowsSession'
    BY DEF TypeOK
  <2> USE DEF CounterTypeOK, CreatingIsCreated, StoppingIsStopped, TargetFollowsSession
  <2>1. CASE CallerStep \/ ApiStep
    <3> USE <2>1 DEF CallerStep, ApiStep, StartCheck, StartCreate, StartRun, StartLaunch,
               StopBegin, StopNotify, StopFlag, StopClose, StopJoin, StopJoinWorker,
               StopDestroy, Delete, Join, Over, CloseSockets, Woken,
               ReleaseIf, Neutralize, SubmitNeutral, KeepOutput
    <3> QED OBVIOUS
  <2>2. CASE StartUpStep
    <3> USE <2>2 DEF StartUpStep, Enter, Bind, Accept, Accepted, Ack, AckSent, Publish,
               LaunchControl, Abort, CreateControl, CreateInput,
               StartUpUnchanged, CloseSockets, Goto
    <3> QED OBVIOUS
  <2>3. CASE WatchStep \/ SpuriousWakeUp
    <3> USE <2>3 DEF WatchStep, StartFailed, Decide, DeadlinePasses, TimedOut,
               SpuriousWakeUp, Remaining, Woken,
               ReleaseIf, Neutralize, SubmitNeutral, KeepOutput
    <3> QED OBVIOUS
  <2>4. CASE ControlHead \/ ControlRecv
    <3> USE <2>4 DEF ControlHead, ControlRecv, IoUnchanged, Goto, Signal, AgeAfterPoll
    <3> QED OBVIOUS
  <2>5. CASE InputHead \/ InputRecv \/ OnState
    <3> USE <2>5 DEF InputHead, InputRecv, OnState, IoUnchanged, Goto, Signal, Seqs,
               Refused, Woken,
               ReleaseIf, Neutralize, SubmitNeutral, KeepOutput
    <3> QED OBVIOUS
  <2>6. CASE \E t \in IoThreads : Disconnecting(t)
    <3> USE <2>6 DEF Disconnecting, Disconnect, OnTransportDisconnected,
               DisconnectNotify, IoUnchanged, Goto, Woken,
               ReleaseIf, Neutralize, SubmitNeutral, KeepOutput
    <3> QED OBVIOUS
  <2>7. CASE Tick \/ FallSilent \/ Deleted \/ UNCHANGED vars
    <3> USE <2>7 DEF Tick, FallSilent, Deleted, vars
    <3> QED OBVIOUS
  <2> QED
    BY <2>1, <2>2, <2>3, <2>4, <2>5, <2>6, <2>7
    DEF Next, WorkerStep, ControlStep, InputStep
<1> QED
  BY <1>1, <1>2, TypeCorrect, CreatingInvariant, StoppingInvariant, PTL DEF Spec

(* The virtual pad implements PadOutput: it is plugged in once, shows input  *)
(* only while the session is live, is released by the very step that ends   *)
(* the session, and is only ever unplugged after that.                      *)
THEOREM PadIsSafe == Spec => ImplementsPadOutput
<1>1. Init => Output!PadInit
  BY DEF Init, Output!PadInit, PadMode
<1>2. /\ TypeOK /\ CreatingIsCreated /\ StoppingIsStopped /\ TargetFollowsSession
      /\ [Next]_vars
      => [Output!PadNext]_(Output!padVars)
  <2> SUFFICES ASSUME SessionTypeOK, CounterTypeOK, CreatingIsCreated,
                      StoppingIsStopped, TargetFollowsSession, [Next]_vars
               PROVE  [Output!PadNext]_(Output!padVars)
    BY DEF TypeOK
  <2> USE DEF SessionTypeOK, CreatingIsCreated, TargetFollowsSession, PadMode,
              Output!PadNext, Output!padVars
  <2>1. CASE StartCreate
    BY <2>1 DEF StartCreate, Output!Plug, Output!Abandon
  <2>2. CASE StartRun
    BY <2>2 DEF StartRun
  <2>3. CASE StopBegin
    BY <2>3 DEF StopBegin, ReleaseIf, Neutralize, SubmitNeutral, KeepOutput,
                Output!Abandon, Output!End
  <2>4. CASE StopDestroy
    BY <2>4 DEF StopDestroy, StoppingIsStopped, Output!Unplug
  <2>5. CASE StartFailed
    BY <2>5 DEF StartFailed, ReleaseIf, Neutralize, SubmitNeutral, KeepOutput,
                Output!End
  <2>6. CASE TimedOut
    BY <2>6 DEF TimedOut, ReleaseIf, Neutralize, SubmitNeutral, KeepOutput,
                Output!Show
  <2>7. CASE OnState
    BY <2>7 DEF OnState, CounterTypeOK, Refused, ReleaseIf, Neutralize,
                SubmitNeutral, KeepOutput, Output!Show, Output!End
  <2>8. ASSUME NEW t \in IoThreads, OnTransportDisconnected(t)
        PROVE  [Output!PadNext]_(Output!padVars)
    BY <2>8 DEF OnTransportDisconnected, ReleaseIf, Neutralize, SubmitNeutral,
                KeepOutput, Output!End
  <2>9. CASE ~OutputStep
    BY <2>9, OtherStepsKeepOutput
  <2> QED
    BY <2>1, <2>2, <2>3, <2>4, <2>5, <2>6, <2>7, <2>8, <2>9 DEF OutputStep
<1> QED
  BY <1>1, <1>2, TypeCorrect, CreatingInvariant, StoppingInvariant, TargetInvariant, PTL
  DEF Spec, ImplementsPadOutput, Output!PadSpec

(* SnapshotShowsPad by itself: Snapshot() never shows the UI a state that    *)
(* differs from the one an accepting driver shows the game.                 *)
THEOREM SnapshotAgrees == Spec => []SnapshotShowsPad
<1>1. HeldOnlyWhileArmed /\ SnapshotShowsPad => SnapshotShowsPad
  OBVIOUS
<1> QED BY <1>1, NoStuckInput, PTL

-----------------------------------------------------------------------------
\* How far Stop and the destructor have come.  A thread that Stop has passed
\* may have been created behind its back, but after the stop flag was set:
\* all it can do is see the flag and return.
Quiet(t) == io[t] \in {"none", "head", "done", "joined"}
Gone(t)  == io[t] \in {"none", "joined"}
Destroying == {"dtorClose", "dtorControl", "dtorInput", "deleted"}
Returned == api \in Destroying \/ (api = "idle" /\ state = "Stopped")

StopProgress ==
  /\ state = "Stopped" => api \notin {"create", "run", "launch"}
  /\ Returned \/ api \in {"close", "joinControl", "joinInput", "joinWorker", "destroy"} => tStop
  /\ Returned \/ api \in {"joinInput", "joinWorker", "destroy"} => Quiet("control")
  /\ Returned \/ api \in {"joinWorker", "destroy"} => Quiet("input")
  /\ Returned \/ api = "destroy" => worker \in {"none", "joined"}
  /\ api \in {"dtorControl", "dtorInput", "deleted"} => open = {}
  /\ api \in {"dtorInput", "deleted"} => Gone("control")
  /\ api = "deleted" => Gone("input")

(* Each step of Stop and of the destructor settles one thing, and nothing    *)
(* that is still under way undoes it: the stop flag is never reset, a thread *)
(* created after it was set only returns, and with the worker joined nobody *)
(* creates a thread or opens a socket any more.                             *)
LEMMA StopProgressInvariant == Spec => []StopProgress
<1>1. Init => StopProgress
  BY DEF Init, StopProgress, Returned, Destroying, Quiet, Gone
<1>2. TypeOK /\ StoppingIsStopped /\ StopProgress /\ [Next]_vars => StopProgress'
  <2> SUFFICES ASSUME ThreadTypeOK, StoppingIsStopped, StopProgress, [Next]_vars
               PROVE  StopProgress'
    BY DEF TypeOK
  <2> USE DEF ThreadTypeOK, StoppingIsStopped, StopProgress, Returned, Destroying, Quiet, Gone
  <2>1. CASE CallerStep \/ ApiStep
    <3> USE <2>1 DEF CallerStep, ApiStep, StartCheck, StartCreate, StartRun, StartLaunch,
               StopBegin, StopNotify, StopFlag, StopClose, StopJoin, StopJoinWorker,
               StopDestroy, Delete, Join, Over, CloseSockets, Woken,
               ReleaseIf, Neutralize, SubmitNeutral, KeepOutput
    <3> QED OBVIOUS
  <2>2. CASE StartUpStep
    <3> USE <2>2 DEF StartUpStep, Enter, Bind, Accept, Accepted, Ack, AckSent, Publish,
               LaunchControl, Abort, CreateControl, CreateInput,
               StartUpUnchanged, CloseSockets, Goto
    <3> QED OBVIOUS
  <2>3. CASE WatchStep \/ SpuriousWakeUp
    <3> USE <2>3 DEF WatchStep, StartFailed, Decide, DeadlinePasses, TimedOut,
               SpuriousWakeUp, Remaining, Woken,
               ReleaseIf, Neutralize, SubmitNeutral, KeepOutput
    <3> QED OBVIOUS
  <2>4. CASE ControlHead \/ ControlRecv
    <3> USE <2>4 DEF ControlHead, ControlRecv, IoUnchanged, Goto, Signal, AgeAfterPoll
    <3> QED OBVIOUS
  <2>5. CASE InputHead \/ InputRecv \/ OnState
    <3> USE <2>5 DEF InputHead, InputRecv, OnState, IoUnchanged, Goto, Signal, Seqs,
               Refused, Woken,
               ReleaseIf, Neutralize, SubmitNeutral, KeepOutput
    <3> QED OBVIOUS
  <2>6. CASE \E t \in IoThreads : Disconnecting(t)
    <3> USE <2>6 DEF Disconnecting, Disconnect, OnTransportDisconnected,
               DisconnectNotify, IoUnchanged, Goto, Woken,
               ReleaseIf, Neutralize, SubmitNeutral, KeepOutput
    <3> QED OBVIOUS
  <2>7. CASE Tick \/ FallSilent \/ Deleted \/ UNCHANGED vars
    <3> USE <2>7 DEF Tick, FallSilent, Deleted, vars
    <3> QED OBVIOUS
  <2> QED
    BY <2>1, <2>2, <2>3, <2>4, <2>5, <2>6, <2>7
    DEF Next, WorkerStep, ControlStep, InputStep
<1> QED BY <1>1, <1>2, TypeCorrect, StoppingInvariant, PTL DEF Spec

(* When the destructor has begun, no thread is inside a callback into the    *)
(* session whose mutex it destroys: a thread that Stop could not join has    *)
(* not passed the stop flag.                                                *)
THEOREM NoUseAfterDelete == Spec => []NoCallbackIntoDeleted
<1>1. StopProgress => NoCallbackIntoDeleted
  BY DEF StopProgress, Returned, Destroying, Quiet, NoCallbackIntoDeleted
<1> QED BY <1>1, StopProgressInvariant, PTL

(* The destructor leaves no socket open and no thread unjoined, though Stop  *)
(* may have left both behind.                                               *)
THEOREM NothingLeftBehind == Spec => []DeletedHoldsNothing
<1>1. StopProgress => DeletedHoldsNothing
  BY DEF StopProgress, Returned, Destroying, Gone, DeletedHoldsNothing
<1> QED BY <1>1, StopProgressInvariant, PTL
=============================================================================
