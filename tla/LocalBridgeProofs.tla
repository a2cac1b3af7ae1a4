------------------------- MODULE LocalBridgeProofs -------------------------
(***************************************************************************)
(* LocalBridge for any gamepad states, motor commands and bound: its types, *)
(* that an ended bridge is released, that the motors settle, that Stop      *)
(* leaves everything quiet, and that the pad implements PadOutput.          *)
(***************************************************************************)
EXTENDS LocalBridge, TLAPS

Gone == poll \in {"none", "joined"}
Stopping == state = "Stopped" /\ api \in {"close", "join"}

\* Where the API thread is says what it has done so far.
ApiPlace ==
  /\ api \in {"create", "run"} => state = "Created"
  /\ api \in {"open", "openFailed"} => state = "Running"
  /\ state = "Created" \/ api \in {"open", "openFailed"} => poll = "none"
  /\ api \in {"close", "join"} => state = "Stopped"
  /\ api \in {"neutral", "detach", "unregister", "remove"} =>
       state \in {"Stopped", "Faulted"} /\ Gone
  /\ state = "Stopped" /\ api \notin {"close", "join"} => Gone /\ ~device

\* Where the poll thread is says what the session was when it looked: a sample
\* under way belongs to a session that runs, or that Stop is about to release.
PollPlace ==
  /\ poll \in {"submit", "record", "failed"} => state = "Running" \/ Stopping
  /\ poll = "faultNeutral" => state = "Faulted" \/ Stopping
  /\ poll = "lostNeutral" => state = "Disconnected" \/ Stopping

\* The target is gone with the pad, but for the two steps of its removal.
TargetPlace ==
  /\ ~created /\ api \notin {"unregister", "remove"} => pad = Absent
  /\ state = "Stopped" /\ api \in {"idle", "unregister", "remove"} => ~created
  /\ state = "Created" => cur = Neutral
  /\ state = "Created" /\ api \in {"idle", "create"} => ~created

\* The motors of a poll thread that is not there, or has left, are off.
RestsWhenDone == poll \in {"none", "done", "joined"} => motors = Rest

\* A generation is taken up after it was published, and there is room for the
\* one of the command on its way.
SlotInOrder ==
  /\ applied <= generation /\ seen <= generation
  /\ poll = "apply" => applied < seen
  /\ game # "idle" => generation < MaxCommands

\* RumbleSettles, at every step of the poll thread.
Settled == applied = generation /\ game # "publish" => motors \in {pending, Rest}

BridgeInv == /\ TypeOK
             /\ ApiPlace /\ PollPlace /\ TargetPlace /\ EndedIsReleased
             /\ RestsWhenDone /\ SlotInOrder /\ Settled

-----------------------------------------------------------------------------
LEMMA BridgeInit == Init => BridgeInv
<1> SUFFICES ASSUME Init PROVE BridgeInv
  OBVIOUS
<1> USE LocalBridgeAssumption DEF Init
<1>1. TypeOK
  <2>1. FlagTypeOK BY DEF FlagTypeOK
  <2>2. ValueTypeOK BY DEF ValueTypeOK, Ended, ApiLabels, PollLabels, GameLabels
  <2> QED BY <2>1, <2>2 DEF TypeOK
<1>2. ApiPlace /\ PollPlace /\ TargetPlace /\ EndedIsReleased
  BY DEF ApiPlace, PollPlace, TargetPlace, EndedIsReleased, Ended
<1>3. RestsWhenDone /\ SlotInOrder /\ Settled
  BY DEF RestsWhenDone, SlotInOrder, Settled
<1> QED BY <1>1, <1>2, <1>3 DEF BridgeInv

\* The parts of the invariant that speak of the bridge, its target and the
\* device, and those that speak of the rumble slot.
BridgeSide == ApiPlace /\ PollPlace /\ TargetPlace /\ EndedIsReleased

LEMMA FlagTypesNext == FlagTypeOK /\ [Next]_vars => FlagTypeOK'
<1> SUFFICES ASSUME FlagTypeOK, [Next]_vars PROVE FlagTypeOK'
  OBVIOUS
<1> USE DEF FlagTypeOK, bridgeVars, targetVars, deviceVars, rumbleVars, pollVars
<1>1. CASE CallerStep
  BY <1>1 DEF CallerStep, StartCheck, StopBegin
<1>2. CASE ApiStep
  <2>1. CASE Create
    BY <2>1 DEF Create
  <2>2. CASE Run \/ OpenFailed \/ Close
    BY <2>2 DEF Run, OpenFailed, Close
  <2>3. CASE Open
    BY <2>3 DEF Open
  <2>4. CASE Join
    BY <2>4 DEF Join
  <2>5. CASE ApiNeutral
    BY <2>5 DEF ApiNeutral, Submit
  <2>6. CASE Detach
    BY <2>6 DEF Detach
  <2>7. CASE Unregister \/ Remove
    BY <2>7 DEF Unregister, Remove
  <2> QED BY <1>2, <2>1, <2>2, <2>3, <2>4, <2>5, <2>6, <2>7 DEF ApiStep
<1>3. CASE PollStep
  <2>1. CASE SubmitSample
    BY <2>1 DEF SubmitSample, Submit, PollUnchanged
  <2>2. CASE PollNeutral
    BY <2>2 DEF PollNeutral, Submit, PollUnchanged
  <2>3. CASE PollHead \/ Unplugged \/ Check \/ SubmitFailed \/ Record
    BY <2>3 DEF PollHead, Unplugged, Check, SubmitFailed, Record, PollUnchanged
  <2>4. CASE Rumble \/ Apply \/ AtRest
    BY <2>4 DEF Rumble, Apply, AtRest, PollUnchanged
  <2> QED BY <1>3, <2>1, <2>2, <2>3, <2>4 DEF PollStep
<1>4. CASE Notify \/ GameStep
  BY <1>4 DEF Notify, GameStep, HandleRumble, OnRumble, SetRumble, Store, GameUnchanged
<1>5. CASE RumbleEnds \/ Stopped \/ UNCHANGED vars
  BY <1>5 DEF RumbleEnds, Stopped, vars
<1> QED BY <1>1, <1>2, <1>3, <1>4, <1>5 DEF Next

LEMMA ValueTypesNext == ValueTypeOK /\ SlotInOrder /\ [Next]_vars => ValueTypeOK'
<1> SUFFICES ASSUME ValueTypeOK, SlotInOrder, [Next]_vars PROVE ValueTypeOK'
  OBVIOUS
<1> USE LocalBridgeAssumption DEF bridgeVars, targetVars, deviceVars, rumbleVars, pollVars,
        ApiLabels, PollLabels, GameLabels, Ended
<1>1. CASE CallerStep
  BY <1>1 DEF CallerStep, StartCheck, StopBegin, ValueTypeOK
<1>2. CASE ApiStep
  <2>1. CASE Create
    BY <2>1 DEF Create, ValueTypeOK
  <2>2. CASE Run
    BY <2>2 DEF Run, ValueTypeOK
  <2>3. CASE Open
    BY <2>3 DEF Open, ValueTypeOK
  <2>4. CASE OpenFailed
    BY <2>4 DEF OpenFailed, ValueTypeOK
  <2>5. CASE Close
    BY <2>5 DEF Close, ValueTypeOK
  <2>6. CASE Join
    BY <2>6 DEF Join, ValueTypeOK
  <2>7. CASE ApiNeutral
    BY <2>7 DEF ApiNeutral, Submit, ValueTypeOK
  <2>8. CASE Detach
    BY <2>8 DEF Detach, ValueTypeOK
  <2>9. CASE Unregister
    BY <2>9 DEF Unregister, ValueTypeOK
  <2>10. CASE Remove
    BY <2>10 DEF Remove, ValueTypeOK
  <2> QED BY <1>2, <2>1, <2>2, <2>3, <2>4, <2>5, <2>6, <2>7, <2>8, <2>9, <2>10 DEF ApiStep
<1>3. CASE PollStep
  <2>1. CASE PollHead
    BY <2>1 DEF PollHead, PollUnchanged, ValueTypeOK
  <2>2. CASE Unplugged
    BY <2>2 DEF Unplugged, EndIfRunning, PollUnchanged, ValueTypeOK
  <2>3. CASE Check
    BY <2>3 DEF Check, PollUnchanged, ValueTypeOK
  <2>4. CASE SubmitSample
    BY <2>4 DEF SubmitSample, Submit, PollUnchanged, ValueTypeOK
  <2>5. CASE SubmitFailed
    BY <2>5 DEF SubmitFailed, EndIfRunning, PollUnchanged, ValueTypeOK
  <2>6. CASE PollNeutral
    BY <2>6 DEF PollNeutral, Submit, PollUnchanged, ValueTypeOK
  <2>7. CASE Record
    BY <2>7 DEF Record, PollUnchanged, ValueTypeOK
  <2>8. CASE Rumble
    BY <2>8 DEF Rumble, PollUnchanged, ValueTypeOK
  <2>9. CASE Apply
    BY <2>9 DEF Apply, PollUnchanged, ValueTypeOK
  <2>10. CASE AtRest
    BY <2>10 DEF AtRest, PollUnchanged, ValueTypeOK
  <2> QED BY <1>3, <2>1, <2>2, <2>3, <2>4, <2>5, <2>6, <2>7, <2>8, <2>9, <2>10 DEF PollStep
<1>4. CASE Notify \/ HandleRumble \/ OnRumble \/ SetRumble
  BY <1>4 DEF Notify, HandleRumble, OnRumble, SetRumble, GameUnchanged, ValueTypeOK
<1>5. CASE Store
  BY <1>5 DEF Store, Stores, Bumped, GameUnchanged, ValueTypeOK, SlotInOrder
<1>6. CASE RumbleEnds \/ Stopped \/ UNCHANGED vars
  BY <1>6 DEF RumbleEnds, Stopped, vars, ValueTypeOK
<1> QED BY <1>1, <1>2, <1>3, <1>4, <1>5, <1>6 DEF Next, GameStep

LEMMA TypesNext == TypeOK /\ SlotInOrder /\ [Next]_vars => TypeOK'
  BY FlagTypesNext, ValueTypesNext DEF TypeOK

LEMMA BridgeSideNext == TypeOK /\ BridgeSide /\ [Next]_vars => BridgeSide'
<1> SUFFICES ASSUME TypeOK, BridgeSide, [Next]_vars PROVE BridgeSide'
  OBVIOUS
<1> USE LocalBridgeAssumption DEF bridgeVars, targetVars, deviceVars, rumbleVars, pollVars, TypeOK, FlagTypeOK,
        ValueTypeOK,
        BridgeSide, ApiPlace, PollPlace, TargetPlace, EndedIsReleased, Stopping, Gone,
        ReleasePending, Ended
<1>1. CASE StartCheck
  BY <1>1 DEF StartCheck
<1>2. CASE StopBegin
  BY <1>2 DEF StopBegin
<1>3. CASE Create
  BY <1>3 DEF Create
<1>4. CASE Run
  BY <1>4 DEF Run
<1>5. CASE Open
  BY <1>5 DEF Open
<1>6. CASE OpenFailed
  BY <1>6 DEF OpenFailed
<1>7. CASE Close
  BY <1>7 DEF Close
<1>8. CASE Join
  BY <1>8 DEF Join, Joinable
<1>9. CASE ApiNeutral
  BY <1>9 DEF ApiNeutral, Submit
<1>10. CASE Detach
  BY <1>10 DEF Detach
<1>11. CASE Unregister
  BY <1>11 DEF Unregister
<1>12. CASE Remove
  BY <1>12 DEF Remove
<1>13. CASE PollHead
  BY <1>13 DEF PollHead, PollUnchanged
<1>14. CASE Unplugged
  BY <1>14 DEF Unplugged, EndIfRunning, PollUnchanged
<1>15. CASE Check
  BY <1>15 DEF Check, Accepts, PollUnchanged
<1>16. CASE SubmitSample
  BY <1>16 DEF SubmitSample, Submit, PollUnchanged
<1>17. CASE SubmitFailed
  BY <1>17 DEF SubmitFailed, EndIfRunning, PollUnchanged
<1>18. CASE PollNeutral
  BY <1>18 DEF PollNeutral, Submit, PollUnchanged
<1>19. CASE Record
  BY <1>19 DEF Record, Recording, PollUnchanged
<1>20. CASE Rumble \/ Apply \/ AtRest
  BY <1>20 DEF Rumble, Apply, AtRest, PollUnchanged
<1>21. CASE Notify \/ GameStep
  BY <1>21 DEF Notify, GameStep, HandleRumble, OnRumble, SetRumble, Store, GameUnchanged
<1>22. CASE RumbleEnds \/ Stopped \/ UNCHANGED vars
  BY <1>22 DEF RumbleEnds, Stopped, vars
<1> QED BY <1>1, <1>2, <1>3, <1>4, <1>5, <1>6, <1>7, <1>8, <1>9, <1>10, <1>11, <1>12, <1>13,
           <1>14, <1>15, <1>16, <1>17, <1>18, <1>19, <1>20, <1>21, <1>22
        DEF Next, CallerStep, ApiStep, PollStep

RumbleSide == RestsWhenDone /\ SlotInOrder /\ Settled

LEMMA RumbleSideNext == TypeOK /\ ApiPlace /\ RumbleSide /\ [Next]_vars => RumbleSide'
<1> SUFFICES ASSUME TypeOK, ApiPlace, RumbleSide, [Next]_vars PROVE RumbleSide'
  OBVIOUS
<1> USE LocalBridgeAssumption DEF bridgeVars, targetVars, deviceVars, rumbleVars, pollVars, TypeOK, FlagTypeOK,
        ValueTypeOK,
        RumbleSide, RestsWhenDone, SlotInOrder, Settled
<1>1. CASE CallerStep \/ Create \/ Run \/ OpenFailed \/ Close \/ ApiNeutral \/ Detach \/ Unregister
           \/ Remove
  BY <1>1 DEF CallerStep, StartCheck, StopBegin, Create, Run, OpenFailed, Close, ApiNeutral, Detach,
              Unregister, Remove
<1>2. CASE Open \/ Join
  BY <1>2 DEF Open, Join, Joinable
<1>3. CASE PollHead \/ Unplugged \/ Check \/ SubmitSample \/ SubmitFailed \/ PollNeutral \/ Record
  BY <1>3 DEF PollHead, Unplugged, Check, SubmitSample, SubmitFailed, PollNeutral, Record,
              PollUnchanged
<1>4. CASE Rumble
  BY <1>4 DEF Rumble, PollUnchanged
<1>5. CASE Apply
  BY <1>5 DEF Apply, PollUnchanged
<1>6. CASE AtRest
  BY <1>6 DEF AtRest, PollUnchanged
<1>7. CASE Notify \/ HandleRumble \/ OnRumble \/ SetRumble
  BY <1>7 DEF Notify, HandleRumble, OnRumble, SetRumble, GameUnchanged
<1>8. CASE Store
  BY <1>8 DEF Store, Stores, Bumped, GameUnchanged
<1>9. CASE RumbleEnds \/ Stopped \/ UNCHANGED vars
  BY <1>9 DEF RumbleEnds, Stopped, vars
<1> QED BY <1>1, <1>2, <1>3, <1>4, <1>5, <1>6, <1>7, <1>8, <1>9
        DEF Next, ApiStep, PollStep, GameStep

LEMMA BridgeNext == BridgeInv /\ [Next]_vars => BridgeInv'
  BY TypesNext, BridgeSideNext, RumbleSideNext DEF BridgeInv, BridgeSide, RumbleSide

LEMMA BridgeInvariant == Spec => []BridgeInv
  BY BridgeInit, BridgeNext, PTL DEF Spec

-----------------------------------------------------------------------------
\* Every variable keeps its type.
THEOREM BridgeTypeCorrect == Spec => []TypeOK
<1>1. BridgeInv => TypeOK
  BY DEF BridgeInv
<1> QED BY BridgeInvariant, <1>1, PTL

\* EndedIsReleased: a sample submitted without the mutex after the session has
\* ended never stays on the pad.
THEOREM EndIsReleased == Spec => []EndedIsReleased
<1>1. BridgeInv => EndedIsReleased
  BY DEF BridgeInv
<1> QED BY BridgeInvariant, <1>1, PTL

\* RumbleSettles: the motors do what the newest published command says.
THEOREM MotorsSettle == Spec => []RumbleSettles
<1>1. BridgeInv => RumbleSettles
  BY DEF BridgeInv, Settled, RumbleSettles
<1> QED BY BridgeInvariant, <1>1, PTL

\* StoppedIsQuiet: what Stop leaves behind.
THEOREM StopIsQuiet == Spec => []StoppedIsQuiet
<1>1. BridgeInv => StoppedIsQuiet
  BY DEF BridgeInv, ApiPlace, TargetPlace, RestsWhenDone, Gone, StoppedIsQuiet
<1> QED BY BridgeInvariant, <1>1, PTL

-----------------------------------------------------------------------------
\* The target is plugged in from its creation to its removal, which only the
\* API thread of an ended session does once the poll thread has gone.
Plugged ==
  /\ state = "Running" => pad # Absent
  /\ state = "Created" => (pad = Absent <=> api # "run")
  /\ state = "Created" => padOk
  /\ created => pad # Absent
  /\ api \in {"unregister", "remove"} => ~created
  /\ poll \in {"submit", "record", "failed", "faultNeutral", "lostNeutral"} => pad # Absent

LEMMA PluggedInvariant == Spec => []Plugged
<1>1. Init => Plugged
  BY LocalBridgeAssumption DEF Init, Plugged
<1>2. BridgeInv /\ Plugged /\ [Next]_vars => Plugged'
  <2> SUFFICES ASSUME TypeOK, ApiPlace, PollPlace, TargetPlace, Plugged, [Next]_vars PROVE Plugged'
    BY DEF BridgeInv
  <2> USE LocalBridgeAssumption DEF bridgeVars, targetVars, deviceVars, rumbleVars, pollVars,
        TypeOK, ValueTypeOK, ApiPlace, PollPlace, TargetPlace, Plugged, Stopping, Gone,
        Ended
  <2>1. CASE CallerStep
    <3>1. created' = created
      BY <2>1 DEF CallerStep, StartCheck, StopBegin
    <3>2. padOk' = padOk
      BY <2>1 DEF CallerStep, StartCheck, StopBegin
    <3>3. /\ api' \in {"create", "close"} /\ pad' = pad /\ poll' = poll
          /\ state' = "Stopped" \/ (state' = state /\ state = "Created" /\ api = "idle")
      BY <2>1 DEF CallerStep, StartCheck, StopBegin
    <3> QED BY <3>1, <3>2, <3>3
  <2>2. CASE Create
    <3>1. CASE api' = "run"
      <4>1. api = "create" /\ state' = state /\ poll' = poll /\ pad' = Neutral
        BY <2>2, <3>1 DEF Create
      <4>2. padOk' = TRUE
        BY <2>2, <3>1 DEF Create
      <4> QED BY <3>1, <4>1, <4>2
    <3>2. CASE api' = "idle"
      <4>1. api = "create" /\ state' = "Faulted" /\ poll' = poll /\ pad' = pad
        BY <2>2, <3>2 DEF Create
      <4>2. created' = created
        BY <2>2, <3>2 DEF Create
      <4> QED BY <3>2, <4>1, <4>2
    <3> QED BY <2>2, <3>1, <3>2 DEF Create
  <2>3. CASE Run \/ OpenFailed \/ Close
    BY <2>3 DEF Run, OpenFailed, Close
  <2>4. CASE Open
    BY <2>4 DEF Open
  <2>5. CASE Join
    BY <2>5 DEF Join, Joinable
  <2>6. CASE ApiNeutral
    BY <2>6 DEF ApiNeutral, Submit
  <2>7. CASE Detach \/ Unregister \/ Remove
    BY <2>7 DEF Detach, Unregister, Remove
  <2>8. CASE PollHead \/ Unplugged
    BY <2>8 DEF PollHead, Unplugged, EndIfRunning, PollUnchanged
  <2>9. CASE Check
    BY <2>9 DEF Check, Accepts, PollUnchanged
  <2>10. CASE SubmitSample \/ PollNeutral
    BY <2>10 DEF SubmitSample, PollNeutral, Submit, PollUnchanged
  <2>11. CASE SubmitFailed
    BY <2>11 DEF SubmitFailed, EndIfRunning, PollUnchanged
  <2>12. CASE Record \/ Rumble \/ Apply \/ AtRest
    BY <2>12 DEF Record, Rumble, Apply, AtRest, PollUnchanged
  <2>13. CASE Notify \/ GameStep
    BY <2>13 DEF Notify, GameStep, HandleRumble, OnRumble, SetRumble, Store, GameUnchanged
  <2>14. CASE RumbleEnds \/ Stopped \/ UNCHANGED vars
    BY <2>14 DEF RumbleEnds, Stopped, vars
  <2> QED
    BY <2>1, <2>2, <2>3, <2>4, <2>5, <2>6, <2>7, <2>8, <2>9, <2>10, <2>11, <2>12, <2>13, <2>14
    DEF Next, ApiStep, PollStep
<1> QED BY <1>1, <1>2, BridgeInvariant, PTL DEF Spec

(* The bridge's pad implements PadOutput, although its session ends in one   *)
(* step and its pad is released in a later one: the promise of an ended      *)
(* session is kept from the release on, and no submission can follow it.     *)
THEOREM BridgePadIsSafe == Spec => ImplementsPadOutput
<1>1. Init => Output!PadInit
  <2> SUFFICES ASSUME Init PROVE Output!PadInit
    OBVIOUS
  <2>1. state = "Created" /\ pad = Absent /\ padOk
    BY DEF Init
  <2>2. Mode = "unplugged"
    BY <2>1 DEF Mode, Ended
  <2> QED BY <2>1, <2>2 DEF Output!PadInit
<1>2. BridgeInv /\ Plugged /\ [Next]_vars => [Output!PadNext]_(Output!padVars)
  <2> SUFFICES ASSUME TypeOK, ApiPlace, PollPlace, TargetPlace, EndedIsReleased, Plugged, [Next]_vars
               PROVE  [Output!PadNext]_(Output!padVars)
    BY DEF BridgeInv
  <2> USE LocalBridgeAssumption DEF bridgeVars, targetVars, deviceVars, rumbleVars, pollVars,
        TypeOK, FlagTypeOK, ValueTypeOK, ApiPlace, PollPlace, TargetPlace, EndedIsReleased,
        ReleasePending, Plugged, Stopping, Gone, Ended, Mode, Releasing,
        Output!PadNext, Output!padVars
  <2>1. CASE StartCheck
    BY <2>1 DEF StartCheck
  <2>2. CASE StopBegin
    BY <2>2 DEF StopBegin, Output!Abandon, Output!End, Output!Show
  <2>3. CASE Create
    BY <2>3 DEF Create, Output!Plug, Output!Abandon
  <2>4. CASE Run
    BY <2>4 DEF Run
  <2>5. CASE Open
    BY <2>5 DEF Open
  <2>6. CASE OpenFailed
    BY <2>6 DEF OpenFailed, Output!End, Output!Show
  <2>7. CASE Close \/ Detach \/ Unregister
    BY <2>7 DEF Close, Detach, Unregister
  <2>8. CASE Join
    BY <2>8 DEF Join, Joinable
  <2>9. CASE ApiNeutral
    BY <2>9 DEF ApiNeutral, Submit, Output!End, Output!Retry
  <2>10. CASE Remove
    BY <2>10 DEF Remove, Output!Unplug
  <2>11. CASE PollHead \/ Check \/ Record \/ Rumble \/ Apply \/ AtRest
    BY <2>11 DEF PollHead, Check, Accepts, Record, Rumble, Apply, AtRest, PollUnchanged
  <2>12. CASE Unplugged
    BY <2>12 DEF Unplugged, EndIfRunning, PollUnchanged, Output!End, Output!Show
  <2>13. CASE SubmitSample
    BY <2>13 DEF SubmitSample, Submit, PollUnchanged, Output!Show, Output!End
  <2>14. CASE SubmitFailed
    BY <2>14 DEF SubmitFailed, EndIfRunning, PollUnchanged, Output!Show, Output!End
  <2>15. CASE PollNeutral
    BY <2>15 DEF PollNeutral, Submit, PollUnchanged, Output!End, Output!Show
  <2>16. CASE Notify \/ GameStep
    BY <2>16 DEF Notify, GameStep, HandleRumble, OnRumble, SetRumble, Store, GameUnchanged
  <2>17. CASE RumbleEnds \/ Stopped \/ UNCHANGED vars
    BY <2>17 DEF RumbleEnds, Stopped, vars
  <2> QED
    BY <2>1, <2>2, <2>3, <2>4, <2>5, <2>6, <2>7, <2>8, <2>9, <2>10, <2>11, <2>12, <2>13, <2>14,
       <2>15, <2>16, <2>17
    DEF Next, CallerStep, ApiStep, PollStep
<1> QED
  BY <1>1, <1>2, BridgeInvariant, PluggedInvariant, PTL DEF Spec, ImplementsPadOutput, Output!PadSpec
=============================================================================
