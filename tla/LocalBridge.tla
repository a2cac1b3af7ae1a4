---------------------------- MODULE LocalBridge ----------------------------
(***************************************************************************)
(* LocalControllerBridge with SdlInputBackend and                          *)
(* VigemVirtualControllerBackend on one machine: the API thread, the SDL    *)
(* poll thread, which drives the pad and the gamepad's motors, and the      *)
(* ViGEm thread that brings the game's rumble commands.  Unlike the LAN     *)
(* sessions the bridge submits states without holding its mutex.           *)
(*                                                                         *)
(* A step is one critical section of a mutex, one access to an atomic, or   *)
(* one blocking call.  The C ABI is called from one thread.                 *)
(***************************************************************************)
EXTENDS Integers

CONSTANTS
  States, Neutral, \* complete gamepad states, and the one with all released
  Absent,          \* no virtual target is plugged in
  Commands, Rest,  \* motor commands, and the one with both motors off
  MaxCommands      \* bound on the 64-bit rumble generation

ASSUME LocalBridgeAssumption ==
  /\ Neutral \in States /\ Absent \notin States
  /\ Rest \in Commands /\ MaxCommands \in Nat

VARIABLES
  \* the bridge's snapshot, guarded by LocalControllerBridge::mutex_
  state, cur,
  \* the ViGEm target: created_, what it shows, whether the last update
  \* succeeded, and whether notifications are registered
  created, pad, padOk, registered,
  \* the SDL device, its stop flag, the two atomics of the rumble slot, and
  \* what the motors do
  device, sdlStop, pending, generation, motors,
  \* local variables of the poll thread and of the ViGEm thread
  sample, seen, applied, command,
  \* program counters
  api, poll, game

bridgeVars == <<state, cur>>
targetVars == <<created, pad, padOk, registered>>
deviceVars == <<device, sdlStop>>
rumbleVars == <<pending, generation, motors>>
pollVars   == <<sample, seen, applied>>
vars == <<bridgeVars, targetVars, deviceVars, rumbleVars, pollVars, command,
          api, poll, game>>

Ended == {"Stopped", "Disconnected", "Faulted"}
ApiLabels  == {"idle", "create", "run", "open", "openFailed", "close", "join",
               "neutral", "detach", "unregister", "remove"}
PollLabels == {"none", "head", "unplugged", "lostNeutral", "check", "submit",
               "failed", "faultNeutral", "record", "rumble", "apply",
               "rest", "done", "joined"}
GameLabels == {"idle", "handle", "bridge", "device", "store", "publish"}

Init ==
  /\ state = "Created" /\ cur = Neutral
  /\ created = FALSE /\ pad = Absent /\ padOk = TRUE /\ registered = FALSE
  /\ device = FALSE /\ sdlStop = FALSE
  /\ pending = Rest /\ generation = 0 /\ motors = Rest
  /\ sample = Neutral /\ seen = 0 /\ applied = 0 /\ command = Rest
  /\ api = "idle" /\ poll = "none" /\ game = "idle"

-----------------------------------------------------------------------------
\* SubmitState of the virtual backend: refused without a target, or by the
\* driver.
Submit(s) == \/ created /\ pad' = s /\ padOk' = TRUE
             \/ padOk' = FALSE /\ created /\ UNCHANGED pad
             \/ ~created /\ UNCHANGED <<pad, padOk>>

\* Ending a running session; the pad is released in a later step.
EndIfRunning(s) == IF state = "Running" THEN state' = s /\ cur' = Neutral
                                        ELSE UNCHANGED <<state, cur>>

-----------------------------------------------------------------------------
\* LocalControllerBridge::Start.
StartCheck ==
  /\ api = "idle" /\ state = "Created"
  /\ api' = "create"
  /\ UNCHANGED <<bridgeVars, targetVars, deviceVars, rumbleVars, pollVars,
                 command, poll, game>>

Create ==
  /\ api = "create"
  /\ \/ /\ api' = "run"
        /\ created' = TRUE /\ pad' = Neutral /\ padOk' = TRUE /\ registered' = TRUE
        /\ UNCHANGED state
     \/ api' = "idle" /\ state' = "Faulted" /\ UNCHANGED targetVars
  /\ UNCHANGED <<cur, deviceVars, rumbleVars, pollVars, command, poll, game>>

Run ==
  /\ api = "run"
  /\ state' = "Running" /\ api' = "open"
  /\ UNCHANGED <<cur, targetVars, deviceVars, rumbleVars, pollVars, command, poll, game>>

Open ==
  /\ api = "open"
  /\ \/ /\ device' = TRUE /\ sdlStop' = FALSE /\ poll' = "head" /\ api' = "idle"
     \/ api' = "openFailed" /\ UNCHANGED <<deviceVars, poll>>
  /\ UNCHANGED <<bridgeVars, targetVars, rumbleVars, pollVars, command, game>>

OpenFailed ==
  /\ api = "openFailed"
  /\ state' = "Faulted" /\ cur' = Neutral /\ api' = "neutral"
  /\ UNCHANGED <<targetVars, deviceVars, rumbleVars, pollVars, command, poll, game>>

\* LocalControllerBridge::Stop, with SdlInputBackend::Close inside it.
StopBegin ==
  /\ api = "idle" /\ state # "Stopped"
  /\ state' = "Stopped" /\ cur' = Neutral /\ api' = "close"
  /\ UNCHANGED <<targetVars, deviceVars, rumbleVars, pollVars, command, poll, game>>

Close ==
  /\ api = "close"
  /\ sdlStop' = TRUE /\ api' = "join"
  /\ UNCHANGED <<bridgeVars, targetVars, device, rumbleVars, pollVars, command,
                 poll, game>>

JoinableNot == TRUE   \* mutant: the poll thread is detached
Joinable == poll \in {"none", "done", "joined"}

Join ==
  /\ api = "join" /\ Joinable
  /\ poll' = IF poll = "done" THEN "joined" ELSE poll
  /\ device' = FALSE /\ api' = "neutral"
  /\ UNCHANGED <<bridgeVars, targetVars, sdlStop, rumbleVars, pollVars, command, game>>

\* Both Stop and the failed Start end with SubmitNeutralState and Destroy.
ApiNeutral ==
  /\ api = "neutral"
  /\ Submit(Neutral) /\ api' = "detach"
  /\ UNCHANGED <<bridgeVars, created, registered, deviceVars, rumbleVars, pollVars,
                 command, poll, game>>

Detach ==
  /\ api = "detach"
  /\ created' = FALSE /\ api' = IF created THEN "unregister" ELSE "idle"
  /\ UNCHANGED <<bridgeVars, pad, padOk, registered, deviceVars, rumbleVars,
                 pollVars, command, poll, game>>

Unregister ==
  /\ api = "unregister"
  /\ registered' = FALSE /\ api' = "remove"
  /\ UNCHANGED <<bridgeVars, created, pad, padOk, deviceVars, rumbleVars, pollVars,
                 command, poll, game>>

Remove ==
  /\ api = "remove"
  /\ pad' = Absent /\ padOk' = TRUE /\ api' = "idle"
  /\ UNCHANGED <<bridgeVars, created, registered, deviceVars, rumbleVars, pollVars,
                 command, poll, game>>

CallerStep == StartCheck \/ StopBegin
ApiStep == \/ Create \/ Run \/ Open \/ OpenFailed \/ Close \/ Join
           \/ ApiNeutral \/ Detach \/ Unregister \/ Remove

-----------------------------------------------------------------------------
\* SdlInputBackend::PollLoop, with the bridge's callbacks.
PollUnchanged == UNCHANGED <<created, registered, deviceVars, pending, generation,
                             command, api, game>>

PollHead ==
  /\ poll = "head"
  /\ \/ sdlStop /\ poll' = "rest" /\ UNCHANGED sample
     \/ ~sdlStop /\ poll' = "check" /\ sample' \in States
     \/ ~sdlStop /\ poll' = "unplugged" /\ UNCHANGED sample
  /\ UNCHANGED <<bridgeVars, pad, padOk, motors, seen, applied>> /\ PollUnchanged

\* OnDisconnected.
Unplugged ==
  /\ poll = "unplugged"
  /\ IF sdlStop THEN poll' = "rest" /\ UNCHANGED bridgeVars
     ELSE /\ EndIfRunning("Disconnected")
          /\ poll' = IF state = "Running" THEN "lostNeutral" ELSE "rest"
  /\ UNCHANGED <<pad, padOk, motors, pollVars>> /\ PollUnchanged

\* OnState: the check, the submission without the mutex, the record.
AcceptsAlways == TRUE   \* mutant: the check is left out
Accepts == state = "Running"

Check ==
  /\ poll = "check"
  /\ poll' = IF Accepts THEN "submit" ELSE "rumble"
  /\ UNCHANGED <<bridgeVars, pad, padOk, motors, pollVars>> /\ PollUnchanged

SubmitSample ==
  /\ poll = "submit"
  /\ Submit(sample)
  /\ poll' = IF created /\ padOk' THEN "record" ELSE "failed"
  /\ UNCHANGED <<bridgeVars, motors, pollVars>> /\ PollUnchanged

SubmitFailed ==
  /\ poll = "failed"
  /\ EndIfRunning("Faulted") /\ poll' = "faultNeutral"
  /\ UNCHANGED <<pad, padOk, motors, pollVars>> /\ PollUnchanged

PollNeutral ==
  /\ poll \in {"lostNeutral", "faultNeutral"}
  /\ Submit(Neutral)
  /\ poll' = IF poll = "lostNeutral" THEN "rest" ELSE "rumble"
  /\ UNCHANGED <<bridgeVars, motors, pollVars>> /\ PollUnchanged

RecordingAlways == TRUE   \* mutant: the second check is left out
Recording == state = "Running"

Record ==
  /\ poll = "record"
  /\ cur' = IF Recording THEN sample ELSE cur
  /\ poll' = "rumble"
  /\ UNCHANGED <<state, pad, padOk, motors, pollVars>> /\ PollUnchanged

\* A new generation in the slot: the value, read after it, goes to the motors.
Rumble ==
  /\ poll = "rumble"
  /\ seen' = generation
  /\ poll' = IF generation # applied THEN "apply" ELSE "head"
  /\ UNCHANGED <<bridgeVars, pad, padOk, motors, sample, applied>> /\ PollUnchanged

Apply ==
  /\ poll = "apply"
  /\ motors' = pending /\ applied' = seen /\ poll' = "head"
  /\ UNCHANGED <<bridgeVars, pad, padOk, sample, seen>> /\ PollUnchanged

AtRest ==
  /\ poll = "rest"
  /\ motors' = Rest /\ poll' = "done"
  /\ UNCHANGED <<bridgeVars, pad, padOk, pollVars>> /\ PollUnchanged

PollStep == \/ PollHead \/ Unplugged \/ Check \/ SubmitSample \/ SubmitFailed
            \/ PollNeutral \/ Record \/ Rumble \/ Apply \/ AtRest

-----------------------------------------------------------------------------
\* ViGEm's thread: a notification, HandleRumble, OnRumble and SetRumble.
GameUnchanged == UNCHANGED <<bridgeVars, targetVars, deviceVars, motors, pollVars,
                             api, poll>>

Notify ==
  /\ game = "idle" /\ registered /\ generation < MaxCommands
  /\ game' = "handle" /\ command' \in Commands
  /\ UNCHANGED <<pending, generation>> /\ GameUnchanged

HandleRumble ==
  /\ game = "handle"
  /\ game' = IF created THEN "bridge" ELSE "idle"
  /\ UNCHANGED <<pending, generation, command>> /\ GameUnchanged

OnRumble ==
  /\ game = "bridge"
  /\ game' = IF state = "Running" THEN "device" ELSE "idle"
  /\ UNCHANGED <<pending, generation, command>> /\ GameUnchanged

SetRumble ==
  /\ game = "device"
  /\ game' = IF device THEN "store" ELSE "idle"
  /\ UNCHANGED <<pending, generation, command>> /\ GameUnchanged

\* The slot's two stores: first the value, then the generation.
SwappedStores == [value |-> "publish", generation |-> "store"]   \* mutant
Stores == [value |-> "store", generation |-> "publish"]

BumpedTwice == generation + 2   \* mutant
Bumped == generation + 1

Store ==
  /\ \/ game = "store" /\ game' = "publish"
     \/ game = "publish" /\ game' = "idle"
  /\ pending' = IF game = Stores.value THEN command ELSE pending
  /\ generation' = IF game = Stores.generation THEN Bumped ELSE generation
  /\ UNCHANGED command /\ GameUnchanged

GameStep == HandleRumble \/ OnRumble \/ SetRumble \/ Store

\* SDL lets the motors run for a second after each command.
RumbleEnds ==
  /\ motors # Rest /\ motors' = Rest
  /\ UNCHANGED <<bridgeVars, targetVars, deviceVars, pending, generation, pollVars,
                 command, api, poll, game>>

Stopped == api = "idle" /\ state = "Stopped" /\ UNCHANGED vars

Next == CallerStep \/ ApiStep \/ PollStep \/ Notify \/ GameStep \/ RumbleEnds \/ Stopped

Spec == Init /\ [][Next]_vars

-----------------------------------------------------------------------------
FlagTypeOK ==
  /\ created \in BOOLEAN /\ padOk \in BOOLEAN /\ registered \in BOOLEAN
  /\ device \in BOOLEAN /\ sdlStop \in BOOLEAN

ValueTypeOK ==
  /\ state \in {"Created", "Running"} \cup Ended
  /\ cur \in States /\ sample \in States /\ pad \in States \cup {Absent}
  /\ pending \in Commands /\ motors \in Commands /\ command \in Commands
  /\ generation \in 0..MaxCommands /\ seen \in 0..MaxCommands
  /\ applied \in 0..MaxCommands
  /\ api \in ApiLabels /\ poll \in PollLabels /\ game \in GameLabels

TypeOK == FlagTypeOK /\ ValueTypeOK

(* The states are submitted without the mutex, so a sample may reach the pad *)
(* after the session has ended.  The snapshot never shows it; the pad shows  *)
(* it only while a thread is on its way to release it.                      *)
ReleasePending == \/ poll \in {"failed", "faultNeutral", "lostNeutral"}
                  \/ api \in {"close", "join", "neutral"}
EndedIsReleased ==
  state \in Ended =>
    /\ cur = Neutral
    /\ padOk /\ pad \notin {Neutral, Absent} => ReleasePending

(* The motors settle on the last command: when the poll thread has applied   *)
(* the newest generation and no store is under way, they do what the slot    *)
(* says, or rest.                                                           *)
RumbleSettles ==
  poll = "head" /\ applied = generation /\ game # "publish" => motors \in {pending, Rest}

(* When Stop has returned, nothing samples, the device is closed, the target *)
(* is gone and the motors are off.                                          *)
StoppedIsQuiet ==
  api = "idle" /\ state = "Stopped" =>
    poll \in {"none", "joined"} /\ ~device /\ pad = Absent /\ motors = Rest

(* The pad implements PadOutput, the session being over for the game when    *)
(* it has ended and a release has been submitted.                            *)
Releasing == poll \in {"submit", "failed", "faultNeutral", "lostNeutral"}
Mode == CASE state = "Created" /\ pad = Absent -> "unplugged"
          [] state \in Ended /\ ~Releasing
               /\ (padOk => pad \in {Neutral, Absent}) -> "over"
          [] OTHER -> "live"
Output == INSTANCE PadOutput
            WITH mode <- Mode, Unknown <- "unknown",
                 out <- IF padOk \/ pad = Neutral THEN pad ELSE "unknown"
ImplementsPadOutput == Output!PadSpec
=============================================================================
