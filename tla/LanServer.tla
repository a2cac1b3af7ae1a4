----------------------------- MODULE LanServer -----------------------------
(***************************************************************************)
(* LanControllerServer and the server half of UdpLanTransportBackend: the  *)
(* API thread (Start, Stop, destructor), the start worker that becomes the *)
(* input watchdog, the TCP control thread and the UDP input thread.        *)
(*                                                                         *)
(* A step is one critical section of a mutex, one access to an atomic, or  *)
(* one blocking call.  The peer and the network are the environment: any   *)
(* datagram may be lost, repeated or overtaken, and the TCP channel may    *)
(* close, carry a frame, or fall silent for good.                          *)
(***************************************************************************)
EXTENDS Integers

CONSTANTS
  States, Neutral, \* complete gamepad states, and the one with all released
  Absent,          \* no virtual target is plugged in
  MaxSeq,          \* bound on the 64-bit datagram sequence numbers
  InputTimeout,    \* ticks of input silence the watchdog tolerates (100 ms)
  HeartbeatTimeout \* ticks of heartbeat silence that exceed 3 s

ASSUME LanServerAssumption ==
  /\ Neutral \in States
  /\ Absent \notin States
  /\ MaxSeq \in Nat \ {0}
  /\ InputTimeout \in Nat \ {0}
  /\ HeartbeatTimeout \in Nat \ {0}

VARIABLES
  \* the session, guarded by LanControllerServer::mutex_
  state, stopReq, armed, cur, latest, received, neutralized,
  \* the ViGEm target: what it shows, and whether the last update succeeded
  pad, padOk,
  \* the transport: atomics, open sockets and the input thread's datagram
  tStop, connected, signaled, open, highest, frame,
  \* monotonic time: since the last accepted input (age), until the deadline
  \* the watchdog waits for (left), since the last heartbeat (hbAge)
  age, left, hbAge,
  \* program counters, and whether the peer has fallen silent
  api, worker, io, silent

sessionVars   == <<state, stopReq, armed, cur, latest, received, neutralized>>
targetVars    == <<pad, padOk>>
transportVars == <<tStop, connected, signaled, open, highest, frame>>
timeVars      == <<age, left, hbAge>>
threadVars    == <<api, worker, io>>
vars == <<sessionVars, targetVars, transportVars, timeVars, threadVars, silent>>

Terminal  == {"Stopped", "Disconnected", "Faulted"}
Sockets   == {"listener", "input", "control"}
IoThreads == {"control", "input"}
Seqs      == 1..MaxSeq

\* A label is the next thing its thread does; a joinable std::thread is one
\* that is neither "none" nor "joined".
ApiLabels == {"idle", "create", "run", "launch",
              "notify", "flag", "close", "joinControl", "joinInput",
              "joinWorker", "destroy", "dtorClose", "dtorControl", "dtorInput",
              "deleted"}
WorkerLabels == {"none", "enter", "bind", "accept", "accepted", "ack",
                 "ackSent", "publish", "launchControl", "createControl",
                 "createInput", "abort", "failed",
                 "decide", "waitArm", "waitDeadline", "timedOut",
                 "done", "joined"}
IoLabels == {"none", "head", "recv", "deliver", "signal", "check", "callback",
             "notify", "done", "joined"}

Init ==
  /\ state = "Created" /\ stopReq = FALSE /\ armed = FALSE /\ cur = Neutral
  /\ latest = 0 /\ received = 0 /\ neutralized = 0
  /\ pad = Absent /\ padOk = TRUE
  /\ tStop = FALSE /\ connected = FALSE /\ signaled = FALSE /\ open = {}
  /\ highest = 0 /\ frame = [seq |-> 0, state |-> Neutral]
  /\ age = 0 /\ left = 0 /\ hbAge = 0
  /\ api = "idle" /\ worker = "none" /\ io = [t \in IoThreads |-> "none"]
  /\ silent = FALSE

-----------------------------------------------------------------------------
\* condition_.notify_all(): a waiting worker goes back to the head of its loop.
WokenNever(w) == w   \* mutant: the notification is forgotten
Woken(w) == IF w \in {"waitArm", "waitDeadline"} THEN "decide" ELSE w

Goto(t, label) == io' = [io EXCEPT ![t] = label]

\* SubmitNeutralState(): best effort, and nobody looks at how it went.
SubmitNeutral == \/ pad' = Neutral /\ padOk' = TRUE
                 \/ padOk' = FALSE /\ UNCHANGED pad

\* Mutants: the release reaches only the snapshot; it leaves the snapshot alone.
NeutralizeSnapshotOnly ==
  /\ cur' = Neutral /\ neutralized' = neutralized + 1 /\ armed' = FALSE
  /\ UNCHANGED <<pad, padOk>>
NeutralizePadOnly ==
  /\ SubmitNeutral
  /\ neutralized' = neutralized + 1 /\ armed' = FALSE
  /\ UNCHANGED cur

\* NeutralizeLocked().
Neutralize ==
  /\ SubmitNeutral
  /\ cur' = Neutral
  /\ neutralized' = neutralized + 1
  /\ armed' = FALSE

KeepOutput == UNCHANGED <<pad, padOk, cur, neutralized, armed>>

ReleaseAlways(cond) == Neutralize   \* mutant: no guard
ReleaseIf(cond) == IF cond THEN Neutralize ELSE KeepOutput

-----------------------------------------------------------------------------
\* LanControllerServer::Start on the API thread.
StartCheck ==
  /\ api = "idle" /\ state = "Created"
  /\ api' = "create"
  /\ UNCHANGED <<sessionVars, targetVars, transportVars, timeVars, worker, io, silent>>

StartCreate ==
  /\ api = "create"
  /\ \/ api' = "run" /\ pad' = Neutral /\ padOk' = TRUE /\ UNCHANGED state
     \/ api' = "idle" /\ state' = "Faulted" /\ UNCHANGED targetVars
  /\ UNCHANGED <<stopReq, armed, cur, latest, received, neutralized,
                 transportVars, timeVars, worker, io, silent>>

StartRun ==
  /\ api = "run"
  /\ api' = "launch" /\ state' = "Running" /\ stopReq' = FALSE
  /\ UNCHANGED <<armed, cur, latest, received, neutralized, targetVars,
                 transportVars, timeVars, worker, io, silent>>

StartLaunch ==
  /\ api = "launch"
  /\ api' = "idle" /\ worker' = "enter"
  /\ UNCHANGED <<sessionVars, targetVars, transportVars, timeVars, io, silent>>

\* LanControllerServer::Stop, with UdpLanTransportBackend::Stop inside it.
StopBegin ==
  /\ api = "idle" /\ state # "Stopped"
  /\ ReleaseIf(state = "Running")
  /\ state' = "Stopped" /\ stopReq' = TRUE /\ api' = "notify"
  /\ UNCHANGED <<latest, received, transportVars, timeVars, worker, io, silent>>

StopNotify ==
  /\ api = "notify"
  /\ api' = "flag" /\ worker' = Woken(worker)
  /\ UNCHANGED <<sessionVars, targetVars, transportVars, timeVars, io, silent>>

StopFlag ==
  /\ api = "flag"
  /\ api' = "close" /\ tStop' = TRUE
  /\ UNCHANGED <<sessionVars, targetVars, connected, signaled, open, highest,
                 frame, timeVars, worker, io, silent>>

CloseAccepted == connected' = FALSE /\ open' = open \ {"control"}   \* mutant
CloseSockets == connected' = FALSE /\ open' = {}

StopClose ==
  /\ api \in {"close", "dtorClose"}
  /\ api' = IF api = "close" THEN "joinControl" ELSE "dtorControl"
  /\ CloseSockets
  /\ UNCHANGED <<sessionVars, targetVars, tStop, signaled, highest, frame,
                 timeVars, worker, io, silent>>

\* joinable() and join(): a thread object that holds no thread is passed by.
DetachedIsOver(t) == TRUE   \* mutant: the threads are detached
Over(t) == io[t] \in {"none", "done", "joined"}

Join(t, from, to) ==
  /\ api = from /\ Over(t)
  /\ api' = to
  /\ io' = [io EXCEPT ![t] = IF @ = "done" THEN "joined" ELSE @]
  /\ UNCHANGED <<sessionVars, targetVars, transportVars, timeVars, worker, silent>>

StopJoin == \/ Join("control", "joinControl", "joinInput")
            \/ Join("input", "joinInput", "joinWorker")
            \/ Join("control", "dtorControl", "dtorInput")
            \/ Join("input", "dtorInput", "deleted")

StopJoinWorker ==
  /\ api = "joinWorker" /\ worker \in {"none", "done", "joined"}
  /\ api' = "destroy"
  /\ worker' = IF worker = "done" THEN "joined" ELSE worker
  /\ UNCHANGED <<sessionVars, targetVars, transportVars, timeVars, io, silent>>

StopDestroy ==
  /\ api = "destroy"
  /\ api' = "idle" /\ pad' = Absent /\ padOk' = TRUE
  /\ UNCHANGED <<sessionVars, transportVars, timeVars, worker, io, silent>>

\* ~LanControllerServer after Stop: ~UdpLanTransportBackend stops once more.
Delete ==
  /\ api = "idle" /\ state = "Stopped"
  /\ api' = "dtorClose" /\ tStop' = TRUE
  /\ UNCHANGED <<sessionVars, targetVars, connected, signaled, open, highest,
                 frame, timeVars, worker, io, silent>>

\* What the caller decides to do, and what the API thread then has to do.
CallerStep == StartCheck \/ StopBegin \/ Delete
ApiStep == \/ StartCreate \/ StartRun \/ StartLaunch
           \/ StopNotify \/ StopFlag \/ StopClose \/ StopJoin
           \/ StopJoinWorker \/ StopDestroy

-----------------------------------------------------------------------------
\* The worker while it is in UdpLanTransportBackend::StartServer.
StartUpUnchanged == UNCHANGED <<sessionVars, targetVars, tStop, signaled,
                                highest, frame, age, left, api, silent>>

Enter ==
  /\ worker = "enter"
  /\ worker' = IF tStop THEN "failed" ELSE "bind"
  /\ UNCHANGED <<connected, open, hbAge, io>> /\ StartUpUnchanged

Bind ==
  /\ worker = "bind"
  /\ \/ worker' = "accept" /\ open' = open \cup {"listener", "input"}
     \/ worker' = "failed" /\ UNCHANGED open
  /\ UNCHANGED <<connected, hbAge, io>> /\ StartUpUnchanged

\* A malformed HELLO and a wrong pairing key leave the loop where it is.
Accept ==
  /\ worker = "accept"
  /\ \/ tStop /\ worker' = "failed"
     \/ ~tStop /\ worker' \in {"accepted", "failed"}
  /\ UNCHANGED <<connected, open, hbAge, io>> /\ StartUpUnchanged

Accepted ==
  /\ worker = "accepted"
  /\ IF tStop THEN worker' = "failed" /\ UNCHANGED open
              ELSE worker' = "ack" /\ open' = open \cup {"control"}
  /\ UNCHANGED <<connected, hbAge, io>> /\ StartUpUnchanged

Ack ==
  /\ worker = "ack"
  /\ \/ worker' = "ackSent" /\ UNCHANGED open
     \/ worker' = "failed" /\ open' = open \ {"control"}
  /\ UNCHANGED <<connected, hbAge, io>> /\ StartUpUnchanged

AckSent ==
  /\ worker = "ackSent"
  /\ IF tStop THEN worker' = "failed" /\ open' = open \ {"control"}
              ELSE worker' = "publish" /\ UNCHANGED open
  /\ UNCHANGED <<connected, hbAge, io>> /\ StartUpUnchanged

Publish ==
  /\ worker = "publish"
  /\ worker' = "launchControl" /\ connected' = TRUE /\ open' = open \ {"listener"}
  /\ UNCHANGED <<hbAge, io>> /\ StartUpUnchanged

LaunchControl ==
  /\ worker = "launchControl"
  /\ worker' = IF tStop THEN "abort" ELSE "createControl"
  /\ UNCHANGED <<connected, open, hbAge, io>> /\ StartUpUnchanged

\* The worker's own call of Stop(): no thread exists yet, nothing to join.
Abort ==
  /\ worker = "abort"
  /\ worker' = "failed" /\ CloseSockets
  /\ UNCHANGED <<hbAge, io>> /\ StartUpUnchanged

CreateControl ==
  /\ worker = "createControl"
  /\ worker' = "createInput" /\ Goto("control", "head") /\ hbAge' = 0
  /\ UNCHANGED <<connected, open>> /\ StartUpUnchanged

CreateInput ==
  /\ worker = "createInput"
  /\ worker' = "decide" /\ Goto("input", "head")
  /\ UNCHANGED <<connected, open, hbAge>> /\ StartUpUnchanged

\* LanControllerServer::StartWorker, the transport did not start.
StartFailed ==
  /\ worker = "failed"
  /\ ReleaseIf(~stopReq /\ state = "Running")
  /\ state' = IF ~stopReq /\ state = "Running" THEN "Faulted" ELSE state
  /\ worker' = "done"
  /\ UNCHANGED <<stopReq, latest, received, transportVars, timeVars, api, io, silent>>

\* From now to last_input_arrival_ + input_timeout_.
RemainingSwapped == age - InputTimeout   \* mutant
Remaining == InputTimeout - age

\* The watchdog: the head of its loop, with mutex_ held.
Decide ==
  /\ worker = "decide"
  /\ \/ /\ stopReq \/ state # "Running"
        /\ worker' = "done" /\ UNCHANGED left
     \/ /\ ~stopReq /\ state = "Running" /\ ~armed
        /\ worker' = "waitArm" /\ UNCHANGED left
     \/ /\ ~stopReq /\ state = "Running" /\ armed
        /\ worker' = "waitDeadline" /\ left' = Remaining
  /\ UNCHANGED <<sessionVars, targetVars, transportVars, age, hbAge, api, io, silent>>

\* wait_until gives up at the deadline; mutex_ is still to be reacquired.
DeadlinePasses ==
  /\ worker = "waitDeadline" /\ left = 0
  /\ worker' = "timedOut"
  /\ UNCHANGED <<sessionVars, targetVars, transportVars, timeVars, api, io, silent>>

TimedOut ==
  /\ worker = "timedOut"
  /\ ReleaseIf(~stopReq /\ state = "Running" /\ armed)
  /\ worker' = "decide"
  /\ UNCHANGED <<state, stopReq, latest, received, transportVars, timeVars,
                 api, io, silent>>

\* A wait may end for no reason; past its deadline wait_until just times out.
SpuriousWakeUp ==
  /\ worker = "waitArm" \/ (worker = "waitDeadline" /\ left > 0)
  /\ worker' = Woken(worker)
  /\ UNCHANGED <<sessionVars, targetVars, transportVars, timeVars, api, io, silent>>

StartUpStep == \/ Enter \/ Bind \/ Accept \/ Accepted \/ Ack \/ AckSent \/ Publish
               \/ LaunchControl \/ Abort \/ CreateControl \/ CreateInput
WatchStep  == StartFailed \/ Decide \/ DeadlinePasses \/ TimedOut
WorkerStep == StartUpStep \/ WatchStep

-----------------------------------------------------------------------------
IoUnchanged == UNCHANGED <<sessionVars, targetVars, tStop, open, age, left, api, silent>>

\* SignalDisconnected: the first caller wins, the others return at once.
Signal(t) ==
  /\ signaled' = TRUE
  /\ Goto(t, IF signaled THEN "done" ELSE "signal")

\* ServerControlLoop and ServerInputLoop at the head of an iteration.  The
\* rumble frame the control thread sends here may fail on the socket.
ControlHead ==
  /\ io["control"] = "head"
  /\ \/ (tStop \/ ~connected) /\ Goto("control", "done") /\ UNCHANGED signaled
     \/ ~tStop /\ connected /\ hbAge < HeartbeatTimeout
          /\ Goto("control", "recv") /\ UNCHANGED signaled
     \/ ~tStop /\ connected /\ hbAge = HeartbeatTimeout /\ Signal("control")
     \/ ~tStop /\ connected /\ Signal("control")
  /\ UNCHANGED <<connected, highest, frame, hbAge, worker>> /\ IoUnchanged

AgeAfterEveryPoll(beat) == 0   \* mutant: a poll without a frame counts as one
AgeAfterPoll(beat) == IF beat THEN 0 ELSE hbAge

\* 50 ms without a frame, a heartbeat, or the end of the channel: STOP, an
\* invalid frame, a socket the peer or Stop closed.
ControlRecv ==
  /\ io["control"] = "recv"
  /\ \/ \E beat \in BOOLEAN :
          /\ beat => ~silent /\ "control" \in open
          /\ hbAge' = AgeAfterPoll(beat)
          /\ Goto("control", "head") /\ UNCHANGED signaled
     \/ /\ ~silent \/ "control" \notin open
        /\ Signal("control") /\ UNCHANGED hbAge
  /\ UNCHANGED <<connected, highest, frame, worker>> /\ IoUnchanged

InputHead ==
  /\ io["input"] = "head"
  /\ Goto("input", IF tStop \/ ~connected THEN "done" ELSE "recv")
  /\ UNCHANGED <<connected, signaled, highest, frame, hbAge, worker>> /\ IoUnchanged

\* 100 ms without a datagram or one that is refused; a datagram that is newer
\* than all before it; a receive error.
InputRecv ==
  /\ io["input"] = "recv"
  /\ \/ Goto("input", "head") /\ UNCHANGED <<signaled, highest, frame>>
     \/ /\ ~silent /\ "input" \in open
        /\ \E n \in Seqs, s \in States :
             /\ n > highest
             /\ highest' = n /\ frame' = [seq |-> n, state |-> s]
        /\ Goto("input", "deliver") /\ UNCHANGED signaled
     \/ tStop /\ Goto("input", "done") /\ UNCHANGED <<signaled, highest, frame>>
     \/ ~tStop /\ Signal("input") /\ UNCHANGED <<highest, frame>>
  /\ UNCHANGED <<connected, hbAge, worker>> /\ IoUnchanged

\* LanControllerServer::OnState, with mutex_ held throughout.
RefusedAsStale(f) == received # 0 /\ f.seq <= latest   \* mutant: any state
Refused(f) == state # "Running" \/ stopReq \/ (received # 0 /\ f.seq <= latest)

OnState ==
  /\ io["input"] = "deliver"
  /\ Goto("input", "head")
  /\ IF Refused(frame)
       THEN UNCHANGED <<state, latest, received, age, worker>> /\ KeepOutput
       ELSE \/ /\ pad' = frame.state /\ padOk' = TRUE /\ cur' = frame.state
               /\ latest' = frame.seq /\ received' = received + 1
               /\ age' = 0 /\ armed' = TRUE
               /\ worker' = Woken(worker)
               /\ UNCHANGED <<state, neutralized>>
            \/ /\ state' = "Faulted" /\ worker' = Woken(worker)
               /\ ReleaseIf(TRUE)
               /\ UNCHANGED <<latest, received, age>>
  /\ UNCHANGED <<stopReq, transportVars, left, hbAge, api, silent>>

\* The rest of SignalDisconnected, up to LanControllerServer's callback.
Disconnect(t) ==
  /\ \/ io[t] = "signal" /\ connected' = FALSE /\ Goto(t, "check")
     \/ io[t] = "check" /\ Goto(t, IF tStop THEN "done" ELSE "callback")
          /\ UNCHANGED connected
  /\ UNCHANGED <<signaled, highest, frame, hbAge, worker>> /\ IoUnchanged

OnTransportDisconnected(t) ==
  /\ io[t] = "callback"
  /\ ReleaseIf(state = "Running")
  /\ state' = IF state = "Running" THEN "Disconnected" ELSE state
  /\ Goto(t, IF state = "Running" THEN "notify" ELSE "done")
  /\ UNCHANGED <<stopReq, latest, received, transportVars, timeVars, api, worker, silent>>

DisconnectNotify(t) ==
  /\ io[t] = "notify"
  /\ Goto(t, "done") /\ worker' = Woken(worker)
  /\ UNCHANGED <<sessionVars, targetVars, transportVars, timeVars, api, silent>>

Disconnecting(t) == Disconnect(t) \/ OnTransportDisconnected(t) \/ DisconnectNotify(t)
ControlStep == ControlHead \/ ControlRecv \/ Disconnecting("control")
InputStep   == InputHead \/ InputRecv \/ OnState \/ Disconnecting("input")

-----------------------------------------------------------------------------
\* A tick of the steady clock; times are kept only as far as they matter.
Tick ==
  /\ age' = IF age < InputTimeout THEN age + 1 ELSE age
  /\ left' = IF left > 0 THEN left - 1 ELSE 0
  /\ hbAge' = IF hbAge < HeartbeatTimeout THEN hbAge + 1 ELSE hbAge
  /\ UNCHANGED <<sessionVars, targetVars, transportVars, threadVars, silent>>

\* The peer's machine or network is gone without a TCP segment to say so.
FallSilent ==
  /\ ~silent /\ silent' = TRUE
  /\ UNCHANGED <<sessionVars, targetVars, transportVars, timeVars, threadVars>>

Deleted == api = "deleted" /\ UNCHANGED vars

Next == \/ CallerStep \/ ApiStep
        \/ WorkerStep \/ SpuriousWakeUp
        \/ ControlStep \/ InputStep
        \/ Tick \/ FallSilent \/ Deleted

Spec == Init /\ [][Next]_vars

\* Every thread keeps running and time passes.  Nobody has to call Start,
\* Stop or the destructor, and no peer has to send anything.
Fairness == /\ WF_vars(ApiStep) /\ WF_vars(WorkerStep)
            /\ WF_vars(ControlStep) /\ WF_vars(InputStep) /\ WF_vars(Tick)

FairSpec == Spec /\ Fairness

-----------------------------------------------------------------------------
SessionTypeOK ==
  /\ state \in {"Created", "Running"} \cup Terminal
  /\ stopReq \in BOOLEAN /\ armed \in BOOLEAN /\ cur \in States
  /\ pad \in States \cup {Absent} /\ padOk \in BOOLEAN

CounterTypeOK ==
  /\ received \in Nat /\ neutralized \in Nat
  /\ latest \in 0..MaxSeq /\ highest \in 0..MaxSeq
  /\ frame \in [seq : 0..MaxSeq, state : States]
  /\ age \in 0..InputTimeout /\ left \in 0..InputTimeout
  /\ hbAge \in 0..HeartbeatTimeout

TransportTypeOK ==
  /\ tStop \in BOOLEAN /\ connected \in BOOLEAN /\ signaled \in BOOLEAN
  /\ open \subseteq Sockets /\ silent \in BOOLEAN

ThreadTypeOK ==
  /\ api \in ApiLabels /\ worker \in WorkerLabels
  /\ io \in [IoThreads -> IoLabels]

TypeOK == SessionTypeOK /\ CounterTypeOK /\ TransportTypeOK /\ ThreadTypeOK

(* No stuck button: a pad that shows input belongs to a running session     *)
(* whose watchdog is armed, whatever path ended or silenced the session     *)
(* (Stop, watchdog, disconnect, driver fault, failed start), unless the     *)
(* driver refused the last submission.                                      *)
HeldOnlyWhileArmed ==
  padOk /\ pad \notin {Neutral, Absent} => state = "Running" /\ armed

(* Snapshot() and the game agree: the state the UI is shown is the one the  *)
(* plugged pad shows, unless the driver refused the last submission.        *)
SnapshotShowsPad == padOk /\ pad # Absent => cur = pad

(* No lost wake-up: while the watchdog sleeps without a deadline nothing    *)
(* needs it, or a thread is about to notify it.                             *)
NoLostWakeUp ==
  worker = "waitArm" =>
    \/ state = "Running" /\ ~stopReq /\ ~armed
    \/ api = "notify" \/ \E t \in IoThreads : io[t] = "notify"

(* One neutral submission per period of silence: the session releases the   *)
(* pad at most once per accepted input, and once more when it ends, however *)
(* watchdog, Stop, disconnect and faults overlap.                           *)
OneReleasePerSilence ==
  neutralized + (IF armed THEN 1 ELSE 0)
    <= received + (IF state \in Terminal THEN 1 ELSE 0)

(* A session that has ended stays ended, and no datagram, watchdog or       *)
(* disconnect that was under way puts input on its pad again.               *)
NoResurrection ==
  [][ (state \in Terminal) =>
        /\ state' \in {state, "Stopped"}
        /\ pad' \in {pad, Neutral, Absent} ]_vars

(* Silence releases: once an accepted input is older than the timeout the   *)
(* watchdog disarms (releasing the pad) unless fresh input arrives.         *)
SilenceReleases ==
  armed /\ age = InputTimeout ~> ~armed \/ age < InputTimeout

(* A peer that vanishes without closing its connection is noticed: the      *)
(* session whose control thread runs ends.                                  *)
SilentPeerEndsSession ==
  silent /\ io["control"] \in {"head", "recv"} ~> state \in Terminal

(* Stop and the destructor return: no join waits for a thread that waits    *)
(* for the caller.                                                          *)
StopReturns == api \in {"notify", "dtorClose"} ~> api \in {"idle", "deleted"}

(* The destructor runs after Stop: from its first step on, no thread that    *)
(* Stop could not join is inside a callback into the session, whose mutex    *)
(* is destroyed before the transport stops its threads.                     *)
NoCallbackIntoDeleted ==
  api \in {"dtorClose", "dtorControl", "dtorInput", "deleted"} =>
    /\ worker \in {"none", "joined"}
    /\ \A t \in IoThreads : io[t] \in {"none", "head", "done", "joined"}

(* The destructor leaves nothing behind: no unjoined thread and no socket.  *)
DeletedHoldsNothing ==
  api = "deleted" => /\ open = {}
                     /\ worker \in {"none", "joined"}
                     /\ \A t \in IoThreads : io[t] \in {"none", "joined"}

(* The pad the game sees implements PadOutput.                              *)
PadMode == CASE state = "Running" \/ (state = "Created" /\ pad # Absent) -> "live"
             [] state = "Created" /\ pad = Absent -> "unplugged"
             [] OTHER -> "over"
Unknown == "unknown"
Output == INSTANCE PadOutput
            WITH mode <- PadMode, out <- IF padOk THEN pad ELSE Unknown
ImplementsPadOutput == Output!PadSpec

-----------------------------------------------------------------------------
\* What the documentation says and the code does not do.

(* "100 ms without legal input": the watchdog releases the pad only when    *)
(* the last accepted input is as old as the timeout.                        *)
FreshInputKept ==
  [][ worker = "timedOut" /\ worker' = "decide" /\ armed /\ ~armed'
        => age = InputTimeout ]_vars

(* A dead control channel destroys the virtual controller.                  *)
DisconnectRemovesTarget == state = "Disconnected" ~> pad = Absent

(* A backend error puts the session into faulted or disconnected at once.   *)
BackendErrorEndsSession == ~padOk => state # "Running"
=============================================================================
