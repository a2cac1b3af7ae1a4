----------------------------- MODULE LanClient -----------------------------
(***************************************************************************)
(* LanControllerClient, the client half of UdpLanTransportBackend and the  *)
(* life cycle of SdlInputBackend: the API thread (Start, Stop, destructor), *)
(* the start worker that becomes the clean-up worker, the TCP control      *)
(* thread and the SDL poll thread.                                         *)
(*                                                                         *)
(* A step is one critical section of a mutex, one access to an atomic, or  *)
(* one blocking call.  The server, the network and the gamepad are the     *)
(* environment: sends may fail, the channel may close at any time, and the *)
(* gamepad may be unplugged.                                               *)
(***************************************************************************)
EXTENDS Integers

CONSTANTS
  States, Neutral, \* complete gamepad states, and the one with all released
  MaxSeq           \* bound on the 64-bit sequence numbers

ASSUME LanClientAssumption ==
  /\ Neutral \in States
  /\ MaxSeq \in Nat \ {0}

VARIABLES
  \* the session, guarded by LanControllerClient::mutex_
  state, stopReq, cur, latest,
  \* Stop's local send_neutral, and what a sender is about to send
  sendNeutral, frame,
  \* input_lifecycle_mutex_ and the SDL device under it
  lifecycle, device, sdlStop,
  \* the transport: atomics, open sockets, and the last datagram it sent
  tStop, connected, signaled, open, sent,
  \* program counters; FALSE once the process was terminated by a double join
  api, worker, io, alive

sessionVars   == <<state, stopReq, cur, latest>>
senderVars    == <<sendNeutral, frame>>
deviceVars    == <<lifecycle, device, sdlStop>>
transportVars == <<tStop, connected, signaled, open, sent>>
threadVars    == <<api, worker, io>>
vars == <<sessionVars, senderVars, deviceVars, transportVars, threadVars, alive>>

Terminal  == {"Stopped", "Disconnected", "Faulted"}
Sockets   == {"control", "input"}
IoThreads == {"control", "poll"}
Datagrams == [seq : 0..MaxSeq + 1, state : States]

\* A label is the next thing its thread does; a joinable std::thread is one
\* that is neither "none" nor "joined".
ApiLabels == {"idle", "notify", "closeInput", "joinPoll", "snapshot", "takeSeq",
              "send", "flag", "close", "joinable", "joining", "joinWorker",
              "dtorClose", "dtorJoin", "dtorInput", "deleted"}
WorkerLabels == {"none", "enter", "socket", "connect", "input", "hello",
                 "ackChecked", "publish", "launch", "abort", "create", "open",
                 "opening", "openFailed", "flag", "close", "joinable",
                 "joining", "failed", "check", "asleep",
                 "closeInput", "joinPoll", "done", "joined"}
IoLabels == {"none", "head", "recv", "lost", "unplugged", "send", "record",
             "signal", "checkStop", "callback", "notify",
             "failed", "failedNotify", "unplugNotify", "done", "joined"}

Init ==
  /\ state = "Created" /\ stopReq = FALSE /\ cur = Neutral /\ latest = 0
  /\ sendNeutral = FALSE
  /\ frame = [s \in {"poll", "api"} |-> [seq |-> 0, state |-> Neutral]]
  /\ lifecycle = "free" /\ device = FALSE /\ sdlStop = FALSE
  /\ tStop = FALSE /\ connected = FALSE /\ signaled = FALSE /\ open = {}
  /\ sent = [seq |-> 0, state |-> Neutral]
  /\ api = "idle" /\ worker = "none" /\ io = [t \in IoThreads |-> "none"]
  /\ alive = TRUE

-----------------------------------------------------------------------------
Goto(t, label) == io' = [io EXCEPT ![t] = label]
Over(t) == io[t] \in {"none", "done", "joined"}

\* condition_.notify_all(): a waiting worker evaluates its predicate again.
WokenNever(w) == w   \* mutant: the notification is forgotten
Woken(w) == IF w = "asleep" THEN "check" ELSE w

\* NextSequenceLocked().
SameSequence == latest          \* mutants: the number is not advanced,
DoubledSequence == latest + 2   \* or advanced twice
NextSequence == latest + 1

\* Stop, OnInputDisconnected and OnTransportDisconnected zero what is shown.
EndSessionKeepingInput(s) == state' = s /\ UNCHANGED cur   \* mutant
EndSession(s) == state' = s /\ cur' = Neutral

SessionOver == stopReq \/ state # "Running"

-----------------------------------------------------------------------------
\* LanControllerClient::Start.
Start ==
  /\ api = "idle" /\ state = "Created"
  /\ state' = "Running" /\ stopReq' = FALSE /\ worker' = "enter"
  /\ UNCHANGED <<cur, latest, senderVars, deviceVars, transportVars, api, io, alive>>

\* LanControllerClient::Stop.
StopBegin ==
  /\ api = "idle" /\ state # "Stopped"
  /\ api' = "notify"
  /\ sendNeutral' = (state = "Running")
  /\ EndSession("Stopped") /\ stopReq' = TRUE
  /\ UNCHANGED <<latest, frame, deviceVars, transportVars, worker, io, alive>>

StopNotify ==
  /\ api = "notify"
  /\ api' = "closeInput" /\ worker' = Woken(worker)
  /\ UNCHANGED <<sessionVars, senderVars, deviceVars, transportVars, io, alive>>

\* CloseInput() with SdlInputBackend::Close() inside it.
CloseInput(pc, who) ==
  /\ pc = "closeInput" /\ lifecycle = "free"
  /\ lifecycle' = who /\ sdlStop' = TRUE
  /\ UNCHANGED <<device, sessionVars, senderVars, transportVars, io, alive>>

ClosedUnjoined == TRUE   \* mutant: the poll thread is detached
Closed == Over("poll")
JoinPoll(pc) ==
  /\ pc = "joinPoll" /\ Closed
  /\ io' = [io EXCEPT !["poll"] = IF @ = "done" THEN "joined" ELSE @]
  /\ device' = FALSE /\ lifecycle' = "free"
  /\ UNCHANGED <<sdlStop, sessionVars, senderVars, transportVars, alive>>

StopCloseInput == /\ CloseInput(api, "api")
                  /\ api' = "joinPoll" /\ UNCHANGED worker
StopJoinPoll == /\ JoinPoll(api)
                /\ api' = "snapshot" /\ UNCHANGED worker

\* The final neutral state, if the session ran and is still connected.
StopSnapshot ==
  /\ api = "snapshot"
  /\ api' = IF sendNeutral /\ connected THEN "takeSeq" ELSE "flag"
  /\ UNCHANGED <<sessionVars, senderVars, deviceVars, transportVars, worker, io, alive>>

StopTakeSeq ==
  /\ api = "takeSeq"
  /\ api' = "send"
  /\ latest' = NextSequence
  /\ frame' = [frame EXCEPT !["api"] = [seq |-> latest', state |-> Neutral]]
  /\ UNCHANGED <<state, stopReq, cur, sendNeutral, deviceVars, transportVars,
                 worker, io, alive>>

\* UdpLanTransportBackend::SendState on the API thread.  A send error signals
\* a disconnect here, which a session that is Stopped does not react to.
StopSend ==
  /\ api = "send"
  /\ api' = "flag"
  /\ \/ UNCHANGED <<connected, signaled, sent>>
     \/ /\ connected /\ "input" \in open
        /\ sent' = frame["api"] /\ UNCHANGED <<connected, signaled>>
     \/ /\ connected
        /\ signaled' = TRUE /\ connected' = (signaled /\ connected)
        /\ UNCHANGED sent
  /\ UNCHANGED <<sessionVars, senderVars, deviceVars, tStop, open, worker, io, alive>>

-----------------------------------------------------------------------------
\* UdpLanTransportBackend::Stop, called by the API thread and by the worker.
TransportFlag(pc) ==
  /\ pc = "flag" /\ tStop' = TRUE
  /\ UNCHANGED <<sessionVars, senderVars, deviceVars, connected, signaled, open,
                 sent, io, alive>>

CloseSockets == connected' = FALSE /\ open' = {}
TransportClose(pc) ==
  /\ pc \in {"close", "dtorClose"} /\ CloseSockets
  /\ UNCHANGED <<sessionVars, senderVars, deviceVars, tStop, signaled, sent, io, alive>>

\* joinable(), then join().  Two threads in join() of one std::thread is
\* undefined: the second returns all the same, or the process is terminated.
Joinable(t) == io[t] \notin {"none", "joined"}

TransportJoin(pc) ==
  /\ pc = "joining"
  /\ \/ io["control"] = "done" /\ Goto("control", "joined") /\ UNCHANGED alive
     \/ io["control"] = "joined" /\ alive' \in BOOLEAN /\ UNCHANGED io
  /\ UNCHANGED <<sessionVars, senderVars, deviceVars, transportVars>>

StopTransport ==
  /\ UNCHANGED worker
  /\ \/ TransportFlag(api) /\ api' = "close"
     \/ api = "close" /\ TransportClose(api) /\ api' = "joinable"
     \/ /\ api = "joinable"
        /\ api' = IF Joinable("control") THEN "joining" ELSE "joinWorker"
        /\ UNCHANGED <<sessionVars, senderVars, deviceVars, transportVars, io, alive>>
     \/ TransportJoin(api) /\ api' = "joinWorker"

StopJoinWorker ==
  /\ api = "joinWorker" /\ worker \in {"none", "done", "joined"}
  /\ api' = "idle" /\ worker' = IF worker = "done" THEN "joined" ELSE worker
  /\ UNCHANGED <<sessionVars, senderVars, deviceVars, transportVars, io, alive>>

\* ~LanControllerClient after Stop: the transport and the SDL backend are
\* destroyed, each stopping once more, after the session's own members.
Delete ==
  /\ api = "idle" /\ state = "Stopped"
  /\ api' = "dtorClose" /\ tStop' = TRUE
  /\ UNCHANGED <<sessionVars, senderVars, deviceVars, connected, signaled, open,
                 sent, worker, io, alive>>

DeleteTransport ==
  /\ UNCHANGED worker
  /\ \/ api = "dtorClose" /\ TransportClose(api) /\ api' = "dtorJoin"
     \/ /\ api = "dtorJoin" /\ Over("control")
        /\ io' = [io EXCEPT !["control"] = IF @ = "done" THEN "joined" ELSE @]
        /\ api' = "dtorInput"
        /\ UNCHANGED <<sessionVars, senderVars, deviceVars, transportVars, alive>>

DeleteInput ==
  /\ api = "dtorInput" /\ Over("poll")
  /\ api' = "deleted" /\ device' = FALSE /\ sdlStop' = TRUE
  /\ io' = [io EXCEPT !["poll"] = IF @ = "done" THEN "joined" ELSE @]
  /\ UNCHANGED <<sessionVars, senderVars, lifecycle, transportVars, worker, alive>>

CallerStep == Start \/ StopBegin \/ Delete
ApiStep == \/ StopNotify \/ StopCloseInput \/ StopJoinPoll
           \/ StopSnapshot \/ StopTakeSeq \/ StopSend
           \/ StopTransport \/ StopJoinWorker
           \/ DeleteTransport \/ DeleteInput

-----------------------------------------------------------------------------
\* The worker while it is in UdpLanTransportBackend::StartClient.  A stop
\* between "socket" and "publish" is noticed at the latest at "ackChecked".
ConnectUnchanged == UNCHANGED <<sessionVars, senderVars, deviceVars, tStop,
                                signaled, sent, api, alive>>

Enter ==
  /\ worker = "enter"
  /\ worker' = IF tStop THEN "failed" ELSE "socket"
  /\ UNCHANGED <<connected, open, io>> /\ ConnectUnchanged

Socket ==
  /\ worker = "socket"
  /\ \/ worker' = "failed" /\ UNCHANGED open
     \/ worker' = "connect" /\ open' = open \cup {"control"}
  /\ UNCHANGED <<connected, io>> /\ ConnectUnchanged

\* No server, a refused connection, or the three seconds are over.
Connect ==
  /\ worker = "connect"
  /\ \/ worker' = "failed" /\ open' = open \ {"control"}
     \/ worker' = "input" /\ UNCHANGED open
  /\ UNCHANGED <<connected, io>> /\ ConnectUnchanged

InputSocket ==
  /\ worker = "input"
  /\ \/ worker' = "failed" /\ open' = open \ {"control"}
     \/ worker' = "hello" /\ open' = open \cup {"input"}
  /\ UNCHANGED <<connected, io>> /\ ConnectUnchanged

\* HELLO and its answer: none, a pairing mismatch, an invalid frame, the ack.
Hello ==
  /\ worker = "hello"
  /\ \/ worker' = "failed" /\ open' = {}
     \/ worker' = "ackChecked" /\ UNCHANGED open
  /\ UNCHANGED <<connected, io>> /\ ConnectUnchanged

AckChecked ==
  /\ worker = "ackChecked"
  /\ IF tStop THEN worker' = "failed" /\ open' = {}
              ELSE worker' = "publish" /\ UNCHANGED open
  /\ UNCHANGED <<connected, io>> /\ ConnectUnchanged

Publish ==
  /\ worker = "publish"
  /\ worker' = "launch" /\ connected' = TRUE
  /\ UNCHANGED <<open, io>> /\ ConnectUnchanged

\* On a stop the worker calls Stop() itself; no thread exists to join yet.
Launch ==
  /\ worker = "launch"
  /\ worker' = IF tStop THEN "abort" ELSE "create"
  /\ UNCHANGED <<connected, open, io>> /\ ConnectUnchanged

Abort ==
  /\ worker = "abort"
  /\ worker' = "failed" /\ CloseSockets
  /\ UNCHANGED io /\ ConnectUnchanged

CreateControl ==
  /\ worker = "create"
  /\ worker' = "open" /\ Goto("control", "head")
  /\ UNCHANGED <<connected, open>> /\ ConnectUnchanged

\* LanControllerClient::StartWorker, the transport did not start.
StartFailed ==
  /\ worker = "failed"
  /\ worker' = "done"
  /\ state' = IF SessionOver THEN state ELSE "Faulted"
  /\ UNCHANGED <<stopReq, cur, latest, senderVars, deviceVars, transportVars,
                 api, io, alive>>

\* Opening the device: the check and the call share input_lifecycle_mutex_.
OpenUnchecked == FALSE   \* mutant: the check under the lock is left out
OpenRefused == SessionOver

OpenCheck ==
  /\ worker = "open" /\ lifecycle = "free"
  /\ IF OpenRefused THEN worker' = "done" /\ UNCHANGED lifecycle
                    ELSE worker' = "opening" /\ lifecycle' = "worker"
  /\ UNCHANGED <<device, sdlStop, sessionVars, senderVars, transportVars, api, io, alive>>

OpenDevice ==
  /\ worker = "opening"
  /\ lifecycle' = "free"
  /\ \/ /\ worker' = "check" /\ device' = TRUE /\ sdlStop' = FALSE
        /\ Goto("poll", "head")
     \/ worker' = "openFailed" /\ UNCHANGED <<device, sdlStop, io>>
  /\ UNCHANGED <<sessionVars, senderVars, transportVars, api, alive>>

OpenFailed ==
  /\ worker = "openFailed"
  /\ worker' = "flag"
  /\ state' = IF SessionOver THEN state ELSE "Faulted"
  /\ UNCHANGED <<stopReq, cur, latest, senderVars, deviceVars, transportVars,
                 api, io, alive>>

AbandonTransport ==
  /\ UNCHANGED api
  /\ \/ TransportFlag(worker) /\ worker' = "close"
     \/ TransportClose(worker) /\ worker' = "joinable"
     \/ /\ worker = "joinable"
        /\ worker' = IF Joinable("control") THEN "joining" ELSE "done"
        /\ UNCHANGED <<sessionVars, senderVars, deviceVars, transportVars, io, alive>>
     \/ TransportJoin(worker) /\ worker' = "done"

\* Waiting for the end of the session, then closing the device.
Check ==
  /\ worker = "check"
  /\ worker' = IF SessionOver THEN "closeInput" ELSE "asleep"
  /\ UNCHANGED <<sessionVars, senderVars, deviceVars, transportVars, api, io, alive>>

CleanUp == /\ UNCHANGED api
           /\ \/ CloseInput(worker, "worker") /\ worker' = "joinPoll"
              \/ JoinPoll(worker) /\ worker' = "done"

WorkerStep == \/ Enter \/ Socket \/ Connect \/ InputSocket \/ Hello \/ AckChecked
              \/ Publish \/ Launch \/ Abort \/ CreateControl
              \/ StartFailed \/ OpenCheck \/ OpenDevice \/ OpenFailed
              \/ AbandonTransport \/ Check \/ CleanUp

-----------------------------------------------------------------------------
IoUnchanged == UNCHANGED <<stopReq, sendNeutral, deviceVars, tStop, open, api, alive>>

\* ClientControlLoop: a heartbeat that cannot be sent; 50 ms without a frame,
\* or a rumble; the end of the channel, STOP, or an invalid frame.
ControlHead ==
  /\ io["control"] = "head"
  /\ \/ (tStop \/ ~connected) /\ Goto("control", "done") /\ UNCHANGED signaled
     \/ ~tStop /\ connected /\ Goto("control", "recv") /\ UNCHANGED signaled
     \/ /\ ~tStop /\ connected
        /\ Goto("control", IF signaled THEN "done" ELSE "signal")
        /\ signaled' = TRUE
  /\ UNCHANGED <<state, cur, latest, frame, connected, sent, worker>> /\ IoUnchanged

ControlRecv ==
  /\ io["control"] = "recv"
  /\ \/ Goto("control", "head") /\ UNCHANGED signaled
     \/ /\ Goto("control", IF signaled THEN "done" ELSE "signal")
        /\ signaled' = TRUE
  /\ UNCHANGED <<state, cur, latest, frame, connected, sent, worker>> /\ IoUnchanged

\* SdlInputBackend::PollLoop: the stop flag, or a state the session accepts
\* (one it refuses leaves the loop where it is).
PollHead ==
  /\ io["poll"] = "head"
  /\ \/ sdlStop /\ Goto("poll", "done") /\ UNCHANGED <<latest, frame>>
     \/ /\ ~sdlStop /\ ~SessionOver /\ latest < MaxSeq
        /\ latest' = NextSequence
        /\ \E s \in States :
             frame' = [frame EXCEPT !["poll"] = [seq |-> latest', state |-> s]]
        /\ Goto("poll", "send")
  /\ UNCHANGED <<state, cur, connected, signaled, sent, worker>> /\ IoUnchanged

\* The gamepad is no longer connected.
Unplug ==
  /\ io["poll"] = "head" /\ ~sdlStop
  /\ Goto("poll", "lost")
  /\ UNCHANGED <<state, cur, latest, frame, connected, signaled, sent, worker>>
  /\ IoUnchanged

PollLost ==
  /\ io["poll"] = "lost"
  /\ Goto("poll", IF sdlStop THEN "done" ELSE "unplugged")
  /\ UNCHANGED <<state, cur, latest, frame, connected, signaled, sent, worker>>
  /\ IoUnchanged

\* OnInputDisconnected.
OnInputDisconnected ==
  /\ io["poll"] = "unplugged"
  /\ IF state = "Running"
       THEN EndSession("Disconnected") /\ Goto("poll", "unplugNotify")
       ELSE UNCHANGED <<state, cur>> /\ Goto("poll", "done")
  /\ UNCHANGED <<latest, frame, connected, signaled, sent, worker>> /\ IoUnchanged

\* SendState on the poll thread: not connected or no socket; sent, or dropped
\* by a full buffer; a send error.
PollSend ==
  /\ io["poll"] = "send"
  /\ \/ /\ ~connected \/ "input" \notin open
        /\ Goto("poll", "failed") /\ UNCHANGED <<signaled, sent>>
     \/ /\ connected /\ "input" \in open
        /\ sent' \in {sent, frame["poll"]}
        /\ Goto("poll", "record") /\ UNCHANGED signaled
     \/ /\ connected
        /\ Goto("poll", IF signaled THEN "failed" ELSE "signal")
        /\ signaled' = TRUE /\ UNCHANGED sent
  /\ UNCHANGED <<state, cur, latest, frame, connected, worker>> /\ IoUnchanged

RecordAnyway == TRUE   \* mutant: the state is recorded whatever has happened
Recording == state = "Running"

\* The last part of OnInputState.
PollRecord ==
  /\ io["poll"] = "record"
  /\ cur' = IF Recording THEN frame["poll"].state ELSE cur
  /\ Goto("poll", "head")
  /\ UNCHANGED <<state, latest, frame, connected, signaled, sent, worker>>
  /\ IoUnchanged

\* The rest of SignalDisconnected.  The poll thread is in SendState then, and
\* calls OnTransportDisconnected itself when that has failed.
After(t) == IF t = "poll" THEN "failed" ELSE "done"

Disconnect(t) ==
  /\ \/ io[t] = "signal" /\ connected' = FALSE /\ Goto(t, "checkStop")
     \/ /\ io[t] = "checkStop" /\ Goto(t, IF tStop THEN After(t) ELSE "callback")
        /\ UNCHANGED connected
  /\ UNCHANGED <<state, cur, latest, frame, signaled, sent, worker>> /\ IoUnchanged

OnTransportDisconnected(t) ==
  /\ io[t] \in {"callback", "failed"}
  /\ IF state = "Running"
       THEN /\ EndSession("Disconnected")
            /\ Goto(t, IF io[t] = "failed" THEN "failedNotify" ELSE "notify")
       ELSE /\ UNCHANGED <<state, cur>>
            /\ Goto(t, IF io[t] = "failed" THEN "head" ELSE After(t))
  /\ UNCHANGED <<latest, frame, connected, signaled, sent, worker>> /\ IoUnchanged

AfterNotify(t) == CASE io[t] = "notify"       -> After(t)
                    [] io[t] = "failedNotify" -> "head"
                    [] io[t] = "unplugNotify" -> "done"

DisconnectNotify(t) ==
  /\ io[t] \in {"notify", "failedNotify", "unplugNotify"}
  /\ worker' = Woken(worker) /\ Goto(t, AfterNotify(t))
  /\ UNCHANGED <<state, cur, latest, frame, connected, signaled, sent>>
  /\ IoUnchanged

Disconnecting(t) == Disconnect(t) \/ OnTransportDisconnected(t) \/ DisconnectNotify(t)
ControlStep == ControlHead \/ ControlRecv \/ Disconnecting("control")
PollStep == \/ PollHead \/ PollLost \/ OnInputDisconnected \/ PollSend \/ PollRecord
            \/ Disconnecting("poll")

-----------------------------------------------------------------------------
\* After the destructor, or once terminated, the program does nothing more.
Next == alive /\ (\/ CallerStep \/ ApiStep \/ WorkerStep
                  \/ ControlStep \/ PollStep \/ Unplug)

Spec == Init /\ [][Next]_vars

\* Every thread keeps running.  Nobody has to call Start, Stop or the
\* destructor, and nothing has to fail or to be unplugged.
Fairness == /\ WF_vars(alive /\ ApiStep) /\ WF_vars(alive /\ WorkerStep)
            /\ WF_vars(alive /\ ControlStep) /\ WF_vars(alive /\ PollStep)

FairSpec == Spec /\ Fairness

-----------------------------------------------------------------------------
SessionTypeOK ==
  /\ state \in {"Created", "Running"} \cup Terminal
  /\ stopReq \in BOOLEAN /\ cur \in States /\ sendNeutral \in BOOLEAN

NumberTypeOK ==
  /\ latest \in 0..MaxSeq + 1 /\ sent \in Datagrams
  /\ frame \in [{"poll", "api"} -> Datagrams]

DeviceTypeOK ==
  /\ lifecycle \in {"free", "api", "worker"}
  /\ device \in BOOLEAN /\ sdlStop \in BOOLEAN

TransportTypeOK ==
  /\ tStop \in BOOLEAN /\ connected \in BOOLEAN /\ signaled \in BOOLEAN
  /\ open \subseteq Sockets

ThreadTypeOK ==
  /\ api \in ApiLabels /\ worker \in WorkerLabels
  /\ io \in [IoThreads -> IoLabels] /\ alive \in BOOLEAN

TypeOK == /\ SessionTypeOK /\ NumberTypeOK /\ DeviceTypeOK
          /\ TransportTypeOK /\ ThreadTypeOK

(* A session that has ended shows no input: the poll thread, back from a    *)
(* send that was under way, must not record what it sent.                   *)
EndedShowsNeutral == state # "Running" => cur = Neutral

(* Once Stop has closed the input nothing samples the gamepad any more and   *)
(* the device is closed, however Stop met the worker between connecting and *)
(* opening: the worker cannot open it behind Stop's back.                   *)
InputClosed == state = "Stopped" /\ api \notin {"notify", "closeInput", "joinPoll"}
StoppedSamplesNothing == InputClosed => ~device /\ io["poll"] \in {"none", "joined"}

(* The server drops what is not newer than the last datagram: each datagram  *)
(* goes out with a higher number than all before it, the final neutral too. *)
SentInOrder == [][ sent' # sent => sent'.seq > sent.seq ]_vars

(* Once Stop has closed the input only its own neutral state is sent: no     *)
(* sample that was under way follows and presses the buttons again.         *)
NoInputAfterClose ==
  [][ InputClosed /\ sent' # sent => sent'.state = Neutral /\ sent'.seq = latest ]_vars

(* The destructor runs after Stop has returned: when it has begun no thread  *)
(* is left inside a callback into the session, whose mutex is destroyed      *)
(* before the transport and the input backend stop their threads.           *)
NoCallbackIntoDeleted ==
  api \in {"dtorClose", "dtorJoin", "dtorInput", "deleted"} =>
    /\ worker \in {"none", "done", "joined"}
    /\ \A t \in IoThreads : io[t] \in {"none", "head", "done", "joined"}

(* A session that loses its server or its gamepad lets go of the device.     *)
DisconnectClosesDevice == state = "Disconnected" ~> ~device \/ ~alive

(* Stop and the destructor return: no join waits for a thread that waits    *)
(* for the caller or for the lifecycle mutex.                               *)
StopReturns == api \in {"notify", "dtorClose"} ~> api \in {"idle", "deleted"} \/ ~alive

-----------------------------------------------------------------------------
\* What the documentation says and the code does not do.

(* Stop joins each thread once: at most one thread is in join() of the        *)
(* control thread.                                                          *)
NoDoubleJoin == ~(api = "joining" /\ worker = "joining")

(* Losing the gamepad ends the whole session, its connection included.       *)
DisconnectEndsTransport == state = "Disconnected" ~> ~connected
=============================================================================
