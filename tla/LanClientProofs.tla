-------------------------- MODULE LanClientProofs --------------------------
(***************************************************************************)
(* Theorems about LanClient, for every set of states and every bound on    *)
(* the sequence numbers.  They all follow from one inductive invariant,    *)
(* which says what is settled at each point of Stop and of the start.      *)
(***************************************************************************)
EXTENDS LanClient, TLAPS

\* The worker has not opened the device yet, or could not.
Early == {"none", "enter", "socket", "connect", "input", "hello", "ackChecked",
          "publish", "launch", "abort", "create", "open", "opening",
          "openFailed", "failed"}
EarlyIsQuiet == /\ worker \in Early => io["poll"] = "none" /\ cur = Neutral
                /\ state = "Created" => worker = "none"

\* input_lifecycle_mutex_ is held exactly while a thread opens or closes.
LifecycleHeld == /\ lifecycle = "api" <=> api = "joinPoll"
                 /\ lifecycle = "worker" <=> worker \in {"opening", "joinPoll"}

\* Stop leaves no room for an opening, and everything after its first step
\* finds the session Stopped.
StopIsOrderly == /\ api # "idle" => state = "Stopped"
                 /\ state = "Stopped" => stopReq
                 /\ worker = "opening" => ~InputClosed

\* Numbers not sent yet are newer than the last one sent; Stop takes one.
BeforeTake == {"idle", "notify", "closeInput", "joinPoll", "snapshot", "takeSeq"}
NumbersGrow ==
  /\ sent.seq <= latest
  /\ io["poll"] = "send" => frame["poll"].seq = latest /\ sent.seq < latest
  /\ api = "send" => frame["api"] = [seq |-> latest, state |-> Neutral] /\ sent.seq < latest
  /\ state # "Stopped" \/ api \in BeforeTake \ {"idle"} => latest <= MaxSeq

ClientInv == /\ TypeOK /\ EndedShowsNeutral /\ EarlyIsQuiet /\ LifecycleHeld
             /\ StopIsOrderly /\ StoppedSamplesNothing /\ NumbersGrow

USE LanClientAssumption
    DEF sessionVars, senderVars, deviceVars, transportVars, threadVars,
        Terminal, Sockets, IoThreads, ApiLabels, WorkerLabels, IoLabels

(* The initial state is settled in every respect.                           *)
LEMMA ClientInvInitially == Init => ClientInv
<1> SUFFICES ASSUME Init PROVE ClientInv
  OBVIOUS
<1>1. TypeOK
  <2>1. NumberTypeOK BY DEF Init, NumberTypeOK, Datagrams
  <2>2. ThreadTypeOK BY DEF Init, ThreadTypeOK
  <2> QED BY <2>1, <2>2 DEF Init, TypeOK, SessionTypeOK, DeviceTypeOK, TransportTypeOK
<1>2. EndedShowsNeutral /\ EarlyIsQuiet /\ NumbersGrow
  BY DEF Init, EndedShowsNeutral, EarlyIsQuiet, NumbersGrow
<1>3. LifecycleHeld /\ StopIsOrderly /\ StoppedSamplesNothing
  BY DEF Init, LifecycleHeld, StopIsOrderly, StoppedSamplesNothing, InputClosed
<1> QED BY <1>1, <1>2, <1>3 DEF ClientInv

(* ClientInv is inductive.  A step is one of the caller, of Stop, of the     *)
(* start worker, of the control thread or of the poll thread.               *)
LEMMA ClientInvKept == ClientInv /\ [Next]_vars => ClientInv'
<1> SUFFICES ASSUME TypeOK, EndedShowsNeutral, EarlyIsQuiet, LifecycleHeld,
                    StopIsOrderly, StoppedSamplesNothing, NumbersGrow,
                    [Next]_vars
             PROVE  ClientInv'
  BY DEF ClientInv
<1>1. CASE CallerStep
  <2> USE <1>1 DEF CallerStep, Start, StopBegin, Delete, EndSession
  <2>1. TypeOK'
    <3>1. SessionTypeOK'   BY DEF TypeOK, SessionTypeOK, NumberTypeOK, Datagrams
    <3>2. NumberTypeOK'
      BY DEF TypeOK, SessionTypeOK, NumberTypeOK, Datagrams, NumbersGrow,
             BeforeTake, StopIsOrderly
    <3>3. DeviceTypeOK'    BY DEF TypeOK, DeviceTypeOK
    <3>4. TransportTypeOK' BY DEF TypeOK, TransportTypeOK
    <3>5. ThreadTypeOK'    BY DEF TypeOK, ThreadTypeOK
    <3> QED BY <3>1, <3>2, <3>3, <3>4, <3>5 DEF TypeOK
  <2>2. EndedShowsNeutral'
    BY DEF EndedShowsNeutral, EarlyIsQuiet, Early, TypeOK, SessionTypeOK, ThreadTypeOK
  <2>3. EarlyIsQuiet'
    BY DEF EarlyIsQuiet, Early, EndedShowsNeutral, TypeOK, SessionTypeOK, ThreadTypeOK
  <2>4. LifecycleHeld'
    BY DEF LifecycleHeld, EarlyIsQuiet, TypeOK, DeviceTypeOK, ThreadTypeOK
  <2>5. StopIsOrderly'
    BY DEF StopIsOrderly, LifecycleHeld, InputClosed, TypeOK, SessionTypeOK, ThreadTypeOK
  <2>6. StoppedSamplesNothing'
    BY DEF StoppedSamplesNothing, StopIsOrderly, LifecycleHeld, InputClosed,
             TypeOK, SessionTypeOK, ThreadTypeOK
  <2>7. NumbersGrow'
    BY DEF NumbersGrow, BeforeTake, StoppedSamplesNothing, InputClosed, StopIsOrderly,
             EarlyIsQuiet, Early, Datagrams, TypeOK, SessionTypeOK, NumberTypeOK, ThreadTypeOK
  <2> QED BY <2>1, <2>2, <2>3, <2>4, <2>5, <2>6, <2>7 DEF ClientInv
<1>2. CASE StopNotify \/ StopCloseInput \/ StopJoinPoll
  <2> USE <1>2 DEF StopNotify, StopCloseInput, StopJoinPoll, CloseInput, JoinPoll, Closed, Over, Woken
  <2>1. TypeOK'
    <3>1. SessionTypeOK'   BY DEF TypeOK, SessionTypeOK, NumberTypeOK, Datagrams
    <3>2. NumberTypeOK'
      BY DEF TypeOK, SessionTypeOK, NumberTypeOK, Datagrams, NumbersGrow,
             BeforeTake, StopIsOrderly
    <3>3. DeviceTypeOK'    BY DEF TypeOK, DeviceTypeOK
    <3>4. TransportTypeOK' BY DEF TypeOK, TransportTypeOK
    <3>5. ThreadTypeOK'    BY DEF TypeOK, ThreadTypeOK
    <3> QED BY <3>1, <3>2, <3>3, <3>4, <3>5 DEF TypeOK
  <2>2. EndedShowsNeutral'
    BY DEF EndedShowsNeutral, EarlyIsQuiet, Early, TypeOK, SessionTypeOK, ThreadTypeOK
  <2>3. EarlyIsQuiet'
    BY DEF EarlyIsQuiet, Early, EndedShowsNeutral, TypeOK, SessionTypeOK, ThreadTypeOK
  <2>4. LifecycleHeld'
    BY DEF LifecycleHeld, TypeOK, DeviceTypeOK, ThreadTypeOK
  <2>5. StopIsOrderly'
    BY DEF StopIsOrderly, LifecycleHeld, InputClosed, TypeOK, SessionTypeOK, ThreadTypeOK
  <2>6. StoppedSamplesNothing'
    BY DEF StoppedSamplesNothing, StopIsOrderly, LifecycleHeld, InputClosed,
             TypeOK, SessionTypeOK, ThreadTypeOK
  <2>7. NumbersGrow'
    BY DEF NumbersGrow, BeforeTake, StoppedSamplesNothing, InputClosed, StopIsOrderly,
             EarlyIsQuiet, Early, Datagrams, TypeOK, SessionTypeOK, NumberTypeOK, ThreadTypeOK
  <2> QED BY <2>1, <2>2, <2>3, <2>4, <2>5, <2>6, <2>7 DEF ClientInv
<1>3. CASE StopSnapshot \/ StopTakeSeq \/ StopSend
  <2> USE <1>3 DEF StopSnapshot, StopTakeSeq, StopSend, NextSequence
  <2>1. TypeOK'
    <3>1. SessionTypeOK'   BY DEF TypeOK, SessionTypeOK, NumberTypeOK, Datagrams
    <3>2. NumberTypeOK'
      BY DEF TypeOK, SessionTypeOK, NumberTypeOK, Datagrams, NumbersGrow,
             BeforeTake, StopIsOrderly
    <3>3. DeviceTypeOK'    BY DEF TypeOK, DeviceTypeOK
    <3>4. TransportTypeOK' BY DEF TypeOK, TransportTypeOK
    <3>5. ThreadTypeOK'    BY DEF TypeOK, ThreadTypeOK
    <3> QED BY <3>1, <3>2, <3>3, <3>4, <3>5 DEF TypeOK
  <2>2. EndedShowsNeutral'
    BY DEF EndedShowsNeutral, EarlyIsQuiet, Early, TypeOK, SessionTypeOK, ThreadTypeOK
  <2>3. EarlyIsQuiet'
    BY DEF EarlyIsQuiet, Early, EndedShowsNeutral, TypeOK, SessionTypeOK, ThreadTypeOK
  <2>4. LifecycleHeld'
    BY DEF LifecycleHeld, TypeOK, DeviceTypeOK, ThreadTypeOK
  <2>5. StopIsOrderly'
    BY DEF StopIsOrderly, LifecycleHeld, InputClosed, TypeOK, SessionTypeOK, ThreadTypeOK
  <2>6. StoppedSamplesNothing'
    BY DEF StoppedSamplesNothing, StopIsOrderly, LifecycleHeld, InputClosed,
             TypeOK, SessionTypeOK, ThreadTypeOK
  <2>7. NumbersGrow'
    BY DEF NumbersGrow, BeforeTake, StoppedSamplesNothing, InputClosed, StopIsOrderly,
             EarlyIsQuiet, Early, Datagrams, TypeOK, SessionTypeOK, NumberTypeOK, ThreadTypeOK
  <2> QED BY <2>1, <2>2, <2>3, <2>4, <2>5, <2>6, <2>7 DEF ClientInv
<1>4. CASE StopTransport \/ StopJoinWorker \/ DeleteTransport \/ DeleteInput
  <2> USE <1>4 DEF StopTransport, StopJoinWorker, DeleteTransport, DeleteInput,
               TransportFlag, TransportClose, CloseSockets, TransportJoin, Goto, Over
  <2>1. TypeOK'
    <3>1. SessionTypeOK'   BY DEF TypeOK, SessionTypeOK, NumberTypeOK, Datagrams
    <3>2. NumberTypeOK'
      BY DEF TypeOK, SessionTypeOK, NumberTypeOK, Datagrams, NumbersGrow,
             BeforeTake, StopIsOrderly
    <3>3. DeviceTypeOK'    BY DEF TypeOK, DeviceTypeOK
    <3>4. TransportTypeOK' BY DEF TypeOK, TransportTypeOK
    <3>5. ThreadTypeOK'    BY DEF TypeOK, ThreadTypeOK
    <3> QED BY <3>1, <3>2, <3>3, <3>4, <3>5 DEF TypeOK
  <2>2. EndedShowsNeutral'
    BY DEF EndedShowsNeutral, EarlyIsQuiet, Early, TypeOK, SessionTypeOK, ThreadTypeOK
  <2>3. EarlyIsQuiet'
    BY DEF EarlyIsQuiet, Early, EndedShowsNeutral, TypeOK, SessionTypeOK, ThreadTypeOK
  <2>4. LifecycleHeld'
    BY DEF LifecycleHeld, TypeOK, DeviceTypeOK, ThreadTypeOK
  <2>5. StopIsOrderly'
    BY DEF StopIsOrderly, LifecycleHeld, InputClosed, TypeOK, SessionTypeOK, ThreadTypeOK
  <2>6. StoppedSamplesNothing'
    BY DEF StoppedSamplesNothing, StopIsOrderly, LifecycleHeld, InputClosed,
             TypeOK, SessionTypeOK, ThreadTypeOK
  <2>7. NumbersGrow'
    BY DEF NumbersGrow, BeforeTake, StoppedSamplesNothing, InputClosed, StopIsOrderly,
             EarlyIsQuiet, Early, Datagrams, TypeOK, SessionTypeOK, NumberTypeOK, ThreadTypeOK
  <2> QED BY <2>1, <2>2, <2>3, <2>4, <2>5, <2>6, <2>7 DEF ClientInv
<1>5. CASE Enter \/ Socket \/ Connect \/ InputSocket \/ Hello \/ AckChecked
  <2> USE <1>5 DEF Enter, Socket, Connect, InputSocket, Hello, AckChecked, ConnectUnchanged
  <2>1. TypeOK'
    <3>1. SessionTypeOK'   BY DEF TypeOK, SessionTypeOK, NumberTypeOK, Datagrams
    <3>2. NumberTypeOK'
      BY DEF TypeOK, SessionTypeOK, NumberTypeOK, Datagrams, NumbersGrow,
             BeforeTake, StopIsOrderly
    <3>3. DeviceTypeOK'    BY DEF TypeOK, DeviceTypeOK
    <3>4. TransportTypeOK' BY DEF TypeOK, TransportTypeOK
    <3>5. ThreadTypeOK'    BY DEF TypeOK, ThreadTypeOK
    <3> QED BY <3>1, <3>2, <3>3, <3>4, <3>5 DEF TypeOK
  <2>2. EndedShowsNeutral'
    BY DEF EndedShowsNeutral, EarlyIsQuiet, Early, TypeOK, SessionTypeOK, ThreadTypeOK
  <2>3. EarlyIsQuiet'
    BY DEF EarlyIsQuiet, Early, EndedShowsNeutral, TypeOK, SessionTypeOK, ThreadTypeOK
  <2>4. LifecycleHeld'
    BY DEF LifecycleHeld, TypeOK, DeviceTypeOK, ThreadTypeOK
  <2>5. StopIsOrderly'
    BY DEF StopIsOrderly, LifecycleHeld, InputClosed, TypeOK, SessionTypeOK, ThreadTypeOK
  <2>6. StoppedSamplesNothing'
    BY DEF StoppedSamplesNothing, StopIsOrderly, LifecycleHeld, InputClosed,
             TypeOK, SessionTypeOK, ThreadTypeOK
  <2>7. NumbersGrow'
    BY DEF NumbersGrow, BeforeTake, StoppedSamplesNothing, InputClosed, StopIsOrderly,
             EarlyIsQuiet, Early, Datagrams, TypeOK, SessionTypeOK, NumberTypeOK, ThreadTypeOK
  <2> QED BY <2>1, <2>2, <2>3, <2>4, <2>5, <2>6, <2>7 DEF ClientInv
<1>6. CASE Publish \/ Launch \/ Abort \/ CreateControl \/ StartFailed
  <2> USE <1>6 DEF Publish, Launch, Abort, CreateControl, StartFailed, ConnectUnchanged,
               SessionOver, CloseSockets, Goto
  <2>1. TypeOK'
    <3>1. SessionTypeOK'   BY DEF TypeOK, SessionTypeOK, NumberTypeOK, Datagrams
    <3>2. NumberTypeOK'
      BY DEF TypeOK, SessionTypeOK, NumberTypeOK, Datagrams, NumbersGrow,
             BeforeTake, StopIsOrderly
    <3>3. DeviceTypeOK'    BY DEF TypeOK, DeviceTypeOK
    <3>4. TransportTypeOK' BY DEF TypeOK, TransportTypeOK
    <3>5. ThreadTypeOK'    BY DEF TypeOK, ThreadTypeOK
    <3> QED BY <3>1, <3>2, <3>3, <3>4, <3>5 DEF TypeOK
  <2>2. EndedShowsNeutral'
    BY DEF EndedShowsNeutral, EarlyIsQuiet, Early, TypeOK, SessionTypeOK, ThreadTypeOK
  <2>3. EarlyIsQuiet'
    BY DEF EarlyIsQuiet, Early, EndedShowsNeutral, TypeOK, SessionTypeOK, ThreadTypeOK
  <2>4. LifecycleHeld'
    BY DEF LifecycleHeld, TypeOK, DeviceTypeOK, ThreadTypeOK
  <2>5. StopIsOrderly'
    BY DEF StopIsOrderly, LifecycleHeld, InputClosed, TypeOK, SessionTypeOK, ThreadTypeOK
  <2>6. StoppedSamplesNothing'
    BY DEF StoppedSamplesNothing, StopIsOrderly, LifecycleHeld, InputClosed,
             TypeOK, SessionTypeOK, ThreadTypeOK
  <2>7. NumbersGrow'
    BY DEF NumbersGrow, BeforeTake, StoppedSamplesNothing, InputClosed, StopIsOrderly,
             EarlyIsQuiet, Early, Datagrams, TypeOK, SessionTypeOK, NumberTypeOK, ThreadTypeOK
  <2> QED BY <2>1, <2>2, <2>3, <2>4, <2>5, <2>6, <2>7 DEF ClientInv
<1>7. CASE OpenCheck \/ OpenDevice \/ OpenFailed
  <2> USE <1>7 DEF OpenCheck, OpenDevice, OpenFailed, OpenRefused, SessionOver, Goto
  <2>1. TypeOK'
    <3>1. SessionTypeOK'   BY DEF TypeOK, SessionTypeOK, NumberTypeOK, Datagrams
    <3>2. NumberTypeOK'
      BY DEF TypeOK, SessionTypeOK, NumberTypeOK, Datagrams, NumbersGrow,
             BeforeTake, StopIsOrderly
    <3>3. DeviceTypeOK'    BY DEF TypeOK, DeviceTypeOK
    <3>4. TransportTypeOK' BY DEF TypeOK, TransportTypeOK
    <3>5. ThreadTypeOK'    BY DEF TypeOK, ThreadTypeOK
    <3> QED BY <3>1, <3>2, <3>3, <3>4, <3>5 DEF TypeOK
  <2>2. EndedShowsNeutral'
    BY DEF EndedShowsNeutral, EarlyIsQuiet, Early, TypeOK, SessionTypeOK, ThreadTypeOK
  <2>3. EarlyIsQuiet'
    BY DEF EarlyIsQuiet, Early, EndedShowsNeutral, TypeOK, SessionTypeOK, ThreadTypeOK
  <2>4. LifecycleHeld'
    BY DEF LifecycleHeld, TypeOK, DeviceTypeOK, ThreadTypeOK
  <2>5. StopIsOrderly'
    BY DEF StopIsOrderly, LifecycleHeld, InputClosed, TypeOK, SessionTypeOK, ThreadTypeOK
  <2>6. StoppedSamplesNothing'
    BY DEF StoppedSamplesNothing, StopIsOrderly, LifecycleHeld, InputClosed,
             TypeOK, SessionTypeOK, ThreadTypeOK
  <2>7. NumbersGrow'
    BY DEF NumbersGrow, BeforeTake, StoppedSamplesNothing, InputClosed, StopIsOrderly,
             EarlyIsQuiet, Early, Datagrams, TypeOK, SessionTypeOK, NumberTypeOK, ThreadTypeOK
  <2> QED BY <2>1, <2>2, <2>3, <2>4, <2>5, <2>6, <2>7 DEF ClientInv
<1>8. CASE AbandonTransport \/ Check \/ CleanUp
  <2> USE <1>8 DEF AbandonTransport, Check, CleanUp, TransportFlag, TransportClose, CloseSockets,
               TransportJoin, CloseInput, JoinPoll, Closed, Over, SessionOver, Goto
  <2>1. TypeOK'
    <3>1. SessionTypeOK'   BY DEF TypeOK, SessionTypeOK, NumberTypeOK, Datagrams
    <3>2. NumberTypeOK'
      BY DEF TypeOK, SessionTypeOK, NumberTypeOK, Datagrams, NumbersGrow,
             BeforeTake, StopIsOrderly
    <3>3. DeviceTypeOK'    BY DEF TypeOK, DeviceTypeOK
    <3>4. TransportTypeOK' BY DEF TypeOK, TransportTypeOK
    <3>5. ThreadTypeOK'    BY DEF TypeOK, ThreadTypeOK
    <3> QED BY <3>1, <3>2, <3>3, <3>4, <3>5 DEF TypeOK
  <2>2. EndedShowsNeutral'
    BY DEF EndedShowsNeutral, EarlyIsQuiet, Early, TypeOK, SessionTypeOK, ThreadTypeOK
  <2>3. EarlyIsQuiet'
    BY DEF EarlyIsQuiet, Early, EndedShowsNeutral, TypeOK, SessionTypeOK, ThreadTypeOK
  <2>4. LifecycleHeld'
    BY DEF LifecycleHeld, TypeOK, DeviceTypeOK, ThreadTypeOK
  <2>5. StopIsOrderly'
    BY DEF StopIsOrderly, LifecycleHeld, InputClosed, TypeOK, SessionTypeOK, ThreadTypeOK
  <2>6. StoppedSamplesNothing'
    BY DEF StoppedSamplesNothing, StopIsOrderly, LifecycleHeld, InputClosed,
             TypeOK, SessionTypeOK, ThreadTypeOK
  <2>7. NumbersGrow'
    BY DEF NumbersGrow, BeforeTake, StoppedSamplesNothing, InputClosed, StopIsOrderly,
             EarlyIsQuiet, Early, Datagrams, TypeOK, SessionTypeOK, NumberTypeOK, ThreadTypeOK
  <2> QED BY <2>1, <2>2, <2>3, <2>4, <2>5, <2>6, <2>7 DEF ClientInv
<1>9. CASE ControlHead \/ ControlRecv
  <2> USE <1>9 DEF ControlHead, ControlRecv, IoUnchanged, Goto
  <2>1. TypeOK'
    <3>1. SessionTypeOK'   BY DEF TypeOK, SessionTypeOK, NumberTypeOK, Datagrams
    <3>2. NumberTypeOK'
      BY DEF TypeOK, SessionTypeOK, NumberTypeOK, Datagrams, NumbersGrow,
             BeforeTake, StopIsOrderly
    <3>3. DeviceTypeOK'    BY DEF TypeOK, DeviceTypeOK
    <3>4. TransportTypeOK' BY DEF TypeOK, TransportTypeOK
    <3>5. ThreadTypeOK'    BY DEF TypeOK, ThreadTypeOK
    <3> QED BY <3>1, <3>2, <3>3, <3>4, <3>5 DEF TypeOK
  <2>2. EndedShowsNeutral'
    BY DEF EndedShowsNeutral, EarlyIsQuiet, Early, TypeOK, SessionTypeOK, ThreadTypeOK
  <2>3. EarlyIsQuiet'
    BY DEF EarlyIsQuiet, Early, EndedShowsNeutral, TypeOK, SessionTypeOK, ThreadTypeOK
  <2>4. LifecycleHeld'
    BY DEF LifecycleHeld, TypeOK, DeviceTypeOK, ThreadTypeOK
  <2>5. StopIsOrderly'
    BY DEF StopIsOrderly, LifecycleHeld, InputClosed, TypeOK, SessionTypeOK, ThreadTypeOK
  <2>6. StoppedSamplesNothing'
    BY DEF StoppedSamplesNothing, StopIsOrderly, LifecycleHeld, InputClosed,
             TypeOK, SessionTypeOK, ThreadTypeOK
  <2>7. NumbersGrow'
    BY DEF NumbersGrow, BeforeTake, StoppedSamplesNothing, InputClosed, StopIsOrderly,
             EarlyIsQuiet, Early, Datagrams, TypeOK, SessionTypeOK, NumberTypeOK, ThreadTypeOK
  <2> QED BY <2>1, <2>2, <2>3, <2>4, <2>5, <2>6, <2>7 DEF ClientInv
<1>10. CASE PollHead \/ Unplug \/ PollLost \/ OnInputDisconnected \/ PollSend \/ PollRecord
  <2> USE <1>10 DEF PollHead, Unplug, PollLost, OnInputDisconnected, PollSend, PollRecord, Recording,
               EndSession, SessionOver, NextSequence, IoUnchanged, Goto
  <2>1. TypeOK'
    <3>1. SessionTypeOK'   BY DEF TypeOK, SessionTypeOK, NumberTypeOK, Datagrams
    <3>2. NumberTypeOK'
      BY DEF TypeOK, SessionTypeOK, NumberTypeOK, Datagrams, NumbersGrow,
             BeforeTake, StopIsOrderly
    <3>3. DeviceTypeOK'    BY DEF TypeOK, DeviceTypeOK
    <3>4. TransportTypeOK' BY DEF TypeOK, TransportTypeOK
    <3>5. ThreadTypeOK'    BY DEF TypeOK, ThreadTypeOK
    <3> QED BY <3>1, <3>2, <3>3, <3>4, <3>5 DEF TypeOK
  <2>2. EndedShowsNeutral'
    BY DEF EndedShowsNeutral, EarlyIsQuiet, Early, TypeOK, SessionTypeOK, ThreadTypeOK
  <2>3. EarlyIsQuiet'
    BY DEF EarlyIsQuiet, Early, EndedShowsNeutral, TypeOK, SessionTypeOK, ThreadTypeOK
  <2>4. LifecycleHeld'
    BY DEF LifecycleHeld, TypeOK, DeviceTypeOK, ThreadTypeOK
  <2>5. StopIsOrderly'
    BY DEF StopIsOrderly, LifecycleHeld, InputClosed, TypeOK, SessionTypeOK, ThreadTypeOK
  <2>6. StoppedSamplesNothing'
    BY DEF StoppedSamplesNothing, StopIsOrderly, LifecycleHeld, InputClosed,
             TypeOK, SessionTypeOK, ThreadTypeOK
  <2>7. NumbersGrow'
    BY DEF NumbersGrow, BeforeTake, StoppedSamplesNothing, InputClosed, StopIsOrderly,
             EarlyIsQuiet, Early, Datagrams, TypeOK, SessionTypeOK, NumberTypeOK, ThreadTypeOK
  <2> QED BY <2>1, <2>2, <2>3, <2>4, <2>5, <2>6, <2>7 DEF ClientInv
<1>11. CASE \E t \in IoThreads : Disconnecting(t)
  <2> USE <1>11 DEF Disconnecting, Disconnect, OnTransportDisconnected, DisconnectNotify,
               EndSession, After, AfterNotify, Woken, IoUnchanged, Goto
  <2>1. TypeOK'
    <3>1. SessionTypeOK'   BY DEF TypeOK, SessionTypeOK, NumberTypeOK, Datagrams
    <3>2. NumberTypeOK'
      BY DEF TypeOK, SessionTypeOK, NumberTypeOK, Datagrams, NumbersGrow,
             BeforeTake, StopIsOrderly
    <3>3. DeviceTypeOK'    BY DEF TypeOK, DeviceTypeOK
    <3>4. TransportTypeOK' BY DEF TypeOK, TransportTypeOK
    <3>5. ThreadTypeOK'    BY DEF TypeOK, ThreadTypeOK
    <3> QED BY <3>1, <3>2, <3>3, <3>4, <3>5 DEF TypeOK
  <2>2. EndedShowsNeutral'
    BY DEF EndedShowsNeutral, EarlyIsQuiet, Early, TypeOK, SessionTypeOK, ThreadTypeOK
  <2>3. EarlyIsQuiet'
    BY DEF EarlyIsQuiet, Early, EndedShowsNeutral, TypeOK, SessionTypeOK, ThreadTypeOK
  <2>4. LifecycleHeld'
    BY DEF LifecycleHeld, TypeOK, DeviceTypeOK, ThreadTypeOK
  <2>5. StopIsOrderly'
    BY DEF StopIsOrderly, LifecycleHeld, InputClosed, TypeOK, SessionTypeOK, ThreadTypeOK
  <2>6. StoppedSamplesNothing'
    BY DEF StoppedSamplesNothing, StopIsOrderly, LifecycleHeld, InputClosed,
             TypeOK, SessionTypeOK, ThreadTypeOK
  <2>7. NumbersGrow'
    BY DEF NumbersGrow, BeforeTake, StoppedSamplesNothing, InputClosed, StopIsOrderly,
             EarlyIsQuiet, Early, Datagrams, TypeOK, SessionTypeOK, NumberTypeOK, ThreadTypeOK
  <2> QED BY <2>1, <2>2, <2>3, <2>4, <2>5, <2>6, <2>7 DEF ClientInv
<1>12. CASE UNCHANGED vars
  <2> USE <1>12 DEF vars
  <2>1. TypeOK'
    <3>1. SessionTypeOK'   BY DEF TypeOK, SessionTypeOK, NumberTypeOK, Datagrams
    <3>2. NumberTypeOK'
      BY DEF TypeOK, SessionTypeOK, NumberTypeOK, Datagrams, NumbersGrow,
             BeforeTake, StopIsOrderly
    <3>3. DeviceTypeOK'    BY DEF TypeOK, DeviceTypeOK
    <3>4. TransportTypeOK' BY DEF TypeOK, TransportTypeOK
    <3>5. ThreadTypeOK'    BY DEF TypeOK, ThreadTypeOK
    <3> QED BY <3>1, <3>2, <3>3, <3>4, <3>5 DEF TypeOK
  <2>2. EndedShowsNeutral'
    BY DEF EndedShowsNeutral, EarlyIsQuiet, Early, TypeOK, SessionTypeOK, ThreadTypeOK
  <2>3. EarlyIsQuiet'
    BY DEF EarlyIsQuiet, Early, EndedShowsNeutral, TypeOK, SessionTypeOK, ThreadTypeOK
  <2>4. LifecycleHeld'
    BY DEF LifecycleHeld, TypeOK, DeviceTypeOK, ThreadTypeOK
  <2>5. StopIsOrderly'
    BY DEF StopIsOrderly, LifecycleHeld, InputClosed, TypeOK, SessionTypeOK, ThreadTypeOK
  <2>6. StoppedSamplesNothing'
    BY DEF StoppedSamplesNothing, StopIsOrderly, LifecycleHeld, InputClosed,
             TypeOK, SessionTypeOK, ThreadTypeOK
  <2>7. NumbersGrow'
    BY DEF NumbersGrow, BeforeTake, StoppedSamplesNothing, InputClosed, StopIsOrderly,
             EarlyIsQuiet, Early, Datagrams, TypeOK, SessionTypeOK, NumberTypeOK, ThreadTypeOK
  <2> QED BY <2>1, <2>2, <2>3, <2>4, <2>5, <2>6, <2>7 DEF ClientInv
<1> QED
  BY <1>1, <1>2, <1>3, <1>4, <1>5, <1>6, <1>7, <1>8, <1>9, <1>10, <1>11, <1>12
     DEF Next, ApiStep, WorkerStep, ControlStep, PollStep, Disconnecting

(* The invariant holds throughout.                                          *)
LEMMA ClientInvariant == Spec => []ClientInv
  BY ClientInvInitially, ClientInvKept, PTL DEF Spec

(* Every variable keeps its type; that the final number of Stop is within    *)
(* its bound needs that Stop takes one once, after all sampling has ended.  *)
THEOREM ClientTypeCorrect == Spec => []TypeOK
<1>1. ClientInv => TypeOK
  BY DEF ClientInv
<1> QED BY <1>1, ClientInvariant, PTL

(* An ended session shows no input.                                         *)
THEOREM EndedIsNeutral == Spec => []EndedShowsNeutral
<1>1. ClientInv => EndedShowsNeutral
  BY DEF ClientInv
<1> QED BY <1>1, ClientInvariant, PTL

(* After Stop has closed the input the device is closed and not polled.     *)
THEOREM StopEndsSampling == Spec => []StoppedSamplesNothing
<1>1. ClientInv => StoppedSamplesNothing
  BY DEF ClientInv
<1> QED BY <1>1, ClientInvariant, PTL

(* Only the poll thread's and Stop's sends put a datagram on the wire.       *)
LEMMA OnlySendersSend ==
  ASSUME TypeOK, [Next]_vars, sent' # sent
  PROVE  \/ io["poll"] = "send" /\ sent' = frame["poll"]
         \/ api = "send" /\ sent' = frame["api"]
<1>1. CASE CallerStep
  BY <1>1 DEF CallerStep, Start, StopBegin, Delete, EndSession
<1>2. CASE StopNotify \/ StopCloseInput \/ StopJoinPoll
  BY <1>2 DEF StopNotify, StopCloseInput, StopJoinPoll, CloseInput, JoinPoll, Closed, Over, Woken
<1>3. CASE StopSnapshot \/ StopTakeSeq \/ StopSend
  BY <1>3 DEF StopSnapshot, StopTakeSeq, StopSend, NextSequence
<1>4. CASE StopTransport \/ StopJoinWorker \/ DeleteTransport \/ DeleteInput
  BY <1>4 DEF StopTransport, StopJoinWorker, DeleteTransport, DeleteInput,
               TransportFlag, TransportClose, CloseSockets, TransportJoin, Goto, Over
<1>5. CASE Enter \/ Socket \/ Connect \/ InputSocket \/ Hello \/ AckChecked
  BY <1>5 DEF Enter, Socket, Connect, InputSocket, Hello, AckChecked, ConnectUnchanged
<1>6. CASE Publish \/ Launch \/ Abort \/ CreateControl \/ StartFailed
  BY <1>6 DEF Publish, Launch, Abort, CreateControl, StartFailed, ConnectUnchanged,
               CloseSockets, Goto
<1>7. CASE OpenCheck \/ OpenDevice \/ OpenFailed
  BY <1>7 DEF OpenCheck, OpenDevice, OpenFailed, OpenRefused, SessionOver, Goto
<1>8. CASE AbandonTransport \/ Check \/ CleanUp
  BY <1>8 DEF AbandonTransport, Check, CleanUp, TransportFlag, TransportClose, CloseSockets,
               TransportJoin, CloseInput, JoinPoll, Closed, Over, SessionOver, Goto
<1>9. CASE ControlHead \/ ControlRecv
  BY <1>9 DEF ControlHead, ControlRecv, IoUnchanged, Goto
<1>10. CASE PollHead \/ Unplug \/ PollLost \/ OnInputDisconnected \/ PollSend \/ PollRecord
  BY <1>10 DEF PollHead, Unplug, PollLost, OnInputDisconnected, PollSend, PollRecord, Recording,
               EndSession, SessionOver, NextSequence, IoUnchanged, Goto
<1>11. CASE \E t \in IoThreads : Disconnecting(t)
  BY <1>11 DEF Disconnecting, Disconnect, OnTransportDisconnected, DisconnectNotify,
               EndSession, After, AfterNotify, Woken, IoUnchanged, Goto
<1>12. CASE UNCHANGED vars
  BY <1>12 DEF vars
<1> QED
  BY <1>1, <1>2, <1>3, <1>4, <1>5, <1>6, <1>7, <1>8, <1>9, <1>10, <1>11, <1>12
     DEF Next, ApiStep, WorkerStep, ControlStep, PollStep, Disconnecting

(* Datagrams leave in the order of their numbers.                           *)
THEOREM NumbersIncrease == Spec => SentInOrder
<1>1. ClientInv /\ [Next]_vars => (sent' # sent => sent'.seq > sent.seq)
  BY OnlySendersSend DEF ClientInv, NumbersGrow, TypeOK, Datagrams
<1>2. ClientInv /\ [Next]_vars => [sent' # sent => sent'.seq > sent.seq]_vars
  BY <1>1
<1> QED BY <1>2, ClientInvariant, PTL DEF Spec, SentInOrder

(* The neutral datagram of Stop is the last one, with the newest number.    *)
THEOREM FinalNeutralIsLast == Spec => NoInputAfterClose
<1>1. ClientInv /\ [Next]_vars =>
        (InputClosed /\ sent' # sent => sent'.state = Neutral /\ sent'.seq = latest)
  BY OnlySendersSend DEF ClientInv, NumbersGrow, StoppedSamplesNothing
<1>2. ClientInv /\ [Next]_vars =>
        [InputClosed /\ sent' # sent => sent'.state = Neutral /\ sent'.seq = latest]_vars
  BY <1>1
<1> QED BY <1>2, ClientInvariant, PTL DEF Spec, NoInputAfterClose

-----------------------------------------------------------------------------
\* Stop has come past its joins: its steps say what is over by then.  The
\* control thread may be created after Stop has looked for it, but then it
\* finds the stop flag; the worker is the last to be waited for.
StopHasReturned == \/ api \in {"dtorClose", "dtorJoin", "dtorInput", "deleted"}
                   \/ api = "idle" /\ state = "Stopped"
StopPlace ==
  /\ StopHasReturned \/ api \in {"close", "joinable", "joining", "joinWorker"} => tStop
  /\ StopHasReturned \/ api = "joinWorker" =>
       io["control"] \in {"none", "head", "done", "joined"}
  /\ StopHasReturned => worker \in {"none", "done", "joined"}

LEMMA StopPlaceKept == ClientInv /\ StopPlace /\ [Next]_vars => StopPlace'
<1> SUFFICES ASSUME TypeOK, StopIsOrderly, StopPlace, [Next]_vars
             PROVE  StopPlace'
  BY DEF ClientInv
<1> USE DEF StopPlace, StopHasReturned, StopIsOrderly, TypeOK, SessionTypeOK, TransportTypeOK,
        ThreadTypeOK
<1>1. CASE CallerStep
  BY <1>1 DEF CallerStep, Start, StopBegin, Delete, EndSession
<1>2. CASE StopNotify \/ StopCloseInput \/ StopJoinPoll
  BY <1>2 DEF StopNotify, StopCloseInput, StopJoinPoll, CloseInput, JoinPoll, Closed, Over, Woken
<1>3. CASE StopSnapshot \/ StopTakeSeq \/ StopSend
  BY <1>3 DEF StopSnapshot, StopTakeSeq, StopSend, NextSequence
<1>4. CASE StopTransport
  BY <1>4 DEF StopTransport, TransportFlag, TransportClose, CloseSockets, TransportJoin,
               Joinable, Goto
<1>5. CASE StopJoinWorker \/ DeleteTransport \/ DeleteInput
  BY <1>5 DEF StopJoinWorker, DeleteTransport, DeleteInput, TransportClose, CloseSockets, Over
<1>6. CASE Enter \/ Socket \/ Connect \/ InputSocket \/ Hello \/ AckChecked
  BY <1>6 DEF Enter, Socket, Connect, InputSocket, Hello, AckChecked, ConnectUnchanged
<1>7. CASE Publish \/ Launch \/ Abort \/ CreateControl \/ StartFailed
  BY <1>7 DEF Publish, Launch, Abort, CreateControl, StartFailed, ConnectUnchanged,
               CloseSockets, SessionOver, Goto
<1>8. CASE OpenCheck \/ OpenDevice \/ OpenFailed
  BY <1>8 DEF OpenCheck, OpenDevice, OpenFailed, OpenRefused, SessionOver, Goto
<1>9. CASE AbandonTransport \/ Check \/ CleanUp
  BY <1>9 DEF AbandonTransport, Check, CleanUp, TransportFlag, TransportClose, CloseSockets,
               TransportJoin, CloseInput, JoinPoll, Closed, Over, SessionOver, Joinable, Goto
<1>10. CASE ControlHead \/ ControlRecv
  BY <1>10 DEF ControlHead, ControlRecv, IoUnchanged, Goto
<1>11. CASE PollHead \/ Unplug \/ PollLost \/ OnInputDisconnected \/ PollSend \/ PollRecord
  BY <1>11 DEF PollHead, Unplug, PollLost, OnInputDisconnected, PollSend, PollRecord,
               EndSession, IoUnchanged, Goto
<1>12. CASE \E t \in IoThreads : Disconnecting(t)
  BY <1>12 DEF Disconnecting, Disconnect, OnTransportDisconnected, DisconnectNotify,
               EndSession, After, AfterNotify, Woken, IoUnchanged, Goto
<1>13. CASE UNCHANGED vars
  BY <1>13 DEF vars
<1> QED
  BY <1>1, <1>2, <1>3, <1>4, <1>5, <1>6, <1>7, <1>8, <1>9, <1>10, <1>11, <1>12, <1>13
     DEF Next, ApiStep, WorkerStep, ControlStep, PollStep, Disconnecting

LEMMA StopPlaceInvariant == Spec => []StopPlace
<1>1. Init => StopPlace
  BY DEF Init, StopPlace, StopHasReturned
<1> QED BY <1>1, StopPlaceKept, ClientInvariant, PTL DEF Spec

(* When the destructor has begun no thread is inside a callback into the      *)
(* session, although the control thread and the worker may have been created *)
(* while Stop was under way: NoCallbackIntoDeleted.                          *)
THEOREM NoUseAfterDelete == Spec => []NoCallbackIntoDeleted
<1>1. ClientInv /\ StopPlace => NoCallbackIntoDeleted
  BY DEF ClientInv, StopIsOrderly, StoppedSamplesNothing, InputClosed, StopPlace, StopHasReturned,
         NoCallbackIntoDeleted
<1> QED BY <1>1, ClientInvariant, StopPlaceInvariant, PTL
=============================================================================
