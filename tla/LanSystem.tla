----------------------------- MODULE LanSystem -----------------------------
(***************************************************************************)
(* A client and a server session and the network between them: the TCP     *)
(* control channel (two FIFO directions that may be closed by either side,  *)
(* or cut without notice), and UDP, which loses, repeats, delays and        *)
(* reorders datagrams, also beyond the session they belong to.  Sessions    *)
(* are started, stopped, crash and start again.                             *)
(*                                                                         *)
(* LanServer and LanClient interleave the threads inside each session; here *)
(* a handler is one step, and the interleaving is between the two machines, *)
(* the network and the game, which sets the motors from a thread of its own. *)
(***************************************************************************)
EXTENDS ControllerCodec, Sequences

CONSTANTS
  Samples, Reading,    \* gamepad samples, and the SDL readings of each
  Final,               \* the neutral state Stop sends last; not a sample
  Absent,              \* no virtual target is plugged in
  Commands, Rest,      \* motor commands, and the one with both motors off
  MaxSamples,          \* bound on the samples of each session
  MaxSessions,         \* bound on the client's sessions (random ids, all distinct)
  MaxCommands,         \* bound on the game's commands in a server session
  InputTimeout,        \* the input watchdog's timeout, in ticks
  HeartbeatTimeout     \* the heartbeat timeout, in ticks

ASSUME LanSystemAssumption ==
  /\ Final \notin Samples /\ Rest \in Commands
  /\ Commands \cap {"ack", "error", "stop"} = {}
  /\ \A x \in Samples : /\ {Reading[x].left_trigger, Reading[x].right_trigger} \subseteq Int16
                        /\ {Reading[x].left_y, Reading[x].right_y} \subseteq Int16
  /\ {MaxSessions, MaxCommands} \subseteq Nat
  /\ MaxSamples \in [1 .. MaxSessions -> Nat]
  /\ {InputTimeout, HeartbeatTimeout} \subseteq Nat \ {0}

VARIABLES
  \* the client: session state, transport connected, SDL device open, what the
  \* motors were last told, the session id, and what each session has sent (the
  \* n-th datagram carries the n-th element)
  cState, cUp, device, motors, cId, sent,
  \* the server: session state, session id (0 while it listens), latest
  \* sequence number, watchdog, ages of the input and of the heartbeat, the pad
  sState, sId, latest, armed, inputAge, beatAge, pad,
  \* the control channel: both directions, who has closed it, and whether it
  \* no longer delivers
  toServer, toClient, closedC, closedS, cut,
  \* the server's rumble slot (value and generation), the generation its
  \* control thread has sent and the one it has loaded, the game's thread, and
  \* the last command it gave (history)
  pending, generation, applied, loaded, game, wanted

clientVars  == <<cState, cUp, device, motors>>
sentVars    == <<cId, sent>>
sessionVars == <<sState, sId, latest, armed, pad>>
ageVars     == <<inputAge, beatAge>>
linkVars    == <<toServer, toClient, closedC, closedS, cut>>
rumbleVars  == <<pending, generation, applied, loaded, game, wanted>>
vars == <<clientVars, sentVars, sessionVars, ageVars, linkVars, rumbleVars>>

Released  == ToXusbReport(NeutralState)
Frame(x)  == IF x = Final THEN NeutralState ELSE ReadState(Reading[x])
Connected == sState = "Running" /\ sId # 0

Init ==
  /\ cState = "Stopped" /\ cUp = FALSE /\ device = FALSE /\ motors = Rest
  /\ cId = 0 /\ sent = [i \in 1 .. MaxSessions |-> <<>>]
  /\ sState = "Stopped" /\ sId = 0 /\ latest = 0 /\ armed = FALSE
  /\ inputAge = 0 /\ beatAge = 0 /\ pad = Absent
  /\ toServer = <<>> /\ toClient = <<>>
  /\ closedC = TRUE /\ closedS = TRUE /\ cut = FALSE
  /\ pending = Rest /\ generation = 0 /\ applied = 0 /\ loaded = 0 /\ game = "idle"
  /\ wanted = Rest

-----------------------------------------------------------------------------
(* The channel.  A frame sent into a channel that is cut or that the other  *)
(* side has closed is lost, and a side that closes it loses what has not    *)
(* been read.  A close may overtake the frames before it.                   *)

Arrives(queue, m) == ~cut /\ queue # <<>> /\ Head(queue) = m
Closed(by)        == ~cut /\ by

CloseC == closedC' = TRUE /\ toClient' = <<>> /\ cut' = (cut /\ ~closedS)
CloseS == closedS' = TRUE /\ toServer' = <<>> /\ cut' = (cut /\ ~closedC)

ToServer(m) == toServer' = IF cut \/ closedS THEN toServer ELSE Append(toServer, m)
ToClient(m) == toClient' = IF cut \/ closedC THEN toClient ELSE Append(toClient, m)

\* The network between the machines fails and tells neither.
Cut ==
  /\ ~cut /\ ~(closedC /\ closedS)
  /\ cut' = TRUE
  /\ UNCHANGED <<clientVars, sentVars, sessionVars, ageVars,
                 toServer, toClient, closedC, closedS, rumbleVars>>

-----------------------------------------------------------------------------
(* The client.                                                             *)

Listening == sState = "Running" /\ sId = 0

\* Start, with the connection to a listening server and the HELLO; the user
\* may have typed the wrong pairing key.
ClientStart ==
  /\ cState = "Stopped" /\ cId < MaxSessions
  /\ Listening /\ closedC /\ closedS
  /\ \E hello \in {"hello", "wrongHello"} : toServer' = <<hello>>
  /\ cState' = "Starting" /\ cId' = cId + 1
  /\ closedC' = FALSE /\ closedS' = FALSE /\ UNCHANGED <<toClient, cut>>
  /\ UNCHANGED <<cUp, device, motors, sent, sessionVars, ageVars, rumbleVars>>

\* The ACK arrives and the device opens; or it does not open, and the worker
\* stops the transport.
ClientAck ==
  /\ cState = "Starting" /\ Arrives(toClient, "ack")
  /\ \/ /\ cState' = "Running" /\ cUp' = TRUE /\ device' = TRUE
        /\ toClient' = Tail(toClient) /\ UNCHANGED <<toServer, closedC, cut>>
     \/ /\ cState' = "Ended" /\ CloseC
        /\ ToServer("stop") /\ UNCHANGED <<cUp, device>>
  /\ UNCHANGED <<motors, sentVars, sessionVars, ageVars, closedS, rumbleVars>>

\* The handshake fails: an error frame, a closed connection, or no answer in
\* time.
ClientGivesUp ==
  /\ cState = "Starting"
  /\ cState' = "Ended" /\ CloseC
  /\ UNCHANGED <<cUp, device, motors, sentVars, sessionVars, ageVars,
                 toServer, closedS, rumbleVars>>

\* A sample of the poll thread, sent at once.
ClientSample(x) ==
  /\ cState = "Running" /\ Len(sent[cId]) < MaxSamples[cId]
  /\ sent' = [sent EXCEPT ![cId] = Append(@, x)]
  /\ UNCHANGED <<clientVars, cId, sessionVars, ageVars, linkVars, rumbleVars>>

\* A heartbeat; one that waits in the queue stands for those behind it.
ClientBeat ==
  /\ cUp /\ ~cut /\ ~closedS /\ toServer = <<>>
  /\ ToServer("heartbeat")
  /\ UNCHANGED <<clientVars, sentVars, sessionVars, ageVars,
                 toClient, closedC, closedS, cut, rumbleVars>>

\* OnRumble, and SDL's motors.
ClientRumble(c) ==
  /\ cUp /\ Arrives(toClient, c)
  /\ toClient' = Tail(toClient)
  /\ motors' = IF cState = "Running" THEN c ELSE motors
  /\ UNCHANGED <<cState, cUp, device, sentVars, sessionVars, ageVars,
                 toServer, closedC, closedS, cut, rumbleVars>>

\* SignalDisconnected: a STOP, a closed connection, or one that TCP gives up
\* because nothing acknowledges the heartbeats.
ClientLosesServer ==
  /\ cUp /\ (Arrives(toClient, "stop") \/ Closed(closedS) \/ cut)
  /\ cUp' = FALSE
  /\ cState' = IF cState = "Running" THEN "Ended" ELSE cState
  /\ UNCHANGED <<device, motors, sentVars, sessionVars, ageVars, linkVars, rumbleVars>>

\* The gamepad is unplugged.  The transport goes on.
ClientUnplugged ==
  /\ cState = "Running"
  /\ cState' = "Ended" /\ device' = FALSE /\ motors' = Rest
  /\ UNCHANGED <<cUp, sentVars, sessionVars, ageVars, linkVars, rumbleVars>>

\* The worker of a session that has ended closes the device, whose poll thread
\* turns the motors off.
ClientClosesDevice ==
  /\ cState = "Ended" /\ device
  /\ device' = FALSE /\ motors' = Rest
  /\ UNCHANGED <<cState, cUp, sentVars, sessionVars, ageVars, linkVars, rumbleVars>>

ClientGone ==
  /\ cState' = "Stopped" /\ cUp' = FALSE /\ device' = FALSE /\ motors' = Rest
  /\ CloseC

\* Stop: the final neutral state, a STOP frame, everything closed.
ClientStop ==
  /\ cState # "Stopped" /\ ClientGone
  /\ sent' = IF cState = "Running" THEN [sent EXCEPT ![cId] = Append(@, Final)] ELSE sent
  /\ IF cUp THEN ToServer("stop") ELSE UNCHANGED toServer
  /\ UNCHANGED <<cId, sessionVars, ageVars, closedS, rumbleVars>>

\* The client's process dies; the system closes its sockets and its device.
ClientCrash ==
  /\ cState # "Stopped" /\ ClientGone
  /\ UNCHANGED <<sentVars, sessionVars, ageVars, toServer, closedS, rumbleVars>>

-----------------------------------------------------------------------------
(* The server.                                                             *)

ServerStart ==
  /\ sState = "Stopped"
  /\ sState' = "Running" /\ pad' = Released
  /\ UNCHANGED <<clientVars, sentVars, sId, latest, armed, ageVars, linkVars, rumbleVars>>

\* The accept loop: a right HELLO is acknowledged, a wrong key is answered and
\* closed, and the server listens on.
ServerAccept ==
  /\ Listening /\ ~closedS
  /\ \/ /\ Arrives(toServer, "hello")
        /\ sId' = cId /\ ToClient("ack")
        /\ toServer' = Tail(toServer) /\ UNCHANGED <<closedS, cut>>
     \/ /\ Arrives(toServer, "wrongHello")
        /\ CloseS /\ ToClient("error") /\ UNCHANGED sId
  /\ UNCHANGED <<clientVars, sentVars, sState, latest, armed, pad, ageVars,
                 closedC, rumbleVars>>

\* No HELLO arrives in time, or the client has gone.
ServerDropsHello ==
  /\ Listening /\ ~closedS /\ (cut \/ closedC)
  /\ CloseS
  /\ UNCHANGED <<clientVars, sentVars, sessionVars, ageVars, toClient, closedC, rumbleVars>>

\* What a session that is over never reads again is reset with it.
Forget == /\ latest' = 0 /\ armed' = FALSE /\ inputAge' = 0 /\ beatAge' = 0
          /\ pending' = Rest /\ generation' = 0 /\ applied' = 0 /\ loaded' = 0
          /\ game' = "idle" /\ wanted' = Rest

EndSession(state) == sState' = state /\ pad' = Released /\ Forget

\* A datagram is newer than all before it and belongs to this session.
AcceptsAnyOrder(i, n) == i = sId   \* mutant: no check of the sequence number
Accepts(i, n) == i = sId /\ n > latest

\* The input loop and OnState, for any datagram ever sent; the driver may
\* refuse the report.  (A faulted session's control loop goes on, but nothing
\* it does or hears shows any more.)
ServerInput(i, n) ==
  /\ Connected /\ Accepts(i, n)
  /\ \/ /\ pad' = ToXusbReport(Frame(sent[i][n]))
        /\ latest' = n /\ armed' = TRUE /\ inputAge' = 0
        /\ UNCHANGED <<sState, beatAge, rumbleVars>>
     \/ EndSession("Faulted")
  /\ UNCHANGED <<clientVars, sentVars, sId, linkVars>>

\* The watchdog.
ServerReleases ==
  /\ Connected /\ armed /\ inputAge = InputTimeout
  /\ pad' = Released /\ armed' = FALSE /\ inputAge' = 0
  /\ UNCHANGED <<clientVars, sentVars, sState, sId, latest, beatAge, linkVars, rumbleVars>>

ServerBeat ==
  /\ Connected /\ Arrives(toServer, "heartbeat")
  /\ toServer' = Tail(toServer) /\ beatAge' = 0
  /\ UNCHANGED <<clientVars, sentVars, sessionVars, inputAge,
                 toClient, closedC, closedS, cut, rumbleVars>>

TimedOutOnFrame == beatAge > HeartbeatTimeout /\ toServer # <<>>   \* mutant: only checked with a frame
TimedOut == beatAge > HeartbeatTimeout

\* SignalDisconnected.  The connection stays open until Stop.
ServerLosesClient ==
  /\ Connected
  /\ Arrives(toServer, "stop") \/ Closed(closedC) \/ TimedOut
  /\ EndSession("Ended")
  /\ UNCHANGED <<clientVars, sentVars, sId, linkVars>>

ServerGone ==
  /\ sState' = "Stopped" /\ sId' = 0 /\ pad' = Absent
  /\ CloseS /\ Forget

ServerStop ==
  /\ sState # "Stopped" /\ ServerGone
  /\ IF Connected THEN ToClient("stop") ELSE UNCHANGED toClient
  /\ UNCHANGED <<clientVars, sentVars, closedC>>

\* The server's process dies; the system closes its sockets, and the driver
\* removes the target.
ServerCrash ==
  /\ sState # "Stopped" /\ ServerGone
  /\ UNCHANGED <<clientVars, sentVars, toClient, closedC>>

-----------------------------------------------------------------------------
(* The game's motor commands: SendRumble stores the value, then the         *)
(* generation; the control loop reads them the other way round.             *)

SwappedStores(c, step) ==   \* mutant: the generation first
  IF step = 1 THEN generation' = generation + 1 /\ UNCHANGED pending
              ELSE pending' = c /\ UNCHANGED generation
Stores(c, step) ==
  IF step = 1 THEN pending' = c /\ UNCHANGED generation
              ELSE generation' = generation + 1 /\ UNCHANGED pending

GameSets(c) ==
  /\ Connected /\ game = "idle" /\ generation < MaxCommands
  /\ Stores(c, 1) /\ game' = "publish" /\ wanted' = c
  /\ UNCHANGED <<clientVars, sentVars, sessionVars, ageVars, linkVars, applied, loaded>>

GamePublishes ==
  /\ game = "publish"
  /\ Stores(wanted, 2) /\ game' = "idle"
  /\ UNCHANGED <<clientVars, sentVars, sessionVars, ageVars, linkVars, applied, loaded, wanted>>

RumbleLoad ==
  /\ Connected /\ loaded = 0 /\ generation # applied
  /\ loaded' = generation
  /\ UNCHANGED <<clientVars, sentVars, sessionVars, ageVars, linkVars,
                 pending, generation, applied, game, wanted>>

RumbleSend ==
  /\ Connected /\ loaded # 0
  /\ ToClient(pending) /\ applied' = loaded /\ loaded' = 0
  /\ UNCHANGED <<clientVars, sentVars, sessionVars, ageVars, toServer, closedC, closedS, cut,
                 pending, generation, game, wanted>>

-----------------------------------------------------------------------------
OlderUnbounded(age, limit) == age + 1   \* mutant: no saturation
Older(age, limit) == IF age < limit THEN age + 1 ELSE age

Tick ==
  /\ Connected
  /\ inputAge' = IF armed THEN Older(inputAge, InputTimeout) ELSE inputAge
  /\ beatAge' = Older(beatAge, HeartbeatTimeout + 1)
  /\ UNCHANGED <<clientVars, sentVars, sessionVars, linkVars, rumbleVars>>

ClientUser      == ClientStart \/ ClientStop \/ ClientCrash \/ ClientUnplugged
ClientHandshake == ClientAck \/ ClientGivesUp
ClientMotors    == \E c \in Commands : ClientRumble(c)
ServerUser      == ServerStart \/ ServerStop \/ ServerCrash
ServerHandshake == ServerAccept \/ ServerDropsHello
ServerRumble    == RumbleLoad \/ RumbleSend

Next ==
  \/ ClientUser \/ ClientHandshake \/ ClientBeat \/ ClientMotors
  \/ ClientLosesServer \/ ClientClosesDevice
  \/ \E x \in Samples : ClientSample(x)
  \/ ServerUser \/ ServerHandshake \/ ServerBeat \/ ServerRumble
  \/ ServerLosesClient \/ ServerReleases
  \/ \E i \in 1 .. MaxSessions : \E n \in 1 .. Len(sent[i]) : ServerInput(i, n)
  \/ \E c \in Commands : GameSets(c)
  \/ GamePublishes
  \/ Tick \/ Cut

Spec == Init /\ [][Next]_vars

(* Both machines run: their threads are scheduled, time passes, and an      *)
(* iteration of a control loop does all its checks in turn, so that no check *)
(* starves another.  Nobody has to press a button, start or stop anything,  *)
(* and no datagram has to arrive.                                          *)
FairSpec ==
  /\ Spec
  /\ WF_vars(ClientHandshake) /\ WF_vars(ClientBeat) /\ WF_vars(ClientMotors)
  /\ WF_vars(ClientLosesServer) /\ WF_vars(ClientClosesDevice)
  /\ WF_vars(ServerHandshake) /\ WF_vars(ServerBeat) /\ WF_vars(ServerRumble)
  /\ WF_vars(ServerLosesClient) /\ WF_vars(ServerReleases)
  /\ WF_vars(GamePublishes) /\ WF_vars(Tick)

-----------------------------------------------------------------------------
FlagTypeOK ==
  /\ cUp \in BOOLEAN /\ device \in BOOLEAN /\ armed \in BOOLEAN
  /\ closedC \in BOOLEAN /\ closedS \in BOOLEAN /\ cut \in BOOLEAN

ValueTypeOK ==
  /\ cState \in {"Stopped", "Starting", "Running", "Ended"}
  /\ sState \in {"Stopped", "Running", "Ended", "Faulted"} /\ game \in {"idle", "publish"}
  /\ motors \in Commands /\ pending \in Commands /\ wanted \in Commands
  /\ cId \in 0 .. MaxSessions /\ sId \in 0 .. MaxSessions
  /\ inputAge \in 0 .. InputTimeout /\ beatAge \in 0 .. HeartbeatTimeout + 1
  /\ generation \in 0 .. MaxCommands /\ applied \in 0 .. MaxCommands
  /\ loaded \in 0 .. MaxCommands

SentTypeOK ==
  /\ sent \in [1 .. MaxSessions -> Seq(Samples \cup {Final})]
  /\ \A i \in 1 .. MaxSessions : Len(sent[i]) <= MaxSamples[i] + 1
  /\ latest \in IF sId = 0 THEN {0} ELSE 0 .. Len(sent[sId])

ChannelTypeOK ==
  /\ toServer \in Seq({"hello", "wrongHello", "heartbeat", "stop"})
  /\ toClient \in Seq({"ack", "error", "stop"} \cup Commands)
  /\ Len(toServer) <= 2 /\ Len(toClient) <= MaxCommands + 2

\* The type of every variable, and the bounds of what each session keeps.
TypeOK == FlagTypeOK /\ ValueTypeOK /\ SentTypeOK /\ ChannelTypeOK

\* What a report must show of a reading, said without the code's formulas.
Shows(report, raw) ==
  /\ report.wButtons = {ButtonMap[b] : b \in raw.buttons} \cap XusbButtons
  /\ Near(report.bLeftTrigger, raw.left_trigger)
  /\ Near(report.bRightTrigger, raw.right_trigger)
  /\ report.sThumbLX = raw.left_x /\ Turned(report.sThumbLY, raw.left_y)
  /\ report.sThumbRX = raw.right_x /\ Turned(report.sThumbRY, raw.right_y)

(* The pad shows the gamepad as it was at the newest datagram that arrived  *)
(* in this session, or nothing pressed: through the conversions of SDL, the *)
(* wire and ViGEm, whatever the network did to the datagrams.               *)
PadShowsGamepad ==
  /\ ~armed => pad \in {Absent, Released}
  /\ armed => LET x == sent[sId][latest]
              IN  IF x = Final THEN pad = Released ELSE Shows(pad, Reading[x])

-----------------------------------------------------------------------------
(* Input of a client session that has ended, by Stop, crash, unplugged      *)
(* gamepad or lost server, is released for good: the final neutral state    *)
(* may be lost and old datagrams may still arrive, in any order and again.  *)
Shown(i) == sId = i /\ pad \notin {Absent, Released}
EndedSessionIsReleased ==
  \A i \in 1 .. MaxSessions :
    cId = i /\ cState \in {"Ended", "Stopped"} ~> [](~Shown(i))

(* Each side notices that the other has closed the connection or can no     *)
(* longer be reached.                                                       *)
LostPeerIsNoticed ==
  /\ Connected /\ (closedC \/ cut) ~> sState # "Running"
  /\ cUp /\ (closedS \/ cut) ~> ~cUp

(* The motors agree with the game: once the control loop has caught up, what  *)
(* is on its way to the client last, or else what its motors do, is what the *)
(* game last set, though a command is stored in two parts that the control   *)
(* loop reads in between.                                                   *)
Told == IF toClient = <<>> THEN motors ELSE toClient[Len(toClient)]
MotorsAgree ==
  Connected /\ cState = "Running" /\ ~cut /\ game = "idle" /\ loaded = 0 /\ applied = generation
    => sId = cId /\ Told = wanted

(* While both sessions run, the motors end up as the game last set them,    *)
(* though a command is stored in two parts that the control loop reads in   *)
(* between.                                                                 *)
RumbleArrives ==
  <>[](Connected /\ sId = cId /\ cState = "Running") => <>[](motors = wanted)
=============================================================================
