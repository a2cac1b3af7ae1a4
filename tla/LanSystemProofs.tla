-------------------------- MODULE LanSystemProofs --------------------------
(***************************************************************************)
(* For any number of sessions, samples, readings and motor commands: the    *)
(* types and bounds of both machines and of the channel between them; what   *)
(* the pad shows, the gamepad as it was at the newest datagram that arrived  *)
(* in this session, through every conversion, or nothing pressed; and what   *)
(* the client is told of the motors, the last command the game gave.        *)
(***************************************************************************)
EXTENDS LanSystem, ControllerCodecProofs, SequenceTheorems

\* An armed watchdog means a session with a client whose newest accepted
\* datagram is one that was sent.
ArmedHasDatagram ==
  armed => /\ sState = "Running" /\ sId \in 1 .. MaxSessions
           /\ latest \in 1 .. Len(sent[sId])

PadTypes ==
  /\ cId \in 0 .. MaxSessions /\ sId \in 0 .. MaxSessions
  /\ sent \in [1 .. MaxSessions -> Seq(Samples \cup {Final})]
  /\ latest \in Nat

PadInv == PadTypes /\ ArmedHasDatagram /\ PadShowsGamepad

-----------------------------------------------------------------------------
\* A report made of a datagram shows the sample it carries.
LEMMA FrameShows ==
  ASSUME NEW x \in Samples \cup {Final}
  PROVE  IF x = Final THEN ToXusbReport(Frame(x)) = Released
                      ELSE Shows(ToXusbReport(Frame(x)), Reading[x])
<1>1. CASE x = Final
  BY <1>1 DEF Frame, Released
<1>2. CASE x # Final
  <2>1. /\ Reading[x].left_trigger \in Int16 /\ Reading[x].right_trigger \in Int16
        /\ Reading[x].left_y \in Int16 /\ Reading[x].right_y \in Int16
    BY <1>2, LanSystemAssumption
  <2> QED BY <1>2, <2>1, ReportShowsReading DEF Frame, Shows
<1> QED BY <1>1, <1>2

\* What was sent stays, at its place, when a session sends more.
LEMMA SentStays ==
  ASSUME PadTypes, NEW i \in 0 .. MaxSessions, NEW x \in Samples \cup {Final},
         sent' = [sent EXCEPT ![i] = Append(@, x)]
  PROVE  /\ sent' \in [1 .. MaxSessions -> Seq(Samples \cup {Final})]
         /\ \A j \in 1 .. MaxSessions : \A n \in 1 .. Len(sent[j]) :
              n \in 1 .. Len(sent'[j]) /\ sent'[j][n] = sent[j][n]
<1>1. CASE i = 0
  <2>1. DOMAIN sent = 1 .. MaxSessions /\ i \notin 1 .. MaxSessions
    BY <1>1 DEF PadTypes
  <2>2. sent' = sent
    <3>1. sent' = [j \in DOMAIN sent |-> IF j = i THEN Append(sent[i], x) ELSE sent[j]]
      OBVIOUS
    <3>2. sent' = [j \in DOMAIN sent |-> sent[j]]
      BY <2>1, <3>1
    <3> QED BY <3>2 DEF PadTypes
  <2>3. \A j \in 1 .. MaxSessions : sent[j] \in Seq(Samples \cup {Final})
    BY DEF PadTypes
  <2> QED BY <2>2, <2>3 DEF PadTypes
<1>2. CASE i # 0
  <2>1. /\ sent[i] \in Seq(Samples \cup {Final})
        /\ sent'[i] = Append(sent[i], x)
        /\ \A j \in 1 .. MaxSessions : j # i => sent'[j] = sent[j]
    BY <1>2 DEF PadTypes
  <2>2. /\ sent'[i] \in Seq(Samples \cup {Final})
        /\ \A n \in 1 .. Len(sent[i]) : n \in 1 .. Len(sent'[i]) /\ sent'[i][n] = sent[i][n]
    BY <2>1
  <2>3. sent' \in [1 .. MaxSessions -> Seq(Samples \cup {Final})]
    BY <2>1, <2>2 DEF PadTypes
  <2>4. \A j \in 1 .. MaxSessions : sent[j] \in Seq(Samples \cup {Final})
    BY DEF PadTypes
  <2> QED BY <2>1, <2>2, <2>3, <2>4
<1> QED BY <1>1, <1>2

\* An action that leaves the server and what was sent alone.
LEMMA PadUntouched ==
  ASSUME PadInv, UNCHANGED <<sessionVars, sent>>, cId' \in 0 .. MaxSessions
  PROVE  PadInv'
  BY DEF PadInv, PadTypes, ArmedHasDatagram, PadShowsGamepad, sessionVars

\* One that sends.
LEMMA PadAfterSend ==
  ASSUME PadInv, UNCHANGED <<sessionVars, cId>>,
         NEW i \in 0 .. MaxSessions, NEW x \in Samples \cup {Final},
         sent' = [sent EXCEPT ![i] = Append(@, x)]
  PROVE  PadInv'
<1>1. PadTypes'
  BY SentStays DEF PadInv, PadTypes, sessionVars
<1>2. ASSUME armed
      PROVE  sent'[sId][latest] = sent[sId][latest] /\ latest \in 1 .. Len(sent'[sId])
  BY <1>2, SentStays DEF PadInv, ArmedHasDatagram
<1> QED BY <1>1, <1>2 DEF PadInv, ArmedHasDatagram, PadShowsGamepad, sessionVars

\* One that disarms the watchdog and leaves nothing pressed.
LEMMA PadAfterRelease ==
  ASSUME PadInv, UNCHANGED sentVars, ~armed', pad' \in {Absent, Released},
         sId' \in 0 .. MaxSessions, latest' \in Nat
  PROVE  PadInv'
  BY DEF PadInv, PadTypes, ArmedHasDatagram, PadShowsGamepad, sentVars

LEMMA PadInit == Init => PadInv
<1> SUFFICES ASSUME Init PROVE PadInv
  OBVIOUS
<1>1. PadTypes
  BY LanSystemAssumption DEF Init, PadTypes
<1> QED BY <1>1 DEF Init, PadInv, ArmedHasDatagram, PadShowsGamepad

LEMMA PadNext == PadInv /\ [Next]_vars => PadInv'
<1> SUFFICES ASSUME PadInv, [Next]_vars PROVE PadInv'
  OBVIOUS
<1> USE LanSystemAssumption
<1>1. CASE ClientUser
  <2>1. CASE ClientStart
    BY <1>1, <2>1, PadUntouched DEF ClientStart, PadInv, PadTypes
  <2>2. CASE ClientStop /\ cState = "Running"
    BY <2>2, PadAfterSend DEF ClientStop, PadInv, PadTypes
  <2>3. CASE ClientStop /\ cState # "Running"
    BY <2>3, PadUntouched DEF ClientStop, PadInv, PadTypes
  <2>4. CASE ClientCrash \/ ClientUnplugged
    BY <2>4, PadUntouched DEF ClientCrash, ClientUnplugged, sentVars, PadInv, PadTypes
  <2> QED BY <1>1, <2>1, <2>2, <2>3, <2>4 DEF ClientUser
<1>2. CASE ClientHandshake \/ ClientBeat \/ ClientMotors \/ ClientLosesServer \/ ClientClosesDevice
  BY <1>2, PadUntouched
  DEF ClientHandshake, ClientAck, ClientGivesUp, ClientBeat, ClientMotors, ClientRumble,
      ClientLosesServer, ClientClosesDevice, sentVars, PadInv, PadTypes
<1>3. ASSUME NEW x \in Samples, ClientSample(x)
      PROVE  PadInv'
  BY <1>3, PadAfterSend DEF ClientSample, PadInv, PadTypes
<1>4. CASE ServerUser
  <2>1. CASE ServerStart
    <3>1. ~armed
      BY <2>1 DEF ServerStart, PadInv, ArmedHasDatagram
    <3> QED BY <2>1, <3>1, PadAfterRelease DEF ServerStart, PadInv, PadTypes
  <2>2. CASE ServerStop \/ ServerCrash
    BY <2>2, PadAfterRelease DEF ServerStop, ServerCrash, ServerGone, Forget
  <2> QED BY <1>4, <2>1, <2>2 DEF ServerUser
<1>5. CASE ServerHandshake
  <2>1. CASE ServerAccept
    <3>1. ~armed /\ pad \in {Absent, Released}
      BY <2>1 DEF ServerAccept, Listening, PadInv, ArmedHasDatagram, PadShowsGamepad
    <3> QED BY <2>1, <3>1, PadAfterRelease DEF ServerAccept, PadInv, PadTypes, sentVars
  <2>2. CASE ServerDropsHello
    BY <2>2, PadUntouched DEF ServerDropsHello, sentVars, PadInv, PadTypes
  <2> QED BY <1>5, <2>1, <2>2 DEF ServerHandshake
<1>6. ASSUME NEW i \in 1 .. MaxSessions, NEW n \in 1 .. Len(sent[i]), ServerInput(i, n)
      PROVE  PadInv'
  <2>1. CASE EndSession("Faulted")
    BY <1>6, <2>1, PadAfterRelease DEF ServerInput, EndSession, Forget, PadInv, PadTypes
  <2>2. CASE pad' = ToXusbReport(Frame(sent[i][n])) /\ latest' = n /\ armed' = TRUE
             /\ UNCHANGED sState
    <3>1. sent[i][n] \in Samples \cup {Final}
      BY DEF PadInv, PadTypes
    <3>2. i = sId /\ sState = "Running" /\ UNCHANGED <<sentVars, sId>>
      BY <1>6 DEF ServerInput, Connected, Accepts
    <3>3. PadTypes' /\ ArmedHasDatagram'
      BY <2>2, <3>2 DEF PadInv, PadTypes, ArmedHasDatagram, sentVars
    <3>4. PadShowsGamepad'
      BY <2>2, <3>1, <3>2, FrameShows DEF PadShowsGamepad, sentVars
    <3> QED BY <3>3, <3>4 DEF PadInv
  <2> QED BY <1>6, <2>1, <2>2 DEF ServerInput
<1>7. CASE ServerLosesClient \/ ServerReleases
  BY <1>7, PadAfterRelease
  DEF ServerLosesClient, ServerReleases, EndSession, Forget, PadInv, PadTypes
<1>8. CASE \/ ServerBeat \/ ServerRumble \/ GamePublishes \/ Tick \/ Cut
           \/ \E c \in Commands : GameSets(c)
  BY <1>8, PadUntouched
  DEF ServerBeat, ServerRumble, RumbleLoad, RumbleSend, GamePublishes, GameSets, Tick, Cut,
      sentVars, PadInv, PadTypes
<1>9. CASE UNCHANGED vars
  BY <1>9, PadUntouched DEF vars, sentVars, PadInv, PadTypes
<1> QED BY <1>1, <1>2, <1>3, <1>4, <1>5, <1>6, <1>7, <1>8, <1>9 DEF Next

-----------------------------------------------------------------------------
\* PadShowsGamepad, whatever the network loses, repeats or reorders and
\* whenever sessions end: from SDL's readings to the report a game sees.
THEOREM PadIsFaithful == Spec => []PadShowsGamepad
<1>1. PadInv => PadShowsGamepad
  BY DEF PadInv
<1> QED BY PadInit, PadNext, <1>1, PTL DEF Spec

\* While its watchdog is armed a server is in a session with a client, and has
\* seen one of the datagrams that client sent.
THEOREM ArmedMeansInput == Spec => []ArmedHasDatagram
<1>1. PadInv => ArmedHasDatagram
  BY DEF PadInv
<1> QED BY PadInit, PadNext, <1>1, PTL DEF Spec

-----------------------------------------------------------------------------
\* What the client's state says of its connection and its motors.
ClientPlace ==
  /\ cState \in {"Stopped", "Starting"} => ~cUp /\ motors = Rest
  /\ cUp \/ cState \in {"Starting", "Running"} => ~closedC
  /\ cState # "Stopped" \/ ~closedS => cId # 0

\* A session with a client is with the last one that connected, and a client
\* that runs has been accepted.
ServerPlace ==
  /\ sId # 0 => ~closedS /\ sId = cId
  /\ sState = "Stopped" => sId = 0
  /\ cState = "Running" /\ ~closedS => sId # 0

\* The sessions to come have sent nothing, the current one has room left.
SentPlace ==
  /\ \A j \in 1 .. MaxSessions : j > cId => sent[j] = <<>>
  /\ cState \in {"Starting", "Running"} => Len(sent[cId]) <= MaxSamples[cId]

\* A closed end reads nothing; a client that is still there has at most one
\* frame under way, a server that has not answered yet none.
ChannelPlace ==
  /\ closedC => toClient = <<>>
  /\ closedS => toServer = <<>>
  /\ ~closedC => Len(toServer) <= 1
  /\ ~closedS /\ sId = 0 => toClient = <<>>
  /\ Connected => Len(toClient) <= 1 + applied

\* A generation is loaded after it was published and before it is applied.
SlotPlace ==
  /\ pending = wanted
  /\ applied <= generation /\ loaded <= generation
  /\ loaded # 0 => applied < loaded
  /\ game = "publish" => generation < MaxCommands
  /\ ~Connected => generation = 0 /\ loaded = 0 /\ applied = 0 /\ game = "idle" /\ wanted = Rest

\* Of the frames to a client only the first can be other than a command: the
\* answer a starting client waits for.
AnswerIsFirst ==
  sId # 0 =>
    /\ cState = "Starting" => toClient # <<>> /\ toClient[1] = "ack"
    /\ \A i \in 1 .. Len(toClient) : cState = "Running" \/ i > 1 => toClient[i] \in Commands

\* MotorsAgree, also while the client still waits for the answer.
LastTold == IF toClient = <<>> \/ toClient[Len(toClient)] = "ack"
            THEN motors ELSE toClient[Len(toClient)]
TellsWanted ==
  Connected /\ cState \in {"Starting", "Running"} /\ ~cut /\ game = "idle" /\ loaded = 0
    /\ applied = generation => LastTold = wanted

SystemInv == /\ TypeOK
             /\ ClientPlace /\ ServerPlace /\ SentPlace /\ ChannelPlace
             /\ SlotPlace /\ AnswerIsFirst /\ TellsWanted

-----------------------------------------------------------------------------
\* Frames are only added at the end of a channel and taken from its head.
LEMMA TailOf ==
  ASSUME NEW S, NEW q \in Seq(S), q # <<>>
  PROVE  /\ Head(q) = q[1] /\ Head(q) \in S
         /\ Tail(q) \in Seq(S) /\ Len(Tail(q)) = Len(q) - 1 /\ Len(q) \in Nat \ {0}
         /\ \A i \in 1 .. Len(Tail(q)) : i + 1 \in 1 .. Len(q) /\ Tail(q)[i] = q[i + 1]
         /\ (Tail(q) = <<>>) <=> (Len(q) = 1)
<1>1. Len(q) \in Nat \ {0} /\ q \in [1 .. Len(q) -> S]
  BY EmptySeq, LenProperties
<1>2. Tail(q) \in Seq(S) /\ Len(Tail(q)) = Len(q) - 1
  BY HeadTailProperties
<1>3. \A i \in 1 .. Len(Tail(q)) : i + 1 \in 1 .. Len(q) /\ Tail(q)[i] = q[i + 1]
  <2>1. \A i \in 1 .. Len(Tail(q)) : Tail(q)[i] = q[i + 1]
    BY HeadTailProperties
  <2>2. \A i \in 1 .. Len(q) - 1 : i + 1 \in 1 .. Len(q)
    BY <1>1
  <2> QED BY <1>2, <2>1, <2>2
<1>4. (Tail(q) = <<>>) <=> (Len(q) = 1)
  <2>1. <<>> \in Seq(S) /\ Len(<<>>) = 0 /\ (Tail(q) # <<>> => Len(Tail(q)) # 0)
    BY <1>2, EmptySeq
  <2> QED BY <1>1, <1>2, <2>1
<1>5. Head(q) \in S /\ Head(q) = q[1]
  BY HeadTailProperties
<1> QED BY <1>1, <1>2, <1>3, <1>4, <1>5

LEMMA AppendTo ==
  ASSUME NEW S, NEW q \in Seq(S), NEW m \in S
  PROVE  /\ Append(q, m) \in Seq(S) /\ Len(Append(q, m)) = Len(q) + 1 /\ Len(q) \in Nat
         /\ Append(q, m)[Len(q) + 1] = m /\ Append(q, m) # <<>>
         /\ \A i \in 1 .. Len(q) : Append(q, m)[i] = q[i]
  OBVIOUS

LEMMA SystemInit == Init => SystemInv
<1> SUFFICES ASSUME Init PROVE SystemInv
  OBVIOUS
<1> USE LanSystemAssumption DEF Init
<1>1. FlagTypeOK /\ ValueTypeOK
  <2>1. FlagTypeOK
    BY DEF FlagTypeOK
  <2>2. ValueTypeOK
    BY DEF ValueTypeOK
  <2> QED BY <2>1, <2>2
<1>2. SentTypeOK
  <2>1. <<>> \in Seq(Samples \cup {Final}) /\ Len(<<>>) = 0
    BY EmptySeq
  <2>2. \A i \in 1 .. MaxSessions : sent[i] = <<>> /\ MaxSamples[i] \in Nat
    OBVIOUS
  <2>3. sent \in [1 .. MaxSessions -> Seq(Samples \cup {Final})]
    BY <2>1
  <2>4. \A i \in 1 .. MaxSessions : Len(sent[i]) <= MaxSamples[i] + 1
    BY <2>1, <2>2
  <2> QED BY <2>3, <2>4 DEF SentTypeOK
<1>3. ChannelTypeOK
  BY DEF ChannelTypeOK
<1>4. ClientPlace /\ ServerPlace
  BY DEF ClientPlace, ServerPlace
<1>5. SentPlace /\ ChannelPlace
  BY DEF SentPlace, ChannelPlace, Connected
<1>6. SlotPlace
  BY DEF SlotPlace, Connected
<1>7. AnswerIsFirst /\ TellsWanted
  BY DEF AnswerIsFirst, TellsWanted, Connected
<1> QED BY <1>1, <1>2, <1>3, <1>4, <1>5, <1>6, <1>7 DEF SystemInv, TypeOK

-----------------------------------------------------------------------------
\* FlagTypeOK is kept.
LEMMA FlagTypes == SystemInv /\ [Next]_vars => FlagTypeOK'
<1> SUFFICES ASSUME SystemInv, [Next]_vars PROVE FlagTypeOK'
  OBVIOUS
<1>0. FlagTypeOK
  BY DEF SystemInv, TypeOK
<1> USE <1>0 DEF FlagTypeOK
<1>1. CASE ClientUser
  BY <1>1 DEF ClientUser, ClientStart, ClientStop, ClientCrash, ClientUnplugged, ClientGone, CloseC,
     sessionVars, linkVars
<1>2. CASE ClientHandshake
  BY <1>2 DEF ClientHandshake, ClientAck, ClientGivesUp, CloseC, sessionVars, linkVars
<1>3. CASE ClientBeat \/ ClientMotors \/ ClientLosesServer \/ ClientClosesDevice
  BY <1>3 DEF ClientBeat, ClientMotors, ClientRumble, ClientLosesServer, ClientClosesDevice,
     clientVars, sessionVars, linkVars
<1>4. CASE \E x \in Samples : ClientSample(x)
  BY <1>4 DEF ClientSample, clientVars, sessionVars, linkVars
<1>5. CASE ServerUser
  BY <1>5 DEF ServerUser, ServerStart, ServerStop, ServerCrash, ServerGone, Forget, CloseS,
     clientVars, linkVars
<1>6. CASE ServerHandshake
  BY <1>6 DEF ServerHandshake, ServerAccept, ServerDropsHello, CloseS, clientVars, sessionVars
<1>7. CASE ServerBeat \/ ServerRumble \/ ServerLosesClient \/ ServerReleases
  BY <1>7 DEF ServerBeat, ServerRumble, RumbleLoad, RumbleSend, ServerLosesClient, ServerReleases,
     EndSession, Forget, clientVars, sessionVars, linkVars
<1>8. CASE \E i \in 1 .. MaxSessions : \E n \in 1 .. Len(sent[i]) : ServerInput(i, n)
  BY <1>8 DEF ServerInput, EndSession, Forget, clientVars, linkVars
<1>9. CASE (\E c \in Commands : GameSets(c)) \/ GamePublishes \/ Tick \/ Cut
  BY <1>9 DEF GameSets, GamePublishes, Tick, Cut, clientVars, sessionVars, linkVars
<1>10. CASE UNCHANGED vars
  BY <1>10 DEF vars, clientVars, sessionVars, linkVars
<1> QED BY <1>1, <1>2, <1>3, <1>4, <1>5, <1>6, <1>7, <1>8, <1>9, <1>10 DEF Next

\* ValueTypeOK is kept.
LEMMA ValueTypes == SystemInv /\ [Next]_vars => ValueTypeOK'
<1> SUFFICES ASSUME SystemInv, [Next]_vars PROVE ValueTypeOK'
  OBVIOUS
<1>0. ValueTypeOK
  BY DEF SystemInv, TypeOK
<1> USE <1>0, LanSystemAssumption DEF ValueTypeOK
<1>1. CASE ClientUser
  BY <1>1 DEF ClientUser, ClientStart, ClientStop, ClientCrash, ClientUnplugged, ClientGone,
     sentVars, sessionVars, ageVars, rumbleVars
<1>2. CASE ClientHandshake
  BY <1>2 DEF ClientHandshake, ClientAck, ClientGivesUp, sentVars, sessionVars, ageVars, rumbleVars
<1>3. CASE ClientBeat \/ ClientMotors \/ ClientLosesServer \/ ClientClosesDevice
  BY <1>3 DEF ClientBeat, ClientMotors, ClientRumble, ClientLosesServer, ClientClosesDevice,
     clientVars, sentVars, sessionVars, ageVars, rumbleVars
<1>4. CASE \E x \in Samples : ClientSample(x)
  BY <1>4 DEF ClientSample, clientVars, sessionVars, ageVars, rumbleVars
<1>5. CASE ServerUser
  BY <1>5 DEF ServerUser, ServerStart, ServerStop, ServerCrash, ServerGone, Forget,
     clientVars, sentVars, ageVars, rumbleVars
<1>6. CASE ServerHandshake
  BY <1>6 DEF ServerHandshake, ServerAccept, ServerDropsHello,
     clientVars, sentVars, sessionVars, ageVars, rumbleVars
<1>7. CASE ServerBeat \/ ServerRumble \/ ServerLosesClient \/ ServerReleases
  BY <1>7 DEF ServerBeat, ServerRumble, RumbleLoad, RumbleSend, ServerLosesClient, ServerReleases,
     EndSession, Forget, clientVars, sentVars, sessionVars, ageVars, rumbleVars
<1>8. CASE \E i \in 1 .. MaxSessions : \E n \in 1 .. Len(sent[i]) : ServerInput(i, n)
  BY <1>8 DEF ServerInput, EndSession, Forget, clientVars, sentVars, rumbleVars
<1>9. CASE (\E c \in Commands : GameSets(c)) \/ GamePublishes
  BY <1>9 DEF GameSets, GamePublishes, Stores, clientVars, sentVars, sessionVars, ageVars,
     SystemInv, SlotPlace
<1>10. CASE Tick \/ Cut
  BY <1>10 DEF Tick, Cut, Older, clientVars, sentVars, sessionVars, ageVars, rumbleVars
<1>11. CASE UNCHANGED vars
  BY <1>11 DEF vars, clientVars, sentVars, sessionVars, ageVars, rumbleVars
<1> QED BY <1>1, <1>2, <1>3, <1>4, <1>5, <1>6, <1>7, <1>8, <1>9, <1>10, <1>11 DEF Next

\* ClientPlace is kept: a client that starts finds nothing of an earlier one.
LEMMA ClientPlaces == SystemInv /\ [Next]_vars => ClientPlace'
<1> SUFFICES ASSUME SystemInv, [Next]_vars PROVE ClientPlace'
  OBVIOUS
<1>0. ClientPlace /\ FlagTypeOK /\ cId \in 0 .. MaxSessions
  BY DEF SystemInv, TypeOK, ValueTypeOK
<1> USE <1>0 DEF ClientPlace, FlagTypeOK
<1>1. CASE ClientUser
  BY <1>1, LanSystemAssumption
  DEF ClientUser, ClientStart, ClientStop, ClientCrash, ClientUnplugged, ClientGone, CloseC,
     sentVars, linkVars
<1>2. CASE ClientHandshake
  BY <1>2 DEF ClientHandshake, ClientAck, ClientGivesUp, CloseC, sentVars
<1>3. CASE ClientBeat \/ ClientMotors \/ ClientLosesServer \/ ClientClosesDevice
  BY <1>3 DEF ClientBeat, ClientMotors, ClientRumble, ClientLosesServer, ClientClosesDevice,
     clientVars, sentVars, linkVars
<1>4. CASE \E x \in Samples : ClientSample(x)
  BY <1>4 DEF ClientSample, clientVars, linkVars
<1>5. CASE ServerUser
  BY <1>5 DEF ServerUser, ServerStart, ServerStop, ServerCrash, ServerGone, CloseS,
     clientVars, sentVars, linkVars
<1>6. CASE ServerHandshake
  BY <1>6 DEF ServerHandshake, ServerAccept, ServerDropsHello, CloseS, clientVars, sentVars
<1>7. CASE ServerBeat \/ ServerRumble \/ ServerLosesClient \/ ServerReleases
  BY <1>7 DEF ServerBeat, ServerRumble, RumbleLoad, RumbleSend, ServerLosesClient, ServerReleases,
     clientVars, sentVars, linkVars
<1>8. CASE \E i \in 1 .. MaxSessions : \E n \in 1 .. Len(sent[i]) : ServerInput(i, n)
  BY <1>8 DEF ServerInput, clientVars, sentVars, linkVars
<1>9. CASE (\E c \in Commands : GameSets(c)) \/ GamePublishes \/ Tick \/ Cut
  BY <1>9 DEF GameSets, GamePublishes, Tick, Cut, clientVars, sentVars, linkVars
<1>10. CASE UNCHANGED vars
  BY <1>10 DEF vars, clientVars, sentVars, linkVars
<1> QED BY <1>1, <1>2, <1>3, <1>4, <1>5, <1>6, <1>7, <1>8, <1>9, <1>10 DEF Next

\* ServerPlace is kept: only a listening server meets a new connection.
LEMMA ServerPlaces == SystemInv /\ [Next]_vars => ServerPlace'
<1> SUFFICES ASSUME SystemInv, [Next]_vars PROVE ServerPlace'
  OBVIOUS
<1>0. ServerPlace /\ FlagTypeOK /\ ClientPlace
  BY DEF SystemInv, TypeOK
<1> USE <1>0 DEF ServerPlace, FlagTypeOK
<1>1. CASE ClientUser
  BY <1>1 DEF ClientUser, ClientStart, ClientStop, ClientCrash, ClientUnplugged, ClientGone, CloseC,
     Listening, sentVars, sessionVars, linkVars
<1>2. CASE ClientHandshake
  BY <1>2 DEF ClientHandshake, ClientAck, ClientGivesUp, CloseC, Arrives, sentVars, sessionVars,
     SystemInv, ChannelPlace
<1>3. CASE ClientBeat \/ ClientMotors \/ ClientLosesServer \/ ClientClosesDevice
  BY <1>3 DEF ClientBeat, ClientMotors, ClientRumble, ClientLosesServer, ClientClosesDevice,
     clientVars, sentVars, sessionVars, linkVars
<1>4. CASE \E x \in Samples : ClientSample(x)
  BY <1>4 DEF ClientSample, clientVars, sessionVars, linkVars
<1>5. CASE ServerUser
  BY <1>5 DEF ServerUser, ServerStart, ServerStop, ServerCrash, ServerGone, CloseS,
     clientVars, sentVars, linkVars
<1>6. CASE ServerHandshake
  BY <1>6 DEF ServerHandshake, ServerAccept, ServerDropsHello, CloseS, Listening, ClientPlace,
     clientVars, sentVars, sessionVars
<1>7. CASE ServerBeat \/ ServerRumble \/ ServerLosesClient \/ ServerReleases
  BY <1>7 DEF ServerBeat, ServerRumble, RumbleLoad, RumbleSend, ServerLosesClient, ServerReleases,
     EndSession, Connected, clientVars, sentVars, sessionVars, linkVars
<1>8. CASE \E i \in 1 .. MaxSessions : \E n \in 1 .. Len(sent[i]) : ServerInput(i, n)
  BY <1>8 DEF ServerInput, EndSession, Connected, clientVars, sentVars, linkVars
<1>9. CASE (\E c \in Commands : GameSets(c)) \/ GamePublishes \/ Tick \/ Cut
  BY <1>9 DEF GameSets, GamePublishes, Tick, Cut, clientVars, sentVars, sessionVars, linkVars
<1>10. CASE UNCHANGED vars
  BY <1>10 DEF vars, clientVars, sentVars, sessionVars, linkVars
<1> QED BY <1>1, <1>2, <1>3, <1>4, <1>5, <1>6, <1>7, <1>8, <1>9, <1>10 DEF Next

\* SlotPlace is kept: the two halves of a store and of a load interleave.
LEMMA SlotPlaces == SystemInv /\ [Next]_vars => SlotPlace'
<1> SUFFICES ASSUME SystemInv, [Next]_vars PROVE SlotPlace'
  OBVIOUS
<1>0. SlotPlace /\ ValueTypeOK /\ ServerPlace
  BY DEF SystemInv, TypeOK
<1> USE <1>0, LanSystemAssumption DEF SlotPlace, ValueTypeOK, ServerPlace
<1>1. CASE ClientUser
  BY <1>1 DEF ClientUser, ClientStart, ClientStop, ClientCrash, ClientUnplugged, Connected,
     sessionVars, rumbleVars
<1>2. CASE ClientHandshake
  BY <1>2 DEF ClientHandshake, ClientAck, ClientGivesUp, Connected, sessionVars, rumbleVars
<1>3. CASE ClientBeat \/ ClientMotors \/ ClientLosesServer \/ ClientClosesDevice
  BY <1>3 DEF ClientBeat, ClientMotors, ClientRumble, ClientLosesServer, ClientClosesDevice,
     Connected, sessionVars, rumbleVars
<1>4. CASE \E x \in Samples : ClientSample(x)
  BY <1>4 DEF ClientSample, Connected, sessionVars, rumbleVars
<1>5. CASE ServerUser
  BY <1>5 DEF ServerUser, ServerStart, ServerStop, ServerCrash, ServerGone, Forget, Connected, rumbleVars
<1>6. CASE ServerHandshake
  BY <1>6 DEF ServerHandshake, ServerAccept, ServerDropsHello, Listening, Connected,
     sessionVars, rumbleVars
<1>7. CASE ServerBeat \/ ServerLosesClient \/ ServerReleases
  BY <1>7 DEF ServerBeat, ServerLosesClient, ServerReleases,
     EndSession, Forget, Connected, sessionVars, rumbleVars
<1>8. CASE ServerRumble
  BY <1>8 DEF ServerRumble, RumbleLoad, RumbleSend, Connected, sessionVars
<1>9. CASE \E i \in 1 .. MaxSessions : \E n \in 1 .. Len(sent[i]) : ServerInput(i, n)
  BY <1>9 DEF ServerInput, EndSession, Forget, Connected, rumbleVars
<1>10. CASE \E c \in Commands : GameSets(c)
  BY <1>10 DEF GameSets, Stores, Connected, sessionVars
<1>11. CASE GamePublishes
  BY <1>11 DEF GamePublishes, Stores, Connected, sessionVars
<1>12. CASE Tick \/ Cut
  BY <1>12 DEF Tick, Cut, Connected, sessionVars, rumbleVars
<1>13. CASE UNCHANGED vars
  BY <1>13 DEF vars, Connected, sessionVars, rumbleVars
<1> QED BY <1>1, <1>2, <1>3, <1>4, <1>5, <1>6, <1>7, <1>8, <1>9, <1>10, <1>11, <1>12, <1>13 DEF Next

-----------------------------------------------------------------------------
\* A sample, or the final state, of a session that has room for it.
LEMMA SentGrows ==
  ASSUME SystemInv, cState = "Running", NEW x \in Samples \cup {Final},
         sent' = [sent EXCEPT ![cId] = Append(@, x)], UNCHANGED <<cId, sId, latest>>,
         Len(sent[cId]) < MaxSamples[cId] \/ cState' = "Stopped"
  PROVE  SentTypeOK' /\ SentPlace'
<1>1. /\ cId \in 1 .. MaxSessions /\ sId \in 0 .. MaxSessions /\ MaxSessions \in Nat
      /\ Len(sent[cId]) <= MaxSamples[cId] /\ sent[cId] \in Seq(Samples \cup {Final})
      /\ MaxSamples[cId] \in Nat
  BY LanSystemAssumption
  DEF SystemInv, TypeOK, ValueTypeOK, SentTypeOK, ClientPlace, SentPlace
<1>2. /\ DOMAIN sent = 1 .. MaxSessions /\ sent'[cId] = Append(sent[cId], x)
      /\ \A j \in 1 .. MaxSessions : j # cId => sent'[j] = sent[j]
  BY <1>1 DEF SystemInv, TypeOK, SentTypeOK
<1>3. /\ sent'[cId] \in Seq(Samples \cup {Final}) /\ Len(sent'[cId]) = Len(sent[cId]) + 1
      /\ Len(sent[cId]) \in Nat
  BY <1>1, <1>2, AppendProperties, LenProperties
<1>4. \A j \in 1 .. MaxSessions : Len(sent'[j]) <= MaxSamples[j] + 1
  BY <1>1, <1>2, <1>3 DEF SystemInv, TypeOK, SentTypeOK
<1>5. sent' \in [1 .. MaxSessions -> Seq(Samples \cup {Final})]
  BY <1>2, <1>3 DEF SystemInv, TypeOK, SentTypeOK
<1>6. latest' \in IF sId' = 0 THEN {0} ELSE 0 .. Len(sent'[sId'])
  <2>1. CASE sId = cId
    BY <1>1, <1>2, <1>3, <2>1 DEF SystemInv, TypeOK, SentTypeOK
  <2>2. CASE sId # cId
    BY <1>1, <1>2, <2>2 DEF SystemInv, TypeOK, SentTypeOK
  <2> QED BY <2>1, <2>2
<1>7. SentPlace'
  <2>1. \A j \in 1 .. MaxSessions : j > cId' => sent'[j] = <<>>
    BY <1>1, <1>2 DEF SystemInv, SentPlace
  <2>2. cState' \in {"Starting", "Running"} => Len(sent'[cId']) <= MaxSamples[cId']
    BY <1>1, <1>3
  <2> QED BY <2>1, <2>2 DEF SentPlace
<1> QED BY <1>4, <1>5, <1>6, <1>7 DEF SentTypeOK

\* A step that sends no datagram.
LEMMA SentWaits ==
  ASSUME SystemInv, UNCHANGED sentVars,
         cState' \in {"Starting", "Running"} => cState \in {"Starting", "Running"},
         latest' \in IF sId' = 0 THEN {0} ELSE 0 .. Len(sent[sId'])
  PROVE  SentTypeOK' /\ SentPlace'
<1>1. SentTypeOK'
  BY DEF SystemInv, TypeOK, SentTypeOK, sentVars
<1>2. SentPlace'
  BY DEF SystemInv, SentPlace, sentVars
<1> QED BY <1>1, <1>2

\* SentTypeOK and SentPlace are kept.
LEMMA SentTypes == SystemInv /\ [Next]_vars => SentTypeOK' /\ SentPlace'
<1> SUFFICES ASSUME SystemInv, [Next]_vars PROVE SentTypeOK' /\ SentPlace'
  OBVIOUS
<1>0. latest \in IF sId = 0 THEN {0} ELSE 0 .. Len(sent[sId])
  BY DEF SystemInv, TypeOK, SentTypeOK
<1>1. CASE ClientUser
  <2>1. CASE ClientStart
    <3>1. /\ cId \in Nat /\ cId' = cId + 1 /\ cId' \in 1 .. MaxSessions /\ sent' = sent /\ sId' = sId
          /\ latest' = latest
      BY <2>1, LanSystemAssumption DEF ClientStart, SystemInv, TypeOK, ValueTypeOK, sessionVars
    <3>2. SentTypeOK'
      BY <3>1 DEF SystemInv, TypeOK, SentTypeOK
    <3>3. sent[cId'] = <<>> /\ \A j \in 1 .. MaxSessions : j > cId' => sent[j] = <<>>
      BY <3>1 DEF SystemInv, SentPlace
    <3>4. MaxSamples[cId'] \in Nat
      BY <3>1, LanSystemAssumption
    <3>5. Len(sent'[cId']) = 0
      BY <3>1, <3>3, EmptySeq
    <3> QED BY <3>1, <3>2, <3>3, <3>4, <3>5 DEF SentPlace
  <2>2. CASE ClientStop /\ cState = "Running"
    BY <2>2, SentGrows DEF ClientStop, ClientGone, sessionVars
  <2>3. CASE ClientStop /\ cState # "Running"
    BY <1>0, <2>3, SentWaits DEF ClientStop, ClientGone, sentVars, sessionVars
  <2>4. CASE ClientCrash \/ ClientUnplugged
    BY <1>0, <2>4, SentWaits DEF ClientCrash, ClientUnplugged, ClientGone, sentVars, sessionVars
  <2> QED BY <1>1, <2>1, <2>2, <2>3, <2>4 DEF ClientUser
<1>2. CASE ClientHandshake
  BY <1>0, <1>2, SentWaits DEF ClientHandshake, ClientAck, ClientGivesUp, sentVars, sessionVars
<1>3. CASE ClientBeat \/ ClientMotors \/ ClientLosesServer \/ ClientClosesDevice
  BY <1>0, <1>3, SentWaits
  DEF ClientBeat, ClientMotors, ClientRumble, ClientLosesServer, ClientClosesDevice,
      clientVars, sentVars, sessionVars
<1>4. ASSUME NEW x \in Samples, ClientSample(x)
      PROVE  SentTypeOK' /\ SentPlace'
  BY <1>4, SentGrows DEF ClientSample, sessionVars
<1>5. CASE ServerUser
  <2>1. CASE ServerStart
    BY <1>0, <2>1, SentWaits DEF ServerStart, clientVars, sentVars
  <2>2. CASE ServerStop \/ ServerCrash
    BY <2>2, SentWaits DEF ServerStop, ServerCrash, ServerGone, Forget, clientVars, sentVars
  <2> QED BY <1>5, <2>1, <2>2 DEF ServerUser
<1>6. CASE ServerHandshake
  <2>1. CASE ServerAccept
    <3>1. latest' = 0 /\ sId' \in {0, cId} /\ UNCHANGED <<sentVars, cState>>
      BY <1>0, <2>1 DEF ServerAccept, Listening, clientVars, sentVars
    <3>2. cId \in 1 .. MaxSessions => Len(sent[cId]) \in Nat
      <4> SUFFICES ASSUME cId \in 1 .. MaxSessions PROVE Len(sent[cId]) \in Nat
        OBVIOUS
      <4>1. sent[cId] \in Seq(Samples \cup {Final})
        BY DEF SystemInv, TypeOK, SentTypeOK
      <4> QED BY <4>1, LenProperties
    <3>3. cId \in 0 .. MaxSessions /\ MaxSessions \in Nat
      BY LanSystemAssumption DEF SystemInv, TypeOK, ValueTypeOK
    <3>4. latest' \in IF sId' = 0 THEN {0} ELSE 0 .. Len(sent[sId'])
      BY <3>1, <3>2, <3>3
    <3> QED BY <3>1, <3>4, SentWaits
  <2>2. CASE ServerDropsHello
    BY <1>0, <2>2, SentWaits DEF ServerDropsHello, clientVars, sentVars, sessionVars
  <2> QED BY <1>6, <2>1, <2>2 DEF ServerHandshake
<1>7. ASSUME NEW i \in 1 .. MaxSessions, NEW n \in 1 .. Len(sent[i]), ServerInput(i, n)
      PROVE  SentTypeOK' /\ SentPlace'
  <2>1. /\ i = sId /\ sId' = sId /\ sId # 0 /\ UNCHANGED <<sentVars, cState>>
        /\ latest' = n \/ latest' = 0
    BY <1>7 DEF ServerInput, EndSession, Forget, Accepts, Connected, clientVars
  <2>2. n \in 0 .. Len(sent[i]) /\ 0 \in 0 .. Len(sent[i])
    OBVIOUS
  <2> QED BY <2>1, <2>2, SentWaits
<1>8. CASE ServerLosesClient
  <2>1. latest' = 0 /\ sId' = sId /\ UNCHANGED <<sentVars, cState>>
    BY <1>8 DEF ServerLosesClient, EndSession, Forget, clientVars
  <2>2. latest' \in IF sId' = 0 THEN {0} ELSE 0 .. Len(sent[sId'])
    BY <1>0, <2>1
  <2> QED BY <2>1, <2>2, SentWaits
<1>9. CASE ServerBeat \/ ServerRumble \/ ServerReleases
  BY <1>0, <1>9, SentWaits
  DEF ServerBeat, ServerRumble, RumbleLoad, RumbleSend, ServerReleases, clientVars, sentVars, sessionVars
<1>10. CASE (\E c \in Commands : GameSets(c)) \/ GamePublishes \/ Tick \/ Cut
  BY <1>0, <1>10, SentWaits DEF GameSets, GamePublishes, Tick, Cut, clientVars, sentVars, sessionVars
<1>11. CASE UNCHANGED vars
  BY <1>0, <1>11, SentWaits DEF vars, clientVars, sentVars, sessionVars
<1> QED BY <1>1, <1>2, <1>3, <1>4, <1>5, <1>6, <1>7, <1>8, <1>9, <1>10, <1>11 DEF Next

-----------------------------------------------------------------------------
ServerFrames == {"hello", "wrongHello", "heartbeat", "stop"}
ClientFrames == {"ack", "error", "stop"} \cup Commands

\* A frame sent to the server adds at most itself.
LEMMA SendsToServer ==
  ASSUME ChannelTypeOK, NEW m \in ServerFrames, ToServer(m)
  PROVE  /\ toServer' \in Seq(ServerFrames)
         /\ Len(toServer) \in Nat /\ Len(toServer') \in Nat /\ Len(toServer') <= Len(toServer) + 1
         /\ closedS => toServer' = toServer
<1>1. toServer \in Seq(ServerFrames)
  BY DEF ChannelTypeOK, ServerFrames
<1>2. Len(toServer) \in Nat
  BY <1>1, LenProperties
<1>3. CASE toServer' = toServer
  BY <1>1, <1>2, <1>3
<1>4. CASE toServer' = Append(toServer, m) /\ ~closedS
  BY <1>1, <1>2, <1>4, AppendProperties
<1> QED BY <1>3, <1>4 DEF ToServer

\* A frame sent to the client adds at most itself.
LEMMA SendsToClient ==
  ASSUME ChannelTypeOK, NEW m \in ClientFrames, ToClient(m)
  PROVE  /\ toClient' \in Seq(ClientFrames)
         /\ Len(toClient) \in Nat /\ Len(toClient') \in Nat /\ Len(toClient') <= Len(toClient) + 1
         /\ closedC => toClient' = toClient
<1>1. toClient \in Seq(ClientFrames)
  BY DEF ChannelTypeOK, ClientFrames
<1>2. Len(toClient) \in Nat
  BY <1>1, LenProperties
<1>3. CASE toClient' = toClient
  BY <1>1, <1>2, <1>3
<1>4. CASE toClient' = Append(toClient, m) /\ ~closedC
  BY <1>1, <1>2, <1>4, AppendProperties
<1> QED BY <1>3, <1>4 DEF ToClient

\* A frame that has arrived is taken from the head.
LEMMA TakesFromServerQueue ==
  ASSUME ChannelTypeOK, toServer # <<>>, toServer' = Tail(toServer)
  PROVE  /\ toServer' \in Seq(ServerFrames)
         /\ Len(toServer') \in Nat /\ Len(toServer') = Len(toServer) - 1
<1>1. toServer \in Seq(ServerFrames)
  BY DEF ChannelTypeOK, ServerFrames
<1> QED BY <1>1, TailOf

LEMMA TakesFromClientQueue ==
  ASSUME ChannelTypeOK, toClient # <<>>, toClient' = Tail(toClient)
  PROVE  /\ toClient' \in Seq(ClientFrames)
         /\ Len(toClient') \in Nat /\ Len(toClient') = Len(toClient) - 1
<1>1. toClient \in Seq(ClientFrames)
  BY DEF ChannelTypeOK, ClientFrames
<1> QED BY <1>1, TailOf

\* An empty channel is of its type.
LEMMA EmptyQueues ==
  /\ <<>> \in Seq(ServerFrames) /\ <<>> \in Seq(ClientFrames) /\ Len(<<>>) = 0
  BY EmptySeq

\* A step that leaves the channel alone.
LEMMA ChannelRests ==
  ASSUME SystemInv, UNCHANGED <<linkVars, sId>>, Connected' => Connected, applied' = applied \/ ~Connected'
  PROVE  ChannelTypeOK' /\ ChannelPlace'
<1>1. ChannelTypeOK'
  BY DEF SystemInv, TypeOK, ChannelTypeOK, linkVars
<1>2. ChannelPlace'
  BY DEF SystemInv, ChannelPlace, linkVars
<1> QED BY <1>1, <1>2

\* ChannelTypeOK and ChannelPlace are kept.
LEMMA ChannelTypes == SystemInv /\ [Next]_vars => ChannelTypeOK' /\ ChannelPlace'
<1> SUFFICES ASSUME SystemInv, [Next]_vars PROVE ChannelTypeOK' /\ ChannelPlace'
  OBVIOUS
<1>0. /\ ChannelTypeOK /\ ChannelPlace /\ ClientPlace /\ ServerPlace
      /\ toServer \in Seq(ServerFrames) /\ toClient \in Seq(ClientFrames)
      /\ Len(toServer) \in Nat /\ Len(toClient) \in Nat
      /\ Len(toServer) <= 2 /\ Len(toClient) <= MaxCommands + 2
      /\ MaxCommands \in Nat /\ applied \in Nat /\ applied <= MaxCommands
  <2>1. toServer \in Seq(ServerFrames) /\ toClient \in Seq(ClientFrames)
    BY DEF SystemInv, TypeOK, ChannelTypeOK, ServerFrames, ClientFrames
  <2> QED BY <2>1, LenProperties, LanSystemAssumption
      DEF SystemInv, TypeOK, ChannelTypeOK, ValueTypeOK
<1>1. CASE ClientUser
  <2>1. CASE ClientStart
    <3>1. toServer' \in Seq(ServerFrames) /\ Len(toServer') = 1
      <4>1. PICK hello \in {"hello", "wrongHello"} : toServer' = <<hello>>
        BY <2>1 DEF ClientStart
      <4> QED BY <4>1 DEF ServerFrames
    <3>2. /\ toClient' = toClient /\ toClient = <<>> /\ ~closedC' /\ ~closedS' /\ ~Connected'
      BY <1>0, <2>1 DEF ClientStart, ChannelPlace, Listening, Connected, sessionVars
    <3>3. ChannelTypeOK'
      BY <1>0, <3>1, <3>2 DEF ChannelTypeOK, ServerFrames
    <3>4. ChannelPlace'
      BY <3>1, <3>2 DEF ChannelPlace
    <3> QED BY <3>3, <3>4
  <2>2. CASE ClientStop
    <3>1. /\ toClient' = <<>> /\ closedC' /\ closedS' = closedS /\ sId' = sId /\ applied' = applied
          /\ cUp => ~closedC
      BY <1>0, <2>2
      DEF ClientStop, ClientGone, CloseC, ClientPlace, sessionVars, rumbleVars
    <3>2. /\ toServer' \in Seq(ServerFrames) /\ Len(toServer') <= 2
          /\ closedS => toServer' = toServer
      <4>1. CASE cUp /\ ToServer("stop")
        <5>1. Len(toServer) <= 1
          BY <1>0, <3>1, <4>1 DEF ChannelPlace
        <5> QED BY <1>0, <4>1, <5>1, SendsToServer DEF ServerFrames
      <4>2. CASE toServer' = toServer
        BY <1>0, <4>2
      <4> QED BY <2>2, <4>1, <4>2 DEF ClientStop
    <3>3. ChannelTypeOK'
      BY <1>0, <3>1, <3>2, EmptyQueues DEF ChannelTypeOK, ServerFrames, ClientFrames
    <3>4. ChannelPlace'
      BY <1>0, <3>1, <3>2, EmptyQueues DEF ChannelPlace
    <3> QED BY <3>3, <3>4
  <2>3. CASE ClientCrash
    <3>1. /\ toClient' = <<>> /\ closedC' /\ closedS' = closedS /\ applied' = applied /\ toServer' = toServer
      BY <2>3 DEF ClientCrash, ClientGone, CloseC, rumbleVars
    <3>2. ChannelTypeOK'
      BY <1>0, <3>1, EmptyQueues DEF ChannelTypeOK, ClientFrames
    <3>3. ChannelPlace'
      BY <1>0, <3>1, EmptyQueues DEF ChannelPlace
    <3> QED BY <3>2, <3>3
  <2>4. CASE ClientUnplugged
    BY <2>4, ChannelRests DEF ClientUnplugged, Connected, sessionVars, rumbleVars
  <2> QED BY <1>1, <2>1, <2>2, <2>3, <2>4 DEF ClientUser
<1>2. CASE ClientAck /\ cState' = "Running"
  <2>1. /\ toClient # <<>> /\ toClient' = Tail(toClient) /\ UNCHANGED <<toServer, closedC, closedS, cut>>
        /\ UNCHANGED <<sState, sId, applied>>
    BY <1>2 DEF ClientAck, Arrives, sessionVars, rumbleVars
  <2>2. /\ toClient' \in Seq(ClientFrames) /\ Len(toClient') \in Nat
        /\ Len(toClient') = Len(toClient) - 1
    BY <1>0, <2>1, TakesFromClientQueue
  <2>3. ChannelTypeOK'
    BY <1>0, <2>1, <2>2 DEF ChannelTypeOK, ClientFrames
  <2>4. ChannelPlace'
    BY <1>0, <2>1, <2>2 DEF ChannelPlace, Connected
  <2> QED BY <2>3, <2>4
<1>3. CASE ClientAck /\ cState' # "Running"
  <2>1. /\ toClient' = <<>> /\ closedC' /\ closedS' = closedS /\ applied' = applied
        /\ ~closedC /\ ToServer("stop")
    BY <1>0, <1>3 DEF ClientAck, CloseC, ClientPlace, rumbleVars
  <2>2. /\ toServer' \in Seq(ServerFrames) /\ Len(toServer') <= 2 /\ (closedS => toServer' = toServer)
    BY <1>0, <2>1, SendsToServer DEF ServerFrames, ChannelPlace
  <2>3. ChannelTypeOK'
    BY <1>0, <2>1, <2>2, EmptyQueues DEF ChannelTypeOK, ServerFrames, ClientFrames
  <2>4. ChannelPlace'
    BY <1>0, <2>1, <2>2, EmptyQueues DEF ChannelPlace
  <2> QED BY <2>3, <2>4
<1>4. CASE ClientGivesUp
  <2>1. /\ toClient' = <<>> /\ closedC' /\ closedS' = closedS /\ applied' = applied /\ toServer' = toServer
    BY <1>4 DEF ClientGivesUp, CloseC, rumbleVars
  <2>2. ChannelTypeOK'
    BY <1>0, <2>1, EmptyQueues DEF ChannelTypeOK, ClientFrames
  <2>3. ChannelPlace'
    BY <1>0, <2>1, EmptyQueues DEF ChannelPlace
  <2> QED BY <2>2, <2>3
<1>5. CASE ClientBeat
  <2>1. /\ toServer = <<>> /\ ToServer("heartbeat") /\ ~closedS /\ cUp
        /\ UNCHANGED <<toClient, closedC, closedS, sState, sId, applied>>
    BY <1>5 DEF ClientBeat, sessionVars, rumbleVars
  <2>2. toServer' \in Seq(ServerFrames) /\ Len(toServer') <= 1
    BY <1>0, <2>1, SendsToServer, EmptyQueues DEF ServerFrames
  <2>3. ChannelTypeOK'
    BY <1>0, <2>1, <2>2 DEF ChannelTypeOK, ServerFrames
  <2>4. ChannelPlace'
    BY <1>0, <2>1, <2>2 DEF ChannelPlace, ClientPlace, Connected
  <2> QED BY <2>3, <2>4
<1>6. CASE ClientMotors
  <2>1. /\ toClient # <<>> /\ toClient' = Tail(toClient) /\ UNCHANGED <<toServer, closedC, closedS>>
        /\ UNCHANGED <<sState, sId, applied>>
    BY <1>6 DEF ClientMotors, ClientRumble, Arrives, sessionVars, rumbleVars
  <2>2. /\ toClient' \in Seq(ClientFrames) /\ Len(toClient') \in Nat
        /\ Len(toClient') = Len(toClient) - 1
    BY <1>0, <2>1, TakesFromClientQueue
  <2>3. ChannelTypeOK'
    BY <1>0, <2>1, <2>2 DEF ChannelTypeOK, ClientFrames
  <2>4. ChannelPlace'
    BY <1>0, <2>1, <2>2 DEF ChannelPlace, Connected
  <2> QED BY <2>3, <2>4
<1>7. CASE ClientLosesServer \/ ClientClosesDevice \/ \E x \in Samples : ClientSample(x)
  BY <1>7, ChannelRests
  DEF ClientLosesServer, ClientClosesDevice, ClientSample, Connected, sessionVars, rumbleVars
<1>8. CASE ServerStart
  BY <1>0, <1>8, ChannelRests DEF ServerStart, ServerPlace, Connected, rumbleVars
<1>9. CASE ServerStop \/ ServerCrash
  <2>1. /\ toServer' = <<>> /\ closedS' /\ closedC' = closedC /\ sId' = 0 /\ sState' = "Stopped"
        /\ toClient' = toClient \/ (Connected /\ ToClient("stop"))
    BY <1>9 DEF ServerStop, ServerCrash, ServerGone, CloseS
  <2>2. /\ toClient' \in Seq(ClientFrames) /\ Len(toClient') <= MaxCommands + 2
        /\ closedC => toClient' = toClient
    <3>1. CASE toClient' = toClient
      BY <1>0, <3>1
    <3>2. CASE Connected /\ ToClient("stop")
      BY <1>0, <3>2, SendsToClient DEF ClientFrames, ChannelPlace
    <3> QED BY <2>1, <3>1, <3>2
  <2>3. ChannelTypeOK'
    BY <1>0, <2>1, <2>2, EmptyQueues DEF ChannelTypeOK, ServerFrames, ClientFrames
  <2>4. ChannelPlace'
    BY <1>0, <2>1, <2>2, EmptyQueues DEF ChannelPlace, Connected
  <2> QED BY <2>3, <2>4
<1>10. CASE ServerAccept /\ sId' # 0
  <2>1. /\ ~closedS /\ sId = 0 /\ sState = "Running" /\ ToClient("ack") /\ toServer # <<>>
        /\ toServer' = Tail(toServer) /\ UNCHANGED <<closedC, closedS, applied>>
    BY <1>10 DEF ServerAccept, Listening, Arrives, rumbleVars
  <2>2. /\ toServer' \in Seq(ServerFrames) /\ Len(toServer') \in Nat /\ Len(toServer') = Len(toServer) - 1
    BY <1>0, <2>1, TakesFromServerQueue
  <2>3. /\ toClient' \in Seq(ClientFrames) /\ Len(toClient') <= 1 /\ (closedC => toClient' = <<>>)
    BY <1>0, <2>1, SendsToClient, EmptyQueues DEF ClientFrames, ChannelPlace
  <2>4. ChannelTypeOK'
    BY <1>0, <2>2, <2>3 DEF ChannelTypeOK, ServerFrames, ClientFrames
  <2>5. ChannelPlace'
    BY <1>0, <1>10, <2>1, <2>2, <2>3 DEF ChannelPlace
  <2> QED BY <2>4, <2>5
<1>11. CASE (ServerAccept /\ sId' = 0) \/ ServerDropsHello
  <2>1. /\ ~closedS /\ sId = 0 /\ sId' = 0 /\ toServer' = <<>> /\ closedS' /\ closedC' = closedC
        /\ toClient' = toClient \/ ToClient("error")
    BY <1>0, <1>11
    DEF ServerAccept, ServerDropsHello, Listening, CloseS, ServerPlace, ClientPlace, sessionVars
  <2>2. /\ toClient' \in Seq(ClientFrames) /\ Len(toClient') <= MaxCommands + 2
        /\ closedC => toClient' = toClient
    <3>1. CASE toClient' = toClient
      BY <1>0, <3>1
    <3>2. CASE ToClient("error")
      BY <1>0, <2>1, <3>2, SendsToClient, EmptyQueues DEF ClientFrames, ChannelPlace
    <3> QED BY <2>1, <3>1, <3>2
  <2>3. ChannelTypeOK'
    BY <1>0, <2>1, <2>2, EmptyQueues DEF ChannelTypeOK, ServerFrames, ClientFrames
  <2>4. ChannelPlace'
    BY <1>0, <2>1, <2>2, EmptyQueues DEF ChannelPlace, Connected
  <2> QED BY <2>3, <2>4
<1>12. CASE ServerBeat
  <2>1. /\ toServer # <<>> /\ toServer' = Tail(toServer)
        /\ UNCHANGED <<toClient, closedC, closedS, sState, sId, applied>>
    BY <1>12 DEF ServerBeat, Arrives, sessionVars, rumbleVars
  <2>2. /\ toServer' \in Seq(ServerFrames) /\ Len(toServer') \in Nat /\ Len(toServer') = Len(toServer) - 1
    BY <1>0, <2>1, TakesFromServerQueue
  <2>3. ChannelTypeOK'
    BY <1>0, <2>1, <2>2 DEF ChannelTypeOK, ServerFrames
  <2>4. ChannelPlace'
    BY <1>0, <2>1, <2>2 DEF ChannelPlace, Connected
  <2> QED BY <2>3, <2>4
<1>13. CASE RumbleSend
  <2>1. /\ Connected /\ ToClient(pending) /\ applied' = loaded /\ applied < loaded /\ pending \in ClientFrames
        /\ loaded \in Nat /\ loaded <= MaxCommands
        /\ UNCHANGED <<toServer, closedC, closedS, sState, sId>>
    BY <1>0, <1>13 DEF RumbleSend, sessionVars, SystemInv, TypeOK, ValueTypeOK, SlotPlace, ClientFrames
  <2>2. /\ toClient' \in Seq(ClientFrames) /\ Len(toClient') \in Nat
        /\ Len(toClient') <= Len(toClient) + 1 /\ (closedC => toClient' = toClient)
    BY <1>0, <2>1, SendsToClient
  <2>3. Len(toClient') <= 1 + applied'
    BY <1>0, <2>1, <2>2 DEF ChannelPlace
  <2>4. ChannelTypeOK'
    BY <1>0, <2>1, <2>2, <2>3 DEF ChannelTypeOK, ClientFrames
  <2>5. ChannelPlace'
    BY <1>0, <2>1, <2>2, <2>3 DEF ChannelPlace, Connected
  <2> QED BY <2>4, <2>5
<1>14. CASE ServerLosesClient \/ \E i \in 1 .. MaxSessions : \E n \in 1 .. Len(sent[i]) : ServerInput(i, n)
  BY <1>14, ChannelRests
  DEF ServerLosesClient, ServerInput, EndSession, Connected, rumbleVars
<1>15. CASE \/ RumbleLoad \/ ServerReleases \/ GamePublishes \/ Tick
            \/ \E c \in Commands : GameSets(c)
  BY <1>15, ChannelRests
  DEF RumbleLoad, ServerReleases, GamePublishes, GameSets, Tick, Connected, sessionVars, rumbleVars
<1>16. CASE Cut \/ UNCHANGED vars
  <2>1. UNCHANGED <<toServer, toClient, closedC, closedS, sState, sId, applied>>
    BY <1>16 DEF Cut, vars, linkVars, sessionVars, rumbleVars
  <2>2. ChannelTypeOK'
    BY <1>0, <2>1 DEF ChannelTypeOK
  <2>3. ChannelPlace'
    BY <1>0, <2>1 DEF ChannelPlace, Connected
  <2> QED BY <2>2, <2>3
<1> QED BY <1>1, <1>2, <1>3, <1>4, <1>5, <1>6, <1>7, <1>8, <1>9, <1>10, <1>11, <1>12, <1>13, <1>14,
           <1>15, <1>16
    DEF Next, ClientHandshake, ServerUser, ServerHandshake, ServerRumble

-----------------------------------------------------------------------------
\* A step that neither sends to the client nor takes a frame of its.
LEMMA AnswerRests ==
  ASSUME SystemInv, toClient' = toClient, cState' = cState \/ cState' \in {"Ended", "Stopped"},
         sId' = sId
  PROVE  AnswerIsFirst'
  BY DEF SystemInv, AnswerIsFirst

\* AnswerIsFirst is kept: an answer is sent once, into an empty channel.
LEMMA Answers == SystemInv /\ [Next]_vars => AnswerIsFirst'
<1> SUFFICES ASSUME SystemInv, [Next]_vars PROVE AnswerIsFirst'
  OBVIOUS
<1>0. /\ toClient \in Seq(ClientFrames) /\ Len(toClient) \in Nat /\ FlagTypeOK
      /\ AnswerIsFirst /\ ClientPlace /\ ServerPlace /\ ChannelPlace
  <2>1. toClient \in Seq(ClientFrames)
    BY DEF SystemInv, TypeOK, ChannelTypeOK, ClientFrames
  <2> QED BY <2>1, LenProperties DEF SystemInv, TypeOK
<1>1. CASE ClientStart
  BY <1>1 DEF ClientStart, Listening, AnswerIsFirst, sessionVars
<1>2. CASE ClientStop \/ ClientCrash \/ ClientGivesUp \/ (ClientAck /\ cState' # "Running")
  <2>1. toClient' = <<>> /\ cState' \in {"Ended", "Stopped"}
    BY <1>2 DEF ClientStop, ClientCrash, ClientGivesUp, ClientAck, ClientGone, CloseC
  <2> QED BY <2>1, EmptyQueues DEF AnswerIsFirst
<1>3. CASE (ClientAck /\ cState' = "Running") \/ ClientMotors
  <2>1. /\ toClient # <<>> /\ toClient' = Tail(toClient) /\ sId' = sId /\ cState' # "Starting"
    BY <1>0, <1>3
    DEF ClientAck, ClientMotors, ClientRumble, Arrives, sessionVars, ClientPlace
  <2>2. SUFFICES ASSUME sId # 0, NEW i \in 1 .. Len(toClient') PROVE toClient'[i] \in Commands
    BY <2>1 DEF AnswerIsFirst
  <2>3. i + 1 \in 1 .. Len(toClient) /\ toClient'[i] = toClient[i + 1] /\ i + 1 > 1
    BY <1>0, <2>1, TailOf
  <2> QED BY <1>0, <2>2, <2>3 DEF AnswerIsFirst
<1>4. CASE ClientUnplugged \/ ClientBeat \/ ClientLosesServer \/ ClientClosesDevice
           \/ \E x \in Samples : ClientSample(x)
  BY <1>4, AnswerRests
  DEF ClientUnplugged, ClientBeat, ClientLosesServer, ClientClosesDevice, ClientSample,
      clientVars, sessionVars, linkVars
<1>5. CASE ServerStop \/ ServerCrash \/ ServerDropsHello \/ (ServerAccept /\ sId' = 0)
  BY <1>0, <1>5
  DEF ServerStop, ServerCrash, ServerDropsHello, ServerGone, Listening, sessionVars, AnswerIsFirst
<1>6. CASE ServerAccept /\ sId' # 0
  <2>1. /\ ~closedS /\ sId = 0 /\ ToClient("ack") /\ ~cut /\ toClient = <<>> /\ cState' = cState
    BY <1>0, <1>6 DEF ServerAccept, Listening, Arrives, ChannelPlace, clientVars
  <2>2. cState # "Running"
    BY <1>0, <2>1 DEF ServerPlace
  <2>3. CASE closedC
    BY <1>0, <2>1, <2>2, <2>3, EmptyQueues DEF ToClient, ClientPlace, AnswerIsFirst
  <2>4. CASE ~closedC
    <3>1. toClient' = Append(<<>>, "ack")
      BY <2>1, <2>4 DEF ToClient
    <3>2. Len(toClient') = 1 /\ toClient'[1] = "ack" /\ toClient' # <<>>
      BY <3>1
    <3> QED BY <2>1, <2>2, <3>2 DEF AnswerIsFirst
  <2> QED BY <2>3, <2>4
<1>7. CASE RumbleSend
  <2>1. /\ sId' = sId /\ sId # 0 /\ cState' = cState /\ ToClient(pending) /\ pending \in Commands
    BY <1>7
    DEF RumbleSend, Connected, clientVars, sessionVars, SystemInv, TypeOK, ValueTypeOK
  <2>2. CASE toClient' = toClient
    BY <2>1, <2>2, AnswerRests
  <2>3. CASE toClient' = Append(toClient, pending)
    <3>1. /\ Len(toClient') = Len(toClient) + 1 /\ toClient'[Len(toClient) + 1] = pending
          /\ toClient' # <<>> /\ \A i \in 1 .. Len(toClient) : toClient'[i] = toClient[i]
      BY <1>0, <2>1, <2>3, AppendTo DEF ClientFrames
    <3>2. ASSUME cState = "Starting" PROVE toClient'[1] = "ack"
      <4>1. toClient # <<>> /\ toClient[1] = "ack"
        BY <1>0, <2>1, <3>2 DEF AnswerIsFirst
      <4>2. 1 \in 1 .. Len(toClient)
        BY <1>0, <4>1, EmptySeq
      <4> QED BY <3>1, <4>1, <4>2
    <3>3. ASSUME NEW i \in 1 .. Len(toClient'), cState = "Running" \/ i > 1
          PROVE  toClient'[i] \in Commands
      <4>1. CASE i = Len(toClient) + 1
        BY <2>1, <3>1, <4>1
      <4>2. CASE i # Len(toClient) + 1
        <5>1. i \in 1 .. Len(toClient)
          BY <1>0, <3>1, <4>2
        <5> QED BY <1>0, <2>1, <3>1, <3>3, <5>1 DEF AnswerIsFirst
      <4> QED BY <4>1, <4>2
    <3> QED BY <2>1, <3>1, <3>2, <3>3 DEF AnswerIsFirst
  <2> QED BY <2>1, <2>2, <2>3 DEF ToClient
<1>8. CASE ServerStart \/ ServerLosesClient \/ ServerReleases
           \/ \E i \in 1 .. MaxSessions : \E n \in 1 .. Len(sent[i]) : ServerInput(i, n)
  BY <1>8, AnswerRests
  DEF ServerStart, ServerLosesClient, ServerReleases, ServerInput, clientVars, linkVars
<1>9. CASE ServerBeat \/ RumbleLoad \/ GamePublishes \/ Tick \/ Cut
           \/ \E c \in Commands : GameSets(c)
  BY <1>9, AnswerRests
  DEF ServerBeat, RumbleLoad, GamePublishes, GameSets, Tick, Cut, clientVars, sessionVars, linkVars
<1>10. CASE UNCHANGED vars
  BY <1>10, AnswerRests DEF vars, clientVars, sessionVars, linkVars
<1> QED BY <1>1, <1>2, <1>3, <1>4, <1>5, <1>6, <1>7, <1>8, <1>9, <1>10
    DEF Next, ClientUser, ClientHandshake, ServerUser, ServerHandshake, ServerRumble

-----------------------------------------------------------------------------
\* A step after which the sessions do not both run, or the server has not told
\* the client everything.
LEMMA NothingToTell ==
  ASSUME ~Connected' \/ cState' \notin {"Starting", "Running"} \/ cut' \/ game' # "idle"
         \/ loaded' # 0 \/ applied' # generation'
  PROVE  TellsWanted'
  BY DEF TellsWanted

\* A step that changes nothing of what the motors are told.
LEMMA ToldStays ==
  ASSUME SystemInv, UNCHANGED <<motors, toClient, cut, loaded, applied, generation, game, wanted>>,
         Connected' => Connected, cState' = cState
  PROVE  TellsWanted'
  BY DEF SystemInv, TellsWanted, LastTold

\* TellsWanted is kept: the command the control thread sends, whenever it read
\* the generation, is the last one stored.
LEMMA Tells == SystemInv /\ [Next]_vars => TellsWanted'
<1> SUFFICES ASSUME SystemInv, [Next]_vars PROVE TellsWanted'
  OBVIOUS
<1>0. /\ toClient \in Seq(ClientFrames) /\ Len(toClient) \in Nat /\ FlagTypeOK /\ ValueTypeOK
      /\ AnswerIsFirst /\ ClientPlace /\ ServerPlace /\ ChannelPlace /\ SlotPlace /\ TellsWanted
  <2>1. toClient \in Seq(ClientFrames)
    BY DEF SystemInv, TypeOK, ChannelTypeOK, ClientFrames
  <2> QED BY <2>1, LenProperties DEF SystemInv, TypeOK
<1>1. CASE ClientStart
  BY <1>1, NothingToTell DEF ClientStart, Listening, Connected, sessionVars
<1>2. CASE ClientStop \/ ClientCrash \/ ClientGivesUp \/ (ClientAck /\ cState' # "Running")
  BY <1>2, NothingToTell DEF ClientStop, ClientCrash, ClientGivesUp, ClientAck, ClientGone
<1>3. CASE ClientAck /\ cState' = "Running"
  <2>1. /\ toClient # <<>> /\ Head(toClient) = "ack" /\ toClient' = Tail(toClient)
        /\ cState = "Starting" /\ UNCHANGED <<motors, sState, sId, cut, rumbleVars>>
    BY <1>3 DEF ClientAck, Arrives, sessionVars
  <2>2. Len(toClient) = Len(toClient') + 1 /\ Len(toClient') \in Nat
        /\ ((toClient' = <<>>) <=> (Len(toClient) = 1)) /\ toClient[1] = "ack"
    BY <1>0, <2>1, TailOf
  <2>3. toClient' # <<>> => toClient'[Len(toClient')] = toClient[Len(toClient)]
    <3>1. \A i \in 1 .. Len(toClient') : toClient'[i] = toClient[i + 1]
      BY <1>0, <2>1, TailOf
    <3> QED BY <2>2, <3>1
  <2>4. LastTold' = LastTold
    BY <2>1, <2>2, <2>3 DEF LastTold
  <2> QED BY <1>0, <2>1, <2>4 DEF TellsWanted, Connected, rumbleVars
<1>4. CASE ClientMotors
  <2>1. PICK c \in Commands : ClientRumble(c)
    BY <1>4 DEF ClientMotors
  <2>2. /\ toClient # <<>> /\ toClient[1] = c /\ toClient' = Tail(toClient)
        /\ cState' = cState /\ cState # "Starting" /\ (cState = "Running" => motors' = c)
        /\ UNCHANGED <<sState, sId, cut, rumbleVars>>
    BY <1>0, <2>1, TailOf DEF ClientRumble, Arrives, sessionVars, ClientPlace
  <2>3. Len(toClient) = Len(toClient') + 1 /\ Len(toClient') \in Nat
        /\ ((toClient' = <<>>) <=> (Len(toClient) = 1))
    BY <1>0, <2>2, TailOf
  <2>4. toClient' # <<>> => toClient'[Len(toClient')] = toClient[Len(toClient)]
    <3>1. \A i \in 1 .. Len(toClient') : toClient'[i] = toClient[i + 1]
      BY <1>0, <2>2, TailOf
    <3> QED BY <2>3, <3>1
  <2>5. ASSUME Connected, cState = "Running" PROVE LastTold' = LastTold
    <3>1. toClient[Len(toClient)] \in Commands /\ toClient[Len(toClient)] # "ack"
      <4>1. Len(toClient) \in 1 .. Len(toClient)
        BY <2>3
      <4> QED BY <1>0, <2>5, <4>1, LanSystemAssumption DEF AnswerIsFirst, Connected
    <3>2. CASE toClient' = <<>>
      BY <2>2, <2>3, <2>5, <3>1, <3>2 DEF LastTold
    <3>3. CASE toClient' # <<>>
      BY <2>2, <2>4, <3>1, <3>3 DEF LastTold
    <3> QED BY <3>2, <3>3
  <2> QED BY <1>0, <2>2, <2>5 DEF TellsWanted, Connected, rumbleVars
<1>5. CASE ClientUnplugged \/ ClientClosesDevice
  BY <1>5, NothingToTell DEF ClientUnplugged, ClientClosesDevice
<1>6. CASE ClientBeat \/ \E x \in Samples : ClientSample(x)
  BY <1>6, ToldStays
  DEF ClientBeat, ClientSample, Connected, clientVars, sessionVars, linkVars, rumbleVars
<1>7. CASE ClientLosesServer
  <2>1. CASE cState = "Running"
    BY <1>7, <2>1, NothingToTell DEF ClientLosesServer
  <2>2. CASE cState # "Running"
    BY <1>7, <2>2, ToldStays
    DEF ClientLosesServer, Connected, sessionVars, linkVars, rumbleVars
  <2> QED BY <2>1, <2>2
<1>8. CASE ServerStart \/ ServerStop \/ ServerCrash \/ ServerLosesClient
  BY <1>0, <1>8, NothingToTell
  DEF ServerStart, ServerStop, ServerCrash, ServerGone, ServerLosesClient, EndSession, Connected, ServerPlace
<1>9. CASE ServerDropsHello \/ (ServerAccept /\ sId' = 0)
  BY <1>9, NothingToTell DEF ServerDropsHello, Listening, Connected, sessionVars
<1>10. CASE ServerAccept /\ sId' # 0
  <2>1. /\ ~closedS /\ sId = 0 /\ toClient = <<>> /\ ToClient("ack") /\ ~cut
        /\ UNCHANGED <<cState, motors, wanted>>
    BY <1>0, <1>10 DEF ServerAccept, Listening, Arrives, ChannelPlace, clientVars, rumbleVars
  <2>2. cState # "Running" /\ wanted = Rest /\ (cState = "Starting" => motors = Rest /\ ~closedC)
    BY <1>0, <2>1 DEF ServerPlace, SlotPlace, ClientPlace, Connected
  <2>3. ASSUME cState = "Starting" PROVE LastTold' = wanted'
    <3>1. toClient' = Append(<<>>, "ack")
      BY <2>1, <2>2, <2>3 DEF ToClient
    <3>2. toClient'[Len(toClient')] = "ack"
      BY <3>1
    <3> QED BY <2>1, <2>2, <2>3, <3>2 DEF LastTold
  <2> QED BY <2>1, <2>2, <2>3 DEF TellsWanted
<1>11. ASSUME NEW i \in 1 .. MaxSessions, NEW n \in 1 .. Len(sent[i]), ServerInput(i, n)
       PROVE  TellsWanted'
  <2>1. CASE sState' = "Faulted"
    BY <2>1, NothingToTell DEF Connected
  <2>2. CASE sState' # "Faulted"
    BY <1>11, <2>2, ToldStays DEF ServerInput, EndSession, Connected, clientVars, linkVars, rumbleVars
  <2> QED BY <2>1, <2>2
<1>12. CASE ServerReleases \/ ServerBeat \/ Tick
  BY <1>12, ToldStays
  DEF ServerReleases, ServerBeat, Tick, Connected, clientVars, sessionVars, linkVars, rumbleVars
<1>13. CASE RumbleLoad
  <2>1. loaded' # 0
    BY <1>0, <1>13 DEF RumbleLoad, SlotPlace, ValueTypeOK
  <2> QED BY <2>1, NothingToTell
<1>14. CASE RumbleSend
  <2>1. /\ ToClient(pending) /\ pending \in Commands /\ pending = wanted
        /\ UNCHANGED <<cState, closedC, cut, wanted>>
    BY <1>0, <1>14 DEF RumbleSend, clientVars, SlotPlace, ValueTypeOK
  <2>2. CASE cut \/ cState \notin {"Starting", "Running"}
    BY <2>1, <2>2, NothingToTell
  <2>3. CASE ~cut /\ cState \in {"Starting", "Running"}
    <3>1. toClient' = Append(toClient, pending)
      BY <1>0, <2>1, <2>3 DEF ToClient, ClientPlace
    <3>2. toClient'[Len(toClient')] = pending /\ toClient' # <<>>
      BY <1>0, <2>1, <3>1, AppendTo DEF ClientFrames
    <3>3. pending # "ack"
      BY <2>1, LanSystemAssumption
    <3> QED BY <2>1, <3>2, <3>3 DEF TellsWanted, LastTold
  <2> QED BY <2>2, <2>3
<1>15. CASE \E c \in Commands : GameSets(c)
  BY <1>15, NothingToTell DEF GameSets
<1>16. CASE GamePublishes
  <2>1. applied' # generation'
    BY <1>0, <1>16, LanSystemAssumption DEF GamePublishes, Stores, SlotPlace, ValueTypeOK
  <2> QED BY <2>1, NothingToTell
<1>17. CASE Cut
  BY <1>17, NothingToTell DEF Cut
<1>18. CASE UNCHANGED vars
  BY <1>18, ToldStays DEF vars, Connected, clientVars, sessionVars, linkVars, rumbleVars
<1> QED BY <1>1, <1>2, <1>3, <1>4, <1>5, <1>6, <1>7, <1>8, <1>9, <1>10, <1>11, <1>12, <1>13, <1>14,
           <1>15, <1>16, <1>17, <1>18
    DEF Next, ClientUser, ClientHandshake, ServerUser, ServerHandshake, ServerRumble

\* The last frame under way to a client that runs is a command, never an answer.
LEMMA ToldIsACommand == SystemInv => MotorsAgree
<1> SUFFICES ASSUME SystemInv, Connected, cState = "Running", ~cut, game = "idle", loaded = 0,
                    applied = generation
             PROVE  sId = cId /\ Told = wanted
  BY DEF MotorsAgree
<1>1. sId = cId /\ LastTold = wanted
  BY DEF SystemInv, ServerPlace, TellsWanted, Connected
<1>2. CASE toClient = <<>>
  BY <1>1, <1>2 DEF LastTold, Told
<1>3. CASE toClient # <<>>
  <2>1. toClient \in Seq(ClientFrames)
    BY DEF SystemInv, TypeOK, ChannelTypeOK, ClientFrames
  <2>2. Len(toClient) \in 1 .. Len(toClient)
    BY <1>3, <2>1, EmptySeq
  <2>3. toClient[Len(toClient)] # "ack"
    BY <2>2, LanSystemAssumption DEF SystemInv, AnswerIsFirst, Connected
  <2> QED BY <1>1, <1>3, <2>3 DEF LastTold, Told
<1> QED BY <1>2, <1>3

LEMMA SystemNext == SystemInv /\ [Next]_vars => SystemInv'
  BY FlagTypes, ValueTypes, SentTypes, ChannelTypes, ClientPlaces, ServerPlaces, SlotPlaces, Answers, Tells
  DEF SystemInv, TypeOK

-----------------------------------------------------------------------------
\* TypeOK for any number of sessions, samples and commands: what a session
\* sends and what the channel holds never outgrow the bounds of the code's
\* own loops.
THEOREM SystemTypeCorrect == Spec => []TypeOK
<1>1. SystemInv => TypeOK
  BY DEF SystemInv
<1> QED BY SystemInit, SystemNext, <1>1, PTL DEF Spec

\* MotorsAgree, wherever the stores of the game's thread, the loads of the
\* control thread and the client's reads fall: what RumbleArrives needs beside
\* fairness.
THEOREM MotorsFollowGame == Spec => []MotorsAgree
<1> QED BY SystemInit, SystemNext, ToldIsACommand, PTL DEF Spec

\* Whatever is pressed on the pad is a sample of the session the client started
\* last: late datagrams of those before it change nothing.  The safety part of
\* EndedSessionIsReleased.
ShownIsCurrent ==
  pad \notin {Absent, Released} =>
    /\ sId = cId /\ latest \in 1 .. Len(sent[cId])
    /\ sent[cId][latest] # Final /\ Shows(pad, Reading[sent[cId][latest]])

\* ShownIsCurrent, from what the pad shows and from which session it is.
THEOREM OnlyTheLastSessionIsShown == Spec => []ShownIsCurrent
<1>1. SystemInv /\ PadInv => ShownIsCurrent
  <2> SUFFICES ASSUME SystemInv, PadInv, pad \notin {Absent, Released} PROVE ShownIsCurrent
    BY DEF ShownIsCurrent
  <2>1. armed /\ sId = cId /\ latest \in 1 .. Len(sent[sId])
    BY LanSystemAssumption
    DEF PadInv, PadShowsGamepad, ArmedHasDatagram, SystemInv, ServerPlace
  <2>2. /\ sent[sId][latest] # Final /\ Shows(pad, Reading[sent[sId][latest]])
    BY <2>1 DEF PadInv, PadShowsGamepad
  <2> QED BY <2>1, <2>2 DEF ShownIsCurrent
<1> QED BY SystemInit, SystemNext, PadInit, PadNext, <1>1, PTL DEF Spec
=============================================================================
