----------------------- MODULE LoopbackSessionProofs -----------------------
(***************************************************************************)
(* LoopbackSession for any states, button masks and bounds: its types, that *)
(* merging loses no edge and keeps the newest axes, and that the output     *)
(* implements PadOutput.                                                    *)
(***************************************************************************)
EXTENDS LoopbackSession, SequenceTheorems, TLAPS

\* The history variables hold masks of states.
AllMasks == {Buttons[s] : s \in States}
HistoryTypeOK == edgesIn \in Seq(AllMasks) /\ edgesOut \in Seq(AllMasks)

\* Before the transport has started nothing has been accepted or applied.
Unstarted == state = "Created" \/ api = "startTransport"
StartPlace ==
  /\ state = "Created" => api = "idle" /\ ~created /\ ~accepting
  /\ api = "startTransport" => state = "Running"
  /\ Unstarted => worker = "none" /\ applied = 0
  /\ Unstarted => queue = <<>> /\ edgesIn = <<>> /\ edgesOut = <<>>

\* Stop, which alone destroys the controller, has ended the session; a
\* shutdown that tells the session does not destroy it.
StopPath == \/ api \in {"stopNotify", "destroy"}
            \/ api \in {"shut", "shutNotify", "shutJoin", "shutClear", "joinWatchdog"} /\ ~telling
EndPlace ==
  /\ StopPath => state \in Ended
  /\ api \in {"callback", "callbackNotify"} => telling
  /\ state = "Running" => created

\* Silence, and every end of the session, shows neutral.
DisarmedIsNeutral ==
  /\ ~armed => out = Neutral
  /\ state # "Running" => ~armed
  /\ applied = 0 => ~armed

\* The numbers increase from what was applied over the frame being delivered
\* and the queue to the frame being sent.
Bounded ==
  /\ applied # 0 => latest <= highest
  /\ worker = "deliver" => delivering.seq <= highest
  /\ \A i \in 1..Len(queue) : queue[i].seq <= highest
  /\ api = "send" =>
       /\ sending.seq = highest
       /\ applied # 0 => latest < highest
       /\ worker = "deliver" => delivering.seq < highest
       /\ \A i \in 1..Len(queue) : queue[i].seq < highest
Ordered ==
  /\ worker = "deliver" /\ applied # 0 => latest < delivering.seq
  /\ \A i \in 1..Len(queue) :
       /\ applied # 0 => latest < queue[i].seq
       /\ worker = "deliver" => delivering.seq < queue[i].seq
       /\ \A j \in 1..i - 1 : queue[j].seq < queue[i].seq
Numbered == Bounded /\ Ordered

\* The newest state accepted is the last one pending, or the one shown.
LastIsPending ==
  state = "Running" /\ accepting =>
    /\ queue # <<>> => queue[Len(queue)].state = lastIn
    /\ queue = <<>> /\ worker = "deliver" => delivering.state = lastIn
    /\ NothingPending /\ armed => out = lastIn

LoopbackInv == /\ TypeOK /\ HistoryTypeOK
               /\ StartPlace /\ EndPlace /\ DisarmedIsNeutral
               /\ Numbered /\ LastIsPending /\ EdgesKept

-----------------------------------------------------------------------------
\* Types.
LEMMA FlagTypesKept == FlagTypeOK /\ [Next]_vars => FlagTypeOK'
<1> SUFFICES ASSUME FlagTypeOK, [Next]_vars PROVE FlagTypeOK'
  OBVIOUS
<1> USE DEF FlagTypeOK, sessionVars, queueVars, localVars, threadVars
<1>1. CASE CallerStep
  BY <1>1 DEF CallerStep, StartSession, Submit, SimulateDisconnect, StopBegin, Neutralize
<1>2. CASE StartTransport \/ StartWatchdog \/ Send \/ Wake \/ NotifyWatchdog
  BY <1>2 DEF StartTransport, StartWatchdog, Send, Wake, NotifyWatchdog
<1>3. CASE SendFailed \/ Callback
  BY <1>3 DEF SendFailed, Callback, OnDisconnected, Neutralize
<1>4. CASE Shut \/ ShutNotify \/ ShutJoin \/ ShutClear \/ JoinWatchdog \/ Destroy
  BY <1>4 DEF Shut, ShutNotify, ShutJoin, ShutClear, JoinWatchdog, Destroy
<1>5. CASE WorkerStep
  BY <1>5 DEF WorkerStep, Take, OnStateFrame, Neutralize
<1>6. CASE WatchStep \/ SpuriousWakeUp \/ Tick
  BY <1>6 DEF WatchStep, Decide, DeadlinePasses, TimedOut, SpuriousWakeUp, Tick, Neutralize
<1>7. CASE UNCHANGED vars
  BY <1>7 DEF vars
<1> QED BY <1>1, <1>2, <1>3, <1>4, <1>5, <1>6, <1>7 DEF Next, ApiStep

LEMMA EmptyFits == <<>> \in Seq(Frames) /\ Len(<<>>) <= QueueCap
  BY LoopbackAssumption

LEMMA FrameTypesKept == FrameTypeOK /\ [Next]_vars => FrameTypeOK'
<1> SUFFICES ASSUME FrameTypeOK, [Next]_vars PROVE FrameTypeOK'
  OBVIOUS
<1> USE LoopbackAssumption DEF FrameTypeOK, Frames, sessionVars, queueVars, localVars, threadVars,
        historyVars
<1>1. CASE StartSession \/ SimulateDisconnect \/ StopBegin
  BY <1>1 DEF StartSession, SimulateDisconnect, StopBegin
<1>2. CASE Submit
  BY <1>2 DEF Submit
<1>3. CASE Send
  <2>1. CASE UNCHANGED <<queue, lastIn>>
    BY <1>3, <2>1 DEF Send
  <2>2. CASE Merges(sending) /\ queue' = Merged(sending) /\ lastIn' = sending.state
    <3>1. queue' \in Seq(Frames) /\ Len(queue') = Len(queue)
      BY <2>2 DEF Merges, Merged
    <3> QED BY <1>3, <2>2, <3>1 DEF Send
  <2>3. CASE ~Full /\ queue' = Append(queue, sending) /\ lastIn' = sending.state
    <3>1. queue' \in Seq(Frames) /\ Len(queue') = Len(queue) + 1
      BY <2>3
    <3> QED BY <1>3, <2>3, <3>1 DEF Send, Full
  <2> QED BY <1>3, <2>1, <2>2, <2>3 DEF Send
<1>4. CASE StartTransport \/ StartWatchdog \/ Wake \/ NotifyWatchdog
  <2>1. (queue' = <<>> \/ queue' = queue) /\ UNCHANGED <<sending, delivering, lastIn>>
    BY <1>4 DEF StartTransport, StartWatchdog, Wake, NotifyWatchdog
  <2> QED BY <2>1, EmptyFits
<1>5. CASE SendFailed \/ Callback
  BY <1>5 DEF SendFailed, Callback, OnDisconnected
<1>6. CASE Shut \/ ShutNotify \/ ShutJoin \/ ShutClear \/ JoinWatchdog \/ Destroy
  <2>1. (queue' = <<>> \/ queue' = queue) /\ UNCHANGED <<sending, delivering, lastIn>>
    BY <1>6 DEF Shut, ShutNotify, ShutJoin, ShutClear, JoinWatchdog, Destroy
  <2> QED BY <2>1, EmptyFits
<1>7. CASE Take
  <2>1. CASE UNCHANGED <<queue, delivering>>
    BY <1>7, <2>1 DEF Take
  <2>2. CASE queue # <<>> /\ delivering' = Head(queue) /\ queue' = Tail(queue)
    <3>1. queue' \in Seq(Frames) /\ Len(queue') = Len(queue) - 1 /\ delivering' \in Frames
      BY <2>2, HeadTailProperties
    <3> QED BY <1>7, <3>1 DEF Take
  <2> QED BY <1>7, <2>1, <2>2 DEF Take
<1>8. CASE OnStateFrame
  BY <1>8 DEF OnStateFrame
<1>9. CASE WatchStep \/ SpuriousWakeUp \/ Tick
  BY <1>9 DEF WatchStep, Decide, DeadlinePasses, TimedOut, SpuriousWakeUp, Tick
<1>10. CASE UNCHANGED vars
  BY <1>10 DEF vars
<1> QED BY <1>1, <1>2, <1>3, <1>4, <1>5, <1>6, <1>7, <1>8, <1>9, <1>10
        DEF Next, CallerStep, ApiStep, WorkerStep

LEMMA ValueTypesKept == ValueTypeOK /\ FrameTypeOK /\ [Next]_vars => ValueTypeOK'
<1> SUFFICES ASSUME ValueTypeOK, FrameTypeOK, [Next]_vars PROVE ValueTypeOK'
  OBVIOUS
<1> USE LoopbackAssumption DEF ValueTypeOK, FrameTypeOK, Frames, Ended, ApiLabels, WorkerLabels,
        WatchLabels, sessionVars, queueVars, localVars, timeVars, threadVars
<1>1. CASE CallerStep
  BY <1>1 DEF CallerStep, StartSession, Submit, SimulateDisconnect, StopBegin, Neutralize
<1>2. CASE StartTransport \/ StartWatchdog \/ Send \/ Wake
  BY <1>2 DEF StartTransport, StartWatchdog, Send, Wake, WorkerWoken
<1>3. CASE SendFailed \/ Callback \/ NotifyWatchdog
  BY <1>3 DEF SendFailed, Callback, OnDisconnected, Neutralize, NotifyWatchdog, WatchWoken
<1>4. CASE Shut \/ ShutNotify \/ ShutJoin \/ ShutClear \/ JoinWatchdog \/ Destroy
  BY <1>4 DEF Shut, ShutNotify, ShutJoin, ShutClear, JoinWatchdog, Destroy, WorkerWoken
<1>5. CASE Take
  BY <1>5 DEF Take
<1>6. CASE OnStateFrame
  BY <1>6 DEF OnStateFrame, Neutralize, WatchWoken
<1>7. CASE Decide
  BY <1>7 DEF Decide
<1>8. CASE DeadlinePasses \/ TimedOut \/ SpuriousWakeUp
  BY <1>8 DEF DeadlinePasses, TimedOut, SpuriousWakeUp, Neutralize, WatchWoken
<1>9. CASE Tick
  BY <1>9 DEF Tick
<1>10. CASE UNCHANGED vars
  BY <1>10 DEF vars
<1> QED BY <1>1, <1>2, <1>3, <1>4, <1>5, <1>6, <1>7, <1>8, <1>9, <1>10
        DEF Next, ApiStep, WorkerStep, WatchStep

-----------------------------------------------------------------------------
\* The order of Start and of the ways to end a session.
LEMMA StartPlaceKept == TypeOK /\ StartPlace /\ [Next]_vars => StartPlace'
<1> SUFFICES ASSUME ValueTypeOK, StartPlace, [Next]_vars PROVE StartPlace'
  BY DEF TypeOK
<1> USE DEF ValueTypeOK, Ended, StartPlace, Unstarted, sessionVars, queueVars, localVars, timeVars,
        threadVars, historyVars
<1>1. CASE StartSession
  BY <1>1 DEF StartSession
<1>2. CASE Submit \/ SimulateDisconnect
  BY <1>2 DEF Submit, SimulateDisconnect
<1>3. CASE StopBegin
  BY <1>3 DEF StopBegin
<1>4. CASE StartTransport \/ StartWatchdog
  BY <1>4 DEF StartTransport, StartWatchdog
<1>5. CASE Send \/ Wake \/ NotifyWatchdog
  BY <1>5 DEF Send, Wake, NotifyWatchdog
<1>6. CASE SendFailed \/ Callback
  BY <1>6 DEF SendFailed, Callback, OnDisconnected
<1>7. CASE Shut \/ ShutNotify \/ ShutJoin \/ ShutClear \/ JoinWatchdog \/ Destroy
  BY <1>7 DEF Shut, ShutNotify, ShutJoin, ShutClear, JoinWatchdog, Destroy
<1>8. CASE WorkerStep
  BY <1>8 DEF WorkerStep, Take, OnStateFrame
<1>9. CASE WatchStep \/ SpuriousWakeUp \/ Tick
  BY <1>9 DEF WatchStep, Decide, DeadlinePasses, TimedOut, SpuriousWakeUp, Tick
<1>10. CASE UNCHANGED vars
  BY <1>10 DEF vars
<1> QED BY <1>1, <1>2, <1>3, <1>4, <1>5, <1>6, <1>7, <1>8, <1>9, <1>10
        DEF Next, CallerStep, ApiStep

LEMMA EndPlaceKept == TypeOK /\ StartPlace /\ EndPlace /\ [Next]_vars => EndPlace'
<1> SUFFICES ASSUME ValueTypeOK, StartPlace, EndPlace, [Next]_vars PROVE EndPlace'
  BY DEF TypeOK
<1> USE DEF ValueTypeOK, Ended, StartPlace, Unstarted, EndPlace, StopPath, sessionVars, queueVars,
        localVars, timeVars, threadVars, historyVars
<1>1. CASE StartSession \/ Submit \/ SimulateDisconnect
  BY <1>1 DEF StartSession, Submit, SimulateDisconnect
<1>2. CASE StopBegin
  BY <1>2 DEF StopBegin
<1>3. CASE StartTransport \/ StartWatchdog \/ Send \/ Wake
  BY <1>3 DEF StartTransport, StartWatchdog, Send, Wake
<1>4. CASE NotifyWatchdog
  BY <1>4 DEF NotifyWatchdog
<1>5. CASE SendFailed \/ Callback
  BY <1>5 DEF SendFailed, Callback, OnDisconnected
<1>6. CASE Shut \/ ShutNotify \/ ShutJoin \/ ShutClear
  BY <1>6 DEF Shut, ShutNotify, ShutJoin, ShutClear
<1>7. CASE JoinWatchdog \/ Destroy
  BY <1>7 DEF JoinWatchdog, Destroy
<1>8. CASE WorkerStep
  BY <1>8 DEF WorkerStep, Take, OnStateFrame, Refused
<1>9. CASE WatchStep \/ SpuriousWakeUp \/ Tick
  BY <1>9 DEF WatchStep, Decide, DeadlinePasses, TimedOut, SpuriousWakeUp, Tick
<1>10. CASE UNCHANGED vars
  BY <1>10 DEF vars
<1> QED BY <1>1, <1>2, <1>3, <1>4, <1>5, <1>6, <1>7, <1>8, <1>9, <1>10
        DEF Next, CallerStep, ApiStep

LEMMA DisarmedKept ==
  TypeOK /\ StartPlace /\ EndPlace /\ DisarmedIsNeutral /\ [Next]_vars => DisarmedIsNeutral'
<1> SUFFICES ASSUME ValueTypeOK, EndPlace, DisarmedIsNeutral, [Next]_vars PROVE DisarmedIsNeutral'
  BY DEF TypeOK
<1> USE DEF ValueTypeOK, Ended, EndPlace, StopPath, DisarmedIsNeutral, Neutralize, sessionVars
<1>1. CASE CallerStep
  BY <1>1 DEF CallerStep, StartSession, Submit, SimulateDisconnect, StopBegin
<1>2. CASE StartTransport \/ StartWatchdog \/ Send \/ Wake \/ NotifyWatchdog
  BY <1>2 DEF StartTransport, StartWatchdog, Send, Wake, NotifyWatchdog
<1>3. CASE SendFailed \/ Callback
  BY <1>3 DEF SendFailed, Callback, OnDisconnected
<1>4. CASE Shut \/ ShutNotify \/ ShutJoin \/ ShutClear \/ JoinWatchdog \/ Destroy
  BY <1>4 DEF Shut, ShutNotify, ShutJoin, ShutClear, JoinWatchdog, Destroy
<1>5. CASE Take
  BY <1>5 DEF Take
<1>6. CASE OnStateFrame
  BY <1>6 DEF OnStateFrame, Refused
<1>7. CASE WatchStep \/ SpuriousWakeUp \/ Tick
  BY <1>7 DEF WatchStep, Decide, DeadlinePasses, TimedOut, SpuriousWakeUp, Tick
<1>8. CASE UNCHANGED vars
  BY <1>8 DEF vars
<1> QED BY <1>1, <1>2, <1>3, <1>4, <1>5, <1>6, <1>7, <1>8 DEF Next, ApiStep, WorkerStep

-----------------------------------------------------------------------------
\* What Send, Take and Shut do to the queue, element by element.
LEMMA SendsAtEnd ==
  ASSUME FrameTypeOK, Send
  PROVE  \/ UNCHANGED <<queue, edgesIn, lastIn>>
         \/ /\ accepting /\ Merges(sending) /\ Len(queue') = Len(queue) /\ Len(queue) # 0
            /\ \A i \in 1..Len(queue) - 1 : queue'[i] = queue[i]
            /\ queue'[Len(queue)] = sending /\ lastIn' = sending.state
            /\ edgesIn' = WithEdge(edgesIn, Buttons[sending.state])
         \/ /\ accepting /\ ~Merges(sending) /\ Len(queue') = Len(queue) + 1
            /\ \A i \in 1..Len(queue) : queue'[i] = queue[i]
            /\ queue'[Len(queue) + 1] = sending /\ lastIn' = sending.state
            /\ edgesIn' = WithEdge(edgesIn, Buttons[sending.state])
<1> USE DEF FrameTypeOK
<1>1. CASE accepting /\ Merges(sending) /\ queue' = Merged(sending)
  <2>1. /\ Len(queue') = Len(queue) /\ Len(queue) # 0
        /\ \A i \in 1..Len(queue) - 1 : queue'[i] = queue[i]
        /\ queue'[Len(queue)] = sending
    BY <1>1 DEF Merges, Merged
  <2>2. lastIn' = sending.state /\ edgesIn' = WithEdge(edgesIn, Buttons[sending.state])
    BY <1>1 DEF Send
  <2> QED BY <1>1, <2>1, <2>2
<1>2. CASE accepting /\ ~Merges(sending) /\ ~Full /\ queue' = Append(queue, sending)
  <2>1. /\ Len(queue') = Len(queue) + 1
        /\ \A i \in 1..Len(queue) : queue'[i] = queue[i]
        /\ queue'[Len(queue) + 1] = sending
    BY <1>2
  <2>2. lastIn' = sending.state /\ edgesIn' = WithEdge(edgesIn, Buttons[sending.state])
    BY <1>2 DEF Send
  <2> QED BY <1>2, <2>1, <2>2
<1> QED BY <1>1, <1>2 DEF Send

LEMMA TakesAtHead ==
  ASSUME FrameTypeOK, Take, queue # <<>>, worker' = "deliver"
  PROVE  /\ Len(queue) # 0 /\ Len(queue') = Len(queue) - 1
         /\ \A i \in 1..Len(queue') : queue'[i] = queue[i + 1]
         /\ delivering' = queue[1]
<1>1. queue' = Tail(queue) /\ delivering' = Head(queue)
  BY DEF Take
<1> QED BY <1>1, HeadTailProperties DEF FrameTypeOK

\* The steps that move no frame.
CalmApi == \/ StartSession \/ StartWatchdog \/ SimulateDisconnect \/ StopBegin
           \/ Wake \/ SendFailed \/ Callback \/ NotifyWatchdog
           \/ ShutNotify \/ ShutJoin \/ ShutClear \/ JoinWatchdog \/ Destroy
CalmStep == CalmApi \/ WatchStep \/ SpuriousWakeUp \/ Tick \/ UNCHANGED vars

Calm == /\ UNCHANGED <<queue, sending, delivering, highest, latest, applied, edgesIn, edgesOut, lastIn>>
        /\ worker' = "deliver" <=> worker = "deliver"
        /\ api' = "send" => api = "send"

LEMMA FramesMove ==
  ASSUME [Next]_vars
  PROVE  CalmStep \/ StartTransport \/ Submit \/ Send \/ Shut \/ Take \/ OnStateFrame
  BY DEF Next, CallerStep, ApiStep, WorkerStep, CalmStep, CalmApi

LEMMA CalmMovesNothing == CalmStep => Calm
<1> USE DEF Calm, sessionVars, queueVars, localVars, timeVars, threadVars, historyVars
<1>1. CASE StartSession \/ SimulateDisconnect \/ StopBegin \/ StartWatchdog
  BY <1>1 DEF StartSession, SimulateDisconnect, StopBegin, StartWatchdog
<1>2. CASE Wake \/ NotifyWatchdog
  BY <1>2 DEF Wake, NotifyWatchdog, WorkerWoken
<1>3. CASE SendFailed \/ Callback
  BY <1>3 DEF SendFailed, Callback, OnDisconnected
<1>4. CASE ShutNotify \/ ShutJoin \/ ShutClear \/ JoinWatchdog \/ Destroy
  BY <1>4 DEF ShutNotify, ShutJoin, ShutClear, JoinWatchdog, Destroy, WorkerWoken
<1>5. CASE WatchStep \/ SpuriousWakeUp \/ Tick
  BY <1>5 DEF WatchStep, Decide, DeadlinePasses, TimedOut, SpuriousWakeUp, Tick
<1>6. CASE UNCHANGED vars
  BY <1>6 DEF vars
<1> QED BY <1>1, <1>2, <1>3, <1>4, <1>5, <1>6 DEF CalmStep, CalmApi

LEMMA NumberedKept == TypeOK /\ StartPlace /\ Numbered /\ [Next]_vars => Numbered'
<1> SUFFICES ASSUME ValueTypeOK, FrameTypeOK, StartPlace, Bounded, Ordered, [Next]_vars
             PROVE  Bounded' /\ Ordered'
  BY DEF TypeOK, Numbered
<1>0. /\ highest \in Int /\ latest \in Int /\ sending.seq \in Int /\ delivering.seq \in Int
      /\ Len(queue) \in Nat
      /\ \A i \in 1..Len(queue) : queue[i].seq \in Int
  <2>1. highest \in Int /\ latest \in Int
    BY LoopbackAssumption DEF ValueTypeOK
  <2>2. sending.seq \in Int /\ delivering.seq \in Int
    BY LoopbackAssumption DEF FrameTypeOK, Frames
  <2>3. Len(queue) \in Nat /\ \A i \in 1..Len(queue) : queue[i] \in Frames
    BY DEF FrameTypeOK
  <2>4. \A i \in 1..Len(queue) : queue[i].seq \in Int
    BY <2>3, LoopbackAssumption DEF Frames
  <2> QED BY <2>1, <2>2, <2>3, <2>4
<1>1. CASE CalmStep
  BY <1>1, CalmMovesNothing DEF Calm, Bounded, Ordered
<1>2. CASE StartTransport
  BY <1>2 DEF StartTransport, sessionVars, localVars, StartPlace, Unstarted, Bounded, Ordered
<1>3. CASE Submit
  <2>1. /\ UNCHANGED <<latest, applied, queue, delivering, worker>>
        /\ highest' \in Int /\ highest' > highest /\ sending'.seq = highest'
    BY <1>0, <1>3, LoopbackAssumption DEF Submit, queueVars
  <2>2. Bounded'
    BY <1>0, <2>1 DEF Bounded
  <2>3. Ordered'
    BY <1>0, <2>1 DEF Ordered
  <2> QED BY <2>2, <2>3
<1>4. CASE Send
  <2>1. /\ UNCHANGED <<highest, latest, applied, delivering, worker>>
        /\ api = "send" /\ api' # "send"
    BY <1>4 DEF Send, sessionVars, localVars
  <2>2. Bounded'
    BY <1>0, <1>4, <2>1, SendsAtEnd DEF Bounded
  <2>3. Ordered'
    <3>1. /\ worker = "deliver" /\ applied # 0 => latest < delivering.seq
          /\ sending.seq = highest
      BY <2>1 DEF Ordered, Bounded
    <3>2. CASE UNCHANGED queue
      BY <2>1, <3>2 DEF Ordered
    <3>3. ASSUME NEW k \in {Len(queue), Len(queue) + 1},
                 Len(queue') = k, queue'[k] = sending,
                 \A i \in 1..k - 1 : i <= Len(queue) /\ queue'[i] = queue[i]
          PROVE  Ordered'
      <4> SUFFICES ASSUME NEW i \in 1..k
                   PROVE  /\ applied # 0 => latest < queue'[i].seq
                          /\ worker = "deliver" => delivering.seq < queue'[i].seq
                          /\ \A j \in 1..i - 1 : queue'[j].seq < queue'[i].seq
        BY <2>1, <3>1, <3>3 DEF Ordered
      <4>1. CASE i = k
        BY <1>0, <2>1, <3>1, <3>3, <4>1 DEF Bounded
      <4>2. CASE i # k
        <5>1. i \in 1..Len(queue) /\ queue'[i] = queue[i]
              /\ \A j \in 1..i - 1 : queue'[j] = queue[j]
          BY <1>0, <3>3, <4>2
        <5> QED BY <5>1 DEF Ordered
      <4> QED BY <4>1, <4>2
    <3> QED BY <1>0, <1>4, <3>2, <3>3, SendsAtEnd
  <2> QED BY <2>2, <2>3
<1>5. CASE Shut
  BY <1>5 DEF Shut, sessionVars, queueVars, localVars, Bounded, Ordered
<1>6. CASE Take
  <2>1. UNCHANGED <<highest, latest, applied, sending, api>> /\ worker # "deliver"
    BY <1>6 DEF Take, sessionVars
  <2>2. CASE worker' = "deliver"
    <3>1. queue # <<>> BY <1>6, <2>2 DEF Take
    <3>2. /\ Len(queue) # 0 /\ Len(queue') = Len(queue) - 1
          /\ \A i \in 1..Len(queue') : queue'[i] = queue[i + 1]
          /\ delivering' = queue[1]
      BY <1>6, <2>2, <3>1, TakesAtHead
    <3>3. Bounded'
      BY <1>0, <2>1, <2>2, <3>2 DEF Bounded
    <3>4. Ordered'
      <4> SUFFICES ASSUME NEW i \in 1..Len(queue')
                   PROVE  /\ applied # 0 => latest < queue'[i].seq
                          /\ delivering'.seq < queue'[i].seq
                          /\ \A j \in 1..i - 1 : queue'[j].seq < queue'[i].seq
        <5>1. applied # 0 => latest < delivering'.seq
          BY <1>0, <3>2 DEF Ordered
        <5> QED BY <2>1, <5>1 DEF Ordered
      <4>1. /\ i + 1 \in 1..Len(queue) /\ queue'[i] = queue[i + 1]
            /\ \A j \in 1..i - 1 : j + 1 \in 1..(i + 1) - 1 /\ queue'[j] = queue[j + 1]
        <5>1. i \in Nat /\ 1 <= i /\ i <= Len(queue) - 1
          BY <1>0, <3>2
        <5>2. \A j \in 1..i - 1 : j \in 1..Len(queue')
          BY <1>0, <3>2, <5>1
        <5> QED BY <1>0, <3>2, <5>1, <5>2
      <4>2. 1 \in 1..(i + 1) - 1
        BY <1>0, <3>2
      <4>3. /\ applied # 0 => latest < queue[i + 1].seq
            /\ \A j \in 1..(i + 1) - 1 : queue[j].seq < queue[i + 1].seq
        BY <4>1 DEF Ordered
      <4> QED BY <3>2, <4>1, <4>2, <4>3
    <3> QED BY <3>3, <3>4
  <2>3. CASE worker' # "deliver"
    BY <1>6, <2>1, <2>3 DEF Take, Bounded, Ordered
  <2> QED BY <2>2, <2>3
<1>7. CASE OnStateFrame
  BY <1>0, <1>7 DEF OnStateFrame, queueVars, localVars, Bounded, Ordered, ValueTypeOK
<1> QED BY <1>1, <1>2, <1>3, <1>4, <1>5, <1>6, <1>7, FramesMove

-----------------------------------------------------------------------------
\* What the history operators do with the frames that join and leave the queue.
LEMMA WithEdgeLast ==
  ASSUME NEW S, NEW edges \in Seq(S), NEW m \in S
  PROVE  /\ WithEdge(edges, m) \in Seq(S)
         /\ WithEdge(edges, m) # <<>>
         /\ WithEdge(edges, m)[Len(WithEdge(edges, m))] = m
<1>1. CASE edges # <<>> /\ edges[Len(edges)] = m
  BY <1>1 DEF WithEdge
<1>2. CASE ~(edges # <<>> /\ edges[Len(edges)] = m)
  <2>1. WithEdge(edges, m) = Append(edges, m)
    BY <1>2 DEF WithEdge
  <2> QED BY <2>1, AppendProperties
<1> QED BY <1>1, <1>2

LEMMA FollowedLast ==
  ASSUME NEW S, NEW edges \in Seq(S), NEW q \in Seq(S)
  PROVE  /\ Followed(edges, q) \in Seq(S)
         /\ q # <<>> => /\ Followed(edges, q) # <<>>
                        /\ Followed(edges, q)[Len(Followed(edges, q))] = q[Len(q)]
<1>1. CASE q = <<>>
  BY <1>1 DEF Followed
<1>2. CASE q # <<>>
  <2> DEFINE w == WithEdge(edges, Head(q))
  <2>1. /\ Head(q) \in S /\ Tail(q) \in Seq(S) /\ Len(Tail(q)) = Len(q) - 1 /\ Len(q) \in Nat \ {0}
        /\ Head(q) = q[1] /\ \A i \in 1..Len(Tail(q)) : Tail(q)[i] = q[i + 1]
    BY <1>2, HeadTailProperties, EmptySeq
  <2>2. w \in Seq(S) /\ w # <<>> /\ w[Len(w)] = Head(q)
    BY <2>1, WithEdgeLast
  <2>3. Followed(edges, q) = w \o Tail(q)
    BY <1>2 DEF Followed
  <2> HIDE DEF w
  <2>0. Len(w) \in Nat \ {0}
    BY <2>2, EmptySeq
  <2>4. /\ w \o Tail(q) \in Seq(S) /\ Len(w \o Tail(q)) = Len(w) + Len(Tail(q))
        /\ \A i \in 1..Len(w) + Len(Tail(q)) :
             (w \o Tail(q))[i] = IF i <= Len(w) THEN w[i] ELSE Tail(q)[i - Len(w)]
    BY <2>1, <2>2, ConcatProperties
  <2>5. (w \o Tail(q))[Len(w) + Len(Tail(q))] = q[Len(q)]
    <3>1. CASE Len(q) = 1
      <4>1. Len(w) + Len(Tail(q)) = Len(w) /\ Len(w) \in 1..Len(w) + Len(Tail(q))
        <5>1. Len(Tail(q)) = 0
          BY <2>1, <3>1
        <5>2. \A n \in Nat \ {0}, z \in {0} : n + z = n /\ n \in 1..n + z
          OBVIOUS
        <5> QED BY <2>0, <5>1, <5>2, Zenon
      <4>2. (w \o Tail(q))[Len(w)] = w[Len(w)]
        BY <2>0, <2>4, <4>1
      <4> QED BY <2>1, <2>2, <3>1, <4>1, <4>2
    <3>2. CASE Len(q) > 1
      <4> DEFINE k == Len(w) + Len(Tail(q))
      <4>1. /\ k \in 1..Len(w) + Len(Tail(q)) /\ ~(k <= Len(w)) /\ k - Len(w) = Len(q) - 1
            /\ Len(q) - 1 \in 1..Len(Tail(q)) /\ (Len(q) - 1) + 1 = Len(q)
        BY <2>0, <2>1, <3>2
      <4>2. (w \o Tail(q))[k] = Tail(q)[Len(q) - 1]
        BY <2>4, <4>1
      <4>3. Tail(q)[Len(q) - 1] = q[Len(q)]
        BY <2>1, <4>1
      <4> QED BY <4>2, <4>3
    <3>3. Len(q) = 1 \/ Len(q) > 1
      BY <2>1
    <3> QED BY <3>1, <3>2, <3>3
  <2> QED BY <1>2, <2>0, <2>1, <2>2, <2>3, <2>4, <2>5
<1> QED BY <1>1, <1>2

\* A mask that changes nothing, and one that does, at the end.
LEMMA FollowedMerged ==
  ASSUME NEW S, NEW edges \in Seq(S), NEW q \in Seq(S), q # <<>>
  PROVE  WithEdge(Followed(edges, q), q[Len(q)]) = Followed(edges, q)
  BY FollowedLast DEF WithEdge

LEMMA FollowedAppended ==
  ASSUME NEW S, NEW edges \in Seq(S), NEW q \in Seq(S), NEW m \in S,
         q # <<>> => q[Len(q)] # m
  PROVE  WithEdge(Followed(edges, q), m) = Followed(edges, Append(q, m))
<1>1. CASE q = <<>>
  <2>1. Followed(edges, q) = edges /\ Head(Append(q, m)) = m /\ Tail(Append(q, m)) = <<>>
    BY <1>1, HeadTailAppend DEF Followed
  <2>2. WithEdge(edges, m) \o <<>> = WithEdge(edges, m)
    BY WithEdgeLast, ConcatEmptySeq
  <2> QED BY <2>1, <2>2, AppendProperties DEF Followed
<1>2. CASE q # <<>>
  <2> DEFINE w == WithEdge(edges, Head(q))
             t == Tail(q)
  <2>1. w \in Seq(S) /\ t \in Seq(S)
    BY <1>2, HeadTailProperties, WithEdgeLast
  <2>2. Followed(edges, q) = w \o t
    BY <1>2 DEF Followed
  <2>3. Followed(edges, Append(q, m)) = w \o Append(t, m)
    BY <1>2, HeadTailAppend, AppendProperties DEF Followed
  <2>4. WithEdge(Followed(edges, q), m) = Append(w \o t, m)
    BY <1>2, <2>2, FollowedLast DEF WithEdge
  <2> HIDE DEF w, t
  <2>5. Append(w \o t, m) = w \o Append(t, m)
    <3>1. <<m>> \in Seq(S)
      OBVIOUS
    <3>2. w \o t \in Seq(S)
      BY <2>1, ConcatProperties
    <3>3. Append(w \o t, m) = (w \o t) \o <<m>> /\ Append(t, m) = t \o <<m>>
      BY <2>1, <3>2, AppendIsConcat
    <3> QED BY <2>1, <3>1, <3>3, ConcatAssociative
  <2> QED BY <2>3, <2>4, <2>5
<1> QED BY <1>1, <1>2

LEMMA AppendedBefore ==
  ASSUME NEW S, NEW u \in Seq(S), NEW h \in S, NEW v \in Seq(S)
  PROVE  Append(u, h) \o v = u \o (<<h>> \o v)
<1>1. <<h>> \in Seq(S)
  OBVIOUS
<1>2. Append(u, h) = u \o <<h>>
  BY AppendIsConcat
<1> QED BY <1>1, <1>2, ConcatAssociative

\* The first mask leaves the queue; the next one is a change after it.
LEMMA FollowedTaken ==
  ASSUME NEW S, NEW edges \in Seq(S), NEW q \in Seq(S), q # <<>>,
         Len(q) > 1 => q[1] # q[2]
  PROVE  Followed(edges, q) = Followed(WithEdge(edges, Head(q)), Tail(q))
<1> DEFINE w == WithEdge(edges, Head(q))
           t == Tail(q)
<1>0. /\ Head(q) \in S /\ Head(q) = q[1]
      /\ t \in Seq(S) /\ Len(t) = Len(q) - 1
      /\ \A i \in 1..Len(t) : t[i] = q[i + 1]
  BY HeadTailProperties
<1>1. w \in Seq(S) /\ w # <<>> /\ w[Len(w)] = Head(q)
  BY <1>0, WithEdgeLast
<1>2. Followed(edges, q) = w \o t
  BY DEF Followed
<1> HIDE DEF w, t
<1>3. CASE t = <<>>
  BY <1>1, <1>2, <1>3, ConcatEmptySeq DEF Followed, w, t
<1>4. CASE t # <<>>
  <2>1. Head(t) \in S /\ Tail(t) \in Seq(S) /\ Len(t) \in Nat \ {0}
    BY <1>0, <1>4, HeadTailProperties, EmptySeq
  <2>2. Head(t) = t[1] /\ t[1] = q[2] /\ Len(q) > 1
    <3>1. Len(q) \in Nat BY LenProperties
    <3> QED BY <1>0, <1>4, <2>1, <3>1
  <2>3. WithEdge(w, Head(t)) = Append(w, Head(t))
    BY <1>0, <1>1, <2>2 DEF WithEdge
  <2>4. Followed(w, t) = Append(w, Head(t)) \o Tail(t)
    BY <1>4, <2>3 DEF Followed
  <2>5. Append(w, Head(t)) \o Tail(t) = w \o (<<Head(t)>> \o Tail(t))
    BY <1>1, <2>1, AppendedBefore
  <2>6. <<Head(t)>> \o Tail(t) = t
    <3>1. t = <<t[1]>> \o SubSeq(t, 2, Len(t))
      BY <1>0, <2>1, SubSeqFull, SubSeqRecursiveFirst
    <3> QED BY <1>0, <1>4, <2>2, <3>1, TailIsSubSeq
  <2> QED BY <1>2, <2>4, <2>5, <2>6 DEF w, t
<1> QED BY <1>3, <1>4

LEMMA MasksOf ==
  ASSUME NEW q \in Seq(Frames)
  PROVE  /\ Masks(q) \in Seq(AllMasks) /\ Len(Masks(q)) = Len(q)
         /\ \A i \in 1..Len(q) : Masks(q)[i] = Buttons[q[i].state]
         /\ Masks(q) = <<>> <=> q = <<>>
<1>1. Len(q) \in Nat /\ \A i \in 1..Len(q) : q[i] \in Frames
  BY LenProperties, ElementOfSeq
<1>2. \A i \in 1..Len(q) : Buttons[q[i].state] \in AllMasks
  BY <1>1 DEF Frames, AllMasks
<1>3. Masks(q) \in Seq(AllMasks) /\ Len(Masks(q)) = Len(q)
  BY <1>1, <1>2 DEF Masks
<1>4. \A i \in 1..Len(q) : Masks(q)[i] = Buttons[q[i].state]
  BY DEF Masks
<1>5. Masks(q) = <<>> <=> q = <<>>
  <2>1. q = <<>> <=> Len(q) = 0
    BY EmptySeq
  <2>2. Masks(q) = <<>> <=> Len(Masks(q)) = 0
    BY <1>3, EmptySeq
  <2> QED BY <1>3, <2>1, <2>2
<1> QED BY <1>3, <1>4, <1>5

\* A step that moves no frame starts no transport and shows no other input.
LEMMA CalmAccepting == CalmStep => accepting' = accepting
<1> USE DEF queueVars
<1>1. CASE CalmApi
  BY <1>1 DEF CalmApi, StartSession, StartWatchdog, SimulateDisconnect, StopBegin, Wake, SendFailed,
              Callback, OnDisconnected, NotifyWatchdog, ShutNotify, ShutJoin, ShutClear, JoinWatchdog,
              Destroy
<1>2. CASE WatchStep \/ SpuriousWakeUp \/ Tick \/ UNCHANGED vars
  BY <1>2 DEF WatchStep, Decide, DeadlinePasses, TimedOut, SpuriousWakeUp, Tick, vars
<1> QED BY <1>1, <1>2 DEF CalmStep

LEMMA CalmRunning == CalmStep /\ state' = "Running" => state = "Running" \/ state = "Created"
<1> USE DEF sessionVars
<1>1. CASE CalmApi
  BY <1>1 DEF CalmApi, StartSession, StartWatchdog, SimulateDisconnect, StopBegin, Wake, SendFailed,
              Callback, OnDisconnected, NotifyWatchdog, ShutNotify, ShutJoin, ShutClear, JoinWatchdog,
              Destroy
<1>2. CASE WatchStep \/ SpuriousWakeUp \/ Tick \/ UNCHANGED vars
  BY <1>2 DEF WatchStep, Decide, DeadlinePasses, TimedOut, SpuriousWakeUp, Tick, vars
<1> QED BY <1>1, <1>2 DEF CalmStep

LEMMA CalmShows == CalmStep => UNCHANGED <<armed, out>> \/ armed' = FALSE
<1> USE DEF sessionVars, Neutralize
<1>1. CASE CalmApi
  BY <1>1 DEF CalmApi, StartSession, StartWatchdog, SimulateDisconnect, StopBegin, Wake, SendFailed,
              Callback, OnDisconnected, NotifyWatchdog, ShutNotify, ShutJoin, ShutClear, JoinWatchdog,
              Destroy
<1>2. CASE WatchStep \/ SpuriousWakeUp \/ Tick \/ UNCHANGED vars
  BY <1>2 DEF WatchStep, Decide, DeadlinePasses, TimedOut, SpuriousWakeUp, Tick, vars
<1> QED BY <1>1, <1>2 DEF CalmStep

LEMMA CalmGoesOn ==
  ASSUME StartPlace, CalmStep, state' = "Running", accepting'
  PROVE  state = "Running" /\ accepting
<1>1. accepting
  BY CalmAccepting
<1> QED BY <1>1, CalmRunning DEF StartPlace

-----------------------------------------------------------------------------
\* A frame the session gets while it runs is new to it, and there is a
\* controller to show it.
LEMMA DeliveryIsShown ==
  ASSUME TypeOK, EndPlace, Ordered, OnStateFrame, state' = "Running"
  PROVE  /\ state = "Running" /\ worker = "deliver" /\ worker' = "check"
         /\ out' = delivering.state
         /\ edgesOut' = WithEdge(edgesOut, Buttons[delivering.state])
         /\ UNCHANGED <<queue, accepting, edgesIn, lastIn>>
<1>1. /\ state = "Running" /\ worker = "deliver" /\ worker' = "check"
      /\ UNCHANGED <<queue, accepting, edgesIn, lastIn>>
  BY DEF OnStateFrame, Refused, queueVars
<1>2. ~Refused(delivering)
  <2>1. delivering.seq \in Int /\ latest \in Int
    BY LoopbackAssumption DEF TypeOK, ValueTypeOK, FrameTypeOK, Frames
  <2> QED BY <1>1, <2>1 DEF Refused, Ordered
<1>3. created
  BY <1>1 DEF EndPlace
<1> QED BY <1>1, <1>2, <1>3 DEF OnStateFrame

LEMMA LastIsPendingKept ==
  LoopbackInv /\ [Next]_vars => LastIsPending'
<1> SUFFICES ASSUME TypeOK, FrameTypeOK, StartPlace, EndPlace, DisarmedIsNeutral, Ordered,
                    LastIsPending,
                    [Next]_vars, state' = "Running", accepting'
             PROVE  /\ queue' # <<>> => queue'[Len(queue')].state = lastIn'
                    /\ queue' = <<>> /\ worker' = "deliver" => delivering'.state = lastIn'
                    /\ worker' # "deliver" /\ queue' = <<>> /\ armed' => out' = lastIn'
  BY DEF LoopbackInv, TypeOK, Numbered, LastIsPending, NothingPending
<1>1. CASE CalmStep
  <2>1. state = "Running" /\ accepting
    BY <1>1, CalmGoesOn
  <2>2. UNCHANGED <<queue, delivering, lastIn>> /\ (worker' = "deliver" <=> worker = "deliver")
    BY <1>1, CalmMovesNothing DEF Calm
  <2>3. armed' => armed /\ out' = out
    BY <1>1, CalmShows
  <2> QED BY <2>1, <2>2, <2>3 DEF LastIsPending, NothingPending
<1>2. CASE StartTransport
  <2>1. queue' = <<>> /\ worker' = "check" /\ armed' = armed /\ applied = 0
    BY <1>2 DEF StartTransport, sessionVars, StartPlace, Unstarted
  <2> QED BY <2>1 DEF DisarmedIsNeutral
<1>3. CASE Submit
  BY <1>3 DEF Submit, queueVars, historyVars, LastIsPending, NothingPending
<1>4. CASE Send
  <2>1. UNCHANGED <<state, accepting, armed, out, worker, delivering>>
    BY <1>4 DEF Send, sessionVars, localVars
  <2>2. CASE UNCHANGED <<queue, lastIn>>
    BY <2>1, <2>2 DEF LastIsPending, NothingPending
  <2>3. CASE Len(queue') # 0 /\ queue'[Len(queue')] = sending /\ lastIn' = sending.state
    BY <2>3, EmptySeq
  <2>4. Len(queue) \in Nat
    BY DEF FrameTypeOK
  <2> QED BY <1>4, <2>2, <2>3, <2>4, SendsAtEnd
<1>5. CASE Shut
  BY <1>5 DEF Shut, sessionVars, localVars, historyVars, queueVars, LastIsPending, NothingPending
<1>6. CASE Take
  <2>1. UNCHANGED <<state, accepting, armed, out, lastIn>> /\ worker = "check"
    BY <1>6 DEF Take, sessionVars, historyVars
  <2>2. CASE worker' = "deliver"
    <3>1. queue # <<>> BY <1>6, <2>2 DEF Take
    <3>2. /\ Len(queue) # 0 /\ Len(queue') = Len(queue) - 1 /\ delivering' = queue[1]
          /\ \A i \in 1..Len(queue') : queue'[i] = queue[i + 1]
      BY <1>6, <2>2, <3>1, TakesAtHead
    <3>3. queue[Len(queue)].state = lastIn /\ Len(queue) \in Nat
      BY <2>1, <3>1 DEF LastIsPending, FrameTypeOK
    <3>4. CASE queue' = <<>>
      <4>1. Len(queue') = 0
        BY <3>4
      <4>2. Len(queue) = 1
        BY <3>2, <3>3, <4>1
      <4> QED BY <2>1, <2>2, <3>2, <3>3, <3>4, <4>2
    <3>5. CASE queue' # <<>>
      <4>1. queue' \in Seq(Frames)
        BY <1>6, <2>2, <3>1, HeadTailProperties DEF Take, FrameTypeOK
      <4>2. Len(queue') \in Nat \ {0}
        BY <3>5, <4>1, EmptySeq
      <4>3. queue'[Len(queue')] = queue[Len(queue)]
        BY <3>2, <3>3, <4>2
      <4> QED BY <2>1, <2>2, <3>3, <3>5, <4>3
    <3> QED BY <3>4, <3>5
  <2>3. CASE worker' # "deliver"
    BY <1>6, <2>1, <2>3 DEF Take, LastIsPending, NothingPending
  <2> QED BY <2>2, <2>3
<1>7. CASE OnStateFrame
  BY <1>7, DeliveryIsShown DEF LastIsPending
<1> QED BY <1>1, <1>2, <1>3, <1>4, <1>5, <1>6, <1>7, FramesMove

\* The masks of the queue after a merge, an append, and a removal.
LEMMA MasksAfterSend ==
  ASSUME FrameTypeOK, Send
  PROVE  \/ UNCHANGED <<queue, edgesIn>>
         \/ /\ queue # <<>> /\ Masks(queue') = Masks(queue)
            /\ edgesIn' = WithEdge(edgesIn, Masks(queue)[Len(queue)])
         \/ \E m \in AllMasks :
              /\ queue # <<>> => Masks(queue)[Len(queue)] # m
              /\ Masks(queue') = Append(Masks(queue), m)
              /\ edgesIn' = WithEdge(edgesIn, m)
<1> DEFINE m == Buttons[sending.state]
<1>1. queue' \in Seq(Frames) /\ queue \in Seq(Frames) /\ Len(queue) \in Nat /\ m \in AllMasks
  <2>1. FrameTypeOK'
    BY FrameTypesKept DEF Next, ApiStep
  <2> QED BY <2>1 DEF FrameTypeOK, Frames, AllMasks
<1>2. CASE UNCHANGED <<queue, edgesIn, lastIn>>
  BY <1>2
<1>3. CASE /\ Merges(sending) /\ Len(queue') = Len(queue) /\ Len(queue) # 0
           /\ \A i \in 1..Len(queue) - 1 : queue'[i] = queue[i]
           /\ queue'[Len(queue)] = sending /\ edgesIn' = WithEdge(edgesIn, m)
  <2>1. queue # <<>> /\ Buttons[queue[Len(queue)].state] = m
    BY <1>3 DEF Merges
  <2>2. \A i \in 1..Len(queue) : Masks(queue')[i] = Masks(queue)[i]
    <3> TAKE i \in 1..Len(queue)
    <3>1. Masks(queue')[i] = Buttons[queue'[i].state] /\ Masks(queue)[i] = Buttons[queue[i].state]
      BY <1>1, <1>3, MasksOf
    <3>2. CASE i = Len(queue)
      BY <1>3, <2>1, <3>1, <3>2
    <3>3. CASE i # Len(queue)
      <4>1. i \in 1..Len(queue) - 1
        BY <1>1, <3>3
      <4> QED BY <1>3, <3>1, <4>1
    <3> QED BY <3>2, <3>3
  <2>3. Masks(queue') = Masks(queue)
    <3>1. /\ Masks(queue') \in Seq(AllMasks) /\ Masks(queue) \in Seq(AllMasks)
          /\ Len(Masks(queue')) = Len(queue) /\ Len(Masks(queue)) = Len(queue)
      BY <1>1, <1>3, MasksOf
    <3> QED BY <2>2, <3>1, SeqEqual
  <2>4. Masks(queue)[Len(queue)] = m
    <3>1. Len(queue) \in 1..Len(queue)
      BY <1>1, <1>3
    <3> QED BY <1>1, <2>1, <3>1, MasksOf
  <2> QED BY <1>3, <2>1, <2>3, <2>4
<1>4. CASE /\ ~Merges(sending) /\ Len(queue') = Len(queue) + 1
           /\ \A i \in 1..Len(queue) : queue'[i] = queue[i]
           /\ queue'[Len(queue) + 1] = sending /\ edgesIn' = WithEdge(edgesIn, m)
  <2>1. queue # <<>> => Masks(queue)[Len(queue)] # m
    <3> HAVE queue # <<>>
    <3>1. Len(queue) \in 1..Len(queue)
      BY <1>1, EmptySeq
    <3> QED BY <1>1, <1>4, <3>1, MasksOf DEF Merges
  <2>2. /\ Masks(queue') \in Seq(AllMasks) /\ Append(Masks(queue), m) \in Seq(AllMasks)
        /\ Len(Masks(queue')) = Len(queue) + 1 /\ Len(Append(Masks(queue), m)) = Len(queue) + 1
    BY <1>1, <1>4, MasksOf, AppendProperties
  <2>3. \A i \in 1..Len(queue) + 1 : Masks(queue')[i] = Append(Masks(queue), m)[i]
    <3> TAKE i \in 1..Len(queue) + 1
    <3>1. Masks(queue')[i] = Buttons[queue'[i].state]
      BY <1>1, <1>4, MasksOf
    <3>2. /\ \A j \in 1..Len(queue) : Append(Masks(queue), m)[j] = Masks(queue)[j]
          /\ Append(Masks(queue), m)[Len(queue) + 1] = m
      BY <1>1, MasksOf, AppendProperties
    <3>3. CASE i = Len(queue) + 1
      BY <1>4, <3>1, <3>2, <3>3
    <3>4. CASE i # Len(queue) + 1
      <4>1. i \in 1..Len(queue)
        BY <1>1, <3>4
      <4>2. Masks(queue)[i] = Buttons[queue[i].state]
        BY <1>1, <4>1, MasksOf
      <4> QED BY <1>4, <3>1, <3>2, <4>1, <4>2
    <3> QED BY <3>3, <3>4
  <2>4. Masks(queue') = Append(Masks(queue), m)
    BY <2>2, <2>3, SeqEqual
  <2> QED BY <1>1, <1>4, <2>1, <2>4
<1> QED BY <1>2, <1>3, <1>4, SendsAtEnd

LEMMA MasksAfterTake ==
  ASSUME FrameTypeOK, Take, worker' = "deliver"
  PROVE  /\ queue # <<>> /\ Masks(queue') = Tail(Masks(queue))
         /\ Buttons[delivering'.state] = Head(Masks(queue))
<1>1. queue # <<>> BY DEF Take
<1>2. queue \in Seq(Frames) /\ queue' \in Seq(Frames) /\ Len(queue) \in Nat
  BY <1>1, HeadTailProperties DEF Take, FrameTypeOK
<1>3. /\ Len(queue') = Len(queue) - 1 /\ delivering' = queue[1] /\ Len(queue) # 0
      /\ \A i \in 1..Len(queue') : queue'[i] = queue[i + 1]
  BY <1>1, TakesAtHead
<1>4. /\ Masks(queue) \in Seq(AllMasks) /\ Masks(queue) # <<>> /\ Len(Masks(queue)) = Len(queue)
      /\ \A i \in 1..Len(queue) : Masks(queue)[i] = Buttons[queue[i].state]
  BY <1>1, <1>2, MasksOf
<1>5. /\ Masks(queue') \in Seq(AllMasks) /\ Len(Masks(queue')) = Len(queue')
      /\ \A i \in 1..Len(queue') : Masks(queue')[i] = Buttons[queue'[i].state]
  BY <1>2, MasksOf
<1>6. /\ Tail(Masks(queue)) \in Seq(AllMasks) /\ Len(Tail(Masks(queue))) = Len(queue')
      /\ \A i \in 1..Len(queue') : Tail(Masks(queue))[i] = Masks(queue)[i + 1]
  BY <1>3, <1>4, HeadTailProperties
<1>7. \A i \in 1..Len(queue') : Masks(queue')[i] = Tail(Masks(queue))[i]
  <2> TAKE i \in 1..Len(queue')
  <2>1. i + 1 \in 1..Len(queue)
    BY <1>2, <1>3
  <2> QED BY <1>3, <1>4, <1>5, <1>6, <2>1
<1>8. Masks(queue') = Tail(Masks(queue))
  BY <1>5, <1>6, <1>7, SeqEqual
<1>9. 1 \in 1..Len(queue)
  BY <1>2, <1>3
<1>10. Head(Masks(queue)) = Masks(queue)[1]
  BY <1>4
<1> QED BY <1>1, <1>3, <1>4, <1>8, <1>9, <1>10

LEMMA HistoryTypesKept == LoopbackInv /\ [Next]_vars => HistoryTypeOK'
<1> SUFFICES ASSUME FrameTypeOK, HistoryTypeOK, [Next]_vars PROVE HistoryTypeOK'
  BY DEF LoopbackInv, TypeOK
<1>1. Buttons[sending.state] \in AllMasks /\ Buttons[delivering.state] \in AllMasks
  BY DEF FrameTypeOK, Frames, AllMasks
<1>2. /\ WithEdge(edgesIn, Buttons[sending.state]) \in Seq(AllMasks)
      /\ WithEdge(edgesOut, Buttons[delivering.state]) \in Seq(AllMasks)
  BY <1>1, WithEdgeLast DEF HistoryTypeOK
<1>3. CASE CalmStep
  BY <1>3, CalmMovesNothing DEF Calm, HistoryTypeOK
<1>4. CASE StartTransport \/ Submit \/ Shut \/ Take
  BY <1>4 DEF StartTransport, Submit, Shut, Take, historyVars, HistoryTypeOK
<1>5. CASE Send
  BY <1>2, <1>5 DEF Send, HistoryTypeOK
<1>6. CASE OnStateFrame
  BY <1>2, <1>6 DEF OnStateFrame, HistoryTypeOK
<1> QED BY <1>3, <1>4, <1>5, <1>6, FramesMove

LEMMA EdgesKeptNext == LoopbackInv /\ [Next]_vars => EdgesKept'
<1> SUFFICES ASSUME TypeOK, FrameTypeOK, HistoryTypeOK, StartPlace, EndPlace, Ordered, EdgesKept,
                    [Next]_vars, state' = "Running", accepting'
             PROVE  /\ \A i \in 1..Len(queue') - 1 : Masks(queue')[i] # Masks(queue')[i + 1]
                    /\ edgesIn' = Followed(Delivered', Masks(queue'))
  BY DEF LoopbackInv, TypeOK, Numbered, EdgesKept
<1>1. /\ queue \in Seq(Frames) /\ Len(queue) \in Nat
      /\ Masks(queue) \in Seq(AllMasks) /\ Len(Masks(queue)) = Len(queue)
      /\ Masks(queue) = <<>> <=> queue = <<>>
  BY MasksOf DEF FrameTypeOK
<1>2. Buttons[delivering.state] \in AllMasks /\ Delivered \in Seq(AllMasks)
  <2>1. Buttons[delivering.state] \in AllMasks
    BY DEF FrameTypeOK, Frames, AllMasks
  <2> QED BY <2>1, WithEdgeLast DEF Delivered, HistoryTypeOK
<1>3. CASE UNCHANGED <<queue, edgesIn, edgesOut, delivering>> /\ state = "Running" /\ accepting
           /\ (worker' = "deliver" <=> worker = "deliver")
  BY <1>3 DEF EdgesKept, Delivered
<1>4. CASE CalmStep
  BY <1>3, <1>4, CalmGoesOn, CalmMovesNothing DEF Calm
<1>5. CASE StartTransport
  <2>1. queue' = <<>> /\ worker' = "check" /\ edgesIn' = <<>> /\ edgesOut' = <<>>
    BY <1>5 DEF StartTransport, StartPlace, Unstarted, historyVars
  <2>2. Len(queue') = 0 /\ Masks(queue') = <<>>
    BY <2>1, MasksOf, EmptySeq
  <2> QED BY <2>1, <2>2 DEF Delivered, Followed
<1>6. CASE Submit
  BY <1>3, <1>6 DEF Submit, queueVars, historyVars
<1>7. CASE Send
  <2>1. state = "Running" /\ accepting /\ UNCHANGED <<edgesOut, worker, delivering>>
    BY <1>7 DEF Send, sessionVars, localVars
  <2>2. /\ \A i \in 1..Len(queue) - 1 : Masks(queue)[i] # Masks(queue)[i + 1]
        /\ edgesIn = Followed(Delivered, Masks(queue)) /\ Delivered' = Delivered
    BY <2>1 DEF EdgesKept, Delivered
  <2>3. CASE UNCHANGED <<queue, edgesIn>>
    BY <1>3, <2>1, <2>3
  <2>4. CASE /\ queue # <<>> /\ Masks(queue') = Masks(queue)
             /\ edgesIn' = WithEdge(edgesIn, Masks(queue)[Len(queue)])
    <3>1. Len(queue') = Len(queue)
      <4>1. queue' \in Seq(Frames)
        BY FrameTypesKept DEF FrameTypeOK
      <4> QED BY <1>1, <2>4, <4>1, MasksOf
    <3>2. WithEdge(Followed(Delivered, Masks(queue)), Masks(queue)[Len(queue)])
            = Followed(Delivered, Masks(queue))
      BY <1>1, <1>2, <2>4, FollowedMerged
    <3> QED BY <2>2, <2>4, <3>1, <3>2
  <2>5. ASSUME NEW m \in AllMasks,
               queue # <<>> => Masks(queue)[Len(queue)] # m,
               Masks(queue') = Append(Masks(queue), m),
               edgesIn' = WithEdge(edgesIn, m)
        PROVE  /\ \A i \in 1..Len(queue') - 1 : Masks(queue')[i] # Masks(queue')[i + 1]
               /\ edgesIn' = Followed(Delivered', Masks(queue'))
    <3>1. edgesIn' = Followed(Delivered, Append(Masks(queue), m))
      BY <1>1, <1>2, <2>2, <2>5, FollowedAppended
    <3>2. /\ Len(queue') = Len(queue) + 1
          /\ \A i \in 1..Len(queue) : Masks(queue')[i] = Masks(queue)[i]
          /\ Masks(queue')[Len(queue) + 1] = m
      <4>1. queue' \in Seq(Frames)
        BY FrameTypesKept DEF FrameTypeOK
      <4> QED BY <1>1, <2>5, <4>1, MasksOf, AppendProperties
    <3>3. ASSUME NEW i \in 1..Len(queue') - 1
          PROVE  Masks(queue')[i] # Masks(queue')[i + 1]
      <4>1. CASE i = Len(queue)
        <5>1. queue # <<>> /\ Len(queue) \in 1..Len(queue)
          BY <1>1, <3>2, <4>1, EmptySeq
        <5> QED BY <2>5, <3>2, <4>1, <5>1
      <4>2. CASE i # Len(queue)
        <5>1. i \in 1..Len(queue) - 1 /\ i \in 1..Len(queue) /\ i + 1 \in 1..Len(queue)
          BY <1>1, <3>2, <4>2
        <5> QED BY <2>2, <3>2, <5>1
      <4> QED BY <4>1, <4>2
    <3> QED BY <2>2, <2>5, <3>1, <3>3
  <2> QED BY <1>7, <2>3, <2>4, <2>5, MasksAfterSend
<1>8. CASE Shut
  BY <1>3, <1>8 DEF Shut, sessionVars, queueVars, localVars, historyVars
<1>9. CASE Take
  <2>1. state = "Running" /\ accepting /\ worker = "check" /\ UNCHANGED <<edgesIn, edgesOut>>
    BY <1>9 DEF Take, sessionVars, historyVars
  <2>2. CASE worker' = "deliver"
    <3>1. /\ queue # <<>> /\ Masks(queue') = Tail(Masks(queue))
          /\ Delivered' = WithEdge(Delivered, Head(Masks(queue)))
      BY <1>9, <2>1, <2>2, MasksAfterTake DEF Delivered
    <3>2. /\ \A i \in 1..Len(queue) - 1 : Masks(queue)[i] # Masks(queue)[i + 1]
          /\ edgesIn' = Followed(Delivered, Masks(queue))
      BY <2>1 DEF EdgesKept
    <3>3. Len(Masks(queue)) > 1 => Masks(queue)[1] # Masks(queue)[2]
      <4> HAVE Len(Masks(queue)) > 1
      <4>1. 1 \in 1..Len(queue) - 1
        BY <1>1
      <4> QED BY <3>2, <4>1
    <3>4. edgesIn' = Followed(Delivered', Masks(queue'))
      BY <1>1, <1>2, <3>1, <3>2, <3>3, FollowedTaken
    <3>5. ASSUME NEW i \in 1..Len(queue') - 1
          PROVE  Masks(queue')[i] # Masks(queue')[i + 1]
      <4>1. /\ Len(queue') = Len(queue) - 1
            /\ \A j \in 1..Len(queue') : Masks(queue')[j] = Masks(queue)[j + 1]
        <5>1. Len(queue') = Len(queue) - 1
          BY <1>9, <2>2, <3>1, TakesAtHead
        <5> QED BY <1>1, <3>1, <5>1, HeadTailProperties
      <4>2. i \in 1..Len(queue') /\ i + 1 \in 1..Len(queue') /\ i + 1 \in 1..Len(queue) - 1
        BY <1>1, <4>1
      <4> QED BY <3>2, <4>1, <4>2
    <3> QED BY <3>4, <3>5
  <2>3. CASE worker' # "deliver"
    BY <1>3, <1>9, <2>1, <2>3 DEF Take
  <2> QED BY <2>2, <2>3
<1>10. CASE OnStateFrame
  <2>1. /\ state = "Running" /\ accepting /\ UNCHANGED <<queue, edgesIn>>
        /\ Delivered' = Delivered
    BY <1>10, DeliveryIsShown DEF Delivered
  <2> QED BY <2>1 DEF EdgesKept
<1> QED BY <1>4, <1>5, <1>6, <1>7, <1>8, <1>9, <1>10, FramesMove

-----------------------------------------------------------------------------
LEMMA LoopbackInit == Init => LoopbackInv
<1> SUFFICES ASSUME Init PROVE LoopbackInv
  OBVIOUS
<1> USE LoopbackAssumption DEF Init
<1>0. Len(queue) = 0
  OBVIOUS
<1>1. FlagTypeOK
  BY DEF FlagTypeOK
<1>2. ValueTypeOK
  BY DEF ValueTypeOK, Ended, ApiLabels, WorkerLabels, WatchLabels
<1>3. FrameTypeOK
  BY EmptyFits DEF FrameTypeOK, Frames, First
<1>4. HistoryTypeOK
  BY DEF HistoryTypeOK
<1>5. StartPlace /\ EndPlace /\ DisarmedIsNeutral
  BY DEF StartPlace, Unstarted, EndPlace, StopPath, DisarmedIsNeutral
<1>6. Bounded /\ Ordered
  BY <1>0 DEF Bounded, Ordered
<1>7. LastIsPending /\ EdgesKept
  BY DEF LastIsPending, EdgesKept
<1> QED BY <1>1, <1>2, <1>3, <1>4, <1>5, <1>6, <1>7 DEF LoopbackInv, TypeOK, Numbered

LEMMA LoopbackInvariant == Spec => []LoopbackInv
<1>1. LoopbackInv /\ [Next]_vars => LoopbackInv'
  <2>1. LoopbackInv /\ [Next]_vars => TypeOK'
    BY FlagTypesKept, FrameTypesKept, ValueTypesKept DEF LoopbackInv, TypeOK
  <2>2. LoopbackInv /\ [Next]_vars => StartPlace' /\ EndPlace' /\ DisarmedIsNeutral' /\ Numbered'
    BY StartPlaceKept, EndPlaceKept, DisarmedKept, NumberedKept DEF LoopbackInv
  <2> QED BY <2>1, <2>2, HistoryTypesKept, LastIsPendingKept, EdgesKeptNext DEF LoopbackInv
<1> QED BY <1>1, LoopbackInit, PTL DEF Spec

(* Every variable keeps its type, the queue its bound.                      *)
THEOREM LoopbackTypeCorrect == Spec => []TypeOK
<1>1. LoopbackInv => TypeOK
  BY DEF LoopbackInv
<1> QED BY <1>1, LoopbackInvariant, PTL

(* EdgesKept: merging loses no press or release and invents none, whatever    *)
(* the buttons, the queue's bound and the worker's speed.                   *)
THEOREM NoEdgeIsLost == Spec => []EdgesKept
<1>1. LoopbackInv => EdgesKept
  BY DEF LoopbackInv
<1> QED BY <1>1, LoopbackInvariant, PTL

(* SettlesOnLast: what is shown when nothing is pending is the last state     *)
(* SendState accepted, or neutral after a period of silence.                *)
THEOREM OutputSettles == Spec => []SettlesOnLast
<1>1. LoopbackInv => SettlesOnLast
  BY DEF LoopbackInv, TypeOK, FlagTypeOK, LastIsPending, DisarmedIsNeutral, SettlesOnLast
<1> QED BY <1>1, LoopbackInvariant, PTL

(* The output implements PadOutput: every step that ends the session releases *)
(* it, and a frame delivered late or a watchdog that wakes up late shows     *)
(* nothing any more.                                                        *)
THEOREM LoopbackOutputIsSafe == Spec => ImplementsPadOutput
<1>1. Init => Output!PadInit
  BY DEF Init, Output!PadInit, Mode
<1>2. LoopbackInv /\ [Next]_vars => [Output!PadNext]_(Output!padVars)
  <2> SUFFICES ASSUME ValueTypeOK, FrameTypeOK, StartPlace, EndPlace, DisarmedIsNeutral, [Next]_vars
               PROVE  [Output!PadNext]_(Output!padVars)
    BY DEF LoopbackInv, TypeOK
  <2> USE LoopbackAssumption
      DEF ValueTypeOK, FrameTypeOK, Frames, StartPlace, Unstarted, EndPlace, StopPath,
          DisarmedIsNeutral, Ended, Mode, Neutralize, sessionVars, queueVars, localVars, timeVars,
          threadVars, historyVars, Output!PadNext, Output!padVars
  <2>1. CASE StartSession
    BY <2>1 DEF StartSession, Output!Plug
  <2>2. CASE Submit \/ SimulateDisconnect
    BY <2>2 DEF Submit, SimulateDisconnect
  <2>3. CASE StopBegin
    BY <2>3 DEF StopBegin, Output!End, Output!Abandon
  <2>4. CASE StartTransport \/ StartWatchdog \/ Send \/ Wake \/ NotifyWatchdog
    BY <2>4 DEF StartTransport, StartWatchdog, Send, Wake, NotifyWatchdog
  <2>5. CASE SendFailed \/ Callback
    BY <2>5 DEF SendFailed, Callback, OnDisconnected, Output!End
  <2>6. CASE Shut \/ ShutNotify \/ ShutJoin \/ ShutClear \/ JoinWatchdog
    BY <2>6 DEF Shut, ShutNotify, ShutJoin, ShutClear, JoinWatchdog
  <2>7. CASE Destroy
    BY <2>7 DEF Destroy, Output!Unplug
  <2>8. CASE Take
    BY <2>8 DEF Take
  <2>9. CASE OnStateFrame
    BY <2>9 DEF OnStateFrame, Refused, Output!Show
  <2>10. CASE WatchStep \/ SpuriousWakeUp \/ Tick
    BY <2>10 DEF WatchStep, Decide, DeadlinePasses, TimedOut, SpuriousWakeUp, Tick, Output!Show
  <2>11. CASE UNCHANGED vars
    BY <2>11 DEF vars
  <2> QED BY <2>1, <2>2, <2>3, <2>4, <2>5, <2>6, <2>7, <2>8, <2>9, <2>10, <2>11
          DEF Next, CallerStep, ApiStep, WorkerStep
<1> QED BY <1>1, <1>2, LoopbackInvariant, PTL DEF Spec, ImplementsPadOutput, Output!PadSpec
=============================================================================
