-------------------------- MODULE LoopbackSession --------------------------
(***************************************************************************)
(* Session with LoopbackTransportBackend and MemoryVirtualControllerBackend *)
(* (the local diagnostic): the caller's thread, the transport worker and   *)
(* the watchdog.  SubmitState puts full states into a bounded queue that   *)
(* merges neighbours with equal buttons; the worker applies them.          *)
(*                                                                         *)
(* A step is one critical section of a mutex or one blocking call.  The C   *)
(* ABI is called from one thread.                                          *)
(***************************************************************************)
EXTENDS Integers, Sequences

CONSTANTS
  States, Neutral, \* complete gamepad states, and the one with all released
  Absent,          \* the memory controller is not created
  Buttons,         \* the button mask of each state
  MaxSeq,          \* bound on the caller's 64-bit sequence numbers
  QueueCap,        \* kMaximumQueuedFrames
  InputTimeout     \* ticks of input silence the watchdog tolerates

ASSUME LoopbackAssumption ==
  /\ Neutral \in States /\ Absent \notin States
  /\ DOMAIN Buttons = States
  /\ MaxSeq \in Nat /\ QueueCap \in Nat \ {0} /\ InputTimeout \in Nat \ {0}

VARIABLES
  \* the session, guarded by Session::mutex_; a number of -1 is "none yet"
  state, exit, armed, out, created, highest, latest, applied,
  \* the transport, guarded by its own mutex_
  queue, accepting, tStop,
  \* local variables: the frame SubmitState sends, the frame the worker
  \* delivers, and whether this shutdown tells the session
  sending, delivering, telling,
  \* monotonic time: since the last applied state, until the watched deadline
  age, left,
  \* program counters
  api, worker, watch,
  \* history: the button edges SendState accepted, those the session applied
  edgesIn, edgesOut, lastIn

sessionVars == <<state, exit, armed, out, created, highest, latest, applied>>
queueVars   == <<queue, accepting, tStop>>
localVars   == <<sending, delivering, telling>>
timeVars    == <<age, left>>
threadVars  == <<api, worker, watch>>
historyVars == <<edgesIn, edgesOut, lastIn>>
vars == <<sessionVars, queueVars, localVars, timeVars, threadVars, historyVars>>

Frames == [seq : 0..MaxSeq, state : States]
First  == [seq |-> 0, state |-> Neutral]
Ended  == {"Stopped", "Disconnected", "Faulted"}

ApiLabels == {"idle", "startTransport", "startWatchdog", "send", "wake",
              "failed", "failedNotify", "stopNotify", "shut", "shutNotify",
              "shutJoin", "shutClear", "callback", "callbackNotify",
              "joinWatchdog", "destroy"}
WorkerLabels == {"none", "check", "asleep", "deliver", "done", "joined"}
WatchLabels  == {"none", "decide", "waitArm", "waitDeadline", "timedOut",
                 "done", "joined"}

Init ==
  /\ state = "Created" /\ exit = FALSE /\ armed = FALSE /\ out = Neutral
  /\ created = FALSE /\ highest = -1 /\ latest = 0 /\ applied = 0
  /\ queue = <<>> /\ accepting = FALSE /\ tStop = FALSE
  /\ sending = First /\ delivering = First /\ telling = FALSE
  /\ age = 0 /\ left = 0
  /\ api = "idle" /\ worker = "none" /\ watch = "none"
  /\ edgesIn = <<>> /\ edgesOut = <<>> /\ lastIn = Neutral

-----------------------------------------------------------------------------
\* notify_all() on the watchdog's condition, notify_one() on the worker's.
WatchWokenNever(w) == w   \* mutant: the notification is forgotten
WatchWoken(w) == IF w \in {"waitArm", "waitDeadline"} THEN "decide" ELSE w

WorkerWokenNever(w) == w   \* mutant: the notification is forgotten
WorkerWoken(w) == IF w = "asleep" THEN "check" ELSE w

\* NeutralizeLocked(), without its count for the snapshot.
NeutralizeDisarmOnly == UNCHANGED out /\ armed' = FALSE   \* mutant: still pressed
Neutralize == out' = Neutral /\ armed' = FALSE

\* A sequence of masks with one more at its end, if that is a change.
WithEdge(edges, mask) ==
  IF edges # <<>> /\ edges[Len(edges)] = mask THEN edges ELSE Append(edges, mask)

-----------------------------------------------------------------------------
\* Session::Start.
StartSession ==
  /\ api = "idle" /\ state = "Created"
  /\ state' = "Running" /\ created' = TRUE /\ exit' = FALSE
  /\ api' = "startTransport"
  /\ UNCHANGED <<armed, out, highest, latest, applied, queueVars,
                 localVars, timeVars, worker, watch, historyVars>>

StartTransport ==
  /\ api = "startTransport"
  /\ queue' = <<>> /\ tStop' = FALSE /\ accepting' = TRUE
  /\ worker' = "check" /\ api' = "startWatchdog"
  /\ UNCHANGED <<sessionVars, localVars, timeVars, watch, historyVars>>

StartWatchdog ==
  /\ api = "startWatchdog"
  /\ watch' = "decide" /\ api' = "idle"
  /\ UNCHANGED <<sessionVars, queueVars, localVars, timeVars, worker, historyVars>>

\* Session::SubmitState with a number that is not stale.
Submit ==
  /\ api = "idle" /\ state = "Running"
  /\ \E n \in 0..MaxSeq, s \in States :
       n > highest /\ highest' = n /\ sending' = [seq |-> n, state |-> s]
  /\ api' = "send"
  /\ UNCHANGED <<state, exit, armed, out, created, latest, applied,
                 queueVars, delivering, telling, timeVars, worker, watch, historyVars>>

\* LoopbackTransportBackend::SendState.
MergesAlways(f) == queue # <<>>   \* mutant: the buttons are not compared
Merges(f) == queue # <<>> /\ Buttons[queue[Len(queue)].state] = Buttons[f.state]

FullOneLater == Len(queue) > QueueCap   \* mutant
Full == Len(queue) >= QueueCap

MergedKeepingOlder(f) == queue   \* mutant: the older axes are kept
Merged(f) == [queue EXCEPT ![Len(queue)] = f]

Send ==
  /\ api = "send"
  /\ IF accepting /\ (Merges(sending) \/ ~Full)
       THEN /\ queue' = IF Merges(sending) THEN Merged(sending)
                                           ELSE Append(queue, sending)
            /\ edgesIn' = WithEdge(edgesIn, Buttons[sending.state])
            /\ lastIn' = sending.state
            /\ api' = "wake"
       ELSE api' = "failed" /\ UNCHANGED <<queue, edgesIn, lastIn>>
  /\ UNCHANGED <<sessionVars, accepting, tStop, localVars, timeVars, worker,
                 watch, edgesOut>>

Wake ==
  /\ api = "wake"
  /\ worker' = WorkerWoken(worker) /\ api' = "idle"
  /\ UNCHANGED <<sessionVars, queueVars, localVars, timeVars, watch, historyVars>>

-----------------------------------------------------------------------------
\* Session::OnDisconnected, after a failed send and after a shutdown that
\* tells; both on the caller's thread.
OnDisconnected(from, to, notify) ==
  /\ api = from
  /\ IF state = "Running"
       THEN /\ state' = "Disconnected" /\ exit' = TRUE /\ Neutralize
            /\ api' = notify
       ELSE UNCHANGED <<state, exit, out, armed>> /\ api' = to
  /\ UNCHANGED <<created, highest, latest, applied, queueVars, localVars, timeVars,
                 worker, watch, historyVars>>

SendFailed == OnDisconnected("failed", "idle", "failedNotify")
Callback   == OnDisconnected("callback", "joinWatchdog", "callbackNotify")

\* watchdog_condition_.notify_all() after each way to end the session.
NotifyWatchdog ==
  /\ \/ api = "failedNotify"   /\ api' = "idle"
     \/ api = "callbackNotify" /\ api' = "joinWatchdog"
     \/ api = "stopNotify"     /\ api' = "shut"
  /\ watch' = WatchWoken(watch)
  /\ UNCHANGED <<sessionVars, queueVars, localVars, timeVars, worker, historyVars>>

\* Session::SimulateDisconnect and Session::Stop.  A session that has ended
\* by itself keeps its state, and Stop may be called on it again.
SimulateDisconnect ==
  /\ api = "idle" /\ state = "Running"
  /\ telling' = TRUE /\ api' = "shut"
  /\ UNCHANGED <<sessionVars, queueVars, sending, delivering, timeVars, worker,
                 watch, historyVars>>

StopBegin ==
  /\ api = "idle" /\ state # "Stopped"
  /\ state' = IF state \in {"Created", "Running"} THEN "Stopped" ELSE state
  /\ IF state = "Running" THEN Neutralize ELSE UNCHANGED <<out, armed>>
  /\ IF state = "Created"
     THEN UNCHANGED <<exit, api, telling>>
     ELSE exit' = TRUE /\ api' = "stopNotify" /\ telling' = FALSE
  /\ UNCHANGED <<created, highest, latest, applied, queueVars, sending, delivering,
                 timeVars, worker, watch, historyVars>>

\* LoopbackTransportBackend::Shutdown.
Shut ==
  /\ api = "shut"
  /\ IF ~accepting /\ worker \in {"none", "joined"}
       THEN api' = "joinWatchdog" /\ UNCHANGED queueVars
       ELSE /\ accepting' = FALSE /\ tStop' = TRUE /\ queue' = <<>>
            /\ api' = "shutNotify"
  /\ UNCHANGED <<sessionVars, localVars, timeVars, worker, watch, historyVars>>

ShutNotify ==
  /\ api = "shutNotify"
  /\ worker' = WorkerWoken(worker) /\ api' = "shutJoin"
  /\ UNCHANGED <<sessionVars, queueVars, localVars, timeVars, watch, historyVars>>

ShutJoin ==
  /\ api = "shutJoin" /\ worker = "done"
  /\ worker' = "joined" /\ api' = "shutClear"
  /\ UNCHANGED <<sessionVars, queueVars, localVars, timeVars, watch, historyVars>>

ShutClear ==
  /\ api = "shutClear"
  /\ tStop' = FALSE /\ api' = IF telling THEN "callback" ELSE "joinWatchdog"
  /\ UNCHANGED <<sessionVars, queue, accepting, localVars, timeVars, worker,
                 watch, historyVars>>

\* JoinWatchdog(), then Destroy() in Stop.
JoinWatchdog ==
  /\ api = "joinWatchdog" /\ watch \in {"none", "done", "joined"}
  /\ watch' = IF watch = "done" THEN "joined" ELSE watch
  /\ api' = IF telling THEN "idle" ELSE "destroy"
  /\ UNCHANGED <<sessionVars, queueVars, localVars, timeVars, worker, historyVars>>

Destroy ==
  /\ api = "destroy"
  /\ created' = FALSE /\ api' = "idle"
  /\ UNCHANGED <<state, exit, armed, out, highest, latest, applied,
                 queueVars, localVars, timeVars, worker, watch, historyVars>>

CallerStep == StartSession \/ Submit \/ SimulateDisconnect \/ StopBegin
ApiStep == \/ StartTransport \/ StartWatchdog \/ Send \/ Wake
           \/ SendFailed \/ Callback \/ NotifyWatchdog
           \/ Shut \/ ShutNotify \/ ShutJoin \/ ShutClear
           \/ JoinWatchdog \/ Destroy

-----------------------------------------------------------------------------
\* LoopbackTransportBackend::WorkerLoop.
Take ==
  /\ worker = "check"
  /\ \/ tStop /\ worker' = "done" /\ UNCHANGED <<queue, delivering>>
     \/ ~tStop /\ queue = <<>> /\ worker' = "asleep" /\ UNCHANGED <<queue, delivering>>
     \/ /\ ~tStop /\ queue # <<>>
        /\ delivering' = Head(queue) /\ queue' = Tail(queue)
        /\ worker' = "deliver"
  /\ UNCHANGED <<sessionVars, accepting, tStop, sending, telling, timeVars, api,
                 watch, historyVars>>

\* Session::OnStateFrame.
Refused(f) == state # "Running" \/ (applied # 0 /\ f.seq <= latest)

OnStateFrame ==
  /\ worker = "deliver"
  /\ worker' = "check"
  /\ IF Refused(delivering)
       THEN UNCHANGED <<state, exit, armed, out, latest, applied,
                        age, watch, edgesOut>>
       ELSE IF created
       THEN /\ out' = delivering.state /\ latest' = delivering.seq
            /\ applied' = applied + 1 /\ age' = 0 /\ armed' = TRUE
            /\ watch' = WatchWoken(watch)
            /\ edgesOut' = WithEdge(edgesOut, Buttons[delivering.state])
            /\ UNCHANGED <<state, exit>>
       ELSE /\ state' = "Faulted" /\ exit' = TRUE /\ Neutralize
            /\ watch' = WatchWoken(watch)
            /\ UNCHANGED <<latest, applied, age, edgesOut>>
  /\ UNCHANGED <<created, highest, queueVars, localVars, left, api, edgesIn, lastIn>>

WorkerStep == Take \/ OnStateFrame

-----------------------------------------------------------------------------
\* Session::WatchdogLoop.
Decide ==
  /\ watch = "decide"
  /\ \/ exit /\ watch' = "done" /\ UNCHANGED left
     \/ ~exit /\ ~armed /\ watch' = "waitArm" /\ UNCHANGED left
     \/ ~exit /\ armed /\ watch' = "waitDeadline" /\ left' = InputTimeout - age
  /\ UNCHANGED <<sessionVars, queueVars, localVars, age, api, worker, historyVars>>

\* wait_until gives up at the deadline; mutex_ is still to be reacquired.
DeadlinePasses ==
  /\ watch = "waitDeadline" /\ left = 0
  /\ watch' = "timedOut"
  /\ UNCHANGED <<sessionVars, queueVars, localVars, timeVars, api, worker, historyVars>>

TimesOut == ~exit /\ armed

TimedOut ==
  /\ watch = "timedOut"
  /\ IF TimesOut THEN Neutralize ELSE UNCHANGED <<out, armed>>
  /\ watch' = "decide"
  /\ UNCHANGED <<state, exit, created, highest, latest, applied, queueVars,
                 localVars, timeVars, api, worker, historyVars>>

SpuriousWakeUp ==
  /\ watch = "waitArm" \/ (watch = "waitDeadline" /\ left > 0)
  /\ watch' = WatchWoken(watch)
  /\ UNCHANGED <<sessionVars, queueVars, localVars, timeVars, api, worker, historyVars>>

WatchStep == Decide \/ DeadlinePasses \/ TimedOut

\* A tick of the steady clock; times are kept only as far as they matter.
Tick ==
  /\ age' = IF age < InputTimeout THEN age + 1 ELSE age
  /\ left' = IF left > 0 THEN left - 1 ELSE 0
  /\ UNCHANGED <<sessionVars, queueVars, localVars, threadVars, historyVars>>

Next == \/ CallerStep \/ ApiStep \/ WorkerStep
        \/ WatchStep \/ SpuriousWakeUp \/ Tick

Spec == Init /\ [][Next]_vars

\* The threads keep running and time passes; nobody has to call anything.
Fairness == /\ WF_vars(ApiStep) /\ WF_vars(WorkerStep)
            /\ WF_vars(WatchStep) /\ WF_vars(Tick)

FairSpec == Spec /\ Fairness

-----------------------------------------------------------------------------
FlagTypeOK ==
  /\ exit \in BOOLEAN /\ armed \in BOOLEAN /\ created \in BOOLEAN
  /\ accepting \in BOOLEAN /\ tStop \in BOOLEAN /\ telling \in BOOLEAN

ValueTypeOK ==
  /\ state \in {"Created", "Running"} \cup Ended /\ out \in States
  /\ highest \in -1..MaxSeq /\ latest \in 0..MaxSeq /\ applied \in Nat
  /\ age \in 0..InputTimeout /\ left \in 0..InputTimeout
  /\ api \in ApiLabels /\ worker \in WorkerLabels /\ watch \in WatchLabels

FrameTypeOK ==
  /\ queue \in Seq(Frames) /\ Len(queue) <= QueueCap
  /\ sending \in Frames /\ delivering \in Frames /\ lastIn \in States

TypeOK == FlagTypeOK /\ ValueTypeOK /\ FrameTypeOK

\* Frames with the same buttons are merged, so a sequence of masks can repeat
\* the one before it only with its first element.
Masks(q) == [i \in 1..Len(q) |-> Buttons[q[i].state]]
Followed(edges, masks) ==
  IF masks = <<>> THEN edges ELSE WithEdge(edges, Head(masks)) \o Tail(masks)

\* The edges the session has applied once it has the frame being delivered.
Delivered == IF worker = "deliver" THEN WithEdge(edgesOut, Buttons[delivering.state])
                                   ELSE edgesOut

(* No press or release is lost or invented: while the session runs, the      *)
(* edges the session has applied, continued by the changes still pending,   *)
(* are the edges SendState accepted, however the queue merged the frames.   *)
EdgesKept ==
  state = "Running" /\ accepting =>
    /\ \A i \in 1..Len(queue) - 1 : Masks(queue)[i] # Masks(queue)[i + 1]
    /\ edgesIn = Followed(Delivered, Masks(queue))

(* Merging keeps the newest axes: when nothing is pending the output is the  *)
(* last state SendState accepted, or neutral after a period of silence.     *)
NothingPending == worker # "deliver" /\ queue = <<>>
SettlesOnLast ==
  state = "Running" /\ accepting /\ NothingPending =>
    out = IF armed THEN lastIn ELSE Neutral

(* Stop and SimulateDisconnect return: no join waits for a thread that waits *)
(* for the caller.                                                          *)
CallsReturn == api # "idle" ~> api = "idle"

(* What SubmitState accepted is applied, or the session ends.                *)
AcceptedIsApplied == queue # <<>> ~> queue = <<>> /\ worker # "deliver"

(* The output implements PadOutput, like the LAN server's pad.               *)
Mode == CASE state = "Created" -> "unplugged"
          [] state = "Running" -> "live"
          [] OTHER -> "over"
Output == INSTANCE PadOutput
            WITH mode <- Mode, out <- IF created THEN out ELSE Absent,
                 Unknown <- "unknown"
ImplementsPadOutput == Output!PadSpec
=============================================================================
