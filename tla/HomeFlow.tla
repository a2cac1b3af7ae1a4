------------------------------ MODULE HomeFlow ------------------------------
(***************************************************************************)
(* The application on one machine: the view model behind the pages, the     *)
(* service that owns the native objects through the C ABI, those objects as *)
(* the user sees them (running, or ended by themselves), and the pairing    *)
(* code.  All of it runs on the UI's thread, an event at a time; native     *)
(* sessions end when they like, and the process may die in any event.       *)
(***************************************************************************)
EXTENDS PairingKeyStore

CONSTANTS
  Storages,      \* the kinds of storage the machine may have
  None           \* no code

ASSUME HomeAssumption == Storages \subseteq StorageKinds /\ None \notin Keys

\* What can be started: the client page offers the first three.
ClientKinds == {"capture", "bridge", "client"}
Kinds       == ClientKinds \cup {"server"}

\* Both LAN roles share one timer and one status.
Slots   == {"capture", "bridge", "lan"}
Slot(k) == IF k \in {"client", "server"} THEN "lan" ELSE k

VARIABLES
  up, role,      \* the process runs; the page
  active,        \* view model: the kinds it takes for started (ids and flag)
  timers,        \* view model: the slots that are polled
  status,        \* view model: the state it shows of each slot
  shown,         \* view model: the pairing code it shows
  handles,       \* service: the state of the native object of each kind
  expected,      \* the code the server session was started with
  file, storage, \* the pairing code's file, and the storage it is on
  \* history: the code the user was first shown or last asked for, and whether
  \* that was after the server was started
  promised, regenerated

viewVars == <<active, timers, status>>
keyVars  == <<shown, expected, file, promised, regenerated>>
vars == <<up, role, viewVars, handles, keyVars, storage>>

Nothing == [k \in Kinds |-> "none"]
Blank   == [s \in Slots |-> "none"]

Init ==
  /\ up = FALSE /\ role = "none"
  /\ active = {} /\ timers = {} /\ status = Blank /\ shown = None
  /\ handles = Nothing /\ expected = None
  /\ file = Missing /\ storage \in Storages
  /\ promised = None /\ regenerated = FALSE

-----------------------------------------------------------------------------
(* The process.                                                            *)

\* initialize() shows the code, or fails because the native library does.
Launch ==
  /\ ~up /\ up' = TRUE
  /\ \/ \E g \in Gets(file, storage) :
          /\ shown' = g.key /\ file' = g.file
          /\ promised' = IF promised = None THEN g.key ELSE promised
     \/ UNCHANGED <<shown, file, promised>>
  /\ UNCHANGED <<role, viewVars, handles, expected, regenerated, storage>>

Gone ==
  /\ up' = FALSE /\ role' = "none"
  /\ active' = {} /\ timers' = {} /\ status' = Blank /\ shown' = None
  /\ handles' = Nothing /\ expected' = None /\ regenerated' = FALSE

\* dispose() closes what the service holds; a crash lets the system do it.
Exit ==
  /\ up /\ Gone
  /\ UNCHANGED <<file, storage, promised>>

\* The process dies inside Persist: in Regenerate, or in the Get of a server's
\* start that has found no code.
CrashInPersist ==
  /\ role = "server" /\ ("server" \in active \/ ~Readable(file))
  /\ Gone
  /\ file' = Torn(file, storage) /\ promised' = None
  /\ UNCHANGED storage

-----------------------------------------------------------------------------
(* The view model and the service.                                         *)

Closed(kinds) == [k \in Kinds |-> IF k \in kinds THEN "none" ELSE handles[k]]

\* Stopping kinds: for the LAN roles only those the view model takes for
\* started.
Stoppable(kinds) == kinds \cap ({"capture", "bridge"} \cup active)
ViewStops(kinds) ==
  LET gone == {Slot(k) : k \in Stoppable(kinds)}
  IN  /\ active' = active \ kinds
      /\ timers' = timers \ gone
      /\ status' = [s \in Slots |-> IF s \in gone THEN "none" ELSE status[s]]
      /\ handles' = Closed(Stoppable(kinds))

\* What the service closes before it creates an object of a kind, and what the
\* view model takes for stopped once it is started.
ServiceCloses(k) == IF k \in {"client", "server"} THEN Kinds ELSE ClientKinds
ViewForgets(k) ==
  CASE k = "client" -> Kinds
    [] k = "server" -> {"client", "server"}
    [] OTHER        -> ClientKinds

\* A new LAN session replaces the timer of the one before.
NotPolled(k) == timers \ {Slot(k)}   \* mutant: no timer for the new session
Polled(k) == timers \cup {Slot(k)}

Started(k) ==
  /\ handles' = [Closed(ServiceCloses(k)) EXCEPT ![k] = "running"]
  /\ active' = (active \ ViewForgets(k)) \cup {k}
  /\ timers' = Polled(k)
  /\ status' = [status EXCEPT ![Slot(k)] = "running"]

\* create() or start() fails: the new object is closed, and so is what the
\* service closed before.
NotStarted(k) ==
  /\ handles' = Closed(ServiceCloses(k))
  /\ active' = active \ {k}
  /\ status' = [status EXCEPT ![Slot(k)] = "none"]
  /\ UNCHANGED timers

SelectRole(r) ==
  /\ up /\ role = "none" /\ role' = r
  /\ UNCHANGED <<up, viewVars, handles, keyVars, storage>>

\* "Switch role": everything is stopped.
AllButServer == ClientKinds   \* mutant: stopLanServer is not called
LeavingStops == Kinds
ClearRole ==
  /\ up /\ role # "none" /\ role' = "none"
  /\ ViewStops(LeavingStops)
  /\ expected' = IF "server" \in active THEN None ELSE expected
  /\ regenerated' = FALSE
  /\ UNCHANGED <<up, shown, file, storage, promised>>

\* The client page starts one thing at a time; its buttons know nothing of
\* the server.
StartOnClient(k) ==
  /\ role = "client" /\ k \in ClientKinds /\ active \cap ClientKinds = {}
  /\ Started(k) \/ NotStarted(k)
  /\ UNCHANGED <<up, role, keyVars, storage>>

\* The session takes the code when it starts; the view model then asks for the
\* code again to show it.
StartServer ==
  /\ role = "server" /\ "server" \notin active
  /\ \/ /\ Started("server")
        /\ \E g \in Gets(file, storage) : \E again \in Gets(g.file, storage) :
             /\ expected' = g.key /\ shown' = again.key /\ file' = again.file
             /\ promised' = IF promised = None THEN again.key ELSE promised
        /\ regenerated' = FALSE
     \/ NotStarted("server") /\ UNCHANGED keyVars
  /\ UNCHANGED <<up, role, storage>>

Stop(k) ==
  /\ up /\ k \in active
  /\ ViewStops({k})
  /\ expected' = IF k = "server" THEN None ELSE expected
  /\ regenerated' = (regenerated /\ k # "server")
  /\ UNCHANGED <<up, role, shown, file, storage, promised>>

\* Only a running server page has the button; the session is not told.
Regenerate ==
  /\ role = "server" /\ "server" \in active
  /\ \E g \in Regenerates(file, storage) :
       shown' = g.key /\ promised' = g.key /\ file' = g.file
  /\ regenerated' = TRUE
  /\ UNCHANGED <<up, role, viewVars, handles, expected, storage>>

-----------------------------------------------------------------------------
(* Native sessions end by themselves, and the timers find out.              *)

SessionEnds(k) ==
  /\ handles[k] = "running"
  /\ handles' = [handles EXCEPT ![k] = "ended"]
  /\ UNCHANGED <<up, role, viewVars, keyVars, storage>>

\* The object a timer asks for; a snapshot without an object is an error.
PolledKind(s) == IF s # "lan" THEN s
                 ELSE IF "client" \in active THEN "client" ELSE "server"
Poll(s) ==
  /\ s \in timers
  /\ LET state == handles[PolledKind(s)]
     IN  /\ status' = [status EXCEPT ![s] = IF state = "none" THEN @ ELSE state]
         /\ timers' = IF state = "running" THEN timers ELSE timers \ {s}
  /\ UNCHANGED <<up, role, active, handles, keyVars, storage>>

Next ==
  \/ Launch \/ Exit \/ CrashInPersist
  \/ \E r \in {"client", "server"} : SelectRole(r)
  \/ ClearRole
  \/ \E k \in Kinds : StartOnClient(k) \/ Stop(k) \/ SessionEnds(k)
  \/ StartServer \/ Regenerate
  \/ \E s \in Slots : Poll(s)

Spec == Init /\ [][Next]_vars

\* The event loop runs: a periodic timer fires until it is cancelled.
FairSpec == Spec /\ \A s \in Slots : WF_vars(Poll(s))

-----------------------------------------------------------------------------
\* The type of every variable.
TypeOK ==
  /\ up \in BOOLEAN /\ role \in {"none", "client", "server"}
  /\ active \subseteq Kinds /\ timers \subseteq Slots
  /\ status \in [Slots -> {"none", "running", "ended"}]
  /\ handles \in [Kinds -> {"none", "running", "ended"}]
  /\ {shown, expected, promised} \subseteq Keys \cup {None}
  /\ file \in Files /\ storage \in Storages
  /\ regenerated \in BOOLEAN

(* What the view model takes for started is what the service owns, through  *)
(* failed starts, sessions that end by themselves and changes of role: one  *)
(* native object at most has the gamepad and the ports, a page's stop       *)
(* button reaches it, and no timer asks for an object that is gone.         *)
ViewMatchesHandles ==
  /\ \A k \in Kinds : k \in active <=> handles[k] # "none"
  /\ \A k, l \in active : k = l
  /\ \A s \in timers : PolledKind(s) \in active
  /\ \A k \in active : role = IF k = "server" THEN "server" ELSE "client"

(* A session that ends by itself is shown as ended, unless it is stopped    *)
(* first.                                                                  *)
EndIsShown ==
  \A k \in Kinds : handles[k] = "ended" ~> status[Slot(k)] = "ended" \/ handles[k] = "none"

(* On a storage that works, the code the user was shown stays the code,     *)
(* over stops, crashes and restarts, and a server listens for it, until the *)
(* user asks for another.                                                  *)
CodeIsListenedFor ==
  storage = "ok" =>
    /\ promised # None => file = promised
    /\ shown # None => shown = promised
    /\ expected # None /\ ~regenerated => expected = promised

-----------------------------------------------------------------------------
\* What the documentation says and the code does not do.

(* A regenerated code takes the old one's place at once: a server accepts   *)
(* the code that is shown.                                                 *)
ShownCodeConnects == expected # None => expected = shown
=============================================================================
