--------------------------- MODULE HomeFlowProofs ---------------------------
(***************************************************************************)
(* HomeFlow for any codes and any storages: its types, that the view model  *)
(* and the service agree on what is started, and that the promised code is  *)
(* the one a server listens for.                                           *)
(***************************************************************************)
EXTENDS HomeFlow, TLAPS

\* Only a started server has a code.
ExpectedIsOwned == expected # None => "server" \in active

HomeInv == TypeOK /\ ViewMatchesHandles /\ CodeIsListenedFor /\ ExpectedIsOwned

-----------------------------------------------------------------------------
(* The pairing code's file.                                                *)

\* Whatever is asked for, a code comes back and the file stays a file.
LEMMA CallsAnswer ==
  ASSUME NEW f \in Files, NEW st \in Storages
  PROVE  /\ \A g \in Gets(f, st) : g.key \in Keys /\ g.file \in Files
         /\ \A g \in Regenerates(f, st) : g.key \in Keys /\ g.file \in Files
<1>1. \A k \in Keys : Persisted(f, k, st) \in Files
  BY HomeAssumption DEF Persisted, Files, StorageKinds
<1>2. \A g \in Regenerates(f, st) : g.key \in Keys /\ g.file \in Files
  BY <1>1 DEF Regenerates
<1> QED BY <1>2 DEF Gets, Readable, Files

\* On a storage that works the file holds the code that came back, and a code
\* in the file comes back.
LEMMA CallsAgree ==
  ASSUME NEW f \in Files
  PROVE  /\ \A g \in Regenerates(f, "ok") : g.file = g.key
         /\ \A g \in Gets(f, "ok") : g.file = g.key /\ (f \in Keys => g.key = f)
<1>1. \A g \in Regenerates(f, "ok") : g.file = g.key
  BY DEF Regenerates, Persisted
<1> QED BY <1>1 DEF Gets, Readable

-----------------------------------------------------------------------------
(* Types.                                                                  *)

LEMMA StoppingKeepsTypes ==
  ASSUME TypeOK, NEW kinds, ViewStops(kinds)
  PROVE  /\ active' \subseteq Kinds /\ timers' \subseteq Slots
         /\ status' \in [Slots -> {"none", "running", "ended"}]
         /\ handles' \in [Kinds -> {"none", "running", "ended"}]
  BY DEF TypeOK, ViewStops, Closed

LEMMA StartingKeepsTypes ==
  ASSUME TypeOK, NEW k \in Kinds, Started(k) \/ NotStarted(k)
  PROVE  /\ active' \subseteq Kinds /\ timers' \subseteq Slots
         /\ status' \in [Slots -> {"none", "running", "ended"}]
         /\ handles' \in [Kinds -> {"none", "running", "ended"}]
<1>1. Slot(k) \in Slots
  BY DEF Slot, Slots, Kinds, ClientKinds
<1>2. Closed(ServiceCloses(k)) \in [Kinds -> {"none", "running", "ended"}]
  BY DEF TypeOK, Closed
<1> QED BY <1>1, <1>2 DEF TypeOK, Started, NotStarted, Polled

LEMMA TypesInit == Init => TypeOK
  BY DEF Init, TypeOK, Blank, Nothing, Files

LEMMA TypesNext == TypeOK /\ [Next]_vars => TypeOK'
<1> SUFFICES ASSUME TypeOK, [Next]_vars PROVE TypeOK'
  OBVIOUS
<1> USE DEF keyVars, viewVars
<1>1. CASE Launch
  BY <1>1, CallsAnswer DEF Launch, TypeOK
<1>2. CASE Exit \/ CrashInPersist
  <2>1. Torn(file, storage) \in Files
    BY DEF Torn, TypeOK, Files
  <2>2. /\ Nothing \in [Kinds -> {"none", "running", "ended"}]
        /\ Blank \in [Slots -> {"none", "running", "ended"}]
    BY DEF Nothing, Blank
  <2>3. /\ up' = FALSE /\ role' = "none" /\ active' = {} /\ timers' = {}
        /\ status' = Blank /\ handles' = Nothing /\ regenerated' = FALSE
        /\ shown' = None /\ expected' = None /\ storage' = storage
    BY <1>2 DEF Exit, CrashInPersist, Gone
  <2>4. file' \in Files /\ promised' \in Keys \cup {None}
    BY <1>2, <2>1 DEF Exit, CrashInPersist, TypeOK
  <2> QED BY <2>2, <2>3, <2>4 DEF TypeOK
<1>3. ASSUME NEW r \in {"client", "server"}, SelectRole(r)
      PROVE  TypeOK'
  BY <1>3 DEF SelectRole, TypeOK
<1>4. CASE ClearRole
  BY <1>4, StoppingKeepsTypes DEF ClearRole, TypeOK
<1>5. ASSUME NEW k \in Kinds, StartOnClient(k)
      PROVE  TypeOK'
  BY <1>5, StartingKeepsTypes DEF StartOnClient, TypeOK
<1>6. ASSUME NEW k \in Kinds, Stop(k)
      PROVE  TypeOK'
  BY <1>6, StoppingKeepsTypes DEF Stop, TypeOK
<1>7. ASSUME NEW k \in Kinds, SessionEnds(k)
      PROVE  TypeOK'
  BY <1>7 DEF SessionEnds, TypeOK
<1>8. CASE StartServer
  <2>1. "server" \in Kinds
    BY DEF Kinds
  <2>2. CASE UNCHANGED keyVars
    BY <1>8, <2>1, <2>2, StartingKeepsTypes DEF StartServer, TypeOK
  <2>3. CASE /\ Started("server") /\ regenerated' = FALSE
             /\ \E g \in Gets(file, storage) : \E again \in Gets(g.file, storage) :
                  /\ expected' = g.key /\ shown' = again.key /\ file' = again.file
                  /\ promised' = IF promised = None THEN again.key ELSE promised
    <3>1. /\ {shown', expected', promised'} \subseteq Keys \cup {None}
          /\ file' \in Files
      BY <2>3, CallsAnswer DEF TypeOK
    <3> QED BY <1>8, <2>1, <2>3, <3>1, StartingKeepsTypes DEF StartServer, TypeOK
  <2> QED BY <1>8, <2>2, <2>3 DEF StartServer
<1>9. CASE Regenerate
  BY <1>9, CallsAnswer DEF Regenerate, TypeOK
<1>10. ASSUME NEW s \in Slots, Poll(s)
       PROVE  TypeOK'
  <2>1. PolledKind(s) \in Kinds
    BY DEF PolledKind, Slots, Kinds, ClientKinds
  <2> QED BY <1>10, <2>1 DEF Poll, TypeOK
<1>11. CASE UNCHANGED vars
  BY <1>11 DEF vars, TypeOK
<1> QED BY <1>1, <1>2, <1>3, <1>4, <1>5, <1>6, <1>7, <1>8, <1>9, <1>10, <1>11 DEF Next

\* Every variable keeps its type.
THEOREM HomeTypeCorrect == Spec => []TypeOK
  BY TypesInit, TypesNext, PTL DEF Spec

-----------------------------------------------------------------------------
(* The view model and the handles.                                         *)

\* One kind is started at most, and only its slot is polled.
LEMMA OneStarted ==
  ASSUME TypeOK, ViewMatchesHandles
  PROVE  /\ active = {} => timers = {} /\ \A k \in Kinds : handles[k] = "none"
         /\ \A k \in active : /\ active = {k} /\ timers \subseteq {Slot(k)}
                              /\ \A l \in Kinds : l # k => handles[l] = "none"
<1>1. active = {} => timers = {} /\ \A k \in Kinds : handles[k] = "none"
  BY DEF ViewMatchesHandles, TypeOK
<1>2. ASSUME NEW k \in active
      PROVE  /\ active = {k}
             /\ \A l \in Kinds : l # k => handles[l] = "none"
  BY DEF ViewMatchesHandles
<1>3. ASSUME NEW k \in active, NEW s \in timers
      PROVE  s = Slot(k)
  <2>1. PolledKind(s) = k /\ s \in {"capture", "bridge", "lan"}
    BY <1>2 DEF ViewMatchesHandles, TypeOK, Slots
  <2> QED BY <2>1 DEF PolledKind, Slot
<1> QED BY <1>1, <1>2, <1>3

\* Nothing is started: whatever the page, view model and service agree.
LEMMA NothingAgrees ==
  ASSUME active' = {}, timers' = {}, \A k \in Kinds : handles'[k] = "none"
  PROVE  ViewMatchesHandles'
  BY DEF ViewMatchesHandles

\* Stopping all that is started leaves nothing.
LEMMA StoppingAgrees ==
  ASSUME TypeOK, ViewMatchesHandles, NEW kinds, active \subseteq kinds, kinds \subseteq Kinds,
         ViewStops(kinds)
  PROVE  ViewMatchesHandles'
<1>1. active' = {}
  BY DEF ViewStops
<1>2. active \subseteq Stoppable(kinds)
  BY DEF Stoppable
<1>3. timers' = {}
  <2>1. \A k \in active : Slot(k) \in {Slot(l) : l \in Stoppable(kinds)}
    BY <1>2
  <2>2. timers' = timers \ {Slot(k) : k \in Stoppable(kinds)}
    BY DEF ViewStops
  <2>3. CASE active = {}
    BY <2>2, <2>3, OneStarted
  <2>4. CASE active # {}
    <3>1. PICK k \in active : TRUE
      BY <2>4
    <3> QED BY <2>1, <2>2, <3>1, OneStarted
  <2> QED BY <2>3, <2>4
<1>4. \A k \in Kinds : handles'[k] = "none"
  <2>1. \A k \in Kinds : handles'[k] = IF k \in Stoppable(kinds) THEN "none" ELSE handles[k]
    BY DEF ViewStops, Closed
  <2>2. \A k \in Kinds : k \notin Stoppable(kinds) => handles[k] = "none"
    BY <1>2 DEF ViewMatchesHandles
  <2> QED BY <2>1, <2>2
<1> QED BY <1>1, <1>3, <1>4, NothingAgrees

\* Starting one kind when nothing is started: it alone is, or nothing is.
LEMMA StartingAgrees ==
  ASSUME TypeOK, ViewMatchesHandles, active = {}, NEW k \in Kinds,
         Started(k) \/ NotStarted(k),
         role' = IF k = "server" THEN "server" ELSE "client"
  PROVE  ViewMatchesHandles'
<1>1. timers = {} /\ \A l \in Kinds : handles[l] = "none"
  BY OneStarted
<1>2. CASE NotStarted(k)
  BY <1>1, <1>2, NothingAgrees DEF NotStarted, Closed
<1>3. CASE Started(k)
  <2>1. active' = {k} /\ timers' = {Slot(k)}
    BY <1>1, <1>3 DEF Started, Polled
  <2>2. \A l \in Kinds : handles'[l] = IF l = k THEN "running" ELSE "none"
    BY <1>1, <1>3 DEF Started, Closed
  <2>3. PolledKind(Slot(k))' = k
    BY <2>1 DEF PolledKind, Slot, Kinds, ClientKinds
  <2> QED BY <2>1, <2>2, <2>3 DEF ViewMatchesHandles
<1> QED BY <1>2, <1>3

LEMMA HandlesInit == Init => ViewMatchesHandles
  BY DEF Init, ViewMatchesHandles, Nothing

LEMMA HandlesNext == TypeOK /\ ViewMatchesHandles /\ [Next]_vars => ViewMatchesHandles'
<1> SUFFICES ASSUME TypeOK, ViewMatchesHandles, [Next]_vars PROVE ViewMatchesHandles'
  OBVIOUS
<1>1. CASE \/ Launch \/ Regenerate \/ UNCHANGED vars
  BY <1>1 DEF Launch, Regenerate, vars, viewVars, ViewMatchesHandles, PolledKind
<1>2. CASE Exit \/ CrashInPersist
  BY <1>2, NothingAgrees DEF Exit, CrashInPersist, Gone, Nothing
<1>3. ASSUME NEW r \in {"client", "server"}, SelectRole(r)
      PROVE  ViewMatchesHandles'
  <2>1. active = {}
    BY <1>3 DEF SelectRole, ViewMatchesHandles
  <2> QED BY <1>3, <2>1, OneStarted, NothingAgrees DEF SelectRole, viewVars
<1>4. CASE ClearRole
  BY <1>4, StoppingAgrees DEF ClearRole, LeavingStops, TypeOK
<1>5. ASSUME NEW k \in Kinds, StartOnClient(k)
      PROVE  ViewMatchesHandles'
  <2>1. active = {}
    BY <1>5 DEF StartOnClient, ViewMatchesHandles, TypeOK, Kinds
  <2>2. k # "server"
    BY <1>5 DEF StartOnClient, ClientKinds
  <2> QED BY <1>5, <2>1, <2>2, StartingAgrees DEF StartOnClient
<1>6. ASSUME NEW k \in Kinds, Stop(k)
      PROVE  ViewMatchesHandles'
  <2>1. active = {k}
    BY <1>6, OneStarted DEF Stop
  <2> QED BY <1>6, <2>1, StoppingAgrees DEF Stop
<1>7. ASSUME NEW k \in Kinds, SessionEnds(k)
      PROVE  ViewMatchesHandles'
  BY <1>7 DEF SessionEnds, viewVars, ViewMatchesHandles, PolledKind, TypeOK
<1>8. CASE StartServer
  <2>1. active = {}
    BY <1>8 DEF StartServer, ViewMatchesHandles, TypeOK
  <2>2. "server" \in Kinds /\ role' = "server"
    BY <1>8 DEF StartServer, Kinds
  <2> QED BY <1>8, <2>1, <2>2, StartingAgrees DEF StartServer
<1>9. ASSUME NEW s \in Slots, Poll(s)
      PROVE  ViewMatchesHandles'
  BY <1>9 DEF Poll, ViewMatchesHandles, PolledKind
<1> QED BY <1>1, <1>2, <1>3, <1>4, <1>5, <1>6, <1>7, <1>8, <1>9 DEF Next

\* ViewMatchesHandles: after any failed start, ended session or change of
\* role, what the view model takes for started is what the service owns.
THEOREM ViewAgreesWithService == Spec => []ViewMatchesHandles
  BY TypesInit, TypesNext, HandlesInit, HandlesNext, PTL DEF Spec

-----------------------------------------------------------------------------
(* The pairing code.                                                       *)

LEMMA OwnedNext ==
  TypeOK /\ ViewMatchesHandles /\ ExpectedIsOwned /\ [Next]_vars => ExpectedIsOwned'
<1> SUFFICES ASSUME TypeOK, ViewMatchesHandles, ExpectedIsOwned, [Next]_vars
             PROVE  ExpectedIsOwned'
  OBVIOUS
<1> USE DEF keyVars, viewVars
<1>1. CASE \/ Launch \/ Regenerate \/ Exit \/ CrashInPersist \/ ClearRole \/ UNCHANGED vars
           \/ (\E r \in {"client", "server"} : SelectRole(r))
           \/ (\E k \in Kinds : Stop(k) \/ SessionEnds(k))
           \/ (\E s \in Slots : Poll(s))
  BY <1>1 DEF Launch, Regenerate, Exit, CrashInPersist, Gone, ClearRole, vars, SelectRole,
              Stop, ViewStops, SessionEnds, Poll, ExpectedIsOwned
<1>2. ASSUME NEW k \in Kinds, StartOnClient(k)
      PROVE  ExpectedIsOwned'
  <2>1. "server" \notin active
    BY <1>2 DEF StartOnClient, ViewMatchesHandles
  <2> QED BY <1>2, <2>1 DEF StartOnClient, ExpectedIsOwned
<1>3. CASE StartServer
  BY <1>3 DEF StartServer, Started, ExpectedIsOwned
<1> QED BY <1>1, <1>2, <1>3 DEF Next

LEMMA CodeNext == HomeInv /\ [Next]_vars => CodeIsListenedFor'
<1> SUFFICES ASSUME HomeInv, [Next]_vars, storage' = "ok" PROVE CodeIsListenedFor'
  BY DEF CodeIsListenedFor
<1> USE DEF keyVars, viewVars
<1>0. storage = "ok"
  BY DEF Next, vars, Launch, Regenerate, Exit, CrashInPersist, ClearRole, SelectRole, Stop,
         SessionEnds, Poll, StartOnClient, StartServer
<1>1. /\ promised # None => file = promised /\ promised \in Keys
      /\ shown # None => shown = promised
      /\ expected # None /\ ~regenerated => expected = promised
      /\ expected # None => "server" \in active
      /\ file \in Files
      /\ None \notin Keys
  BY <1>0, HomeAssumption DEF HomeInv, CodeIsListenedFor, TypeOK, ExpectedIsOwned
<1>2. \A f \in Files : \A g \in Gets(f, "ok") :
        g.key \in Keys /\ g.file = g.key /\ g.file \in Files /\ (f \in Keys => g.key = f)
  <2>1. "ok" \in Storages
    BY <1>0 DEF HomeInv, TypeOK
  <2> QED BY <2>1, CallsAnswer, CallsAgree
<1>3. \A g \in Regenerates(file, "ok") : g.key \in Keys /\ g.file = g.key
  <2>1. "ok" \in Storages
    BY <1>0 DEF HomeInv, TypeOK
  <2>2. \A g \in Regenerates(file, "ok") : g.key \in Keys
    BY <1>1, <2>1, CallsAnswer
  <2>3. \A g \in Regenerates(file, "ok") : g.file = g.key
    BY <1>1, CallsAgree
  <2> QED BY <2>2, <2>3
<1>4. CASE Launch
  <2>1. CASE UNCHANGED <<shown, file, promised>>
    BY <1>1, <1>4, <2>1 DEF Launch, CodeIsListenedFor
  <2>2. ASSUME NEW g \in Gets(file, storage), shown' = g.key, file' = g.file,
               promised' = IF promised = None THEN g.key ELSE promised
        PROVE  CodeIsListenedFor'
    <3>1. g.key \in Keys /\ g.file = g.key /\ (file \in Keys => g.key = file)
      BY <1>0, <1>1, <1>2
    <3>2. file' = promised' /\ shown' = promised' /\ promised' \in Keys
      BY <1>1, <2>2, <3>1
    <3>3. expected' # None /\ ~regenerated' => expected' = promised'
      BY <1>1, <1>4, <2>2 DEF Launch
    <3> QED BY <3>2, <3>3 DEF CodeIsListenedFor
  <2> QED BY <1>4, <2>1, <2>2 DEF Launch
<1>5. CASE \/ Exit \/ CrashInPersist \/ UNCHANGED vars
           \/ (\E r \in {"client", "server"} : SelectRole(r))
           \/ (\E k \in Kinds : StartOnClient(k) \/ SessionEnds(k))
           \/ (\E s \in Slots : Poll(s))
  BY <1>1, <1>5 DEF Exit, CrashInPersist, Gone, vars, SelectRole, StartOnClient, SessionEnds,
                    Poll, CodeIsListenedFor
<1>6. CASE ClearRole
  <2>1. expected' = None
    BY <1>1, <1>6 DEF ClearRole
  <2> QED BY <1>1, <1>6, <2>1 DEF ClearRole, CodeIsListenedFor
<1>7. ASSUME NEW k \in Kinds, Stop(k)
      PROVE  CodeIsListenedFor'
  BY <1>1, <1>7 DEF Stop, CodeIsListenedFor
<1>8. CASE StartServer
  <2>1. CASE UNCHANGED keyVars
    BY <1>1, <2>1 DEF CodeIsListenedFor
  <2>2. ASSUME NEW g \in Gets(file, storage), NEW again \in Gets(g.file, storage),
               expected' = g.key, shown' = again.key, file' = again.file,
               promised' = IF promised = None THEN again.key ELSE promised
        PROVE  CodeIsListenedFor'
    <3>1. /\ g.key \in Keys /\ g.file = g.key /\ g.file \in Files
          /\ file \in Keys => g.key = file
      BY <1>0, <1>1, <1>2
    <3>2. again.key = g.key /\ again.file = g.key
      BY <1>0, <1>2, <3>1
    <3>3. file' = promised' /\ shown' = promised' /\ expected' = promised'
      BY <1>1, <2>2, <3>1, <3>2
    <3> QED BY <3>3 DEF CodeIsListenedFor
  <2> QED BY <1>8, <2>1, <2>2 DEF StartServer
<1>9. CASE Regenerate
  BY <1>0, <1>3, <1>9 DEF Regenerate, CodeIsListenedFor
<1> QED BY <1>4, <1>5, <1>6, <1>7, <1>8, <1>9 DEF Next

\* CodeIsListenedFor: on a storage that works, over stops, crashes and
\* restarts, a server listens for the code the user was shown until the user
\* asks for another.
THEOREM PromisedCodeHolds == Spec => []CodeIsListenedFor
<1>1. Init => HomeInv
  BY TypesInit, HandlesInit, HomeAssumption DEF HomeInv, Init, CodeIsListenedFor, ExpectedIsOwned
<1>2. HomeInv /\ [Next]_vars => HomeInv'
  BY TypesNext, HandlesNext, OwnedNext, CodeNext DEF HomeInv
<1>3. HomeInv => CodeIsListenedFor
  BY DEF HomeInv
<1> QED BY <1>1, <1>2, <1>3, PTL DEF Spec
=============================================================================
