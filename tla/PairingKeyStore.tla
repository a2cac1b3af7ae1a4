-------------------------- MODULE PairingKeyStore --------------------------
(***************************************************************************)
(* PairingKeyStore: the pairing code kept in a file.  The calls come from   *)
(* the UI's thread and hold a mutex, so each is one step; what they leave    *)
(* on the disk depends on the storage, and on whether the process survives  *)
(* the call.                                                               *)
(***************************************************************************)
CONSTANTS
  Keys,          \* the codes 0000 .. 9999
  Missing,       \* there is no file
  Empty          \* the file holds no code

ASSUME PairingAssumption == Missing \notin Keys /\ Empty \notin Keys

Files == Keys \cup {Missing, Empty}

\* "ok"; "full": the file is truncated and the write fails; "denied": the
\* file cannot be opened.  Persist reports neither failure.
StorageKinds == {"ok", "full", "denied"}

\* ReadPersisted.
AnyFile(f)  == f # Missing   \* mutant: the content is not checked
Readable(f) == f \in Keys

\* Persist, and what it leaves if the process dies after the truncation.
NeverSaved(f, k, storage) == f   \* mutant: nothing is written
Persisted(f, k, storage) ==
  CASE storage = "ok"     -> k
    [] storage = "full"   -> Empty
    [] storage = "denied" -> f
Torn(f, storage) == IF storage = "denied" THEN f ELSE Empty

\* What Regenerate and Get may return, with the file they leave.  Generate may
\* return any code, the old one included.
Regenerates(f, storage) == {[key |-> k, file |-> Persisted(f, k, storage)] : k \in Keys}
Gets(f, storage) ==
  IF Readable(f) THEN {[key |-> f, file |-> f]} ELSE Regenerates(f, storage)
=============================================================================
