---------------------------- MODULE LanClientMC -----------------------------
(***************************************************************************)
(* LanClient on a small instance: a held and a neutral state, two samples   *)
(* and, with the number after them, the final neutral datagram of Stop.     *)
(***************************************************************************)
EXTENDS LanClient

MCStates == {"neutral", "held"}
MCNeutral == "neutral"
=============================================================================
