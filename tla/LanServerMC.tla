---------------------------- MODULE LanServerMC ----------------------------
(***************************************************************************)
(* LanServer on a small instance: two datagrams, a state with a button held *)
(* and the neutral one, and timeouts of two and three ticks, so that input  *)
(* can be fresh, old and just timed out, and a heartbeat can outlive it.    *)
(***************************************************************************)
EXTENDS LanServer

MCStates == {"neutral", "held"}
MCNeutral == "neutral"
MCAbsent == "absent"
=============================================================================
