--------------------------- MODULE LocalBridgeMC ---------------------------
(***************************************************************************)
(* LocalBridge on a small instance: a held and a neutral state, motors on   *)
(* and off, and three commands, so that one may arrive while another is     *)
(* being applied and a third follows.                                      *)
(***************************************************************************)
EXTENDS LocalBridge

MCStates == {"neutral", "held"}
MCNeutral == "neutral"
MCAbsent == "absent"
MCCommands == {"rest", "strong", "weak"}
MCRest == "rest"
=============================================================================
