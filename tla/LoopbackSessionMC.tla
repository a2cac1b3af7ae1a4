------------------------- MODULE LoopbackSessionMC --------------------------
(***************************************************************************)
(* LoopbackSession on a small instance: a neutral state, one with a button  *)
(* held and one that differs from neutral only in its axes, so that frames  *)
(* merge and do not; four numbers against a queue of two, so that it fills. *)
(***************************************************************************)
EXTENDS LoopbackSession

MCStates == {"neutral", "held", "tilted"}
MCNeutral == "neutral"
MCAbsent == "absent"
MCButtons == [s \in MCStates |-> IF s = "held" THEN "pressed" ELSE "released"]
=============================================================================
