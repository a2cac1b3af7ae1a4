----------------------------- MODULE HomeFlowMC -----------------------------
(***************************************************************************)
(* HomeFlow with three codes: the one promised, a regenerated one, and one  *)
(* that a lost file brings.                                                *)
(***************************************************************************)
EXTENDS HomeFlow

MCKeys == {"0417", "1234", "9999"}
=============================================================================
