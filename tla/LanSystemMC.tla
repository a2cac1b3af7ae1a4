---------------------------- MODULE LanSystemMC ----------------------------
(***************************************************************************)
(* LanSystem with a session of at most two samples, a gamepad at rest and  *)
(* one with its controls at the ends of their ranges, and one that sends    *)
(* only its final neutral state: what it shows besides is of the first.     *)
(***************************************************************************)
EXTENDS LanSystem

MCReading ==
  [rest |-> [buttons |-> {}, left_trigger |-> 0, right_trigger |-> -1,
             left_x |-> 0, left_y |-> 0, right_x |-> 0, right_y |-> 0],
   ends |-> [buttons |-> {"south", "guide", "misc1"}, left_trigger |-> 32767,
             right_trigger |-> 65, left_x |-> -32768, left_y |-> -32768,
             right_x |-> 32767, right_y |-> 32767]]
MCSamples == {"rest", "ends"}
MCMaxSamples == <<2, 0>>
=============================================================================
