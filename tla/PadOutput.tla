----------------------------- MODULE PadOutput -----------------------------
(***************************************************************************)
(* What a session promises the game about the virtual Xbox 360 pad it      *)
(* drives: the pad is plugged in at most once, shows input only while the  *)
(* session is live, and from the moment the session is over it is released *)
(* and can only be released again or unplugged.  A submission the driver   *)
(* refuses leaves the pad in a state the session does not know (Unknown).  *)
(***************************************************************************)
CONSTANTS States,   \* complete gamepad states; neither Absent nor Unknown is one
          Neutral,  \* the state with every control released
          Absent,   \* no virtual target is plugged in
          Unknown   \* the driver refused the last submission

VARIABLES mode, out
padVars == <<mode, out>>

PadTypeOK == /\ mode \in {"unplugged", "live", "over"}
             /\ out \in States \cup {Absent, Unknown}

PadInit == mode = "unplugged" /\ out = Absent

Plug    == mode = "unplugged" /\ mode' = "live" /\ out' = Neutral
Abandon == mode = "unplugged" /\ mode' = "over" /\ out' = Absent

Show == /\ mode = "live"
        /\ mode' = "live"
        /\ out' \in States \cup {Unknown}

End == /\ mode = "live"
       /\ mode' = "over"
       /\ out' \in {Neutral, Unknown}

\* A session that is over may try again what the driver refused.
Retry == /\ mode = "over" /\ out = Unknown
         /\ mode' = "over"
         /\ out' = Neutral

Unplug == /\ mode = "over"
          /\ mode' = "over"
          /\ out' = Absent

PadNext == Plug \/ Abandon \/ Show \/ End \/ Retry \/ Unplug

PadSpec == PadInit /\ [][PadNext]_padVars

(* A session that is over never shows input: every step that ends it       *)
(* releases the pad in the same step.                                      *)
OverIsReleased == mode = "over" => out \in {Neutral, Absent, Unknown}
=============================================================================
