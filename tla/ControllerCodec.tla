--------------------------- MODULE ControllerCodec ---------------------------
(***************************************************************************)
(* What the code does to the numbers on the way from a physical gamepad to  *)
(* the virtual one: SDL readings to the state on the wire, that state to a  *)
(* ViGEm report, and a game's motor commands back.  Buttons are sets of     *)
(* names (the masks are bit sets); axes and triggers keep their width.      *)
(***************************************************************************)
EXTENDS Integers

\* The integers of a width.
Between(lo, hi) == {v \in Int : lo <= v /\ v <= hi}
Int16  == Between(-32768, 32767)
UInt16 == Between(0, 65535)
UInt8  == Between(0, 255)

\* Conversion to an unsigned integer of 16 or 8 bits.
ToUInt16(v) == v % 65536
ToUInt8(v)  == v % 256

-----------------------------------------------------------------------------
\* kButtonMap: SDL's standard buttons and the flags they set on the wire.
ButtonMap ==
  [south |-> "A", east |-> "B", west |-> "X", north |-> "Y",
   back |-> "Back", guide |-> "Guide", start |-> "Start",
   left_stick |-> "LeftStick", right_stick |-> "RightStick",
   left_shoulder |-> "LeftShoulder", right_shoulder |-> "RightShoulder",
   dpad_up |-> "DpadUp", dpad_down |-> "DpadDown",
   dpad_left |-> "DpadLeft", dpad_right |-> "DpadRight",
   misc1 |-> "Misc", right_paddle1 |-> "Paddle1", left_paddle1 |-> "Paddle2",
   right_paddle2 |-> "Paddle3", left_paddle2 |-> "Paddle4", touchpad |-> "Touchpad"]

ReadButtons(pressed) == {ButtonMap[b] : b \in pressed}

\* Triggers rest at 0 and are read as 0 .. 32767; the sum below fits 32 bits.
TriggerSum(v) == v * 65535 + 16383
NormalizeTrigger(v) == IF v <= 0 THEN 0 ELSE ToUInt16(TriggerSum(v) \div 32767)

\* Up is negative for SDL and positive for XInput.
WrappedNegation(v) == IF v = -32768 THEN v ELSE -v   \* mutant: -v in 16 bits
InvertYAxis(v) == IF v = -32768 THEN 32767 ELSE -v

\* A GamepadStateV1 from an SDL gamepad's readings.
ReadState(raw) ==
  [button_flags  |-> ReadButtons(raw.buttons),
   left_trigger  |-> NormalizeTrigger(raw.left_trigger),
   right_trigger |-> NormalizeTrigger(raw.right_trigger),
   left_stick_x  |-> raw.left_x,  left_stick_y  |-> InvertYAxis(raw.left_y),
   right_stick_x |-> raw.right_x, right_stick_y |-> InvertYAxis(raw.right_y)]

\* The state "{}": every control released.
NeutralState ==
  [button_flags |-> {}, left_trigger |-> 0, right_trigger |-> 0,
   left_stick_x |-> 0, left_stick_y |-> 0, right_stick_x |-> 0, right_stick_y |-> 0]

-----------------------------------------------------------------------------
\* The flags an Xbox 360 report has a bit for; paddles, the touchpad and the
\* misc button have none.
XusbButtons == {"DpadUp", "DpadDown", "DpadLeft", "DpadRight", "Start", "Back",
                "LeftStick", "RightStick", "LeftShoulder", "RightShoulder",
                "Guide", "A", "B", "X", "Y"}

QuantizeTrigger(v) == ToUInt8((v * 255 + 32767) \div 65535)

ToXusbReport(s) ==
  [wButtons |-> s.button_flags \cap XusbButtons,
   bLeftTrigger  |-> QuantizeTrigger(s.left_trigger),
   bRightTrigger |-> QuantizeTrigger(s.right_trigger),
   sThumbLX |-> s.left_stick_x,  sThumbLY |-> s.left_stick_y,
   sThumbRX |-> s.right_stick_x, sThumbRY |-> s.right_stick_y]

\* HandleRumble widens a motor byte of the driver to 16 bits.
WidenMotor(v) == ToUInt16(v * 257)

-----------------------------------------------------------------------------
(* What the conversions are for, said without their formulas: a trigger's   *)
(* byte is the one nearest to its travel, within half a step and the        *)
(* rounding of the 16-bit value between; a Y axis is turned round, off by    *)
(* one at most and never past the end.                                     *)
Near(byte, v) == LET d == byte * 32767 - (IF v > 0 THEN v ELSE 0) * 255
                 IN  -16512 <= d /\ d <= 16512
Turned(y, v)  == y \in Int16 /\ (y + v) \in {0, -1}
=============================================================================
