----------------------- MODULE ControllerCodecProofs -----------------------
(***************************************************************************)
(* The conversions of ControllerCodec for every value of their types: no    *)
(* result leaves its width, the ends of each range are met, and what the    *)
(* virtual pad shows is near to what the gamepad reads.                     *)
(***************************************************************************)
EXTENDS ControllerCodec, TLAPS

\* The readings of a trigger that is not at rest.
Travel == Between(1, 32767)

\* What it is to fit a width is visible to every step below.
USE DEF Between, Int16, UInt16, UInt8, Travel

\* The 16-bit trigger of a reading is a rounded quotient, which the conversion
\* to 16 bits does not cut off.
LEMMA TriggerQuotient ==
  ASSUME NEW v \in Travel
  PROVE  /\ NormalizeTrigger(v) \in UInt16 /\ NormalizeTrigger(v) # 0
         /\ NormalizeTrigger(v) * 32767 <= v * 65535 + 16383
         /\ v * 65535 + 16383 < NormalizeTrigger(v) * 32767 + 32767
<1> DEFINE q == (v * 65535 + 16383) \div 32767
<1>1. /\ q \in UInt16 /\ q # 0
      /\ q * 32767 <= v * 65535 + 16383 /\ v * 65535 + 16383 < q * 32767 + 32767
  OBVIOUS
<1>2. NormalizeTrigger(v) = q % 65536
  BY DEF NormalizeTrigger, ToUInt16, TriggerSum
<1> HIDE DEF q
<1>3. q % 65536 = q
  BY <1>1
<1> QED BY <1>1, <1>2, <1>3

\* A trigger at rest, or read below it, is released.
LEMMA RestIsReleased ==
  ASSUME NEW v \in Int16, v <= 0
  PROVE  NormalizeTrigger(v) = 0
  BY DEF NormalizeTrigger

\* NormalizeTrigger: a trigger on the wire is 16 bits wide, released at rest
\* and below, full at the end of its travel.
THEOREM TriggerOnTheWire ==
  /\ \A v \in Int16 : NormalizeTrigger(v) \in UInt16
  /\ \A v \in Int16 : NormalizeTrigger(v) = 0 <=> v <= 0
  /\ NormalizeTrigger(32767) = 65535
<1>1. ASSUME NEW v \in Travel
      PROVE  NormalizeTrigger(v) \in UInt16 /\ NormalizeTrigger(v) # 0
  BY TriggerQuotient
<1>2. ASSUME NEW v \in Int16, v <= 0
      PROVE  NormalizeTrigger(v) \in UInt16 /\ NormalizeTrigger(v) = 0
  BY <1>2, RestIsReleased
<1>3. NormalizeTrigger(32767) = 65535
  BY DEF NormalizeTrigger, TriggerSum, ToUInt16
<1>4. \A v \in Int16 : v <= 0 \/ v \in Travel
  OBVIOUS
<1>5. \A v \in Travel : ~(v <= 0)
  OBVIOUS
<1> QED BY <1>1, <1>2, <1>3, <1>4, <1>5

\* A trigger that is pulled further never shows less on the wire.
THEOREM TriggerIsMonotone ==
  ASSUME NEW v \in Int16, NEW w \in Int16, v <= w
  PROVE  NormalizeTrigger(v) <= NormalizeTrigger(w)
<1>1. CASE v <= 0
  <2>1. NormalizeTrigger(v) = 0
    BY <1>1, RestIsReleased
  <2>2. NormalizeTrigger(w) \in UInt16
    BY TriggerOnTheWire
  <2> QED BY <2>1, <2>2
<1>2. CASE v > 0
  <2>1. v \in Travel /\ w \in Travel
    BY <1>2
  <2> DEFINE q == NormalizeTrigger(v)
             r == NormalizeTrigger(w)
  <2>2. /\ q \in UInt16 /\ q # 0 /\ q * 32767 <= v * 65535 + 16383
        /\ r \in UInt16 /\ w * 65535 + 16383 < r * 32767 + 32767
    BY <2>1, TriggerQuotient
  <2> HIDE DEF q, r
  <2>3. q <= r
    BY <2>1, <2>2
  <2> QED BY <2>3 DEF q, r
<1> QED BY <1>1, <1>2

\* QuantizeTrigger: the byte in a report is a rounded quotient that fits.
LEMMA ByteQuotient ==
  ASSUME NEW v \in UInt16
  PROVE  /\ QuantizeTrigger(v) \in UInt8
         /\ QuantizeTrigger(v) * 65535 <= v * 255 + 32767
         /\ v * 255 + 32767 < QuantizeTrigger(v) * 65535 + 65535
<1> DEFINE q == (v * 255 + 32767) \div 65535
<1>1. /\ q \in 0 .. 255
      /\ q * 65535 <= v * 255 + 32767 /\ v * 255 + 32767 < q * 65535 + 65535
  OBVIOUS
<1>2. q % 256 = q
  BY <1>1
<1> QED BY <1>1, <1>2 DEF QuantizeTrigger, ToUInt8

\* From the gamepad to the pad's report, over the wire: a trigger's byte is the
\* one nearest to its travel.
THEOREM TriggerArrivesNear ==
  ASSUME NEW v \in Int16
  PROVE  Near(QuantizeTrigger(NormalizeTrigger(v)), v)
<1> DEFINE t == NormalizeTrigger(v)
           b == QuantizeTrigger(t)
<1>1. t \in UInt16
  BY TriggerOnTheWire
<1> HIDE DEF t
<1>2. b \in UInt8 /\ b * 65535 <= t * 255 + 32767 /\ t * 255 + 32767 < b * 65535 + 65535
  BY <1>1, ByteQuotient
<1> HIDE DEF b
<1>3. CASE v <= 0
  <2>1. t = 0
    BY <1>3, RestIsReleased DEF t
  <2>2. b = 0
    BY <1>2, <2>1
  <2> QED BY <1>3, <2>2 DEF Near, b, t
<1>4. CASE v > 0
  <2>1. v \in Travel
    BY <1>4
  <2>2. t * 32767 <= v * 65535 + 16383 /\ v * 65535 + 16383 < t * 32767 + 32767
    BY <2>1, TriggerQuotient DEF t
  <2>3. -16512 <= b * 32767 - v * 255 /\ b * 32767 - v * 255 <= 16512
    BY <1>1, <1>2, <2>1, <2>2
  <2> QED BY <1>4, <2>3 DEF Near, b, t
<1> QED BY <1>3, <1>4

\* A trigger at rest is released in the report, one at its end fully pressed.
THEOREM TriggerEndsArrive ==
  /\ QuantizeTrigger(NormalizeTrigger(0)) = 0
  /\ QuantizeTrigger(NormalizeTrigger(32767)) = 255
  BY DEF QuantizeTrigger, NormalizeTrigger, TriggerSum, ToUInt16, ToUInt8

\* InvertYAxis stays in 16 bits, -32768 included, and reverses the order.
THEOREM AxisIsTurned ==
  /\ \A v \in Int16 : Turned(InvertYAxis(v), v)
  /\ \A v, w \in Int16 : v <= w => InvertYAxis(w) <= InvertYAxis(v)
<1>1. ASSUME NEW v \in Int16
      PROVE  InvertYAxis(v) \in Int16 /\ InvertYAxis(v) + v \in {0, -1}
  <2>1. CASE v = -32768
    BY <2>1 DEF InvertYAxis
  <2>2. CASE v # -32768
    BY <2>2 DEF InvertYAxis
  <2> QED BY <2>1, <2>2
<1>2. ASSUME NEW v \in Int16, NEW w \in Int16, v <= w
      PROVE  InvertYAxis(w) <= InvertYAxis(v)
  BY <1>2 DEF InvertYAxis
<1> QED BY <1>1, <1>2 DEF Turned

\* HandleRumble: a motor's byte fills the 16 bits without wrapping.
THEOREM MotorFillsItsWidth ==
  /\ \A b \in UInt8 : WidenMotor(b) \in UInt16 /\ WidenMotor(b) = b * 257
  /\ WidenMotor(255) = 65535
<1>1. ASSUME NEW b \in UInt8
      PROVE  WidenMotor(b) = b * 257 /\ b * 257 \in UInt16
  <2>1. b * 257 \in UInt16
    OBVIOUS
  <2>2. (b * 257) % 65536 = b * 257
    BY <2>1
  <2> QED BY <2>1, <2>2 DEF WidenMotor, ToUInt16
<1>2. WidenMotor(255) = 65535
  BY <1>1
<1> QED BY <1>1, <1>2

\* What an Xbox 360 pad must show of a reading, from any gamepad: the buttons
\* it has, triggers near to their travel, sticks as they are with Y turned.
THEOREM ReportShowsReading ==
  ASSUME NEW raw,
         raw.left_trigger \in Int16, raw.right_trigger \in Int16,
         raw.left_y \in Int16, raw.right_y \in Int16
  PROVE  LET report == ToXusbReport(ReadState(raw))
         IN  /\ report.wButtons = {ButtonMap[b] : b \in raw.buttons} \cap XusbButtons
             /\ Near(report.bLeftTrigger, raw.left_trigger)
             /\ Near(report.bRightTrigger, raw.right_trigger)
             /\ report.sThumbLX = raw.left_x /\ Turned(report.sThumbLY, raw.left_y)
             /\ report.sThumbRX = raw.right_x /\ Turned(report.sThumbRY, raw.right_y)
<1>1. Near(QuantizeTrigger(NormalizeTrigger(raw.left_trigger)), raw.left_trigger)
  BY TriggerArrivesNear
<1>2. Near(QuantizeTrigger(NormalizeTrigger(raw.right_trigger)), raw.right_trigger)
  BY TriggerArrivesNear
<1>3. Turned(InvertYAxis(raw.left_y), raw.left_y) /\ Turned(InvertYAxis(raw.right_y), raw.right_y)
  BY AxisIsTurned
<1> QED BY <1>1, <1>2, <1>3 DEF ToXusbReport, ReadState, ReadButtons
=============================================================================
