------------------------------ MODULE MapperProofs ------------------------------
(***************************************************************************)
(* What the mapper keeps true at every rate, for every scale and for a     *)
(* mouse of any speed.                                                     *)
(***************************************************************************)
EXTENDS Mapper, TLAPS

\* Of a division of naturals, what the filter needs.
LEMMA QuotientBound ==
  ASSUME NEW a \in Nat, NEW b \in Nat \ {0}
  PROVE  /\ a \div b \in Nat /\ a \div b <= a
         /\ a >= b => a \div b >= 1
OBVIOUS

LEMMA QuotType ==
  ASSUME NEW a \in Int, NEW b \in Nat \ {0}
  PROVE  Quot(a, b) \in Int
BY DEF Quot

LEMMA TicksType == EMA_TICKS \in Nat \ {0} /\ EMA_TICKS <= 80
BY MapperAssumption DEF EMA_TICKS, MOUSE_TAU_MS

---------------------------------------------------------------------------------
\* Without motion the filter approaches zero, and below a count it is zero (ema_step).
LEMMA FilterApproachesZero ==
  ASSUME NEW e \in Int
  PROVE  ema_step(e, 0) = 0 \/ Abs(ema_step(e, 0)) < Abs(e)
<1> DEFINE moved == e + Quot(-e, EMA_TICKS)
<1>1. ema_step(e, 0) = IF moved > -4096 /\ moved < 4096 THEN 0 ELSE moved
  <2>1. 0 * EMA_FRAC - e = -e
    BY DEF EMA_FRAC
  <2> QED
    BY <2>1 DEF ema_step, EMA_FRAC
<1>2. CASE e >= 0
  <2>1. moved = e - e \div EMA_TICKS
    <3>1. CASE e = 0
      BY <3>1, TicksType DEF Quot
    <3>2. CASE e > 0
      <4>1. Quot(-e, EMA_TICKS) = -(e \div EMA_TICKS)
        BY <3>2 DEF Quot
      <4> QED
        BY <4>1, <3>2, TicksType, QuotientBound
    <3> QED
      BY <1>2, <3>1, <3>2
  <2>2. e \div EMA_TICKS \in Nat /\ e \div EMA_TICKS <= e
        /\ (e >= 4096 => e \div EMA_TICKS >= 1)
    BY <1>2, TicksType, QuotientBound
  <2> HIDE DEF moved
  <2> QED
    BY <1>1, <1>2, <2>1, <2>2 DEF Abs
<1>3. CASE e < 0
  <2>1. moved = e + (-e) \div EMA_TICKS
    BY <1>3 DEF Quot
  <2>2. (-e) \div EMA_TICKS \in Nat /\ (-e) \div EMA_TICKS <= -e
        /\ (-e >= 4096 => (-e) \div EMA_TICKS >= 1)
    BY <1>3, TicksType, QuotientBound
  <2> HIDE DEF moved
  <2> QED
    BY <1>1, <1>3, <2>1, <2>2 DEF Abs
<1> QED
  BY <1>2, <1>3
---------------------------------------------------------------------------------
LEMMA ClampInAxis ==
  ASSUME NEW v \in Int
  PROVE  clamp_axis(v) \in Axis
BY DEF clamp_axis, Axis, AXIS_MAX

\* Whatever is held and however fast the mouse is, a tick makes a pad state.
LEMMA MapInPadStates ==
  ASSUME NEW down \in SUBSET Controls, NEW e \in Int
  PROVE  Map(down, e) \in PadStates
<1>1. stick_from_wasd(down).x \in Axis /\ stick_from_wasd(down).y \in Axis
  <2> DEFINE x == Step(down, "A", "D")
             y == Step(down, "W", "S")
             magnitude == IF x # 0 /\ y # 0 THEN 90 ELSE AXIS_MAX
  <2>1. x \in {-1, 0, 1} /\ y \in {-1, 0, 1} /\ magnitude \in {90, 127}
    BY DEF Step, AXIS_MAX
  <2>2. stick_from_wasd(down) = [x |-> x * magnitude, y |-> y * magnitude]
    BY DEF stick_from_wasd
  <2> HIDE DEF x, y, magnitude
  <2>3. x * magnitude \in Axis /\ y * magnitude \in Axis
    BY <2>1 DEF Axis, AXIS_MAX
  <2> QED
    BY <2>2, <2>3
<1>2. stick_from_mouse(e) \in Axis
  <2>1. Rate \div 100 \in Nat /\ Div * 4 * EMA_FRAC \in Nat \ {0}
    BY MapperAssumption DEF EMA_FRAC
  <2>2. e * AXIS_MAX * (Rate \div 100) \in Int
    BY <2>1 DEF AXIS_MAX
  <2>3. Quot(e * AXIS_MAX * (Rate \div 100), Div * 4 * EMA_FRAC) \in Int
    BY <2>1, <2>2, QuotType
  <2> QED
    BY <2>3, ClampInAxis DEF stick_from_mouse
<1>3. buttons_from_state(down) \in SUBSET Buttons /\ dpad_from_keys(down) \in SUBSET Directions
  BY DEF buttons_from_state, dpad_from_keys
<1> QED
  BY <1>1, <1>2, <1>3 DEF Map, PadStates

LEMMA TypeInit == Init => MapperTypeOK
<1> SUFFICES ASSUME Init PROVE MapperTypeOK
  OBVIOUS
<1>1. Map({}, 0) \in PadStates
  BY MapInPadStates
<1>2. phase \in 0 .. Period - 1 /\ since \in 0 .. Warm /\ turns \in 0 .. MaxTurns
  BY MapperAssumption DEF Init
<1>3. ema \in Int /\ speed \in Speeds /\ pressed \subseteq Controls
  BY MapperAssumption DEF Init
<1>4. passthrough \in BOOLEAN /\ pad \in PadStates
  BY <1>1 DEF Init
<1> QED
  BY <1>2, <1>3, <1>4 DEF MapperTypeOK

LEMMA FilterType ==
  ASSUME NEW e \in Int, NEW s \in Int
  PROVE  ema_step(e, s) \in Int
<1>1. Quot(s * EMA_FRAC - e, EMA_TICKS) \in Int
  BY TicksType, QuotType DEF EMA_FRAC
<1> QED
  BY <1>1 DEF ema_step

LEMMA TypeNext == MapperTypeOK /\ [Next]_vars => MapperTypeOK'
<1> SUFFICES ASSUME MapperTypeOK, [Next]_vars PROVE MapperTypeOK'
  OBVIOUS
<1>0. (phase + 1) % Period \in 0 .. Period - 1
  BY MapperAssumption DEF MapperTypeOK
<1>1. CASE UNCHANGED vars
  BY <1>1 DEF MapperTypeOK, vars
<1>2. CASE Tick
  <2>1. Sample \in Int
    BY MapperAssumption DEF MapperTypeOK, Sample
  <2>2. ema' \in Int
    BY <1>2, <2>1, FilterType DEF Tick, MapperTypeOK
  <2>3. pad' \in PadStates
    BY <1>2, <2>2, MapInPadStates DEF Tick, MapperTypeOK
  <2> QED
    BY <1>0, <1>2, <2>2, <2>3, MapperAssumption DEF Tick, MapperTypeOK
<1>3. CASE PassedOn
  BY <1>0, <1>3 DEF PassedOn, MapperTypeOK
<1>4. CASE SwitchMode
  BY <1>4, MapperAssumption DEF SwitchMode, MapperTypeOK
<1>5. ASSUME NEW s \in Speeds, MouseTurns(s) PROVE MapperTypeOK'
  BY <1>5, MapperAssumption DEF MouseTurns, MapperTypeOK
<1>6. ASSUME NEW c \in Controls, Press(c) PROVE MapperTypeOK'
  BY <1>6 DEF Press, MapperTypeOK
<1>7. ASSUME NEW c \in Controls, Release(c) PROVE MapperTypeOK'
  BY <1>7 DEF Release, MapperTypeOK
<1> QED
  BY <1>1, <1>2, <1>3, <1>4, <1>5, <1>6, <1>7 DEF Next

\* Type correctness of the mapper: every tick makes a pad state that both reports can carry.
THEOREM MapperTypeCorrect == Spec => []MapperTypeOK
BY TypeInit, TypeNext, PTL DEF Spec

\* The filter never stalls off centre, at any rate the task can have: the increment may truncate
\* to zero only below a count, and there the snap takes over (ema_step).
THEOREM FilterNeverStalls == Spec => NeverStalls
<1> DEFINE Nearer == Tick /\ Sample = 0 => ema' = 0 \/ Abs(ema') < Abs(ema)
<1>1. MapperTypeOK /\ [Next]_vars => [Nearer]_vars
  <2> SUFFICES ASSUME MapperTypeOK, Tick, Sample = 0
               PROVE  ema' = 0 \/ Abs(ema') < Abs(ema)
    OBVIOUS
  <2>1. ema \in Int /\ ema' = ema_step(ema, 0)
    BY DEF MapperTypeOK, Tick
  <2> QED
    BY <2>1, FilterApproachesZero
<1> QED
  BY <1>1, TypeInit, TypeNext, PTL DEF Spec, NeverStalls
---------------------------------------------------------------------------------
\* The two reports, field by field.

\* Buttons 3 to 12 are the same buttons in both, and 1 and 2 are the triggers.
LEMMA SameButton ==
  ASSUME NEW b \in 3 .. 12
  PROVE  s_xbox_ctrl[b] = UsbButton[b] /\ s_xbox_ctrl[b] \in XboxButtons
         /\ s_xbox_ctrl[b] # "RT" /\ s_xbox_ctrl[b] # "LT"
<1>1. b \in {3, 4, 5, 6, 7, 8, 9, 10, 11, 12}
  OBVIOUS
<1> QED
  BY <1>1 DEF s_xbox_ctrl, UsbButton, XboxButtons

LEMMA Triggers ==
  /\ s_xbox_ctrl[1] = "RT" /\ s_xbox_ctrl[2] = "LT"
  /\ "RT" \notin XboxButtons /\ "LT" \notin XboxButtons
BY DEF s_xbox_ctrl, XboxButtons

LEMMA ButtonsAgree ==
  ASSUME NEW s \in PadStates
  PROVE  build_report(s).buttons = usb_pad_report(s).buttons
<1>1. s.buttons \subseteq Buttons
  BY DEF PadStates
<1>2. \A b \in s.buttons : b = 1 \/ b = 2 \/ b \in 3 .. 12
  BY <1>1 DEF Buttons
<1>3. {s_xbox_ctrl[b] : b \in s.buttons} \cap XboxButtons = {UsbButton[b] : b \in s.buttons \cap 3 .. 12}
  BY <1>2, SameButton, Triggers
<1> QED
  BY <1>3 DEF build_report, usb_pad_report

LEMMA TriggersAgree ==
  ASSUME NEW s \in PadStates
  PROVE  LET ble == build_report(s)
             usb == usb_pad_report(s)
         IN  /\ (ble.brake = XBOX_TRIGGER_MAX) = (usb.lt = 255) /\ (ble.brake = 0) = (usb.lt = 0)
             /\ (ble.gas = XBOX_TRIGGER_MAX) = (usb.rt = 255) /\ (ble.gas = 0) = (usb.rt = 0)
<1>1. s.buttons \subseteq Buttons
  BY DEF PadStates
<1>2. \A b \in s.buttons : b = 1 \/ b = 2 \/ b \in 3 .. 12
  BY <1>1 DEF Buttons
<1>3. (\E b \in s.buttons : s_xbox_ctrl[b] = "LT") <=> 2 \in s.buttons
  BY <1>2, SameButton, Triggers
<1>4. (\E b \in s.buttons : s_xbox_ctrl[b] = "RT") <=> 1 \in s.buttons
  BY <1>2, SameButton, Triggers
<1> QED
  BY <1>3, <1>4 DEF build_report, usb_pad_report, XBOX_TRIGGER_MAX

\* The table of the hat switch cancels opposite directions as the USB report does.
LEMMA DirectionsAgree ==
  ASSUME NEW s \in PadStates
  PROVE  HatMeans(build_report(s).hat) = usb_pad_report(s).dpad
<1> DEFINE d == s.dpad
<1>1. d \subseteq Directions
  BY DEF PadStates
<1>2. HatMeans(hat_from_dpad(d)) = Uncancelled(d)
  BY <1>1 DEF HatMeans, HatDirections, hat_from_dpad, hat, Bit, Uncancelled, Opposite, Directions
<1> QED
  BY <1>2 DEF build_report, usb_pad_report

LEMMA AxesAgree ==
  ASSUME NEW v \in Axis
  PROVE  /\ SameAxis(axis_to_u16(v), axis_to_xbox(v, FALSE))
         /\ SameAxis(axis_to_u16(v), -axis_to_xbox(v, TRUE))
BY DEF Axis, AXIS_MAX, SameAxis, axis_to_u16, axis_to_xbox, Quot, Abs
LEMMA ReportsAgree ==
  ASSUME NEW s \in PadStates
  PROVE  Agree(build_report(s), usb_pad_report(s))
<1> DEFINE ble == build_report(s)
           usb == usb_pad_report(s)
<1>1. s.lx \in Axis /\ s.ly \in Axis /\ s.rx \in Axis
  BY DEF PadStates
<1>2. SameAxis(ble.x, usb.lx) /\ SameAxis(ble.y, -usb.ly) /\ SameAxis(ble.z, usb.rx)
  BY <1>1, AxesAgree DEF build_report, usb_pad_report
<1> QED
  BY <1>2, ButtonsAgree, TriggersAgree, DirectionsAgree DEF Agree

\* Switching the transport does not change what a key does: the reports of every pad state agree,
\* and the mapper makes nothing else (build_report, usb_pad_send).
THEOREM TransportsAlwaysAgree == Spec => []TransportsAgree
<1>1. MapperTypeOK => TransportsAgree
  BY ReportsAgree DEF MapperTypeOK, TransportsAgree
<1> QED
  BY <1>1, TypeInit, TypeNext, PTL DEF Spec
---------------------------------------------------------------------------------
(* The filter at 100 Hz, where its time constant is eight ticks. *)

LEMMA DivisionByEight ==
  ASSUME NEW a \in Int
  PROVE  /\ Quot(a, 8) \in Int
         /\ 8 * Quot(a, 8) >= a - 7 /\ 8 * Quot(a, 8) <= a + 7
         /\ Quot(-a, 8) = -Quot(a, 8)
<1>1. CASE a > 0
  <2>1. Quot(a, 8) = a \div 8 /\ Quot(-a, 8) = -(a \div 8)
    BY <1>1 DEF Quot
  <2>2. a \div 8 \in Int /\ 8 * (a \div 8) <= a /\ 8 * (a \div 8) >= a - 7
    BY <1>1
  <2> QED
    BY <1>1, <2>1, <2>2
<1>2. CASE a < 0
  <2>1. Quot(a, 8) = -((-a) \div 8) /\ Quot(-a, 8) = (-a) \div 8
    BY <1>2 DEF Quot
  <2> DEFINE b == -a
  <2>2. b \in Nat
    BY <1>2
  <2> HIDE DEF b
  <2>3. b \div 8 \in Int /\ 8 * (b \div 8) <= b /\ 8 * (b \div 8) >= b - 7
    BY <2>2
  <2>4. Quot(a, 8) = -(b \div 8) /\ Quot(-a, 8) = b \div 8 /\ a = -b
    BY <2>1 DEF b
  <2> QED
    BY <2>2, <2>3, <2>4
<1>3. CASE a = 0
  <2>1. -a = a
    <3>1. -a \in Int /\ -a + a = 0
      OBVIOUS
    <3> DEFINE n == -a
    <3> HIDE DEF n
    <3>2. n + a = 0 /\ n \in Int
      BY <3>1 DEF n
    <3>3. n = a
      BY <3>2, <1>3
    <3> QED
      BY <3>3 DEF n
  <2>2. Quot(a, 8) = a \div 8 /\ Quot(-a, 8) = a \div 8
    BY <1>3, <2>1 DEF Quot
  <2>3. a \div 8 = 0
    BY <1>3
  <2> QED
    BY <1>3, <2>1, <2>2, <2>3
<1> QED
  BY <1>1, <1>2, <1>3

\* The average before the snap to zero.
Moved(e, s) == e + Quot(s * EMA_FRAC - e, EMA_TICKS)

LEMMA FilterStep ==
  ASSUME Rate = 100, NEW e \in Int, NEW s \in Int
  PROVE  /\ Moved(e, s) \in Int
         /\ ema_step(e, s) =
              IF s = 0 /\ Moved(e, s) > -4096 /\ Moved(e, s) < 4096 THEN 0 ELSE Moved(e, s)
         /\ 8 * Moved(e, s) >= 7 * e + 4096 * s - 7
         /\ 8 * Moved(e, s) <= 7 * e + 4096 * s + 7
         /\ ema_step(-e, -s) = -ema_step(e, s)
<1> DEFINE a == s * 4096 - e
           q == Quot(a, 8)
<1>1. EMA_TICKS = 8 /\ EMA_FRAC = 4096
  BY DEF EMA_TICKS, MOUSE_TAU_MS, EMA_FRAC
<1>2. a \in Int
  OBVIOUS
<1>3. q \in Int /\ 8 * q >= a - 7 /\ 8 * q <= a + 7 /\ Quot(-a, 8) = -q
  <2> HIDE DEF a
  <2> QED
    BY <1>2, DivisionByEight
<1>4. Moved(e, s) = e + q
  BY <1>1 DEF Moved
<1>5. Moved(-e, -s) = -e - q
  <2>1. (-s) * 4096 - (-e) = -a
    OBVIOUS
  <2>2. Moved(-e, -s) = -e + Quot(-a, 8)
    BY <1>1, <2>1 DEF Moved
  <2> HIDE DEF a, q
  <2> QED
    BY <1>3, <2>2
<1>6. ema_step(e, s) = IF s = 0 /\ Moved(e, s) > -4096 /\ Moved(e, s) < 4096 THEN 0 ELSE Moved(e, s)
  BY <1>1 DEF ema_step, Moved
<1>7. ema_step(-e, -s) =
        IF -s = 0 /\ Moved(-e, -s) > -4096 /\ Moved(-e, -s) < 4096 THEN 0 ELSE Moved(-e, -s)
  BY <1>1 DEF ema_step, Moved
<1>8. Moved(e, s) \in Int /\ Moved(-e, -s) = -Moved(e, s)
  <2> HIDE DEF q
  <2> QED
    BY <1>3, <1>4, <1>5
<1>9. 8 * Moved(e, s) >= 7 * e + 4096 * s - 7 /\ 8 * Moved(e, s) <= 7 * e + 4096 * s + 7
  <2>1. 8 * q >= (s * 4096 - e) - 7 /\ 8 * q <= (s * 4096 - e) + 7
    BY <1>3
  <2> HIDE DEF q
  <2> QED
    BY <1>3, <1>4, <2>1
<1>10. ema_step(-e, -s) = -ema_step(e, s)
  <2>1. -s = 0 <=> s = 0
    OBVIOUS
  <2> QED
    BY <1>6, <1>7, <1>8, <2>1
<1> QED
  BY <1>6, <1>8, <1>9, <1>10

LEMMA StickMirrored ==
  ASSUME NEW e \in Int
  PROVE  stick_from_mouse(-e) = -stick_from_mouse(e)
<1> DEFINE a == e * AXIS_MAX * (Rate \div 100)
           b == Div * 4 * EMA_FRAC
<1>1. a \in Int /\ b \in Nat \ {0} /\ (-e) * AXIS_MAX * (Rate \div 100) = -a
  BY MapperAssumption DEF AXIS_MAX, EMA_FRAC
<1>2. stick_from_mouse(e) = clamp_axis(Quot(a, b)) /\ stick_from_mouse(-e) = clamp_axis(Quot(-a, b))
  BY <1>1 DEF stick_from_mouse
<1> HIDE DEF a, b
<1>3. Quot(a, b) \in Int /\ Quot(-a, b) = -Quot(a, b)
  <2>1. CASE a > 0
    <3>1. a \div b \in Int
      BY <1>1
    <3>2. Quot(a, b) = a \div b /\ Quot(-a, b) = -(a \div b)
      BY <1>1, <2>1 DEF Quot
    <3> QED
      BY <3>1, <3>2
  <2>2. CASE a < 0
    <3>1. (-a) \div b \in Int
      BY <1>1
    <3>2. Quot(a, b) = -((-a) \div b) /\ Quot(-a, b) = (-a) \div b
      BY <1>1, <2>2 DEF Quot
    <3> QED
      BY <3>1, <3>2
  <2>3. CASE a = 0
    <3>1. 0 \div b = 0
      BY <1>1
    <3> QED
      BY <2>3, <3>1 DEF Quot
  <2> QED
    BY <1>1, <2>1, <2>2, <2>3
<1> QED
  BY <1>2, <1>3 DEF clamp_axis, AXIS_MAX

\* Of the motion before, the most that n ticks may have left against the mouse: seven eighths of
\* the row before each, and the snap to zero in the last two.
Rest ==
  <<1638400, 1433601, 1254402, 1097603, 960404, 840355, 735312, 643399, 562975,
    492604, 431030, 377153, 330010, 288760, 252666, 221084, 193450, 169270,
    148113, 129600, 113401, 99227, 86825, 75973, 66478, 58170, 50900,
    44539, 38973, 34103, 29841, 26112, 22849, 19994, 17496, 15310,
    13398, 11725, 10261, 8980, 7859, 6878, 6020, 5269, 4612,
    4037, 462>>

\* For a mouse that reports once in 1 to 5 ticks, what a count of its reports has brought the
\* average at least, by the reports since the motion before is gone and the ticks since the last.
Least ==
  << <<<<511>>, <<958>>, <<1350>>, <<1693>>, <<1993>>, <<2255>>, <<2484>>>>,
     <<<<511, 446>>, <<902, 789>>, <<1202, 1051>>, <<1431, 1251>>>>,
     <<<<511, 446, 390>>, <<853, 746, 652>>, <<1082, 946, 827>>>>,
     <<<<511, 446, 390, 341>>, <<810, 708, 619, 541>>, <<985, 861, 753, 658>>>>,
     <<<<511, 446, 390, 341, 298>>, <<772, 675, 590, 516, 451>>, <<906, 792, 692, 605, 529>>>> >>

\* What n ticks at one speed leave of the motion before it, and bring of this one.
Lasts(along, counts, n, age) ==
  /\ n < 47 => along >= -Rest[n + 1]
  /\ n >= 47 => along >= 0
  /\ \A j \in 1 .. Len(Least[Period]) :
       n >= 47 + (j - 1) * Period + age => along >= Least[Period][j][age] * counts

\* What the proofs use of either table.
LEMMA RestValues ==
  /\ \A i \in 1 .. 47 : Rest[i] \in Nat
  /\ \A i \in 1 .. 45 : 8 * Rest[i + 1] >= 7 * Rest[i] + 7
  /\ Rest[1] = 1638400 /\ Rest[46] = 4037 /\ Rest[47] = 462
<1>1. \A i \in 1 .. 47 : Rest[i] \in Nat
  BY SMTT(30) DEF Rest
<1>2. \A i \in 1 .. 45 : 8 * Rest[i + 1] >= 7 * Rest[i] + 7
  BY SMTT(30) DEF Rest
<1>3. Rest[1] = 1638400 /\ Rest[46] = 4037 /\ Rest[47] = 462
  BY SMTT(30) DEF Rest
<1> QED
  BY <1>1, <1>2, <1>3

LEMMA LeastValues ==
  ASSUME Period \in 1 .. 5
  PROVE  LET last == Len(Least[Period])
         IN  /\ last \in 1 .. 7 /\ 47 + last * Period <= 64
             /\ \A a \in 1 .. Period : Period * Least[Period][last][a] >= 2341
<1>1. CASE Period = 1
  BY <1>1, SMTT(30) DEF Least
<1>2. CASE Period = 2
  BY <1>2, SMTT(30) DEF Least
<1>3. CASE Period = 3
  BY <1>3, SMTT(30) DEF Least
<1>4. CASE Period = 4
  BY <1>4, SMTT(30) DEF Least
<1>5. CASE Period = 5
  BY <1>5, SMTT(30) DEF Least
<1> QED
  BY <1>1, <1>2, <1>3, <1>4, <1>5

LEMMA LeastType ==
  ASSUME Period \in 1 .. 5, NEW j \in 1 .. Len(Least[Period]), NEW a \in 1 .. Period
  PROVE  Least[Period][j][a] \in Nat
<1>1. CASE Period = 1
  BY <1>1, SMTT(30) DEF Least
<1>2. CASE Period = 2
  BY <1>2, SMTT(30) DEF Least
<1>3. CASE Period = 3
  BY <1>3, SMTT(30) DEF Least
<1>4. CASE Period = 4
  BY <1>4, SMTT(30) DEF Least
<1>5. CASE Period = 5
  BY <1>5, SMTT(30) DEF Least
<1> QED
  BY <1>1, <1>2, <1>3, <1>4, <1>5

LEMMA LeastPlain ==
  ASSUME Period \in 1 .. 5
  PROVE  \A j \in 1 .. Len(Least[Period]), a \in 1 .. Period - 1 :
                  8 * Least[Period][j][a + 1] <= 7 * Least[Period][j][a] - 2
<1>1. CASE Period = 1
  BY <1>1, SMTT(30) DEF Least
<1>2. CASE Period = 2
  BY <1>2, SMTT(30) DEF Least
<1>3. CASE Period = 3
  BY <1>3, SMTT(30) DEF Least
<1>4. CASE Period = 4
  BY <1>4, SMTT(30) DEF Least
<1>5. CASE Period = 5
  BY <1>5, SMTT(30) DEF Least
<1> QED
  BY <1>1, <1>2, <1>3, <1>4, <1>5

LEMMA LeastReport ==
  ASSUME Period \in 1 .. 5
  PROVE  /\ Least[Period][1][1] = 511
         /\ \A j \in 2 .. Len(Least[Period]) :
                  8 * Least[Period][j][1] <= 7 * Least[Period][j - 1][Period] + 4094
<1>1. CASE Period = 1
  BY <1>1, SMTT(30) DEF Least
<1>2. CASE Period = 2
  BY <1>2, SMTT(30) DEF Least
<1>3. CASE Period = 3
  BY <1>3, SMTT(30) DEF Least
<1>4. CASE Period = 4
  BY <1>4, SMTT(30) DEF Least
<1>5. CASE Period = 5
  BY <1>5, SMTT(30) DEF Least
<1> QED
  BY <1>1, <1>2, <1>3, <1>4, <1>5

LEMMA LeastCount ==
  ASSUME Period \in 1 .. 5, NEW c \in Nat, 127 * c >= 672 * Period
  PROVE  \A j \in 1 .. Len(Least[Period]), a \in 1 .. Period :
           Least[Period][j][a] * c >= 4096 \/ (a = 1 /\ Period = 1)
<1>1. CASE Period = 1
  BY <1>1, SMTT(30) DEF Least
<1>2. CASE Period = 2
  BY <1>2, SMTT(30) DEF Least
<1>3. CASE Period = 3
  BY <1>3, SMTT(30) DEF Least
<1>4. CASE Period = 4
  BY <1>4, SMTT(30) DEF Least
<1>5. CASE Period = 5
  BY <1>5, SMTT(30) DEF Least
<1> QED
  BY <1>1, <1>2, <1>3, <1>4, <1>5

\* Of a motion against the mouse's, a tick leaves what the next row says.
LEMMA RestTick ==
  ASSUME Rate = 100, NEW x \in Int, NEW s \in Int, s = 0 \/ s >= 6
  PROVE  \A n \in Nat :
           /\ n < 47 => x >= -Rest[n + 1]
           /\ n >= 47 => x >= 0
           => /\ n < 46 => ema_step(x, s) >= -Rest[n + 2]
              /\ n >= 46 => ema_step(x, s) >= 0
<1> DEFINE m == Moved(x, s)
           y == ema_step(x, s)
<1>1. s \in Nat /\ (s = 0 \/ s >= 6)
  OBVIOUS
<1>2. /\ m \in Int /\ 8 * m >= 7 * x + 4096 * s - 7
      /\ y = IF s = 0 /\ m > -4096 /\ m < 4096 THEN 0 ELSE m
  <2>1. m \in Int
    BY FilterStep
  <2>2. 8 * m >= 7 * x + 4096 * s - 7
    BY FilterStep
  <2>3. y = IF s = 0 /\ m > -4096 /\ m < 4096 THEN 0 ELSE m
    BY FilterStep
  <2> QED
    BY <2>1, <2>2, <2>3
<1> HIDE DEF y, m
<1> SUFFICES ASSUME NEW n \in Nat, n < 47 => x >= -Rest[n + 1], n >= 47 => x >= 0
             PROVE  /\ n < 46 => y >= -Rest[n + 2]
                    /\ n >= 46 => y >= 0
  BY Zenon DEF y
<1>3. CASE n >= 47
  <2>1. y >= 0
    BY <1>1, <1>2, <1>3
  <2> QED
    BY <1>3, <2>1
<1>4. CASE n = 46
  <2>1. x >= -462
    BY <1>4, RestValues
  <2>2. y >= 0
    BY <1>1, <1>2, <2>1
  <2> QED
    BY <1>4, <2>2
<1>5. CASE n = 45
  <2>1. x >= -4037 /\ Rest[n + 2] = 462
    BY <1>5, RestValues
  <2>2. y >= -462
    BY <1>1, <1>2, <2>1
  <2> QED
    BY <1>5, <2>1, <2>2
<1>6. CASE n < 45
  <2> DEFINE g == Rest[n + 1]
             h == Rest[n + 2]
  <2>1. g \in Nat /\ h \in Nat /\ 8 * h >= 7 * g + 7
    <3>1. n + 1 \in 1 .. 45 /\ (n + 1) + 1 = n + 2 /\ n + 1 \in 1 .. 47 /\ n + 2 \in 1 .. 47
      BY <1>6
    <3> QED
      BY <3>1, RestValues
  <2>2. x >= -g
    BY <1>6
  <2> HIDE DEF g, h
  <2>3. y >= -h
    BY <1>1, <1>2, <2>1, <2>2
  <2> QED
    BY <1>6, <2>3 DEF h
<1> QED
  BY <1>3, <1>4, <1>5, <1>6

LEMMA SevenEighths ==
  ASSUME NEW c \in Nat, c >= 6, NEW before \in Nat, NEW after \in Nat, 8 * after <= 7 * before - 2
  PROVE  8 * (after * c) <= 7 * (before * c) - 12
<1> DEFINE p == before * c
           q == after * c
<1>1. p \in Nat /\ q \in Nat
  OBVIOUS
<1>2. (7 * before - 2 - 8 * after) * c >= 0
  OBVIOUS
<1>3. (7 * before - 2 - 8 * after) * c = 7 * p - 2 * c - 8 * q
  OBVIOUS
<1> HIDE DEF p, q
<1>4. 8 * q <= 7 * p - 12
  BY <1>1, <1>2, <1>3
<1> QED
  BY <1>4 DEF p, q

\* A tick without a report leaves seven eighths.
LEMMA LeastTick ==
  ASSUME Rate = 100, NEW x \in Int, NEW p \in Nat, NEW q \in Nat,
         x >= p, 8 * q <= 7 * p - 12, q >= 4096
  PROVE  ema_step(x, 0) >= q
<1> DEFINE m == Moved(x, 0)
<1>1. /\ m \in Int /\ 8 * m >= 7 * x - 7
      /\ ema_step(x, 0) = IF m > -4096 /\ m < 4096 THEN 0 ELSE m
  BY FilterStep
<1> HIDE DEF m
<1>2. m >= q
  BY <1>1
<1> QED
  BY <1>1, <1>2

\* A report brings an eighth of its counts.
LEMMA LeastReportTick ==
  ASSUME Rate = 100, NEW x \in Int, NEW c \in Nat, c >= 6, NEW before \in Nat, NEW after \in Nat,
         x >= before * c, 8 * after <= 7 * before + 4094
  PROVE  ema_step(x, c) >= after * c
<1> DEFINE m == Moved(x, c)
<1>1. /\ m \in Int /\ 8 * m >= 7 * x + 4096 * c - 7
      /\ ema_step(x, c) = m
  <2>1. c \in Int /\ c # 0
    OBVIOUS
  <2> QED
    BY <2>1, FilterStep
<1> HIDE DEF m
<1> DEFINE ac == before * c
           bc == after * c
<1>2. ac \in Nat /\ bc \in Nat
  OBVIOUS
<1>3. 8 * bc <= 7 * ac + 4094 * c
  <2>1. (7 * before + 4094 - 8 * after) * c >= 0
    OBVIOUS
  <2>2. (7 * before + 4094 - 8 * after) * c = 7 * ac + 4094 * c - 8 * bc
    OBVIOUS
  <2> HIDE DEF ac, bc
  <2> QED
    BY <1>2, <2>1, <2>2
<1> HIDE DEF ac, bc
<1>4. x >= ac
  BY DEF ac
<1>5. m >= bc
  BY <1>1, <1>2, <1>3, <1>4
<1> QED
  BY <1>1, <1>5 DEF bc

LEMMA LastsTick ==
  ASSUME Rate = 100, Period \in 1 .. 5, Warm >= 64,
         NEW x \in Int, NEW c \in Nat, 127 * c >= 672 * Period,
         NEW n \in 0 .. Warm, NEW a \in 1 .. Period, Lasts(x, c, n, a)
  PROVE  Lasts(ema_step(x, IF a = Period THEN c ELSE 0), c,
               IF n < Warm THEN n + 1 ELSE Warm, IF a = Period THEN 1 ELSE a + 1)
<1> DEFINE s == IF a = Period THEN c ELSE 0
           y == ema_step(x, s)
           k == IF n < Warm THEN n + 1 ELSE Warm
           b == IF a = Period THEN 1 ELSE a + 1
           last == Len(Least[Period])
<1>1. /\ Warm \in Nat /\ n \in Nat /\ k \in Nat /\ Period \in Nat /\ a \in Nat
      /\ k = n + 1 \/ (k = n /\ n >= 64)
  BY MapperAssumption
<1>2. c >= 6
  <2>1. Period >= 1 /\ Period \in Int
    OBVIOUS
  <2> QED
    BY <2>1
<1>3. s \in Int /\ (s = 0 \/ s >= 6)
  BY <1>2
<1>4. last \in 1 .. 7 /\ 47 + last * Period <= 64
  BY LeastValues
<1>5. (k < 47 => y >= -Rest[k + 1]) /\ (k >= 47 => y >= 0)
  <2>1. (n < 47 => x >= -Rest[n + 1]) /\ (n >= 47 => x >= 0)
    BY DEF Lasts
  <2>2. (n < 46 => y >= -Rest[n + 2]) /\ (n >= 46 => y >= 0)
    <3> HIDE DEF s
    <3> QED
      BY <1>1, <1>3, <2>1, RestTick
  <2> HIDE DEF s, y, k
  <2>3. CASE k = n + 1
    <3>1. k + 1 = n + 2 /\ (k < 47 <=> n < 46)
      BY <1>1, <2>3
    <3> QED
      BY <1>1, <2>2, <3>1
  <2>4. CASE k = n /\ n >= 64
    BY <1>1, <2>2, <2>4
  <2> QED
    BY <1>1, <2>3, <2>4
<1>6. ASSUME NEW j \in 1 .. last, k >= 47 + (j - 1) * Period + b
      PROVE  y >= Least[Period][j][b] * c
  <2> DEFINE jp == j * Period
  <2>1. /\ jp \in Nat /\ jp <= last * Period /\ (j - 1) * Period = jp - Period
        /\ (j - 2) * Period = jp - 2 * Period /\ j \in Nat
    <3>1. j \in Nat /\ j <= last /\ last \in Nat
      BY <1>4
    <3>2. (last - j) * Period >= 0
      BY <1>1, <3>1
    <3> HIDE DEF last
    <3> QED
      BY <1>1, <3>1, <3>2
  <2> HIDE DEF jp
  <2>2. CASE a # Period
    <3>1. s = 0 /\ b = a + 1 /\ a \in 1 .. Period - 1 /\ b \in 1 .. Period
      BY <1>1, <2>2
    <3>2. n >= 47 + (j - 1) * Period + a
      <4> HIDE DEF k, last
      <4>1. n >= 47 + jp - Period + a
        BY <1>1, <1>4, <1>6, <2>1, <3>1
      <4> QED
        BY <2>1, <4>1
    <3>3. x >= Least[Period][j][a] * c
      BY <3>2 DEF Lasts
    <3>4. 8 * Least[Period][j][b] <= 7 * Least[Period][j][a] - 2
      BY <3>1, LeastPlain
    <3>5. Least[Period][j][b] * c >= 4096
      BY <1>1, <3>1, LeastCount
    <3>6. Least[Period][j][a] \in Nat /\ Least[Period][j][b] \in Nat
      BY <3>1, LeastType
    <3> DEFINE before == Least[Period][j][a]
               after == Least[Period][j][b]
    <3> DEFINE p == before * c
               q == after * c
    <3>7. before \in Nat /\ after \in Nat
      BY <3>6
    <3>8. x >= p /\ q >= 4096
      BY <3>3, <3>5
    <3>9. 8 * after <= 7 * before - 2
      BY <3>4
    <3> HIDE DEF before, after, s
    <3>10. 8 * q <= 7 * p - 12
      BY <1>2, <3>7, <3>9, SevenEighths
    <3>11. p \in Nat /\ q \in Nat
      BY <3>7
    <3> HIDE DEF p, q
    <3>12. ema_step(x, 0) >= q
      BY <3>8, <3>10, <3>11, LeastTick
    <3> QED
      BY <3>1, <3>12, Zenon DEF after, q
  <2>3. CASE a = Period /\ j = 1
    <3>1. s = c /\ b = 1
      BY <2>3
    <3>2. x >= 0
      <4>1. n >= 47
        <5> HIDE DEF k
        <5> QED
          BY <1>1, <1>6, <2>3, <3>1
      <4> QED
        BY <1>1, <4>1 DEF Lasts
    <3>3. Least[Period][1][1] = 511
      BY LeastReport
    <3>4. ema_step(x, c) >= 511 * c
      <4>1. x >= 0 * c /\ 8 * 511 <= 7 * 0 + 4094
        BY <3>2
      <4> QED
        BY <1>2, <4>1, LeastReportTick
    <3> QED
      BY <2>3, <3>1, <3>3, <3>4
  <2>4. CASE a = Period /\ j # 1
    <3>1. s = c /\ b = 1 /\ j - 1 \in 1 .. last /\ j \in 2 .. last
      <4> HIDE DEF last
      <4> QED
        BY <1>4, <2>4
    <3>2. n >= 47 + ((j - 1) - 1) * Period + a
      <4> HIDE DEF k, last
      <4>1. n >= 47 + jp - 2 * Period + a
        BY <1>1, <1>4, <1>6, <2>1, <2>4, <3>1
      <4>2. (j - 1) - 1 = j - 2
        BY <2>1
      <4> QED
        BY <2>1, <4>1, <4>2
    <3>3. x >= Least[Period][j - 1][Period] * c
      BY <2>4, <3>1, <3>2 DEF Lasts
    <3>4. 8 * Least[Period][j][1] <= 7 * Least[Period][j - 1][Period] + 4094
      BY <3>1, LeastReport
    <3>5. Least[Period][j - 1][Period] \in Nat /\ Least[Period][j][1] \in Nat
      <4>1. Period \in 1 .. Period /\ 1 \in 1 .. Period
        BY <1>1
      <4> DEFINE i == j - 1
      <4> HIDE DEF i
      <4>2. i \in 1 .. last
        BY <3>1 DEF i
      <4>3. Least[Period][i][Period] \in Nat
        BY <4>1, <4>2, LeastType
      <4>4. Least[Period][j][1] \in Nat
        BY <4>1, LeastType
      <4> QED
        BY <4>3, <4>4 DEF i
    <3> DEFINE before == Least[Period][j - 1][Period]
               after == Least[Period][j][1]
    <3>6. /\ before \in Nat /\ after \in Nat /\ x >= before * c
          /\ 8 * after <= 7 * before + 4094
      BY <3>3, <3>4, <3>5
    <3> HIDE DEF before, after, s
    <3>7. ema_step(x, c) >= after * c
      BY <1>2, <3>6, LeastReportTick
    <3> QED
      BY <3>1, <3>7, Zenon DEF after
  <2> QED
    BY <2>2, <2>3, <2>4
<1> HIDE DEF s, y, k, b, last
<1>7. Lasts(y, c, k, b)
  BY <1>5, <1>6 DEF Lasts, last
<1> QED
  BY <1>7 DEF s, y, k, b

\* At the rate and for the scales from the Kconfig's default, a mouse that reports 20 times a second
\* or more often, with up to 400 counts in a report (the comments measure 20 to 25, and 355).
Steady ==
  /\ Rate = 100 /\ Div >= 24 /\ Period <= 5 /\ Warm >= 64 /\ Flat >= 6
  /\ \A s \in Speeds : Abs(s) <= 400

\* The average as the mouse sees it, its counts, and the ticks since its last report.
Along  == IF speed < 0 THEN -ema ELSE ema
Counts == Abs(speed)
Age    == IF phase = 0 THEN Period ELSE phase

\* The inductive strengthening of HoldsSteady: the average is bounded, and of a mouse quick enough
\* to matter it is what the two tables say.
SteadyInv ==
  /\ Abs(ema) <= Rest[1]
  /\ passthrough => since = 0
  /\ pad.rx = stick_from_mouse(ema)
  /\ 127 * Counts >= 672 * Period => Lasts(Along, Counts, since, Age)

LEMMA SteadyPeriod == Steady => Period \in 1 .. 5 /\ Rate = 100 /\ Warm >= 64 /\ Warm \in Nat
BY MapperAssumption DEF Steady

LEMMA LastsAfresh ==
  ASSUME Period \in 1 .. 5, NEW x \in Int, NEW c \in Nat, NEW a \in 1 .. Period, x >= -Rest[1]
  PROVE  Lasts(x, c, 0, a)
<1> DEFINE last == Len(Least[Period])
<1>1. x >= -Rest[0 + 1]
  OBVIOUS
<1>2. ASSUME NEW j \in 1 .. last PROVE ~(0 >= 47 + (j - 1) * Period + a)
  <2>1. last \in Nat
    BY LeastValues
  <2> HIDE DEF last
  <2>2. (j - 1) * Period >= 0 /\ (j - 1) * Period \in Int
    <3>1. j - 1 \in Nat /\ Period \in Nat
      BY <2>1
    <3> DEFINE i == j - 1
    <3> HIDE DEF i
    <3>2. i \in Nat
      BY <3>1 DEF i
    <3>3. i * Period >= 0 /\ i * Period \in Int
      BY <3>1, <3>2
    <3> QED
      BY <3>3 DEF i
  <2> DEFINE k == (j - 1) * Period
  <2> HIDE DEF k
  <2>3. ~(0 >= 47 + k + a)
    BY <2>2 DEF k
  <2> QED
    BY <2>3 DEF k
<1> QED
  BY <1>1, <1>2 DEF Lasts

LEMMA SteadyType ==
  ASSUME Steady, MapperTypeOK
  PROVE  /\ ema \in Int /\ speed \in Int /\ Abs(speed) <= 400
         /\ Along \in Int /\ Counts \in Nat /\ Age \in 1 .. Period /\ since \in 0 .. Warm
<1>1. speed \in Speeds /\ Speeds \subseteq Int /\ ema \in Int /\ phase \in 0 .. Period - 1 /\ since \in 0 .. Warm
  BY MapperAssumption DEF MapperTypeOK
<1>2. Abs(speed) <= 400 /\ speed \in Int
  BY <1>1 DEF Steady
<1>3. Counts \in Nat /\ Along \in Int
  BY <1>1, <1>2 DEF Counts, Along, Abs
<1>4. Age \in 1 .. Period
  BY <1>1, SteadyPeriod DEF Age
<1> QED
  BY <1>1, <1>2, <1>3, <1>4

\* The average is within what the fastest mouse brings it to.
LEMMA FilterBounded ==
  ASSUME Rate = 100, NEW e \in Int, NEW s \in Int
  PROVE  Abs(e) <= Rest[1] /\ Abs(s) <= 400 => Abs(ema_step(e, s)) <= Rest[1]
<1> DEFINE m == Moved(e, s)
           y == ema_step(e, s)
<1>1. m \in Int /\ 8 * m >= 7 * e + 4096 * s - 7 /\ 8 * m <= 7 * e + 4096 * s + 7
  <2>1. m \in Int
    BY FilterStep
  <2>2. 8 * m >= 7 * e + 4096 * s - 7
    BY FilterStep
  <2>3. 8 * m <= 7 * e + 4096 * s + 7
    BY FilterStep
  <2> QED
    BY <2>1, <2>2, <2>3
<1>2. y = IF s = 0 /\ m > -4096 /\ m < 4096 THEN 0 ELSE m
  BY FilterStep
<1> HIDE DEF m, y
<1>3. SUFFICES ASSUME Abs(e) <= Rest[1], Abs(s) <= 400
               PROVE  Abs(y) <= Rest[1]
  BY Zenon DEF y
<1>4. e >= -1638400 /\ e <= 1638400 /\ s >= -400 /\ s <= 400
  BY <1>3, RestValues DEF Abs
<1>5. m >= -1638400 /\ m <= 1638400
  BY <1>1, <1>4
<1>6. y \in Int /\ y >= -1638400 /\ y <= 1638400
  BY <1>1, <1>2, <1>5
<1>7. Abs(y) <= Rest[1]
  BY <1>6, RestValues DEF Abs
<1> QED
  BY <1>7

LEMMA SteadyInit == Steady /\ Init => SteadyInv
<1> SUFFICES ASSUME Steady, Init PROVE SteadyInv
  OBVIOUS
<1>1. Abs(ema) <= Rest[1]
  BY RestValues DEF Init, Abs
<1>2. pad.rx = stick_from_mouse(ema)
  BY DEF Init, Map
<1>3. ~(127 * Counts >= 672 * Period)
  <2>1. Counts = 0
    BY DEF Init, Counts, Abs
  <2>2. Period \in Nat /\ Period >= 1
    BY SteadyPeriod
  <2> QED
    BY <2>1, <2>2
<1>4. passthrough => since = 0
  BY DEF Init
<1> QED
  BY <1>1, <1>2, <1>3, <1>4 DEF SteadyInv

\* A tick, seen from the mouse's side.
LEMMA TickAlong ==
  ASSUME Steady, MapperTypeOK, Tick
  PROVE  /\ Along' = ema_step(Along, IF Age = Period THEN Counts ELSE 0)
         /\ Counts' = Counts /\ Age' = IF Age = Period THEN 1 ELSE Age + 1
         /\ Abs(Sample) <= 400 /\ Sample \in Int
<1>1. /\ ema \in Int /\ speed \in Int /\ Abs(speed) <= 400 /\ phase \in 0 .. Period - 1
      /\ Period \in 1 .. 5
  BY SteadyType, SteadyPeriod DEF MapperTypeOK
<1>2. ema' = ema_step(ema, Sample) /\ speed' = speed /\ phase' = (phase + 1) % Period
  BY DEF Tick
<1>3. Age = Period <=> phase = 0
  BY <1>1 DEF Age
<1>4. Sample \in Int /\ Abs(Sample) <= 400
  BY <1>1 DEF Sample, Abs
<1>5. Age' = IF Age = Period THEN 1 ELSE Age + 1
  <2>1. CASE phase = Period - 1
    <3>1. phase' = 0
      BY <1>1, <1>2, <2>1
    <3> QED
      BY <1>1, <2>1, <3>1 DEF Age
  <2>2. CASE phase < Period - 1
    <3>1. phase' = phase + 1
      BY <1>1, <1>2, <2>2
    <3> QED
      BY <1>1, <2>2, <3>1 DEF Age
  <2> QED
    BY <1>1, <2>1, <2>2
<1>6. Along' = ema_step(Along, IF Age = Period THEN Counts ELSE 0)
  <2>1. CASE speed >= 0
    <3>1. Along = ema /\ Along' = ema'
      BY <1>1, <1>2, <2>1 DEF Along
    <3>2. Sample = IF Age = Period THEN Counts ELSE 0
      BY <1>1, <1>3, <2>1 DEF Sample, Counts, Abs
    <3> QED
      BY <1>2, <3>1, <3>2
  <2>2. CASE speed < 0
    <3>1. Along = -ema /\ Along' = -ema'
      BY <1>1, <1>2, <2>2 DEF Along
    <3>2. -Sample = IF Age = Period THEN Counts ELSE 0
      BY <1>1, <1>3, <2>2 DEF Sample, Counts, Abs
    <3>3. ema_step(-ema, -Sample) = -ema_step(ema, Sample)
      BY <1>1, <1>4, SteadyPeriod, FilterStep
    <3> QED
      BY <1>2, <3>1, <3>2, <3>3, Zenon
  <2> QED
    BY <1>1, <2>1, <2>2
<1>7. Counts' = Counts
  BY <1>2 DEF Counts, Abs
<1> QED
  BY <1>4, <1>5, <1>6, <1>7

LEMMA SteadyNext == Steady /\ MapperTypeOK /\ MapperTypeOK' /\ SteadyInv /\ [Next]_vars => SteadyInv'
<1> SUFFICES ASSUME Steady, MapperTypeOK, MapperTypeOK', SteadyInv, [Next]_vars PROVE SteadyInv'
  OBVIOUS
<1>1. /\ ema \in Int /\ Along \in Int /\ Counts \in Nat /\ Age \in 1 .. Period /\ since \in 0 .. Warm
      /\ Period \in 1 .. 5 /\ Rate = 100 /\ Warm >= 64 /\ Warm \in Nat
  BY SteadyType, SteadyPeriod
<1>2. /\ ema' \in Int /\ speed' \in Int /\ Along' \in Int /\ Counts' \in Nat /\ Age' \in 1 .. Period
  <2>1. speed' \in Int /\ ema' \in Int /\ phase' \in 0 .. Period - 1
    BY MapperAssumption DEF MapperTypeOK
  <2>2. Along' \in Int
    BY <2>1 DEF Along
  <2>3. Counts' \in Nat
    <3>1. Counts' = IF speed' < 0 THEN -speed' ELSE speed'
      BY DEF Counts, Abs
    <3> DEFINE s == speed'
    <3>2. s \in Int
      BY <2>1
    <3> HIDE DEF s
    <3>3. (IF s < 0 THEN -s ELSE s) \in Nat
      BY <3>2
    <3> QED
      BY <3>1, <3>3 DEF s
  <2>4. Age' \in 1 .. Period
    BY <1>1, <2>1 DEF Age
  <2> QED
    BY <2>1, <2>2, <2>3, <2>4
<1>3. ASSUME UNCHANGED <<ema, pad, speed, since, phase, passthrough>> PROVE SteadyInv'
  <2>1. Along' = Along /\ Counts' = Counts /\ Age' = Age
    BY <1>3 DEF Along, Counts, Age
  <2> QED
    BY <1>3, <2>1 DEF SteadyInv
\* Where the count of ticks starts afresh, all that is known is the bound of the filter.
<1>4. ASSUME UNCHANGED <<ema, pad>>, since' = 0 PROVE SteadyInv'
  <2>1. Along' >= -Rest[1]
    BY <1>1, <1>2, <1>4, RestValues DEF SteadyInv, Along, Abs
  <2>2. Lasts(Along', Counts', 0, Age')
    BY <1>1, <1>2, <2>1, LastsAfresh
  <2> QED
    BY <1>4, <2>2 DEF SteadyInv
<1>5. CASE Tick
  <2>1. /\ Along' = ema_step(Along, IF Age = Period THEN Counts ELSE 0)
        /\ Counts' = Counts /\ Age' = IF Age = Period THEN 1 ELSE Age + 1
        /\ Abs(Sample) <= 400 /\ Sample \in Int
    BY <1>5, TickAlong
  <2>2. /\ ema' = ema_step(ema, Sample) /\ pad' = Map(pressed, ema') /\ ~passthrough'
        /\ since' = IF since < Warm THEN since + 1 ELSE Warm
    BY <1>5 DEF Tick
  <2>3. Abs(ema') <= Rest[1]
    BY <1>1, <2>1, <2>2, FilterBounded DEF SteadyInv
  <2>4. pad'.rx = stick_from_mouse(ema')
    BY <2>2 DEF Map
  <2>5. 127 * Counts' >= 672 * Period => Lasts(Along', Counts', since', Age')
    <3> SUFFICES ASSUME 127 * Counts >= 672 * Period PROVE Lasts(Along', Counts', since', Age')
      BY <2>1
    <3>1. Lasts(Along, Counts, since, Age)
      BY DEF SteadyInv
    <3>2. Lasts(ema_step(Along, IF Age = Period THEN Counts ELSE 0), Counts,
                IF since < Warm THEN since + 1 ELSE Warm, IF Age = Period THEN 1 ELSE Age + 1)
      BY <1>1, <3>1, LastsTick
    <3> QED
      BY <2>1, <2>2, <3>2
  <2> QED
    BY <2>2, <2>3, <2>4, <2>5 DEF SteadyInv
<1>6. CASE PassedOn
  <2>1. since' = 0
    BY <1>6 DEF PassedOn, SteadyInv
  <2> QED
    BY <1>4, <1>6, <2>1 DEF PassedOn
<1>7. CASE SwitchMode
  BY <1>4, <1>7 DEF SwitchMode
<1>8. ASSUME NEW s \in Speeds, MouseTurns(s) PROVE SteadyInv'
  BY <1>4, <1>8 DEF MouseTurns
<1>9. ASSUME NEW c \in Controls, Press(c) PROVE SteadyInv'
  BY <1>3, <1>9 DEF Press
<1>10. ASSUME NEW c \in Controls, Release(c) PROVE SteadyInv'
  BY <1>3, <1>10 DEF Release
<1>11. CASE UNCHANGED vars
  BY <1>3, <1>11 DEF vars
<1> QED
  BY <1>5, <1>6, <1>7, <1>8, <1>9, <1>10, <1>11 DEF Next

LEMMA Monotone ==
  ASSUME NEW a \in Int, NEW b \in Int, a <= b, NEW k \in Nat
  PROVE  a * k <= b * k
<1>1. (b - a) * k >= 0
  OBVIOUS
<1>2. (b - a) * k = b * k - a * k
  OBVIOUS
<1> DEFINE p == a * k
           q == b * k
<1>3. p \in Int /\ q \in Int /\ q - p >= 0
  BY <1>1, <1>2
<1> HIDE DEF p, q
<1>4. p <= q
  BY <1>3
<1> QED
  BY <1>4 DEF p, q

LEMMA Division ==
  ASSUME NEW n \in Nat, NEW d \in Nat \ {0}
  PROVE  LET q == n \div d IN q \in Nat /\ q * d <= n /\ n < q * d + d
OBVIOUS

\* An average of 4096 / 2 counts a tick and somewhat more shows half of the deflection.
LEMMA HalfShown ==
  ASSUME NEW k \in Nat \ {0}, NEW c \in Nat, NEW x \in Nat, NEW l \in Nat,
         Period \in 1 .. 5, Period * l >= 2341, x >= l * c,
         NEW u \in Nat, u >= 7, u * (Period * k) <= 127 * c,
         NEW r \in Nat, x * 127 < r * (k * 4096) + k * 4096
  PROVE  2 * r >= u
<1> DEFINE v == u * k
           w == r * k
<1>1. v \in Nat /\ w \in Nat
  OBVIOUS
<1>2. Period * v <= 127 * c
  <2>1. u * (Period * k) = Period * v
    OBVIOUS
  <2> QED
    BY <2>1
<1>3. x * 127 < 4096 * w + 4096 * k
  <2>1. r * (k * 4096) = 4096 * w
    OBVIOUS
  <2> QED
    BY <2>1
<1>4. 7 * k <= v
  BY Monotone
<1>5. 2 * r + 1 <= u => 2 * w + k <= v
  <2> SUFFICES ASSUME 2 * r + 1 <= u PROVE 2 * w + k <= v
    OBVIOUS
  <2>1. (2 * r + 1) * k <= u * k
    BY Monotone
  <2>2. (2 * r + 1) * k = 2 * w + k
    OBVIOUS
  <2> QED
    BY <2>1, <2>2
<1>6. 2341 * v <= 127 * x
  <2>1. (Period * v) * l <= (127 * c) * l
    <3>1. Period * v \in Int /\ 127 * c \in Int
      BY <1>1
    <3> HIDE DEF v
    <3> QED
      BY <1>2, <3>1, Monotone
  <2>2. (Period * v) * l = (Period * l) * v /\ (127 * c) * l = 127 * (l * c)
    <3> HIDE DEF v
    <3> QED
      BY <1>1
  <2>3. 2341 * v <= (Period * l) * v
    <3>1. Period * l \in Int
      OBVIOUS
    <3> HIDE DEF v
    <3> QED
      BY <1>1, <3>1, Monotone
  <2> DEFINE p == (Period * l) * v
             q == l * c
  <2>4. p \in Int /\ q \in Int /\ p <= 127 * q /\ 2341 * v <= p /\ q <= x
    <3>1. p \in Int /\ q \in Int
      <4> HIDE DEF v
      <4> QED
        BY <1>1
    <3> HIDE DEF v
    <3> QED
      BY <2>1, <2>2, <2>3, <3>1
  <2> HIDE DEF p, q, v
  <2> QED
    BY <1>1, <2>4
<1> HIDE DEF v, w
<1>7. ~(2 * r + 1 <= u)
  BY <1>1, <1>3, <1>4, <1>5, <1>6
<1> QED
  BY <1>7

\* Either side of zero the division truncates alike.
LEMMA QuotEither ==
  ASSUME NEW n \in Nat, NEW d \in Nat \ {0}
  PROVE  Quot(n, d) = n \div d /\ Quot(-n, d) = -(n \div d)
<1>1. Quot(n, d) = n \div d
  BY DEF Quot
<1>2. CASE n > 0
  BY <1>1, <1>2 DEF Quot
<1>3. CASE n = 0
  <2>1. n \div d = 0
    BY <1>3
  <2> DEFINE m == -n
  <2>2. m \in Int /\ m + n = 0
    OBVIOUS
  <2> HIDE DEF m
  <2>3. m = n
    BY <1>3, <2>2
  <2>4. Quot(m, d) = 0
    BY <1>1, <2>1, <2>3
  <2> QED
    BY <1>1, <2>1, <2>4 DEF m
<1> QED
  BY <1>1, <1>2, <1>3

\* The filter once settled: of a mouse whose speed stands for more than what may be lost.
LEMMA SettledAverage ==
  ASSUME Steady, MapperTypeOK, SteadyInv, Settled, 127 * Counts >= 672 * Period
  PROVE  \E l \in Nat : Period * l >= 2341 /\ Along >= l * Counts
<1> DEFINE last == Len(Least[Period])
<1>1. Period \in 1 .. 5 /\ Warm >= 64 /\ Warm \in Nat /\ since = Warm /\ Age \in 1 .. Period
  BY SteadyPeriod, SteadyType DEF Settled
<1>2. last \in 1 .. 7 /\ 47 + last * Period <= 64 /\ Period * Least[Period][last][Age] >= 2341
  BY <1>1, LeastValues
<1>3. last \in 1 .. last
  <2> HIDE DEF last
  <2> QED
    BY <1>2
<1>4. Least[Period][last][Age] \in Nat
  BY <1>1, <1>3, LeastType
<1>5. since >= 47 + (last - 1) * Period + Age
  <2> HIDE DEF last
  <2>1. (last - 1) * Period = last * Period - Period
    BY <1>1, <1>2
  <2> DEFINE k == last * Period
  <2>2. k \in Int /\ 47 + k <= 64
    BY <1>1, <1>2
  <2> HIDE DEF k
  <2>3. since >= 47 + (k - Period) + Age
    BY <1>1, <2>2
  <2> QED
    BY <2>1, <2>3 DEF k
<1>6. Along >= Least[Period][last][Age] * Counts
  <2>1. Lasts(Along, Counts, since, Age)
    BY DEF SteadyInv
  <2> QED
    BY <1>3, <1>5, <2>1 DEF Lasts
<1> QED
  BY <1>2, <1>4, <1>6

LEMMA SteadyHolds == Steady /\ MapperTypeOK /\ SteadyInv => HoldsSteady
<1> SUFFICES ASSUME Steady, MapperTypeOK, SteadyInv, Settled, ~passthrough, Abs(Ideal) > Flat
             PROVE  2 * Abs(pad.rx) >= Abs(Ideal) /\ (pad.rx > 0) = (speed > 0)
  BY DEF HoldsSteady
<1> DEFINE k == 4 * Div
           c == Counts
           shown == 127 * c
           range == Period * k
           held  == Along * 127
           full  == k * 4096
           u == shown \div range
           r == held \div full
<1>1. /\ ema \in Int /\ speed \in Int /\ Along \in Int /\ c \in Nat /\ Rate \div 100 = 1
      /\ Period \in 1 .. 5 /\ k \in Nat /\ k >= 96
  <2>1. Rate \div 100 = 1
    BY DEF Steady
  <2>2. k \in Nat /\ k >= 96
    BY MapperAssumption DEF Steady
  <2> QED
    BY <2>1, <2>2, SteadyType, SteadyPeriod
<1>2. /\ shown \in Nat /\ range \in Nat \ {0} /\ full \in Nat \ {0}
      /\ Period * Div * 4 = range /\ Div * 4 * EMA_FRAC = full
  <2>1. 127 * c \in Nat /\ Period * Div * 4 = Period * k /\ Div * 4 * EMA_FRAC = k * 4096
    <3> HIDE DEF c
    <3> QED
      BY <1>1, MapperAssumption DEF EMA_FRAC
  <2> HIDE DEF k
  <2>2. Period * k \in Nat \ {0} /\ k * 4096 \in Nat \ {0}
    BY <1>1
  <2> QED
    BY <2>1, <2>2 DEF k
<1>3. u \in Nat /\ u * (Period * k) <= 127 * c
  <2>1. u \in Nat /\ u * range <= shown
    <3> HIDE DEF shown, range
    <3> QED
      BY <1>2, Division
  <2> QED
    BY <2>1
<1>4. Ideal = IF speed < 0 THEN clamp_axis(-u) ELSE clamp_axis(u)
  <2>1. Ideal = clamp_axis(Quot(speed * 127, Period * k))
    <3>1. speed * AXIS_MAX * (Rate \div 100) = speed * 127
      BY <1>1 DEF AXIS_MAX
    <3> HIDE DEF k
    <3> QED
      BY <1>2, <3>1 DEF Ideal
  <2>2. CASE speed < 0
    <3>1. speed * 127 = -(127 * c)
      BY <1>1, <2>2 DEF Counts, Abs
    <3>2. Quot(-shown, range) = -u
      <4>1. shown \in Nat /\ range \in Nat \ {0}
        BY <1>2
      <4> HIDE DEF shown, range
      <4> QED
        BY <4>1, QuotEither
    <3> QED
      BY <2>1, <2>2, <3>1, <3>2
  <2>3. CASE speed >= 0
    <3>1. speed * 127 = 127 * c
      BY <1>1, <2>3 DEF Counts, Abs
    <3>2. Quot(shown, range) = u
      <4>1. shown \in Nat /\ range \in Nat \ {0}
        BY <1>2
      <4> HIDE DEF shown, range
      <4> QED
        BY <4>1, QuotEither
    <3> QED
      BY <1>1, <2>1, <2>3, <3>1, <3>2
  <2> QED
    BY <1>1, <2>2, <2>3
<1>5. u >= 7 /\ Abs(Ideal) <= u /\ Abs(Ideal) <= 127
  <2>1. Flat >= 6 /\ Flat \in Nat
    BY MapperAssumption DEF Steady
  <2> HIDE DEF u
  <2> QED
    BY <1>1, <1>3, <1>4, <2>1 DEF clamp_axis, AXIS_MAX, Abs
<1>6. 127 * c >= 672 * Period
  <2> HIDE DEF u, k, c
  <2>1. 7 * (Period * k) <= u * (Period * k)
    BY <1>2, <1>3, <1>5, Monotone
  <2>2. 96 * Period <= k * Period
    BY <1>1, Monotone
  <2> DEFINE p == Period * k
             q == u * (Period * k)
  <2>3. k * Period = p /\ p \in Int /\ q \in Int /\ 7 * p <= q /\ q <= 127 * c
    BY <1>1, <1>3, <2>1
  <2> HIDE DEF p, q
  <2> QED
    BY <1>1, <2>2, <2>3
<1>7. PICK l \in Nat : Period * l >= 2341 /\ Along >= l * c
  BY <1>6, SettledAverage
<1>8. Along \in Nat
  <2> HIDE DEF c
  <2>1. l * c >= 0
    BY <1>1
  <2> QED
    BY <1>1, <1>7, <2>1
<1>9. r \in Nat /\ Along * 127 < r * (k * 4096) + k * 4096
  <2>1. held \in Nat
    BY <1>8
  <2>2. r \in Nat /\ held < r * full + full
    <3> HIDE DEF held, full
    <3> QED
      BY <1>2, <2>1, Division
  <2> QED
    BY <2>2
<1>10. 2 * r >= u
  <2> HIDE DEF u, r, k, c
  <2> QED
    BY <1>1, <1>3, <1>5, <1>7, <1>8, <1>9, HalfShown
<1>11. stick_from_mouse(Along) = clamp_axis(r)
  <2>1. Along * AXIS_MAX * (Rate \div 100) = held /\ held \in Nat
    BY <1>1, <1>8 DEF AXIS_MAX
  <2> HIDE DEF held, full
  <2>2. Quot(held, full) = r
    BY <1>2, <2>1, QuotEither
  <2> QED
    BY <1>2, <2>1, <2>2 DEF stick_from_mouse
<1>12. pad.rx = IF speed < 0 THEN -clamp_axis(r) ELSE clamp_axis(r)
  <2>1. pad.rx = stick_from_mouse(ema)
    BY DEF SteadyInv
  <2>2. CASE speed < 0
    <3>1. Along = -ema
      BY <2>2 DEF Along
    <3>2. stick_from_mouse(-ema) = -stick_from_mouse(ema)
      BY <1>1, StickMirrored
    <3>3. stick_from_mouse(ema) \in Axis
      BY <1>1, MapperTypeOK, <2>1 DEF MapperTypeOK, PadStates
    <3>4. pad.rx \in Int
      BY <2>1, <3>3 DEF Axis, AXIS_MAX
    <3> QED
      BY <1>11, <2>1, <2>2, <3>1, <3>2, <3>4
  <2>3. CASE ~(speed < 0)
    BY <1>11, <2>1, <2>3 DEF Along
  <2> QED
    BY <2>2, <2>3
<1> HIDE DEF u, r
<1>13. speed # 0
  <2>1. speed = 0 => c = 0
    BY DEF Counts, Abs
  <2> HIDE DEF c
  <2> QED
    BY <1>1, <1>6, <2>1
<1>14. clamp_axis(r) \in Nat /\ clamp_axis(r) > 0 /\ 2 * clamp_axis(r) >= Abs(Ideal)
  <2>1. Abs(Ideal) \in Int
    BY <1>3, <1>4 DEF clamp_axis, AXIS_MAX, Abs
  <2> QED
    BY <1>3, <1>5, <1>9, <1>10, <2>1 DEF clamp_axis, AXIS_MAX
<1> DEFINE y == clamp_axis(r)
<1> HIDE DEF y
<1>15. /\ y \in Nat /\ y > 0 /\ 2 * y >= Abs(Ideal)
       /\ pad.rx = IF speed < 0 THEN -y ELSE y
  BY <1>12, <1>14 DEF y
<1>16. 2 * Abs(pad.rx) >= Abs(Ideal)
  <2>1. Abs(pad.rx) = y
    BY <1>1, <1>15 DEF Abs
  <2> QED
    BY <1>15, <2>1
<1>17. (pad.rx > 0) = (speed > 0)
  BY <1>1, <1>13, <1>15
<1> QED
  BY <1>16, <1>17

\* A mouse that keeps its speed holds the stick, whatever that speed and whatever the motion before:
\* 64 ticks on, the stick is on the mouse's side and at half of its deflection at least, between
\* two reports too (ema_step, stick_from_mouse).
THEOREM HoldsSteadyAlways ==
  ASSUME Steady
  PROVE  Spec => []HoldsSteady
<1>1. Init => SteadyInv
  BY SteadyInit
<1>2. MapperTypeOK /\ MapperTypeOK' /\ SteadyInv /\ [Next]_vars => SteadyInv'
  BY SteadyNext
<1>3. MapperTypeOK /\ SteadyInv => HoldsSteady
  BY SteadyHolds
<1> QED
  BY <1>1, <1>2, <1>3, MapperTypeCorrect, PTL DEF Spec
================================================================================
