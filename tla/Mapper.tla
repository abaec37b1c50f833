--------------------------------- MODULE Mapper ---------------------------------
(***************************************************************************)
(* The mapper task: what is held and how far the mouse has moved, turned   *)
(* into a pad state once per tick.  The mouse moves at a speed that it     *)
(* keeps until the stick has settled, and reports once in Period ticks.    *)
(* While the pad chip passes keyboard and mouse through, the tick is spent *)
(* on that and the filter is left as it is.                                *)
(***************************************************************************)
EXTENDS PadReports, FiniteSets

CONSTANTS
  Rate,      \* CONFIG_APP_REPORT_RATE_HZ, of hundreds
  Div,       \* CONFIG_APP_MOUSE_SCALE_DIV
  Period,    \* ticks between two reports of the mouse
  Speeds,    \* counts in a report of the mouse
  Warm,      \* ticks after which the stick has settled
  Flat,      \* what of the range a deflection may have and still be lost
  MaxHeld,   \* bound on the controls held
  MaxTurns   \* bound on changes of the mouse's speed and of the pad's mode

ASSUME MapperAssumption ==
  /\ Rate \in Nat \ {0} /\ Rate % 100 = 0 /\ Rate <= 1000
  /\ Div \in Nat \ {0} /\ Period \in Nat \ {0}
  /\ Speeds \subseteq Int /\ 0 \in Speeds
  /\ Warm \in Nat \ {0} /\ Flat \in Nat /\ MaxHeld \in Nat /\ MaxTurns \in Nat

VARIABLES
  ema,          \* s_ema_x
  speed,        \* of the mouse
  phase,        \* ticks since its last report
  since,        \* ticks of the pad since the speed or the mode changed, up to Warm
  pressed,      \* the keys, modifiers and mouse buttons held
  passthrough,  \* IO_SERVICE_MODE()
  pad,          \* out, of the last tick of the pad
  turns

vars == <<ema, speed, phase, since, pressed, passthrough, pad, turns>>

MOUSE_TAU_MS == 80
EMA_FRAC     == 4096
EMA_TICKS    == IF (Rate * MOUSE_TAU_MS) \div 1000 > 0 THEN (Rate * MOUSE_TAU_MS) \div 1000 ELSE 1

---------------------------------------------------------------------------------
\* The keys, the modifiers and the mouse buttons the mapper knows: the left stick, the d-pad, and
\* buttons 1 to 12.
WASD   == {"W", "A", "S", "D"}
Button == <<"LEFT", "RIGHT", "MIDDLE", "SPACE", "LSHIFT", "LCTRL", "E", "Q", "R", "F", "TAB", "ESC">>

Controls == WASD \union Directions \union {Button[b] : b \in Buttons}

\* HID_KEYS_MAX of the keyboard's array.
Arrayed == Controls \ {"LEFT", "RIGHT", "MIDDLE", "LSHIFT", "LCTRL"}

Step(down, less, more) == (IF more \in down THEN 1 ELSE 0) - (IF less \in down THEN 1 ELSE 0)

stick_from_wasd(down) ==
  LET x == Step(down, "A", "D")
      y == Step(down, "W", "S")
      magnitude == IF x # 0 /\ y # 0 THEN 90 ELSE AXIS_MAX
  IN  [x |-> x * magnitude, y |-> y * magnitude]

clamp_axis(v) == IF v > AXIS_MAX THEN AXIS_MAX ELSE IF v < -AXIS_MAX THEN -AXIS_MAX ELSE v

\* Mutant: the snap to zero is dropped.
ema_stepStalling(e, sample) == e + Quot(sample * EMA_FRAC - e, EMA_TICKS)

\* Mutant: every remainder below a count is dropped, the mouse moving or not.
ema_stepCoarse(e, sample) ==
  LET moved == e + Quot(sample * EMA_FRAC - e, EMA_TICKS)
  IN  EMA_FRAC * Quot(moved, EMA_FRAC)

ema_step(e, sample) ==
  LET moved == e + Quot(sample * EMA_FRAC - e, EMA_TICKS)
  IN  IF sample = 0 /\ moved > -EMA_FRAC /\ moved < EMA_FRAC THEN 0 ELSE moved

\* ema * AXIS_MAX * Rate / (Div * 400 * EMA_FRAC), both of them divided by 100.
stick_from_mouse(e) == clamp_axis(Quot(e * AXIS_MAX * (Rate \div 100), Div * 4 * EMA_FRAC))

buttons_from_state(down) == {b \in Buttons : Button[b] \in down}

dpad_from_keys(down) == down \cap Directions

Map(down, e) ==
  [lx |-> stick_from_wasd(down).x, ly |-> stick_from_wasd(down).y, rx |-> stick_from_mouse(e),
   buttons |-> buttons_from_state(down), dpad |-> dpad_from_keys(down)]

---------------------------------------------------------------------------------
Init ==
  /\ ema = 0 /\ speed = 0 /\ phase = 0 /\ since = Warm
  /\ pressed = {} /\ passthrough = FALSE /\ pad = Map({}, 0) /\ turns = 0

\* What IO_TAKE_STATE() has of the mouse.
Sample == IF phase = 0 THEN speed ELSE 0

\* mapper_task(): one report of the pad.
Tick ==
  /\ ~passthrough
  /\ ema' = ema_step(ema, Sample)
  /\ pad' = Map(pressed, ema')
  /\ phase' = (phase + 1) % Period
  /\ since' = IF since < Warm THEN since + 1 ELSE Warm
  /\ UNCHANGED <<speed, pressed, passthrough, turns>>

\* mapper_task(): the state goes to IO_PASSTHROUGH_SEND().
PassedOn ==
  /\ passthrough
  /\ phase' = (phase + 1) % Period
  /\ UNCHANGED <<ema, speed, since, pressed, passthrough, pad, turns>>

Settled == since = Warm

MouseTurns(s) ==
  /\ (Settled \/ passthrough) /\ s # speed /\ pressed = {} /\ turns < MaxTurns
  /\ speed' = s /\ since' = 0 /\ turns' = turns + 1
  /\ UNCHANGED <<ema, phase, pressed, passthrough, pad>>

\* Keys are pressed before the mouse first moves (they and the mouse meet in no operator), one
\* between two ticks.
Shown == turns = 0 /\ phase = 0 /\ pad = Map(pressed, ema)

Press(c) ==
  /\ Shown /\ c \notin pressed
  /\ Cardinality(pressed) < MaxHeld /\ (c \in Arrayed => Cardinality(pressed \cap Arrayed) < 6)
  /\ pressed' = pressed \union {c}
  /\ UNCHANGED <<ema, speed, phase, since, passthrough, pad, turns>>

Release(c) ==
  /\ Shown /\ c \in pressed
  /\ pressed' = pressed \ {c}
  /\ UNCHANGED <<ema, speed, phase, since, passthrough, pad, turns>>

SwitchMode ==
  /\ pressed = {} /\ turns < MaxTurns /\ (Settled \/ passthrough)
  /\ passthrough' = ~passthrough /\ since' = 0 /\ turns' = turns + 1
  /\ UNCHANGED <<ema, speed, phase, pressed, pad>>

Next ==
  \/ Tick \/ PassedOn \/ SwitchMode
  \/ \E s \in Speeds : MouseTurns(s)
  \/ \E c \in Controls : Press(c) \/ Release(c)

Spec == Init /\ [][Next]_vars

---------------------------------------------------------------------------------
\* Every field of the pad state is within what the report's bytes can say.
MapperTypeOK ==
  /\ ema \in Int /\ speed \in Speeds /\ phase \in 0 .. Period - 1 /\ since \in 0 .. Warm
  /\ pressed \subseteq Controls /\ passthrough \in BOOLEAN /\ pad \in PadStates /\ turns \in 0 .. MaxTurns

\* Switching the transport does not change what a key does: of every pad state the mapper makes,
\* the BLE report and the USB report name the same buttons, the same triggers, the same direction
\* of the d-pad with opposites cancelled alike, and the same place of either stick.
TransportsAgree == Agree(build_report(pad), usb_pad_report(pad))

\* The deflection the speed of the mouse stands for, were the filter exact.
Ideal == clamp_axis(Quot(speed * AXIS_MAX * (Rate \div 100), Period * Div * 4))

\* A mouse that keeps its speed holds the stick: once the filter has settled, however few of the
\* ticks bring a report, the stick is on the mouse's side and at half of its deflection at least.
\* (A deflection of Flat and less may be lost.)
HoldsSteady ==
  Settled /\ ~passthrough /\ Abs(Ideal) > Flat =>
    /\ 2 * Abs(pad.rx) >= Abs(Ideal)
    /\ (pad.rx > 0) = (speed > 0)

\* The filter does not stall off centre: a tick that brings no motion leaves the average nearer
\* to zero than it was, or at zero.
NeverStalls ==
  [][Tick /\ Sample = 0 => ema' = 0 \/ Abs(ema') < Abs(ema)]_vars
================================================================================
