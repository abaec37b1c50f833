------------------------------ MODULE InputState ------------------------------
(***************************************************************************)
(* The shared input accumulator of firmware/main/input_state.c: one record *)
(* of what the keyboard and the mouse hold, plus the mouse motion gathered *)
(* since the last read.  Every function of the file is one critical        *)
(* section, so each is one operator from the record before it to the       *)
(* record after it; the caller's action assigns the result.                *)
(*                                                                         *)
(* Data.  A keyboard state (modifiers and six keycodes) is one member of   *)
(* Keys, a button bitmap one member of Buttons.  Motion is a set of        *)
(* deltas, each the serial number of the mouse report that carried it: the *)
(* sums mouse_dx, mouse_dy and mouse_wheel are those of the deltas in the  *)
(* set, so a delta counted twice, or nowhere, shows.                       *)
(***************************************************************************)
EXTENDS Naturals

CONSTANTS
  Keys,       \* keyboard states a boot report can describe
  Buttons,    \* mouse button states
  Released    \* nothing held: modifiers, keycodes or buttons all zero

ASSUME ReleasedAssumption == Released \in Keys \cap Buttons

InputRecord ==
  [kbd: BOOLEAN, keys: Keys, mouse: BOOLEAN, buttons: Buttons, motion: SUBSET Nat]

\* The zero-initialised static s_state.
s_state_initial ==
  [kbd |-> FALSE, keys |-> Released,
   mouse |-> FALSE, buttons |-> Released, motion |-> {}]

\* Mutant: the sums are copied out and not cleared.
TakeWithoutClearing(s) == s

\* What input_state_take() leaves behind: held state stays, motion is cleared.
input_state_take(s) == [s EXCEPT !.motion = {}]

input_state_set_keyboard(s, keys) ==
  [s EXCEPT !.kbd = TRUE, !.keys = keys]

\* Mutant: the report replaces the sums.
ReplaceMouse(s, buttons, deltas) ==
  [s EXCEPT !.mouse = TRUE, !.buttons = buttons, !.motion = deltas]

input_state_accum_mouse(s, buttons, deltas) ==
  [s EXCEPT !.mouse = TRUE, !.buttons = buttons, !.motion = @ \cup deltas]

\* Mutant: presence alone, without releasing the keys.
ForgetKeyboard(s, present) == [s EXCEPT !.kbd = present]

input_state_set_keyboard_present(s, present) ==
  IF present THEN [s EXCEPT !.kbd = TRUE]
  ELSE [s EXCEPT !.kbd = FALSE, !.keys = Released]

input_state_set_mouse_present(s, present) ==
  IF present THEN [s EXCEPT !.mouse = TRUE]
  ELSE [s EXCEPT !.mouse = FALSE, !.buttons = Released, !.motion = {}]

===============================================================================
