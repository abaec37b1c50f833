------------------------------ MODULE MCUsbSplit ------------------------------
(* Constants for the model checker: two keyboards or one, and a mouse. *)
EXTENDS UsbSplit

CONSTANTS none, w, ctrlAlt, combo, k1, k2, m1

MCKeys       == {none, w, combo}
MCModKeys    == {none, ctrlAlt, combo}
MCTwoKeys    == {none, combo}
MCButtons    == {none, w}
MCNoButtons  == {none}
MCKeyboards  == {k1}
MCKeyboards2 == {k1, k2}
MCDevices    == {k1, m1}
MCDevices3   == {k1, k2, m1}
MCMouse      == {m1}
MCNoKeyboard == {}

MCModsOf ==
  [k \in Keys |-> IF ctrlAlt \in Keys /\ k \in {ctrlAlt, combo} THEN ctrlAlt ELSE none]

===============================================================================
