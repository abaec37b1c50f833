------------------------------- MODULE MCUsbPad -------------------------------
(* Constants for the model checker: one key, one button, a fast mouse. *)
EXTENDS UsbPad

CONSTANTS none, w

MCHeld   == {none, w}
MCDeltas == {-3, 2}

===============================================================================
