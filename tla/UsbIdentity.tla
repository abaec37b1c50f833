----------------------------- MODULE UsbIdentity ------------------------------
(***************************************************************************)
(* Which USB device the pad chip is: the mode switch of usb_pad.c.  The    *)
(* link task asks for a mode at any moment (usb_pad_request_mode only      *)
(* stores it); the mapper task applies it once per tick.  The request is   *)
(* read twice, to see that it differs and to say what to become, and the   *)
(* switch takes the USB stack down and up again; a new request may arrive  *)
(* before each, so a switch is three steps.                                *)
(***************************************************************************)
EXTENDS Naturals

CONSTANT MaxUsbFaults   \* bound on the stack calls that may fail

ASSUME UsbFaultsAssumption == MaxUsbFaults \in Nat

VARIABLES
  want,         \* s_want_passthrough, written by the link task too
  passthrough,  \* s_passthrough
  target,       \* the identity being switched to; "unread" once the request
                \* is seen to differ, "none" between switches
  identity,     \* what is on the bus: "pad", "hid", or "none"
  usbFaults     \* failed calls so far

identityVars == <<want, passthrough, target, identity, usbFaults>>

Identities == {"pad", "hid"}

IdentityOf(pt) == IF pt THEN "hid" ELSE "pad"

\* usb_pad_start() has installed the pad; a failure there aborts the boot.
IdentityInit ==
  /\ want = FALSE
  /\ passthrough = FALSE
  /\ target = "none"
  /\ identity = "pad"
  /\ usbFaults = 0

IdentityTypeOK ==
  /\ want \in BOOLEAN /\ passthrough \in BOOLEAN
  /\ target \in Identities \cup {"none", "unread"}
  /\ identity \in Identities \cup {"none"}
  /\ usbFaults \in Nat

\* Mutant: a request toggles.
toggle_mode(pt) == want' = ~want

usb_pad_request_mode(pt) == want' = pt

\* The tick finds nothing to do.
ModeInForce ==
  /\ target = "none"
  /\ want = passthrough
  /\ UNCHANGED identityVars

\* The request differs from what is in force.
BeginSwitch ==
  /\ target = "none"
  /\ want # passthrough
  /\ target' = "unread"
  /\ UNCHANGED <<want, passthrough, identity, usbFaults>>

\* It is read again, into the local target, and the stack calls begin.  A
\* request withdrawn in between has the same identity installed anew.
ReadTarget ==
  /\ target = "unread"
  /\ target' = IdentityOf(want)
  /\ UNCHANGED <<want, passthrough, identity, usbFaults>>

\* tinyusb_driver_uninstall() fails, as it must when nothing is installed: the
\* request is overwritten.
UninstallFails ==
  /\ target \in Identities
  /\ \/ identity = "none" /\ UNCHANGED usbFaults
     \/ identity # "none" /\ usbFaults < MaxUsbFaults /\ usbFaults' = usbFaults + 1
  /\ want' = passthrough
  /\ target' = "none"
  /\ UNCHANGED <<passthrough, identity>>

\* Uninstalled, and an install is next.
Uninstalled == target \in Identities /\ identity # "none"

InstallSucceeds ==
  /\ Uninstalled
  /\ identity' = target
  /\ passthrough' = (target = "hid")
  /\ target' = "none"
  /\ UNCHANGED <<want, usbFaults>>

\* Mutant: the fallback does not record the mode it fell back to.
FallBackUnrecorded ==
  /\ Uninstalled
  /\ usbFaults < MaxUsbFaults
  /\ usbFaults' = usbFaults + 1
  /\ identity' = "pad"
  /\ want' = FALSE
  /\ target' = "none"
  /\ UNCHANGED passthrough

\* The wanted identity does not come up and the pad does.
FallBackToPad ==
  /\ Uninstalled
  /\ usbFaults < MaxUsbFaults
  /\ usbFaults' = usbFaults + 1
  /\ identity' = "pad"
  /\ passthrough' = FALSE
  /\ want' = FALSE
  /\ target' = "none"

\* Neither comes up: nothing is recorded, and the request still stands; the
\* next uninstall will fail.
BothInstallsFail ==
  /\ Uninstalled
  /\ usbFaults + 1 < MaxUsbFaults
  /\ usbFaults' = usbFaults + 2
  /\ identity' = "none"
  /\ target' = "none"
  /\ UNCHANGED <<want, passthrough>>

EndSwitch ==
  \/ UninstallFails
  \/ InstallSucceeds
  \/ FallBackToPad
  \/ BothInstallsFail

===============================================================================
