----------------------------- MODULE UsbPadProofs -----------------------------
(***************************************************************************)
(* Theorems about the report path of the pad chip, for any keys, buttons   *)
(* and motion, any size of a report, and any bounds on faults.             *)
(***************************************************************************)
EXTENDS UsbPad, TLAPS

---------------------------------------------------------------------------
(* The mode switch. *)

\* The mode switch: a tick of the mapper that looks, and one that comes back.
LEMMA SwitchTypes ==
  ASSUME IdentityTypeOK, ModeInForce \/ BeginSwitch \/ ReadTarget \/ EndSwitch
  PROVE  IdentityTypeOK'
<1> USE DEF IdentityTypeOK, Identities
<1>1. CASE ModeInForce
  BY <1>1 DEF ModeInForce, identityVars
<1>2. CASE BeginSwitch \/ ReadTarget
  BY <1>2 DEF BeginSwitch, ReadTarget, IdentityOf
<1>3. CASE UninstallFails
  BY <1>3 DEF UninstallFails
<1>4. CASE InstallSucceeds
  BY <1>4 DEF InstallSucceeds, Uninstalled
<1>5. CASE FallBackToPad
  <2>1. usbFaults' \in Nat
    BY <1>5 DEF FallBackToPad
  <2> QED
    BY <1>5, <2>1 DEF FallBackToPad
<1>6. CASE BothInstallsFail
  BY <1>6 DEF BothInstallsFail
<1> QED
  BY <1>1, <1>2, <1>3, <1>4, <1>5, <1>6 DEF EndSwitch

---------------------------------------------------------------------------
(* Transfers. *)

\* What a transfer of each kind carries.
LEMMA TransferKinds ==
  ASSUME NEW t \in Transfer
  PROVE  /\ t.kind \in {"none", "pad", "keyboard", "mouse"}
         /\ t.kind = "none" <=> t = NoTransfer
         /\ t.kind = "pad" => t.held \in Held
         /\ t.kind = "keyboard" => t.keys \in Keys
         /\ t.kind = "mouse" => t.buttons \in Buttons /\ t.delta \in Int
  BY PadAssumption DEF Transfer, NoTransfer

LEMMA DeltaType ==
  ASSUME NEW t \in Transfer
  PROVE  Delta(t) \in Int
  BY TransferKinds DEF Delta

LEMMA NoTransferFacts ==
  NoTransfer \in Transfer /\ NoTransfer.kind = "none" /\ Delta(NoTransfer) = 0
  BY DEF NoTransfer, Transfer, Delta

\* A report carries no more than fits.
LEMMA ClampRange ==
  ASSUME NEW v \in Int
  PROVE  clamp8(v) \in -ReportMax..ReportMax /\ clamp8(v) \in Int
  BY PadAssumption DEF clamp8

\* The reports the three submissions build are transfers.
LEMMA ReportTypes ==
  /\ \A h \in Held : [kind |-> "pad", held |-> h] \in Transfer
  /\ \A k \in Keys : [kind |-> "keyboard", keys |-> k] \in Transfer
  /\ \A b \in Buttons, d \in -ReportMax..ReportMax :
       [kind |-> "mouse", buttons |-> b, delta |-> d] \in Transfer
  BY DEF Transfer

LEMMA NeutralType == Neutral \in Held
  BY PadAssumption DEF Neutral, Held

LEMMA HeldFields ==
  ASSUME NEW h \in Held
  PROVE  /\ h.keys \in Keys /\ h.buttons \in Buttons
         /\ \A k \in Keys : [h EXCEPT !.keys = k] \in Held
         /\ \A b \in Buttons : [h EXCEPT !.buttons = b] \in Held
  BY DEF Held

---------------------------------------------------------------------------
(* Types. *)

LEMMA PadTypeInit == Init => PadTypeOK
<1> SUFFICES ASSUME Init PROVE PadTypeOK
  OBVIOUS
<1>1. IdentityTypeOK
  BY DEF Init, IdentityInit, IdentityTypeOK, Identities
<1>2. out \in [held: Held, delta: Int]
  BY NeutralType DEF Init
<1> QED
  BY <1>1, <1>2, PadAssumption, NeutralType, NoTransferFacts DEF Init, PadTypeOK

LEMMA PadTypeNext == PadTypeOK /\ [Next]_vars => PadTypeOK'
<1> SUFFICES ASSUME PadTypeOK, [Next]_vars PROVE PadTypeOK'
  OBVIOUS
<1> USE DEF PadTypeOK
<1>d. Delta(inFlight) \in Int
  BY DeltaType
<1>1. CASE ChangeHeld
  BY <1>1 DEF ChangeHeld, identityVars, taskVars, ptVars, busVars, IdentityTypeOK
<1>2. CASE Move
  BY <1>2, PadAssumption
  DEF Move, identityVars, taskVars, ptVars, busVars, IdentityTypeOK
<1>3. CASE RequestMode
  BY <1>3 DEF RequestMode, usb_pad_request_mode, worldVars, taskVars, ptVars,
              busVars, IdentityTypeOK
<1>4. CASE TakeState \/ ReadRequest
  <2>1. IdentityTypeOK'
    BY <1>4, SwitchTypes DEF TakeState, ReadRequest
  <2> QED
    BY <1>4, <2>1 DEF TakeState, ReadRequest, worldVars, taskVars, ptVars, busVars, bounds
<1>5. CASE FinishSwitch
  <2>1. IdentityTypeOK'
    BY <1>5, SwitchTypes DEF FinishSwitch, EndSwitch
  <2>2. ASSUME LeaveBus
        PROVE  mounted' \in BOOLEAN /\ inFlight' \in Transfer /\ host' \in Held
               /\ heard' \in BOOLEAN /\ seen' \in Int
    BY <2>2, NoTransferFacts, NeutralType DEF LeaveBus
  <2>3. ASSUME ClearPassthrough
        PROVE  /\ carry' \in Int /\ ptButtons' \in Buttons /\ ptKeys' \in Keys
               /\ kbdDirty' \in BOOLEAN /\ spent' \in Int
    <3>1. spent' = spent + Delta(inFlight) + carry /\ carry' = 0
      BY <2>3 DEF ClearPassthrough
    <3>2. spent' \in Int /\ carry' \in Int
      BY <1>d, <3>1
    <3> QED
      BY <2>3, <3>2, PadAssumption DEF ClearPassthrough
  <2>4. report' \in Held /\ open' \in BOOLEAN
    BY <1>5, NeutralType DEF FinishSwitch
  <2>5. /\ mounted' \in BOOLEAN /\ inFlight' \in Transfer /\ host' \in Held
        /\ heard' \in BOOLEAN /\ seen' \in Int
    BY <1>5, <2>2 DEF FinishSwitch, busVars
  <2>6. /\ carry' \in Int /\ ptButtons' \in Buttons /\ ptKeys' \in Keys
        /\ kbdDirty' \in BOOLEAN /\ spent' \in Int
    BY <1>5, <1>d, <2>3 DEF FinishSwitch, ptVars
  <2> QED
    BY <1>5, <2>1, <2>4, <2>5, <2>6
    DEF FinishSwitch, worldVars, taskVars, bounds
<1>6. CASE PadCheck
  BY <1>6, HeldFields
  DEF PadCheck, identityVars, worldVars, ptVars, busVars, bounds, IdentityTypeOK
<1>7. CASE PadSubmit
  <2>1. report' \in Held /\ inFlight' \in Transfer
    BY <1>7, ReportTypes DEF PadSubmit, LeaveToNextTick, Submit
  <2> QED
    BY <1>7, <2>1
    DEF PadSubmit, identityVars, worldVars, ptVars, bounds, IdentityTypeOK
<1>8. CASE HidCheck
  BY <1>8, HeldFields
  DEF HidCheck, KeyboardChanged, identityVars, worldVars, busVars, bounds,
      IdentityTypeOK
<1>9. CASE KeyboardSubmit
  <2>1. inFlight' \in Transfer
    BY <1>9, ReportTypes DEF KeyboardSubmit, Submit
  <2> QED
    BY <1>9, <2>1
    DEF KeyboardSubmit, identityVars, worldVars, bounds, IdentityTypeOK
<1>10. CASE MouseSubmit
  <2>1. inFlight' \in Transfer
    BY <1>10, ReportTypes, ClampRange DEF MouseSubmit, Submit
  <2>2. carry' \in Int /\ lastButtons' \in Buttons
    BY <1>10, ClampRange DEF MouseSubmit, CarryAfter
  <2> QED
    BY <1>10, <2>1, <2>2
    DEF MouseSubmit, identityVars, worldVars, bounds, IdentityTypeOK
<1>11. CASE Configure
  BY <1>11 DEF Configure, identityVars, worldVars, taskVars, ptVars, bounds,
               IdentityTypeOK
<1>12. CASE BusReset
  <2>1. spent' \in Int /\ resets' \in Nat
    BY <1>12, <1>d DEF BusReset
  <2> QED
    BY <1>12, <2>1, NoTransferFacts, NeutralType
    DEF BusReset, LeaveBus, identityVars, worldVars, taskVars, ptVars,
        IdentityTypeOK
<1>13. CASE HostPolls
  <2>1. host' \in Held
    BY <1>13, TransferKinds, HeldFields DEF HostPolls
  <2>2. seen' \in Int /\ heard' \in BOOLEAN
    BY <1>13, <1>d DEF HostPolls
  <2> QED
    BY <1>13, <2>1, <2>2, NoTransferFacts
    DEF HostPolls, identityVars, worldVars, taskVars, ptVars, bounds,
        IdentityTypeOK
<1>14. CASE UNCHANGED vars
  BY <1>14 DEF vars, identityVars, worldVars, taskVars, ptVars, busVars, bounds,
               IdentityTypeOK
<1> QED
  BY <1>1, <1>2, <1>3, <1>4, <1>5, <1>6, <1>7, <1>8, <1>9, <1>10, <1>11, <1>12,
     <1>13, <1>14
  DEF Next, mapper_task, bus

\* Every variable of usb_pad.c keeps its type; above all no mouse report ever
\* carries more motion than its signed byte holds.
THEOREM PadTypeCorrect == Spec => []PadTypeOK
  BY PadTypeInit, PadTypeNext, PTL DEF Spec

---------------------------------------------------------------------------
(* Motion. *)

LEMMA MotionInit == Init => MotionIsConserved
  BY NoTransferFacts DEF Init, MotionIsConserved, Taken


LEMMA MotionNext ==
  PadTypeOK /\ PadTypeOK' /\ MotionIsConserved /\ [Next]_vars => MotionIsConserved'
<1> SUFFICES ASSUME PadTypeOK, PadTypeOK', MotionIsConserved, [Next]_vars
             PROVE  MotionIsConserved'
  OBVIOUS
<1> DEFINE d == Delta(inFlight)
<1>t. /\ motion \in Int /\ carry \in Int /\ moved \in Int /\ seen \in Int
      /\ spent \in Int /\ out.delta \in Int /\ d \in Int /\ Taken \in Int
      /\ moved = seen + d + carry + Taken + motion + spent
  BY DeltaType DEF PadTypeOK, Taken, MotionIsConserved
<1>n. ASSUME inFlight' = NoTransfer PROVE d' = 0
  BY <1>n, NoTransferFacts
<1> HIDE DEF d
<1>q. ASSUME moved' = seen' + d' + carry' + Taken' + motion' + spent'
      PROVE  MotionIsConserved'
  BY <1>q DEF MotionIsConserved, d
<1>1. CASE ChangeHeld
  <2>1. UNCHANGED <<moved, seen, d, carry, Taken, motion, spent>>
    BY <1>1 DEF ChangeHeld, taskVars, ptVars, busVars, d, Taken
  <2> QED
    BY <1>t, <1>q, <2>1
<1>2. CASE Move
  <2>1. PICK n \in Deltas : motion' = motion + n /\ moved' = moved + n
    BY <1>2 DEF Move
  <2>2. UNCHANGED <<seen, d, carry, Taken, spent>>
    BY <1>2 DEF Move, taskVars, ptVars, busVars, d, Taken
  <2>3. n \in Int
    BY <2>1, PadAssumption
  <2> QED
    BY <1>t, <1>q, <2>1, <2>2, <2>3
<1>3. CASE RequestMode
  <2>1. UNCHANGED <<moved, seen, d, carry, Taken, motion, spent>>
    BY <1>3 DEF RequestMode, worldVars, taskVars, ptVars, busVars, d, Taken
  <2> QED
    BY <1>t, <1>q, <2>1
<1>4. CASE TakeState
  <2>1. UNCHANGED <<moved, seen, d, carry, spent>>
    BY <1>4 DEF TakeState, ptVars, busVars, d
  <2>2. Taken = 0 /\ Taken' = motion /\ motion' = 0
    BY <1>4 DEF TakeState, Taken
  <2> QED
    BY <1>t, <1>q, <2>1, <2>2
<1>r. CASE ReadRequest
  <2>1. UNCHANGED <<moved, seen, d, carry, Taken, motion, spent>>
    BY <1>r DEF ReadRequest, worldVars, taskVars, ptVars, busVars, d, Taken
  <2> QED
    BY <1>t, <1>q, <2>1
<1>5. CASE FinishSwitch
  <2>1. UNCHANGED <<moved, motion, Taken>>
    BY <1>5 DEF FinishSwitch, worldVars, taskVars, Taken
  <2>2. \/ UNCHANGED <<ptVars, busVars, spent>>
        \/ LeaveBus /\ ClearPassthrough
        \/ LeaveBus /\ spent' = spent + d /\ UNCHANGED ptVars
    BY <1>5 DEF FinishSwitch, d
  <2>3. CASE UNCHANGED <<ptVars, busVars, spent>>
    <3>1. UNCHANGED <<seen, d, carry, spent>>
      BY <2>3 DEF ptVars, busVars, d
    <3> QED
      BY <1>t, <1>q, <2>1, <3>1
  <2>4. ASSUME LeaveBus PROVE d' = 0 /\ seen' = seen
    BY <2>4, <1>n DEF LeaveBus
  <2>5. CASE LeaveBus /\ ClearPassthrough
    <3>1. carry' = 0 /\ spent' = spent + d + carry
      BY <2>5 DEF ClearPassthrough, d
    <3> QED
      BY <1>t, <1>q, <2>1, <2>4, <2>5, <3>1
  <2>6. CASE LeaveBus /\ spent' = spent + d /\ UNCHANGED ptVars
    <3>1. carry' = carry
      BY <2>6 DEF ptVars
    <3> QED
      BY <1>t, <1>q, <2>1, <2>4, <2>6, <3>1
  <2> QED
    BY <2>2, <2>3, <2>5, <2>6
<1>6. CASE PadCheck
  <2>1. UNCHANGED <<moved, seen, d, carry, motion>>
    BY <1>6 DEF PadCheck, worldVars, ptVars, busVars, d
  <2>2. Taken = out.delta /\ Taken' = 0 /\ spent' = spent + out.delta
    BY <1>6 DEF PadCheck, Taken
  <2> QED
    BY <1>t, <1>q, <2>1, <2>2
<1>7. CASE PadSubmit
  <2>1. UNCHANGED <<moved, seen, carry, motion, spent>> /\ Taken = 0 /\ Taken' = 0
    BY <1>7 DEF PadSubmit, worldVars, ptVars, Taken
  <2>2. d' = d
    <3>1. CASE UNCHANGED inFlight
      BY <3>1 DEF d
    <3>2. CASE inFlight = NoTransfer
               /\ Submit([kind |-> "pad", held |-> out.held])
      BY <3>2, NoTransferFacts DEF d, Submit, Delta
    <3> QED
      BY <1>7, <3>1, <3>2 DEF PadSubmit, LeaveToNextTick
  <2> QED
    BY <1>t, <1>q, <2>1, <2>2
<1>8. CASE HidCheck
  <2>1. UNCHANGED <<moved, seen, d, motion, spent>>
    BY <1>8 DEF HidCheck, worldVars, busVars, d
  <2>2. Taken = out.delta /\ Taken' = 0 /\ carry' = carry + out.delta
    BY <1>8 DEF HidCheck, Taken
  <2> QED
    BY <1>t, <1>q, <2>1, <2>2
<1>9. CASE KeyboardSubmit
  <2>1. UNCHANGED <<moved, seen, carry, motion, spent>> /\ Taken = 0 /\ Taken' = 0
    BY <1>9 DEF KeyboardSubmit, worldVars, Taken
  <2>2. d' = d
    BY <1>9, NoTransferFacts DEF KeyboardSubmit, Submit, d, Delta
  <2> QED
    BY <1>t, <1>q, <2>1, <2>2
<1>10. CASE MouseSubmit
  <2>1. UNCHANGED <<moved, seen, motion, spent>> /\ Taken = 0 /\ Taken' = 0
    BY <1>10 DEF MouseSubmit, worldVars, Taken
  <2> DEFINE c == clamp8(carry)
  <2>2. c \in Int
    BY <1>t, ClampRange
  <2>3. \/ carry' = carry /\ inFlight' = inFlight
        \/ /\ Accepted
           /\ carry' = carry - c
           /\ inFlight' = [kind |-> "mouse", buttons |-> ptButtons, delta |-> c]
    BY <1>10 DEF MouseSubmit, CarryAfter, Submit, Accepted
  <2>4. d' + carry' = d + carry
    <3>1. CASE carry' = carry /\ inFlight' = inFlight
      BY <1>t, <3>1 DEF d
    <3>2. CASE /\ Accepted
               /\ carry' = carry - c
               /\ inFlight' = [kind |-> "mouse", buttons |-> ptButtons, delta |-> c]
      <4>1. d = 0
        BY <3>2, NoTransferFacts DEF Accepted, d
      <4>2. d' = c
        BY <3>2 DEF d, Delta
      <4> QED
        BY <1>t, <2>2, <3>2, <4>1, <4>2
    <3> QED
      BY <2>3, <3>1, <3>2
  <2>5. d' \in Int /\ carry' \in Int
    BY DeltaType DEF PadTypeOK, d
  <2> HIDE DEF c
  <2>6. moved' = seen' + (d' + carry') + Taken' + motion' + spent'
    BY <1>t, <2>1, <2>4
  <2>7. moved' = seen' + d' + carry' + Taken' + motion' + spent'
    <3>1. seen' \in Int /\ Taken' \in Int /\ motion' \in Int /\ spent' \in Int
      BY <1>t, <2>1
    <3>2. d' \in Int /\ carry' \in Int
      BY <2>5
    <3> QED
      BY <3>1, <3>2, <2>6
  <2> QED
    BY <1>q, <2>7
<1>11. CASE Configure
  <2>1. UNCHANGED <<moved, seen, d, carry, Taken, motion, spent>>
    BY <1>11 DEF Configure, worldVars, taskVars, ptVars, d, Taken
  <2> QED
    BY <1>t, <1>q, <2>1
<1>12. CASE BusReset
  <2>1. UNCHANGED <<moved, carry, Taken, motion>>
    BY <1>12 DEF BusReset, worldVars, taskVars, ptVars, Taken
  <2>2. d' = 0 /\ seen' = seen /\ spent' = spent + d
    BY <1>12, <1>n DEF BusReset, LeaveBus, d
  <2> QED
    BY <1>t, <1>q, <2>1, <2>2
<1>13. CASE HostPolls
  <2>1. UNCHANGED <<moved, carry, Taken, motion, spent>>
    BY <1>13 DEF HostPolls, worldVars, taskVars, ptVars, Taken
  <2>2. d' = 0 /\ seen' = seen + d
    BY <1>13, <1>n DEF HostPolls, d
  <2> QED
    BY <1>t, <1>q, <2>1, <2>2
<1>14. CASE UNCHANGED vars
  <2>1. UNCHANGED <<moved, seen, d, carry, Taken, motion, spent>>
    BY <1>14 DEF vars, worldVars, taskVars, ptVars, busVars, d, Taken
  <2> QED
    BY <1>t, <1>q, <2>1
<1> QED
  BY <1>1, <1>2, <1>3, <1>4, <1>r, <1>5, <1>6, <1>7, <1>8, <1>9, <1>10, <1>11, <1>12,
     <1>13, <1>14
  DEF Next, mapper_task, bus

\* usb_pad_send_passthrough() never loses, repeats or invents motion, however
\* ticks, polls, refusals, resets and switches of the identity interleave.
THEOREM MotionConserved == Spec => []MotionIsConserved
<1>1. PadTypeOK /\ MotionIsConserved /\ PadTypeOK' /\ [Next]_vars
        => MotionIsConserved'
  BY MotionNext
<1> QED
  BY <1>1, MotionInit, PadTypeCorrect, PTL DEF Spec

---------------------------------------------------------------------------
(* Reports that are not sent again. *)

LastReport == [kind |-> "pad", held |-> report]

\* A transfer is one of the identity on the bus, and that of the pad carries
\* what s_report still says; the identity changes in no tick that is about to
\* submit.  While nobody resets the bus, the readiness check stays true until
\* the submission, and the PC knows the last report or is about to.
PadInv ==
  /\ inFlight.kind = "pad" => identity = "pad" /\ inFlight = LastReport
  /\ inFlight.kind \in {"keyboard", "mouse"} => identity = "hid"
  /\ open => identity = "pad"
  /\ target # "none" => pc = "send"
  /\ pc = "submit" => identity = IdentityOf(passthrough)
  /\ pc = "submit" /\ ~passthrough /\ resets = 0 => open /\ mounted
  /\ identity = "pad" /\ resets = 0 => host = report \/ inFlight = LastReport

LEMMA PadInvInit == Init => PadInv
  BY NoTransferFacts DEF Init, IdentityInit, PadInv

LEMMA PadInvNext == PadTypeOK /\ PadInv /\ [Next]_vars => PadInv'
<1> SUFFICES ASSUME PadTypeOK, PadInv, [Next]_vars PROVE PadInv'
  OBVIOUS
<1>k. /\ inFlight.kind \in {"none", "pad", "keyboard", "mouse"}
      /\ inFlight.kind = "none" <=> inFlight = NoTransfer
  BY TransferKinds DEF PadTypeOK
<1> USE DEF PadInv, LastReport, IdentityOf
<1>1. CASE ChangeHeld
  BY <1>1 DEF ChangeHeld, identityVars, taskVars, busVars
<1>2. CASE Move
  BY <1>2 DEF Move, identityVars, taskVars, busVars
<1>3. CASE RequestMode
  BY <1>3 DEF RequestMode, taskVars, busVars
<1>4. CASE TakeState
  BY <1>4 DEF TakeState, ModeInForce, BeginSwitch, identityVars, busVars, bounds
<1>r. CASE ReadRequest
  BY <1>r DEF ReadRequest, ReadTarget, taskVars, busVars, bounds
<1>5. CASE FinishSwitch
  <2>1. target # "none" /\ target' = "none" /\ pc = "send" /\ pc' = "send"
    BY <1>5 DEF FinishSwitch, UninstallFails, InstallSucceeds, FallBackToPad,
                BothInstallsFail, Uninstalled, Identities, taskVars
  <2>2. CASE UNCHANGED <<identity, report, open, busVars>>
    BY <1>5, <2>1, <2>2 DEF FinishSwitch, busVars, bounds
  <2>3. CASE LeaveBus /\ report' = Neutral /\ open' = FALSE
    BY <2>1, <2>3, NoTransferFacts DEF LeaveBus
  <2> QED
    BY <1>5, <2>2, <2>3 DEF FinishSwitch, UninstallFails
<1>6. CASE PadCheck
  BY <1>6 DEF PadCheck, identityVars, busVars, bounds
<1>7. CASE PadSubmit
  <2>1. /\ pc' = "idle" /\ target = "none" /\ identity = "pad"
        /\ UNCHANGED <<identityVars, open, mounted, host, resets>>
    BY <1>7 DEF PadSubmit, bounds
  <2>2. CASE UNCHANGED <<report, inFlight>>
    BY <2>1, <2>2 DEF identityVars
  <2>3. CASE /\ inFlight = NoTransfer
             /\ report' = out.held
             /\ Submit([kind |-> "pad", held |-> out.held])
    <3>1. CASE mounted
      BY <2>1, <2>3, <3>1 DEF Submit, identityVars
    <3>2. CASE ~mounted
      BY <1>7, <2>1, <2>3, <3>2, NoTransferFacts DEF Submit, identityVars, PadSubmit
    <3> QED
      BY <3>1, <3>2
  <2> QED
    BY <1>7, <2>2, <2>3 DEF PadSubmit, LeaveToNextTick
<1>8. CASE HidCheck
  BY <1>8 DEF HidCheck, identityVars, busVars, bounds
<1>9. CASE KeyboardSubmit
  <2>1. /\ pc' = "idle" /\ target = "none" /\ identity = "hid"
        /\ UNCHANGED <<identityVars, report, open, mounted, host, resets>>
    BY <1>9 DEF KeyboardSubmit, bounds
  <2>2. inFlight' \in {inFlight, [kind |-> "keyboard", keys |-> ptKeys]}
    BY <1>9 DEF KeyboardSubmit, Submit
  <2> QED
    BY <1>k, <2>1, <2>2 DEF identityVars
<1>10. CASE MouseSubmit
  <2>1. /\ pc' = "idle" /\ target = "none" /\ identity = "hid"
        /\ UNCHANGED <<identityVars, report, open, mounted, host, resets>>
    BY <1>10 DEF MouseSubmit, bounds
  <2>2. inFlight' \in {inFlight, [kind |-> "mouse", buttons |-> ptButtons,
                                  delta |-> clamp8(carry)]}
    BY <1>10 DEF MouseSubmit, Submit
  <2> QED
    BY <1>k, <2>1, <2>2 DEF identityVars
<1>11. CASE Configure
  BY <1>11 DEF Configure, identityVars, taskVars, bounds
<1>12. CASE BusReset
  BY <1>12, NoTransferFacts DEF BusReset, LeaveBus, identityVars, taskVars, PadTypeOK
<1>13. CASE HostPolls
  <2>1. UNCHANGED <<identityVars, pc, report, open, mounted, resets>>
    BY <1>13 DEF HostPolls, taskVars, bounds
  <2>2. inFlight' = NoTransfer
    BY <1>13 DEF HostPolls
  <2>3. identity = "pad" => host' = report
    BY <1>13, <1>k DEF HostPolls
  <2> QED
    BY <2>1, <2>2, <2>3, NoTransferFacts DEF identityVars
<1>14. CASE UNCHANGED vars
  BY <1>14 DEF vars, identityVars, taskVars, busVars, bounds
<1> QED
  BY <1>1, <1>2, <1>3, <1>4, <1>r, <1>5, <1>6, <1>7, <1>8, <1>9, <1>10, <1>11, <1>12,
     <1>13, <1>14
  DEF Next, mapper_task, bus

\* usb_pad_send() may skip a report that equals the last one: until the first
\* bus reset the PC has it or is about to read it, across all switches.
THEOREM SkippedReportsAreKnown == Spec => []SkippedIsKnownUnlessReset
<1>1. PadInv => SkippedIsKnownUnlessReset
  BY DEF PadInv, LastReport, SkippedIsKnownUnlessReset, SkippedIsKnown
<1>2. PadTypeOK /\ PadInv /\ [Next]_vars => PadInv'
  BY PadInvNext
<1> QED
  BY <1>1, <1>2, PadInvInit, PadTypeCorrect, PTL DEF Spec

===============================================================================
