---------------------------- MODULE UsbSplitProofs ----------------------------
(***************************************************************************)
(* Theorems about the USB split bridge, for any number of devices, any     *)
(* sizes of the queue, the wire and the interface table, and any bounds on *)
(* faults.                                                                 *)
(***************************************************************************)
EXTENDS UsbSplit, WellFoundedInduction, TLAPS

---------------------------------------------------------------------------
(* The accumulator. *)

\* Every operation of input_state.c maps a record to a record.
LEMMA InputStateTypes ==
  ASSUME NEW s \in InputRecord
  PROVE  /\ input_state_take(s) \in InputRecord
         /\ \A k \in Keys : input_state_set_keyboard(s, k) \in InputRecord
         /\ \A b \in Buttons, d \in SUBSET Nat :
              input_state_accum_mouse(s, b, d) \in InputRecord
         /\ \A p \in BOOLEAN :
              /\ input_state_set_keyboard_present(s, p) \in InputRecord
              /\ input_state_set_mouse_present(s, p) \in InputRecord
  BY ReleasedAssumption
  DEF InputRecord, input_state_take, input_state_set_keyboard,
      input_state_accum_mouse, input_state_set_keyboard_present,
      input_state_set_mouse_present

\* So does clearing classes on the pad chip, and a change of presence.
LEMMA WithoutClassesType ==
  ASSUME NEW s \in InputRecord, NEW gone
  PROVE  WithoutClasses(s, gone) \in InputRecord
  BY InputStateTypes DEF WithoutClasses

LEMMA SetPresentType ==
  ASSUME NEW s \in InputRecord, NEW c, NEW p \in BOOLEAN
  PROVE  SetPresent(s, c, p) \in InputRecord
  BY InputStateTypes DEF SetPresent

\* The zeroed record is one.
LEMMA InitialStateType == s_state_initial \in InputRecord
  BY ReleasedAssumption DEF s_state_initial, InputRecord

---------------------------------------------------------------------------
(* The queues. *)

\* Posting an event keeps the queue a queue of events within its slots.
LEMMA PostType ==
  ASSUME SenderTypeOK, NEW e \in Event, Post(e)
  PROVE  txq' \in Seq(Event) /\ Len(txq') <= QueueMax
  BY QueueAssumption DEF SenderTypeOK, Post

\* Writing a frame keeps the wire within its buffer, reading one too.
LEMMA FrameSendType ==
  ASSUME WireTypeOK, NEW f \in Frame, frame_send(f)
  PROVE  wire' \in Seq(Frame) /\ Len(wire') <= WireMax
  BY WireAssumption DEF WireTypeOK, frame_send

LEMMA WireTailType ==
  ASSUME WireTypeOK, wire # <<>>, wire' = Tail(wire)
  PROVE  wire' \in Seq(Frame) /\ Len(wire') <= WireMax
  BY WireAssumption DEF WireTypeOK

---------------------------------------------------------------------------
(* The mode switch. *)

\* The mode switch: a tick of the mapper that looks, and one that comes back.
LEMMA SwitchTypes ==
  ASSUME IdentityTypeOK, ModeInForce \/ BeginSwitch \/ ReadTarget \/ EndSwitch
  PROVE  IdentityTypeOK'
<1> USE DEF IdentityTypeOK, Identities
<1>1. CASE ModeInForce
  BY <1>1 DEF ModeInForce, identityVars
<1>2. CASE BeginSwitch \/ ReadTarget
  BY <1>2 DEF BeginSwitch, ReadTarget, IdentityOf
<1>3. CASE UninstallFails
  BY <1>3 DEF UninstallFails
<1>4. CASE InstallSucceeds
  BY <1>4 DEF InstallSucceeds, Uninstalled
<1>5. CASE FallBackToPad
  <2>1. usbFaults' \in Nat
    BY <1>5 DEF FallBackToPad
  <2> QED
    BY <1>5, <2>1 DEF FallBackToPad
<1>6. CASE BothInstallsFail
  BY <1>6 DEF BothInstallsFail
<1> QED
  BY <1>1, <1>2, <1>3, <1>4, <1>5, <1>6 DEF EndSwitch

---------------------------------------------------------------------------
(* Types. *)

\* The initial values of every part have their types.
LEMMA TypeInit == Init => TypeOK
<1> HAVE Init
<1> HostInit /\ WorldInit /\ SenderInit /\ WireInit /\ ReceiverInit /\ IdentityInit
  BY DEF Init
<1>1. HostTypeOK
  BY InitialStateType DEF HostInit, HostTypeOK
<1>2. WorldTypeOK
  BY ReleasedAssumption DEF WorldInit, WorldTypeOK
<1>3. SenderTypeOK
  <2>1. txq \in Seq(Event)
    BY DEF SenderInit
  <2>2. Len(txq) = 0
    BY DEF SenderInit
  <2>3. 0 <= QueueMax
    BY QueueAssumption
  <2> QED
    BY <2>1, <2>2, <2>3 DEF SenderInit, SenderTypeOK
<1>4. WireTypeOK
  <2>1. wire \in Seq(Frame)
    BY DEF WireInit
  <2>2. Len(wire) = 0 /\ losses = 0
    BY DEF WireInit
  <2>3. 0 <= WireMax
    BY WireAssumption
  <2> QED
    BY <2>1, <2>2, <2>3 DEF WireTypeOK
<1>5. ReceiverTypeOK
  <2>1. silent \in 0..PeerTimeout
    BY PeerTimeoutAssumption DEF ReceiverInit
  <2> QED
    BY <2>1, InitialStateType DEF ReceiverInit, ReceiverTypeOK
<1>6. IdentityTypeOK
  BY DEF IdentityInit, IdentityTypeOK, Identities
<1>7. SplitTypeOK
  BY DEF Init, SplitTypeOK
<1> QED
  BY <1>1, <1>2, <1>3, <1>4, <1>5, <1>6, <1>7 DEF TypeOK

\* The callbacks of the HID driver keep the types of the input chip.
LEMMA CallbackTypes ==
  ASSUME HostTypeOK, WorldTypeOK, SenderTypeOK, hid_callbacks
  PROVE  HostTypeOK' /\ WorldTypeOK' /\ SenderTypeOK'
<1> USE DEF HostTypeOK, WorldTypeOK
<1>1. ASSUME NEW d \in Devices, InterfaceConnected(d)
      PROVE  HostTypeOK' /\ WorldTypeOK' /\ SenderTypeOK'
  <2>1. local' \in InputRecord
    BY <1>1, SetPresentType DEF InterfaceConnected
  <2>2. WorldTypeOK'
    BY <1>1, ReleasedAssumption DEF InterfaceConnected
  <2>3. presence' \subseteq Classes
    BY <1>1 DEF InterfaceConnected, chip_link_set_presence, Served
  <2> QED
    BY <1>1, <2>1, <2>2, <2>3 DEF InterfaceConnected, SenderTypeOK
<1>2. ASSUME NEW d \in Devices, InterfaceDisconnected(d)
      PROVE  HostTypeOK' /\ WorldTypeOK' /\ SenderTypeOK'
  <2>1. local' \in InputRecord
    BY <1>2, SetPresentType DEF InterfaceDisconnected
  <2>2. WorldTypeOK'
    BY <1>2, ReleasedAssumption DEF InterfaceDisconnected
  <2>3. presence' \subseteq Classes
    BY <1>2 DEF InterfaceDisconnected, chip_link_set_presence, Served, SenderTypeOK
  <2> QED
    BY <1>2, <2>1, <2>2, <2>3 DEF InterfaceDisconnected, SenderTypeOK
<1>3. ASSUME NEW d \in Devices, NEW k \in Keys, HotkeyReport(d, k)
      PROVE  HostTypeOK' /\ WorldTypeOK' /\ SenderTypeOK'
  <2>1. [type |-> "mode", passthrough |-> ~mode] \in Event
    BY DEF SenderTypeOK, Event, ModeFrame
  <2>2. txq' \in Seq(Event) /\ Len(txq') <= QueueMax
    BY <1>3, <2>1, PostType DEF HotkeyReport, chip_link_set_mode
  <2>3. interrupted' \subseteq Keyboards
    BY <1>3 DEF HotkeyReport, KeyboardReports, HoldsCombo
  <2> QED
    BY <1>3, <2>2, <2>3
    DEF HotkeyReport, KeyboardReports, chip_link_set_mode, SenderTypeOK
<1>4. ASSUME NEW d \in Devices, NEW k \in Keys, KeyboardReport(d, k)
      PROVE  HostTypeOK' /\ WorldTypeOK' /\ SenderTypeOK'
  <2>1. [type |-> "keyboard", keys |-> k] \in Event
    BY DEF Event, KeyboardFrame
  <2>2. txq' \in Seq(Event) /\ Len(txq') <= QueueMax
    BY <1>4, <2>1, PostType DEF KeyboardReport, chip_link_send_keyboard
  <2>3. local' \in InputRecord
    BY <1>4, InputStateTypes DEF KeyboardReport
  <2>4. interrupted' \subseteq Keyboards
    BY <1>4 DEF KeyboardReport, KeyboardReports, HoldsCombo
  <2> QED
    BY <1>4, <2>2, <2>3, <2>4 DEF KeyboardReport, KeyboardReports, SenderTypeOK
<1>5. ASSUME NEW d \in Devices, RolloverReport(d)
      PROVE  HostTypeOK' /\ WorldTypeOK' /\ SenderTypeOK'
  <2> DEFINE mods == ModsOf[held[d]]
  <2>1. mods \in Keys
    BY <1>5, DevicesAssumption DEF RolloverReport
  <2>2. UNCHANGED <<running, tracked, held, issued, plugs, unplugs, presses,
                    presence, mode, txpc, kaDue>>
        /\ reports' = reports + 1 /\ wasDown' = FALSE
    BY <1>5 DEF RolloverReport
  <2>3. local' \in InputRecord /\ txq' \in Seq(Event) /\ Len(txq') <= QueueMax
    <3>1. CASE mods = Released
      BY <1>5, <3>1 DEF RolloverReport, SenderTypeOK
    <3>2. CASE mods # Released
      <4>1. [type |-> "keyboard", keys |-> mods] \in Event
        BY <2>1 DEF Event, KeyboardFrame
      <4>2. /\ local' = input_state_set_keyboard(local, mods)
            /\ Post([type |-> "keyboard", keys |-> mods])
        BY <1>5, <3>2 DEF RolloverReport, chip_link_send_keyboard
      <4> QED
        BY <2>1, <4>1, <4>2, PostType, InputStateTypes
    <3> QED BY <3>1, <3>2
  <2>4. issued' \subseteq 1..reports'
    BY <2>2
  <2>5. interrupted' \subseteq Keyboards
    BY <1>5 DEF RolloverReport, HoldsCombo
  <2>6. WorldTypeOK'
    BY <2>2, <2>4, <2>5
  <2> QED
    BY <2>2, <2>3, <2>6 DEF SenderTypeOK
<1>6. ASSUME NEW d \in Devices, NEW b \in Buttons, NEW moved \in BOOLEAN,
             MouseReport(d, b, moved)
      PROVE  HostTypeOK' /\ WorldTypeOK' /\ SenderTypeOK'
  <2> DEFINE delta == IF moved THEN reports + 1 ELSE 0
             motion == IF moved THEN {reports + 1} ELSE {}
  <2>1. [type |-> "mouse", buttons |-> b, delta |-> delta] \in Event
    BY DEF Event, MouseFrame
  <2>2. txq' \in Seq(Event) /\ Len(txq') <= QueueMax
    BY <1>6, <2>1, PostType DEF MouseReport, chip_link_send_mouse
  <2>3. motion \in SUBSET Nat
    OBVIOUS
  <2>4. local' \in InputRecord
    BY <1>6, <2>3, InputStateTypes DEF MouseReport
  <2>5. issued' \subseteq 1..reports'
    BY <1>6 DEF MouseReport
  <2> QED
    BY <1>6, <2>2, <2>4, <2>5 DEF MouseReport, SenderTypeOK
<1> QED
  BY <1>1, <1>2, <1>3, <1>4, <1>5, <1>6
  DEF hid_callbacks, driver_event_cb, iface_event_cb

\* sender_task takes from one queue and writes to the other.
LEMMA SenderTaskTypes ==
  ASSUME SenderTypeOK, WireTypeOK, chip_link_start \/ sender_task
  PROVE  SenderTypeOK' /\ WireTypeOK'
<1>1. CASE SendEvent
  <2>1. Head(txq) \in Event /\ Tail(txq) \in Seq(Event) /\ Len(Tail(txq)) < Len(txq)
    BY <1>1 DEF SendEvent, SenderTypeOK
  <2>2. wire' \in Seq(Frame) /\ Len(wire') <= WireMax
    BY <1>1, <2>1, FrameSendType DEF SendEvent, Frame
  <2>3. Len(txq') <= QueueMax
    BY <1>1, <2>1, QueueAssumption DEF SendEvent, SenderTypeOK
  <2> QED
    BY <1>1, <2>1, <2>2, <2>3 DEF SendEvent, SenderTypeOK, WireTypeOK
<1>2. CASE ReceiveTimeout
  BY <1>2 DEF ReceiveTimeout, SenderTypeOK, WireTypeOK, wireVars
<1>3. CASE NotDueYet
  BY <1>3 DEF NotDueYet, SenderTypeOK, WireTypeOK, wireVars
<1>4. CASE SendKeepalive
  <2>1. [type |-> "keepalive", present |-> presence] \in Frame
    BY DEF SenderTypeOK, Frame, KeepaliveFrame
  <2>2. wire' \in Seq(Frame) /\ Len(wire') <= WireMax
    BY <1>4, <2>1, FrameSendType DEF SendKeepalive
  <2> QED
    BY <1>4, <2>2 DEF SendKeepalive, SenderTypeOK, WireTypeOK
<1>5. CASE SendMode
  <2>1. [type |-> "mode", passthrough |-> mode] \in Frame
    BY DEF SenderTypeOK, Frame, Event, ModeFrame
  <2>2. wire' \in Seq(Frame) /\ Len(wire') <= WireMax
    BY <1>5, <2>1, FrameSendType DEF SendMode
  <2> QED
    BY <1>5, <2>2 DEF SendMode, SenderTypeOK, WireTypeOK
<1>6. CASE chip_link_start
  BY <1>6 DEF chip_link_start, SenderTypeOK, WireTypeOK, wireVars
<1> QED
  BY <1>1, <1>2, <1>3, <1>4, <1>5, <1>6 DEF sender_task

\* receiver_task takes frames from the wire, or finds the peer silent.
LEMMA ReceiverTaskTypes ==
  ASSUME WireTypeOK, ReceiverTypeOK, IdentityTypeOK, receiver_task
  PROVE  WireTypeOK' /\ ReceiverTypeOK' /\ IdentityTypeOK'
<1>1. CASE ReceiveFrame
  <2> DEFINE f == Head(wire)
  <2>1. f \in Frame
    BY <1>1 DEF ReceiveFrame, WireTypeOK
  <2>2. wire' \in Seq(Frame) /\ Len(wire') <= WireMax
    BY <1>1, WireTailType DEF ReceiveFrame
  <2>3. pad' \in InputRecord /\ peerPresent' \subseteq Classes /\ want' \in BOOLEAN
    <3>1. CASE HandleMouse(f)
      <4>1. f.buttons \in Buttons /\ f.delta \in Nat
        BY <2>1, <3>1 DEF HandleMouse, Frame, Event, MouseFrame, KeyboardFrame,
                          ModeFrame, KeepaliveFrame
      <4>2. MotionOf(f) \in SUBSET Nat
        BY <4>1 DEF MotionOf
      <4> QED
        BY <3>1, <4>1, <4>2, InputStateTypes
        DEF HandleMouse, ReceiverTypeOK, IdentityTypeOK
    <3>2. CASE HandleKeyboard(f)
      <4>1. f.keys \in Keys
        BY <2>1, <3>2 DEF HandleKeyboard, Frame, Event, MouseFrame,
                          KeyboardFrame, ModeFrame, KeepaliveFrame
      <4> QED
        BY <3>2, <4>1, InputStateTypes
        DEF HandleKeyboard, ReceiverTypeOK, IdentityTypeOK
    <3>3. CASE HandleMode(f)
      <4>1. f.passthrough \in BOOLEAN
        BY <2>1, <3>3 DEF HandleMode, Frame, Event, MouseFrame, KeyboardFrame,
                          ModeFrame, KeepaliveFrame
      <4> QED
        BY <3>3, <4>1 DEF HandleMode, usb_pad_request_mode, ReceiverTypeOK
    <3>4. CASE HandleKeepalive(f)
      <4>1. f.present \subseteq Classes
        BY <2>1, <3>4 DEF HandleKeepalive, Frame, Event, MouseFrame,
                          KeyboardFrame, ModeFrame, KeepaliveFrame
      <4>2. pad' \in InputRecord
        BY <3>4, WithoutClassesType DEF HandleKeepalive, ReceiverTypeOK
      <4> QED
        BY <3>4, <4>1, <4>2 DEF HandleKeepalive, ReceiverTypeOK, IdentityTypeOK
    <3> QED
      BY <1>1, <3>1, <3>2, <3>3, <3>4 DEF ReceiveFrame, handle_frame
  <2>4. silent' \in 0..PeerTimeout /\ alive' \in BOOLEAN
    BY <1>1, PeerTimeoutAssumption DEF ReceiveFrame
  <2>5. ReceiverTypeOK'
    BY <2>3, <2>4 DEF ReceiverTypeOK
  <2> QED
    BY <1>1, <2>2, <2>3, <2>5 DEF ReceiveFrame, WireTypeOK, IdentityTypeOK
<1>2. CASE PeerSilent
  <2>1. pad' \in InputRecord
    BY <1>2, WithoutClassesType DEF PeerSilent, ReceiverTypeOK
  <2>2. ReceiverTypeOK'
    BY <1>2, <2>1 DEF PeerSilent, ReceiverTypeOK
  <2> QED
    BY <1>2, <2>2
    DEF PeerSilent, WireTypeOK, wireVars, IdentityTypeOK, identityVars
<1> QED
  BY <1>1, <1>2 DEF receiver_task

\* Every step keeps every type.
LEMMA TypeStep == TypeOK /\ [Next]_vars => TypeOK'
<1> SUFFICES ASSUME TypeOK, [Next]_vars PROVE TypeOK'
  OBVIOUS
<1> HostTypeOK /\ WorldTypeOK /\ SenderTypeOK /\ WireTypeOK
    /\ ReceiverTypeOK /\ IdentityTypeOK /\ SplitTypeOK
  BY DEF TypeOK
<1>a. UNCHANGED <<hostVars, worldVars>> => HostTypeOK' /\ WorldTypeOK'
  BY DEF HostTypeOK, WorldTypeOK, hostVars, worldVars
<1>b. UNCHANGED senderVars => SenderTypeOK'
  BY DEF SenderTypeOK, senderVars
<1>c. UNCHANGED wireVars => WireTypeOK'
  BY DEF WireTypeOK, wireVars
<1>d. UNCHANGED receiverVars => ReceiverTypeOK'
  BY DEF ReceiverTypeOK, receiverVars
<1>e. UNCHANGED identityVars => IdentityTypeOK'
  BY DEF IdentityTypeOK, identityVars
<1>f. UNCHANGED <<up, crashes, beats, historyVars>> => SplitTypeOK'
  BY DEF SplitTypeOK, historyVars
<1>g. Count => unspent' \in Int
  BY DEF Count, SplitTypeOK
<1>h. {} \subseteq Classes /\ pad.motion \subseteq Nat
      /\ input_state_take(pad) \in InputRecord
      /\ input_state_take(local) \in InputRecord
  BY InputStateTypes DEF ReceiverTypeOK, HostTypeOK, InputRecord
<1>1. CASE HidCallback
  <2>1. HostTypeOK' /\ WorldTypeOK' /\ SenderTypeOK'
    BY <1>1, CallbackTypes DEF HidCallback
  <2>2. SplitTypeOK'
    BY <1>1, <1>g DEF HidCallback, SplitTypeOK
  <2> QED
    BY <1>1, <2>1, <2>2, <1>c, <1>d, <1>e DEF HidCallback, TypeOK
<1>2. CASE SenderTask
  BY <1>2, SenderTaskTypes, <1>a, <1>d, <1>e, <1>f DEF SenderTask, TypeOK
<1>3. CASE InputHeartbeat
  <2>1. HostTypeOK' /\ WorldTypeOK'
    BY <1>3, <1>h DEF InputHeartbeat, HostTypeOK, WorldTypeOK, worldVars
  <2> QED
    BY <1>3, <2>1, <1>b, <1>c, <1>d, <1>e, <1>f DEF InputHeartbeat, TypeOK
<1>4. CASE InputChipDown
  <2>1. HostTypeOK'
    BY <1>4, InitialStateType DEF InputChipDown, HostTypeOK
  <2>2. WorldTypeOK'
    BY <1>4, ReleasedAssumption DEF InputChipDown, WorldTypeOK
  <2>3. SenderTypeOK'
    <3>1. txq' \in Seq(Event) /\ Len(txq') = 0 /\ 0 <= QueueMax
      BY <1>4, QueueAssumption DEF InputChipDown
    <3> QED
      BY <1>4, <3>1 DEF InputChipDown, SenderTypeOK
  <2>4. SplitTypeOK'
    <3>1. crashes' \in Nat
      BY <1>4 DEF InputChipDown, SplitTypeOK
    <3> QED
      BY <1>4, <1>g, <3>1 DEF InputChipDown, SplitTypeOK
  <2> QED
    BY <1>4, <2>1, <2>2, <2>3, <2>4, <1>c, <1>d, <1>e DEF InputChipDown, TypeOK
<1>5. CASE InputChipBoots
  <2>1. SplitTypeOK'
    BY <1>5 DEF InputChipBoots, SplitTypeOK, historyVars
  <2> QED
    BY <1>5, <2>1, <1>a, <1>b, <1>c, <1>d, <1>e DEF InputChipBoots, TypeOK
<1>6. CASE ReceiverTask
  BY <1>6, ReceiverTaskTypes, <1>a, <1>b, <1>f DEF ReceiverTask, TypeOK
<1>7. CASE MapperTick
  <2>1. ReceiverTypeOK'
    BY <1>7, <1>h DEF MapperTick, ReceiverTypeOK
  <2>2. SplitTypeOK'
    BY <1>7, <1>h DEF MapperTick, SplitTypeOK
  <2> QED
    BY <1>7, <2>1, <2>2, SwitchTypes, <1>a, <1>b, <1>c DEF MapperTick, TypeOK
<1>8. CASE MapperSwitches
  <2>1. SplitTypeOK'
    BY <1>8, <1>g DEF MapperSwitches, SplitTypeOK
  <2> QED
    BY <1>8, <2>1, SwitchTypes, <1>a, <1>b, <1>c, <1>d
    DEF MapperSwitches, TypeOK
<1>9. CASE PadHeartbeat
  <2>1. ReceiverTypeOK'
    BY <1>9, <1>h DEF PadHeartbeat, ReceiverTypeOK
  <2>2. SplitTypeOK'
    <3>1. beats' \in Nat
      BY <1>9 DEF PadHeartbeat, SplitTypeOK
    <3>2. logged' \subseteq Nat
      BY <1>9, <1>h DEF PadHeartbeat, SplitTypeOK
    <3> QED
      BY <1>9, <3>1, <3>2 DEF PadHeartbeat, SplitTypeOK
  <2> QED
    BY <1>9, <2>1, <2>2, <1>a, <1>b, <1>c, <1>e DEF PadHeartbeat, TypeOK
<1>10. CASE PadChipRestarts
  <2>1. WireTypeOK'
    <3>1. wire' \in Seq(Frame) /\ Len(wire') = 0 /\ 0 <= WireMax
      BY <1>10, WireAssumption DEF PadChipRestarts
    <3> QED
      BY <1>10, <3>1 DEF PadChipRestarts, WireTypeOK
  <2>2. ReceiverTypeOK'
    <3>1. silent' \in 0..PeerTimeout
      BY <1>10, PeerTimeoutAssumption DEF PadChipRestarts
    <3> QED
      BY <1>10, <3>1, InitialStateType DEF PadChipRestarts, ReceiverTypeOK
  <2>3. IdentityTypeOK'
    BY <1>10 DEF PadChipRestarts, IdentityTypeOK, Identities
  <2>4. SplitTypeOK'
    BY <1>10 DEF PadChipRestarts, SplitTypeOK
  <2> QED
    BY <1>10, <2>1, <2>2, <2>3, <2>4, <1>a, <1>b DEF PadChipRestarts, TypeOK
<1>11. CASE Noise
  <2>1. WireTypeOK'
    BY <1>11, WireTailType DEF Noise, LoseFrame, WireTypeOK
  <2> QED
    BY <1>11, <2>1, <1>a, <1>b, <1>d, <1>e, <1>f DEF Noise, TypeOK
<1>12. CASE Tick
  <2>1. SenderTypeOK'
    BY <1>12 DEF Tick, SenderTypeOK, SplitTypeOK
  <2>2. ReceiverTypeOK'
    <3>1. silent' \in 0..PeerTimeout
      BY <1>12, PeerTimeoutAssumption DEF Tick, ReceiverTypeOK
    <3> QED
      BY <1>12, <3>1 DEF Tick, ReceiverTypeOK
  <2> QED
    BY <1>12, <2>1, <2>2, <1>a, <1>c, <1>e, <1>f DEF Tick, TypeOK
<1>13. CASE UNCHANGED vars
  BY <1>13, <1>a, <1>b, <1>c, <1>d, <1>e, <1>f DEF vars, TypeOK
<1> QED
  BY <1>1, <1>2, <1>3, <1>4, <1>5, <1>6, <1>7, <1>8, <1>9, <1>10, <1>11,
     <1>12, <1>13 DEF Next

\* Type correctness of the whole split: whatever the devices, the wire and the
\* two chips do, both queues stay within their buffers and every interface with
\* a slot in s_ifaces is one that runs.
THEOREM TypeCorrect == Spec => []TypeOK
  BY TypeInit, TypeStep, PTL DEF Spec

---------------------------------------------------------------------------
(* What is released, and which identity is fed. *)

\* A record that is changed by reports of served classes alone holds nothing of the others.
LEMMA CallbackReleases ==
  ASSUME TypeOK, GoneClassIsReleased, hid_callbacks
  PROVE  GoneClassIsReleased'
<1>a. /\ running \subseteq Devices /\ tracked \subseteq running
      /\ local \in InputRecord
  BY DEF TypeOK, HostTypeOK
<1>b. \A c \in Classes : c = "keyboard" \/ c = "mouse"
  BY DEF Classes
<1>1. ASSUME NEW d \in Devices, InterfaceConnected(d) PROVE GoneClassIsReleased'
  <2>1. running' = running \cup {d} /\ local' = SetPresent(local, ClassOf(d), TRUE)
    BY <1>1 DEF InterfaceConnected
  <2>2. local'.keys = local.keys /\ local'.buttons = local.buttons
    BY <1>a, <2>1
    DEF SetPresent, input_state_set_keyboard_present, input_state_set_mouse_present, InputRecord
  <2> QED
    BY <2>1, <2>2 DEF GoneClassIsReleased, OfClass, Holds
<1>2. ASSUME NEW d \in Devices, InterfaceDisconnected(d) PROVE GoneClassIsReleased'
  <2>1. running' = running \ {d} /\ tracked' = tracked \ {d} /\ d \in running
    BY <1>2 DEF InterfaceDisconnected
  <2>2. tracked' \subseteq running'
    BY <1>a, <2>1
  <2>3. CASE OfClass(tracked', ClassOf(d)) = {}
    <3>1. local' = SetPresent(local, ClassOf(d), FALSE)
      BY <1>2, <2>3 DEF InterfaceDisconnected
    <3>2. CASE d \in Keyboards
      <4>1. local'.keys = Released /\ local'.buttons = local.buttons
        BY <1>a, <3>1, <3>2
        DEF SetPresent, ClassOf, input_state_set_keyboard_present, InputRecord
      <4>2. running' \ Keyboards = running \ Keyboards
        BY <2>1, <3>2
      <4> QED
        BY <1>b, <4>1, <4>2 DEF GoneClassIsReleased, OfClass, Holds, Classes
    <3>3. CASE d \notin Keyboards
      <4>1. local'.buttons = Released /\ local'.keys = local.keys
        BY <1>a, <3>1, <3>3
        DEF SetPresent, ClassOf, input_state_set_mouse_present, InputRecord
      <4>2. running' \cap Keyboards = running \cap Keyboards
        BY <2>1, <3>3
      <4> QED
        BY <1>b, <4>1, <4>2 DEF GoneClassIsReleased, OfClass, Holds, Classes
    <3> QED
      BY <3>2, <3>3
  <2>4. CASE OfClass(tracked', ClassOf(d)) # {}
    <3>1. local' = local /\ OfClass(running', ClassOf(d)) # {}
      BY <1>2, <2>2, <2>4 DEF InterfaceDisconnected, OfClass
    <3>2. \A c \in Classes : OfClass(running', c) = {} => OfClass(running, c) = {}
      BY <2>1, <3>1 DEF OfClass, ClassOf
    <3> QED
      BY <3>1, <3>2 DEF GoneClassIsReleased, Holds
  <2> QED
    BY <2>3, <2>4
\* A keyboard's report leaves the buttons, a mouse's the keys.
<1>3. ASSUME NEW d \in running \cap Keyboards, running' = running,
             local'.buttons = local.buttons
      PROVE  GoneClassIsReleased'
  BY <1>3 DEF GoneClassIsReleased, OfClass, Holds
<1>4. ASSUME NEW d \in Devices, RolloverReport(d) PROVE GoneClassIsReleased'
  <2>1. d \in running \cap Keyboards /\ running' = running
    BY <1>4 DEF RolloverReport
  <2>2. local'.buttons = local.buttons
    BY <1>a, <1>4 DEF RolloverReport, input_state_set_keyboard, InputRecord
  <2> QED
    BY <1>3, <2>1, <2>2
<1>5. ASSUME NEW d \in Devices, NEW k \in Keys, HotkeyReport(d, k) \/ KeyboardReport(d, k)
      PROVE  GoneClassIsReleased'
  <2>1. d \in running \cap Keyboards /\ running' = running
    BY <1>5 DEF HotkeyReport, KeyboardReport, KeyboardReports
  <2>2. local'.buttons = local.buttons
    BY <1>a, <1>5 DEF HotkeyReport, KeyboardReport, input_state_set_keyboard, InputRecord
  <2> QED
    BY <1>3, <2>1, <2>2
<1>6. ASSUME NEW d \in Devices, NEW b \in Buttons, NEW moved \in BOOLEAN,
             MouseReport(d, b, moved)
      PROVE  GoneClassIsReleased'
  <2>1. d \in running \ Keyboards /\ running' = running
    BY <1>6 DEF MouseReport
  <2>2. local'.keys = local.keys
    BY <1>a, <1>6 DEF MouseReport, input_state_accum_mouse, InputRecord
  <2> QED
    BY <2>1, <2>2 DEF GoneClassIsReleased, OfClass, Holds
<1> QED
  BY <1>1, <1>2, <1>4, <1>5, <1>6 DEF hid_callbacks, driver_event_cb, iface_event_cb

\* Whatever the devices do and in whatever order they are pulled out, an untracked one included,
\* the input chip holds no key of a keyboard and no button of a mouse when the last is gone.
THEOREM GoneClassesAreReleased == Spec => []GoneClassIsReleased
<1>1. Init => GoneClassIsReleased
  BY DEF Init, HostInit, s_state_initial, GoneClassIsReleased, Holds
<1>2. TypeOK /\ GoneClassIsReleased /\ [Next]_vars => GoneClassIsReleased'
  <2> SUFFICES ASSUME TypeOK, GoneClassIsReleased, [Next]_vars PROVE GoneClassIsReleased'
    OBVIOUS
  <2>1. CASE HidCallback
    BY <2>1, CallbackReleases DEF HidCallback
  <2>2. CASE InputHeartbeat
    BY <2>2
    DEF InputHeartbeat, input_state_take, TypeOK, HostTypeOK, InputRecord,
        GoneClassIsReleased, OfClass, Holds
  <2>3. CASE InputChipDown
    BY <2>3 DEF InputChipDown, s_state_initial, GoneClassIsReleased, Holds
  <2>4. CASE UNCHANGED <<running, local>>
    BY <2>4 DEF GoneClassIsReleased, OfClass, Holds
  <2> QED
    BY <2>1, <2>2, <2>3, <2>4
    DEF Next, SenderTask, InputChipBoots, ReceiverTask, MapperTick, MapperSwitches,
        PadHeartbeat, PadChipRestarts, Noise, Tick, hostVars, vars
<1> QED
  BY <1>1, <1>2, TypeCorrect, PTL DEF Spec

\* However many switches fail, and whatever is asked for in the middle of one, the mapper builds
\* its reports for the identity that is on the bus.
THEOREM ReportsAlwaysFit == Spec => []ReportsFitIdentity
<1>1. Init => ReportsFitIdentity
  BY DEF Init, IdentityInit, ReportsFitIdentity, IdentityOf
<1>2. TypeOK /\ ReportsFitIdentity /\ [Next]_vars => ReportsFitIdentity'
  <2> SUFFICES ASSUME TypeOK, ReportsFitIdentity, [Next]_vars PROVE ReportsFitIdentity'
    OBVIOUS
  <2>1. CASE MapperSwitches
    <3>1. CASE InstallSucceeds
      BY <3>1
      DEF InstallSucceeds, Uninstalled, Identities, ReportsFitIdentity, IdentityOf
    <3>2. CASE ReadTarget \/ UninstallFails \/ FallBackToPad \/ BothInstallsFail
      BY <3>2
      DEF ReadTarget, UninstallFails, FallBackToPad, BothInstallsFail, ReportsFitIdentity,
          IdentityOf
    <3> QED
      BY <2>1, <3>1, <3>2 DEF MapperSwitches, EndSwitch
  <2>2. CASE PadChipRestarts
    BY <2>2 DEF PadChipRestarts, ReportsFitIdentity, IdentityOf
  <2>3. CASE UNCHANGED <<identity, passthrough>>
    BY <2>3 DEF ReportsFitIdentity, IdentityOf
  <2>4. MapperTick \/ ReceiverTask => UNCHANGED <<identity, passthrough>>
    BY DEF MapperTick, ModeInForce, BeginSwitch, identityVars, ReceiverTask, receiver_task,
           ReceiveFrame, PeerSilent, handle_frame
  <2> QED
    BY <2>1, <2>2, <2>3, <2>4
    DEF Next, HidCallback, SenderTask, InputHeartbeat, InputChipDown, InputChipBoots,
        PadHeartbeat, Noise, Tick, identityVars, vars
<1> QED
  BY <1>1, <1>2, TypeCorrect, PTL DEF Spec

---------------------------------------------------------------------------
(* The watchdog. *)

\* Until a fault, a peer that was heard of was heard of in this period, or the frame that says
\* so is due or on the wire.
HeardInv ==
  losses = 0 /\ crashes = 0 =>
    /\ up
    /\ alive => silent = 0 \/ (silent = 1 /\ (kaDue \/ wire # <<>>))

LEMMA HeardStep ==
  ASSUME Prompt, PeerTimeout > 1, TypeOK, HeardInv, [Next]_vars
  PROVE  HeardInv'
<1>a. /\ losses \in Nat /\ crashes \in Nat /\ silent \in Nat /\ wire \in Seq(Frame)
      /\ losses + 1 # 0 /\ crashes + 1 # 0
  BY DEF TypeOK, WireTypeOK, SplitTypeOK, ReceiverTypeOK
<1>1. CASE SenderTask
  <2>1. UNCHANGED <<up, crashes, losses, alive, silent>>
    BY <1>1
    DEF SenderTask, receiverVars, chip_link_start, sender_task, SendEvent, ReceiveTimeout,
        NotDueYet, SendKeepalive, SendMode, wireVars
  <2>2. (kaDue' = kaDue /\ wire' = wire) \/ wire' # <<>>
    <3>1. ASSUME NEW f \in Frame, frame_send(f) PROVE wire' # <<>>
      BY <1>a, <3>1 DEF frame_send
    <3>2. CASE SendEvent
      <4>1. Head(txq) \in Frame
        BY <3>2 DEF SendEvent, TypeOK, SenderTypeOK, Frame
      <4> QED
        BY <3>1, <3>2, <4>1 DEF SendEvent
    <3>3. CASE SendKeepalive
      <4>1. [type |-> "keepalive", present |-> presence] \in Frame
        BY DEF TypeOK, SenderTypeOK, Frame, KeepaliveFrame
      <4> QED
        BY <3>1, <3>3, <4>1 DEF SendKeepalive
    <3>4. CASE SendMode
      <4>1. [type |-> "mode", passthrough |-> mode] \in Frame
        BY DEF TypeOK, SenderTypeOK, Frame, Event, ModeFrame
      <4> QED
        BY <3>1, <3>4, <4>1 DEF SendMode
    <3>5. CASE chip_link_start \/ ReceiveTimeout \/ NotDueYet
      BY <3>5 DEF chip_link_start, ReceiveTimeout, NotDueYet, wireVars
    <3> QED
      BY <1>1, <3>2, <3>3, <3>4, <3>5 DEF SenderTask, sender_task
  <2> QED
    BY <2>1, <2>2 DEF HeardInv
<1>2. CASE ReceiverTask
  <2>1. UNCHANGED <<up, crashes, kaDue, losses>>
    BY <1>2
    DEF ReceiverTask, senderVars, receiver_task, ReceiveFrame, PeerSilent, wireVars
  <2>2. (silent' = 0) \/ ~alive'
    BY <1>2 DEF ReceiverTask, receiver_task, ReceiveFrame, PeerSilent
  <2> QED
    BY <2>1, <2>2 DEF HeardInv
<1>3. CASE Tick
  <2>1. Settled /\ kaDue' = up /\ wire' = wire
        /\ UNCHANGED <<up, crashes, losses, alive>>
        /\ silent' = IF silent < PeerTimeout THEN silent + 1 ELSE silent
    BY <1>3 DEF Tick, wireVars
  <2>2. CASE losses = 0 /\ crashes = 0 /\ alive
    <3>1. up /\ silent = 0
      BY <2>1, <2>2 DEF Settled, HeardInv
    <3>2. silent' = 1
      BY <2>1, <3>1, PeerTimeoutAssumption
    <3>3. kaDue'
      BY <2>1, <3>1
    <3> QED
      BY <2>1, <2>2, <3>1, <3>2, <3>3 DEF HeardInv
  <2> QED
    BY <2>1, <2>2 DEF HeardInv
<1>4. CASE InputChipDown \/ PadChipRestarts \/ Noise
  BY <1>a, <1>4 DEF InputChipDown, PadChipRestarts, Noise, LoseFrame, HeardInv
<1>5. CASE UNCHANGED <<up, crashes, losses, alive, silent, kaDue, wire>>
  BY <1>5 DEF HeardInv
<1>6. HidCallback => UNCHANGED <<up, crashes, losses, alive, silent, kaDue, wire>>
  BY DEF HidCallback, wireVars, receiverVars, hid_callbacks, driver_event_cb, iface_event_cb,
         InterfaceConnected, InterfaceDisconnected, RolloverReport, HotkeyReport,
         KeyboardReport, MouseReport
<1>7. InputChipBoots => UNCHANGED <<crashes, losses, alive, silent, kaDue, wire>> /\ up'
  BY DEF InputChipBoots, wireVars, receiverVars, senderVars
<1> QED
  BY <1>1, <1>2, <1>3, <1>4, <1>5, <1>6, <1>7
  DEF Next, InputHeartbeat, MapperTick, MapperSwitches, PadHeartbeat, wireVars, senderVars,
      receiverVars, vars, HeardInv

\* A keepalive each period and a watchdog of two or more are enough: where no task is starved for
\* a period, nothing is lost and no chip is reset, a peer that is up is never taken for dead.
THEOREM LivePeersAreHeard ==
  ASSUME Prompt, PeerTimeout > 1
  PROVE  Spec => []LivePeerIsNeverSilent
<1>1. Init => HeardInv
  BY DEF Init, ReceiverInit, HeardInv
<1>2. TypeOK /\ HeardInv /\ [Next]_vars => HeardInv'
  BY HeardStep
<1>3. HeardInv => LivePeerIsNeverSilent
  BY PeerTimeoutAssumption DEF HeardInv, LivePeerIsNeverSilent
<1> QED
  BY <1>1, <1>2, <1>3, TypeCorrect, PTL DEF Spec

---------------------------------------------------------------------------
(* What is under way for a class. *)

\* What a report of a class says is held.
Said(f) == IF f.type = "keyboard" THEN f.keys ELSE f.buttons

NoneOf(q, c) == \A i \in DOMAIN q : q[i].type # c

\* The last report of the class in q says v.
LastSays(q, c, v) ==
  \E i \in DOMAIN q :
    /\ q[i].type = c /\ Said(q[i]) = v
    /\ \A j \in DOMAIN q : j > i => q[j].type # c

\* With q queued, w on the wire and p held now, v is what holds once both are empty.
Settles(q, w, c, v, p) ==
  \/ LastSays(q, c, v)
  \/ NoneOf(q, c) /\ LastSays(w, c, v)
  \/ NoneOf(q, c) /\ NoneOf(w, c) /\ p = v

LEMMA AppendOther ==
  ASSUME NEW q \in Seq(Frame), NEW f \in Frame, NEW c, NEW v, f.type # c
  PROVE  /\ NoneOf(q, c) => NoneOf(Append(q, f), c)
         /\ LastSays(q, c, v) => LastSays(Append(q, f), c, v)
<1> DEFINE r == Append(q, f)
<1>1. /\ DOMAIN q = 1 .. Len(q) /\ DOMAIN r = 1 .. Len(q) + 1 /\ Len(q) \in Nat
      /\ r[Len(q) + 1] = f /\ \A i \in 1 .. Len(q) : r[i] = q[i]
  OBVIOUS
<1> HIDE DEF r
<1>2. NoneOf(q, c) => NoneOf(r, c)
  BY <1>1 DEF NoneOf
<1>3. ASSUME LastSays(q, c, v) PROVE LastSays(r, c, v)
  <2>1. PICK i \in DOMAIN q : /\ q[i].type = c /\ Said(q[i]) = v
                              /\ \A j \in DOMAIN q : j > i => q[j].type # c
    BY <1>3 DEF LastSays
  <2>2. i \in DOMAIN r /\ r[i] = q[i]
    BY <1>1, <2>1
  <2>3. \A j \in DOMAIN r : j > i => r[j].type # c
    BY <1>1, <2>1
  <2> QED
    BY <2>1, <2>2, <2>3 DEF LastSays
<1> QED
  BY <1>2, <1>3 DEF r

LEMMA AppendSays ==
  ASSUME NEW q \in Seq(Frame), NEW f \in Frame
  PROVE  LastSays(Append(q, f), f.type, Said(f))
<1> DEFINE r == Append(q, f)
<1>1. /\ DOMAIN r = 1 .. Len(q) + 1 /\ Len(q) \in Nat /\ r[Len(q) + 1] = f
  OBVIOUS
<1> HIDE DEF r
<1>2. LastSays(r, f.type, Said(f))
  BY <1>1 DEF LastSays
<1> QED
  BY <1>2 DEF r

LEMMA TailSays ==
  ASSUME NEW q \in Seq(Frame), q # <<>>, NEW c, NEW v
  PROVE  /\ NoneOf(q, c) => NoneOf(Tail(q), c) /\ Head(q).type # c
         /\ LastSays(q, c, v) =>
              \/ LastSays(Tail(q), c, v)
              \/ Head(q).type = c /\ Said(Head(q)) = v /\ NoneOf(Tail(q), c)
<1> DEFINE r == Tail(q)
           h == Head(q)
<1>1. /\ DOMAIN q = 1 .. Len(q) /\ DOMAIN r = 1 .. Len(q) - 1 /\ Len(q) \in Nat \ {0}
      /\ h = q[1] /\ \A i \in 1 .. Len(q) - 1 : r[i] = q[i + 1]
  OBVIOUS
<1> HIDE DEF r, h
<1>2. ASSUME NoneOf(q, c) PROVE NoneOf(r, c) /\ h.type # c
  <2>1. h.type # c
    BY <1>1, <1>2 DEF NoneOf
  <2>2. ASSUME NEW i \in DOMAIN r PROVE r[i].type # c
    <3>1. i + 1 \in DOMAIN q /\ r[i] = q[i + 1]
      BY <1>1
    <3> QED
      BY <1>2, <3>1 DEF NoneOf
  <2> QED
    BY <2>1, <2>2 DEF NoneOf
<1>3. ASSUME LastSays(q, c, v)
      PROVE  LastSays(r, c, v) \/ (h.type = c /\ Said(h) = v /\ NoneOf(r, c))
  <2>1. PICK i \in DOMAIN q : /\ q[i].type = c /\ Said(q[i]) = v
                              /\ \A j \in DOMAIN q : j > i => q[j].type # c
    BY <1>3 DEF LastSays
  <2>2. CASE i = 1
    BY <1>1, <2>1, <2>2 DEF NoneOf
  <2>3. CASE i # 1
    <3>1. i - 1 \in DOMAIN r /\ r[i - 1] = q[i]
      BY <1>1, <2>1, <2>3
    <3>2. \A j \in DOMAIN r : j > i - 1 => r[j].type # c
      BY <1>1, <2>1, <2>3
    <3> QED
      BY <2>1, <3>1, <3>2 DEF LastSays
  <2> QED
    BY <2>2, <2>3
<1> QED
  BY <1>2, <1>3 DEF r, h

\* A report posted says what settles; any other event leaves that as it is.
LEMMA PostSettles ==
  ASSUME NEW q \in Seq(Frame), NEW w, NEW f \in Frame, NEW c, NEW v, NEW p
  PROVE  /\ f.type = c => Settles(Append(q, f), w, c, Said(f), p)
         /\ f.type # c /\ Settles(q, w, c, v, p) => Settles(Append(q, f), w, c, v, p)
<1>1. ASSUME f.type = c PROVE Settles(Append(q, f), w, c, Said(f), p)
  BY <1>1, AppendSays DEF Settles
<1>2. ASSUME f.type # c, Settles(q, w, c, v, p) PROVE Settles(Append(q, f), w, c, v, p)
  BY <1>2, AppendOther DEF Settles
<1> QED
  BY <1>1, <1>2

\* Neither does the move of the oldest event from the queue to the wire change it.
LEMMA MoveSettles ==
  ASSUME NEW q \in Seq(Frame), q # <<>>, NEW w \in Seq(Frame), NEW c, NEW v, NEW p,
         Settles(q, w, c, v, p)
  PROVE  Settles(Tail(q), Append(w, Head(q)), c, v, p)
<1>1. Head(q) \in Frame
  OBVIOUS
<1>2. CASE LastSays(q, c, v)
  <2>1. CASE LastSays(Tail(q), c, v)
    BY <2>1 DEF Settles
  <2>2. CASE Head(q).type = c /\ Said(Head(q)) = v /\ NoneOf(Tail(q), c)
    <3>1. LastSays(Append(w, Head(q)), c, v)
      BY <1>1, <2>2, AppendSays
    <3> QED
      BY <2>2, <3>1 DEF Settles
  <2> QED
    BY <1>2, <2>1, <2>2, TailSays
<1>3. CASE NoneOf(q, c) /\ (LastSays(w, c, v) \/ (NoneOf(w, c) /\ p = v))
  <2>1. NoneOf(Tail(q), c) /\ Head(q).type # c
    BY <1>3, TailSays
  <2>2. \/ LastSays(Append(w, Head(q)), c, v)
        \/ NoneOf(Append(w, Head(q)), c) /\ p = v
    BY <1>1, <1>3, <2>1, AppendOther
  <2> QED
    BY <2>1, <2>2 DEF Settles
<1> QED
  BY <1>2, <1>3 DEF Settles

\* Nor a frame of another kind on the wire.
LEMMA WriteSettles ==
  ASSUME NEW q, NEW w \in Seq(Frame), NEW f \in Frame, NEW c, NEW v, NEW p,
         f.type # c, Settles(q, w, c, v, p)
  PROVE  Settles(q, Append(w, f), c, v, p)
BY AppendOther DEF Settles

\* A frame that arrives is done with once what it says is held.
LEMMA ArriveSettles ==
  ASSUME NEW q, NEW w \in Seq(Frame), w # <<>>, NEW c, NEW v, NEW p,
         Settles(q, w, c, v, p)
  PROVE  Settles(q, Tail(w), c, v, IF Head(w).type = c THEN Said(Head(w)) ELSE p)
BY TailSays DEF Settles

---------------------------------------------------------------------------
(* What the two chips hold. *)

\* With nothing pulled out the presence mask only grows on its way to the pad chip, so no
\* keepalive takes a class away.
OnlyGrows ==
  /\ presence \subseteq Served(tracked) /\ peerPresent \subseteq presence
  /\ \A i \in DOMAIN wire : wire[i].type = "keepalive" =>
       peerPresent \subseteq wire[i].present /\ wire[i].present \subseteq presence
  /\ \A i, j \in DOMAIN wire :
       i < j /\ wire[i].type = "keepalive" /\ wire[j].type = "keepalive" =>
         wire[i].present \subseteq wire[j].present

\* The queue has room for the next report, and what is under way ends in what is held here.
Synced ==
  /\ Len(txq) <= reports
  /\ OnlyGrows
  /\ Settles(txq, wire, "keyboard", local.keys, pad.keys)
  /\ Settles(txq, wire, "mouse", local.buttons, pad.buttons)

SyncInv == Undisturbed => Synced

LEMMA QueueIsFrames == TypeOK => txq \in Seq(Frame)
BY DEF TypeOK, SenderTypeOK, Frame

LEMMA UndisturbedBefore ==
  ASSUME TypeOK, [Next]_vars, Undisturbed'
  PROVE  Undisturbed
<1>a. /\ losses \in Nat /\ crashes \in Nat /\ unplugs \in Nat /\ reports \in Nat
      /\ QueueMax \in Nat
  BY QueueAssumption DEF TypeOK, WireTypeOK, SplitTypeOK, WorldTypeOK
<1>1. HidCallback => /\ UNCHANGED <<losses, crashes>>
                     /\ unplugs' \in {unplugs, unplugs + 1}
                     /\ reports' \in {reports, reports + 1}
  BY DEF HidCallback, wireVars, hid_callbacks, driver_event_cb, iface_event_cb,
         InterfaceConnected, InterfaceDisconnected, RolloverReport, HotkeyReport,
         KeyboardReport, KeyboardReports, MouseReport
<1>2. ~HidCallback => /\ UNCHANGED <<unplugs, reports>>
                      /\ losses' \in {losses, losses + 1}
                      /\ crashes' \in {crashes, crashes + 1}
  BY DEF Next, SenderTask, chip_link_start, sender_task, SendEvent, ReceiveTimeout, NotDueYet,
         SendKeepalive, SendMode, InputHeartbeat, InputChipDown, InputChipBoots, ReceiverTask,
         receiver_task, ReceiveFrame, PeerSilent, MapperTick, MapperSwitches, PadHeartbeat,
         PadChipRestarts, Noise, LoseFrame, Tick, worldVars, wireVars, vars
<1> QED
  BY <1>a, <1>1, <1>2 DEF Undisturbed

LEMMA CallbackSync ==
  ASSUME Prompt, TypeOK, Synced, Undisturbed', HidCallback
  PROVE  Synced'
<1>a. /\ txq \in Seq(Frame) /\ Len(txq) \in Nat /\ reports \in Nat /\ QueueMax \in Nat
      /\ local \in InputRecord /\ unplugs \in Nat
  BY QueueIsFrames, QueueAssumption DEF TypeOK, HostTypeOK, WorldTypeOK
<1>b. /\ wire' = wire /\ pad' = pad /\ peerPresent' = peerPresent /\ txpc # "off"
  BY DEF HidCallback, wireVars, receiverVars
<1>c. reports' <= QueueMax /\ unplugs' = 0
  BY DEF Undisturbed
<1>1. ASSUME presence' = presence, tracked' = tracked PROVE OnlyGrows'
  BY <1>b, <1>1 DEF Synced, OnlyGrows, Served
<1>2. ASSUME NEW f \in Frame, Post(f), reports' = reports + 1
      PROVE  txq' = Append(txq, f) /\ Len(txq') <= reports'
  BY <1>a, <1>b, <1>c, <1>2 DEF Post, Synced
<1>3. CASE \E d \in Devices : InterfaceConnected(d)
  <2>1. PICK d \in Devices : InterfaceConnected(d)
    BY <1>3
  <2>2. /\ txq' = txq /\ reports' = reports /\ presence' = Served(tracked')
        /\ tracked \subseteq tracked'
    BY <2>1 DEF InterfaceConnected, chip_link_set_presence
  <2>3. local'.keys = local.keys /\ local'.buttons = local.buttons
    BY <1>a, <2>1
    DEF InterfaceConnected, SetPresent, input_state_set_keyboard_present,
        input_state_set_mouse_present, InputRecord
  <2>4. Served(tracked) \subseteq Served(tracked')
    BY <2>2 DEF Served, OfClass
  <2>5. OnlyGrows'
    BY <1>b, <2>2, <2>4 DEF Synced, OnlyGrows
  <2> QED
    BY <1>b, <2>2, <2>3, <2>5 DEF Synced
<1>4. CASE \E d \in Devices : InterfaceDisconnected(d)
  BY <1>a, <1>c, <1>4 DEF InterfaceDisconnected
<1>5. CASE \E d \in Devices, keys \in Keys : HotkeyReport(d, keys)
  <2> DEFINE f == [type |-> "mode", passthrough |-> ~mode]
  <2>1. f \in Frame
    BY DEF TypeOK, SenderTypeOK, Frame, Event, ModeFrame
  <2>2. /\ Post(f) /\ reports' = reports + 1
        /\ presence' = presence /\ tracked' = tracked /\ local' = local
    BY <1>5 DEF HotkeyReport, KeyboardReports, chip_link_set_mode
  <2>3. f.type # "keyboard" /\ f.type # "mouse"
    OBVIOUS
  <2> HIDE DEF f
  <2>4. txq' = Append(txq, f) /\ Len(txq') <= reports'
    BY <1>2, <2>1, <2>2
  <2>5. /\ Settles(txq', wire, "keyboard", local.keys, pad.keys)
        /\ Settles(txq', wire, "mouse", local.buttons, pad.buttons)
    BY <1>a, <2>1, <2>3, <2>4, PostSettles DEF Synced
  <2> QED
    BY <1>1, <1>b, <2>2, <2>4, <2>5 DEF Synced
<1>6. ASSUME NEW keys \in Keys, chip_link_send_keyboard(keys), reports' = reports + 1,
             local' = input_state_set_keyboard(local, keys),
             presence' = presence, tracked' = tracked
      PROVE  Synced'
  <2> DEFINE f == [type |-> "keyboard", keys |-> keys]
  <2>1. f \in Frame
    BY DEF Frame, Event, KeyboardFrame
  <2>2. Post(f)
    BY <1>6 DEF chip_link_send_keyboard
  <2>3. f.type = "keyboard" /\ Said(f) = keys
    BY DEF Said
  <2>4. local'.keys = keys /\ local'.buttons = local.buttons
    BY <1>6, <1>a DEF input_state_set_keyboard, InputRecord
  <2> HIDE DEF f
  <2>5. txq' = Append(txq, f) /\ Len(txq') <= reports'
    BY <1>2, <1>6, <2>1, <2>2
  <2>6. Settles(txq', wire, "keyboard", keys, pad.keys)
    BY <1>a, <2>1, <2>3, <2>5, PostSettles
  <2>7. Settles(txq', wire, "mouse", local.buttons, pad.buttons)
    <3>1. f.type # "mouse"
      BY <2>3
    <3> QED
      BY <1>a, <2>1, <3>1, <2>5, PostSettles DEF Synced
  <2> QED
    BY <1>1, <1>6, <1>b, <2>4, <2>5, <2>6, <2>7 DEF Synced
<1>7. CASE \E d \in Devices, keys \in Keys : KeyboardReport(d, keys)
  <2>1. PICK d \in Devices, keys \in Keys : KeyboardReport(d, keys)
    BY <1>7
  <2> QED
    BY <1>6, <2>1 DEF KeyboardReport, KeyboardReports
<1>8. CASE \E d \in Devices : RolloverReport(d)
  <2>1. PICK d \in Devices : RolloverReport(d)
    BY <1>8
  <2>2. ModsOf[held[d]] \in Keys
    BY <2>1, DevicesAssumption DEF RolloverReport, TypeOK, WorldTypeOK
  <2>3. CASE ModsOf[held[d]] = Released
    <3>1. /\ txq' = txq /\ local' = local /\ presence' = presence /\ tracked' = tracked
          /\ reports' = reports + 1
      BY <2>1, <2>3 DEF RolloverReport
    <3> QED
      BY <1>a, <1>b, <1>1, <3>1 DEF Synced
  <2>4. CASE ModsOf[held[d]] # Released
    BY <1>6, <2>1, <2>2, <2>4 DEF RolloverReport
  <2> QED
    BY <2>3, <2>4
<1>9. CASE \E d \in Devices, b \in Buttons, moved \in BOOLEAN : MouseReport(d, b, moved)
  <2>1. PICK d \in Devices, b \in Buttons, moved \in BOOLEAN : MouseReport(d, b, moved)
    BY <1>9
  <2> DEFINE f == [type |-> "mouse", buttons |-> b, delta |-> IF moved THEN reports + 1 ELSE 0]
  <2>2. f \in Frame
    BY <1>a DEF Frame, Event, MouseFrame
  <2>3. /\ Post(f) /\ reports' = reports + 1 /\ presence' = presence /\ tracked' = tracked
        /\ local' = input_state_accum_mouse(local, b, IF moved THEN {reports + 1} ELSE {})
    BY <2>1 DEF MouseReport, chip_link_send_mouse
  <2>4. f.type = "mouse" /\ Said(f) = b
    BY DEF Said
  <2>5. local'.buttons = b /\ local'.keys = local.keys
    BY <1>a, <2>3 DEF input_state_accum_mouse, InputRecord
  <2> HIDE DEF f
  <2>6. txq' = Append(txq, f) /\ Len(txq') <= reports'
    BY <1>2, <2>2, <2>3
  <2>7. Settles(txq', wire, "mouse", b, pad.buttons)
    BY <1>a, <2>2, <2>4, <2>6, PostSettles
  <2>8. Settles(txq', wire, "keyboard", local.keys, pad.keys)
    <3>1. f.type # "keyboard"
      BY <2>4
    <3> QED
      BY <1>a, <2>2, <3>1, <2>6, PostSettles DEF Synced
  <2> QED
    BY <1>1, <1>b, <2>3, <2>5, <2>6, <2>7, <2>8 DEF Synced
<1> QED
  BY <1>3, <1>4, <1>5, <1>7, <1>8, <1>9
  DEF HidCallback, hid_callbacks, driver_event_cb, iface_event_cb

LEMMA SenderSync ==
  ASSUME TypeOK, Synced, SenderTask
  PROVE  Synced'
<1>a. txq \in Seq(Frame) /\ wire \in Seq(Frame) /\ Len(txq) \in Nat /\ reports \in Nat
  BY QueueIsFrames DEF TypeOK, WireTypeOK, WorldTypeOK
<1>b. UNCHANGED <<tracked, local, reports, pad, peerPresent, presence>>
  BY DEF SenderTask, hostVars, worldVars, receiverVars, chip_link_start, sender_task, SendEvent,
         ReceiveTimeout, NotDueYet, SendKeepalive, SendMode
<1>1. CASE SendEvent
  <2> DEFINE f == Head(txq)
  <2>1. txq # <<>> /\ txq' = Tail(txq) /\ wire' = Append(wire, f)
    BY <1>1 DEF SendEvent, frame_send
  <2>2. f \in Event
    BY <2>1 DEF TypeOK, SenderTypeOK
  <2>3. f.type # "keepalive"
    BY <2>2 DEF Event, MouseFrame, KeyboardFrame, ModeFrame
  <2>4. /\ Settles(txq', wire', "keyboard", local.keys, pad.keys)
        /\ Settles(txq', wire', "mouse", local.buttons, pad.buttons)
    BY <1>a, <2>1, MoveSettles DEF Synced
  <2> HIDE DEF f
  <2>5. OnlyGrows'
    BY <1>a, <1>b, <2>1, <2>3 DEF Synced, OnlyGrows, Served
  <2>6. Len(txq') <= reports
    BY <1>a, <2>1 DEF Synced
  <2> QED
    BY <1>b, <2>4, <2>5, <2>6 DEF Synced
<1>2. CASE SendKeepalive
  <2> DEFINE f == [type |-> "keepalive", present |-> presence]
  <2>1. f \in Frame /\ f.type = "keepalive" /\ f.present = presence
    BY DEF TypeOK, SenderTypeOK, Frame, KeepaliveFrame
  <2>2. txq' = txq /\ wire' = Append(wire, f)
    BY <1>2 DEF SendKeepalive, frame_send
  <2> HIDE DEF f
  <2>3. /\ Settles(txq, wire', "keyboard", local.keys, pad.keys)
        /\ Settles(txq, wire', "mouse", local.buttons, pad.buttons)
    <3>1. f.type # "keyboard" /\ f.type # "mouse"
      BY <2>1
    <3> QED
      BY <1>a, <2>1, <2>2, <3>1, WriteSettles DEF Synced
  <2>4. OnlyGrows'
    BY <1>a, <1>b, <2>1, <2>2 DEF Synced, OnlyGrows, Served
  <2> QED
    BY <1>b, <2>2, <2>3, <2>4 DEF Synced
<1>3. CASE SendMode
  <2> DEFINE f == [type |-> "mode", passthrough |-> mode]
  <2>1. f \in Frame /\ f.type = "mode"
    BY DEF TypeOK, SenderTypeOK, Frame, Event, ModeFrame
  <2>2. txq' = txq /\ wire' = Append(wire, f)
    BY <1>3 DEF SendMode, frame_send
  <2> HIDE DEF f
  <2>3. /\ Settles(txq, wire', "keyboard", local.keys, pad.keys)
        /\ Settles(txq, wire', "mouse", local.buttons, pad.buttons)
    <3>1. f.type # "keyboard" /\ f.type # "mouse"
      BY <2>1
    <3> QED
      BY <1>a, <2>1, <2>2, <3>1, WriteSettles DEF Synced
  <2>4. OnlyGrows'
    BY <1>a, <1>b, <2>1, <2>2 DEF Synced, OnlyGrows, Served
  <2> QED
    BY <1>b, <2>2, <2>3, <2>4 DEF Synced
<1>4. CASE chip_link_start \/ ReceiveTimeout \/ NotDueYet
  <2>1. txq' = txq /\ wire' = wire
    BY <1>4 DEF chip_link_start, ReceiveTimeout, NotDueYet, wireVars
  <2> QED
    BY <1>b, <2>1 DEF Synced, OnlyGrows, Served
<1> QED
  BY <1>1, <1>2, <1>3, <1>4 DEF SenderTask, sender_task

LEMMA ReceiverSync ==
  ASSUME PeerTimeout > 1, TypeOK, HeardInv, Undisturbed, Synced, ReceiverTask
  PROVE  Synced'
<1>a. /\ txq \in Seq(Frame) /\ wire \in Seq(Frame) /\ pad \in InputRecord
      /\ PeerTimeout \in Nat
  BY QueueIsFrames, PeerTimeoutAssumption DEF TypeOK, WireTypeOK, ReceiverTypeOK
<1>b. UNCHANGED <<txq, tracked, local, reports, presence>>
  BY DEF ReceiverTask, hostVars, worldVars, senderVars
<1>1. ~PeerSilent
  BY <1>a DEF PeerSilent, HeardInv, Undisturbed
<1> DEFINE f == Head(wire)
<1>2. wire # <<>> /\ wire' = Tail(wire) /\ handle_frame(f)
  BY <1>1 DEF ReceiverTask, receiver_task, ReceiveFrame
<1>3. f \in Frame
  BY <1>a, <1>2
<1>4. 1 \in DOMAIN wire /\ f = wire[1]
  BY <1>a, <1>2
<1>5. ASSUME NEW i \in DOMAIN wire' 
      PROVE  i + 1 \in DOMAIN wire /\ wire'[i] = wire[i + 1] /\ 1 < i + 1 /\ i \in Nat
  BY <1>a, <1>2, <1>5
<1>6. /\ Settles(txq, wire', "keyboard", local.keys,
              IF f.type = "keyboard" THEN Said(f) ELSE pad.keys)
      /\ Settles(txq, wire', "mouse", local.buttons,
              IF f.type = "mouse" THEN Said(f) ELSE pad.buttons)
  BY <1>a, <1>2, ArriveSettles DEF Synced
<1> HIDE DEF f
<1>7. /\ pad'.keys = IF f.type = "keyboard" THEN Said(f) ELSE pad.keys
      /\ pad'.buttons = IF f.type = "mouse" THEN Said(f) ELSE pad.buttons
      /\ peerPresent' = IF f.type = "keepalive" THEN f.present ELSE peerPresent
  <2>1. CASE HandleMouse(f)
    BY <1>a, <2>1 DEF HandleMouse, input_state_accum_mouse, InputRecord, Said
  <2>2. CASE HandleKeyboard(f)
    BY <1>a, <2>2 DEF HandleKeyboard, input_state_set_keyboard, InputRecord, Said
  <2>3. CASE HandleMode(f)
    BY <2>3 DEF HandleMode
  <2>4. CASE HandleKeepalive(f)
    <3>1. peerPresent \ f.present = {}
      BY <1>4, <2>4 DEF HandleKeepalive, Synced, OnlyGrows
    <3> QED
      BY <2>4, <3>1 DEF HandleKeepalive, WithoutClasses
  <2> QED
    BY <1>2, <2>1, <2>2, <2>3, <2>4 DEF handle_frame
<1>8. OnlyGrows'
  <2>1. Served(tracked') = Served(tracked)
    BY <1>b DEF Served
  <2>2. presence' \subseteq Served(tracked') /\ peerPresent' \subseteq presence'
    BY <1>b, <1>4, <1>7, <2>1 DEF Synced, OnlyGrows
  <2>3. ASSUME NEW i \in DOMAIN wire', wire'[i].type = "keepalive"
        PROVE  peerPresent' \subseteq wire'[i].present /\ wire'[i].present \subseteq presence'
    <3>1. i + 1 \in DOMAIN wire /\ wire'[i] = wire[i + 1] /\ 1 < i + 1
      BY <1>5, <2>3
    <3> QED
      BY <1>b, <1>4, <1>7, <2>3, <3>1 DEF Synced, OnlyGrows
  <2>4. ASSUME NEW i \in DOMAIN wire', NEW j \in DOMAIN wire', i < j,
               wire'[i].type = "keepalive", wire'[j].type = "keepalive"
        PROVE  wire'[i].present \subseteq wire'[j].present
    <3>1. /\ i + 1 \in DOMAIN wire /\ wire'[i] = wire[i + 1] /\ i \in Nat
          /\ j + 1 \in DOMAIN wire /\ wire'[j] = wire[j + 1] /\ j \in Nat
      BY <1>5
    <3>2. i + 1 < j + 1
      BY <2>4, <3>1
    <3> QED
      BY <2>4, <3>1, <3>2 DEF Synced, OnlyGrows
  <2> QED
    BY <2>2, <2>3, <2>4 DEF OnlyGrows
<1> QED
  BY <1>b, <1>6, <1>7, <1>8 DEF Synced

LEMMA SyncStep ==
  ASSUME Prompt, PeerTimeout > 1, TypeOK, HeardInv, SyncInv, [Next]_vars
  PROVE  SyncInv'
<1> SUFFICES ASSUME Undisturbed' PROVE Synced'
  BY DEF SyncInv
<1>1. Undisturbed /\ Synced
  BY UndisturbedBefore DEF SyncInv
<1>2. local \in InputRecord /\ pad \in InputRecord /\ losses \in Nat /\ crashes \in Nat
  BY DEF TypeOK, HostTypeOK, ReceiverTypeOK, WireTypeOK, SplitTypeOK
<1>3. ASSUME UNCHANGED <<txq, wire, presence, peerPresent, tracked, reports>>,
             local' \in {local, input_state_take(local)},
             pad' \in {pad, input_state_take(pad)}
      PROVE  Synced'
  <2>1. /\ local'.keys = local.keys /\ local'.buttons = local.buttons
        /\ pad'.keys = pad.keys /\ pad'.buttons = pad.buttons
    BY <1>2, <1>3 DEF input_state_take, InputRecord
  <2> QED
    BY <1>1, <1>3, <2>1 DEF Synced, OnlyGrows, Served
<1>4. CASE HidCallback
  BY <1>1, <1>4, CallbackSync
<1>5. CASE SenderTask
  BY <1>1, <1>5, SenderSync
<1>6. CASE ReceiverTask
  BY <1>1, <1>6, ReceiverSync
<1>7. CASE InputHeartbeat \/ InputChipBoots \/ MapperTick \/ MapperSwitches \/ PadHeartbeat
           \/ Tick \/ UNCHANGED vars
  BY <1>3, <1>7
  DEF InputHeartbeat, InputChipBoots, MapperTick, MapperSwitches, PadHeartbeat, Tick, vars,
      hostVars, worldVars, senderVars, wireVars, receiverVars
<1>8. ~(InputChipDown \/ PadChipRestarts \/ Noise)
  BY <1>1, <1>2 DEF InputChipDown, PadChipRestarts, Noise, LoseFrame, Undisturbed
<1> QED
  BY <1>4, <1>5, <1>6, <1>7, <1>8 DEF Next

\* Until something is lost, dropped, unplugged or reset, the pad chip ends up holding what the
\* input chip holds: reports arrive in order, and neither a keepalive nor the watchdog clears a
\* class in between.
THEOREM DrainedStaysInSync ==
  ASSUME Prompt, PeerTimeout > 1
  PROVE  Spec => []DrainedInSync
<1>1. Init => HeardInv
  BY DEF Init, ReceiverInit, HeardInv
<1>2. TypeOK /\ HeardInv /\ [Next]_vars => HeardInv'
  BY HeardStep
<1>3. Init => SyncInv
  <2>1. ASSUME Init PROVE OnlyGrows
    BY <2>1 DEF Init, SenderInit, WireInit, ReceiverInit, OnlyGrows
  <2>2. ASSUME Init PROVE NoneOf(txq, "keyboard") /\ NoneOf(txq, "mouse")
                          /\ NoneOf(wire, "keyboard") /\ NoneOf(wire, "mouse")
    BY <2>2 DEF Init, SenderInit, WireInit, NoneOf
  <2>3. ASSUME Init
        PROVE  /\ Len(txq) <= reports
               /\ local = s_state_initial /\ pad = s_state_initial
    <3>1. txq = <<>> /\ reports = 0
      BY <2>3 DEF Init, SenderInit, WorldInit
    <3> QED
      BY <2>3, <3>1 DEF Init, HostInit, ReceiverInit
  <2> QED
    BY <2>1, <2>2, <2>3 DEF SyncInv, Synced, Settles
<1>4. TypeOK /\ HeardInv /\ SyncInv /\ [Next]_vars => SyncInv'
  BY SyncStep
<1>5. SyncInv => DrainedInSync
  BY DEF SyncInv, Synced, Settles, LastSays, DrainedInSync, Drained
<1> QED
  BY <1>1, <1>2, <1>3, <1>4, <1>5, TypeCorrect, PTL DEF Spec

---------------------------------------------------------------------------
(* The hotkey. *)

\* While the edge detector is armed, no keyboard holds the combination but those whose
\* hold was interrupted.
EdgeInv == ~wasDown => HoldsCombo \subseteq interrupted

\* Pulling out or plugging in d, which then holds nothing, or any report of a mouse.
LEMMA OtherDevice ==
  ASSUME TypeOK, EdgeInv, NEW d \in Devices, NEW b,
         b = Released \/ d \notin Keyboards,
         held' = [held EXCEPT ![d] = b], wasDown' = wasDown,
         interrupted' \in {interrupted, interrupted \ {d}},
         d \notin Keyboards => interrupted' = interrupted
  PROVE  EdgeInv'
<1>1. Released # Combo /\ Keyboards \subseteq Devices
  BY DevicesAssumption
<1>2. held \in [Devices -> Keys \cup Buttons]
  BY DEF TypeOK, WorldTypeOK
<1>3. HoldsCombo' \subseteq HoldsCombo
  BY <1>1, <1>2 DEF HoldsCombo
<1>4. d \in Keyboards => d \notin HoldsCombo'
  BY <1>1, <1>2 DEF HoldsCombo
<1> QED
  BY <1>3, <1>4 DEF EdgeInv

\* A keyboard's report leaves armed only what it interrupts.
LEMMA KeyboardEdge ==
  ASSUME TypeOK, EdgeInv, NEW d \in Devices, NEW keys, KeyboardReports(d, keys)
  PROVE  d \in Keyboards /\ held'[d] = keys /\ EdgeInv' /\ d \notin interrupted'
<1>1. Keyboards \subseteq Devices
  BY DevicesAssumption
<1>2. held \in [Devices -> Keys \cup Buttons]
  BY DEF TypeOK, WorldTypeOK
<1>3. /\ d \in Keyboards /\ held' = [held EXCEPT ![d] = keys]
      /\ wasDown' = (keys = Combo)
      /\ interrupted' = (IF keys = Combo THEN interrupted ELSE HoldsCombo) \ {d}
  BY DEF KeyboardReports
<1>4. held'[d] = keys
  BY <1>2, <1>3
<1>5. ASSUME keys # Combo PROVE HoldsCombo' \subseteq HoldsCombo \ {d}
  BY <1>1, <1>2, <1>3, <1>4, <1>5 DEF HoldsCombo
<1> QED
  BY <1>3, <1>4, <1>5 DEF EdgeInv

\* However many keyboards there are, and with rollover reports, the mode toggles only when
\* a keyboard completes the combination or resumes a hold that a report interrupted.
THEOREM TogglesNeedPresses == Spec => ToggleNeedsPress
<1>1. Init => EdgeInv
  BY DevicesAssumption DEF Init, WorldInit, EdgeInv, HoldsCombo
<1>2. ASSUME TypeOK, EdgeInv, [Next]_vars
      PROVE  /\ EdgeInv'
             /\ mode' # mode /\ up' =>
                  \E d \in Keyboards :
                    held'[d] = Combo
                    /\ (held[d] # Combo \/ d \in interrupted \ interrupted')
  <2>1. CASE HidCallback
    <3>1. CASE \E d \in Devices : InterfaceConnected(d) \/ InterfaceDisconnected(d)
      <4>1. PICK d \in Devices : /\ held' = [held EXCEPT ![d] = Released]
                                 /\ interrupted' = interrupted \ {d}
                                 /\ wasDown' = wasDown /\ mode' = mode
        BY <3>1 DEF InterfaceConnected, InterfaceDisconnected
      <4>2. d \notin Keyboards => interrupted' = interrupted
        BY <1>2, <4>1 DEF TypeOK, WorldTypeOK
      <4> QED
        BY <1>2, <4>1, <4>2, OtherDevice
    <3>2. CASE \E d \in Devices, keys \in Keys : HotkeyReport(d, keys)
      <4>1. PICK d \in Devices, keys \in Keys : HotkeyReport(d, keys)
        BY <3>2
      <4>2. KeyboardReports(d, keys) /\ keys = Combo /\ ~wasDown
        BY <4>1 DEF HotkeyReport, hotkey_fired
      <4>3. d \in Keyboards /\ held'[d] = Combo /\ EdgeInv' /\ d \notin interrupted'
        BY <1>2, <4>2, KeyboardEdge
      <4>4. held[d] = Combo => d \in interrupted
        BY <1>2, <4>2, <4>3 DEF EdgeInv, HoldsCombo
      <4> QED
        BY <4>3, <4>4
    <3>3. CASE \E d \in Devices, keys \in Keys : KeyboardReport(d, keys)
      BY <1>2, <3>3, KeyboardEdge DEF KeyboardReport
    <3>4. CASE \E d \in Devices : RolloverReport(d)
      <4>1. held' = held /\ mode' = mode /\ interrupted' = HoldsCombo
        BY <3>4 DEF RolloverReport
      <4> QED
        BY <4>1 DEF EdgeInv, HoldsCombo
    <3>5. CASE \E d \in Devices, b \in Buttons, moved \in BOOLEAN : MouseReport(d, b, moved)
      <4>1. PICK d \in Devices, b \in Buttons :
              d \notin Keyboards /\ held' = [held EXCEPT ![d] = b]
              /\ wasDown' = wasDown /\ mode' = mode /\ interrupted' = interrupted
        BY <3>5 DEF MouseReport
      <4> QED
        BY <1>2, <4>1, OtherDevice
    <3> QED
      BY <2>1, <3>1, <3>2, <3>3, <3>4, <3>5
      DEF HidCallback, hid_callbacks, driver_event_cb, iface_event_cb
  <2>2. CASE InputChipDown
    BY DevicesAssumption, <2>2 DEF InputChipDown, EdgeInv, HoldsCombo
  <2>3. CASE UNCHANGED <<held, interrupted, wasDown, mode>>
    BY <1>2, <2>3 DEF EdgeInv, HoldsCombo
  <2>4. ~HidCallback /\ ~InputChipDown => UNCHANGED <<held, interrupted, wasDown, mode>>
    BY <1>2
    DEF Next, SenderTask, chip_link_start, sender_task, SendEvent, ReceiveTimeout, NotDueYet,
        SendKeepalive, SendMode, InputHeartbeat, InputChipBoots, ReceiverTask, MapperTick,
        MapperSwitches, PadHeartbeat, PadChipRestarts, Noise, Tick, hostVars, worldVars,
        senderVars, vars
  <2> QED
    BY <2>1, <2>2, <2>3, <2>4
<1> QED
  BY <1>1, <1>2, TypeCorrect, PTL DEF Spec, ToggleNeedsPress

---------------------------------------------------------------------------
(* What happens to mouse motion on its way through the split: it is never  *)
(* duplicated, invented or reordered, and the bridge implements the        *)
(* channel of module MotionChannel.  TypeOK, the order and the uniqueness  *)
(* together are inductive: the order of each queue alone is not, because a *)
(* frame moves from one to the next.                                       *)

---------------------------------------------------------------------------
(* Motion in a queue. *)

\* Only a frame that carries motion has any, and its delta is a number.
LEMMA CarriedDelta ==
  ASSUME NEW f \in Frame
  PROVE  /\ Carries(f) => f.delta \in Nat
         /\ MotionOf(f) \in SUBSET Nat
  BY DEF Carries, MotionOf, Frame, Event, MouseFrame, KeyboardFrame, ModeFrame,
         KeepaliveFrame

\* An element of MotionIn(q) is the delta of a frame of q that carries motion.
LEMMA MotionInMember ==
  ASSUME NEW q, NEW x
  PROVE  x \in MotionIn(q) <=>
           \E i \in DOMAIN q : Carries(q[i]) /\ x = q[i].delta
  BY DEF MotionIn

\* All motion in a queue of frames is a set of numbers.
LEMMA MotionInNat ==
  ASSUME NEW q \in Seq(Frame)
  PROVE  MotionIn(q) \in SUBSET Nat
<1> SUFFICES ASSUME NEW x \in MotionIn(q) PROVE x \in Nat
  OBVIOUS
<1>1. PICK i \in DOMAIN q : Carries(q[i]) /\ x = q[i].delta
  BY MotionInMember
<1>2. q[i] \in Frame
  BY <1>1
<1> QED
  BY <1>1, <1>2, CarriedDelta

\* An empty queue carries nothing.
LEMMA MotionInEmpty == MotionIn(<<>>) = {} /\ Ordered(<<>>)
  BY DEF MotionIn, Ordered

\* A frame written to a queue adds its motion, and keeps the order when it is
\* newer than all that is there.
LEMMA MotionInAppend ==
  ASSUME NEW q \in Seq(Frame), NEW f \in Frame
  PROVE  /\ MotionIn(Append(q, f)) = MotionIn(q) \cup MotionOf(f)
         /\ Ordered(q) /\ Before(MotionIn(q), MotionOf(f)) => Ordered(Append(q, f))
<1> DEFINE r == Append(q, f)
<1>1. /\ r \in Seq(Frame) /\ DOMAIN r = 1..(Len(q) + 1) /\ DOMAIN q = 1..Len(q)
      /\ \A i \in DOMAIN q : r[i] = q[i]
      /\ r[Len(q) + 1] = f /\ Len(q) \in Nat
  OBVIOUS
<1> HIDE DEF r
<1>2. ASSUME NEW x \in MotionIn(r) PROVE x \in MotionIn(q) \cup MotionOf(f)
  <2>1. PICK i \in DOMAIN r : Carries(r[i]) /\ x = r[i].delta
    BY <1>2, MotionInMember
  <2>2. CASE i \in DOMAIN q
    BY <2>1, <2>2, <1>1, MotionInMember
  <2>3. CASE i = Len(q) + 1
    BY <2>1, <2>3, <1>1 DEF MotionOf
  <2> QED BY <2>2, <2>3, <1>1
<1>3. ASSUME NEW x \in MotionIn(q) PROVE x \in MotionIn(r)
  <2>1. PICK i \in DOMAIN q : Carries(q[i]) /\ x = q[i].delta
    BY <1>3, MotionInMember
  <2>2. i \in DOMAIN r
    BY <1>1
  <2> QED
    BY <2>1, <2>2, <1>1, MotionInMember
<1>4. ASSUME NEW x \in MotionOf(f) PROVE x \in MotionIn(r)
  <2>1. Carries(f) /\ x = f.delta
    BY <1>4 DEF MotionOf
  <2>2. Len(q) + 1 \in DOMAIN r
    BY <1>1
  <2> QED
    BY <2>1, <2>2, <1>1, MotionInMember
<1>5. ASSUME Ordered(q), Before(MotionIn(q), MotionOf(f))
      PROVE  Ordered(r)
  <2> SUFFICES ASSUME NEW i \in DOMAIN r, NEW j \in DOMAIN r,
                      i < j, Carries(r[i]), Carries(r[j])
               PROVE  r[i].delta < r[j].delta
    BY DEF Ordered
  <2>1. i \in DOMAIN q
    BY <1>1
  <2>2. CASE j \in DOMAIN q
    BY <1>5, <1>1, <2>1, <2>2 DEF Ordered
  <2>3. CASE j = Len(q) + 1
    <3>1. q[i].delta \in MotionIn(q) /\ r[i] = q[i]
      BY <1>1, <2>1, MotionInMember
    <3>2. f.delta \in MotionOf(f)
      BY <1>1, <2>3 DEF MotionOf
    <3> QED
      BY <1>5, <1>1, <2>3, <3>1, <3>2 DEF Before
  <2> QED BY <1>1, <2>2, <2>3
<1> QED
  BY <1>2, <1>3, <1>4, <1>5 DEF r

\* A frame read from a queue takes its motion out, which is older than the rest.
LEMMA MotionInTail ==
  ASSUME NEW q \in Seq(Frame), q # <<>>
  PROVE  /\ MotionIn(q) = MotionOf(Head(q)) \cup MotionIn(Tail(q))
         /\ Ordered(q) => /\ Ordered(Tail(q))
                          /\ Before(MotionOf(Head(q)), MotionIn(Tail(q)))
<1> DEFINE r == Tail(q)
           f == Head(q)
<1>1. /\ r \in Seq(Frame) /\ DOMAIN q = 1..Len(q) /\ DOMAIN r = 1..(Len(q) - 1)
      /\ \A i \in DOMAIN r : r[i] = q[i + 1]
      /\ f = q[1] /\ Len(q) \in Nat /\ Len(q) > 0 /\ f \in Frame
  OBVIOUS
<1> HIDE DEF r, f
<1>2. ASSUME NEW x \in MotionIn(q) PROVE x \in MotionOf(f) \cup MotionIn(r)
  <2>1. PICK i \in DOMAIN q : Carries(q[i]) /\ x = q[i].delta
    BY <1>2, MotionInMember
  <2>2. CASE i = 1
    BY <2>1, <2>2, <1>1 DEF MotionOf
  <2>3. CASE i > 1
    <3>1. i - 1 \in DOMAIN r /\ r[i - 1] = q[i]
      BY <1>1, <2>3
    <3> QED
      BY <2>1, <3>1, MotionInMember
  <2> QED BY <2>2, <2>3, <1>1
<1>3. ASSUME NEW x \in MotionOf(f) PROVE x \in MotionIn(q)
  <2>1. 1 \in DOMAIN q /\ Carries(q[1]) /\ x = q[1].delta
    BY <1>1, <1>3 DEF MotionOf
  <2> QED
    BY <2>1, MotionInMember
<1>4. ASSUME NEW x \in MotionIn(r)
      PROVE  \E k \in DOMAIN q : k > 1 /\ Carries(q[k]) /\ x = q[k].delta
  <2>1. PICK i \in DOMAIN r : Carries(r[i]) /\ x = r[i].delta
    BY <1>4, MotionInMember
  <2>2. i + 1 \in DOMAIN q /\ i + 1 > 1
    BY <1>1
  <2> QED
    BY <2>1, <2>2, <1>1
<1>5. ASSUME Ordered(q) PROVE Ordered(r)
  <2> SUFFICES ASSUME NEW i \in DOMAIN r, NEW j \in DOMAIN r,
                      i < j, Carries(r[i]), Carries(r[j])
               PROVE  r[i].delta < r[j].delta
    BY DEF Ordered
  <2>1. i + 1 \in DOMAIN q /\ j + 1 \in DOMAIN q /\ i + 1 < j + 1
    BY <1>1
  <2>2. r[i] = q[i + 1] /\ r[j] = q[j + 1]
    BY <1>1
  <2> QED
    BY <1>5, <2>1, <2>2 DEF Ordered
<1>6. ASSUME Ordered(q) PROVE Before(MotionOf(f), MotionIn(r))
  <2> SUFFICES ASSUME NEW a \in MotionOf(f), NEW b \in MotionIn(r) PROVE a < b
    BY DEF Before
  <2>1. PICK k \in DOMAIN q : k > 1 /\ Carries(q[k]) /\ b = q[k].delta
    BY <1>4
  <2>2. 1 \in DOMAIN q /\ Carries(q[1]) /\ a = q[1].delta
    BY <1>1 DEF MotionOf
  <2> QED
    BY <1>6, <2>1, <2>2 DEF Ordered
<1>7. MotionIn(r) \subseteq MotionIn(q)
  BY <1>4, MotionInMember
<1> QED
  BY <1>2, <1>3, <1>5, <1>6, <1>7 DEF r, f

---------------------------------------------------------------------------
(* What each task does to motion. *)

LEMMA QueuesAreFrames ==
  ASSUME TypeOK
  PROVE  txq \in Seq(Frame) /\ wire \in Seq(Frame)
<1>1. txq \in Seq(Event) /\ wire \in Seq(Frame)
  BY DEF TypeOK, SenderTypeOK, WireTypeOK
<1>2. \A i \in DOMAIN txq : txq[i] \in Frame
  BY <1>1 DEF Frame
<1> QED
  BY <1>1, <1>2

\* The queue is there and takes an event.
HasRoom == txpc # "off" /\ Len(txq) < QueueMax

\* xQueueSend() appends the event's motion or drops it.
LEMMA PostMotion ==
  ASSUME TypeOK, NEW e \in Event, Post(e)
  PROVE  /\ MotionIn(txq') \in {MotionIn(txq), MotionIn(txq) \cup MotionOf(e)}
         /\ HasRoom => MotionIn(txq') = MotionIn(txq) \cup MotionOf(e)
         /\ Ordered(txq) /\ Before(MotionIn(txq), MotionOf(e)) => Ordered(txq')
<1>1. txq \in Seq(Frame) /\ e \in Frame
  BY QueuesAreFrames DEF Frame
<1>2. (txq' = txq /\ ~HasRoom) \/ txq' = Append(txq, e)
  BY DEF Post, HasRoom
<1> QED
  BY <1>1, <1>2, MotionInAppend

\* A callback that posts an event without motion leaves motion alone.
LEMMA PostNoMotion ==
  ASSUME TypeOK, NEW e \in Event, Post(e), MotionOf(e) = {}
  PROVE  MotionIn(txq') = MotionIn(txq) /\ (Ordered(txq) => Ordered(txq'))
  BY PostMotion DEF Before

\* Motion comes into the world with a mouse report, newer than any before it.
LEMMA CallbackMotion ==
  ASSUME TypeOK, hid_callbacks
  PROVE  \/ /\ issued' = issued
            /\ MotionIn(txq') = MotionIn(txq)
            /\ Ordered(txq) => Ordered(txq')
         \/ /\ issued' = issued \cup {reports + 1}
            /\ MotionIn(txq') \in {MotionIn(txq), MotionIn(txq) \cup {reports + 1}}
            /\ HasRoom => MotionIn(txq') = MotionIn(txq) \cup {reports + 1}
            /\ Ordered(txq) /\ Before(MotionIn(txq), {reports + 1}) => Ordered(txq')
<1> DEFINE Quiet == /\ issued' = issued
                    /\ MotionIn(txq') = MotionIn(txq)
                    /\ Ordered(txq) => Ordered(txq')
<1>1. ASSUME NEW d \in Devices, InterfaceConnected(d) \/ InterfaceDisconnected(d)
      PROVE  Quiet
  <2>1. issued' = issued /\ txq' = txq
    BY <1>1 DEF InterfaceConnected, InterfaceDisconnected
  <2> QED
    BY <2>1
<1>2. ASSUME NEW d \in Devices, NEW k \in Keys, HotkeyReport(d, k)
      PROVE  Quiet
  <2> DEFINE e == [type |-> "mode", passthrough |-> ~mode]
  <2>1. e \in Event /\ MotionOf(e) = {}
    BY DEF TypeOK, SenderTypeOK, Event, ModeFrame, MotionOf, Carries
  <2>2. Post(e) /\ issued' = issued
    BY <1>2 DEF HotkeyReport, chip_link_set_mode
  <2> QED
    BY <2>1, <2>2, PostNoMotion
<1>3. ASSUME NEW d \in Devices, NEW k \in Keys, KeyboardReport(d, k)
      PROVE  Quiet
  <2> DEFINE e == [type |-> "keyboard", keys |-> k]
  <2>1. e \in Event /\ MotionOf(e) = {}
    BY DEF Event, KeyboardFrame, MotionOf, Carries
  <2>2. Post(e) /\ issued' = issued
    BY <1>3 DEF KeyboardReport, chip_link_send_keyboard
  <2> QED
    BY <2>1, <2>2, PostNoMotion
<1>4. ASSUME NEW d \in Devices, RolloverReport(d)
      PROVE  Quiet
  <2> DEFINE mods == ModsOf[held[d]]
             e == [type |-> "keyboard", keys |-> mods]
  <2>1. mods \in Keys /\ issued' = issued
    BY <1>4, DevicesAssumption DEF RolloverReport, TypeOK, HostTypeOK, WorldTypeOK
  <2>2. e \in Event /\ MotionOf(e) = {}
    BY <2>1 DEF Event, KeyboardFrame, MotionOf, Carries
  <2>3. txq' = txq \/ Post(e)
    BY <1>4 DEF RolloverReport, chip_link_send_keyboard
  <2> QED
    BY <2>1, <2>2, <2>3, PostNoMotion
<1>5. ASSUME NEW d \in Devices, NEW b \in Buttons, NEW moved \in BOOLEAN,
             MouseReport(d, b, moved)
      PROVE  Quiet \/ /\ issued' = issued \cup {reports + 1}
                      /\ MotionIn(txq') \in {MotionIn(txq), MotionIn(txq) \cup {reports + 1}}
                      /\ HasRoom => MotionIn(txq') = MotionIn(txq) \cup {reports + 1}
                      /\ Ordered(txq) /\ Before(MotionIn(txq), {reports + 1})
                           => Ordered(txq')
  <2> DEFINE delta == IF moved THEN reports + 1 ELSE 0
             e == [type |-> "mouse", buttons |-> b, delta |-> delta]
  <2>1. reports \in Nat /\ Post(e)
        /\ issued' = issued \cup (IF moved THEN {reports + 1} ELSE {})
    BY <1>5 DEF MouseReport, chip_link_send_mouse, TypeOK, WorldTypeOK
  <2>2. e \in Event
    BY <2>1 DEF Event, MouseFrame
  <2>3. CASE moved
    <3>1. MotionOf(e) = {reports + 1}
      BY <2>1, <2>3 DEF MotionOf, Carries
    <3> QED
      BY <2>1, <2>2, <2>3, <3>1, PostMotion
  <2>4. CASE ~moved
    <3>1. MotionOf(e) = {}
      BY <2>4 DEF MotionOf, Carries
    <3> QED
      BY <2>1, <2>2, <2>4, <3>1, PostNoMotion
  <2> QED BY <2>3, <2>4
<1> QED
  BY <1>1, <1>2, <1>3, <1>4, <1>5
  DEF hid_callbacks, driver_event_cb, iface_event_cb

\* sender_task moves the motion at the head of its queue to the wire.
LEMMA SenderMotion ==
  ASSUME TypeOK, chip_link_start \/ sender_task
  PROVE  \E m \in SUBSET Nat :
           /\ MotionIn(txq) = m \cup MotionIn(txq')
           /\ MotionIn(wire') = MotionIn(wire) \cup m
           /\ Ordered(txq) => Ordered(txq') /\ Before(m, MotionIn(txq'))
           /\ Ordered(wire) /\ Before(MotionIn(wire), m) => Ordered(wire')
<1> txq \in Seq(Frame) /\ wire \in Seq(Frame)
  BY QueuesAreFrames
<1>1. CASE SendEvent
  <2> DEFINE f == Head(txq)
  <2>1. txq # <<>> /\ txq' = Tail(txq) /\ wire' = Append(wire, f)
    BY <1>1 DEF SendEvent, frame_send
  <2>2. f \in Frame
    BY <2>1
  <2>3. MotionOf(f) \in SUBSET Nat
    BY <2>2, CarriedDelta
  <2> WITNESS MotionOf(f) \in SUBSET Nat
  <2> QED
    BY <2>1, <2>2, MotionInTail, MotionInAppend
<1>2. ASSUME NEW f \in Frame, ~Carries(f), txq' = txq,
             wire' = wire \/ wire' = Append(wire, f)
      PROVE  \E m \in SUBSET Nat :
               /\ MotionIn(txq) = m \cup MotionIn(txq')
               /\ MotionIn(wire') = MotionIn(wire) \cup m
               /\ Ordered(txq) => Ordered(txq') /\ Before(m, MotionIn(txq'))
               /\ Ordered(wire) /\ Before(MotionIn(wire), m) => Ordered(wire')
  <2>1. MotionOf(f) = {}
    BY <1>2 DEF MotionOf
  <2>2. {} \in SUBSET Nat
    OBVIOUS
  <2> WITNESS {} \in SUBSET Nat
  <2>3. MotionIn(wire') = MotionIn(wire) /\ (Ordered(wire) => Ordered(wire'))
    BY <1>2, <2>1, MotionInAppend DEF Before
  <2> QED
    BY <1>2, <2>3 DEF Before
<1>3. CASE chip_link_start \/ ReceiveTimeout \/ NotDueYet \/ SendKeepalive \/ SendMode
  <2>1. PICK f \in Frame : f = [type |-> "keepalive", present |-> presence]
    BY DEF TypeOK, SenderTypeOK, Frame, KeepaliveFrame
  <2>2. PICK g \in Frame : g = [type |-> "mode", passthrough |-> mode]
    BY DEF TypeOK, SenderTypeOK, Frame, Event, ModeFrame
  <2>3. ~Carries(f) /\ ~Carries(g)
    BY <2>1, <2>2 DEF Carries
  <2>4. txq' = txq /\ (wire' = wire \/ wire' = Append(wire, f) \/ wire' = Append(wire, g))
    BY <1>3, <2>1, <2>2
    DEF chip_link_start, ReceiveTimeout, NotDueYet, SendKeepalive, SendMode,
        frame_send, wireVars
  <2> QED
    BY <1>2, <2>3, <2>4
<1> QED
  BY <1>1, <1>3 DEF sender_task

\* Clearing classes only ever takes motion away.
LEMMA WithoutClassesMotion ==
  ASSUME NEW s \in InputRecord, NEW gone
  PROVE  WithoutClasses(s, gone).motion \subseteq s.motion
  BY InputStateTypes, ReleasedAssumption
  DEF WithoutClasses, input_state_set_keyboard_present,
      input_state_set_mouse_present, InputRecord

\* A mouse that is not there has no motion.
MouseHasMotion == pad.mouse \/ pad.motion = {}

\* Motion is taken away only with a mouse that was there and then is not.
LEMMA WithoutClassesTakes ==
  ASSUME NEW s \in InputRecord, NEW gone, s.mouse \/ s.motion = {}
  PROVE  LET t == WithoutClasses(s, gone)
         IN  /\ t.mouse \/ t.motion = {}
             /\ t.motion = s.motion \/ (s.mouse /\ ~t.mouse)
<1> DEFINE k == IF "keyboard" \in gone THEN input_state_set_keyboard_present(s, FALSE) ELSE s
<1>1. k \in InputRecord /\ k.mouse = s.mouse /\ k.motion = s.motion
  BY InputStateTypes, ReleasedAssumption DEF input_state_set_keyboard_present, InputRecord
<1>2. CASE "mouse" \in gone
  <2>1. WithoutClasses(s, gone) = input_state_set_mouse_present(k, FALSE)
    BY <1>2 DEF WithoutClasses
  <2>2. /\ input_state_set_mouse_present(k, FALSE).mouse = FALSE
        /\ input_state_set_mouse_present(k, FALSE).motion = {}
    <3> HIDE DEF k
    <3> QED
      BY <1>1 DEF input_state_set_mouse_present, InputRecord
  <2> HIDE DEF k
  <2> QED
    BY <2>1, <2>2
<1>3. CASE "mouse" \notin gone
  <2>1. WithoutClasses(s, gone) = k
    BY <1>3 DEF WithoutClasses
  <2> HIDE DEF k
  <2> QED
    BY <1>1, <2>1
<1> QED
  BY <1>2, <1>3

\* receiver_task moves the motion at the head of the wire to the accumulator.
LEMMA ReceiverMotion ==
  ASSUME TypeOK, receiver_task
  PROVE  \E m \in SUBSET Nat :
           /\ MotionIn(wire) = m \cup MotionIn(wire')
           /\ pad'.motion \subseteq pad.motion \cup m
           /\ Ordered(wire) => Ordered(wire') /\ Before(m, MotionIn(wire'))
<1> wire \in Seq(Frame) /\ pad \in InputRecord
  BY QueuesAreFrames DEF TypeOK, ReceiverTypeOK
<1>1. CASE ReceiveFrame
  <2> DEFINE f == Head(wire)
  <2>1. wire # <<>> /\ wire' = Tail(wire) /\ handle_frame(f)
    BY <1>1 DEF ReceiveFrame
  <2>2. f \in Frame
    BY <2>1
  <2>4. MotionOf(f) \in SUBSET Nat
    BY <2>2, CarriedDelta
  <2>3. pad'.motion \subseteq pad.motion \cup MotionOf(f)
    <3>1. CASE HandleMouse(f)
      BY <3>1 DEF HandleMouse, input_state_accum_mouse, InputRecord
    <3>2. CASE HandleKeyboard(f)
      BY <3>2 DEF HandleKeyboard, input_state_set_keyboard, InputRecord
    <3>3. CASE HandleMode(f)
      BY <3>3 DEF HandleMode
    <3>4. CASE HandleKeepalive(f)
      BY <3>4, WithoutClassesMotion DEF HandleKeepalive
    <3> QED
      BY <2>1, <3>1, <3>2, <3>3, <3>4 DEF handle_frame
  <2> WITNESS MotionOf(f) \in SUBSET Nat
  <2> QED
    BY <2>1, <2>3, MotionInTail
<1>2. CASE PeerSilent
  <2>1. wire' = wire /\ pad'.motion \subseteq pad.motion
    BY <1>2, WithoutClassesMotion DEF PeerSilent, wireVars
  <2>2. {} \in SUBSET Nat
    OBVIOUS
  <2> WITNESS {} \in SUBSET Nat
  <2> QED
    BY <2>1 DEF Before
<1> QED
  BY <1>1, <1>2 DEF receiver_task

---------------------------------------------------------------------------
(* The same as sets: motion taken (D), arrived (P), on the wire (W), in the *)
(* queue (T), and all that was reported (I).                               *)

Chain(D, P, W, T, I) ==
  /\ D \cup P \cup W \cup T \subseteq I
  /\ Before(D, P) /\ Before(D \cup P, W \cup T) /\ Before(W, T)

\* In a chain no two places share a delta.
LEMMA ChainDisjoint ==
  ASSUME NEW D, NEW P, NEW W, NEW T, NEW I \in SUBSET Nat, Chain(D, P, W, T, I)
  PROVE  /\ P \cap D = {}
         /\ W \cap (D \cup P \cup T) = {}
         /\ T \cap (D \cup P) = {}
<1>1. ASSUME NEW A, NEW B, Before(A, B), A \subseteq I PROVE A \cap B = {}
  <2> SUFFICES ASSUME NEW x \in A, x \in B PROVE FALSE
    OBVIOUS
  <2>1. x < x /\ x \in Nat
    BY <1>1 DEF Before
  <2> QED
    BY <2>1
<1>2. D \subseteq I /\ D \cup P \subseteq I /\ W \subseteq I
      /\ Before(D, P) /\ Before(D \cup P, W \cup T) /\ Before(W, T)
  BY DEF Chain
<1>3. D \cap P = {}
  BY <1>1, <1>2
<1>4. (D \cup P) \cap (W \cup T) = {}
  BY <1>1, <1>2
<1>5. W \cap T = {}
  BY <1>1, <1>2
<1> QED
  BY <1>3, <1>4, <1>5

\* Something newer than everything is reported, and queued or dropped.
LEMMA ChainReport ==
  ASSUME NEW D, NEW P, NEW W, NEW T, NEW I, NEW n, NEW U,
         Chain(D, P, W, T, I), Before(I, {n}), U \in {T, T \cup {n}}
  PROVE  Chain(D, P, W, U, I \cup {n}) /\ Before(T, {n})
  BY DEF Chain, Before

\* The oldest part m of the queue goes to the wire.
LEMMA ChainSend ==
  ASSUME NEW D, NEW P, NEW W, NEW U, NEW I, NEW m,
         Chain(D, P, W, m \cup U, I), Before(m, U)
  PROVE  Chain(D, P, W \cup m, U, I) /\ Before(W, m)
  BY DEF Chain, Before

\* The oldest part m of the wire arrives, or some of it.
LEMMA ChainReceive ==
  ASSUME NEW D, NEW P, NEW V, NEW T, NEW I, NEW m, NEW Q,
         Chain(D, P, m \cup V, T, I), Before(m, V), Q \subseteq P \cup m
  PROVE  Chain(D, Q, V, T, I)
  BY DEF Chain, Before

\* All that has arrived is taken.
LEMMA ChainTake ==
  ASSUME NEW D, NEW P, NEW W, NEW T, NEW I, Chain(D, P, W, T, I)
  PROVE  Chain(D \cup P, {}, W, T, I)
  BY DEF Chain, Before

\* Anything not yet taken may be lost.
LEMMA ChainLose ==
  ASSUME NEW D, NEW P, NEW W, NEW T, NEW I, NEW Q, NEW V, NEW U,
         Chain(D, P, W, T, I), Q \subseteq P, V \subseteq W, U \subseteq T
  PROVE  Chain(D, Q, V, U, I)
  BY DEF Chain, Before

---------------------------------------------------------------------------
(* The invariant. *)

MotionChain ==
  Chain(delivered \cup logged, pad.motion, MotionIn(wire), MotionIn(txq), issued)

\* The order and the uniqueness say no more than that.
LEMMA ChainIsMotion ==
  ASSUME issued \in SUBSET Nat
  PROVE  MotionInOrder /\ NeverTwice <=>
           /\ Ordered(txq) /\ Ordered(wire) /\ MotionChain
           /\ delivered \cap logged = {}
<1> DEFINE D == delivered \cup logged
           P == pad.motion
           W == MotionIn(wire)
           T == MotionIn(txq)
<1>1. Arrived = D \cup P
  BY DEF Arrived
<1>2. ASSUME MotionChain
      PROVE  P \cap D = {} /\ W \cap (D \cup P \cup T) = {} /\ T \cap (D \cup P) = {}
  <2> HIDE DEF D, P, W, T
  <2>1. Chain(D, P, W, T, issued)
    BY <1>2 DEF MotionChain, D, P, W, T
  <2> QED
    BY <2>1, ChainDisjoint
<1> QED
  BY <1>1, <1>2 DEF MotionInOrder, NeverTwice, MotionChain, Chain

MotionInv ==
  Ordered(txq) /\ Ordered(wire) /\ MotionChain /\ delivered \cap logged = {}

\* Nothing has moved yet.
LEMMA MotionInit == Init => MotionInv
<1> HAVE Init
<1>1. /\ txq = <<>> /\ wire = <<>> /\ pad.motion = {}
      /\ delivered = {} /\ logged = {} /\ issued = {}
  BY DEF Init, SenderInit, WireInit, ReceiverInit, WorldInit, s_state_initial
<1>2. MotionIn(txq) = {} /\ MotionIn(wire) = {} /\ Ordered(txq) /\ Ordered(wire)
  BY <1>1, MotionInEmpty
<1> QED
  BY <1>1, <1>2 DEF MotionInv, MotionChain, Chain, Before

\* One step per task or fault.
LEMMA MotionStep == TypeOK /\ MotionInv /\ [Next]_vars => MotionInv'
<1> SUFFICES ASSUME TypeOK, MotionInv, [Next]_vars PROVE MotionInv'
  OBVIOUS
<1> DEFINE D == delivered \cup logged
           P == pad.motion
           W == MotionIn(wire)
           T == MotionIn(txq)
<1>a. Chain(D, P, W, T, issued) /\ Ordered(txq) /\ Ordered(wire)
      /\ delivered \cap logged = {}
  BY DEF MotionInv, MotionChain
<1>b. pad \in InputRecord /\ reports \in Nat /\ Before(issued, {reports + 1})
      /\ issued \in SUBSET Nat
  BY DEF TypeOK, ReceiverTypeOK, WorldTypeOK, Before
<1>c. P \cap D = {}
  <2> HIDE DEF D, P, W, T
  <2> QED
    BY <1>a, <1>b, ChainDisjoint
<1>d. input_state_take(pad).motion = {}
  BY <1>b DEF input_state_take, InputRecord
\* What is left to prove of a step that takes nothing.
<1>e. ASSUME UNCHANGED <<delivered, logged>>, Ordered(txq)', Ordered(wire)',
             Chain(D, P', W', T', issued')
      PROVE  MotionInv'
  BY <1>a, <1>e DEF MotionInv, MotionChain
\* Of one that only loses motion from where it is.
<1>f. ASSUME UNCHANGED <<delivered, logged, issued>>,
             txq' = txq \/ txq' = <<>>,
             wire' = wire \/ wire' = <<>> \/ (wire # <<>> /\ wire' = Tail(wire)),
             P' \subseteq P
      PROVE  MotionInv'
  <2>1. T' \subseteq T /\ Ordered(txq)'
    BY <1>a, <1>f, MotionInEmpty
  <2>2. W' \subseteq W /\ Ordered(wire)'
    <3>1. CASE wire # <<>> /\ wire' = Tail(wire)
      BY <1>a, <3>1, QueuesAreFrames, MotionInTail
    <3> QED
      BY <1>a, <1>f, <3>1, MotionInEmpty
  <2>3. Chain(D, P', W', T', issued)
    <3> HIDE DEF D, P, W, T
    <3> QED
      BY <1>a, <1>f, <2>1, <2>2, ChainLose
  <2> QED
    BY <1>e, <1>f, <2>1, <2>2, <2>3
<1>1. CASE HidCallback
  <2>1. UNCHANGED <<delivered, logged, wire, pad>> /\ hid_callbacks
    BY <1>1 DEF HidCallback, wireVars, receiverVars
  <2>2. CASE /\ issued' = issued /\ T' = T
             /\ Ordered(txq) => Ordered(txq)'
    BY <1>a, <1>e, <2>1, <2>2
  <2>3. CASE /\ issued' = issued \cup {reports + 1}
             /\ T' \in {T, T \cup {reports + 1}}
             /\ Ordered(txq) /\ Before(T, {reports + 1}) => Ordered(txq)'
    <3>1. Chain(D, P, W, T', issued') /\ Before(T, {reports + 1})
      <4> HIDE DEF D, P, W, T
      <4> QED
        BY <1>a, <1>b, <2>3, ChainReport
    <3> QED
      BY <1>a, <1>e, <2>1, <2>3, <3>1
  <2> QED
    BY <2>1, <2>2, <2>3, CallbackMotion
<1>2. CASE SenderTask
  <2>1. /\ UNCHANGED <<delivered, logged, pad, issued>>
        /\ chip_link_start \/ sender_task
    BY <1>2 DEF SenderTask, historyVars, receiverVars, worldVars
  <2>2. PICK m \in SUBSET Nat :
          /\ T = m \cup T'
          /\ W' = W \cup m
          /\ Ordered(txq) => Ordered(txq)' /\ Before(m, T')
          /\ Ordered(wire) /\ Before(W, m) => Ordered(wire)'
    BY <2>1, SenderMotion
  <2>3. Chain(D, P, W', T', issued) /\ Before(W, m)
    <3> HIDE DEF D, P, W, T
    <3> QED
      BY <1>a, <2>2, ChainSend
  <2> QED
    BY <1>a, <1>e, <2>1, <2>2, <2>3
<1>3. CASE ReceiverTask
  <2>1. UNCHANGED <<delivered, logged, txq, issued>> /\ receiver_task
    BY <1>3 DEF ReceiverTask, historyVars, senderVars, worldVars
  <2>2. PICK m \in SUBSET Nat :
          /\ W = m \cup W'
          /\ P' \subseteq P \cup m
          /\ Ordered(wire) => Ordered(wire)' /\ Before(m, W')
    BY <2>1, ReceiverMotion
  <2>3. Chain(D, P', W', T, issued)
    <3> HIDE DEF D, P, W, T
    <3> QED
      BY <1>a, <2>2, ChainReceive
  <2> QED
    BY <1>a, <1>e, <2>1, <2>2, <2>3
<1>4. CASE MapperTick \/ PadHeartbeat
  <2>1. UNCHANGED <<wire, txq, issued>> /\ P' = {}
        /\ \/ delivered' = delivered \cup P /\ logged' = logged
           \/ logged' = logged \cup P /\ delivered' = delivered
    BY <1>4, <1>d
    DEF MapperTick, PadHeartbeat, wireVars, senderVars, worldVars
  <2>2. D' = D \cup P
    BY <2>1
  <2>3. Chain(D', P', W, T, issued)
    <3>1. Chain(D \cup P, {}, W, T, issued)
      <4> HIDE DEF D, P, W, T
      <4> QED
        BY <1>a, ChainTake
    <3> QED
      BY <2>1, <2>2, <3>1
  <2>4. delivered' \cap logged' = {}
    BY <1>a, <1>c, <2>1
  <2> QED
    BY <1>a, <2>1, <2>3, <2>4 DEF MotionInv, MotionChain
<1>5. CASE InputHeartbeat \/ InputChipDown \/ InputChipBoots
           \/ MapperSwitches \/ Tick \/ UNCHANGED vars
  <2>1. UNCHANGED <<delivered, logged, issued, wire, pad>>
    BY <1>5
    DEF InputHeartbeat, InputChipDown, InputChipBoots, MapperSwitches, Tick,
        vars, historyVars, worldVars, wireVars, receiverVars
  <2>2. txq' = txq \/ txq' = <<>>
    BY <1>5
    DEF InputHeartbeat, InputChipDown, InputChipBoots, MapperSwitches, Tick,
        vars, senderVars
  <2> QED
    BY <1>f, <2>1, <2>2
<1>6. CASE PadChipRestarts
  <2>1. UNCHANGED <<delivered, logged, issued, txq>> /\ wire' = <<>> /\ P' = {}
    BY <1>6 DEF PadChipRestarts, worldVars, senderVars, s_state_initial
  <2> QED
    BY <1>f, <2>1
<1>7. CASE Noise
  <2>1. UNCHANGED <<delivered, logged, issued, txq, pad>>
        /\ wire # <<>> /\ wire' = Tail(wire)
    BY <1>7
    DEF Noise, LoseFrame, worldVars, senderVars, receiverVars, historyVars
  <2> QED
    BY <1>f, <2>1
<1> QED
  BY <1>1, <1>2, <1>3, <1>4, <1>5, <1>6, <1>7 DEF Next

\* Mouse motion is never reordered between the mouse and the pad: not by the
\* queue, the wire, or the moment a task takes it.
THEOREM MotionStaysInOrder == Spec => []MotionInOrder
<1>1. Init => TypeOK /\ MotionInv
  BY TypeInit, MotionInit
<1>2. TypeOK /\ MotionInv /\ [Next]_vars => (TypeOK /\ MotionInv)'
  BY TypeStep, MotionStep
<1>3. TypeOK /\ MotionInv => MotionInOrder
  BY ChainIsMotion DEF MotionInv, TypeOK, WorldTypeOK
<1> QED
  BY <1>1, <1>2, <1>3, PTL DEF Spec

\* No delta is ever in two places or invented, whatever is lost, dropped,
\* unplugged or reset: the contract of input_state_take() for both its readers.
THEOREM MotionIsNeverTwice == Spec => []NeverTwice
<1>1. Init => TypeOK /\ MotionInv
  BY TypeInit, MotionInit
<1>2. TypeOK /\ MotionInv /\ [Next]_vars => (TypeOK /\ MotionInv)'
  BY TypeStep, MotionStep
<1>3. TypeOK /\ MotionInv => NeverTwice
  BY ChainIsMotion DEF MotionInv, TypeOK, WorldTypeOK
<1> QED
  BY <1>1, <1>2, <1>3, PTL DEF Spec

---------------------------------------------------------------------------
(* The refinement. *)

\* What a step of the bridge does to the deltas as a whole: a new one comes in,
\* all that has arrived is taken, or some of what is under way is lost.
LEMMA MotionFlow ==
  ASSUME TypeOK, [Next]_vars
  PROVE  \/ /\ UNCHANGED <<delivered, pad, wire>>
            /\ issued' = issued \cup {reports + 1}
            /\ MotionIn(txq') \in {MotionIn(txq), MotionIn(txq) \cup {reports + 1}}
         \/ /\ UNCHANGED <<issued, wire, txq>>
            /\ delivered' = delivered \cup pad.motion
            /\ pad'.motion = {}
         \/ /\ UNCHANGED <<issued, delivered>>
            /\ pad'.motion \cup MotionIn(wire') \cup MotionIn(txq')
                 \subseteq pad.motion \cup MotionIn(wire) \cup MotionIn(txq)
<1>a. txq \in Seq(Frame) /\ wire \in Seq(Frame)
  BY QueuesAreFrames
<1>b. input_state_take(pad).motion = {}
  BY DEF TypeOK, ReceiverTypeOK, input_state_take, InputRecord
<1>1. CASE HidCallback
  BY <1>1, CallbackMotion DEF HidCallback, wireVars, receiverVars
<1>2. CASE SenderTask
  <2>1. /\ UNCHANGED <<delivered, logged, pad, issued>>
        /\ chip_link_start \/ sender_task
    BY <1>2 DEF SenderTask, historyVars, receiverVars, worldVars
  <2>2. MotionIn(wire') \cup MotionIn(txq') \subseteq MotionIn(wire) \cup MotionIn(txq)
    BY <2>1, SenderMotion
  <2> QED
    BY <2>1, <2>2
<1>3. CASE ReceiverTask
  <2>1. UNCHANGED <<delivered, logged, txq, issued>> /\ receiver_task
    BY <1>3 DEF ReceiverTask, historyVars, senderVars, worldVars
  <2>2. pad'.motion \cup MotionIn(wire') \subseteq pad.motion \cup MotionIn(wire)
    BY <2>1, ReceiverMotion
  <2> QED
    BY <2>1, <2>2
<1>4. CASE MapperTick
  BY <1>4, <1>b DEF MapperTick, wireVars, senderVars, worldVars
<1>8. CASE PadHeartbeat
  BY <1>8, <1>b DEF PadHeartbeat, wireVars, senderVars, worldVars
<1>5. CASE InputHeartbeat \/ InputChipDown \/ InputChipBoots
           \/ MapperSwitches \/ Tick \/ UNCHANGED vars
  <2>1. UNCHANGED <<delivered, logged, issued, wire, pad>>
    BY <1>5
    DEF InputHeartbeat, InputChipDown, InputChipBoots, MapperSwitches, Tick,
        vars, historyVars, worldVars, wireVars, receiverVars
  <2>2. txq' = txq \/ txq' = <<>>
    BY <1>5
    DEF InputHeartbeat, InputChipDown, InputChipBoots, MapperSwitches, Tick,
        vars, senderVars
  <2> QED
    BY <2>1, <2>2, MotionInEmpty
<1>6. CASE PadChipRestarts
  <2>1. UNCHANGED <<delivered, logged, issued, txq>> /\ wire' = <<>> /\ pad'.motion = {}
    BY <1>6 DEF PadChipRestarts, worldVars, senderVars, s_state_initial
  <2> QED
    BY <2>1, MotionInEmpty
<1>7. CASE Noise
  <2>1. UNCHANGED <<delivered, logged, issued, txq, pad>>
        /\ wire # <<>> /\ wire' = Tail(wire)
    BY <1>7
    DEF Noise, LoseFrame, worldVars, senderVars, receiverVars, historyVars
  <2> QED
    BY <1>a, <2>1, MotionInTail
<1> QED
  BY <1>1, <1>2, <1>3, <1>4, <1>5, <1>6, <1>7, <1>8 DEF Next

LEMMA ChannelInit == Init => Channel!Init
  BY DEF Init, WorldInit, Channel!Init, Lost

\* Each of the three is a step of the channel.
LEMMA ChannelStep ==
  TypeOK /\ MotionInv /\ [Next]_vars
    => [Channel!Next]_<<issued, delivered, Lost>>
<1> SUFFICES ASSUME TypeOK, MotionInv, [Next]_vars
             PROVE  [Channel!Next]_<<issued, delivered, Lost>>
  OBVIOUS
<1> DEFINE D == delivered
           P == pad.motion
           W == MotionIn(wire)
           T == MotionIn(txq)
<1>1. Lost = issued \ (D \cup P \cup W \cup T)
  BY DEF Lost
<1>2. Lost' = issued' \ (D' \cup P' \cup W' \cup T')
  BY DEF Lost
<1>a. Chain(D \cup logged, P, W, T, issued) /\ P \cap (D \cup logged) = {}
  BY ChainIsMotion DEF MotionInv, MotionChain, NeverTwice, TypeOK, WorldTypeOK
<1>3. D \cup P \cup W \cup T \subseteq issued /\ Before(D, P) /\ P \cap D = {}
  <2> HIDE DEF D, P, W, T
  <2> QED
    BY <1>a DEF Chain, Before
<1>4. reports + 1 \notin issued
  BY DEF TypeOK, WorldTypeOK
<1>5. CASE /\ UNCHANGED <<delivered, pad, wire>>
           /\ issued' = issued \cup {reports + 1}
           /\ T' \in {T, T \cup {reports + 1}}
  <2>1. D' = D /\ P' = P /\ W' = W
    BY <1>5
  <2>2. Lost' \in {Lost, Lost \cup {reports + 1}}
    <3> HIDE DEF D, P, W, T
    <3> QED
      BY <1>1, <1>2, <1>3, <1>4, <1>5, <2>1
  <2>3. Channel!Move
    BY <1>4, <1>5, <2>1, <2>2 DEF Channel!Move
  <2> QED
    BY <2>3 DEF Channel!Next
<1>6. CASE UNCHANGED <<issued, wire, txq>> /\ D' = D \cup P /\ P' = {}
  <2>1. Lost' = Lost
    BY <1>1, <1>2, <1>6
  <2>2. P \cap Lost = {} /\ P \subseteq issued
    BY <1>1, <1>3
  <2>3. Channel!Take
    BY <1>3, <1>6, <2>1, <2>2 DEF Channel!Take, Channel!Outstanding, Before
  <2> QED
    BY <2>3 DEF Channel!Next
<1>7. CASE /\ UNCHANGED <<issued, delivered>>
           /\ P' \cup W' \cup T' \subseteq P \cup W \cup T
  <2>1. D' = D
    BY <1>7
  <2>2. Lost \subseteq Lost' /\ Lost' \cap D = {} /\ Lost' \subseteq issued
    <3> HIDE DEF D, P, W, T
    <3> QED
      BY <1>1, <1>2, <1>7, <2>1
  <2>3. Channel!Lose
    BY <1>7, <2>1, <2>2 DEF Channel!Lose, Channel!Outstanding
  <2> QED
    BY <2>3 DEF Channel!Next
<1> QED
  BY <1>5, <1>6, <1>7, MotionFlow

\* The two chips and the wire together are a lossy channel for mouse motion
\* that never repeats, invents or reorders a delta.
THEOREM BridgeImplementsChannel == Spec => ImplementsChannel
<1>1. Init => TypeOK /\ MotionInv
  BY TypeInit, MotionInit
<1>2. TypeOK /\ MotionInv /\ [Next]_vars => (TypeOK /\ MotionInv)'
  BY TypeStep, MotionStep
<1> QED
  BY <1>1, <1>2, ChannelInit, ChannelStep, PTL DEF Spec, ImplementsChannel, Channel!Spec

---------------------------------------------------------------------------
(* What is lost. *)

\* What receiver_task takes from the wire is in the accumulator, but for a mouse declared gone.
LEMMA ReceiverKeeps ==
  ASSUME TypeOK, MouseHasMotion, receiver_task
  PROVE  /\ MouseHasMotion'
         /\ \/ pad'.motion \cup MotionIn(wire') = pad.motion \cup MotionIn(wire)
            \/ pad.mouse /\ ~pad'.mouse
<1> wire \in Seq(Frame) /\ pad \in InputRecord
  BY QueuesAreFrames DEF TypeOK, ReceiverTypeOK
<1>1. CASE ReceiveFrame
  <2> DEFINE f == Head(wire)
  <2>1. wire # <<>> /\ wire' = Tail(wire) /\ handle_frame(f)
    BY <1>1 DEF ReceiveFrame
  <2>2. f \in Frame
    BY <2>1
  <2>3. MotionIn(wire) = MotionOf(f) \cup MotionIn(wire')
    BY <2>1, MotionInTail
  <2>4. /\ MouseHasMotion'
        /\ pad'.motion = pad.motion \cup MotionOf(f) \/ (pad.mouse /\ ~pad'.mouse)
    <3>1. CASE HandleMouse(f)
      BY <3>1 DEF HandleMouse, input_state_accum_mouse, InputRecord, MouseHasMotion
    <3>2. f.type # "mouse" => MotionOf(f) = {}
      BY DEF MotionOf, Carries
    <3>3. CASE HandleKeyboard(f)
      BY <3>2, <3>3 DEF HandleKeyboard, input_state_set_keyboard, InputRecord, MouseHasMotion
    <3>4. CASE HandleMode(f)
      BY <3>2, <3>4 DEF HandleMode, MouseHasMotion
    <3>5. CASE HandleKeepalive(f)
      BY <3>2, <3>5, WithoutClassesTakes DEF HandleKeepalive, MouseHasMotion
    <3> QED
      BY <2>1, <3>1, <3>3, <3>4, <3>5 DEF handle_frame
  <2> QED
    BY <2>3, <2>4
<1>2. CASE PeerSilent
  BY <1>2, WithoutClassesTakes DEF PeerSilent, wireVars, MouseHasMotion
<1> QED
  BY <1>1, <1>2 DEF receiver_task

LEMMA MouseHasMotionStep == TypeOK /\ MouseHasMotion /\ [Next]_vars => MouseHasMotion'
<1> SUFFICES ASSUME TypeOK, MouseHasMotion, [Next]_vars PROVE MouseHasMotion'
  OBVIOUS
<1>1. CASE ReceiverTask
  BY <1>1, ReceiverKeeps DEF ReceiverTask
<1>2. CASE MapperTick \/ PadHeartbeat
  BY <1>2 DEF MapperTick, PadHeartbeat, input_state_take, TypeOK, ReceiverTypeOK, InputRecord,
              MouseHasMotion
<1>3. CASE PadChipRestarts
  BY <1>3 DEF PadChipRestarts, s_state_initial, MouseHasMotion
<1>4. CASE pad' = pad
  BY <1>4 DEF MouseHasMotion
<1> QED
  BY <1>1, <1>2, <1>3, <1>4
  DEF Next, HidCallback, SenderTask, InputHeartbeat, InputChipDown, InputChipBoots,
      MapperSwitches, Noise, Tick, vars, receiverVars

\* A step of none of the causes loses nothing.
LEMMA StepKeeps ==
  ASSUME TypeOK, MotionInv, MouseHasMotion, [Next]_vars, HasRoom,
         UNCHANGED <<beats, losses, crashes>>, ~(pad.mouse /\ ~pad'.mouse)
  PROVE  Lost' = Lost
<1> DEFINE D == delivered
           P == pad.motion
           W == MotionIn(wire)
           T == MotionIn(txq)
<1>1. Lost = issued \ (D \cup P \cup W \cup T)
  BY DEF Lost
<1>2. Lost' = issued' \ (D' \cup P' \cup W' \cup T')
  BY DEF Lost
<1>3. D \cup P \cup W \cup T \subseteq issued
  BY ChainIsMotion DEF MotionInv, MotionChain, Chain, NeverTwice, TypeOK, WorldTypeOK
<1>4. reports + 1 \notin issued
  BY DEF TypeOK, WorldTypeOK
<1>5. crashes + 1 # crashes /\ losses + 1 # losses /\ beats + 1 # beats
  BY DEF TypeOK, SplitTypeOK, WireTypeOK
\* What is left to prove of a step that no mouse report takes part in.
<1>6. ASSUME issued' = issued, D' \cup P' \cup W' \cup T' = D \cup P \cup W \cup T
      PROVE  Lost' = Lost
  BY <1>1, <1>2, <1>6
<1>7. CASE HidCallback
  <2>1. D' = D /\ P' = P /\ W' = W /\ hid_callbacks
    BY <1>7 DEF HidCallback, wireVars, receiverVars
  <2>2. CASE issued' = issued /\ T' = T
    BY <1>6, <2>1, <2>2
  <2>3. CASE issued' = issued \cup {reports + 1} /\ T' = T \cup {reports + 1}
    <3> HIDE DEF D, P, W, T
    <3> QED
      BY <1>1, <1>2, <1>3, <1>4, <2>1, <2>3
  <2> QED
    BY <2>1, <2>2, <2>3, CallbackMotion
<1>8. CASE SenderTask
  <2>1. D' = D /\ P' = P /\ issued' = issued /\ (chip_link_start \/ sender_task)
    BY <1>8 DEF SenderTask, historyVars, receiverVars, worldVars
  <2>2. W' \cup T' = W \cup T
    BY <2>1, SenderMotion
  <2> HIDE DEF D, P, W, T
  <2> QED
    BY <1>6, <2>1, <2>2
<1>9. CASE ReceiverTask
  <2>1. D' = D /\ T' = T /\ issued' = issued /\ receiver_task
    BY <1>9 DEF ReceiverTask, historyVars, senderVars, worldVars
  <2>2. P' \cup W' = P \cup W
    BY <2>1, ReceiverKeeps
  <2> HIDE DEF D, P, W, T
  <2> QED
    BY <1>6, <2>1, <2>2
<1>10. CASE MapperTick
  <2>1. W' = W /\ T' = T /\ issued' = issued
    BY <1>10 DEF MapperTick, wireVars, senderVars, worldVars
  <2>2. D' \cup P' = D \cup P
    BY <1>10
    DEF MapperTick, input_state_take, TypeOK, ReceiverTypeOK, InputRecord
  <2> HIDE DEF D, P, W, T
  <2> QED
    BY <1>6, <2>1, <2>2
<1>11. CASE InputHeartbeat \/ InputChipBoots \/ MapperSwitches \/ Tick \/ UNCHANGED vars
  <2>1. D' = D /\ P' = P /\ W' = W /\ T' = T /\ issued' = issued
    BY <1>11
    DEF InputHeartbeat, InputChipBoots, MapperSwitches, Tick,
        vars, historyVars, worldVars, wireVars, receiverVars, senderVars
  <2> QED
    BY <1>6, <2>1
<1>12. CASE InputChipDown \/ PadHeartbeat \/ PadChipRestarts \/ Noise
  BY <1>5, <1>12 DEF InputChipDown, PadHeartbeat, PadChipRestarts, Noise, LoseFrame
<1> QED
  BY <1>7, <1>8, <1>9, <1>10, <1>11, <1>12 DEF Next

\* Motion that is neither on its way nor with the mapper was lost to a full queue or none
\* yet, to a destroyed frame, to a restart, with a mouse declared gone, or to the heartbeat
\* of the pad chip, which takes it for a log line: no other step drops any.
THEOREM OnlyFaultsLoseMotion == Spec => NothingVanishes
<1>1. Init => TypeOK /\ MotionInv /\ MouseHasMotion
  BY TypeInit, MotionInit DEF Init, ReceiverInit, s_state_initial, MouseHasMotion
<1>2. TypeOK /\ MotionInv /\ MouseHasMotion /\ [Next]_vars
        => (TypeOK /\ MotionInv /\ MouseHasMotion)'
  BY TypeStep, MotionStep, MouseHasMotionStep
<1>3. TypeOK /\ MotionInv /\ MouseHasMotion /\ [Next]_vars
        => [Lost' # Lost =>
              \/ beats' # beats \/ losses' # losses \/ crashes' # crashes
              \/ txpc = "off" \/ Len(txq) = QueueMax
              \/ pad.mouse /\ ~pad'.mouse]_vars
  <2>1. TypeOK /\ txpc # "off" /\ Len(txq) # QueueMax => HasRoom
    BY QueueAssumption DEF TypeOK, SenderTypeOK, HasRoom
  <2> QED
    BY <2>1, StepKeeps
<1> QED
  BY <1>1, <1>2, <1>3, PTL DEF Spec, NothingVanishes

---------------------------------------------------------------------------
(* Counting along a queue. *)

\* Induction over the naturals, for a property given as the set of the numbers that have it.
LEMMA Induction ==
  ASSUME NEW S \in SUBSET Nat, 0 \in S, \A n \in S : n + 1 \in S
  PROVE  \A n \in Nat : n \in S
<1> DEFINE R == {ss \in Nat \X Nat : ss[1] < ss[2]}
           T == Nat \ S
<1>1. OpToRel(<, Nat) = R
  BY DEF OpToRel
<1>2. IsWellFoundedOn(R, Nat)
  BY <1>1, NatLessThanWellFounded
<1>3. ASSUME T # {} PROVE FALSE
  <2> HIDE DEF R
  <2>1. T \subseteq Nat
    OBVIOUS
  <2>2. PICK m \in T : \A k \in T : ~(<<k, m>> \in R)
    BY <1>2, <1>3, <2>1, WFMin
  <2>3. m \in Nat /\ m # 0 /\ m - 1 \in Nat
    BY <2>1, <2>2
  <2>4. <<m - 1, m>> \in R
    BY <2>3 DEF R
  <2>5. m - 1 \in S
    BY <2>2, <2>3, <2>4
  <2>6. (m - 1) + 1 \in S
    BY <2>5
  <2> QED
    BY <2>2, <2>3, <2>6
<1> QED
  BY <1>3

---------------------------------------------------------------------------
(* What the mode frames of a queue still cost. *)

Differ(a, b) == IF a = b THEN 0 ELSE 1

\* The mode once frame f has been handled in mode a.
After(f, a) == IF f.type = "mode" THEN f.passthrough ELSE a

\* Whether the keepalive has yet to insert the current mode.
NotDue == FALSE
IsDue  == TRUE

\* Both are truth values; their names keep the walks readable.
LEMMA Flags == NotDue \in BOOLEAN /\ IsDue \in BOOLEAN
BY DEF NotDue, IsDue

\* What f costs in mode a.  When the keepalive is about to insert the current
\* mode in front of the queue, a mode frame that changes nothing may come to
\* change something twice.
Cost(f, a, ins) ==
  IF f.type = "mode"
  THEN IF ins THEN 2 - Differ(a, f.passthrough) ELSE Differ(a, f.passthrough)
  ELSE 0

\* l[i] is the mode after i frames of q, s[i] what they cost.
IsWalk(q, l, s, ins) ==
  /\ l \in [0..Len(q) -> BOOLEAN] /\ s \in [0..Len(q) -> Int]
  /\ s[0] = 0
  /\ \A i \in 1..Len(q) : /\ l[i] = After(q[i], l[i - 1])
                          /\ s[i] = s[i - 1] + Cost(q[i], l[i - 1], ins)

\* From mode u, q leads to mode v at cost n.
Walk(q, u, v, n, ins) ==
  \E l, s : IsWalk(q, l, s, ins) /\ l[0] = u /\ l[Len(q)] = v /\ s[Len(q)] = n

\* The types of what a frame does.
LEMMA AfterType ==
  ASSUME NEW f \in Frame, NEW a \in BOOLEAN, NEW ins \in BOOLEAN
  PROVE  After(f, a) \in BOOLEAN /\ Cost(f, a, ins) \in Int
BY DEF After, Cost, Differ, Frame, Event, ModeFrame, MouseFrame, KeyboardFrame, KeepaliveFrame

\* Differ counts like a distance.
LEMMA DifferTriangle ==
  ASSUME NEW a \in BOOLEAN, NEW b \in BOOLEAN, NEW c \in BOOLEAN
  PROVE  /\ Differ(a, b) \in 0..1 /\ Differ(a, b) = Differ(b, a)
         /\ Differ(a, c) <= Differ(a, b) + Differ(b, c)
BY DEF Differ

\* How one frame moves the three quantities that the walks are compared by.
LEMMA FrameCosts ==
  ASSUME NEW f \in Frame, NEW a \in BOOLEAN, NEW b \in BOOLEAN, NEW ins \in BOOLEAN
  PROVE  /\ Differ(After(f, a), After(f, b)) + Cost(f, b, ins) <= Cost(f, a, ins) + Differ(a, b)
         /\ Differ(a, After(f, a)) <= Cost(f, a, ins)
         /\ Cost(f, a, NotDue) <= Cost(f, a, ins)
         /\ f.type = "mode" =>
              /\ After(f, a) = After(f, b)
              /\ Differ(a, b) + Cost(f, b, NotDue) <= Cost(f, a, IsDue)
              /\ Cost(f, a, NotDue) <= Cost(f, a, IsDue)
         /\ f.type # "mode" => /\ After(f, a) = a /\ Cost(f, a, ins) = 0
<1>1. CASE f.type = "mode"
  <2>1. f.passthrough \in BOOLEAN
    BY <1>1 DEF Frame, Event, ModeFrame, MouseFrame, KeyboardFrame, KeepaliveFrame
  <2> QED
    BY <1>1, <2>1 DEF After, Cost, Differ, NotDue, IsDue
<1>2. CASE f.type # "mode"
  BY <1>2 DEF After, Cost, Differ
<1> QED
  BY <1>1, <1>2

\* Two sums that the walks are added up with.
LEMMA Sums ==
  /\ \A x, x2, c, c2, d, e, g \in Int :
       x2 + d <= x + g /\ e + c2 <= c + d => (x2 + c2) + e <= (x + c) + g
  /\ \A x, x2, c, c2, g \in Int :
       (x = 0 /\ x2 = 0 /\ g + c2 <= c) \/ (g + x2 <= x /\ c2 <= c) => g + (x2 + c2) <= x + c
  OBVIOUS

\* Every queue leads somewhere.
LEMMA WalkExists ==
  ASSUME NEW q \in Seq(Frame), NEW u \in BOOLEAN, NEW ins \in BOOLEAN
  PROVE  \E v, n : Walk(q, u, v, n, ins)
<1> DEFINE Upto(m, l, s) ==
             /\ l \in [0..m -> BOOLEAN] /\ s \in [0..m -> Int]
             /\ l[0] = u /\ s[0] = 0
             /\ \A i \in 1..m : /\ l[i] = After(q[i], l[i - 1])
                                /\ s[i] = s[i - 1] + Cost(q[i], l[i - 1], ins)
           S == {m \in Nat : m <= Len(q) => \E l, s : Upto(m, l, s)}
<1>1. 0 \in S
  <2> DEFINE l == [i \in 0..0 |-> u]
             s == [i \in 0..0 |-> 0]
  <2>1. Upto(0, l, s)
    OBVIOUS
  <2> HIDE DEF Upto, l, s
  <2> QED
    BY <2>1
<1>2. ASSUME NEW m \in S PROVE m + 1 \in S
  <2>1. ASSUME m + 1 <= Len(q) PROVE \E l, s : Upto(m + 1, l, s)
    <3>1. m \in Nat /\ m <= Len(q) /\ q[m + 1] \in Frame
      BY <1>2, <2>1
    <3>2. PICK l, s : Upto(m, l, s)
      BY <1>2, <3>1
    <3> DEFINE f == q[m + 1]
               k == [i \in 0..m + 1 |-> IF i = m + 1 THEN After(f, l[m]) ELSE l[i]]
               r == [i \in 0..m + 1 |-> IF i = m + 1 THEN s[m] + Cost(f, l[m], ins) ELSE s[i]]
    <3>3. l[m] \in BOOLEAN /\ s[m] \in Int
      BY <3>1, <3>2
    <3>4. After(f, l[m]) \in BOOLEAN /\ Cost(f, l[m], ins) \in Int
      BY <3>1, <3>3, AfterType
    <3>5. k \in [0..m + 1 -> BOOLEAN] /\ r \in [0..m + 1 -> Int]
      BY <3>1, <3>2, <3>3, <3>4
    <3>6. ASSUME NEW i \in 1..m + 1
          PROVE  k[i] = After(q[i], k[i - 1]) /\ r[i] = r[i - 1] + Cost(q[i], k[i - 1], ins)
      <4>1. CASE i = m + 1
        <5>1. k[i - 1] = l[m] /\ r[i - 1] = s[m] /\ k[i] = After(f, l[m])
              /\ r[i] = s[m] + Cost(f, l[m], ins)
          BY <3>1, <4>1
        <5> QED
          BY <4>1, <5>1
      <4>2. CASE i # m + 1
        <5>1. i \in 1..m /\ k[i] = l[i] /\ k[i - 1] = l[i - 1] /\ r[i] = s[i] /\ r[i - 1] = s[i - 1]
          BY <3>1, <4>2
        <5> QED
          BY <3>2, <5>1
      <4> QED
        BY <4>1, <4>2
    <3>7. k[0] = u /\ r[0] = 0
      BY <3>1, <3>2
    <3> HIDE DEF k, r
    <3>8. Upto(m + 1, k, r)
      BY <3>5, <3>6, <3>7
    <3> HIDE DEF Upto
    <3> QED
      BY <3>8
  <2> HIDE DEF Upto
  <2> QED
    BY <2>1
<1>a. \A m \in S : m <= Len(q) => \E l, s : Upto(m, l, s)
  <2> HIDE DEF Upto
  <2> QED
    OBVIOUS
<1> HIDE DEF S
<1>3. Len(q) \in S /\ Len(q) <= Len(q)
  <2>1. S \in SUBSET Nat
    BY DEF S
  <2>2. Len(q) \in Nat
    OBVIOUS
  <2> QED
    BY <1>1, <1>2, <2>1, <2>2, Induction
<1>4. PICK l, s : Upto(Len(q), l, s)
  <2> HIDE DEF Upto
  <2> QED
    BY <1>3, <1>a
<1>5. IsWalk(q, l, s, ins) /\ l[0] = u
  BY <1>4 DEF IsWalk
<1> QED
  BY <1>5 DEF Walk

\* One step of a walk, with the types the arithmetic needs.
LEMMA WalkStep ==
  ASSUME NEW q \in Seq(Frame), NEW ins \in BOOLEAN, NEW l, NEW s, IsWalk(q, l, s, ins),
         NEW k \in Nat, k + 1 <= Len(q)
  PROVE  /\ q[k + 1] \in Frame
         /\ l[k] \in BOOLEAN /\ s[k] \in Int /\ l[k + 1] \in BOOLEAN /\ s[k + 1] \in Int
         /\ l[k + 1] = After(q[k + 1], l[k])
         /\ s[k + 1] = s[k] + Cost(q[k + 1], l[k], ins)
<1>1. k \in 0..Len(q) /\ k + 1 \in 0..Len(q) /\ k + 1 \in 1..Len(q) /\ (k + 1) - 1 = k
  OBVIOUS
<1>2. /\ l \in [0..Len(q) -> BOOLEAN] /\ s \in [0..Len(q) -> Int]
      /\ l[k + 1] = After(q[k + 1], l[(k + 1) - 1])
      /\ s[k + 1] = s[(k + 1) - 1] + Cost(q[k + 1], l[(k + 1) - 1], ins)
  BY <1>1 DEF IsWalk
<1>3. q[k + 1] \in Frame
  BY <1>1
<1> QED
  BY <1>1, <1>2, <1>3

\* The types at both ends of a walk.
LEMMA WalkEnds ==
  ASSUME NEW q \in Seq(Frame), NEW ins \in BOOLEAN, NEW l, NEW s, IsWalk(q, l, s, ins)
  PROVE  /\ l[0] \in BOOLEAN /\ s[0] = 0 /\ Len(q) \in Nat
         /\ l[Len(q)] \in BOOLEAN /\ s[Len(q)] \in Int
BY DEF IsWalk

\* From another mode the same frames cost more by at most the difference, and
\* then lead to the same mode.
LEMMA WalkFromElsewhere ==
  ASSUME NEW q \in Seq(Frame), NEW ins \in BOOLEAN,
         NEW u \in BOOLEAN, NEW v, NEW n, Walk(q, u, v, n, ins), NEW u2 \in BOOLEAN
  PROVE  \E v2 \in BOOLEAN, n2 \in Int :
           Walk(q, u2, v2, n2, ins) /\ n2 + Differ(v, v2) <= n + Differ(u, u2)
<1>1. PICK l, s : IsWalk(q, l, s, ins) /\ l[0] = u /\ l[Len(q)] = v /\ s[Len(q)] = n
  BY DEF Walk
<1>2. PICK v2, n2 : Walk(q, u2, v2, n2, ins)
  BY WalkExists
<1>3. PICK l2, s2 : IsWalk(q, l2, s2, ins) /\ l2[0] = u2 /\ l2[Len(q)] = v2 /\ s2[Len(q)] = n2
  BY <1>2 DEF Walk
<1> DEFINE S == {k \in Nat : k <= Len(q) => s2[k] + Differ(l[k], l2[k]) <= s[k] + Differ(u, u2)}
<1>4. s[0] = 0 /\ s2[0] = 0 /\ Len(q) \in Nat /\ v2 \in BOOLEAN /\ n2 \in Int
  BY <1>1, <1>3, WalkEnds
<1>5. 0 \in S
  BY <1>1, <1>3, <1>4, DifferTriangle
<1>6. ASSUME NEW k \in S PROVE k + 1 \in S
  <2>1. ASSUME k + 1 <= Len(q)
        PROVE  s2[k + 1] + Differ(l[k + 1], l2[k + 1]) <= s[k + 1] + Differ(u, u2)
    <3>1. k \in Nat /\ s2[k] + Differ(l[k], l2[k]) <= s[k] + Differ(u, u2)
      BY <1>4, <1>6, <2>1
    <3> DEFINE f == q[k + 1]
    <3>2. /\ f \in Frame
          /\ l[k] \in BOOLEAN /\ s[k] \in Int /\ l[k + 1] \in BOOLEAN /\ s[k + 1] \in Int
          /\ l[k + 1] = After(f, l[k]) /\ s[k + 1] = s[k] + Cost(f, l[k], ins)
      BY <1>1, <2>1, <3>1, WalkStep
    <3>3. /\ l2[k] \in BOOLEAN /\ s2[k] \in Int /\ l2[k + 1] \in BOOLEAN /\ s2[k + 1] \in Int
          /\ l2[k + 1] = After(f, l2[k]) /\ s2[k + 1] = s2[k] + Cost(f, l2[k], ins)
      BY <1>3, <2>1, <3>1, WalkStep
    <3> DEFINE c  == Cost(f, l[k], ins)
               c2 == Cost(f, l2[k], ins)
               d  == Differ(l[k], l2[k])
               e  == Differ(l[k + 1], l2[k + 1])
               g  == Differ(u, u2)
    <3>4. e = Differ(After(f, l[k]), After(f, l2[k]))
      BY <3>2, <3>3, Zenon
    <3>5. Differ(After(f, l[k]), After(f, l2[k])) + c2 <= c + d
      BY <3>2, <3>3, FrameCosts
    <3>6. c \in Int /\ c2 \in Int
      BY <3>2, <3>3, AfterType
    <3>7. d \in Int /\ e \in Int /\ g \in Int
      BY DEF Differ
    <3>8. /\ s2[k] + d <= s[k] + g /\ s[k + 1] = s[k] + c /\ s2[k + 1] = s2[k] + c2
          /\ s[k] \in Int /\ s2[k] \in Int
      BY <3>1, <3>2, <3>3
    <3>9. e + c2 <= c + d
      BY <3>4, <3>5
    <3> HIDE DEF f, c, c2, d, e, g
    <3>10. (s2[k] + c2) + e <= (s[k] + c) + g
      BY <3>6, <3>7, <3>8, <3>9, Sums
    <3>11. s2[k + 1] + e <= s[k + 1] + g
      BY <3>8, <3>10, Zenon
    <3> QED
      BY <3>11 DEF e, g
  <2> QED
    BY <2>1
<1>a. \A k \in S : k <= Len(q) => s2[k] + Differ(l[k], l2[k]) <= s[k] + Differ(u, u2)
  OBVIOUS
<1> HIDE DEF S
<1>7. Len(q) \in S
  <2>1. S \in SUBSET Nat
    BY DEF S
  <2> QED
    BY <1>4, <1>5, <1>6, <2>1, Induction
<1>8. n2 + Differ(v, v2) <= n + Differ(u, u2)
  BY <1>1, <1>3, <1>4, <1>7, <1>a
<1> QED
  BY <1>2, <1>4, <1>8

\* The mode the frames lead to differs from the first one at their cost.
LEMMA WalkCosts ==
  ASSUME NEW q \in Seq(Frame), NEW ins \in BOOLEAN,
         NEW u \in BOOLEAN, NEW v, NEW n, Walk(q, u, v, n, ins)
  PROVE  v \in BOOLEAN /\ n \in Int /\ Differ(u, v) <= n /\ 0 <= n
<1>1. PICK l, s : IsWalk(q, l, s, ins) /\ l[0] = u /\ l[Len(q)] = v /\ s[Len(q)] = n
  BY DEF Walk
<1> DEFINE S == {k \in Nat : k <= Len(q) => Differ(u, l[k]) <= s[k]}
<1>2. s[0] = 0 /\ Len(q) \in Nat /\ v \in BOOLEAN /\ n \in Int
  BY <1>1, WalkEnds
<1>3. 0 \in S
  BY <1>1, <1>2 DEF Differ
<1>4. ASSUME NEW k \in S PROVE k + 1 \in S
  <2>1. ASSUME k + 1 <= Len(q) PROVE Differ(u, l[k + 1]) <= s[k + 1]
    <3>1. k \in Nat /\ Differ(u, l[k]) <= s[k]
      BY <1>2, <1>4, <2>1
    <3> DEFINE f == q[k + 1]
    <3>2. /\ f \in Frame
          /\ l[k] \in BOOLEAN /\ s[k] \in Int /\ l[k + 1] \in BOOLEAN /\ s[k + 1] \in Int
          /\ l[k + 1] = After(f, l[k]) /\ s[k + 1] = s[k] + Cost(f, l[k], ins)
      BY <1>1, <2>1, <3>1, WalkStep
    <3> DEFINE c == Cost(f, l[k], ins)
               d == Differ(l[k], l[k + 1])
               e == Differ(u, l[k])
               g == Differ(u, l[k + 1])
    <3>3. d = Differ(l[k], After(f, l[k]))
      BY <3>2, Zenon
    <3>4. Differ(l[k], After(f, l[k])) <= c /\ c \in Int
      BY <3>2, FrameCosts, AfterType
    <3>5. g <= e + d
      BY <3>2, DifferTriangle
    <3>6. d \in Int /\ e \in Int /\ g \in Int
      BY DEF Differ
    <3>7. d <= c /\ e <= s[k] /\ s[k + 1] = s[k] + c /\ s[k] \in Int
      BY <3>1, <3>2, <3>3, <3>4
    <3> HIDE DEF f, c, d, e, g
    <3>8. g <= s[k + 1]
      BY <3>4, <3>5, <3>6, <3>7
    <3> QED
      BY <3>8 DEF g
  <2> QED
    BY <2>1
<1>a. \A k \in S : k <= Len(q) => Differ(u, l[k]) <= s[k]
  OBVIOUS
<1> HIDE DEF S
<1>5. Len(q) \in S
  <2>1. S \in SUBSET Nat
    BY DEF S
  <2> QED
    BY <1>2, <1>3, <1>4, <2>1, Induction
<1>6. Differ(u, v) <= n
  BY <1>1, <1>2, <1>5, <1>a
<1> QED
  BY <1>2, <1>6, DifferTriangle

\* A pending repetition of mode m, once it is on the wire in front of the
\* queue, has been paid for.
LEMMA WalkInserted ==
  ASSUME NEW q \in Seq(Frame), NEW u \in BOOLEAN, NEW v, NEW n, Walk(q, u, v, n, IsDue),
         NEW m \in BOOLEAN
  PROVE  \E v2 \in BOOLEAN, n2 \in Int :
           Walk(q, m, v2, n2, NotDue) /\ Differ(u, m) + n2 + Differ(v2, m) <= n + Differ(v, m)
<1>1. PICK l, s : IsWalk(q, l, s, IsDue) /\ l[0] = u /\ l[Len(q)] = v /\ s[Len(q)] = n
  BY DEF Walk
<1>2. PICK v2, n2 : Walk(q, m, v2, n2, NotDue)
  BY Flags, WalkExists
<1>3. PICK l2, s2 : IsWalk(q, l2, s2, NotDue) /\ l2[0] = m /\ l2[Len(q)] = v2 /\ s2[Len(q)] = n2
  BY <1>2 DEF Walk
<1> DEFINE P(k) == \/ l[k] = u /\ s[k] = 0 /\ l2[k] = m /\ s2[k] = 0
                   \/ l[k] = l2[k] /\ Differ(u, m) + s2[k] <= s[k]
           S == {k \in Nat : k <= Len(q) => P(k)}
<1>4. /\ s[0] = 0 /\ s2[0] = 0 /\ Len(q) \in Nat /\ v2 \in BOOLEAN /\ n2 \in Int
      /\ v \in BOOLEAN /\ n \in Int
  BY Flags, <1>1, <1>3, WalkEnds
<1>5. 0 \in S
  BY <1>1, <1>3, <1>4
<1>6. ASSUME NEW k \in S PROVE k + 1 \in S
  <2>1. ASSUME k + 1 <= Len(q) PROVE P(k + 1)
    <3>1. k \in Nat /\ P(k)
      BY <1>4, <1>6, <2>1
    <3> DEFINE f == q[k + 1]
    <3>2. /\ f \in Frame
          /\ l[k] \in BOOLEAN /\ s[k] \in Int /\ l[k + 1] \in BOOLEAN /\ s[k + 1] \in Int
          /\ l[k + 1] = After(f, l[k]) /\ s[k + 1] = s[k] + Cost(f, l[k], IsDue)
      BY Flags, <1>1, <2>1, <3>1, WalkStep
    <3>3. /\ l2[k] \in BOOLEAN /\ s2[k] \in Int /\ l2[k + 1] \in BOOLEAN /\ s2[k + 1] \in Int
          /\ l2[k + 1] = After(f, l2[k]) /\ s2[k + 1] = s2[k] + Cost(f, l2[k], NotDue)
      BY Flags, <1>3, <2>1, <3>1, WalkStep
    <3> DEFINE c  == Cost(f, l[k], IsDue)
               c2 == Cost(f, l2[k], NotDue)
               g  == Differ(u, m)
    <3>4. c \in Int /\ c2 \in Int /\ g \in Int
      <4>1. c \in Int /\ c2 \in Int
        BY Flags, <3>2, <3>3, AfterType
      <4>2. g \in Int
        BY DEF Differ
      <4> HIDE DEF c, c2, g
      <4> QED
        BY <4>1, <4>2
    <3>5. CASE f.type # "mode"
      <4>1. After(f, l[k]) = l[k] /\ After(f, l2[k]) = l2[k] /\ c = 0 /\ c2 = 0
        BY Flags, <3>2, <3>3, <3>5, FrameCosts
      <4>2. l[k + 1] = l[k] /\ l2[k + 1] = l2[k]
        BY <3>2, <3>3, <4>1, Zenon
      <4>3. s[k + 1] = s[k] + c /\ s2[k + 1] = s2[k] + c2 /\ s[k] \in Int /\ s2[k] \in Int
        BY <3>2, <3>3
      <4> HIDE DEF c, c2
      <4>4. s[k] + c = s[k] /\ s2[k] + c2 = s2[k]
        BY <4>1, <4>3
      <4>5. s[k + 1] = s[k] /\ s2[k + 1] = s2[k]
        BY <4>3, <4>4, Zenon
      <4> QED
        BY <3>1, <4>2, <4>5, Zenon
    <3>6. CASE f.type = "mode"
      <4>1. After(f, l[k]) = After(f, l2[k])
        BY <3>2, <3>3, <3>6, FrameCosts
      <4>2. l[k + 1] = l2[k + 1]
        BY <3>2, <3>3, <4>1, Zenon
      <4>3. s[k + 1] = s[k] + c /\ s2[k + 1] = s2[k] + c2 /\ s[k] \in Int /\ s2[k] \in Int
        BY <3>2, <3>3
      <4>4. (s[k] = 0 /\ s2[k] = 0 /\ g + c2 <= c) \/ (g + s2[k] <= s[k] /\ c2 <= c)
        <5>1. CASE l[k] = u /\ s[k] = 0 /\ l2[k] = m /\ s2[k] = 0
          <6>1. Differ(u, m) + Cost(f, m, NotDue) <= Cost(f, u, IsDue)
            BY <3>2, <3>6, FrameCosts
          <6>2. c = Cost(f, u, IsDue) /\ c2 = Cost(f, m, NotDue)
            BY <5>1, Zenon
          <6> QED
            BY <5>1, <6>1, <6>2
        <5>2. CASE l[k] = l2[k] /\ Differ(u, m) + s2[k] <= s[k]
          <6>1. Cost(f, l[k], NotDue) <= Cost(f, l[k], IsDue)
            BY <3>2, <3>6, FrameCosts
          <6>2. c2 = Cost(f, l[k], NotDue)
            BY <5>2, Zenon
          <6> QED
            BY <5>2, <6>1, <6>2
        <5> QED
          BY <3>1, <5>1, <5>2
      <4> HIDE DEF f, c, c2, g
      <4>5. g + (s2[k] + c2) <= s[k] + c
        BY <3>4, <4>3, <4>4, Sums
      <4>6. g + s2[k + 1] <= s[k + 1]
        BY <4>3, <4>5, Zenon
      <4> QED
        BY <4>2, <4>6 DEF g
    <3> QED
      BY <3>5, <3>6
  <2> HIDE DEF P
  <2> QED
    BY <2>1
<1>a. \A k \in S : k <= Len(q) => P(k)
  OBVIOUS
<1> HIDE DEF S
<1>7. Len(q) \in S
  <2>1. S \in SUBSET Nat
    BY DEF S
  <2> QED
    BY <1>4, <1>5, <1>6, <2>1, Induction
<1>8. P(Len(q))
  <2> HIDE DEF P
  <2> QED
    BY <1>4, <1>7, <1>a
<1>9. Differ(u, m) + n2 + Differ(v2, m) <= n + Differ(v, m)
  <2>1. /\ Differ(u, m) \in Int /\ Differ(v2, m) \in Int /\ Differ(v, m) \in Int
        /\ Differ(m, m) = 0
    BY DEF Differ
  <2> QED
    BY <1>1, <1>3, <1>4, <1>8, <2>1
<1> QED
  BY <1>2, <1>4, <1>9

\* An empty queue leads nowhere and costs nothing.
LEMMA WalkEmpty ==
  ASSUME NEW u \in BOOLEAN, NEW ins \in BOOLEAN
  PROVE  Walk(<<>>, u, u, 0, ins)
<1> DEFINE l == [i \in 0..0 |-> u]
           s == [i \in 0..0 |-> 0]
<1>1. IsWalk(<<>>, l, s, ins)
  <2>1. l \in [0..Len(<<>>) -> BOOLEAN] /\ s \in [0..Len(<<>>) -> Int] /\ s[0] = 0
    OBVIOUS
  <2>2. 1..Len(<<>>) = {}
    OBVIOUS
  <2> HIDE DEF l, s
  <2> QED
    BY <2>1, <2>2 DEF IsWalk
<1>2. l[0] = u /\ s[0] = 0 /\ Len(<<>>) = 0
  OBVIOUS
<1> HIDE DEF l, s
<1> QED
  BY <1>1, <1>2 DEF Walk

\* One frame more at the end.
LEMMA WalkAppend ==
  ASSUME NEW q \in Seq(Frame), NEW ins \in BOOLEAN, NEW f \in Frame,
         NEW u \in BOOLEAN, NEW v, NEW n, Walk(q, u, v, n, ins)
  PROVE  Walk(Append(q, f), u, After(f, v), n + Cost(f, v, ins), ins)
<1>1. PICK l, s : IsWalk(q, l, s, ins) /\ l[0] = u /\ l[Len(q)] = v /\ s[Len(q)] = n
  BY DEF Walk
<1> DEFINE m == Len(q)
           r == Append(q, f)
           k == [i \in 0..m + 1 |-> IF i = m + 1 THEN After(f, v) ELSE l[i]]
           z == [i \in 0..m + 1 |-> IF i = m + 1 THEN n + Cost(f, v, ins) ELSE s[i]]
<1>2. m \in Nat /\ l \in [0..m -> BOOLEAN] /\ s \in [0..m -> Int] /\ s[0] = 0
      /\ v \in BOOLEAN /\ n \in Int
  BY <1>1, WalkEnds DEF IsWalk
<1>3. After(f, v) \in BOOLEAN /\ Cost(f, v, ins) \in Int
  BY <1>2, AfterType
<1>4. /\ Len(r) = m + 1 /\ r[m + 1] = f
      /\ \A i \in 1..m : r[i] = q[i]
  OBVIOUS
<1>5. k \in [0..m + 1 -> BOOLEAN] /\ z \in [0..m + 1 -> Int]
  BY <1>2, <1>3
<1>6. ASSUME NEW i \in 1..m + 1
      PROVE  k[i] = After(r[i], k[i - 1]) /\ z[i] = z[i - 1] + Cost(r[i], k[i - 1], ins)
  <2>1. CASE i = m + 1
    <3>1. k[i - 1] = v /\ z[i - 1] = n /\ k[i] = After(f, v) /\ z[i] = n + Cost(f, v, ins)
      BY <1>1, <1>2, <2>1
    <3>2. r[i] = f
      BY <1>4, <2>1
    <3> QED
      BY <3>1, <3>2, Zenon
  <2>2. CASE i # m + 1
    <3>1. i \in 1..m /\ k[i] = l[i] /\ k[i - 1] = l[i - 1] /\ z[i] = s[i] /\ z[i - 1] = s[i - 1]
      BY <1>2, <2>2
    <3>2. r[i] = q[i]
      BY <1>4, <3>1
    <3>3. l[i] = After(q[i], l[i - 1]) /\ s[i] = s[i - 1] + Cost(q[i], l[i - 1], ins)
      BY <1>1, <3>1 DEF IsWalk
    <3> QED
      BY <3>1, <3>2, <3>3, Zenon
  <2> QED
    BY <2>1, <2>2
<1>7. k[0] = u /\ z[0] = 0 /\ k[m + 1] = After(f, v) /\ z[m + 1] = n + Cost(f, v, ins)
  BY <1>1, <1>2
<1> HIDE DEF k, z, r, m
<1>8. IsWalk(r, k, z, ins)
  BY <1>4, <1>5, <1>6, <1>7 DEF IsWalk
<1>9. Walk(r, u, After(f, v), n + Cost(f, v, ins), ins)
  BY <1>4, <1>7, <1>8 DEF Walk
<1> QED
  BY <1>9 DEF r

\* One frame less at the front.
LEMMA WalkTail ==
  ASSUME NEW q \in Seq(Frame), NEW ins \in BOOLEAN, q # <<>>,
         NEW u \in BOOLEAN, NEW v, NEW n, Walk(q, u, v, n, ins)
  PROVE  Walk(Tail(q), After(Head(q), u), v, n - Cost(Head(q), u, ins), ins)
<1>1. PICK l, s : IsWalk(q, l, s, ins) /\ l[0] = u /\ l[Len(q)] = v /\ s[Len(q)] = n
  BY DEF Walk
<1> DEFINE m == Len(q) - 1
           f == Head(q)
           r == Tail(q)
           k == [i \in 0..m |-> l[i + 1]]
           z == [i \in 0..m |-> s[i + 1] - Cost(f, u, ins)]
<1>2. m \in Nat /\ m + 1 = Len(q) /\ l \in [0..m + 1 -> BOOLEAN] /\ s \in [0..m + 1 -> Int]
  BY <1>1 DEF IsWalk
<1>3. f \in Frame /\ q[1] = f /\ Len(r) = m /\ \A i \in 1..m : r[i] = q[i + 1]
  BY <1>2
<1>4. Cost(f, u, ins) \in Int
  BY <1>3, AfterType
<1>5. l[1] = After(f, u) /\ s[1] = Cost(f, u, ins)
  <2>1. 0 \in Nat /\ 0 + 1 <= Len(q) /\ 0 + 1 = 1
    BY <1>2
  <2>2. l[0 + 1] = After(q[0 + 1], l[0]) /\ s[0 + 1] = s[0] + Cost(q[0 + 1], l[0], ins)
    BY <1>1, <2>1, WalkStep
  <2>3. l[1] = After(f, u) /\ s[1] = s[0] + Cost(f, u, ins)
    BY <1>1, <1>3, <2>1, <2>2, Zenon
  <2>4. s[0] = 0
    BY <1>1, WalkEnds
  <2> HIDE DEF f
  <2> QED
    BY <1>4, <2>3, <2>4
<1>6. k \in [0..m -> BOOLEAN] /\ z \in [0..m -> Int]
  BY <1>2, <1>4
<1>7. k[0] = After(f, u) /\ z[0] = 0 /\ k[m] = v /\ z[m] = n - Cost(f, u, ins)
  BY <1>1, <1>2, <1>4, <1>5
<1>8. ASSUME NEW i \in 1..m
      PROVE  k[i] = After(r[i], k[i - 1]) /\ z[i] = z[i - 1] + Cost(r[i], k[i - 1], ins)
  <2>1. i \in Nat /\ i + 1 <= Len(q) /\ (i - 1) + 1 = i
    BY <1>2
  <2>2. /\ l[i] \in BOOLEAN /\ s[i] \in Int /\ q[i + 1] \in Frame
        /\ l[i + 1] = After(q[i + 1], l[i]) /\ s[i + 1] = s[i] + Cost(q[i + 1], l[i], ins)
    BY <1>1, <2>1, WalkStep
  <2>3. /\ k[i] = l[i + 1] /\ k[i - 1] = l[i]
        /\ z[i] = s[i + 1] - Cost(f, u, ins) /\ z[i - 1] = s[i] - Cost(f, u, ins)
    BY <1>2, <2>1
  <2>4. r[i] = q[i + 1]
    BY <1>3
  <2> DEFINE c == Cost(q[i + 1], l[i], ins)
             d == Cost(f, u, ins)
  <2>5. c \in Int
    BY <2>2, AfterType
  <2>6. Cost(r[i], k[i - 1], ins) = c /\ k[i] = After(r[i], k[i - 1])
    BY <2>2, <2>3, <2>4, Zenon
  <2>7. z[i] = s[i + 1] - d /\ z[i - 1] = s[i] - d /\ s[i + 1] = s[i] + c
    BY <2>2, <2>3
  <2>8. d \in Int
    BY <1>4
  <2> HIDE DEF c, d, k, z, r, f
  <2>9. z[i] = z[i - 1] + c
    BY <2>2, <2>5, <2>7, <2>8
  <2> QED
    BY <2>6, <2>9, Zenon
<1> HIDE DEF k, z, r, m, f
<1>9. IsWalk(r, k, z, ins)
  BY <1>3, <1>6, <1>7, <1>8 DEF IsWalk
<1>10. Walk(r, After(f, u), v, n - Cost(f, u, ins), ins)
  BY <1>3, <1>7, <1>9 DEF Walk
<1> QED
  BY <1>10 DEF r, f

---------------------------------------------------------------------------
(* What the wire w and then the queue q still cost from mode u to mode m. *)

Owed(w, q, u, m, ins, n) ==
  \E L, v \in BOOLEAN : \E a, b \in Int :
    /\ Walk(w, u, L, a, NotDue) /\ Walk(q, L, v, b, ins)
    /\ a + b + Differ(v, m) <= n

\* What is owed is never negative.
LEMMA OwedBound ==
  ASSUME NEW w \in Seq(Frame), NEW q \in Seq(Frame), NEW u \in BOOLEAN, NEW m \in BOOLEAN,
         NEW ins \in BOOLEAN, NEW n \in Int, Owed(w, q, u, m, ins, n)
  PROVE  0 <= n
<1>1. PICK L \in BOOLEAN, v \in BOOLEAN : \E a, b \in Int :
        /\ Walk(w, u, L, a, NotDue) /\ Walk(q, L, v, b, ins)
        /\ a + b + Differ(v, m) <= n
  BY DEF Owed
<1>2. PICK a \in Int, b \in Int :
        /\ Walk(w, u, L, a, NotDue) /\ Walk(q, L, v, b, ins)
        /\ a + b + Differ(v, m) <= n
  BY <1>1
<1>3. 0 <= a /\ 0 <= b /\ Differ(v, m) \in 0..1
  BY Flags, <1>2, WalkCosts, DifferTriangle
<1> QED
  BY <1>2, <1>3

\* A change of the mode at either end is owed at most its difference.
LEMMA OwedFrom ==
  ASSUME NEW w \in Seq(Frame), NEW q \in Seq(Frame), NEW u \in BOOLEAN, NEW m \in BOOLEAN,
         NEW ins \in BOOLEAN, NEW n \in Int, Owed(w, q, u, m, ins, n),
         NEW u2 \in BOOLEAN, NEW n2 \in Int, n + Differ(u, u2) <= n2
  PROVE  Owed(w, q, u2, m, ins, n2)
<1>1. PICK L \in BOOLEAN, v \in BOOLEAN : \E a, b \in Int :
        /\ Walk(w, u, L, a, NotDue) /\ Walk(q, L, v, b, ins)
        /\ a + b + Differ(v, m) <= n
  BY DEF Owed
<1>2. PICK a \in Int, b \in Int :
        /\ Walk(w, u, L, a, NotDue) /\ Walk(q, L, v, b, ins)
        /\ a + b + Differ(v, m) <= n
  BY <1>1
<1>3. PICK L2 \in BOOLEAN, a2 \in Int :
        Walk(w, u2, L2, a2, NotDue) /\ a2 + Differ(L, L2) <= a + Differ(u, u2)
  <2>1. Walk(w, u, L, a, NotDue)
    BY <1>2
  <2>2. NotDue \in BOOLEAN
    BY Flags
  <2> QED
    BY <2>1, <2>2, WalkFromElsewhere
<1>4. PICK v2 \in BOOLEAN, b2 \in Int :
        Walk(q, L2, v2, b2, ins) /\ b2 + Differ(v, v2) <= b + Differ(L, L2)
  BY <1>2, WalkFromElsewhere
<1>5. /\ Differ(v2, m) <= Differ(v, v2) + Differ(v, m)
      /\ Differ(v2, m) \in 0..1 /\ Differ(v, v2) \in 0..1 /\ Differ(v, m) \in 0..1
      /\ Differ(L, L2) \in 0..1 /\ Differ(u, u2) \in 0..1
  BY DifferTriangle
<1>6. a2 + b2 + Differ(v2, m) <= n2
  <2> DEFINE d1 == Differ(v2, m)
             d2 == Differ(v, v2)
             d3 == Differ(v, m)
             d4 == Differ(L, L2)
             d5 == Differ(u, u2)
  <2>1. /\ d1 <= d2 + d3 /\ d1 \in 0..1 /\ d2 \in 0..1 /\ d3 \in 0..1
        /\ d4 \in 0..1 /\ d5 \in 0..1
    BY <1>5
  <2>2. a + b + d3 <= n /\ a2 + d4 <= a + d5 /\ b2 + d2 <= b + d4 /\ n + d5 <= n2
    BY <1>2, <1>3, <1>4, Zenon
  <2> HIDE DEF d1, d2, d3, d4, d5
  <2>3. a2 + b2 + d1 <= n2
    BY <2>1, <2>2
  <2> QED
    BY <2>3 DEF d1
<1> QED
  BY <1>3, <1>4, <1>6 DEF Owed

\* The same at the other end.
LEMMA OwedTo ==
  ASSUME NEW w \in Seq(Frame), NEW q \in Seq(Frame), NEW u \in BOOLEAN, NEW m \in BOOLEAN,
         NEW ins \in BOOLEAN, NEW n \in Int, Owed(w, q, u, m, ins, n),
         NEW m2 \in BOOLEAN, NEW n2 \in Int, n + Differ(m, m2) <= n2
  PROVE  Owed(w, q, u, m2, ins, n2)
<1>1. PICK L \in BOOLEAN, v \in BOOLEAN : \E a, b \in Int :
        /\ Walk(w, u, L, a, NotDue) /\ Walk(q, L, v, b, ins)
        /\ a + b + Differ(v, m) <= n
  BY DEF Owed
<1>2. PICK a \in Int, b \in Int :
        /\ Walk(w, u, L, a, NotDue) /\ Walk(q, L, v, b, ins)
        /\ a + b + Differ(v, m) <= n
  BY <1>1
<1>3. /\ Differ(v, m2) <= Differ(v, m) + Differ(m, m2)
      /\ Differ(v, m2) \in 0..1 /\ Differ(v, m) \in 0..1 /\ Differ(m, m2) \in 0..1
  BY DifferTriangle
<1>4. a + b + Differ(v, m2) <= n2
  BY <1>2, <1>3
<1> QED
  BY <1>2, <1>4 DEF Owed

\* A frame joins the queue: for a mode frame the mode was changed to, the
\* change pays; any other costs nothing.
LEMMA OwedPost ==
  ASSUME NEW w \in Seq(Frame), NEW q \in Seq(Frame), NEW u \in BOOLEAN, NEW m \in BOOLEAN,
         NEW ins \in BOOLEAN, NEW n \in Int, Owed(w, q, u, m, ins, n),
         NEW f \in Frame
  PROVE  /\ f.type # "mode" => Owed(w, Append(q, f), u, m, ins, n)
         /\ f.type = "mode" /\ f.passthrough = ~m => Owed(w, Append(q, f), u, ~m, ins, n + 1)
<1>1. PICK L \in BOOLEAN, v \in BOOLEAN : \E a, b \in Int :
        /\ Walk(w, u, L, a, NotDue) /\ Walk(q, L, v, b, ins)
        /\ a + b + Differ(v, m) <= n
  BY DEF Owed
<1>2. PICK a \in Int, b \in Int :
        /\ Walk(w, u, L, a, NotDue) /\ Walk(q, L, v, b, ins)
        /\ a + b + Differ(v, m) <= n
  BY <1>1
<1> DEFINE c == Cost(f, v, ins)
           x == After(f, v)
<1>3. Walk(Append(q, f), L, x, b + c, ins) /\ x \in BOOLEAN /\ c \in Int
  BY <1>2, WalkAppend, AfterType
<1>4. ASSUME NEW k \in BOOLEAN, NEW j \in Int, c + Differ(x, k) <= Differ(v, m) + j
      PROVE  Owed(w, Append(q, f), u, k, ins, n + j)
  <2>1. Differ(x, k) \in 0..1 /\ Differ(v, m) \in 0..1
    BY <1>3, DifferTriangle
  <2>2. b + c \in Int
    BY <1>3
  <2> HIDE DEF c, x
  <2>3. a + (b + c) + Differ(x, k) <= n + j
    BY <1>2, <1>3, <1>4, <2>1
  <2> QED
    BY <1>2, <1>3, <2>2, <2>3 DEF Owed
<1>5. ASSUME f.type # "mode" PROVE Owed(w, Append(q, f), u, m, ins, n)
  <2>1. c + Differ(x, m) <= Differ(v, m) + 0
    BY <1>5 DEF Cost, After, Differ
  <2>2. Owed(w, Append(q, f), u, m, ins, n + 0)
    BY <1>4, <2>1
  <2>3. n + 0 = n
    OBVIOUS
  <2> QED
    BY <2>2, <2>3, Zenon
<1>6. ASSUME f.type = "mode", f.passthrough = ~m PROVE Owed(w, Append(q, f), u, ~m, ins, n + 1)
  <2>1. x = ~m
    BY <1>6 DEF After
  <2>2. Differ(x, ~m) = 0
    BY <2>1 DEF Differ
  <2>3. c <= Differ(v, m) + 1
    BY <1>6 DEF Cost, Differ
  <2>4. Differ(v, m) \in 0..1
    BY DifferTriangle
  <2>5. c + Differ(x, ~m) <= Differ(v, m) + 1
    BY <1>3, <2>2, <2>3, <2>4
  <2>6. (~m) \in BOOLEAN /\ 1 \in Int
    OBVIOUS
  <2> HIDE DEF c, x
  <2> QED
    BY <1>4, <2>5, <2>6, Zenon
<1> QED
  BY <1>5, <1>6

\* The head of the queue goes onto the wire.
LEMMA OwedMove ==
  ASSUME NEW w \in Seq(Frame), NEW q \in Seq(Frame), NEW u \in BOOLEAN, NEW m \in BOOLEAN,
         NEW ins \in BOOLEAN, NEW n \in Int, Owed(w, q, u, m, ins, n), q # <<>>
  PROVE  Owed(Append(w, Head(q)), Tail(q), u, m, ins, n)
<1>1. PICK L \in BOOLEAN, v \in BOOLEAN : \E a, b \in Int :
        /\ Walk(w, u, L, a, NotDue) /\ Walk(q, L, v, b, ins)
        /\ a + b + Differ(v, m) <= n
  BY DEF Owed
<1>2. PICK a \in Int, b \in Int :
        /\ Walk(w, u, L, a, NotDue) /\ Walk(q, L, v, b, ins)
        /\ a + b + Differ(v, m) <= n
  BY <1>1
<1> DEFINE f == Head(q)
           c == Cost(f, L, NotDue)
           d == Cost(f, L, ins)
           x == After(f, L)
<1>3. f \in Frame /\ Tail(q) \in Seq(Frame)
  OBVIOUS
<1>4. Walk(Append(w, f), u, x, a + c, NotDue)
  BY Flags, <1>2, <1>3, WalkAppend
<1>5. Walk(Tail(q), x, v, b - d, ins)
  BY <1>2, WalkTail
<1>6. c <= d
  BY <1>3, FrameCosts
<1>7. x \in BOOLEAN /\ c \in Int /\ d \in Int /\ Differ(v, m) \in 0..1
  BY Flags, <1>3, AfterType, DifferTriangle
<1> HIDE DEF f, c, d, x
<1>8. a + c \in Int /\ b - d \in Int /\ (a + c) + (b - d) + Differ(v, m) <= n
  BY <1>2, <1>6, <1>7
<1>9. Owed(Append(w, f), Tail(q), u, m, ins, n)
  BY <1>4, <1>5, <1>7, <1>8 DEF Owed
<1> QED
  BY <1>9 DEF f

\* The keepalive goes onto the wire, and then the repetition of the mode.
LEMMA OwedKeepalive ==
  ASSUME NEW w \in Seq(Frame), NEW q \in Seq(Frame), NEW u \in BOOLEAN, NEW m \in BOOLEAN,
         NEW ins \in BOOLEAN, NEW n \in Int, Owed(w, q, u, m, ins, n),
         NEW f \in Frame, f.type # "mode"
  PROVE  Owed(Append(w, f), q, u, m, ins, n)
<1>1. PICK L \in BOOLEAN, v \in BOOLEAN : \E a, b \in Int :
        /\ Walk(w, u, L, a, NotDue) /\ Walk(q, L, v, b, ins)
        /\ a + b + Differ(v, m) <= n
  BY DEF Owed
<1>2. PICK a \in Int, b \in Int :
        /\ Walk(w, u, L, a, NotDue) /\ Walk(q, L, v, b, ins)
        /\ a + b + Differ(v, m) <= n
  BY <1>1
<1>3. After(f, L) = L /\ Cost(f, L, NotDue) = 0
  BY DEF After, Cost
<1>4. Walk(Append(w, f), u, After(f, L), a + Cost(f, L, NotDue), NotDue)
  BY Flags, <1>2, WalkAppend
<1>5. a + 0 = a
  OBVIOUS
<1>6. Walk(Append(w, f), u, L, a, NotDue)
  BY Flags, <1>3, <1>4, <1>5, Zenon
<1> QED
  BY <1>2, <1>6 DEF Owed

\* The repetition of the mode goes onto the wire.
LEMMA OwedRepeat ==
  ASSUME NEW w \in Seq(Frame), NEW q \in Seq(Frame), NEW u \in BOOLEAN, NEW m \in BOOLEAN,
         NEW n \in Int, Owed(w, q, u, m, IsDue, n),
         NEW f \in Frame, f.type = "mode", f.passthrough = m
  PROVE  Owed(Append(w, f), q, u, m, NotDue, n)
<1>1. PICK L \in BOOLEAN, v \in BOOLEAN : \E a, b \in Int :
        /\ Walk(w, u, L, a, NotDue) /\ Walk(q, L, v, b, IsDue)
        /\ a + b + Differ(v, m) <= n
  BY DEF Owed
<1>2. PICK a \in Int, b \in Int :
        /\ Walk(w, u, L, a, NotDue) /\ Walk(q, L, v, b, IsDue)
        /\ a + b + Differ(v, m) <= n
  BY <1>1
<1>3. PICK v2 \in BOOLEAN, b2 \in Int :
        Walk(q, m, v2, b2, NotDue) /\ Differ(L, m) + b2 + Differ(v2, m) <= b + Differ(v, m)
  <2>1. Walk(q, L, v, b, IsDue)
    BY <1>2
  <2> QED
    BY <2>1, WalkInserted
<1>4. After(f, L) = m /\ Cost(f, L, NotDue) = Differ(L, m)
  BY DEF After, Cost, NotDue
<1>5. Walk(Append(w, f), u, After(f, L), a + Cost(f, L, NotDue), NotDue)
  BY Flags, <1>2, WalkAppend
<1>6. Walk(Append(w, f), u, m, a + Differ(L, m), NotDue)
  BY Flags, <1>4, <1>5, Zenon
<1>7. Differ(L, m) \in 0..1 /\ Differ(v2, m) \in 0..1 /\ Differ(v, m) \in 0..1
  BY DifferTriangle
<1>8. a + Differ(L, m) \in Int /\ (a + Differ(L, m)) + b2 + Differ(v2, m) <= n
  BY <1>2, <1>3, <1>7
<1> QED
  BY <1>3, <1>6, <1>8 DEF Owed

\* A frame leaves the wire, and the mode becomes what it says.
LEMMA OwedReceive ==
  ASSUME NEW w \in Seq(Frame), NEW q \in Seq(Frame), NEW u \in BOOLEAN, NEW m \in BOOLEAN,
         NEW ins \in BOOLEAN, NEW n \in Int, Owed(w, q, u, m, ins, n), w # <<>>
  PROVE  /\ After(Head(w), u) \in BOOLEAN
         /\ Owed(Tail(w), q, After(Head(w), u), m, ins, n - Differ(u, After(Head(w), u)))
<1>1. PICK L \in BOOLEAN, v \in BOOLEAN : \E a, b \in Int :
        /\ Walk(w, u, L, a, NotDue) /\ Walk(q, L, v, b, ins)
        /\ a + b + Differ(v, m) <= n
  BY DEF Owed
<1>2. PICK a \in Int, b \in Int :
        /\ Walk(w, u, L, a, NotDue) /\ Walk(q, L, v, b, ins)
        /\ a + b + Differ(v, m) <= n
  BY <1>1
<1> DEFINE f == Head(w)
           c == Cost(f, u, NotDue)
           x == After(f, u)
           d == Differ(u, x)
<1>3. f \in Frame /\ Tail(w) \in Seq(Frame)
  OBVIOUS
<1>4. Walk(Tail(w), x, L, a - c, NotDue)
  BY Flags, <1>2, WalkTail
<1>5. d <= c
  BY Flags, <1>3, FrameCosts
<1>6. x \in BOOLEAN /\ c \in Int /\ d \in 0..1 /\ Differ(v, m) \in 0..1
  BY Flags, <1>3, AfterType, DifferTriangle
<1> HIDE DEF f, c, x, d
<1>7. a - c \in Int /\ (a - c) + b + Differ(v, m) <= n - d
  BY <1>2, <1>5, <1>6
<1>8. Owed(Tail(w), q, x, m, ins, n - d)
  BY <1>2, <1>4, <1>6, <1>7 DEF Owed
<1> QED
  BY <1>6, <1>8 DEF f, x, d

\* The wire is empty all of a sudden, and the mode is any.
LEMMA OwedCut ==
  ASSUME NEW w \in Seq(Frame), NEW q \in Seq(Frame), NEW u \in BOOLEAN, NEW m \in BOOLEAN,
         NEW ins \in BOOLEAN, NEW n \in Int, Owed(w, q, u, m, ins, n),
         NEW u2 \in BOOLEAN
  PROVE  Owed(<<>>, q, u2, m, ins, n + 1)
<1>1. PICK L \in BOOLEAN, v \in BOOLEAN : \E a, b \in Int :
        /\ Walk(w, u, L, a, NotDue) /\ Walk(q, L, v, b, ins)
        /\ a + b + Differ(v, m) <= n
  BY DEF Owed
<1>2. PICK a \in Int, b \in Int :
        /\ Walk(w, u, L, a, NotDue) /\ Walk(q, L, v, b, ins)
        /\ a + b + Differ(v, m) <= n
  BY <1>1
<1>3. 0 <= a /\ Differ(L, v) <= b
  BY Flags, <1>2, WalkCosts
<1>4. Walk(<<>>, L, L, 0, NotDue)
  BY Flags, WalkEmpty
<1>5. 0 + b + Differ(v, m) <= n
  BY <1>2, <1>3, DifferTriangle
<1>6. Owed(<<>>, q, L, m, ins, n)
  <2>1. 0 \in Int
    OBVIOUS
  <2> QED
    BY <1>2, <1>4, <1>5, <2>1, Zenon DEF Owed
<1>7. n + Differ(L, u2) <= n + 1
  BY DifferTriangle
<1>8. <<>> \in Seq(Frame) /\ n + 1 \in Int
  OBVIOUS
<1>9. PICK e \in Seq(Frame), j \in Int : e = <<>> /\ j = n + 1
  BY <1>8
<1>10. Owed(e, q, L, m, ins, n) /\ n + Differ(L, u2) <= j
  BY <1>6, <1>7, <1>9
<1>11. Owed(e, q, u2, m, ins, j)
  BY <1>10, OwedFrom
<1> QED
  BY <1>9, <1>11

\* The queue is empty all of a sudden.
LEMMA OwedEmpty ==
  ASSUME NEW w \in Seq(Frame), NEW q \in Seq(Frame), NEW u \in BOOLEAN, NEW m \in BOOLEAN,
         NEW ins \in BOOLEAN, NEW n \in Int, Owed(w, q, u, m, ins, n),
         NEW i \in BOOLEAN
  PROVE  Owed(w, <<>>, u, m, i, n)
<1>1. PICK L \in BOOLEAN, v \in BOOLEAN : \E a, b \in Int :
        /\ Walk(w, u, L, a, NotDue) /\ Walk(q, L, v, b, ins)
        /\ a + b + Differ(v, m) <= n
  BY DEF Owed
<1>2. PICK a \in Int, b \in Int :
        /\ Walk(w, u, L, a, NotDue) /\ Walk(q, L, v, b, ins)
        /\ a + b + Differ(v, m) <= n
  BY <1>1
<1>3. 0 <= a /\ Differ(L, v) <= b
  BY Flags, <1>2, WalkCosts
<1>4. Walk(<<>>, L, L, 0, i)
  BY WalkEmpty
<1>5. Differ(L, m) <= Differ(L, v) + Differ(v, m)
      /\ Differ(L, m) \in 0..1 /\ Differ(L, v) \in 0..1 /\ Differ(v, m) \in 0..1
  BY DifferTriangle
<1>6. a + 0 + Differ(L, m) <= n
  BY <1>2, <1>3, <1>5
<1>7. 0 \in Int
  OBVIOUS
<1> QED
  BY <1>2, <1>4, <1>6, <1>7, Zenon DEF Owed

---------------------------------------------------------------------------
(* The mode changes under way, and those the mapper may still make. *)

\* The mode the mapper is in, or is to be in when its switch succeeds.
Ends == IF target \in {"none", IdentityOf(passthrough)} THEN passthrough ELSE ~passthrough

\* The changes of the mode that a switch under way has taken up: the one it
\* makes, and both of a request that was withdrawn before it was read again.
TakenUp ==
  IF target = "none" THEN 0 ELSE IF target = IdentityOf(passthrough) THEN 2 ELSE 1

\* The keepalive will insert the current mode in front of the queue.
Due == IF kaDue \/ txpc = "mode" THEN IsDue ELSE NotDue

\* The changes of the mode not yet needed by what the mapper is about to do.
Left == unspent - TakenUp - Differ(Ends, want)

\* Where a switch and a keepalive may be.
SwitchShape ==
  /\ ~up => txpc = "off" /\ ~kaDue
  /\ ~(kaDue /\ txpc = "mode")

\* All that is under way is paid for.
SwitchInv == SwitchShape /\ Owed(wire, txq, want, mode, Due, Left)

\* The types the arithmetic needs, before and after a step.
LEMMA SwitchFacts ==
  ASSUME TypeOK, TypeOK'
  PROVE  /\ wire \in Seq(Frame) /\ txq \in Seq(Frame) /\ wire' \in Seq(Frame) /\ txq' \in Seq(Frame)
         /\ want \in BOOLEAN /\ mode \in BOOLEAN /\ passthrough \in BOOLEAN
         /\ want' \in BOOLEAN /\ mode' \in BOOLEAN /\ passthrough' \in BOOLEAN
         /\ unspent \in Int /\ unspent' \in Int
         /\ Due \in BOOLEAN /\ Due' \in BOOLEAN /\ Ends \in BOOLEAN /\ Ends' \in BOOLEAN
         /\ TakenUp \in 0..2 /\ Left \in Int /\ Left' \in Int
<1>1. wire \in Seq(Frame) /\ wire' \in Seq(Frame) /\ txq \in Seq(Event) /\ txq' \in Seq(Event)
  BY DEF TypeOK, WireTypeOK, SenderTypeOK
<1>2. Event \subseteq Frame
  BY DEF Frame
<1>3. txq \in Seq(Frame) /\ txq' \in Seq(Frame)
  BY <1>1, <1>2
<1>4. /\ want \in BOOLEAN /\ mode \in BOOLEAN /\ passthrough \in BOOLEAN
      /\ want' \in BOOLEAN /\ mode' \in BOOLEAN /\ passthrough' \in BOOLEAN
      /\ unspent \in Int /\ unspent' \in Int
  BY DEF TypeOK, SenderTypeOK, IdentityTypeOK, SplitTypeOK
<1>5. Due \in BOOLEAN /\ Due' \in BOOLEAN
  BY Flags DEF Due
<1>6. Ends \in BOOLEAN /\ Ends' \in BOOLEAN
  BY <1>4 DEF Ends
<1>7. TakenUp \in 0..2 /\ TakenUp' \in 0..2
  BY DEF TakenUp
<1>8. Left \in Int /\ Left' \in Int
  BY <1>4, <1>6, <1>7 DEF Left, Differ
<1> QED
  BY <1>1, <1>3, <1>4, <1>5, <1>6, <1>7, <1>8

\* Every step keeps the shape; the clock waits until the tasks are idle.
LEMMA ShapeStep ==
  ASSUME Prompt, TypeOK, SwitchShape, [Next]_vars
  PROVE  SwitchShape'
<1> USE DEF SwitchShape
<1>1. CASE HidCallback
  <2>1. UNCHANGED <<kaDue, txpc, up, target, passthrough>>
    BY <1>1
    DEF HidCallback, identityVars, hid_callbacks, driver_event_cb, iface_event_cb,
        InterfaceConnected, InterfaceDisconnected, RolloverReport, HotkeyReport, KeyboardReport,
        MouseReport
  <2> QED
    BY <2>1
<1>2. CASE SenderTask
  BY <1>2
  DEF SenderTask, chip_link_start, sender_task, SendEvent, ReceiveTimeout, NotDueYet,
      SendKeepalive, SendMode, identityVars
<1>3. CASE InputChipDown \/ InputChipBoots
  BY <1>3 DEF InputChipDown, InputChipBoots, identityVars, senderVars
<1>4. CASE MapperTick \/ MapperSwitches
  BY <1>4 DEF MapperTick, MapperSwitches, senderVars
<1>5. CASE PadChipRestarts
  BY <1>5 DEF PadChipRestarts, senderVars
<1>6. CASE Tick
  <2>1. Settled /\ kaDue' = up /\ UNCHANGED <<txpc, up, target, passthrough>>
    BY <1>6 DEF Tick, identityVars
  <2> QED
    BY <2>1 DEF Settled
<1>7. CASE InputHeartbeat \/ ReceiverTask \/ PadHeartbeat \/ Noise \/ UNCHANGED vars
  <2>1. UNCHANGED <<kaDue, txpc, up, target, passthrough>>
    BY <1>7
    DEF InputHeartbeat, ReceiverTask, receiver_task, ReceiveFrame, PeerSilent, PadHeartbeat,
        Noise, senderVars, identityVars, vars
  <2> QED
    BY <2>1
<1> QED
  BY <1>1, <1>2, <1>3, <1>4, <1>5, <1>6, <1>7 DEF Next

\* A callback pays for the mode event it posts, whether or not it finds room.
LEMMA CallbackOwes ==
  ASSUME TypeOK, TypeOK', Owed(wire, txq, want, mode, Due, Left), HidCallback
  PROVE  Owed(wire', txq', want', mode', Due', Left')
<1>a. /\ wire \in Seq(Frame) /\ txq \in Seq(Frame) /\ mode \in BOOLEAN /\ want \in BOOLEAN
      /\ unspent \in Int /\ Due \in BOOLEAN /\ Left \in Int /\ passthrough \in BOOLEAN
      /\ Ends \in BOOLEAN /\ TakenUp \in 0..2
  BY SwitchFacts
<1>b. /\ wire' = wire /\ want' = want /\ Due' = Due /\ Ends' = Ends /\ passthrough' = passthrough
      /\ TakenUp' = TakenUp
  <2>1. UNCHANGED <<wire, want, target, passthrough, kaDue, txpc>>
    BY
    DEF HidCallback, identityVars, wireVars, hid_callbacks, driver_event_cb, iface_event_cb,
        InterfaceConnected, InterfaceDisconnected, RolloverReport, HotkeyReport, KeyboardReport,
        MouseReport
  <2> QED
    BY <2>1 DEF Due, Ends, TakenUp
<1>c. unspent' = unspent + (IF mode' # mode THEN 1 ELSE 0)
  <2>1. Count
    BY DEF HidCallback
  <2> QED
    BY <1>a, <1>b, <2>1 DEF Count
<1>d. Left' = Left + (IF mode' # mode THEN 1 ELSE 0)
  <2>1. Differ(Ends, want) \in 0..1
    BY <1>a, DifferTriangle
  <2>2. Left' = unspent' - TakenUp - Differ(Ends, want)
    BY <1>b DEF Left
  <2> QED
    BY <1>a, <1>c, <2>1, <2>2 DEF Left
<1>1. CASE \E d \in Devices, k \in Keys : HotkeyReport(d, k)
  <2> DEFINE f == [type |-> "mode", passthrough |-> ~mode]
  <2>1. f \in Frame /\ f.type = "mode" /\ f.passthrough = ~mode
    BY <1>a DEF Frame, Event, ModeFrame
  <2>2. mode' = ~mode /\ txq' \in {txq, Append(txq, f)}
    BY <1>1 DEF HotkeyReport, chip_link_set_mode, Post
  <2> HIDE DEF f
  <2>3. Left' = Left + 1 /\ Left + 1 \in Int
    BY <1>a, <1>d, <2>2
  <2>4. Owed(wire, Append(txq, f), want, ~mode, Due, Left + 1)
    BY <1>a, <2>1, OwedPost
  <2>5. Owed(wire, txq, want, ~mode, Due, Left + 1)
    <3>1. PICK m \in BOOLEAN, n \in Int : m = ~mode /\ n = Left + 1
      BY <2>3
    <3>2. Left + Differ(mode, m) <= n
      <4>1. Differ(mode, m) \in 0..1
        BY <1>a, DifferTriangle
      <4>2. n = Left + 1
        BY <3>1
      <4> QED
        BY <1>a, <4>1, <4>2
    <3>3. Owed(wire, txq, want, m, Due, n)
      BY <1>a, <3>2, OwedTo
    <3> QED
      BY <3>1, <3>3
  <2> QED
    BY <1>b, <2>2, <2>3, <2>4, <2>5, Zenon
<1>2. CASE ~\E d \in Devices, k \in Keys : HotkeyReport(d, k)
  <2>1. mode' = mode /\ \E f \in Frame : f.type # "mode" /\ txq' \in {txq, Append(txq, f)}
    <3> DEFINE Posts == \E f \in Frame : f.type # "mode" /\ txq' \in {txq, Append(txq, f)}
    <3>1. ASSUME txq' = txq PROVE Posts
      <4>1. [type |-> "keepalive", present |-> {}] \in Frame
        BY DEF Frame, KeepaliveFrame
      <4> QED
        BY <3>1, <4>1
    <3>2. ASSUME NEW k \in Keys, chip_link_send_keyboard(k) PROVE Posts
      <4>1. [type |-> "keyboard", keys |-> k] \in Frame
        BY DEF Frame, Event, KeyboardFrame
      <4>2. txq' \in {txq, Append(txq, [type |-> "keyboard", keys |-> k])}
        BY <3>2 DEF chip_link_send_keyboard, Post
      <4> QED
        BY <4>1, <4>2
    <3>3. CASE \E d \in Devices : InterfaceConnected(d) \/ InterfaceDisconnected(d)
      <4>1. mode' = mode /\ txq' = txq
        BY <3>3 DEF InterfaceConnected, InterfaceDisconnected
      <4> QED
        BY <3>1, <4>1
    <3>4. CASE \E d \in Devices, k \in Keys : KeyboardReport(d, k)
      BY <3>2, <3>4 DEF KeyboardReport
    <3>5. CASE \E d \in Devices : RolloverReport(d)
      <4>1. PICK d \in Devices : RolloverReport(d)
        BY <3>5
      <4>2. ModsOf[held[d]] \in Keys
        BY <4>1, DevicesAssumption DEF RolloverReport, TypeOK, WorldTypeOK
      <4> QED
        BY <3>1, <3>2, <4>1, <4>2 DEF RolloverReport
    <3>6. CASE \E d \in Devices, b \in Buttons, moved \in BOOLEAN : MouseReport(d, b, moved)
      <4>1. PICK d \in Devices, b \in Buttons, moved \in BOOLEAN : MouseReport(d, b, moved)
        BY <3>6
      <4> DEFINE f == [type |-> "mouse", buttons |-> b,
                       delta |-> IF moved THEN reports + 1 ELSE 0]
      <4>2. f \in Frame /\ f.type # "mode"
        BY DEF Frame, Event, MouseFrame, TypeOK, WorldTypeOK
      <4>3. mode' = mode /\ txq' \in {txq, Append(txq, f)}
        BY <4>1 DEF MouseReport, chip_link_send_mouse, Post
      <4> QED
        BY <4>2, <4>3
    <3> QED
      BY <1>2, <3>3, <3>4, <3>5, <3>6
      DEF HidCallback, hid_callbacks, driver_event_cb, iface_event_cb
  <2>2. Left' = Left
    BY <1>a, <1>d, <2>1
  <2>3. PICK f \in Frame : f.type # "mode" /\ txq' \in {txq, Append(txq, f)}
    BY <2>1
  <2>4. Owed(wire, Append(txq, f), want, mode, Due, Left)
    BY <1>a, <2>3, OwedPost
  <2> QED
    BY <1>b, <2>1, <2>2, <2>3, <2>4, Zenon
<1> QED
  BY <1>1, <1>2

\* What sender_task writes costs no more on the wire than it did in the queue.
LEMMA SenderOwes ==
  ASSUME TypeOK, TypeOK', SwitchInv, SenderTask
  PROVE  Owed(wire', txq', want', mode', Due', Left')
<1>a. /\ wire \in Seq(Frame) /\ txq \in Seq(Frame) /\ mode \in BOOLEAN /\ want \in BOOLEAN
      /\ Due \in BOOLEAN /\ Left \in Int /\ Owed(wire, txq, want, mode, Due, Left)
  BY SwitchFacts DEF SwitchInv
<1>b. want' = want /\ mode' = mode /\ Left' = Left
  <2>1. UNCHANGED <<want, target, passthrough, unspent, mode>>
    BY
    DEF SenderTask, identityVars, historyVars, chip_link_start, sender_task, SendEvent,
        ReceiveTimeout, NotDueYet, SendKeepalive, SendMode
  <2> QED
    BY <2>1 DEF Left, Ends, TakenUp
<1>1. CASE SendEvent
  <2>1. txq # <<>> /\ txq' = Tail(txq) /\ wire' = Append(wire, Head(txq)) /\ Due' = Due
    BY <1>1 DEF SendEvent, frame_send, Due
  <2>2. Owed(Append(wire, Head(txq)), Tail(txq), want, mode, Due, Left)
    BY <1>a, <2>1, OwedMove
  <2> QED
    BY <1>b, <2>1, <2>2, Zenon
<1>2. CASE SendKeepalive
  <2> DEFINE f == [type |-> "keepalive", present |-> presence]
  <2>1. f \in Frame /\ f.type # "mode"
    BY DEF TypeOK, SenderTypeOK, Frame, KeepaliveFrame
  <2>2. txq' = txq /\ wire' = Append(wire, f) /\ Due' = Due
    BY <1>2 DEF SendKeepalive, frame_send, Due
  <2> HIDE DEF f
  <2>3. Owed(Append(wire, f), txq, want, mode, Due, Left)
    BY <1>a, <2>1, OwedKeepalive
  <2> QED
    BY <1>b, <2>2, <2>3, Zenon
<1>3. CASE SendMode
  <2> DEFINE f == [type |-> "mode", passthrough |-> mode]
  <2>1. f \in Frame /\ f.type = "mode" /\ f.passthrough = mode
    BY <1>a DEF Frame, Event, ModeFrame
  <2>2. txq' = txq /\ wire' = Append(wire, f) /\ Due = IsDue /\ Due' = NotDue
    BY <1>3 DEF SendMode, frame_send, Due, SwitchInv, SwitchShape
  <2> HIDE DEF f
  <2>3. Owed(wire, txq, want, mode, IsDue, Left)
    BY <1>a, <2>2, Zenon
  <2>4. Owed(Append(wire, f), txq, want, mode, NotDue, Left)
    BY <1>a, <2>1, <2>3, OwedRepeat
  <2> QED
    BY <1>b, <2>2, <2>4, Zenon
<1>4. CASE chip_link_start \/ ReceiveTimeout \/ NotDueYet
  <2>1. txq' = txq /\ wire' = wire /\ Due' = Due
    BY <1>4 DEF chip_link_start, ReceiveTimeout, NotDueYet, wireVars, Due
  <2> QED
    BY <1>a, <1>b, <2>1, Zenon
<1> QED
  BY <1>1, <1>2, <1>3, <1>4 DEF SenderTask, sender_task


\* A frame that arrives sets the request; one that is lost may be missed later.
LEMMA WireOwes ==
  ASSUME TypeOK, TypeOK', SwitchInv, ReceiverTask \/ Noise
  PROVE  Owed(wire', txq', want', mode', Due', Left')
<1>a. /\ wire \in Seq(Frame) /\ txq \in Seq(Frame) /\ mode \in BOOLEAN /\ want \in BOOLEAN
      /\ want' \in BOOLEAN /\ unspent \in Int /\ passthrough \in BOOLEAN /\ Ends \in BOOLEAN
      /\ wire' \in Seq(Frame) /\ Left' \in Int /\ TakenUp \in 0..2
      /\ Due \in BOOLEAN /\ Left \in Int /\ Owed(wire, txq, want, mode, Due, Left)
  BY SwitchFacts DEF SwitchInv
<1>b. /\ txq' = txq /\ mode' = mode /\ Due' = Due /\ Ends' = Ends
      /\ passthrough' = passthrough /\ unspent' = unspent /\ TakenUp' = TakenUp
  <2>1. UNCHANGED <<txq, mode, kaDue, txpc, target, passthrough, unspent>>
    BY
    DEF ReceiverTask, Noise, receiver_task, ReceiveFrame, PeerSilent, senderVars, historyVars,
        identityVars
  <2> QED
    BY <2>1 DEF Due, Ends, TakenUp
<1> DEFINE f == Head(wire)
           x == After(f, want)
<1>1. ASSUME wire # <<>>
      PROVE  x \in BOOLEAN /\ Owed(Tail(wire), txq, x, mode, Due, Left - Differ(want, x))
  BY <1>a, <1>1, OwedReceive
<1>2. ASSUME NEW m \in BOOLEAN, Differ(want, m) \in 0..1, wire # <<>>,
             Owed(Tail(wire), txq, m, mode, Due, Left - Differ(want, m)),
             want' = m
      PROVE  Owed(Tail(wire), txq, want', mode, Due, Left')
  <2> DEFINE d1 == TakenUp
             d2 == Differ(Ends, want)
             d3 == Differ(Ends, m)
             d4 == Differ(want, m)
  <2>1. d1 \in 0..2 /\ d2 \in 0..1 /\ d3 \in 0..1 /\ d4 \in 0..1 /\ d3 <= d2 + d4
    BY <1>a, DifferTriangle
  <2>2. Left = unspent - d1 - d2 /\ Left' = unspent - d1 - d3
    <3>1. Left' = unspent' - TakenUp' - Differ(Ends', want')
      BY DEF Left
    <3> QED
      BY <1>b, <1>2, <3>1, Zenon DEF Left
  <2>3. Left - d4 \in Int
    BY <1>a, <2>1
  <2>4. Tail(wire) \in Seq(Frame) /\ Differ(m, m) = 0
    BY <1>a, <1>2 DEF Differ
  <2>5. (Left - d4) + Differ(m, m) <= Left'
    <3> HIDE DEF d1, d2, d3, d4
    <3> QED
      BY <1>a, <2>1, <2>2, <2>4
  <2>6. Owed(Tail(wire), txq, m, mode, Due, Left')
    <3>1. PICK n \in Int : n = Left - d4
      BY <2>3
    <3>2. Owed(Tail(wire), txq, m, mode, Due, n) /\ n + Differ(m, m) <= Left'
      BY <1>2, <2>5, <3>1, Zenon
    <3>3. PICK w \in Seq(Frame) : w = Tail(wire)
      BY <2>4
    <3>4. Owed(w, txq, m, mode, Due, n)
      BY <3>2, <3>3, Zenon
    <3>5. Owed(w, txq, m, mode, Due, Left')
      BY <1>a, <3>2, <3>4, OwedFrom
    <3> QED
      BY <3>3, <3>5, Zenon
  <2> QED
    BY <1>2, <2>6, Zenon
<1>3. CASE ReceiverTask /\ ReceiveFrame
  <2>1. wire # <<>> /\ wire' = Tail(wire) /\ handle_frame(f)
    BY <1>3 DEF ReceiveFrame
  <2>2. want' = x
    BY <2>1
    DEF handle_frame, HandleMouse, HandleKeyboard, HandleMode, HandleKeepalive, After,
        usb_pad_request_mode
  <2>3. x \in BOOLEAN /\ Differ(want, x) \in 0..1
        /\ Owed(Tail(wire), txq, x, mode, Due, Left - Differ(want, x))
    BY <1>a, <1>1, <2>1, DifferTriangle
  <2> HIDE DEF x
  <2>4. Owed(Tail(wire), txq, want', mode, Due, Left')
    BY <1>2, <2>1, <2>2, <2>3
  <2> QED
    BY <1>b, <2>1, <2>4, Zenon
<1>4. CASE ReceiverTask /\ PeerSilent
  <2>1. wire' = wire /\ want' = want
    BY <1>4 DEF PeerSilent, wireVars, identityVars
  <2>2. Left' = Left
    BY <1>b, <2>1 DEF Left
  <2> QED
    BY <1>a, <1>b, <2>1, <2>2, Zenon
<1>5. CASE Noise
  <2>1. wire # <<>> /\ wire' = Tail(wire) /\ want' = want
    BY <1>5 DEF Noise, LoseFrame, identityVars
  <2>2. Left' = Left
    BY <1>b, <2>1 DEF Left
  <2>3. /\ x \in BOOLEAN /\ Differ(want, x) \in 0..1 /\ Differ(x, want) = Differ(want, x)
        /\ Owed(Tail(wire), txq, x, mode, Due, Left - Differ(want, x))
    BY <1>a, <1>1, <2>1, DifferTriangle
  <2>4. PICK n \in Int : n = Left - Differ(want, x)
    BY <1>a, <2>3
  <2> HIDE DEF x
  <2>5. n + Differ(x, want) <= Left
    <3> DEFINE d == Differ(want, x)
    <3>1. d \in 0..1 /\ n = Left - d /\ Differ(x, want) = d
      BY <2>3, <2>4
    <3> HIDE DEF d
    <3> QED
      BY <1>a, <3>1
  <2>6. Owed(Tail(wire), txq, x, mode, Due, n)
    BY <2>3, <2>4, Zenon
  <2>7. Owed(Tail(wire), txq, want, mode, Due, Left)
    <3>1. PICK w \in Seq(Frame) : w = Tail(wire)
      BY <1>a, <2>1
    <3>2. Owed(w, txq, x, mode, Due, n)
      BY <2>6, <3>1, Zenon
    <3>3. Owed(w, txq, want, mode, Due, Left)
      BY <1>a, <2>3, <2>5, <3>2, OwedFrom
    <3> QED
      BY <3>1, <3>3, Zenon
  <2> QED
    BY <1>b, <2>1, <2>2, <2>7, Zenon
<1> QED
  BY <1>3, <1>4, <1>5 DEF ReceiverTask, receiver_task

\* The mapper's switch, whatever comes of it, spends what was set aside for it.
LEMMA MapperOwes ==
  ASSUME TypeOK, TypeOK', SwitchInv, MapperTick \/ MapperSwitches
  PROVE  Owed(wire', txq', want', mode', Due', Left')
<1>a. /\ wire \in Seq(Frame) /\ txq \in Seq(Frame) /\ mode \in BOOLEAN /\ want \in BOOLEAN
      /\ want' \in BOOLEAN /\ unspent \in Int /\ passthrough \in BOOLEAN /\ Left' \in Int
      /\ Due \in BOOLEAN /\ Left \in Int /\ Owed(wire, txq, want, mode, Due, Left)
  BY SwitchFacts DEF SwitchInv
<1>b. wire' = wire /\ txq' = txq /\ mode' = mode /\ Due' = Due
  <2>1. UNCHANGED <<wire, txq, mode, kaDue, txpc>>
    BY DEF MapperTick, MapperSwitches, senderVars, wireVars
  <2> QED
    BY <2>1 DEF Due
<1>1. SUFFICES Left + Differ(want, want') <= Left'
  <2>1. Owed(wire, txq, want', mode, Due, Left')
    BY <1>a, <1>1, OwedFrom
  <2> QED
    BY <1>b, <2>1, Zenon
<1>2. CASE MapperTick
  <2>1. unspent' = unspent /\ passthrough' = passthrough /\ want' = want /\ target = "none"
    BY <1>2 DEF MapperTick, ModeInForce, BeginSwitch, identityVars
  <2>2. Left = unspent - 0 - Differ(passthrough, want) /\ Differ(want, want') = 0
    BY <2>1 DEF Left, Ends, TakenUp, Differ
  <2>3. CASE target' = "none"
    <3>1. Left' = unspent - 0 - Differ(passthrough, want)
      BY <2>1, <2>3 DEF Left, Ends, TakenUp
    <3> QED
      BY <1>a, <2>2, <3>1
  <2>4. CASE target' = "unread" /\ want # passthrough
    <3>1. Ends' = ~passthrough /\ TakenUp' = 1
      BY <2>1, <2>4 DEF Ends, TakenUp, IdentityOf
    <3>2. Left' = unspent - 1 - Differ(~passthrough, want)
      BY <2>1, <3>1, Zenon DEF Left
    <3>3. Differ(~passthrough, want) = 0 /\ Differ(passthrough, want) = 1
      BY <1>a, <2>4 DEF Differ
    <3> QED
      BY <1>a, <2>2, <3>2, <3>3
  <2> QED
    BY <1>2, <2>1, <2>3, <2>4 DEF MapperTick, ModeInForce, BeginSwitch, identityVars
<1>3. CASE MapperSwitches /\ ReadTarget
  <2>1. /\ target = "unread" /\ target' = IdentityOf(want)
        /\ unspent' = unspent /\ passthrough' = passthrough /\ want' = want
    <3>1. target = "unread" /\ target' = IdentityOf(want) /\ UNCHANGED <<want, passthrough>>
      BY <1>3 DEF ReadTarget
    <3>2. Count
      BY <1>3 DEF MapperSwitches
    <3>3. unspent' = unspent + 0 - 0
      BY <1>b, <3>1, <3>2 DEF Count
    <3> QED
      BY <1>a, <3>1, <3>3
  <2>2. Ends = ~passthrough /\ TakenUp = 1
    BY <2>1 DEF Ends, TakenUp, IdentityOf
  <2>3. Left = unspent - 1 - Differ(~passthrough, want) /\ Differ(want, want') = 0
    BY <2>1, <2>2 DEF Left, Differ
  <2>4. CASE want = passthrough
    <3>1. Ends' = passthrough /\ TakenUp' = 2
      BY <1>a, <2>1, <2>4 DEF Ends, TakenUp, IdentityOf
    <3>2. Left' = unspent - 2 - Differ(passthrough, want)
      BY <2>1, <3>1, Zenon DEF Left
    <3>3. Differ(~passthrough, want) = 1 /\ Differ(passthrough, want) = 0
      BY <1>a, <2>4 DEF Differ
    <3> QED
      BY <1>a, <2>3, <3>2, <3>3
  <2>5. CASE want # passthrough
    <3>1. Ends' = ~passthrough /\ TakenUp' = 1
      BY <1>a, <2>1, <2>5 DEF Ends, TakenUp, IdentityOf
    <3>2. Left' = unspent - 1 - Differ(~passthrough, want)
      BY <2>1, <3>1, Zenon DEF Left
    <3> QED
      BY <1>a, <2>3, <3>2
  <2> QED
    BY <2>4, <2>5
<1>4. CASE MapperSwitches /\ EndSwitch
  <2>1. EndSwitch /\ target \in Identities /\ target' = "none"
    BY <1>4
    DEF EndSwitch, UninstallFails, InstallSucceeds, FallBackToPad, BothInstallsFail, Uninstalled
  <2>2. unspent' = unspent - Differ(passthrough, passthrough')
    <3>1. Count
      BY <1>4 DEF MapperSwitches
    <3>2. unspent' = unspent + 0 - Differ(passthrough, passthrough')
      BY <1>b, <3>1 DEF Count, Differ
    <3>3. Differ(passthrough, passthrough') \in 0..1
      BY DEF Differ
    <3> QED
      BY <1>a, <3>2, <3>3
  <2>3. passthrough' \in BOOLEAN
    BY SwitchFacts
  <2>4. Left' = unspent - Differ(passthrough, passthrough') - Differ(passthrough', want')
    <3>1. Ends' = passthrough' /\ TakenUp' = 0
      BY <2>1 DEF Ends, TakenUp
    <3>2. Left' = unspent' - 0 - Differ(passthrough', want')
      BY <3>1, Zenon DEF Left
    <3>3. Differ(passthrough', want') \in 0..1 /\ Differ(passthrough, passthrough') \in 0..1
      BY DEF Differ
    <3> QED
      BY <1>a, <2>2, <3>2, <3>3
  <2>5. /\ target = IdentityOf(passthrough) =>
             Left = unspent - 2 - Differ(passthrough, want)
        /\ target # IdentityOf(passthrough) =>
             Left = unspent - 1 - Differ(~passthrough, want)
    BY <2>1 DEF Left, Ends, TakenUp, Identities
  <2>6. CASE UninstallFails \/ BothInstallsFail
    <3>1. passthrough' = passthrough /\ want' \in {want, passthrough}
      BY <2>6 DEF UninstallFails, BothInstallsFail
    <3> QED
      BY <1>a, <2>4, <2>5, <3>1 DEF Differ
  <2>7. CASE InstallSucceeds
    <3>1. passthrough' = (target = "hid") /\ want' = want
      BY <2>7 DEF InstallSucceeds
    <3>2. CASE target = IdentityOf(passthrough)
      <4>1. passthrough' = passthrough
        BY <1>a, <2>3, <3>1, <3>2 DEF IdentityOf
      <4> QED
        BY <1>a, <2>4, <2>5, <3>1, <3>2, <4>1 DEF Differ
    <3>3. CASE target # IdentityOf(passthrough)
      <4>1. passthrough' = ~passthrough
        BY <1>a, <2>1, <2>3, <3>1, <3>3 DEF IdentityOf, Identities
      <4> QED
        BY <1>a, <2>4, <2>5, <3>1, <3>3, <4>1 DEF Differ
    <3> QED
      BY <3>2, <3>3
  <2>8. CASE FallBackToPad
    <3>1. passthrough' = FALSE /\ want' = FALSE
      BY <2>8 DEF FallBackToPad
    <3>2. Left' = unspent - Differ(passthrough, FALSE) - 0
      BY <2>4, <3>1 DEF Differ
    <3> QED
      BY <1>a, <2>5, <3>1, <3>2 DEF Differ
  <2> QED
    BY <2>1, <2>6, <2>7, <2>8 DEF EndSwitch
<1> QED
  BY <1>2, <1>3, <1>4 DEF MapperSwitches

\* A restart of either chip is paid for by the change of the mode, or by the
\* one re-enumeration that a restart of the pad chip allows.
LEMMA RestartOwes ==
  ASSUME TypeOK, TypeOK', SwitchInv, InputChipDown \/ PadChipRestarts
  PROVE  Owed(wire', txq', want', mode', Due', Left')
<1>a. /\ wire \in Seq(Frame) /\ txq \in Seq(Frame) /\ mode \in BOOLEAN /\ want \in BOOLEAN
      /\ wire' \in Seq(Frame) /\ txq' \in Seq(Frame) /\ mode' \in BOOLEAN /\ want' \in BOOLEAN
      /\ passthrough \in BOOLEAN /\ Ends \in BOOLEAN /\ unspent \in Int /\ Left' \in Int
      /\ TakenUp \in 0..2
      /\ Due \in BOOLEAN /\ Left \in Int /\ Owed(wire, txq, want, mode, Due, Left)
  BY SwitchFacts DEF SwitchInv
<1>b. Differ(Ends, want) \in 0..1
  BY <1>a, DifferTriangle
<1>1. CASE InputChipDown
  <2>1. /\ txq' = <<>> /\ wire' = wire /\ want' = want /\ passthrough' = passthrough
        /\ target' = target /\ mode' = FALSE /\ ~kaDue' /\ txpc' = "off" /\ Count
    BY <1>1 DEF InputChipDown, wireVars, identityVars
  <2>2. Due' = NotDue /\ Ends' = Ends /\ TakenUp' = TakenUp
    BY <2>1 DEF Due, Ends, TakenUp
  <2>3. unspent' = unspent + Differ(mode, mode')
    BY <1>a, <2>1 DEF Count, Differ
  <2>4. Differ(mode, mode') \in 0..1
    BY <1>a, DifferTriangle
  <2>5. Left' = Left + Differ(mode, mode')
    <3>1. Left' = unspent' - TakenUp - Differ(Ends, want)
      BY <2>1, <2>2, Zenon DEF Left
    <3> QED
      BY <1>a, <1>b, <2>3, <2>4, <3>1 DEF Left
  <2>6. Owed(wire, txq', want, mode, NotDue, Left)
    <3>1. Owed(wire, <<>>, want, mode, NotDue, Left)
      BY <1>a, Flags, OwedEmpty
    <3> QED
      BY <2>1, <3>1, Zenon
  <2>7. Left + Differ(mode, mode') <= Left'
    BY <1>a, <2>4, <2>5
  <2>8. Owed(wire, txq', want, mode', NotDue, Left')
    BY <1>a, <2>6, <2>7, Flags, OwedTo
  <2> QED
    BY <2>1, <2>2, <2>8, Zenon
<1>2. CASE PadChipRestarts
  <2>1. /\ wire' = <<>> /\ txq' = txq /\ mode' = mode /\ want' = FALSE /\ passthrough' = FALSE
        /\ target' = "none" /\ unspent' = unspent + 1
        /\ kaDue' = kaDue /\ txpc' = txpc
    BY <1>2 DEF PadChipRestarts, senderVars
  <2>2. Due' = Due /\ Ends' = passthrough' /\ TakenUp' = 0
    BY <2>1 DEF Due, Ends, TakenUp
  <2>3. Left' = unspent + 1
    <3>1. Differ(Ends', want') = 0
      BY <1>a, <2>1, <2>2 DEF Differ
    <3> QED
      BY <1>a, <2>1, <2>2, <3>1 DEF Left
  <2>4. Left + 1 <= Left' /\ Left + 1 \in Int
    BY <1>a, <1>b, <2>3 DEF Left
  <2>5. Owed(<<>>, txq, want', mode, Due, Left + 1)
    BY <1>a, OwedCut
  <2>6. PICK n \in Int : n = Left + 1
    BY <2>4
  <2>7. Owed(wire', txq, want', mode, Due, n)
    BY <2>1, <2>5, <2>6, Zenon
  <2>8. n + Differ(want', want') <= Left'
    BY <2>4, <2>6 DEF Differ
  <2>9. Owed(wire', txq, want', mode, Due, Left')
    BY <1>a, <2>7, <2>8, OwedFrom
  <2> QED
    BY <2>1, <2>2, <2>9, Zenon
<1> QED
  BY <1>1, <1>2

\* Every step keeps what is owed within what is left.
LEMMA SwitchStep ==
  ASSUME Prompt, TypeOK, SwitchInv, [Next]_vars
  PROVE  SwitchInv'
<1>a. TypeOK'
  BY TypeStep
<1>b. SwitchShape'
  BY ShapeStep DEF SwitchInv
<1>c. /\ wire \in Seq(Frame) /\ txq \in Seq(Frame) /\ mode \in BOOLEAN /\ want \in BOOLEAN
      /\ Due \in BOOLEAN /\ Due' \in BOOLEAN /\ Left \in Int
      /\ Owed(wire, txq, want, mode, Due, Left)
  BY <1>a, SwitchFacts DEF SwitchInv
<1>1. CASE HidCallback
  BY <1>a, <1>b, <1>c, <1>1, CallbackOwes DEF SwitchInv
<1>2. CASE SenderTask
  BY <1>a, <1>b, <1>2, SenderOwes DEF SwitchInv
<1>3. CASE InputChipDown \/ PadChipRestarts
  BY <1>a, <1>b, <1>3, RestartOwes DEF SwitchInv
<1>4. CASE ReceiverTask \/ Noise
  BY <1>a, <1>b, <1>4, WireOwes DEF SwitchInv
<1>5. CASE MapperTick \/ MapperSwitches
  BY <1>a, <1>b, <1>5, MapperOwes DEF SwitchInv
<1>6. CASE Tick
  <2>1. /\ Settled /\ kaDue' = up
        /\ UNCHANGED <<txpc, wire, txq, want, mode, target, passthrough, unspent>>
    BY <1>6 DEF Tick, wireVars, identityVars, historyVars
  <2>2. Left' = Left
    BY <2>1 DEF Left, Ends, TakenUp
  <2>3. CASE up
    <3>1. txq = <<>>
      BY <2>1, <2>3 DEF Settled
    <3>2. Owed(wire, txq, want, mode, Due', Left)
      <4>1. Owed(wire, <<>>, want, mode, Due', Left)
        BY <1>c, OwedEmpty
      <4> QED
        BY <3>1, <4>1, Zenon
    <3> QED
      BY <1>b, <2>1, <2>2, <3>2, Zenon DEF SwitchInv
  <2>4. CASE ~up
    <3>1. Due' = Due
      BY <2>1, <2>4 DEF Due, SwitchInv, SwitchShape
    <3> QED
      BY <1>b, <1>c, <2>1, <2>2, <3>1, Zenon DEF SwitchInv
  <2> QED
    BY <2>3, <2>4
<1>7. CASE InputHeartbeat \/ InputChipBoots \/ PadHeartbeat \/ UNCHANGED vars
  <2>1. UNCHANGED <<wire, txq, want, mode, kaDue, txpc, target, passthrough, unspent>>
    BY <1>7
    DEF InputHeartbeat, InputChipBoots, PadHeartbeat, vars, senderVars, wireVars, identityVars,
        historyVars
  <2>2. Due' = Due /\ Left' = Left
    BY <2>1 DEF Due, Left, Ends, TakenUp
  <2> QED
    BY <1>b, <1>c, <2>1, <2>2, Zenon DEF SwitchInv
<1> QED
  BY <1>1, <1>2, <1>3, <1>4, <1>5, <1>6, <1>7 DEF Next

\* The identity changes no more often than the mode, plus once per restart of
\* the pad chip, when no task is starved for a whole keepalive period.
THEOREM NoSpuriousSwitchAlways ==
  ASSUME Prompt
  PROVE  Spec => []NoSpuriousSwitch
<1>1. Init => SwitchInv
  <2> SUFFICES ASSUME Init PROVE SwitchInv
    OBVIOUS
  <2>1. /\ wire = <<>> /\ txq = <<>> /\ want = FALSE /\ mode = FALSE /\ passthrough = FALSE
        /\ target = "none" /\ txpc = "off" /\ kaDue = FALSE /\ up = TRUE /\ unspent = 0
    BY DEF Init, WireInit, SenderInit, IdentityInit
  <2>2. Due = NotDue /\ Left = 0
    <3>1. Ends = FALSE /\ Due = NotDue /\ TakenUp = 0
      BY <2>1 DEF Due, Ends, TakenUp
    <3>2. Differ(Ends, want) = 0
      BY <2>1, <3>1 DEF Differ
    <3> QED
      BY <2>1, <3>1, <3>2 DEF Left
  <2>3. Walk(<<>>, FALSE, FALSE, 0, NotDue)
    BY Flags, WalkEmpty
  <2>4. 0 + 0 + Differ(FALSE, FALSE) <= 0 /\ 0 \in Int
    BY DEF Differ
  <2>5. Owed(<<>>, <<>>, FALSE, FALSE, NotDue, 0)
    BY <2>3, <2>4 DEF Owed
  <2>6. SwitchShape
    BY <2>1 DEF SwitchShape
  <2> QED
    BY <2>1, <2>2, <2>5, <2>6, Zenon DEF SwitchInv
<1>2. TypeOK /\ SwitchInv /\ [Next]_vars => SwitchInv'
  BY SwitchStep
<1>3. TypeOK /\ SwitchInv => NoSpuriousSwitch
  <2> SUFFICES ASSUME TypeOK, SwitchInv PROVE 0 <= unspent
    BY DEF NoSpuriousSwitch, TypeOK, SplitTypeOK
  <2>1. /\ wire \in Seq(Frame) /\ txq \in Seq(Frame) /\ mode \in BOOLEAN /\ want \in BOOLEAN
        /\ passthrough \in BOOLEAN /\ unspent \in Int
    BY QueueIsFrames DEF TypeOK, WireTypeOK, SenderTypeOK, IdentityTypeOK, SplitTypeOK
  <2>2. Due \in BOOLEAN /\ Ends \in BOOLEAN /\ TakenUp \in 0..2
    <3>1. TakenUp \in 0..2
      BY DEF TakenUp
    <3> QED
      BY <2>1, <3>1, Flags DEF Due, Ends
  <2>3. Differ(Ends, want) \in 0..1
    BY <2>1, <2>2, DifferTriangle
  <2>4. Left \in Int /\ Left <= unspent
    BY <2>1, <2>2, <2>3 DEF Left
  <2>5. 0 <= Left
    BY <2>1, <2>2, <2>4, OwedBound DEF SwitchInv
  <2> QED
    BY <2>1, <2>4, <2>5
<1> QED
  BY <1>1, <1>2, <1>3, TypeCorrect, PTL DEF Spec

===============================================================================
