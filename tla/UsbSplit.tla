------------------------------- MODULE UsbSplit -------------------------------
(***************************************************************************)
(* The USB split bridge: the input chip (UsbHidHost, LinkSender), the UART *)
(* (LinkWire) and the pad chip (LinkReceiver, UsbIdentity, and the tick of *)
(* mapper_task that takes the accumulator and applies the mode).  The      *)
(* report path behind the tick is module UsbPad.                           *)
(*                                                                         *)
(* Either chip may lose power or crash at any moment and start again: its  *)
(* RAM goes back to the initial values, the other chip's stays.            *)
(***************************************************************************)
EXTENDS UsbHidHost, LinkReceiver, Integers

CONSTANTS
  MaxCrashes,   \* bound on the resets of both chips together
  MaxBeats,     \* bound on the heartbeats of the pad chip
  Prompt        \* TRUE: no task is starved for a whole keepalive period

ASSUME SplitAssumption ==
  MaxCrashes \in Nat /\ MaxBeats \in Nat /\ Prompt \in BOOLEAN

VARIABLES
  up,           \* the input chip is running
  crashes,      \* resets so far
  beats,        \* heartbeats so far
  delivered,    \* deltas the mapper has taken
  logged,       \* deltas the heartbeat has taken for its log line
  unspent       \* changes of the mode less changes of the USB identity

historyVars == <<delivered, logged, unspent>>

vars == <<hostVars, worldVars, senderVars, wireVars, receiverVars,
          identityVars, up, crashes, beats, historyVars>>

Init ==
  /\ HostInit /\ WorldInit /\ SenderInit /\ WireInit
  /\ ReceiverInit /\ IdentityInit
  /\ up = TRUE
  /\ crashes = 0
  /\ beats = 0
  /\ delivered = {} /\ logged = {} /\ unspent = 0

\* The mode changes are counted up, the re-enumerations down.
Count ==
  unspent' = unspent + (IF mode' # mode THEN 1 ELSE 0)
                     - (IF passthrough' # passthrough THEN 1 ELSE 0)

---------------------------------------------------------------------------
(* The input chip. *)

\* A device takes longer to enumerate than the boot takes from the USB host to
\* the link, unless the main task is starved.
HidCallback ==
  /\ up
  /\ Prompt => txpc # "off"
  /\ hid_callbacks
  /\ UNCHANGED <<wireVars, receiverVars, identityVars, up, crashes, beats,
                 delivered, logged>>
  /\ Count

\* app_main starts the link, and then its task runs.
SenderTask ==
  /\ up
  /\ chip_link_start \/ sender_task
  /\ UNCHANGED <<hostVars, worldVars, receiverVars, identityVars, up, crashes,
                 beats, historyVars>>

\* app_main's heartbeat takes the local state; nothing else ever reads it.
InputHeartbeat ==
  /\ up
  /\ local.motion # {}
  /\ local' = input_state_take(local)
  /\ UNCHANGED <<running, tracked, wasDown, worldVars, senderVars, wireVars,
                 receiverVars, identityVars, up, crashes, beats, historyVars>>

\* The input chip goes down with everything it knew.
InputChipDown ==
  /\ up
  /\ crashes < MaxCrashes
  /\ crashes' = crashes + 1
  /\ up' = FALSE
  /\ running' = {} /\ tracked' = {} /\ wasDown' = FALSE
  /\ local' = s_state_initial
  /\ held' = [d \in Devices |-> Released] /\ interrupted' = {}
  /\ txq' = <<>> /\ presence' = {} /\ mode' = FALSE
  /\ txpc' = "off" /\ kaDue' = FALSE
  /\ UNCHANGED <<reports, issued, plugs, unplugs, presses, wireVars,
                 receiverVars, identityVars, beats, delivered, logged>>
  /\ Count

InputChipBoots ==
  /\ ~up
  /\ up' = TRUE
  /\ UNCHANGED <<hostVars, worldVars, senderVars, wireVars, receiverVars,
                 identityVars, crashes, beats, historyVars>>

---------------------------------------------------------------------------
(* The pad chip. *)

ReceiverTask ==
  /\ receiver_task
  /\ UNCHANGED <<hostVars, worldVars, senderVars, up, crashes, beats,
                 historyVars>>

\* One tick of mapper_task: take the state, then look at the mode.
MapperTick ==
  /\ pad' = input_state_take(pad)
  /\ delivered' = delivered \cup pad.motion
  /\ ModeInForce \/ BeginSwitch
  /\ UNCHANGED <<hostVars, worldVars, senderVars, wireVars, peerPresent, alive,
                 silent, up, crashes, beats, logged, unspent>>

\* The same tick goes on into the USB stack, and is back from it.
MapperSwitches ==
  /\ ReadTarget \/ EndSwitch
  /\ UNCHANGED <<hostVars, worldVars, senderVars, wireVars, receiverVars, up,
                 crashes, beats, delivered, logged>>
  /\ Count

\* app_main's heartbeat takes the shared state for its log line.
PadHeartbeat ==
  /\ beats < MaxBeats
  /\ beats' = beats + 1
  /\ pad' = input_state_take(pad)
  /\ logged' = logged \cup pad.motion
  /\ UNCHANGED <<hostVars, worldVars, senderVars, wireVars, identityVars,
                 peerPresent, alive, silent, up, crashes, delivered, unspent>>

\* The pad chip restarts as the pad; bytes arriving meanwhile are lost.
PadChipRestarts ==
  /\ crashes < MaxCrashes
  /\ crashes' = crashes + 1
  /\ wire' = <<>>
  /\ pad' = s_state_initial
  /\ peerPresent' = {} /\ alive' = FALSE /\ silent' = PeerTimeout
  /\ want' = FALSE /\ passthrough' = FALSE /\ target' = "none"
  /\ identity' = "pad"
  /\ unspent' = unspent + 1   \* one re-enumeration to come back to the mode
  /\ UNCHANGED <<hostVars, worldVars, senderVars, losses, usbFaults, up, beats,
                 delivered, logged>>

---------------------------------------------------------------------------
(* The rest of the world. *)

Noise ==
  /\ LoseFrame
  /\ UNCHANGED <<hostVars, worldVars, senderVars, receiverVars, identityVars,
                 up, crashes, beats, historyVars>>

\* Every task has done what was due.
Settled ==
  /\ up => ~kaDue /\ txpc = "wait" /\ txq = <<>>
  /\ wire = <<>>
  /\ ~(alive /\ silent = PeerTimeout)

\* A keepalive period goes by.
Tick ==
  /\ Prompt => Settled
  /\ kaDue' = up
  /\ silent' = IF silent < PeerTimeout THEN silent + 1 ELSE silent
  /\ UNCHANGED <<hostVars, worldVars, txq, presence, mode, txpc, wireVars, pad,
                 peerPresent, alive, identityVars, up, crashes, beats,
                 historyVars>>

Next ==
  \/ HidCallback \/ SenderTask \/ InputHeartbeat
  \/ InputChipDown \/ InputChipBoots
  \/ ReceiverTask \/ MapperTick \/ MapperSwitches
  \/ PadHeartbeat \/ PadChipRestarts
  \/ Noise \/ Tick

Spec == Init /\ [][Next]_vars

\* Every task runs; nobody need touch a device, and nothing need fail.
Fairness ==
  /\ WF_vars(SenderTask)
  /\ WF_vars(ReceiverTask)
  /\ WF_vars(MapperTick \/ MapperSwitches)
  /\ WF_vars(Tick)

FairSpec == Spec /\ Fairness

---------------------------------------------------------------------------
(* Types. *)

\* The counters and histories of this module have their types.
SplitTypeOK ==
  /\ up \in BOOLEAN /\ crashes \in Nat /\ beats \in Nat
  /\ delivered \subseteq Nat /\ logged \subseteq Nat
  /\ unspent \in Int

\* Every variable of the two chips, of the wire and of the history has its
\* type; above all neither queue ever exceeds its buffer, and no interface
\* keeps its slot in s_ifaces after it is gone.
TypeOK ==
  /\ HostTypeOK /\ WorldTypeOK /\ SenderTypeOK /\ WireTypeOK
  /\ ReceiverTypeOK /\ IdentityTypeOK /\ SplitTypeOK

---------------------------------------------------------------------------
(* Motion. *)

\* What has reached the pad chip's accumulator and is still there or was taken,
\* by the mapper or for a log line.
Arrived == delivered \cup logged \cup pad.motion

\* The reports in a queue carry motion in the order the mouse made it.
Ordered(q) ==
  \A i, j \in DOMAIN q :
    i < j /\ Carries(q[i]) /\ Carries(q[j]) => q[i].delta < q[j].delta

Before(A, B) == \A a \in A : \A b \in B : a < b

\* Motion keeps its order from the mouse to the pad: what has arrived is older
\* than everything on the wire, that is older than everything in the queue, and
\* what was taken is older than what was not.
\* This is what xQueueSend, sender_task and receiver_task together owe.
MotionInOrder ==
  /\ Ordered(txq) /\ Ordered(wire)
  /\ Before(Arrived, MotionIn(wire) \cup MotionIn(txq))
  /\ Before(MotionIn(wire), MotionIn(txq))
  /\ Before(delivered \cup logged, pad.motion)

\* No delta ends up in more than one gamepad report: none is in two places, and
\* none is anywhere that no mouse reported, whatever is lost, unplugged or reset
\* on the way.
NeverTwice ==
  /\ delivered \cap logged = {}
  /\ pad.motion \cap (delivered \cup logged) = {}
  /\ MotionIn(wire) \cap (Arrived \cup MotionIn(txq)) = {}
  /\ MotionIn(txq) \cap Arrived = {}
  /\ Arrived \cup MotionIn(wire) \cup MotionIn(txq) \subseteq issued

\* The motion that no gamepad report has and none will get, what the heartbeat
\* took for its log line included.
Lost == issued \ (delivered \cup pad.motion \cup MotionIn(wire) \cup MotionIn(txq))

\* From the mouse to the mapper the bridge is a channel for motion: whatever is
\* lost on the way stays lost, and what the mapper takes is newer than all that
\* it took before.
Channel == INSTANCE MotionChannel WITH taken <- delivered, lost <- Lost

ImplementsChannel == Channel!Spec

\* Every delta is on its way, was taken by the mapper, or was lost to one of six
\* causes: a full queue or none yet, a frame destroyed, a restart, a mouse
\* declared gone on the pad chip, or the heartbeat of the pad chip.  No other step
\* drops motion.  That the heartbeat does, for its log line, is against
\* input_state.h:44: "every delta ends up in exactly one gamepad report".
NothingVanishes ==
  [][Lost' # Lost =>
       \/ beats' # beats \/ losses' # losses \/ crashes' # crashes
       \/ txpc = "off" \/ Len(txq) = QueueMax
       \/ pad.mouse /\ ~pad'.mouse]_vars

---------------------------------------------------------------------------
(* Held keys and buttons. *)

\* What a record holds for a class.
Holds(s, class) ==
  IF class = "keyboard" THEN s.keys # Released ELSE s.buttons # Released

\* usb_hid_host.c:241: when the last interface of a class is gone, the input
\* chip holds nothing of it, also when the table was full and some interface
\* was never tracked.
GoneClassIsReleased ==
  \A c \in Classes : OfClass(running, c) = {} => ~Holds(local, c)

\* Nothing is under way.
Drained == txq = <<>> /\ wire = <<>>

\* Nothing was lost, unplugged or reset, nor dropped by the queue.
Undisturbed ==
  losses = 0 /\ crashes = 0 /\ unplugs = 0 /\ reports <= QueueMax

\* Until something is lost, dropped, unplugged or reset, the pad chip holds
\* exactly what the input chip holds once the queue and the wire are empty.
DrainedInSync ==
  Undisturbed /\ Drained => pad.keys = local.keys /\ pad.buttons = local.buttons

\* chip_link.h: "so the host learns about a device going away even if it was
\* idle at the time".  When the pad chip knew of the class and none of its
\* reports is under way, the class is released on the pad chip, or served
\* again, whatever is lost or reset meanwhile.
Announced(c) ==
  /\ c \in peerPresent /\ OfClass(running, c) = {}
  /\ \A i \in DOMAIN txq : txq[i].type # c
  /\ \A i \in DOMAIN wire : wire[i].type # c

IdleUnplugIsNoticed ==
  \A c \in Classes :
    Announced(c) ~> (~Holds(pad, c) \/ OfClass(running, c) # {})

\* The watchdog: when the input chip stays down, the pad chip lets go of
\* everything and holds nothing from then on.
DeadPeerIsReleased ==
  <>[]~up => <>[](\A c \in Classes : ~Holds(pad, c))

\* A peer that is up is never taken for dead: a keepalive is never as late as
\* the peer timeout while no frame is lost, no chip resets and no task is starved.
LivePeerIsNeverSilent ==
  losses = 0 /\ crashes = 0 /\ up /\ alive => silent < PeerTimeout

---------------------------------------------------------------------------
(* The hotkey and the mode. *)

\* usb_hid_host.c:122: "A held combination must not toggle repeatedly".  The mode
\* changes only with a report in which some keyboard completes the combination
\* (or with a reset of the chip), or, against that comment, repeats it for the
\* first time after a report without it, a rollover or one of another keyboard,
\* came in between.  With any keyboards and rollovers, a hold that nothing
\* interrupts toggles once.
ToggleNeedsPress ==
  [][mode' # mode /\ up' =>
       \E d \in Keyboards :
         held'[d] = Combo /\ (held[d] # Combo \/ d \in interrupted \ interrupted')]_vars

\* chip_link.h: the mode is absolute, so a lost frame or a reset of either chip
\* "corrects itself": once the input chip stays up, the two agree for good,
\* unless two installs in a row have left the pad chip without an identity.
ModeAgreement ==
  <>[]up /\ <>[](identity # "none") => <>[](want = mode /\ passthrough = mode)

\* The identity changes no more often than the mode did, plus once per restart
\* of the pad chip: neither the repetition in the keepalive nor a stale event
\* behind it re-enumerates USB when nobody asked.
NoSpuriousSwitch == unspent >= 0

\* The mapper builds its reports for the identity that is on the bus: a switch
\* that fails half way never leaves it feeding the other one.
ReportsFitIdentity == identity # "none" => identity = IdentityOf(passthrough)

===============================================================================
