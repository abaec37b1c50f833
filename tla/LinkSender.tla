------------------------------ MODULE LinkSender ------------------------------
(***************************************************************************)
(* The sending half of chip_link.c, on the chip with the keyboard and the  *)
(* mouse.  Driver callbacks post events to a bounded queue and never wait; *)
(* sender_task drains it onto the UART, one event per turn of its loop,    *)
(* and at most once per keepalive period adds the presence mask and then   *)
(* the mode, each read at that moment.                                     *)
(*                                                                         *)
(* The queue and the task come into being in chip_link_start(); until then *)
(* txpc is "off".  The task's loop has three points where a callback may   *)
(* run in between:                                                         *)
(*   "wait"   in xQueueReceive(),                                          *)
(*   "check"  an event was written (or none came), the deadline is tested, *)
(*   "mode"   the keepalive is out, the mode frame is not.                 *)
(***************************************************************************)
EXTENDS LinkWire

CONSTANT QueueMax   \* slots of s_tx_queue, 16 in the code

ASSUME QueueAssumption == QueueMax \in Nat \ {0}

VARIABLES
  txq,        \* s_tx_queue
  presence,   \* s_presence, as a set of classes
  mode,       \* s_mode: TRUE is passthrough
  txpc,       \* where sender_task is in its loop
  kaDue       \* a keepalive period has passed since last_keepalive_us

senderVars == <<txq, presence, mode, txpc, kaDue>>

SenderInit ==
  /\ txq = <<>>
  /\ presence = {}
  /\ mode = FALSE
  /\ txpc = "off"
  /\ kaDue = FALSE

SenderTypeOK ==
  /\ txq \in Seq(Event) /\ Len(txq) <= QueueMax
  /\ presence \subseteq Classes /\ mode \in BOOLEAN
  /\ txpc \in {"off", "wait", "check", "mode"} /\ kaDue \in BOOLEAN

\* Mutant: xQueueSendToFront().
PostAtFront(e) ==
  txq' = IF Len(txq) < QueueMax THEN <<e>> \o txq ELSE txq

\* Mutant: one slot short.
PostOneSlotShort(e) ==
  txq' = IF Len(txq) + 1 < QueueMax THEN Append(txq, e) ELSE txq

\* xQueueSend() with no timeout: a full queue drops the newest event.  So does
\* one that is not there yet: the USB host starts before the link.
Post(e) ==
  txq' = IF txpc # "off" /\ Len(txq) < QueueMax THEN Append(txq, e) ELSE txq

chip_link_send_keyboard(keys) ==
  Post([type |-> "keyboard", keys |-> keys])

chip_link_send_mouse(buttons, delta) ==
  Post([type |-> "mouse", buttons |-> buttons, delta |-> delta])

\* The mode is set first; the event only makes the switch prompt.
chip_link_set_mode(passthrough) ==
  /\ mode' = passthrough
  /\ Post([type |-> "mode", passthrough |-> passthrough])

chip_link_set_presence(classes) == presence' = classes

\* The queue is created and the task started.
chip_link_start ==
  /\ txpc = "off"
  /\ txpc' = "wait"
  /\ UNCHANGED <<txq, presence, mode, kaDue, wireVars>>

\* An event was waiting: one frame goes out.
SendEvent ==
  /\ txpc = "wait"
  /\ txq # <<>>
  /\ frame_send(Head(txq))
  /\ txq' = Tail(txq)
  /\ txpc' = "check"
  /\ UNCHANGED <<presence, mode, kaDue, losses>>

\* xQueueReceive() timed out: the wait is one keepalive period long.
ReceiveTimeout ==
  /\ txpc = "wait"
  /\ txq = <<>>
  /\ kaDue
  /\ txpc' = "check"
  /\ UNCHANGED <<txq, presence, mode, kaDue, wireVars>>

\* The deadline has not come: back to the queue.
NotDueYet ==
  /\ txpc = "check"
  /\ ~kaDue
  /\ txpc' = "wait"
  /\ UNCHANGED <<txq, presence, mode, kaDue, wireVars>>

\* s_presence is read now, whatever is still in the queue.
SendKeepalive ==
  /\ txpc = "check"
  /\ kaDue
  /\ frame_send([type |-> "keepalive", present |-> presence])
  /\ kaDue' = FALSE
  /\ txpc' = "mode"
  /\ UNCHANGED <<txq, presence, mode, losses>>

\* Mutant: the keepalive does not repeat the mode.
SkipMode ==
  /\ txpc = "mode"
  /\ txpc' = "wait"
  /\ UNCHANGED <<txq, presence, mode, kaDue, wireVars>>

\* s_mode is read now.
SendMode ==
  /\ txpc = "mode"
  /\ frame_send([type |-> "mode", passthrough |-> mode])
  /\ txpc' = "wait"
  /\ UNCHANGED <<txq, presence, mode, kaDue, losses>>

sender_task ==
  \/ SendEvent
  \/ ReceiveTimeout
  \/ NotDueYet
  \/ SendKeepalive
  \/ SendMode

===============================================================================
