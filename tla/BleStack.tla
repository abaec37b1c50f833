-------------------------------- MODULE BleStack --------------------------------
(***************************************************************************)
(* Bring-up of the board with both BLE roles, as app_main() does it, and   *)
(* how the rest of the program learns that the NimBLE host has synced with *)
(* the controller: a callback in ble_hs_cfg sets EV_SYNCED.  Two parts of  *)
(* the program install that callback.                                      *)
(***************************************************************************)
EXTENDS Naturals, Sequences

CONSTANT MaxResets    \* bound on resets of the NimBLE host

ASSUME BleStackAssumption == MaxResets \in Nat

VARIABLES
  boot,       \* steps of the bring-up done
  sync_cb,    \* ble_hs_cfg.sync_cb: "none", "esp_hidh" or "bridge"
  synced,     \* the NimBLE host has synced with the controller
  EV_SYNCED,  \* the event the tasks wait for
  resets

stackVars == <<boot, sync_cb, synced, EV_SYNCED, resets>>

\* Mutant: the stack comes up with the other BLE start-up, before the roles.
BringUpStackFirst == <<"ble_stack_init", "ble_stack_start", "ble_hid_host_start",
                       "ble_gamepad_start", "input_mapper_start">>

\* app_main(); the roles' tasks are created by their starts.
BringUp == <<"ble_stack_init", "ble_hid_host_start", "ble_gamepad_start",
             "input_mapper_start", "ble_stack_start">>

Started(step) == \E i \in 1..boot : BringUp[i] = step

StackInit ==
  /\ boot = 0 /\ sync_cb = "none" /\ synced = FALSE /\ EV_SYNCED = FALSE /\ resets = 0

\* ble_hid_host_start() calls esp_hidh_init(), which takes the callback;
\* ble_stack_start() takes it back before it starts the host task.
InstalledBy(step, cb) ==
  CASE step = "ble_hid_host_start" -> "esp_hidh"
    [] step = "ble_stack_start"    -> "bridge"
    [] OTHER                       -> cb

\* A step that fails restarts the chip, and the bring-up with it.
BootStep ==
  /\ boot < Len(BringUp)
  /\ boot' = boot + 1
  /\ sync_cb' = InstalledBy(BringUp[boot + 1], sync_cb)
  /\ UNCHANGED <<synced, EV_SYNCED, resets>>

\* The host task syncs, and tells whoever is installed.
Sync ==
  /\ Started("ble_stack_start") /\ ~synced
  /\ synced' = TRUE
  /\ EV_SYNCED' = (EV_SYNCED \/ sync_cb = "bridge")
  /\ UNCHANGED <<boot, sync_cb, resets>>

\* on_reset() only logs; the event stays set.
HostReset ==
  /\ synced /\ resets < MaxResets
  /\ synced' = FALSE
  /\ resets' = resets + 1
  /\ UNCHANGED <<boot, sync_cb, EV_SYNCED>>

(* esp_hidh_init() leaves its own empty callback behind (ble_stack.c:141); *)
(* all the same the tasks that wait for the stack hear of it.              *)
TasksHearOfSync == Started("ble_stack_start") ~> EV_SYNCED
================================================================================
