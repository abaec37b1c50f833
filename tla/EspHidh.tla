------------------------------- MODULE EspHidh -------------------------------
(***************************************************************************)
(* The esp_hid component as the bridge carries it, with its patches:       *)
(* esp_hidh_dev_open() on NimBLE, the callback that follows a connection,  *)
(* and the list of devices.                                                *)
(*                                                                         *)
(* The opener runs in a task of its own and talks to the NimBLE host task  *)
(* through one binary semaphore: it starts a connection or a GATT          *)
(* procedure and waits (WAIT_CB); the callback gives (SEND_CB).            *)
(* openPc is where the opener is:                                          *)
(*   "none"         no open under way,                                     *)
(*   "start"        esp_hidh_dev_open() entered,                           *)
(*   "dialled"      ble_gap_connect() returned,                            *)
(*   "waiting"      s_open_waiting is set, in WAIT_CB,                     *)
(*   "woken"        WAIT_CB returned, s_open_waiting still set,            *)
(*   "discover", "discovering"    before and in the reading of services,   *)
(*   "subscribe", "subscribing"   before and in the write of a CCCD,       *)
(*   "finished"     the result is known.                                   *)
(* The dozens of procedures of an open are one reading and one write.      *)
(*                                                                         *)
(* esp_hidh_dev_open() refuses an address that is in the list, so there is *)
(* at most one device per address, and a device is named by its peer.      *)
(***************************************************************************)
EXTENDS Naturals, FiniteSets

CONSTANTS
  Peers,       \* the addresses of input devices
  none,
  Classes,     \* the usages a report map declares: keyboard, mouse
  Usage,       \* Usage[p]: the classes among the input reports of p
  MaxDrops,    \* bound on links lost
  MaxFaults    \* bound on other mishaps of an open

ASSUME EspHidhAssumption ==
  /\ none \notin Peers
  /\ Usage \in [Peers -> SUBSET Classes]
  /\ MaxDrops \in Nat /\ MaxFaults \in Nat

VARIABLES
  \* NimBLE
  link,         \* peers with a link
  dialing,      \* the peer ble_gap_connect() is trying
  scanning,     \* ble_gap_disc() is running
  torn,         \* a disconnect the listener has seen and the callback has not
  procs,        \* procs[p]: GATT procedures under way on the link to p
  \* the component
  list,         \* s_esp_hidh_devices
  conn,         \* the devices whose conn_id is not -1
  token,        \* s_ble_hidh_cb_semaphore can be taken
  procFailed,   \* status: what the last discovery ended with
  openWaiting,  \* s_open_waiting
  openPc, target,
  mask,         \* the usages in the reports the opener has read
  result,       \* what the open returned: a device, or none for NULL
  \* bounds
  drops, faults

nimbleVars == <<link, dialing, scanning, torn, procs>>
openVars   ==
  <<list, conn, token, procFailed, openWaiting, openPc, target, mask, result>>
hidhVars   == <<nimbleVars, openVars, drops, faults>>

HidhInit ==
  /\ link = {} /\ dialing = none /\ scanning = FALSE /\ torn = none
  /\ procs = [p \in Peers |-> 0]
  /\ list = {} /\ conn = {} /\ token = FALSE /\ procFailed = FALSE
  /\ openWaiting = FALSE
  /\ openPc = "none" /\ target = none /\ mask = {} /\ result = none
  /\ drops = 0 /\ faults = 0

Fault == faults < MaxFaults /\ faults' = faults + 1

---------------------------------------------------------------------------
(* The opener. *)

Finish(r) == openPc' = "finished" /\ result' = r

\* "Already Connected".
OpenRefused ==
  /\ openPc = "start"
  /\ target \in list
  /\ Finish(none)
  /\ UNCHANGED <<nimbleVars, list, conn, token, procFailed, openWaiting, target, mask, drops, faults>>

\* One attempt at a time, and none while scanning; the new device is freed.
ConnectRefused ==
  /\ openPc = "start"
  /\ target \notin list
  /\ dialing # none \/ scanning \/ target \in link
  /\ Finish(none)
  /\ UNCHANGED <<nimbleVars, list, conn, token, procFailed, openWaiting, target, mask, drops, faults>>

\* The device is in the list, with conn_id = -1, before the peer is dialled.
Connect ==
  /\ openPc = "start"
  /\ target \notin list
  /\ dialing = none /\ ~scanning /\ target \notin link
  /\ list' = list \cup {target}
  /\ dialing' = target
  /\ openPc' = "dialled"
  /\ UNCHANGED <<link, scanning, torn, procs, conn, token, procFailed,
                 openWaiting, target, mask, result, drops, faults>>

BeginWait ==
  /\ openPc = "dialled"
  /\ openWaiting' = TRUE
  /\ openPc' = "waiting"
  /\ UNCHANGED <<nimbleVars, list, conn, token, procFailed, target, mask, result, drops, faults>>

Wake ==
  /\ openPc = "waiting" /\ token
  /\ token' = FALSE
  /\ openPc' = "woken"
  /\ UNCHANGED <<nimbleVars, list, conn, procFailed, openWaiting, target, mask, result, drops, faults>>

\* Without a connection the device is freed.
Woken ==
  /\ openPc = "woken"
  /\ openWaiting' = FALSE
  /\ \/ /\ target \in conn
        /\ openPc' = "discover"
        /\ UNCHANGED <<list, result>>
     \/ /\ target \notin conn
        /\ list' = list \ {target}
        /\ Finish(none)
  /\ UNCHANGED <<nimbleVars, conn, token, procFailed, target, mask, drops, faults>>

\* A procedure on a lost link is refused at once, but waited for all the same.
BeginProcedure ==
  /\ \/ openPc = "discover" /\ openPc' = "discovering"
     \/ openPc = "subscribe" /\ openPc' = "subscribing"
  /\ procs' = [procs EXCEPT ![target] = @ + IF target \in link THEN 1 ELSE 0]
  /\ UNCHANGED <<link, dialing, scanning, torn, list, conn, token, procFailed,
                 openWaiting, target, mask, result, drops, faults>>

\* What the opener found; without reports there is nothing to subscribe to.
\* Woken too early, it finds nothing.
Discovered ==
  /\ openPc = "discovering" /\ token /\ ~procFailed
  /\ token' = FALSE
  /\ \/ /\ mask' = Usage[target]
        /\ openPc' = "subscribe"
        /\ UNCHANGED <<result, faults>>
     \/ /\ mask' = {}
        /\ Finish(target)
        /\ IF procs[target] = 0 THEN Fault ELSE UNCHANGED faults
  /\ UNCHANGED <<nimbleVars, list, conn, procFailed, openWaiting, target, drops>>

\* The status of the write is logged, not looked at.
Subscribed ==
  /\ openPc = "subscribing" /\ token
  /\ token' = FALSE
  /\ Finish(target)
  /\ UNCHANGED <<nimbleVars, list, conn, procFailed, openWaiting, target, mask, drops, faults>>

esp_hidh_dev_open ==
  \/ OpenRefused \/ ConnectRefused \/ Connect
  \/ BeginWait \/ Wake \/ Woken
  \/ BeginProcedure \/ Discovered \/ Subscribed

\* assert(status == 0) after a failed procedure of the discovery.
AssertFails == openPc = "discovering" /\ token /\ procFailed

\* The opener waits for a give that nothing under way will make.
Stuck ==
  /\ openPc \in {"waiting", "discovering", "subscribing"} /\ ~token
  /\ dialing = none /\ torn = none /\ \A p \in Peers : procs[p] = 0

---------------------------------------------------------------------------
(* The NimBLE host task, which finishes one event before the next. *)

\* The callback looks the device up by the address on air: that of the open,
\* unless the peer has taken a new one.
Connected ==
  /\ torn = none
  /\ dialing # none
  /\ dialing' = none
  /\ link' = link \cup {dialing}
  /\ token' = TRUE
  /\ \/ /\ dialing \in list
        /\ conn' = conn \cup {dialing}
        /\ UNCHANGED faults
     \/ /\ dialing \notin list
        /\ UNCHANGED <<conn, faults>>
     \/ /\ Fault
        /\ UNCHANGED conn
  /\ UNCHANGED <<scanning, torn, procs, list, procFailed, openWaiting, openPc,
                 target, mask, result, drops>>

\* Mutant: a failed connection does not wake the opener.
silent_failure == token

AfterFailure == TRUE

\* No answer within six seconds.
ConnectFailed ==
  /\ torn = none
  /\ dialing # none
  /\ dialing' = none
  /\ token' = AfterFailure
  /\ Fault
  /\ UNCHANGED <<link, scanning, torn, procs, list, conn, procFailed,
                 openWaiting, openPc, target, mask, result, drops>>

ProcedureEnds(p) ==
  /\ torn = none
  /\ procs[p] > 0
  /\ procs' = [procs EXCEPT ![p] = @ - 1]
  /\ procFailed' = FALSE
  /\ token' = TRUE
  /\ UNCHANGED <<link, dialing, scanning, torn, list, conn, openWaiting, openPc,
                 target, mask, result, drops, faults>>

\* nimble_on_read() gives nothing for a read that fails.
FailedProcedure ==
  \/ /\ token' = TRUE
     /\ procFailed' = (procFailed \/ openPc = "discovering")
  \/ /\ openPc = "discovering"
     /\ UNCHANGED <<token, procFailed>>

\* The peer answers with an error.
ProcedureRefused(p) ==
  /\ torn = none
  /\ procs[p] > 0
  /\ procs' = [procs EXCEPT ![p] = @ - 1]
  /\ FailedProcedure
  /\ Fault
  /\ UNCHANGED <<link, dialing, scanning, torn, list, conn, openWaiting, openPc,
                 target, mask, result, drops>>

\* A link is lost: first the procedures on it end with an error, then the
\* listeners hear of it, then the callback of the connection.
LinkLost(p) ==
  /\ torn = none
  /\ p \in link
  /\ link' = link \ {p}
  /\ torn' = p
  /\ procs' = [procs EXCEPT ![p] = 0]
  /\ IF procs[p] > 0 THEN FailedProcedure ELSE UNCHANGED <<token, procFailed>>

\* Who waits for an open is woken by any disconnect.
WakeOpener == token \/ openWaiting

\* The callback: conn_id is cleared.
DisconnectCallback ==
  /\ torn # none
  /\ conn' = conn \ {torn}
  /\ torn' = none
  /\ token' = WakeOpener
  /\ UNCHANGED <<link, dialing, scanning, procs, list, procFailed, openWaiting,
                 openPc, target, mask, result, drops, faults>>

HidhTypeOK ==
  /\ link \subseteq Peers /\ conn \subseteq Peers /\ list \subseteq Peers
  /\ {dialing, torn, target, result} \subseteq Peers \cup {none}
  /\ procs \in [Peers -> 0..2]
  /\ {scanning, procFailed, token, openWaiting} \subseteq BOOLEAN
  /\ mask \in SUBSET Classes
  /\ openPc \in {"none", "start", "dialled", "waiting", "woken", "discover",
                 "discovering", "subscribe", "subscribing", "finished"}
  /\ drops \in 0..MaxDrops /\ faults \in 0..MaxFaults

===============================================================================
