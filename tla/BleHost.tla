------------------------------- MODULE BleHost -------------------------------
(***************************************************************************)
(* ble_hid_host.c: finding input devices, opening them, one at a time,     *)
(* and keeping the table of those that are open, with esp_hid (EspHidh)    *)
(* doing the opening.  Three tasks: hid_scan (scanPc), the opener, and the *)
(* NimBLE host task, which reports advertisements and disconnects.         *)
(*                                                                         *)
(* scanPc:  "reap" (slot is the place looked at), "check" for room,        *)
(*   "scan" waits for a round to end, "choose" walks the candidates,       *)
(*   "open" waits in open_device_guarded(), "result" has what it returned. *)
(* s_opening is TRUE exactly in "open".                                    *)
(*                                                                         *)
(* Not modelled: the interval requests, which change nothing here; the     *)
(* input reports; a late result of an open that was given up, since giving *)
(* up restarts the chip.                                                   *)
(***************************************************************************)
EXTENDS EspHidh

CONSTANTS
  Beacons,        \* other addresses on the air
  MaxDevices,     \* HID_HOST_MAX_DEVICES
  MaxCandidates,  \* CANDIDATES_MAX
  Wanted          \* the classes this chip serves

ASSUME BleHostAssumption ==
  /\ MaxDevices \in Nat \ {0} /\ MaxCandidates \in Nat \ {0}
  /\ Wanted \subseteq Classes
  /\ IsFiniteSet(Peers) /\ Beacons \cap (Peers \cup {none}) = {}

VARIABLES
  table,      \* s_devs
  dead,       \* s_dead
  cands,      \* s_cands, and those of them with a cooldown running
  cooling,
  discDone,   \* EV_DISC_DONE
  scanPc, slot,
  visited,    \* the candidates this walk has dealt with
  heard,      \* input devices heard in this round
  slow,       \* the peer may keep the open waiting for as long as its guard does
  closing,    \* links the chip has terminated
  \* history since the last restart
  early,      \* devices whose link was lost before they were registered
  lost,       \* devices s_dead had no place for
  disturbed   \* an open lost a link or was refused a procedure

tableVars == <<table, dead>>
candVars  == <<cands, cooling, discDone, visited, heard>>
history   == <<early, lost, disturbed>>
hostVars  == <<tableVars, candVars, scanPc, slot, closing, slow, history>>

vars == <<hidhVars, hostVars>>

Slots == 1..MaxDevices

HostInit ==
  /\ table = {} /\ dead = [s \in Slots |-> none]
  /\ cands = {} /\ cooling = {} /\ discDone = FALSE /\ visited = {} /\ heard = {}
  /\ scanPc = "reap" /\ slot = 1
  /\ closing = {} /\ slow = FALSE
  /\ early = {} /\ lost = {} /\ disturbed = FALSE

Init == HidhInit /\ HostInit

Room == Cardinality(table) < MaxDevices

---------------------------------------------------------------------------
(* Devices that are to be released. *)

\* Mutant: the device gets the first place whether or not it is free.
mark_first(p) == dead' = [dead EXCEPT ![1] = p] /\ UNCHANGED lost

\* The first free place; without one the device is forgotten.
device_mark_dead(p) ==
  \/ \E s \in Slots :
       /\ dead[s] = none /\ \A t \in 1..(s - 1) : dead[t] # none
       /\ dead' = [dead EXCEPT ![s] = p]
       /\ UNCHANGED lost
  \/ /\ \A s \in Slots : dead[s] # none
     /\ lost' = lost \cup {p}
     /\ UNCHANGED dead

\* One turn of the loop of reap_dead_devices().
reap_dead_devices ==
  /\ scanPc = "reap"
  /\ list' = list \ {dead[slot]}
  /\ conn' = conn \ {dead[slot]}
  /\ dead' = [dead EXCEPT ![slot] = none]
  /\ \/ slot < MaxDevices /\ slot' = slot + 1 /\ UNCHANGED scanPc
     \/ slot = MaxDevices /\ slot' = 1 /\ scanPc' = "check"
  /\ UNCHANGED <<nimbleVars, token, procFailed, openWaiting, openPc, target, mask, result,
                 drops, faults, table, candVars, closing, slow, history>>

---------------------------------------------------------------------------
(* hid_scan. *)

\* The table is full: look again later.
NothingToFind ==
  /\ scanPc = "check" /\ ~Room
  /\ scanPc' = "reap"
  /\ UNCHANGED <<hidhVars, tableVars, candVars, slot, closing, slow, history>>

\* The candidates are forgotten, except those with a cooldown.  The scan does
\* not start while a connection is being tried.
BeginRound ==
  /\ scanPc = "check" /\ Room
  /\ cands' = cands \cap cooling
  /\ heard' = {}
  /\ discDone' = FALSE
  /\ \/ /\ dialing = none
        /\ scanning' = TRUE
        /\ scanPc' = "scan"
     \/ /\ dialing # none
        /\ scanPc' = "reap"
        /\ UNCHANGED scanning
  /\ UNCHANGED <<link, dialing, torn, procs, openVars, drops, faults,
                 tableVars, cooling, visited, slot, closing, slow, history>>

EndRound ==
  /\ scanPc = "scan" /\ discDone
  /\ discDone' = FALSE
  /\ scanPc' = "choose"
  /\ UNCHANGED <<hidhVars, tableVars, cands, cooling, visited, heard, slot, closing, slow,
                 history>>

Choices == (cands \cap Peers) \ (visited \cup cooling \cup table)

\* The walk ends.  Candidates not heard for eight seconds are skipped: after an
\* open any may be, before it those that only a cooldown kept from an earlier round.
EndWalk ==
  /\ scanPc = "choose"
  /\ ~Room \/ Choices \cap heard = {} \/ visited # {}
  /\ scanPc' = "reap"
  /\ visited' = {}
  /\ UNCHANGED <<hidhVars, tableVars, cands, cooling, discDone, heard, slot, closing, slow,
                 history>>

candidate_set_cooldown(p) == cooling' = cooling \cup ({p} \cap cands)

\* open_device_guarded() creates the opener, or cannot.
Open(p) ==
  /\ scanPc = "choose" /\ Room
  /\ p \in Choices
  /\ visited' = visited \cup {p}
  /\ scanning' = FALSE
  /\ \/ /\ target' = p /\ openPc' = "start" /\ scanPc' = "open"
        /\ UNCHANGED <<faults, cooling>>
     \/ /\ Fault
        /\ candidate_set_cooldown(p)
        /\ UNCHANGED <<target, openPc, scanPc>>
  /\ UNCHANGED <<link, dialing, torn, procs, list, conn, token, procFailed,
                 openWaiting, mask, result, drops, tableVars, cands, discDone,
                 heard, slot, closing, slow, history>>

\* The opener delivers its result and is gone; hid_scan takes it.
OpenReturns ==
  /\ scanPc = "open" /\ openPc = "finished"
  /\ openPc' = "none"
  /\ scanPc' = "result"
  /\ slow' = FALSE
  /\ UNCHANGED <<nimbleVars, list, conn, token, procFailed, openWaiting, target,
                 mask, result, drops, faults, tableVars, candVars, slot, closing, history>>

Registrable == result # none /\ mask \cap Wanted # {}

\* The end of a turn of try_connect_candidates().
Register ==
  /\ scanPc = "result"
  /\ scanPc' = "choose"
  /\ \/ /\ result = none
        /\ candidate_set_cooldown(target)
        /\ UNCHANGED <<table, dead, lost, closing, disturbed>>
     \/ /\ result # none /\ mask = {}
        /\ device_mark_dead(target)
        /\ candidate_set_cooldown(target)
        /\ disturbed' = (disturbed \/ target \in link)
        /\ UNCHANGED <<table, closing>>
     \/ /\ result # none /\ mask # {} /\ ~Registrable
        /\ closing' = closing \cup ({target} \cap link)
        /\ device_mark_dead(target)
        /\ candidate_set_cooldown(target)
        /\ UNCHANGED <<table, disturbed>>
     \/ /\ Registrable
        /\ table' = table \cup {target}
        /\ UNCHANGED <<dead, lost, cooling, closing, disturbed>>
  /\ UNCHANGED <<hidhVars, cands, discDone, visited, heard, slot, slow, early>>

scan_task ==
  \/ reap_dead_devices \/ NothingToFind
  \/ BeginRound \/ EndRound \/ EndWalk
  \/ \E p \in Peers : Open(p)
  \/ OpenReturns \/ Register

---------------------------------------------------------------------------
(* The NimBLE host task. *)

FreeEntry == Cardinality(cands) < MaxCandidates

\* A new address gets a free entry, one that looks like an input device also
\* that of a beacon.
candidate_seen(p) ==
  \/ p \in cands /\ UNCHANGED cands
  \/ /\ p \notin cands /\ FreeEntry
     /\ cands' = cands \cup {p}
  \/ /\ p \notin cands /\ ~FreeEntry
     /\ IF p \in Peers /\ cands \cap Beacons # {}
          THEN \E b \in cands \cap Beacons : cands' = (cands \ {b}) \cup {p}
          ELSE UNCHANGED cands

\* An input device ends the round, and gives the event itself.
Advertisement(p) ==
  /\ torn = none
  /\ scanning
  /\ p \in (Peers \ link) \cup Beacons
  /\ candidate_seen(p)
  /\ heard' = heard \cup ({p} \cap Peers)
  /\ IF p \in Peers /\ scanPc # "open" /\ Room
       THEN scanning' = FALSE /\ discDone' = TRUE
       ELSE UNCHANGED <<scanning, discDone>>
  /\ UNCHANGED <<link, dialing, torn, procs, openVars, drops, faults,
                 tableVars, cooling, visited, scanPc, slot, closing, slow, history>>

ScanEnds ==
  /\ torn = none
  /\ scanning
  /\ scanning' = FALSE /\ discDone' = TRUE
  /\ UNCHANGED <<link, dialing, torn, procs, openVars, drops, faults,
                 tableVars, cands, cooling, visited, heard, scanPc, slot, closing, slow,
                 history>>

\* Mutant: the disconnect is not looked up in the table.
forget_only(p) == UNCHANGED <<tableVars, lost>>

\* gap_disconnect_listener(): the device leaves the table and is marked dead.
device_take_by_addr(p) ==
  IF p \in table
    THEN table' = table \ {p} /\ device_mark_dead(p)
    ELSE UNCHANGED <<tableVars, lost>>

OpenUnderWay == scanPc \in {"open", "result"}

Disconnect(p) ==
  /\ LinkLost(p)
  /\ \/ p \in closing /\ UNCHANGED drops
     \/ p \notin closing /\ drops < MaxDrops /\ drops' = drops + 1
  /\ closing' = closing \ {p}
  /\ device_take_by_addr(p)
  /\ early' = IF OpenUnderWay /\ target = p THEN early \cup {p} ELSE early
  /\ disturbed' = (disturbed \/ p \in early')
  /\ UNCHANGED <<dialing, scanning, list, conn, openWaiting, openPc, target, mask,
                 result, faults, candVars, scanPc, slot, slow>>

Opening == esp_hidh_dev_open /\ UNCHANGED hostVars

\* A peer that answers under an address nobody knows is connected in vain.
Answer ==
  /\ Connected
  /\ disturbed' = (disturbed \/ dialing \notin conn')
  /\ UNCHANGED <<tableVars, candVars, scanPc, slot, closing, slow, early, lost>>

NoAnswer == ConnectFailed /\ UNCHANGED hostVars

Procedure == (\E p \in Peers : ProcedureEnds(p)) /\ UNCHANGED hostVars

Refusal ==
  /\ \E p \in Peers : ProcedureRefused(p)
  /\ disturbed' = TRUE
  /\ UNCHANGED <<tableVars, candVars, scanPc, slot, closing, slow, early, lost>>

\* The peer answers late, or not at all, on a link that is alive: NimBLE waits
\* thirty seconds for an answer, the guard twenty-five for the whole open.
LateAnswer ==
  /\ scanPc = "open" /\ openPc \in {"discovering", "subscribing"}
  /\ procs[target] > 0
  /\ Fault
  /\ slow' = TRUE
  /\ UNCHANGED <<nimbleVars, openVars, drops, tableVars, candVars, scanPc, slot,
                 closing, history>>

Callback ==
  /\ DisconnectCallback
  /\ disturbed' = (disturbed \/ openWaiting)
  /\ UNCHANGED <<tableVars, candVars, scanPc, slot, closing, slow, early, lost>>

CooldownEnds(p) ==
  /\ p \in cooling
  /\ cooling' = cooling \ {p}
  /\ UNCHANGED <<hidhVars, tableVars, cands, discDone, visited, heard, scanPc, slot,
                 closing, slow, history>>

\* The open has not returned in time: nothing will wake the opener, or the peer
\* keeps it waiting, in which case the open may still return first.
GuardRunsOut ==
  scanPc = "open" /\ openPc # "finished" /\ (Stuck \/ slow)

\* The guard of an open gives up, or the opener's assertion fails.
MustRestart == AssertFails \/ GuardRunsOut

Restart ==
  /\ MustRestart
  /\ link' = {} /\ dialing' = none /\ scanning' = FALSE /\ torn' = none
  /\ procs' = [p \in Peers |-> 0]
  /\ list' = {} /\ conn' = {} /\ token' = FALSE /\ procFailed' = FALSE
  /\ openWaiting' = FALSE
  /\ openPc' = "none" /\ target' = none /\ mask' = {} /\ result' = none
  /\ table' = {} /\ dead' = [s \in Slots |-> none]
  /\ cands' = {} /\ cooling' = {} /\ discDone' = FALSE /\ visited' = {} /\ heard' = {}
  /\ scanPc' = "reap" /\ slot' = 1
  /\ closing' = {} /\ slow' = FALSE
  /\ early' = {} /\ lost' = {} /\ disturbed' = FALSE
  /\ UNCHANGED <<drops, faults>>

Next ==
  \/ scan_task \/ Opening
  \/ \E p \in Peers \cup Beacons : Advertisement(p)
  \/ ScanEnds
  \/ Answer \/ NoAnswer \/ Procedure \/ Refusal \/ LateAnswer
  \/ (\E p \in Peers : Disconnect(p)) \/ Callback
  \/ (\E p \in Peers : CooldownEnds(p))
  \/ Restart

Spec == Init /\ [][Next]_vars

\* Tasks run, the controller answers or times out, a scan ends, cooldowns end
\* and terminated links go down; a peer that advertises is heard now and again.
Fairness ==
  /\ WF_vars(scan_task) /\ WF_vars(Opening) /\ WF_vars(Restart)
  /\ WF_vars(Answer \/ NoAnswer) /\ WF_vars(Procedure \/ Refusal)
  /\ WF_vars(Callback) /\ WF_vars(ScanEnds)
  /\ \A p \in Peers :
       /\ SF_vars(Advertisement(p))
       /\ WF_vars(CooldownEnds(p))
       /\ WF_vars(p \in closing /\ Disconnect(p))

FairSpec == Spec /\ Fairness

---------------------------------------------------------------------------
(* Properties. *)

HostTypeOK ==
  /\ HidhTypeOK
  /\ table \subseteq Peers /\ Cardinality(table) <= MaxDevices
  /\ dead \in [Slots -> Peers \cup {none}]
  /\ cands \subseteq Peers \cup Beacons /\ Cardinality(cands) <= MaxCandidates
  /\ cooling \subseteq Peers /\ discDone \in BOOLEAN /\ visited \subseteq Peers
  /\ heard \subseteq Peers /\ slow \in BOOLEAN
  /\ scanPc \in {"reap", "check", "scan", "choose", "open", "result"}
  /\ slot \in Slots /\ closing \subseteq Peers
  /\ early \subseteq Peers /\ lost \subseteq Peers /\ disturbed \in BOOLEAN

\* The devices in the hands of the opener or of who waits for it.
InHand ==
  IF openPc \notin {"none", "start", "finished"} THEN {target}
  ELSE IF openPc = "finished" \/ scanPc = "result" THEN {result} \ {none}
  ELSE {}

DeadOnes == {dead[s] : s \in Slots} \ {none}

\* Nothing is freed twice or used after it was freed, and nothing leaks but
\* what s_dead had no place for: every device of the list has exactly one
\* owner, and what an owner holds is in the list.
OneOwner ==
  /\ list = table \cup DeadOnes \cup InHand \cup lost
  /\ table \cap (DeadOnes \cup InHand \cup lost) = {}
  /\ DeadOnes \cap (InHand \cup lost) = {}
  /\ InHand \cap lost = {}
  /\ \A s, t \in Slots : s # t /\ dead[s] # none => dead[s] # dead[t]

\* "The mouse falls asleep, closes the link, and the device table still holds
\* it": not if the link was lost after the device was registered.
TableIsConnected == table \subseteq link \cup early

\* The chip does not restart itself, and drop every device, for an ordinary
\* failure of an open: only if a link went down during the open, the peer answered
\* under an address nobody knows or refused a procedure, or a peer whose link is
\* alive kept the open waiting until its guard ran out (ble_hid_host.c:955 takes
\* that for a task "stuck inside IDF" too).
RestartsOnlyIfDisturbed == MustRestart => disturbed \/ slow

\* "The counter stays at 2/2, so the scanner stops looking and the mouse has no
\* way back": while fewer devices are connected than the table holds, a wanted
\* device that advertises is connected and registered in the end, unless an open
\* was disturbed or a record leaked.
ServedInTheEnd ==
  \A p \in {q \in Peers : Usage[q] \cap Wanted # {}} :
    []<>(\/ p \in table \cap link
         \/ Cardinality(table \cap link) >= MaxDevices
         \/ disturbed \/ lost # {})

===============================================================================
