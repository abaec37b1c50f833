---------------------------- MODULE BleHostProofs ----------------------------
(***************************************************************************)
(* Theorems about the ownership of device records and about the table of   *)
(* open devices, for any devices, any sizes and any bounds on faults.      *)
(***************************************************************************)
EXTENDS BleHost, TLAPS

---------------------------------------------------------------------------
(* The inductive invariant. *)

OwnTypes ==
  /\ link \subseteq Peers /\ conn \subseteq Peers /\ list \subseteq Peers
  /\ table \subseteq Peers /\ lost \subseteq Peers
  /\ dialing \in Peers \cup {none} /\ torn \in Peers \cup {none}
  /\ dead \in [Slots -> Peers \cup {none}] /\ slot \in Slots

\* Where the opener is fits where hid_scan is.
Phases ==
  /\ (openPc # "none") <=> (scanPc = "open")
  /\ openPc # "none" \/ scanPc = "result" => target \in Peers
  /\ openPc = "finished" \/ scanPc = "result" => result \in {none, target}

\* A device whose conn_id is set has a link, or one whose end the callback has
\* yet to hear of; a device that got past the connection has a link, or lost it
\* during the open.
Serving ==
  \/ openPc \in {"discover", "discovering", "subscribe", "subscribing"}
  \/ (openPc = "finished" \/ scanPc = "result") /\ result # none

Connections ==
  /\ conn \subseteq list
  /\ conn \subseteq link \cup {torn}
  /\ openPc \in {"dialled", "waiting", "woken"} /\ torn = target /\ torn \in conn
       => torn \in early
  /\ Serving => target \in link \cup early

HostInv == OwnTypes /\ Phases /\ Connections /\ OneOwner /\ TableIsConnected

ownVars ==
  <<link, conn, list, table, lost, torn, dead, slot, openPc, scanPc, target,
    result, early>>

Distinct == \A s, t \in Slots : s # t /\ dead[s] # none => dead[s] # dead[t]

---------------------------------------------------------------------------
(* Dead devices. *)

\* A device that is marked dead is in s_dead afterwards, or forgotten.
LEMMA MarkDead ==
  ASSUME NEW p \in Peers, dead \in [Slots -> Peers \cup {none}], Distinct,
         p \notin DeadOnes, device_mark_dead(p)
  PROVE  /\ dead' \in [Slots -> Peers \cup {none}]
         /\ Distinct'
         /\ \/ DeadOnes' = DeadOnes \cup {p} /\ lost' = lost
            \/ DeadOnes' = DeadOnes /\ lost' = lost \cup {p}
<1>1. CASE \A s \in Slots : dead[s] # none
  BY <1>1 DEF device_mark_dead, Distinct, DeadOnes
<1>2. ASSUME NEW s \in Slots, dead[s] = none, dead' = [dead EXCEPT ![s] = p],
             lost' = lost
      PROVE  /\ dead' \in [Slots -> Peers \cup {none}]
             /\ Distinct'
             /\ DeadOnes' = DeadOnes \cup {p}
  <2>1. dead' \in [Slots -> Peers \cup {none}] /\ dead'[s] = p
    BY <1>2
  <2>2. \A t \in Slots : t # s => dead'[t] = dead[t]
    BY <1>2
  <2>3. p # none
    BY EspHidhAssumption
  <2>4. Distinct'
    <3> SUFFICES ASSUME NEW t \in Slots, NEW u \in Slots, t # u, dead'[t] # none
                 PROVE  dead'[t] # dead'[u]
      BY DEF Distinct, Slots
    <3> QED
      BY <2>1, <2>2, <1>2 DEF Distinct, DeadOnes
  <2>5. DeadOnes' = DeadOnes \cup {p}
    BY <2>1, <2>2, <2>3, <1>2 DEF DeadOnes, Slots
  <2> QED
    BY <2>1, <2>4, <2>5
<1> QED
  BY <1>1, <1>2 DEF device_mark_dead

\* A place that is emptied releases exactly its device.
LEMMA EmptySlot ==
  ASSUME NEW s \in Slots, dead \in [Slots -> Peers \cup {none}], Distinct,
         dead' = [dead EXCEPT ![s] = none]
  PROVE  /\ dead' \in [Slots -> Peers \cup {none}]
         /\ Distinct'
         /\ DeadOnes' = DeadOnes \ {dead[s]}
<1>1. dead' \in [Slots -> Peers \cup {none}] /\ dead'[s] = none
  OBVIOUS
<1>2. \A t \in Slots : t # s => dead'[t] = dead[t]
  OBVIOUS
<1>3. Distinct'
  <2> SUFFICES ASSUME NEW t \in Slots, NEW u \in Slots, t # u, dead'[t] # none
               PROVE  dead'[t] # dead'[u]
    BY DEF Distinct, Slots
  <2> QED
    BY <1>1, <1>2 DEF Distinct
<1>4. DeadOnes' = DeadOnes \ {dead[s]}
  BY <1>1, <1>2 DEF DeadOnes, Distinct, Slots
<1> QED
  BY <1>1, <1>3, <1>4

LEMMA OwnersDistinct == OneOwner <=> /\ Distinct
                                     /\ list = table \cup DeadOnes \cup InHand \cup lost
                                     /\ table \cap (DeadOnes \cup InHand \cup lost) = {}
                                     /\ DeadOnes \cap (InHand \cup lost) = {}
                                     /\ InHand \cap lost = {}
  BY DEF OneOwner, Distinct

LEMMA HostInvInit == Init => HostInv
<1> SUFFICES ASSUME Init PROVE HostInv
  OBVIOUS
<1> USE EspHidhAssumption, BleHostAssumption DEF Init, HidhInit, HostInit
<1>1. OwnTypes
  BY DEF OwnTypes, Slots
<1>2. Phases /\ Connections /\ TableIsConnected
  BY DEF Phases, Connections, Serving, TableIsConnected
<1>3. OneOwner
  BY DEF OneOwner, DeadOnes, InHand, Slots
<1> QED
  BY <1>1, <1>2, <1>3 DEF HostInv

\* A step that leaves these variables alone keeps the invariant.
LEMMA OwnUnchanged ==
  ASSUME HostInv, UNCHANGED ownVars, dialing' \in {dialing, none}
  PROVE  HostInv'
<1> USE DEF HostInv, ownVars
<1>1. OwnTypes'
  BY DEF OwnTypes
<1>2. Phases' /\ Connections' /\ TableIsConnected'
  BY DEF Phases, Connections, Serving, TableIsConnected
<1>3. OneOwner'
  BY DEF OneOwner, DeadOnes, InHand
<1> QED
  BY <1>1, <1>2, <1>3

---------------------------------------------------------------------------
(* The opener. *)

LEMMA OpeningSteps ==
  ASSUME HostInv, Opening
  PROVE  HostInv'
<1> USE EspHidhAssumption DEF HostInv, Opening, hostVars, tableVars, history, nimbleVars
<1>1. CASE OpenRefused \/ ConnectRefused
  <2>1. OwnTypes'
    BY <1>1 DEF OpenRefused, ConnectRefused, Finish, OwnTypes
  <2>2. Phases' /\ Connections' /\ TableIsConnected'
    BY <1>1 DEF OpenRefused, ConnectRefused, Finish, Phases, Connections, Serving, TableIsConnected
  <2>3. OneOwner'
    BY <1>1 DEF OpenRefused, ConnectRefused, Finish, OneOwner, DeadOnes, InHand, Phases
  <2> QED
    BY <2>1, <2>2, <2>3
<1>2. CASE Connect
  <2>1. target \in Peers /\ target \notin conn
    BY <1>2 DEF Connect, Phases, Connections
  <2>2. OwnTypes'
    BY <1>2, <2>1 DEF Connect, OwnTypes
  <2>3. Phases' /\ Connections' /\ TableIsConnected'
    BY <1>2, <2>1 DEF Connect, Phases, Connections, Serving, TableIsConnected
  <2>4. OneOwner'
    BY <1>2, <2>1 DEF Connect, OneOwner, DeadOnes, InHand, Phases
  <2> QED
    BY <2>2, <2>3, <2>4
<1>3. CASE BeginWait \/ Wake \/ BeginProcedure
  <2>1. OwnTypes'
    BY <1>3 DEF BeginWait, Wake, BeginProcedure, OwnTypes
  <2>2. Phases' /\ Connections' /\ TableIsConnected'
    BY <1>3 DEF BeginWait, Wake, BeginProcedure, Phases, Connections, Serving, TableIsConnected
  <2>3. OneOwner'
    BY <1>3 DEF BeginWait, Wake, BeginProcedure, OneOwner, DeadOnes, InHand, Phases
  <2> QED
    BY <2>1, <2>2, <2>3
<1>4. CASE Woken
  <2>1. OwnTypes'
    BY <1>4 DEF Woken, Finish, OwnTypes
  <2>2. target \in conn => target \in link \cup early
    BY <1>4 DEF Woken, Connections
  <2>3. Phases' /\ Connections' /\ TableIsConnected'
    BY <1>4, <2>2 DEF Woken, Finish, Phases, Connections, Serving, TableIsConnected
  <2>4. OneOwner'
    BY <1>4 DEF Woken, Finish, OneOwner, DeadOnes, InHand, Phases
  <2> QED
    BY <2>1, <2>3, <2>4
<1>5. CASE Discovered \/ Subscribed
  <2>1. OwnTypes'
    BY <1>5 DEF Discovered, Subscribed, OwnTypes
  <2>2. Phases' /\ Connections' /\ TableIsConnected'
    BY <1>5 DEF Discovered, Subscribed, Finish, Phases, Connections, Serving, TableIsConnected
  <2>3. OneOwner'
    BY <1>5 DEF Discovered, Subscribed, Finish, OneOwner, DeadOnes, InHand, Phases
  <2> QED
    BY <2>1, <2>2, <2>3
<1> QED
  BY <1>1, <1>2, <1>3, <1>4, <1>5 DEF esp_hidh_dev_open

---------------------------------------------------------------------------
(* hid_scan. *)

LEMMA ReapSteps ==
  ASSUME HostInv, reap_dead_devices
  PROVE  HostInv'
<1> USE DEF HostInv
<1>1. dead \in [Slots -> Peers \cup {none}] /\ slot \in Slots
  BY DEF OwnTypes
<1>2. Distinct
  BY OwnersDistinct
<1>3. /\ dead' = [dead EXCEPT ![slot] = none]
      /\ list' = list \ {dead[slot]} /\ conn' = conn \ {dead[slot]}
      /\ UNCHANGED <<link, table, lost, dialing, torn, openPc, target, result, early>>
      /\ scanPc = "reap" /\ scanPc' \in {"reap", "check"}
  BY DEF reap_dead_devices, nimbleVars, history
<1>4. /\ dead' \in [Slots -> Peers \cup {none}]
      /\ Distinct'
      /\ DeadOnes' = DeadOnes \ {dead[slot]}
  BY <1>1, <1>2, <1>3, EmptySlot
<1>5. slot' \in Slots
  BY <1>1, BleHostAssumption DEF reap_dead_devices, Slots
<1>6. OwnTypes'
  BY <1>3, <1>4, <1>5 DEF OwnTypes
<1>7. Phases' /\ Connections' /\ TableIsConnected'
  BY <1>3 DEF Phases, Connections, Serving, TableIsConnected
<1>8. InHand = {} /\ InHand' = {}
  BY <1>3 DEF InHand, Phases
<1>9. dead[slot] # none => dead[slot] \in DeadOnes
  BY <1>1 DEF DeadOnes
<1>10. none \notin list
  BY EspHidhAssumption DEF OwnTypes
<1>11. OneOwner'
  BY <1>2, <1>3, <1>4, <1>8, <1>9, <1>10, OwnersDistinct DEF OneOwner, Distinct
<1> QED
  BY <1>6, <1>7, <1>11

\* Steps that move hid_scan on between "reap", "check", "scan" and "choose".
LEMMA IdleSteps ==
  ASSUME HostInv, NothingToFind \/ BeginRound \/ EndRound \/ EndWalk
  PROVE  HostInv'
<1> USE DEF HostInv
<1>1. /\ UNCHANGED <<link, conn, list, table, lost, dialing, torn, dead, slot,
                     openPc, target, result, early>>
      /\ scanPc \in {"check", "scan", "choose"}
      /\ scanPc' \in {"reap", "scan", "choose"}
  BY DEF NothingToFind, BeginRound, EndRound, EndWalk, hidhVars, nimbleVars,
         openVars, tableVars, history
<1>2. OwnTypes'
  BY <1>1 DEF OwnTypes
<1>3. Phases' /\ Connections' /\ TableIsConnected'
  BY <1>1 DEF Phases, Connections, Serving, TableIsConnected
<1>4. OneOwner'
  BY <1>1 DEF OneOwner, DeadOnes, InHand, Phases
<1> QED
  BY <1>2, <1>3, <1>4

LEMMA OpenSteps ==
  ASSUME HostInv, NEW p \in Peers, Open(p)
  PROVE  HostInv'
<1> USE DEF HostInv
<1>1. /\ UNCHANGED <<link, conn, list, table, lost, dialing, torn, dead, slot,
                     result, early>>
      /\ scanPc = "choose" /\ openPc = "none"
      /\ \/ target' = p /\ openPc' = "start" /\ scanPc' = "open"
         \/ UNCHANGED <<target, openPc, scanPc>>
  BY DEF Open, tableVars, history, Phases
<1>2. OwnTypes'
  BY <1>1 DEF OwnTypes
<1>3. Phases' /\ Connections' /\ TableIsConnected'
  BY <1>1 DEF Phases, Connections, Serving, TableIsConnected
<1>4. OneOwner'
  BY <1>1 DEF OneOwner, DeadOnes, InHand
<1> QED
  BY <1>2, <1>3, <1>4

LEMMA ReturnSteps ==
  ASSUME HostInv, OpenReturns
  PROVE  HostInv'
<1> USE DEF HostInv
<1>1. /\ UNCHANGED <<link, conn, list, table, lost, dialing, torn, dead, slot,
                     target, result, early>>
      /\ scanPc = "open" /\ openPc = "finished"
      /\ scanPc' = "result" /\ openPc' = "none"
  BY DEF OpenReturns, nimbleVars, tableVars, history
<1>2. OwnTypes'
  BY <1>1 DEF OwnTypes
<1>3. Phases' /\ Connections' /\ TableIsConnected'
  BY <1>1 DEF Phases, Connections, Serving, TableIsConnected
<1>4. OneOwner'
  BY <1>1 DEF OneOwner, DeadOnes, InHand
<1> QED
  BY <1>2, <1>3, <1>4

LEMMA RegisterSteps ==
  ASSUME HostInv, Register
  PROVE  HostInv'
<1> USE DEF HostInv
<1>1. /\ UNCHANGED <<link, conn, list, dialing, torn, slot, openPc, target,
                     result, early>>
      /\ scanPc = "result" /\ openPc = "none" /\ scanPc' = "choose"
      /\ target \in Peers /\ result \in {none, target} /\ target # none
  BY EspHidhAssumption DEF Register, hidhVars, nimbleVars, openVars, Phases
<1>2. InHand' = {} /\ InHand = {result} \ {none}
  BY <1>1 DEF InHand
<1>3. Phases'
  BY <1>1 DEF Phases
<1>4. Distinct /\ dead \in [Slots -> Peers \cup {none}]
  BY OwnersDistinct DEF OwnTypes
<1>5. CASE result = none /\ UNCHANGED <<table, dead, lost>>
  <2>1. DeadOnes' = DeadOnes /\ Distinct'
    BY <1>4, <1>5 DEF DeadOnes, Distinct
  <2>2. OwnTypes' /\ Connections' /\ TableIsConnected'
    BY <1>1, <1>5 DEF OwnTypes, Connections, Serving, TableIsConnected
  <2>3. OneOwner'
    BY <1>1, <1>2, <1>5, <2>1 DEF OneOwner, Distinct
  <2> QED
    BY <1>3, <2>2, <2>3
<1>6. CASE result = target /\ device_mark_dead(target) /\ UNCHANGED table
  <2>1. target \in InHand /\ target \notin DeadOnes
    BY <1>1, <1>2, <1>6 DEF OneOwner
  <2>2. /\ dead' \in [Slots -> Peers \cup {none}]
        /\ Distinct'
        /\ \/ DeadOnes' = DeadOnes \cup {target} /\ lost' = lost
           \/ DeadOnes' = DeadOnes /\ lost' = lost \cup {target}
    BY <1>1, <1>4, <1>6, <2>1, MarkDead
  <2>3. OwnTypes' /\ Connections' /\ TableIsConnected'
    BY <1>1, <1>6, <2>2 DEF OwnTypes, Connections, Serving, TableIsConnected
  <2>4. OneOwner'
    BY <1>1, <1>2, <1>6, <2>2 DEF OneOwner, Distinct
  <2> QED
    BY <1>3, <2>3, <2>4
<1>7. CASE result = target /\ table' = table \cup {target} /\ UNCHANGED <<dead, lost>>
  <2>1. DeadOnes' = DeadOnes /\ Distinct'
    BY <1>4, <1>7 DEF DeadOnes, Distinct
  <2>2. target \in link \cup early
    BY <1>1, <1>7 DEF Connections, Serving
  <2>3. OwnTypes' /\ Connections' /\ TableIsConnected'
    BY <1>1, <1>7, <2>2 DEF OwnTypes, Connections, Serving, TableIsConnected
  <2>4. OneOwner'
    BY <1>1, <1>2, <1>7, <2>1 DEF OneOwner, Distinct
  <2> QED
    BY <1>3, <2>3, <2>4
<1> QED
  BY <1>1, <1>5, <1>6, <1>7 DEF Register, Registrable

LEMMA ScanTaskSteps ==
  ASSUME HostInv, scan_task
  PROVE  HostInv'
  BY ReapSteps, IdleSteps, OpenSteps, ReturnSteps, RegisterSteps DEF scan_task

---------------------------------------------------------------------------
(* The NimBLE host task, the clock, and the restart. *)

\* Advertisements, procedures and cooldowns touch none of this.
LEMMA OtherSteps ==
  ASSUME HostInv,
         \/ \E p \in Peers \cup Beacons : Advertisement(p)
         \/ ScanEnds \/ NoAnswer \/ Procedure \/ Refusal \/ LateAnswer
         \/ \E p \in Peers : CooldownEnds(p)
  PROVE  HostInv'
<1>1. UNCHANGED ownVars /\ dialing' \in {dialing, none}
  BY DEF Advertisement, ScanEnds, NoAnswer, ConnectFailed, Procedure, ProcedureEnds,
         Refusal, ProcedureRefused, LateAnswer, CooldownEnds, hidhVars, nimbleVars, openVars,
         hostVars, tableVars, history, ownVars
<1> QED
  BY <1>1, OwnUnchanged

LEMMA AnswerSteps ==
  ASSUME HostInv, Answer
  PROVE  HostInv'
<1> USE EspHidhAssumption DEF HostInv
<1>1. /\ UNCHANGED <<list, table, lost, torn, dead, slot, openPc, scanPc, target,
                     result, early>>
      /\ torn = none /\ dialing \in Peers /\ dialing' = none
      /\ link' = link \cup {dialing}
      /\ conn' \subseteq conn \cup ({dialing} \cap list)
  BY DEF Answer, Connected, tableVars, OwnTypes
<1>2. OwnTypes'
  BY <1>1 DEF OwnTypes
<1>3. Connections'
  BY <1>1 DEF Connections, Serving, OwnTypes
<1>4. Phases' /\ TableIsConnected'
  BY <1>1 DEF Phases, TableIsConnected
<1>5. OneOwner'
  BY <1>1 DEF OneOwner, DeadOnes, InHand
<1> QED
  BY <1>2, <1>3, <1>4, <1>5

LEMMA CallbackSteps ==
  ASSUME HostInv, Callback
  PROVE  HostInv'
<1> USE EspHidhAssumption DEF HostInv
<1>1. /\ UNCHANGED <<link, list, table, lost, dialing, dead, slot, openPc, scanPc,
                     target, result, early>>
      /\ torn' = none /\ conn' = conn \ {torn}
  BY DEF Callback, DisconnectCallback, tableVars
<1>2. OwnTypes'
  BY <1>1 DEF OwnTypes
<1>3. Connections'
  BY <1>1 DEF Connections, Serving, OwnTypes
<1>4. Phases' /\ TableIsConnected'
  BY <1>1 DEF Phases, TableIsConnected
<1>5. OneOwner'
  BY <1>1 DEF OneOwner, DeadOnes, InHand
<1> QED
  BY <1>2, <1>3, <1>4, <1>5

LEMMA DisconnectSteps ==
  ASSUME HostInv, NEW p \in Peers, Disconnect(p)
  PROVE  HostInv'
<1> USE EspHidhAssumption DEF HostInv
<1>1. /\ UNCHANGED <<conn, list, dialing, slot, openPc, scanPc, target, result>>
      /\ torn = none /\ torn' = p /\ link' = link \ {p}
      /\ early' = IF OpenUnderWay /\ target = p THEN early \cup {p} ELSE early
      /\ device_take_by_addr(p)
  BY DEF Disconnect, LinkLost
<1>2. InHand' = InHand
  BY <1>1 DEF InHand
<1>3. Distinct /\ dead \in [Slots -> Peers \cup {none}]
  BY OwnersDistinct DEF OwnTypes
<1>4. Phases'
  BY <1>1 DEF Phases
<1>5. Connections'
  <2>1. openPc # "none" \/ scanPc = "result" => OpenUnderWay
    BY DEF Phases, OpenUnderWay
  <2>2. (conn \subseteq list)' /\ (conn \subseteq link \cup {torn})'
    BY <1>1 DEF Connections, OwnTypes
  <2>3. openPc \in {"dialled", "waiting", "woken"} /\ p = target => p \in early'
    BY <1>1, <2>1
  <2>4. Serving => target \in link' \cup early'
    BY <1>1, <2>1 DEF Connections, Serving
  <2>5. Serving' <=> Serving
    BY <1>1 DEF Serving
  <2> QED
    BY <1>1, <2>2, <2>3, <2>4, <2>5 DEF Connections
<1>6. CASE p \notin table
  <2>1. UNCHANGED <<table, dead, lost>> /\ DeadOnes' = DeadOnes /\ Distinct'
    BY <1>1, <1>3, <1>6 DEF device_take_by_addr, tableVars, DeadOnes, Distinct
  <2>2. OwnTypes' /\ TableIsConnected'
    BY <1>1, <1>6, <2>1 DEF OwnTypes, TableIsConnected
  <2>3. OneOwner'
    BY <1>1, <1>2, <2>1 DEF OneOwner, Distinct
  <2> QED
    BY <1>4, <1>5, <2>2, <2>3
<1>7. CASE p \in table
  <2>1. table' = table \ {p} /\ device_mark_dead(p)
    BY <1>1, <1>7 DEF device_take_by_addr
  <2>2. p \notin DeadOnes
    BY <1>7 DEF OneOwner
  <2>3. /\ dead' \in [Slots -> Peers \cup {none}]
        /\ Distinct'
        /\ \/ DeadOnes' = DeadOnes \cup {p} /\ lost' = lost
           \/ DeadOnes' = DeadOnes /\ lost' = lost \cup {p}
    BY <1>3, <2>1, <2>2, MarkDead
  <2>4. OwnTypes' /\ TableIsConnected'
    BY <1>1, <1>7, <2>1, <2>3 DEF OwnTypes, TableIsConnected
  <2>5. OneOwner'
    BY <1>1, <1>2, <1>7, <2>1, <2>3 DEF OneOwner, Distinct
  <2> QED
    BY <1>4, <1>5, <2>4, <2>5
<1> QED
  BY <1>6, <1>7

LEMMA RestartSteps ==
  ASSUME HostInv, Restart
  PROVE  HostInv'
<1> USE EspHidhAssumption, BleHostAssumption
<1>1. /\ link' = {} /\ dialing' = none /\ torn' = none /\ list' = {} /\ conn' = {}
      /\ openPc' = "none" /\ table' = {} /\ dead' = [s \in Slots |-> none]
      /\ scanPc' = "reap" /\ slot' = 1 /\ early' = {} /\ lost' = {}
  BY DEF Restart
<1>2. OwnTypes'
  BY <1>1 DEF OwnTypes, Slots
<1>3. Phases' /\ Connections' /\ TableIsConnected'
  BY <1>1 DEF Phases, Connections, Serving, TableIsConnected
<1>4. OneOwner'
  BY <1>1 DEF OneOwner, DeadOnes, InHand, Slots
<1> QED
  BY <1>2, <1>3, <1>4 DEF HostInv

LEMMA HostInvNext == HostInv /\ [Next]_vars => HostInv'
<1> SUFFICES ASSUME HostInv, [Next]_vars PROVE HostInv'
  OBVIOUS
<1>1. CASE Next
  BY <1>1, ScanTaskSteps, OpeningSteps, OtherSteps, AnswerSteps, CallbackSteps,
     DisconnectSteps, RestartSteps DEF Next
<1>2. CASE UNCHANGED vars
  <2>1. UNCHANGED ownVars /\ dialing' = dialing
    BY <1>2 DEF vars, hidhVars, nimbleVars, openVars, hostVars, tableVars, history, ownVars
  <2> QED
    BY <2>1, OwnUnchanged
<1> QED
  BY <1>1, <1>2

---------------------------------------------------------------------------

\* Every record of esp_hid's list has exactly one owner: the table, s_dead, the
\* opener or who takes its result, or nobody because s_dead was full.  Nothing
\* is released twice, and nothing that was released is used (device_register,
\* device_take_by_addr, device_mark_dead, reap_dead_devices).
THEOREM RecordsHaveOneOwner == Spec => []OneOwner
<1>1. HostInv => OneOwner
  BY DEF HostInv
<1> QED
  BY HostInvInit, HostInvNext, <1>1, PTL DEF Spec

\* A device in the table has a link, unless the link was lost before the device
\* was registered (gap_disconnect_listener, device_register).
THEOREM TableEntriesAreConnected == Spec => []TableIsConnected
<1>1. HostInv => TableIsConnected
  BY DEF HostInv
<1> QED
  BY HostInvInit, HostInvNext, <1>1, PTL DEF Spec

---------------------------------------------------------------------------
(* What the opener waits for. *)

InProcedure == openPc \in {"discovering", "subscribing"}

WaitTypes ==
  /\ procs \in [Peers -> Nat]
  /\ token \in BOOLEAN /\ openWaiting \in BOOLEAN /\ procFailed \in BOOLEAN
  /\ disturbed \in BOOLEAN

\* Either the semaphore can be taken or the connection that gives it is being tried.
ConnectionOwed ==
  /\ openPc \in {"dialled", "waiting"} =>
       \/ token /\ dialing = none
       \/ ~token /\ dialing = target
  /\ openPc \notin {"dialled", "waiting"} => dialing = none

\* Either it can be taken, after a procedure that did not fail, or one is under way.
ProcedureOwed ==
  /\ \A p \in Peers : procs[p] # 0 => p = target /\ InProcedure /\ ~token
  /\ InProcedure /\ ~token => procs[target] = 1
  /\ openPc = "discovering" /\ token => ~procFailed

\* Nothing gives it to nobody.
NoStrayGive ==
  /\ token => InProcedure \/ openPc \in {"dialled", "waiting"}
  /\ openWaiting <=> openPc \in {"waiting", "woken"}

\* In an open that nothing disturbs, every give has its taker and every wait its giver.
Owed == early = {} /\ ConnectionOwed /\ ProcedureOwed /\ NoStrayGive

WaitInv == WaitTypes /\ (~disturbed => Owed)

waitVars ==
  <<procs, token, openWaiting, procFailed, disturbed, early, openPc, target, dialing>>

LEMMA WaitUnchanged ==
  ASSUME WaitInv, UNCHANGED waitVars
  PROVE  WaitInv'
BY DEF WaitInv, waitVars, WaitTypes, Owed, ConnectionOwed, ProcedureOwed, NoStrayGive, InProcedure

LEMMA OpeningWaits ==
  ASSUME HostInv, WaitInv, Opening
  PROVE  WaitInv'
<1> USE DEF InProcedure
<1>a. disturbed' = disturbed /\ early' = early
  BY DEF Opening, hostVars, history
<1>b. openPc # "none" => target \in Peers /\ target # none
  BY EspHidhAssumption DEF HostInv, Phases
<1>c. WaitTypes
  BY DEF WaitInv
<1>1. WaitTypes'
  <2>1. procs' \in [Peers -> Nat]
    <3>1. CASE BeginProcedure
      <4>1. PICK n \in Nat : procs' = [procs EXCEPT ![target] = procs[target] + n]
        BY <1>c, <3>1 DEF BeginProcedure, WaitTypes
      <4>2. target \in Peers
        BY <1>b, <3>1 DEF BeginProcedure
      <4>3. procs[target] + n \in Nat
        BY <1>c, <4>2 DEF WaitTypes
      <4> QED
        BY <1>c, <4>1, <4>2, <4>3 DEF WaitTypes
    <3>2. CASE ~BeginProcedure
      BY <1>c, <3>2
      DEF Opening, esp_hidh_dev_open, OpenRefused, ConnectRefused, Connect, BeginWait, Wake,
          Woken, Discovered, Subscribed, nimbleVars, WaitTypes
    <3> QED
      BY <3>1, <3>2
  <2>2. /\ procFailed' = procFailed
        /\ token' = token \/ token' = FALSE
        /\ openWaiting' \in {openWaiting, TRUE, FALSE}
    BY DEF Opening, esp_hidh_dev_open, OpenRefused, ConnectRefused, Connect, BeginWait, Wake,
           Woken, BeginProcedure, Discovered, Subscribed
  <2> QED
    BY <1>a, <1>c, <2>1, <2>2 DEF WaitTypes
<1>2. ASSUME ~disturbed PROVE Owed'
  <2>1. Owed
    BY <1>2 DEF WaitInv
  <2>2. CASE OpenRefused \/ ConnectRefused
    BY <1>a, <2>1, <2>2
    DEF OpenRefused, ConnectRefused, Finish, nimbleVars, Owed, ConnectionOwed, ProcedureOwed,
        NoStrayGive
  <2>3. CASE Connect
    BY <1>a, <1>b, <2>1, <2>3 DEF Connect, Owed, ConnectionOwed, ProcedureOwed, NoStrayGive
  <2>4. CASE BeginWait
    BY <1>a, <2>1, <2>4
    DEF BeginWait, nimbleVars, Owed, ConnectionOwed, ProcedureOwed, NoStrayGive
  <2>5. CASE Wake
    BY <1>a, <2>1, <2>5
    DEF Wake, nimbleVars, Owed, ConnectionOwed, ProcedureOwed, NoStrayGive
  <2>6. CASE Woken
    BY <1>a, <2>1, <2>6
    DEF Woken, Finish, nimbleVars, Owed, ConnectionOwed, ProcedureOwed, NoStrayGive
  <2>7. CASE BeginProcedure
    <3>1. target \in Peers /\ target \in link
      BY <1>b, <2>1, <2>7 DEF BeginProcedure, HostInv, Connections, Serving, Owed
    <3>2. procs[target] = 0 /\ ~token
      BY <2>1, <2>7, <3>1 DEF BeginProcedure, Owed, ProcedureOwed, NoStrayGive
    <3>3. /\ procs' = [procs EXCEPT ![target] = procs[target] + 1]
          /\ UNCHANGED <<token, openWaiting, procFailed, target, dialing>>
      BY <2>7, <3>1 DEF BeginProcedure
    <3>4. procs'[target] = 1 /\ \A p \in Peers : p # target => procs'[p] = procs[p]
      BY <1>c, <3>1, <3>2, <3>3 DEF WaitTypes
    <3> QED
      BY <1>a, <2>1, <2>7, <3>1, <3>2, <3>3, <3>4
      DEF BeginProcedure, Owed, ConnectionOwed, ProcedureOwed, NoStrayGive
  <2>8. CASE Discovered
    <3>1. \A p \in Peers : procs[p] = 0
      BY <2>1, <2>8 DEF Discovered, Owed, ProcedureOwed
    <3> QED
      BY <1>a, <2>1, <2>8, <3>1
      DEF Discovered, Finish, nimbleVars, Owed, ConnectionOwed, ProcedureOwed, NoStrayGive
  <2>9. CASE Subscribed
    <3>1. \A p \in Peers : procs[p] = 0
      BY <2>1, <2>9 DEF Subscribed, Owed, ProcedureOwed
    <3> QED
      BY <1>a, <2>1, <2>9, <3>1
      DEF Subscribed, Finish, nimbleVars, Owed, ConnectionOwed, ProcedureOwed, NoStrayGive
  <2> QED
    BY <2>2, <2>3, <2>4, <2>5, <2>6, <2>7, <2>8, <2>9 DEF Opening, esp_hidh_dev_open
<1> QED
  BY <1>a, <1>1, <1>2 DEF WaitInv

LEMMA ScanTaskWaits ==
  ASSUME HostInv, WaitInv, scan_task
  PROVE  WaitInv'
<1>1. CASE reap_dead_devices \/ NothingToFind \/ BeginRound \/ EndRound \/ EndWalk
  BY <1>1, WaitUnchanged
  DEF reap_dead_devices, NothingToFind, BeginRound, EndRound, EndWalk, hidhVars, nimbleVars,
      openVars, history, waitVars
<1>2. CASE (\E p \in Peers : Open(p)) \/ OpenReturns
  <2>1. /\ UNCHANGED <<procs, token, openWaiting, procFailed, disturbed, early, dialing>>
        /\ \/ openPc = "none" /\ openPc' = "start"
           \/ openPc = "finished" /\ openPc' = "none"
           \/ UNCHANGED <<openPc, target>>
    BY <1>2 DEF Open, OpenReturns, nimbleVars, history, HostInv, Phases
  <2> QED
    BY <2>1
    DEF WaitInv, WaitTypes, Owed, ConnectionOwed, ProcedureOwed, NoStrayGive, InProcedure
<1>3. CASE Register
  <2>1. /\ UNCHANGED <<procs, token, openWaiting, procFailed, early, openPc, target, dialing>>
        /\ disturbed' \in {disturbed, disturbed \/ target \in link}
    BY <1>3 DEF Register, hidhVars, nimbleVars, openVars
  <2> QED
    BY <2>1
    DEF WaitInv, WaitTypes, Owed, ConnectionOwed, ProcedureOwed, NoStrayGive, InProcedure
<1> QED
  BY <1>1, <1>2, <1>3 DEF scan_task

LEMMA NimbleWaits ==
  ASSUME HostInv, WaitInv, Answer \/ NoAnswer \/ Procedure \/ Refusal \/ Callback
  PROVE  WaitInv'
<1> USE DEF InProcedure
<1>c. WaitTypes
  BY DEF WaitInv
<1>b. openPc # "none" => target \in Peers /\ target # none
  BY EspHidhAssumption DEF HostInv, Phases
<1>1. CASE Answer \/ NoAnswer
  <2>1. /\ UNCHANGED <<procs, openWaiting, procFailed, early, openPc, target>>
        /\ dialing # none /\ dialing' = none /\ token' = TRUE
        /\ disturbed' \in BOOLEAN /\ (~disturbed' => ~disturbed)
    BY <1>1, <1>c
    DEF Answer, Connected, NoAnswer, ConnectFailed, AfterFailure, hostVars, history, WaitTypes
  <2>2. WaitTypes'
    BY <1>c, <2>1 DEF WaitTypes
  <2>3. ASSUME ~disturbed' PROVE Owed'
    BY <1>b, <2>1, <2>3 DEF WaitInv, Owed, ConnectionOwed, ProcedureOwed, NoStrayGive
  <2> QED
    BY <2>2, <2>3 DEF WaitInv
<1>2. CASE Procedure
  <2>1. PICK p \in Peers : ProcedureEnds(p)
    BY <1>2 DEF Procedure
  <2>2. /\ UNCHANGED <<openWaiting, early, openPc, target, dialing, disturbed>>
        /\ procs[p] > 0 /\ procs' = [procs EXCEPT ![p] = @ - 1]
        /\ procFailed' = FALSE /\ token' = TRUE
    BY <1>2, <2>1 DEF Procedure, ProcedureEnds, hostVars, history
  <2>3. procs' \in [Peers -> Nat] /\ procs'[p] = procs[p] - 1
        /\ \A q \in Peers : q # p => procs'[q] = procs[q]
    BY <1>c, <2>2 DEF WaitTypes
  <2>4. WaitTypes'
    BY <1>c, <2>2, <2>3 DEF WaitTypes
  <2>5. ASSUME ~disturbed PROVE Owed'
    <3>1. p = target /\ InProcedure /\ ~token /\ procs[p] = 1
      BY <1>c, <2>2, <2>5 DEF WaitInv, Owed, ProcedureOwed, WaitTypes
    <3>2. \A q \in Peers : procs'[q] = 0
      BY <2>3, <2>5, <3>1 DEF WaitInv, Owed, ProcedureOwed
    <3> QED
      BY <2>2, <2>5, <3>1, <3>2
      DEF WaitInv, Owed, ConnectionOwed, ProcedureOwed, NoStrayGive
  <2> QED
    BY <2>2, <2>4, <2>5 DEF WaitInv
<1>3. CASE Refusal
  <2>1. PICK p \in Peers : ProcedureRefused(p)
    BY <1>3 DEF Refusal
  <2>2. disturbed' = TRUE
    BY <1>3 DEF Refusal
  <2>3. procs' \in [Peers -> Nat]
    BY <1>c, <2>1 DEF ProcedureRefused, WaitTypes
  <2>4. token' \in BOOLEAN /\ procFailed' \in BOOLEAN /\ openWaiting' = openWaiting
    BY <1>c, <2>1 DEF ProcedureRefused, FailedProcedure, WaitTypes
  <2> QED
    BY <1>c, <2>2, <2>3, <2>4 DEF WaitInv, WaitTypes
<1>4. CASE Callback
  <2>1. /\ UNCHANGED <<procs, openWaiting, procFailed, early, openPc, target, dialing>>
        /\ disturbed' = (disturbed \/ openWaiting) /\ token' = (token \/ openWaiting)
    BY <1>4 DEF Callback, DisconnectCallback, WakeOpener
  <2>2. WaitTypes'
    BY <1>c, <2>1 DEF WaitTypes
  <2>3. ASSUME ~disturbed' PROVE Owed'
    <3>1. ~disturbed /\ token' = token
      BY <1>c, <2>1, <2>3 DEF WaitTypes
    <3> QED
      BY <2>1, <3>1 DEF WaitInv, Owed, ConnectionOwed, ProcedureOwed, NoStrayGive
  <2> QED
    BY <2>2, <2>3 DEF WaitInv
<1> QED
  BY <1>1, <1>2, <1>3, <1>4

\* A link that is lost disturbs nothing only if the opener has nothing to do with it.
LEMMA DisconnectWaits ==
  ASSUME HostInv, WaitInv, NEW p \in Peers, Disconnect(p)
  PROVE  WaitInv'
<1> USE DEF InProcedure
<1>c. WaitTypes
  BY DEF WaitInv
<1>1. /\ UNCHANGED <<openWaiting, openPc, target, dialing>>
      /\ procs' = [procs EXCEPT ![p] = 0]
      /\ early' = IF OpenUnderWay /\ target = p THEN early \cup {p} ELSE early
      /\ disturbed' = (disturbed \/ p \in early')
      /\ IF procs[p] > 0 THEN FailedProcedure ELSE UNCHANGED <<token, procFailed>>
  BY DEF Disconnect, LinkLost
<1>2. procs' \in [Peers -> Nat] /\ \A q \in Peers : procs'[q] = IF q = p THEN 0 ELSE procs[q]
  BY <1>c, <1>1 DEF WaitTypes
<1>3. token' \in BOOLEAN /\ procFailed' \in BOOLEAN /\ disturbed' \in BOOLEAN
  BY <1>c, <1>1 DEF FailedProcedure, WaitTypes
<1>4. ASSUME ~disturbed' PROVE Owed'
  <2>1. ~disturbed /\ p \notin early'
    BY <1>1, <1>4
  <2>2. Owed
    BY <2>1 DEF WaitInv
  <2>3. early' = {} /\ ~(OpenUnderWay /\ target = p)
    BY <1>1, <2>1, <2>2 DEF Owed
  <2>4. openPc = "none" \/ target # p
    BY <2>3 DEF HostInv, Phases, OpenUnderWay
  <2>5. procs[p] = 0
    BY <2>2, <2>4 DEF Owed, ProcedureOwed
  <2>6. UNCHANGED <<token, procFailed>>
    BY <1>1, <2>5
  <2>7. \A q \in Peers : procs'[q] = procs[q]
    BY <1>2, <2>5
  <2>8. ProcedureOwed'
    <3>1. InProcedure => target \in Peers
      BY DEF HostInv, Phases
    <3> QED
      BY <1>1, <2>2, <2>6, <2>7, <3>1 DEF Owed, ProcedureOwed
  <2> QED
    BY <1>1, <2>2, <2>3, <2>6, <2>8 DEF Owed, ConnectionOwed, NoStrayGive
<1> QED
  BY <1>c, <1>1, <1>2, <1>3, <1>4 DEF WaitInv, WaitTypes

LEMMA WaitInvNext == HostInv /\ WaitInv /\ [Next]_vars => WaitInv'
<1> SUFFICES ASSUME HostInv, WaitInv, [Next]_vars PROVE WaitInv'
  OBVIOUS
<1>1. CASE \/ \E p \in Peers \cup Beacons : Advertisement(p)
           \/ ScanEnds \/ LateAnswer \/ UNCHANGED vars
           \/ \E p \in Peers : CooldownEnds(p)
  BY <1>1, WaitUnchanged
  DEF Advertisement, ScanEnds, LateAnswer, CooldownEnds, vars, hostVars, hidhVars, nimbleVars, openVars,
      history, waitVars
<1>2. CASE Restart
  BY <1>2, EspHidhAssumption
  DEF Restart, WaitInv, WaitTypes, Owed, ConnectionOwed, ProcedureOwed, NoStrayGive, InProcedure
<1> QED
  BY <1>1, <1>2, ScanTaskWaits, OpeningWaits, NimbleWaits, DisconnectWaits DEF Next

\* The chip restarts itself only after an open that lost a link, met an unknown address or
\* was refused a procedure, or while a peer keeps the open waiting for as long as its guard
\* does: in any other open, whatever the opener waits for will be given, and the assertion
\* about the status of the discovery holds (esp_hidh_dev_open, open_device_guarded).
THEOREM RestartsNeedADisturbance == Spec => []RestartsOnlyIfDisturbed
<1>1. Init => WaitInv
  <2> SUFFICES ASSUME Init PROVE WaitInv
    OBVIOUS
  <2>1. /\ procs = [p \in Peers |-> 0] /\ token = FALSE /\ openWaiting = FALSE
        /\ procFailed = FALSE /\ disturbed = FALSE /\ early = {} /\ dialing = none
        /\ openPc = "none"
    BY DEF Init, HidhInit, HostInit
  <2>2. WaitTypes
    BY <2>1 DEF WaitTypes
  <2>3. Owed
    BY <2>1 DEF Owed, ConnectionOwed, ProcedureOwed, NoStrayGive, InProcedure
  <2> QED
    BY <2>2, <2>3 DEF WaitInv
<1>2. HostInv /\ WaitInv => RestartsOnlyIfDisturbed
  <2> SUFFICES ASSUME HostInv, WaitInv, MustRestart, ~disturbed, ~slow PROVE FALSE
    BY DEF RestartsOnlyIfDisturbed
  <2>1. Owed /\ WaitTypes
    BY DEF WaitInv
  <2>2. ~AssertFails
    BY <2>1 DEF AssertFails, Owed, ProcedureOwed
  <2>3. openPc # "none" => target \in Peers /\ target # none
    BY EspHidhAssumption DEF HostInv, Phases
  <2>4. ~Stuck
    BY <2>1, <2>3 DEF Stuck, Owed, ConnectionOwed, ProcedureOwed, InProcedure
  <2> QED
    BY <2>2, <2>4 DEF MustRestart, GuardRunsOut
<1> QED
  BY HostInvInit, HostInvNext, WaitInvNext, <1>1, <1>2, PTL DEF Spec

===============================================================================
