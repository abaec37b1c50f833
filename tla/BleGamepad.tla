------------------------------- MODULE BleGamepad -------------------------------
(***************************************************************************)
(* The pad as the PC sees it over BLE.  Four tasks meet here:              *)
(*   the NimBLE host task   links, gap_event(), and so the flags           *)
(*   the mapper task        one report per tick, unless a device is being  *)
(*                          opened, through ble_gamepad_send()             *)
(*   the gamepad task       advertising at start, then the interval of     *)
(*                          the link to the PC                             *)
(* and the PC.  The controller gives a new link the handle of the one      *)
(* before, so a handle that is not NONE names the link there is.           *)
(*                                                                         *)
(* A PC takes longer to come back than the mapper takes for one report,    *)
(* and than the gamepad task takes for one round of its loop.              *)
(***************************************************************************)
EXTENDS BleStack

CONSTANTS
  NULL,
  Reports,      \* what build_report() can give
  neutral,      \* ... for a state at rest
  blank,        \* s_last_report before any report
  Ladder,       \* the intervals asked for, shortest first: ascending
  Tries,        \* tries_per_step
  Intervals,    \* the intervals a link may have
  MaxLinks,     \* bound on links
  MaxChanges,   \* bound on changes of the input
  MaxOpenings,  \* bound on opens of input devices
  MaxRefusals   \* bound on notifications and advertising starts refused

ASSUME BleGamepadAssumption ==
  /\ neutral \in Reports /\ blank \notin Reports /\ NULL \notin Reports /\ NULL # blank
  /\ Intervals \subseteq Nat /\ Ladder \in Seq(Nat) /\ Tries \in Nat \ {0}
  /\ MaxLinks \in Nat /\ MaxChanges \in Nat /\ MaxOpenings \in Nat /\ MaxRefusals \in Nat

VARIABLES
  \* NimBLE and the air
  advertising,
  link,        \* NimBLE has a link to the PC
  air,         \* the PC is still at the other end of it
  interval,
  event,       \* the callback the host task has before it, or "none"
  asked,       \* the interval asked for on the link, or 0
  \* ble_gamepad.c
  connected,   \* s_conn_handle is not NONE
  subscribed,  \* s_subscribed
  haveLast,    \* s_have_last
  last,        \* s_last_report
  \* the mapper task
  pc,          \* "idle", "notify", "remember": in ble_gamepad_send()
  report,
  was_opening,
  \* the gamepad task
  task,        \* "start", "idle", "rung", "await"
  negotiated,  \* itvl_negotiated
  rung, tries,
  \* the inputs and the PC
  want,        \* the report of the present input state
  opening,     \* an input device is being opened
  enabled,     \* the PC wants notifications on this link
  seen,        \* the report the PC has from this link
  \* history and bounds
  served,      \* a request was sent on this link
  lapped,      \* this link came up while the task was busy with one before
  muted,       \* the PC has once disabled notifications on this link
  polled,      \* the gamepad task has been round its loop since the last disconnect
  links, changes, openings, refusals

padVars    == <<connected, subscribed, haveLast, last>>
mapperVars == <<pc, report, was_opening>>
taskVars   == <<task, negotiated, rung, tries, polled>>
airVars    == <<advertising, link, air, interval, event, asked>>
pcVars     == <<enabled, seen, served, lapped, muted>>
inputVars  == <<want, opening, changes, openings>>
vars == <<stackVars, padVars, mapperVars, taskVars, airVars, pcVars, inputVars,
          links, refusals>>

Init ==
  /\ StackInit
  /\ advertising = FALSE /\ link = FALSE /\ air = FALSE /\ event = "none" /\ asked = 0
  /\ interval = 0
  /\ connected = FALSE /\ subscribed = FALSE /\ haveLast = FALSE
  /\ last = blank
  /\ pc = "idle" /\ report = blank /\ was_opening = FALSE
  /\ task = "start" /\ negotiated = FALSE /\ polled = TRUE /\ rung = 0 /\ tries = 0
  /\ want = neutral /\ opening = FALSE
  /\ enabled = FALSE /\ seen = NULL /\ served = FALSE /\ lapped = FALSE /\ muted = FALSE
  /\ links = 0 /\ changes = 0 /\ openings = 0 /\ refusals = 0

\* A run has refusals or resets of the host, not both.
Refused == refusals < MaxRefusals /\ resets = 0 /\ refusals' = refusals + 1

---------------------------------------------------------------------------
(* gap_event() and the start of advertising, in the host task. *)

\* A start that fails is reported to nobody.  Without the controller, and with
\* the link it has, the host refuses.
start_advertising ==
  \/ synced /\ advertising' = TRUE /\ UNCHANGED refusals
  \/ ~synced /\ UNCHANGED <<advertising, refusals>>
  \/ synced /\ Refused /\ UNCHANGED advertising

\* Mutant: the last report of the connection before still counts as known.
ConnectKeepingLast ==
  /\ event = "connect"
  /\ connected' = TRUE /\ subscribed' = FALSE
  /\ event' = "none"
  /\ UNCHANGED <<haveLast, last, advertising, link, air, interval, asked, mapperVars,
                 taskVars, pcVars, inputVars, stackVars, links, refusals>>

Connect ==
  /\ event = "connect"
  /\ connected' = TRUE /\ subscribed' = FALSE /\ haveLast' = FALSE
  /\ event' = "none"
  /\ UNCHANGED <<last, advertising, link, air, interval, asked, mapperVars,
                 taskVars, pcVars, inputVars, stackVars, links, refusals>>

\* Mutant: a connection that fails is not followed by advertising.
ConnectFailedQuietly ==
  /\ event = "failed"
  /\ event' = "none"
  /\ UNCHANGED <<padVars, advertising, link, air, interval, asked, mapperVars, taskVars,
                 pcVars, inputVars, stackVars, links, refusals>>

ConnectFailed ==
  /\ event = "failed"
  /\ start_advertising
  /\ event' = "none"
  /\ UNCHANGED <<padVars, link, air, interval, asked, mapperVars, taskVars, pcVars,
                 inputVars, stackVars, links>>

\* The subscription ends before the link is reported gone.
SubscriptionEnds ==
  /\ event = "unsubscribe"
  /\ subscribed' = FALSE
  /\ event' = "disconnect"
  /\ UNCHANGED <<connected, haveLast, last, advertising, link, air, interval, asked,
                 mapperVars, taskVars, pcVars, inputVars, stackVars, links, refusals>>

Disconnect ==
  /\ event = "disconnect"
  /\ connected' = FALSE /\ subscribed' = FALSE /\ haveLast' = FALSE
  /\ start_advertising
  /\ event' = "none" /\ polled' = FALSE
  /\ UNCHANGED <<last, link, air, interval, asked, mapperVars, task, negotiated, rung, tries,
                 pcVars, inputVars, stackVars, links>>

Subscribe ==
  /\ event = "subscribe"
  /\ subscribed' = enabled
  /\ event' = "none"
  /\ UNCHANGED <<connected, haveLast, last, advertising, link, air, interval, asked,
                 mapperVars, taskVars, pcVars, inputVars, stackVars, links, refusals>>

gap_event == Connect \/ ConnectFailed \/ SubscriptionEnds \/ Disconnect \/ Subscribe

---------------------------------------------------------------------------
(* ble_gamepad_send(), in the mapper task. *)

ble_gamepad_is_ready == connected /\ subscribed

\* Skipped: nobody listens, or nothing has changed.
Send(rpt) ==
  IF ble_gamepad_is_ready /\ ~(haveLast /\ rpt = last)
  THEN pc' = "notify" /\ report' = rpt
  ELSE UNCHANGED <<pc, report>>

\* Mutant: a report counts as sent although it was refused.
NotifyAnyway ==
  /\ pc = "notify"
  /\ \/ connected /\ link /\ seen' = (IF air THEN report ELSE seen) /\ UNCHANGED refusals
     \/ (IF connected /\ link THEN Refused ELSE UNCHANGED refusals) /\ UNCHANGED seen
  /\ pc' = "remember"
  /\ UNCHANGED <<padVars, report, was_opening, taskVars, airVars, enabled, served, lapped,
                 muted, inputVars, stackVars, links>>

\* A notification may be refused for want of a buffer, and is without a link.
Notify ==
  /\ pc = "notify"
  /\ \/ /\ connected /\ link
        /\ seen' = IF air THEN report ELSE seen
        /\ pc' = "remember"
        /\ UNCHANGED <<report, refusals>>
     \/ /\ IF connected /\ link THEN Refused ELSE UNCHANGED refusals
        /\ pc' = "idle" /\ report' = blank
        /\ UNCHANGED seen
  /\ UNCHANGED <<padVars, was_opening, taskVars, airVars, enabled, served, lapped,
                 muted, inputVars, stackVars, links>>

Remember ==
  /\ pc = "remember"
  /\ last' = report /\ haveLast' = TRUE
  /\ pc' = "idle" /\ report' = blank
  /\ UNCHANGED <<connected, subscribed, was_opening, taskVars,
                 airVars, pcVars, inputVars, stackVars, links, refusals>>

\* Mutant: reports stop at once when a device is being opened.
MapperTickSilent ==
  /\ Started("input_mapper_start") /\ pc = "idle"
  /\ was_opening' = opening
  /\ IF opening THEN UNCHANGED <<pc, report>> ELSE Send(want)
  /\ UNCHANGED <<padVars, taskVars, airVars, pcVars, inputVars, stackVars, links, refusals>>

(* One tick of mapper_task().  While a device is being opened nothing goes *)
(* out but one report at rest, when that begins.                           *)
MapperTick ==
  /\ Started("input_mapper_start") /\ pc = "idle"
  /\ was_opening' = opening
  /\ IF opening /\ was_opening THEN UNCHANGED <<pc, report>>
     ELSE Send(IF opening THEN neutral ELSE want)
  /\ UNCHANGED <<padVars, taskVars, airVars, pcVars, inputVars, stackVars, links, refusals>>

mapper_task == MapperTick \/ Notify \/ Remember

---------------------------------------------------------------------------
(* gamepad_task() and negotiate_pad_interval(). *)

conn_find == connected /\ link

StartTask ==
  /\ Started("ble_gamepad_start") /\ EV_SYNCED /\ task = "start"
  /\ start_advertising
  /\ task' = "idle"
  /\ UNCHANGED <<padVars, mapperVars, negotiated, rung, tries, polled, link, air, interval, event,
                 asked, pcVars, inputVars, stackVars, links>>

\* Back in the loop, which forgets about a connection once it is gone.
Leave == /\ task' = "idle" /\ rung' = 0 /\ tries' = 0 /\ polled' = TRUE
         /\ negotiated' = (negotiated /\ connected)

\* Mutant: the PC is asked as soon as it is connected.
WaitConnected ==
  /\ task = "idle"
  /\ IF ~negotiated /\ conn_find
     THEN task' = "rung" /\ rung' = 1 /\ negotiated' = TRUE
     ELSE /\ negotiated' = (connected /\ (negotiated \/ ble_gamepad_is_ready))
          /\ UNCHANGED <<task, rung>>
  /\ polled' = TRUE
  /\ UNCHANGED <<tries, asked, served, refusals>>

\* Mutant: one PC is asked, and none after it.
WaitOnce ==
  /\ task = "idle"
  /\ IF ble_gamepad_is_ready /\ ~negotiated /\ conn_find
     THEN task' = "rung" /\ rung' = 1 /\ negotiated' = TRUE
     ELSE UNCHANGED <<task, rung, negotiated>>
  /\ polled' = TRUE
  /\ UNCHANGED <<tries, asked, served, refusals>>

Wait ==
  /\ task = "idle"
  /\ IF ble_gamepad_is_ready /\ ~negotiated /\ conn_find
     THEN task' = "rung" /\ rung' = 1 /\ negotiated' = TRUE
     ELSE /\ negotiated' = (connected /\ (negotiated \/ ble_gamepad_is_ready))
          /\ UNCHANGED <<task, rung>>
  /\ polled' = TRUE
  /\ UNCHANGED <<tries, asked, served, refusals>>

\* ble_gap_update_params(): sent, or refused on this side, as it must be while
\* a request on this link is unanswered (EALREADY): the end of this value.
Request ==
  /\ UNCHANGED <<negotiated, polled>>
  /\ \/ /\ asked = 0
        /\ task' = "await" /\ tries' = tries + 1 /\ asked' = Ladder[rung]
        /\ served' = TRUE
        /\ UNCHANGED <<rung, refusals>>
     \/ /\ IF asked = 0 THEN Refused ELSE UNCHANGED refusals
        /\ task' = "rung" /\ rung' = rung + 1 /\ tries' = 0
        /\ UNCHANGED <<asked, served>>

\* After a pause.  A value longer than the interval the link has makes no sense.
NextRung ==
  /\ task = "rung"
  /\ IF rung <= Len(Ladder) /\ conn_find /\ interval > Ladder[rung] THEN Request
     ELSE Leave /\ UNCHANGED <<asked, served, refusals>>

\* After a longer pause: whatever link there is now, its interval is looked at.
Await ==
  /\ task = "await"
  /\ IF ~conn_find \/ interval <= Ladder[rung]
     THEN Leave /\ UNCHANGED <<asked, served, refusals>>
     ELSE IF tries < Tries THEN Request
     ELSE /\ task' = "rung" /\ rung' = rung + 1 /\ tries' = 0
          /\ UNCHANGED <<negotiated, polled, asked, served, refusals>>

negotiate_pad_interval == NextRung \/ Await

gamepad_task ==
  \/ StartTask
  \/ /\ Wait \/ negotiate_pad_interval
     /\ UNCHANGED <<padVars, mapperVars, advertising, link, air, interval, event, enabled,
                    seen, lapped, muted, inputVars, stackVars, links>>

---------------------------------------------------------------------------
(* The PC, the air and the inputs. *)

\* The PC connects to the pad it hears; that ends advertising.
LinkUp ==
  /\ advertising /\ synced /\ event = "none" /\ ~link /\ links < MaxLinks
  /\ pc = "idle" /\ (task = "idle" => polled)
  /\ advertising' = FALSE /\ links' = links + 1
  /\ \/ /\ link' = TRUE /\ air' = TRUE /\ event' = "connect"
        /\ interval' \in Intervals /\ asked' = 0
        /\ enabled' = FALSE /\ seen' = NULL /\ served' = FALSE /\ muted' = FALSE
        /\ lapped' = (task \notin {"start", "idle"})
     \/ event' = "failed" /\ UNCHANGED <<link, air, interval, asked, pcVars>>
  /\ UNCHANGED <<padVars, mapperVars, taskVars, inputVars, stackVars, refusals>>

PcEnables ==
  /\ air /\ connected /\ event = "none" /\ ~enabled
  /\ enabled' = TRUE /\ event' = "subscribe"
  /\ UNCHANGED <<padVars, mapperVars, taskVars, advertising, link, air, interval, asked,
                 seen, served, lapped, muted, inputVars, stackVars, links, refusals>>

\* A report already on its way still reaches it.
PcDisables ==
  /\ air /\ connected /\ event = "none" /\ enabled
  /\ enabled' = FALSE /\ event' = "subscribe" /\ muted' = TRUE
  /\ UNCHANGED <<padVars, mapperVars, taskVars, advertising, link, air, interval, asked,
                 seen, served, lapped, inputVars, stackVars, links, refusals>>

\* The PC grants the interval, or one of its own, or refuses; or it does not answer,
\* and NimBLE gives the procedure up.
PcAnswers ==
  /\ air /\ asked # 0
  /\ asked' = 0
  /\ interval' \in Intervals \cup {asked, interval}
  /\ UNCHANGED <<padVars, mapperVars, taskVars, advertising, link, air, event, pcVars,
                 inputVars, stackVars, links, refusals>>

\* The PC is gone; the host learns of it later.
AirLost ==
  /\ air
  /\ air' = FALSE
  /\ UNCHANGED <<padVars, mapperVars, taskVars, advertising, link, interval, event, asked,
                 pcVars, inputVars, stackVars, links, refusals>>

NoPc ==
  /\ enabled' = FALSE /\ seen' = NULL /\ interval' = 0
  /\ served' = FALSE /\ lapped' = FALSE /\ muted' = FALSE

LinkDown ==
  /\ link /\ ~air /\ event = "none"
  /\ link' = FALSE /\ asked' = 0
  /\ event' = IF enabled THEN "unsubscribe" ELSE "disconnect"
  /\ NoPc
  /\ UNCHANGED <<padVars, mapperVars, taskVars, advertising, air, inputVars, stackVars, links,
                 refusals>>

\* A reset of the host ends advertising and the link; the callback for the
\* link comes while the host is down.
Reset ==
  /\ HostReset /\ event = "none" /\ refusals = 0
  /\ advertising' = FALSE /\ link' = FALSE /\ air' = FALSE /\ asked' = 0
  /\ event' = IF ~link THEN "none" ELSE IF enabled THEN "unsubscribe" ELSE "disconnect"
  /\ NoPc
  /\ UNCHANGED <<padVars, mapperVars, taskVars, inputVars, links, refusals>>

StackStep ==
  /\ BootStep \/ (Sync /\ event = "none")
  /\ UNCHANGED <<padVars, mapperVars, taskVars, airVars, pcVars, inputVars, links, refusals>>

InputChanges ==
  /\ changes < MaxChanges /\ changes' = changes + 1
  /\ want' \in Reports \ {want}
  /\ UNCHANGED <<opening, openings, padVars, mapperVars, taskVars, airVars, pcVars, stackVars,
                 links, refusals>>

OpenBegins ==
  /\ ~opening /\ openings < MaxOpenings
  /\ opening' = TRUE /\ openings' = openings + 1
  /\ UNCHANGED <<want, changes, padVars, mapperVars, taskVars, airVars, pcVars, stackVars,
                 links, refusals>>

OpenEnds ==
  /\ opening /\ opening' = FALSE
  /\ UNCHANGED <<want, changes, openings, padVars, mapperVars, taskVars, airVars, pcVars,
                 stackVars, links, refusals>>

Next ==
  \/ gap_event \/ mapper_task \/ gamepad_task \/ StackStep \/ Reset
  \/ LinkUp \/ PcEnables \/ PcDisables \/ PcAnswers \/ AirLost \/ LinkDown
  \/ InputChanges \/ OpenBegins \/ OpenEnds

Spec == Init /\ [][Next]_vars

\* The scheduler runs every task that can run, the host task gets its events
\* delivered and dead links end; the PC owes nothing.
Fairness ==
  /\ WF_vars(gap_event) /\ WF_vars(mapper_task) /\ WF_vars(gamepad_task)
  /\ WF_vars(StackStep) /\ WF_vars(LinkDown) /\ WF_vars(OpenEnds)

FairSpec == Spec /\ Fairness

---------------------------------------------------------------------------
GamepadTypeOK ==
  /\ boot \in 0 .. Len(BringUp) /\ synced \in BOOLEAN /\ EV_SYNCED \in BOOLEAN
  /\ advertising \in BOOLEAN /\ link \in BOOLEAN /\ air \in BOOLEAN
  /\ event \in {"none", "connect", "failed", "subscribe", "unsubscribe", "disconnect"}
  /\ connected \in BOOLEAN /\ subscribed \in BOOLEAN /\ haveLast \in BOOLEAN
  /\ last \in Reports \cup {blank}
  /\ pc \in {"idle", "notify", "remember"} /\ report \in Reports \cup {blank}
  /\ was_opening \in BOOLEAN /\ opening \in BOOLEAN /\ want \in Reports
  /\ task \in {"start", "idle", "rung", "await"} /\ negotiated \in BOOLEAN
  /\ rung \in 0 .. Len(Ladder) + 1 /\ tries \in 0 .. Tries
  /\ enabled \in BOOLEAN /\ seen \in Reports \cup {NULL}
  /\ served \in BOOLEAN /\ lapped \in BOOLEAN /\ muted \in BOOLEAN
  /\ refusals \in 0 .. MaxRefusals /\ resets \in 0 .. MaxResets

(* ble_gamepad_send() skips a report equal to the last one: that last one  *)
(* went to this PC, over this connection.                                  *)
LastIsKnown ==
  haveLast /\ air /\ connected /\ pc # "remember" => seen = last

(* A pad without a PC can be found, except where a start of advertising    *)
(* was refused or the host was reset: nothing tries again after those.     *)
FoundUnlessRefused ==
  task # "start" /\ ~link /\ event = "none" => advertising \/ refusals > 0 \/ resets > 0

(* input_mapper.c:369: while a device is being opened the PC is not left   *)
(* with a deflected stick or a held button, unless a report was refused or *)
(* the PC has disabled notifications.                                      *)
NeutralWhileOpening ==
  opening /\ was_opening /\ pc = "idle" /\ air /\ refusals = 0 /\ ~muted =>
    seen \in {NULL, neutral}

(* A link is asked for a shorter interval before its PC has enabled        *)
(* notifications only if it replaced a link in the middle of the ladder.   *)
AskedWhenReady == [][served' /\ ~served => subscribed \/ muted \/ lapped]_vars

(* What is held reaches a PC that stays and listens.                       *)
HeldReachesPc == <>[](subscribed /\ air /\ ~opening) => <>[](seen = want)

(* A PC that stays is asked for a shorter interval, unless its link        *)
(* replaced another one in the middle of the ladder or the request was     *)
(* refused on this side.                                                   *)
AskedInTheEnd ==
  <>[](subscribed /\ air /\ interval > Ladder[1]) => <>[](served \/ lapped \/ refusals > 0)
================================================================================
