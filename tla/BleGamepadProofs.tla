---------------------------- MODULE BleGamepadProofs ----------------------------
(***************************************************************************)
(* What BleGamepad keeps true for any reports, any ladder of intervals and *)
(* any number of links, opens, refusals and resets.                        *)
(***************************************************************************)
EXTENDS BleGamepad, TLAPS

\* The types, in four groups.  The ladder stays in step with the points of the gamepad task.
AirTypes ==
  /\ boot \in 0 .. Len(BringUp) /\ synced \in BOOLEAN /\ EV_SYNCED \in BOOLEAN
  /\ advertising \in BOOLEAN /\ link \in BOOLEAN /\ air \in BOOLEAN
  /\ event \in {"none", "connect", "failed", "subscribe", "unsubscribe", "disconnect"}
  /\ refusals \in 0 .. MaxRefusals /\ resets \in 0 .. MaxResets

SendTypes ==
  /\ last \in Reports \cup {blank}
  /\ pc \in {"idle", "notify", "remember"} /\ report \in Reports \cup {blank}
  /\ want \in Reports /\ seen \in Reports \cup {NULL}
  /\ pc # "idle" => report \in Reports

FlagTypes ==
  /\ connected \in BOOLEAN /\ subscribed \in BOOLEAN /\ haveLast \in BOOLEAN
  /\ was_opening \in BOOLEAN /\ opening \in BOOLEAN
  /\ enabled \in BOOLEAN
  /\ served \in BOOLEAN /\ lapped \in BOOLEAN /\ muted \in BOOLEAN

TaskTypes ==
  /\ task \in {"start", "idle", "rung", "await"} /\ negotiated \in BOOLEAN
  /\ rung \in 0 .. Len(Ladder) + 1 /\ tries \in 0 .. Tries
  /\ task # "await" => tries = 0
  /\ task = "await" => rung <= Len(Ladder)
  /\ task = "rung" => rung >= 1

\* The flags of ble_gamepad.c lag behind the link by the callback under way, and no more.
LinkInv ==
  /\ air => link
  /\ event = "connect" =>
       link /\ ~connected /\ pc = "idle" /\ (~lapped => task \in {"start", "idle"})
  /\ event = "subscribe" => link /\ connected /\ (enabled \/ muted)
  /\ event \in {"failed", "unsubscribe", "disconnect"} => ~link
  /\ connected => link \/ event \in {"unsubscribe", "disconnect"}
  /\ subscribed => connected
  /\ task \in {"rung", "await"} /\ connected /\ link /\ ~lapped => subscribed \/ muted

\* A report on its way belongs to the link there is, and so does the one the PC has.
SentInv ==
  /\ pc # "idle" /\ air => connected /\ (subscribed \/ muted)
  /\ air /\ seen # NULL => connected /\ (subscribed \/ muted)
  /\ pc = "remember" /\ air => seen = report
  /\ LastIsKnown
  /\ was_opening /\ pc # "idle" => report = neutral
  /\ was_opening /\ pc = "idle" /\ air /\ refusals = 0 /\ ~muted => seen \in {NULL, neutral}

\* Nothing happens on the air before the host has synced.
FoundInv ==
  /\ task # "start" => EV_SYNCED
  /\ EV_SYNCED \/ link \/ advertising \/ event # "none" => synced \/ resets > 0
  /\ FoundUnlessRefused

\* What the two lemmas on reports and on advertising need of the counters.
Counters == refusals \in Nat /\ resets \in Nat

\* The inductive invariant.
GamepadInv ==
  AirTypes /\ SendTypes /\ FlagTypes /\ TaskTypes /\ LinkInv /\ SentInv /\ FoundInv

--------------------------------------------------------------------------------
LEMMA LadderLength == Len(Ladder) \in Nat /\ Tries \in Nat /\ Tries > 0
  BY BleGamepadAssumption

LEMMA AdvertisingTypes ==
  AirTypes /\ start_advertising => advertising' \in BOOLEAN /\ refusals' \in 0 .. MaxRefusals
  <1> SUFFICES ASSUME AirTypes, start_advertising
               PROVE  advertising' \in BOOLEAN /\ refusals' \in 0 .. MaxRefusals
    OBVIOUS
  <1>1. advertising' = TRUE \/ advertising' = advertising
    BY DEF start_advertising
  <1>2. refusals' = refusals \/ (refusals < MaxRefusals /\ refusals' = refusals + 1)
    BY DEF start_advertising, Refused
  <1>3. advertising' \in BOOLEAN
    BY <1>1 DEF AirTypes
  <1>4. refusals' \in 0 .. MaxRefusals
    BY <1>2, BleGamepadAssumption DEF AirTypes
  <1> QED
    BY <1>3, <1>4

LEMMA AirNext == AirTypes /\ [Next]_vars => AirTypes'
  <1> SUFFICES ASSUME AirTypes, [Next]_vars PROVE AirTypes'
    OBVIOUS
  <1> USE BleGamepadAssumption, BleStackAssumption DEF AirTypes, padVars, mapperVars,
          taskVars, airVars, pcVars, inputVars, stackVars
  <1>1. CASE UNCHANGED vars
    BY <1>1 DEF vars
  <1>2. CASE Connect
    BY <1>2 DEF Connect
  <1>3. CASE ConnectFailed
    <2>1. advertising' \in BOOLEAN /\ refusals' \in 0 .. MaxRefusals
      BY <1>3, AdvertisingTypes DEF ConnectFailed
    <2> QED
      BY <1>3, <2>1 DEF ConnectFailed
  <1>4. CASE SubscriptionEnds
    BY <1>4 DEF SubscriptionEnds
  <1>5. CASE Disconnect
    <2>1. advertising' \in BOOLEAN /\ refusals' \in 0 .. MaxRefusals
      BY <1>5, AdvertisingTypes DEF Disconnect
    <2> QED
      BY <1>5, <2>1 DEF Disconnect
  <1>6. CASE Subscribe
    BY <1>6 DEF Subscribe
  <1>7. CASE MapperTick
    BY <1>7 DEF MapperTick, Send, ble_gamepad_is_ready
  <1>8. CASE Notify
    BY <1>8 DEF Notify, Refused
  <1>9. CASE Remember
    BY <1>9 DEF Remember
  <1>10. CASE StartTask
    <2>1. advertising' \in BOOLEAN /\ refusals' \in 0 .. MaxRefusals
      BY <1>10, AdvertisingTypes DEF StartTask
    <2> QED
      BY <1>10, <2>1 DEF StartTask
  <1>11. CASE LinkUp
    BY <1>11 DEF LinkUp
  <1>12. CASE PcEnables \/ PcDisables
    BY <1>12 DEF PcEnables, PcDisables
  <1>13. CASE PcAnswers
    BY <1>13 DEF PcAnswers
  <1>14. CASE AirLost
    BY <1>14 DEF AirLost
  <1>15. CASE LinkDown
    BY <1>15 DEF LinkDown, NoPc
  <1>16. CASE Reset
    <2>1. resets' \in 0 .. MaxResets
      BY <1>16 DEF Reset, HostReset
    <2>2. event' \in {"none", "unsubscribe", "disconnect"}
      BY <1>16 DEF Reset
    <2>3. synced' = FALSE /\ advertising' = FALSE /\ link' = FALSE /\ air' = FALSE
      BY <1>16 DEF Reset, HostReset
    <2>4. UNCHANGED <<boot, EV_SYNCED, refusals>>
      BY <1>16 DEF Reset, HostReset
    <2> QED
      BY <2>1, <2>2, <2>3, <2>4
  <1>17. CASE StackStep
    <2>1. CASE BootStep
      <3>1. boot' \in 0 .. Len(BringUp)
        BY <2>1 DEF BootStep, BringUp
      <3>2. UNCHANGED <<synced, EV_SYNCED, resets, airVars, refusals>>
        BY <1>17, <2>1 DEF StackStep, BootStep, Sync
      <3> QED
        BY <3>1, <3>2
    <2>2. CASE Sync
      <3>1. synced' \in BOOLEAN /\ EV_SYNCED' \in BOOLEAN
        BY <2>2 DEF Sync
      <3>2. UNCHANGED <<boot, resets, airVars, refusals>>
        BY <1>17, <2>2 DEF StackStep, Sync
      <3> QED
        BY <3>1, <3>2
    <2> QED
      BY <1>17, <2>1, <2>2 DEF StackStep
  <1>18. CASE InputChanges
    BY <1>18 DEF InputChanges
  <1>19. CASE OpenBegins
    BY <1>19 DEF OpenBegins
  <1>20. CASE OpenEnds
    BY <1>20 DEF OpenEnds
  <1>21. CASE /\ Wait \/ NextRung \/ Await
            /\ UNCHANGED <<padVars, mapperVars, advertising, link, air, interval, event, enabled,
                      seen, lapped, muted, inputVars, stackVars, links>>
    BY <1>21 DEF Wait, NextRung, Await, Request, Refused, Leave, conn_find,
            ble_gamepad_is_ready
  <1> QED
    BY <1>1, <1>2, <1>3, <1>4, <1>5, <1>6, <1>7, <1>8, <1>9, <1>10, <1>11, <1>12, <1>13,
       <1>14, <1>15, <1>16, <1>17, <1>18, <1>19, <1>20, <1>21
       DEF Next, gap_event, mapper_task, gamepad_task, negotiate_pad_interval

LEMMA SendNext == SendTypes /\ [Next]_vars => SendTypes'
  <1> SUFFICES ASSUME SendTypes, [Next]_vars PROVE SendTypes'
    OBVIOUS
  <1> USE BleGamepadAssumption DEF SendTypes, padVars, mapperVars, taskVars, airVars, pcVars,
          inputVars, stackVars
  <1>1. CASE UNCHANGED vars
    BY <1>1 DEF vars
  <1>2. CASE Connect
    BY <1>2 DEF Connect
  <1>3. CASE ConnectFailed
    BY <1>3 DEF ConnectFailed, start_advertising, Refused
  <1>4. CASE SubscriptionEnds
    BY <1>4 DEF SubscriptionEnds
  <1>5. CASE Disconnect
    BY <1>5 DEF Disconnect, start_advertising, Refused
  <1>6. CASE Subscribe
    BY <1>6 DEF Subscribe
  <1>7. CASE MapperTick
    BY <1>7 DEF MapperTick, Send, ble_gamepad_is_ready
  <1>8. CASE Notify
    BY <1>8 DEF Notify, Refused
  <1>9. CASE Remember
    BY <1>9 DEF Remember
  <1>10. CASE StartTask
    BY <1>10 DEF StartTask, start_advertising, Refused
  <1>11. CASE LinkUp
    BY <1>11 DEF LinkUp
  <1>12. CASE PcEnables \/ PcDisables
    BY <1>12 DEF PcEnables, PcDisables
  <1>13. CASE PcAnswers
    BY <1>13 DEF PcAnswers
  <1>14. CASE AirLost
    BY <1>14 DEF AirLost
  <1>15. CASE LinkDown
    BY <1>15 DEF LinkDown, NoPc
  <1>16. CASE Reset
    BY <1>16 DEF Reset, HostReset, NoPc
  <1>17. CASE StackStep
    BY <1>17 DEF StackStep, BootStep, Sync
  <1>18. CASE InputChanges
    BY <1>18 DEF InputChanges
  <1>19. CASE OpenBegins
    BY <1>19 DEF OpenBegins
  <1>20. CASE OpenEnds
    BY <1>20 DEF OpenEnds
  <1>21. CASE /\ Wait \/ NextRung \/ Await
            /\ UNCHANGED <<padVars, mapperVars, advertising, link, air, interval, event, enabled,
                      seen, lapped, muted, inputVars, stackVars, links>>
    BY <1>21 DEF Wait, NextRung, Await, Request, Refused, Leave, conn_find,
            ble_gamepad_is_ready
  <1> QED
    BY <1>1, <1>2, <1>3, <1>4, <1>5, <1>6, <1>7, <1>8, <1>9, <1>10, <1>11, <1>12, <1>13,
       <1>14, <1>15, <1>16, <1>17, <1>18, <1>19, <1>20, <1>21
       DEF Next, gap_event, mapper_task, gamepad_task, negotiate_pad_interval

LEMMA FlagNext == AirTypes /\ FlagTypes /\ [Next]_vars => FlagTypes'
  <1> SUFFICES ASSUME AirTypes, FlagTypes, [Next]_vars PROVE FlagTypes'
    OBVIOUS
  <1> USE BleGamepadAssumption DEF AirTypes, FlagTypes, padVars, mapperVars, taskVars,
          airVars, pcVars, inputVars, stackVars
  <1>1. CASE UNCHANGED vars
    BY <1>1 DEF vars
  <1>2. CASE Connect
    BY <1>2 DEF Connect
  <1>3. CASE ConnectFailed
    BY <1>3 DEF ConnectFailed, start_advertising, Refused
  <1>4. CASE SubscriptionEnds
    BY <1>4 DEF SubscriptionEnds
  <1>5. CASE Disconnect
    BY <1>5 DEF Disconnect, start_advertising, Refused
  <1>6. CASE Subscribe
    BY <1>6 DEF Subscribe
  <1>7. CASE MapperTick
    BY <1>7 DEF MapperTick, Send, ble_gamepad_is_ready
  <1>8. CASE Notify
    BY <1>8 DEF Notify, Refused
  <1>9. CASE Remember
    BY <1>9 DEF Remember
  <1>10. CASE StartTask
    BY <1>10 DEF StartTask, start_advertising, Refused
  <1>11. CASE LinkUp
    BY <1>11 DEF LinkUp
  <1>12. CASE PcEnables \/ PcDisables
    BY <1>12 DEF PcEnables, PcDisables
  <1>13. CASE PcAnswers
    BY <1>13 DEF PcAnswers
  <1>14. CASE AirLost
    BY <1>14 DEF AirLost
  <1>15. CASE LinkDown
    BY <1>15 DEF LinkDown, NoPc
  <1>16. CASE Reset
    BY <1>16 DEF Reset, HostReset, NoPc
  <1>17. CASE StackStep
    BY <1>17 DEF StackStep, BootStep, Sync
  <1>18. CASE InputChanges
    BY <1>18 DEF InputChanges
  <1>19. CASE OpenBegins
    BY <1>19 DEF OpenBegins
  <1>20. CASE OpenEnds
    BY <1>20 DEF OpenEnds
  <1>21. CASE /\ Wait \/ NextRung \/ Await
            /\ UNCHANGED <<padVars, mapperVars, advertising, link, air, interval, event, enabled,
                      seen, lapped, muted, inputVars, stackVars, links>>
    BY <1>21 DEF Wait, NextRung, Await, Request, Refused, Leave, conn_find,
            ble_gamepad_is_ready
  <1> QED
    BY <1>1, <1>2, <1>3, <1>4, <1>5, <1>6, <1>7, <1>8, <1>9, <1>10, <1>11, <1>12, <1>13,
       <1>14, <1>15, <1>16, <1>17, <1>18, <1>19, <1>20, <1>21
       DEF Next, gap_event, mapper_task, gamepad_task, negotiate_pad_interval

LEMMA TaskNext == FlagTypes /\ TaskTypes /\ [Next]_vars => TaskTypes'
  <1> SUFFICES ASSUME FlagTypes, TaskTypes, [Next]_vars PROVE TaskTypes'
    OBVIOUS
  <1> USE BleGamepadAssumption DEF FlagTypes, TaskTypes, padVars, mapperVars, taskVars,
          airVars, pcVars, inputVars, stackVars
  <1>1. CASE UNCHANGED vars
    BY <1>1 DEF vars
  <1>2. CASE Connect
    BY <1>2 DEF Connect
  <1>3. CASE ConnectFailed
    BY <1>3 DEF ConnectFailed, start_advertising, Refused
  <1>4. CASE SubscriptionEnds
    BY <1>4 DEF SubscriptionEnds
  <1>5. CASE Disconnect
    BY <1>5 DEF Disconnect, start_advertising, Refused
  <1>6. CASE Subscribe
    BY <1>6 DEF Subscribe
  <1>7. CASE MapperTick
    BY <1>7 DEF MapperTick, Send, ble_gamepad_is_ready
  <1>8. CASE Notify
    BY <1>8 DEF Notify, Refused
  <1>9. CASE Remember
    BY <1>9 DEF Remember
  <1>10. CASE StartTask
    BY <1>10 DEF StartTask, start_advertising, Refused
  <1>11. CASE LinkUp
    BY <1>11 DEF LinkUp
  <1>12. CASE PcEnables \/ PcDisables
    BY <1>12 DEF PcEnables, PcDisables
  <1>13. CASE PcAnswers
    BY <1>13 DEF PcAnswers
  <1>14. CASE AirLost
    BY <1>14 DEF AirLost
  <1>15. CASE LinkDown
    BY <1>15 DEF LinkDown, NoPc
  <1>16. CASE Reset
    BY <1>16 DEF Reset, HostReset, NoPc
  <1>17. CASE StackStep
    BY <1>17 DEF StackStep, BootStep, Sync
  <1>18. CASE InputChanges
    BY <1>18 DEF InputChanges
  <1>19. CASE OpenBegins
    BY <1>19 DEF OpenBegins
  <1>20. CASE OpenEnds
    BY <1>20 DEF OpenEnds
  <1>21. CASE /\ Wait \/ NextRung \/ Await
            /\ UNCHANGED <<padVars, mapperVars, advertising, link, air, interval, event, enabled,
                      seen, lapped, muted, inputVars, stackVars, links>>
    <2>1. CASE Wait
      <3>1. negotiated' \in BOOLEAN
        BY <2>1 DEF Wait, ble_gamepad_is_ready
      <3>2. /\ task = "idle" /\ tries' = tries
            /\ (task' = task /\ rung' = rung) \/ (task' = "rung" /\ rung' = 1)
        <4>1. CASE ble_gamepad_is_ready /\ ~negotiated /\ conn_find
          BY <2>1, <4>1 DEF Wait
        <4>2. CASE ~(ble_gamepad_is_ready /\ ~negotiated /\ conn_find)
          BY <2>1, <4>2 DEF Wait
        <4> QED
          BY <4>1, <4>2
      <3>3. 1 \in 0 .. Len(Ladder) + 1
        BY LadderLength
      <3> QED
        BY <3>1, <3>2, <3>3
    <2>2. CASE NextRung
      <3>1. negotiated' \in BOOLEAN
        BY <2>2 DEF NextRung, Request, Leave
      <3>2. CASE rung <= Len(Ladder) /\ Request
        BY <2>2, <3>1, <3>2, LadderLength DEF NextRung, Request
      <3>3. CASE Leave
        BY <3>1, <3>3, LadderLength DEF Leave
      <3> QED
        BY <2>2, <3>2, <3>3 DEF NextRung
    <2>3. CASE Await
      <3>1. negotiated' \in BOOLEAN
        BY <2>3 DEF Await, Request, Leave
      <3>2. CASE tries < Tries /\ Request
        BY <2>3, <3>1, <3>2, LadderLength DEF Await, Request
      <3>3. CASE Leave
        BY <3>1, <3>3, LadderLength DEF Leave
      <3>4. CASE task' = "rung" /\ rung' = rung + 1 /\ tries' = 0
        BY <2>3, <3>1, <3>4, LadderLength DEF Await
      <3> QED
        BY <2>3, <3>2, <3>3, <3>4 DEF Await
    <2> QED
      BY <1>21, <2>1, <2>2, <2>3
  <1> QED
    BY <1>1, <1>2, <1>3, <1>4, <1>5, <1>6, <1>7, <1>8, <1>9, <1>10, <1>11, <1>12, <1>13,
       <1>14, <1>15, <1>16, <1>17, <1>18, <1>19, <1>20, <1>21
       DEF Next, gap_event, mapper_task, gamepad_task, negotiate_pad_interval

LEMMA LinkNext == LinkInv /\ [Next]_vars => LinkInv'
  <1> SUFFICES ASSUME LinkInv, [Next]_vars PROVE LinkInv'
    OBVIOUS
  <1> USE BleGamepadAssumption DEF LinkInv, padVars, mapperVars, taskVars, airVars, pcVars,
          inputVars, stackVars
  <1>1. CASE UNCHANGED vars
    BY <1>1 DEF vars
  <1>2. CASE Connect
    BY <1>2 DEF Connect
  <1>3. CASE ConnectFailed
    BY <1>3 DEF ConnectFailed, start_advertising, Refused
  <1>4. CASE SubscriptionEnds
    BY <1>4 DEF SubscriptionEnds
  <1>5. CASE Disconnect
    BY <1>5 DEF Disconnect, start_advertising, Refused
  <1>6. CASE Subscribe
    BY <1>6 DEF Subscribe
  <1>7. CASE MapperTick
    BY <1>7 DEF MapperTick, Send, ble_gamepad_is_ready
  <1>8. CASE Notify
    BY <1>8 DEF Notify, Refused
  <1>9. CASE Remember
    BY <1>9 DEF Remember
  <1>10. CASE StartTask
    BY <1>10 DEF StartTask, start_advertising, Refused
  <1>11. CASE LinkUp
    <2>1. ~link /\ event = "none" /\ ~connected /\ ~subscribed /\ ~air
      BY <1>11 DEF LinkUp
    <2>2. UNCHANGED <<connected, subscribed, task, pc>> /\ pc = "idle"
      BY <1>11 DEF LinkUp
    <2>3. CASE event' = "connect"
      <3>1. link' /\ lapped' = (task \notin {"start", "idle"})
        BY <1>11, <2>3 DEF LinkUp
      <3>2. ~lapped' => task \in {"start", "idle"}
        BY <3>1
      <3> QED
        BY <2>1, <2>2, <2>3, <3>1, <3>2
    <2>4. CASE event' = "failed"
      <3>1. UNCHANGED <<link, air>>
        BY <1>11, <2>4 DEF LinkUp
      <3> QED
        BY <2>1, <2>2, <2>4, <3>1
    <2> QED
      BY <1>11, <2>3, <2>4 DEF LinkUp
  <1>12. CASE PcEnables \/ PcDisables
    BY <1>12 DEF PcEnables, PcDisables
  <1>13. CASE PcAnswers
    BY <1>13 DEF PcAnswers
  <1>14. CASE AirLost
    BY <1>14 DEF AirLost
  <1>15. CASE LinkDown
    BY <1>15 DEF LinkDown, NoPc
  <1>16. CASE Reset
    BY <1>16 DEF Reset, HostReset, NoPc
  <1>17. CASE StackStep
    BY <1>17 DEF StackStep, BootStep, Sync
  <1>18. CASE InputChanges
    BY <1>18 DEF InputChanges
  <1>19. CASE OpenBegins
    BY <1>19 DEF OpenBegins
  <1>20. CASE OpenEnds
    BY <1>20 DEF OpenEnds
  <1>21. CASE /\ Wait \/ NextRung \/ Await
            /\ UNCHANGED <<padVars, mapperVars, advertising, link, air, interval, event, enabled,
                      seen, lapped, muted, inputVars, stackVars, links>>
    BY <1>21 DEF Wait, NextRung, Await, Request, Refused, Leave, conn_find,
            ble_gamepad_is_ready
  <1> QED
    BY <1>1, <1>2, <1>3, <1>4, <1>5, <1>6, <1>7, <1>8, <1>9, <1>10, <1>11, <1>12, <1>13,
       <1>14, <1>15, <1>16, <1>17, <1>18, <1>19, <1>20, <1>21
       DEF Next, gap_event, mapper_task, gamepad_task, negotiate_pad_interval

LEMMA SentNext == LinkInv /\ Counters /\ SentInv /\ [Next]_vars => SentInv'
  <1> SUFFICES ASSUME LinkInv, Counters, SentInv, [Next]_vars PROVE SentInv'
    OBVIOUS
  <1> USE BleGamepadAssumption DEF LinkInv, SentInv, LastIsKnown, Counters, padVars,
          mapperVars, taskVars, airVars, pcVars, inputVars, stackVars
  <1>1. CASE UNCHANGED vars
    BY <1>1 DEF vars
  <1>2. CASE Connect
    BY <1>2 DEF Connect
  <1>3. CASE ConnectFailed
    BY <1>3 DEF ConnectFailed, start_advertising, Refused
  <1>4. CASE SubscriptionEnds
    BY <1>4 DEF SubscriptionEnds
  <1>5. CASE Disconnect
    BY <1>5 DEF Disconnect, start_advertising, Refused
  <1>6. CASE Subscribe
    BY <1>6 DEF Subscribe
  <1>7. CASE MapperTick
    BY <1>7 DEF MapperTick, Send, ble_gamepad_is_ready
  <1>8. CASE Notify
    BY <1>8 DEF Notify, Refused
  <1>9. CASE Remember
    BY <1>9 DEF Remember
  <1>10. CASE StartTask
    BY <1>10 DEF StartTask, start_advertising, Refused
  <1>11. CASE LinkUp
    BY <1>11 DEF LinkUp
  <1>12. CASE PcEnables \/ PcDisables
    BY <1>12 DEF PcEnables, PcDisables
  <1>13. CASE PcAnswers
    BY <1>13 DEF PcAnswers
  <1>14. CASE AirLost
    BY <1>14 DEF AirLost
  <1>15. CASE LinkDown
    BY <1>15 DEF LinkDown, NoPc
  <1>16. CASE Reset
    BY <1>16 DEF Reset, HostReset, NoPc
  <1>17. CASE StackStep
    BY <1>17 DEF StackStep, BootStep, Sync
  <1>18. CASE InputChanges
    BY <1>18 DEF InputChanges
  <1>19. CASE OpenBegins
    BY <1>19 DEF OpenBegins
  <1>20. CASE OpenEnds
    BY <1>20 DEF OpenEnds
  <1>21. CASE /\ Wait \/ NextRung \/ Await
            /\ UNCHANGED <<padVars, mapperVars, advertising, link, air, interval, event, enabled,
                      seen, lapped, muted, inputVars, stackVars, links>>
    BY <1>21 DEF Wait, NextRung, Await, Request, Refused, Leave, conn_find,
            ble_gamepad_is_ready
  <1> QED
    BY <1>1, <1>2, <1>3, <1>4, <1>5, <1>6, <1>7, <1>8, <1>9, <1>10, <1>11, <1>12, <1>13,
       <1>14, <1>15, <1>16, <1>17, <1>18, <1>19, <1>20, <1>21
       DEF Next, gap_event, mapper_task, gamepad_task, negotiate_pad_interval

LEMMA FoundNext == LinkInv /\ Counters /\ FoundInv /\ [Next]_vars => FoundInv'
  <1> SUFFICES ASSUME LinkInv, Counters, FoundInv, [Next]_vars PROVE FoundInv'
    OBVIOUS
  <1> USE BleGamepadAssumption DEF LinkInv, FoundInv, FoundUnlessRefused, Counters, padVars,
          mapperVars, taskVars, airVars, pcVars, inputVars, stackVars
  <1>1. CASE UNCHANGED vars
    BY <1>1 DEF vars
  <1>2. CASE Connect
    BY <1>2 DEF Connect
  <1>3. CASE ConnectFailed
    BY <1>3 DEF ConnectFailed, start_advertising, Refused
  <1>4. CASE SubscriptionEnds
    BY <1>4 DEF SubscriptionEnds
  <1>5. CASE Disconnect
    BY <1>5 DEF Disconnect, start_advertising, Refused
  <1>6. CASE Subscribe
    BY <1>6 DEF Subscribe
  <1>7. CASE MapperTick
    BY <1>7 DEF MapperTick, Send, ble_gamepad_is_ready
  <1>8. CASE Notify
    BY <1>8 DEF Notify, Refused
  <1>9. CASE Remember
    BY <1>9 DEF Remember
  <1>10. CASE StartTask
    BY <1>10 DEF StartTask, start_advertising, Refused
  <1>11. CASE LinkUp
    BY <1>11 DEF LinkUp
  <1>12. CASE PcEnables \/ PcDisables
    BY <1>12 DEF PcEnables, PcDisables
  <1>13. CASE PcAnswers
    BY <1>13 DEF PcAnswers
  <1>14. CASE AirLost
    BY <1>14 DEF AirLost
  <1>15. CASE LinkDown
    BY <1>15 DEF LinkDown, NoPc
  <1>16. CASE Reset
    BY <1>16 DEF Reset, HostReset, NoPc
  <1>17. CASE StackStep
    <2>1. CASE BootStep
      BY <1>17, <2>1 DEF StackStep, BootStep
    <2>2. CASE Sync /\ event = "none"
      <3>1. synced' /\ (EV_SYNCED => EV_SYNCED')
        BY <2>2 DEF Sync
      <3>2. UNCHANGED <<task, link, advertising, event, refusals, resets>>
        BY <1>17, <2>2 DEF StackStep, Sync
      <3> QED
        BY <3>1, <3>2
    <2> QED
      BY <1>17, <2>1, <2>2 DEF StackStep
  <1>18. CASE InputChanges
    BY <1>18 DEF InputChanges
  <1>19. CASE OpenBegins
    BY <1>19 DEF OpenBegins
  <1>20. CASE OpenEnds
    BY <1>20 DEF OpenEnds
  <1>21. CASE /\ Wait \/ NextRung \/ Await
            /\ UNCHANGED <<padVars, mapperVars, advertising, link, air, interval, event, enabled,
                      seen, lapped, muted, inputVars, stackVars, links>>
    BY <1>21 DEF Wait, NextRung, Await, Request, Refused, Leave, conn_find,
            ble_gamepad_is_ready
  <1> QED
    BY <1>1, <1>2, <1>3, <1>4, <1>5, <1>6, <1>7, <1>8, <1>9, <1>10, <1>11, <1>12, <1>13,
       <1>14, <1>15, <1>16, <1>17, <1>18, <1>19, <1>20, <1>21
       DEF Next, gap_event, mapper_task, gamepad_task, negotiate_pad_interval

--------------------------------------------------------------------------------
LEMMA InvInit == Init => GamepadInv
  <1> SUFFICES ASSUME Init PROVE GamepadInv
    OBVIOUS
  <1> USE BleGamepadAssumption, BleStackAssumption, LadderLength DEF Init, StackInit
  <1>1. AirTypes
    <2>1. boot \in 0 .. Len(BringUp) /\ refusals \in 0 .. MaxRefusals /\ resets \in 0 .. MaxResets
      BY DEF BringUp
    <2>2. synced = FALSE /\ EV_SYNCED = FALSE /\ advertising = FALSE /\ link = FALSE /\ air = FALSE
      OBVIOUS
    <2> QED
      BY <2>1, <2>2 DEF AirTypes
  <1>2. SendTypes /\ FlagTypes
    BY DEF SendTypes, FlagTypes
  <1>3. TaskTypes
    <2>1. rung \in 0 .. Len(Ladder) + 1 /\ tries \in 0 .. Tries
      OBVIOUS
    <2>2. task = "start" /\ negotiated = FALSE /\ tries = 0
      OBVIOUS
    <2> QED
      BY <2>1, <2>2 DEF TaskTypes
  <1>4. LinkInv /\ SentInv
    BY DEF LinkInv, SentInv, LastIsKnown
  <1>5. FoundInv
    BY DEF FoundInv, FoundUnlessRefused
  <1> QED
    BY <1>1, <1>2, <1>3, <1>4, <1>5 DEF GamepadInv

LEMMA InvAlways == Spec => []GamepadInv
  <1>1. GamepadInv /\ [Next]_vars => GamepadInv'
    <2> SUFFICES ASSUME GamepadInv, [Next]_vars PROVE GamepadInv'
      OBVIOUS
    <2>1. Counters
      BY BleGamepadAssumption, BleStackAssumption DEF GamepadInv, AirTypes, Counters
    <2>2. AirTypes' /\ SendTypes' /\ FlagTypes' /\ TaskTypes'
      BY AirNext, SendNext, FlagNext, TaskNext DEF GamepadInv
    <2>3. LinkInv' /\ SentInv' /\ FoundInv'
      BY <2>1, LinkNext, SentNext, FoundNext DEF GamepadInv
    <2> QED
      BY <2>2, <2>3 DEF GamepadInv
  <1> QED
    BY InvInit, <1>1, PTL DEF Spec

(* Type correctness of the pad: the ladder of intervals is never read past *)
(* its end, and nothing but reports is ever sent.                          *)
THEOREM GamepadTypeCorrect == Spec => []GamepadTypeOK
  <1>1. GamepadInv => GamepadTypeOK
    BY DEF GamepadInv, AirTypes, SendTypes, FlagTypes, TaskTypes, GamepadTypeOK
  <1> QED
    BY InvAlways, <1>1, PTL

(* The report that ble_gamepad_send() skips as unchanged is the one the PC *)
(* has from this connection: both are forgotten together.                  *)
THEOREM LastStaysKnown == Spec => []LastIsKnown
  <1>1. GamepadInv => LastIsKnown
    BY DEF GamepadInv, SentInv
  <1> QED
    BY InvAlways, <1>1, PTL

(* The one report at rest that opens the window of an open is the last one *)
(* the PC gets until the window is over, over this link or a new one, if   *)
(* it listens.                                                             *)
THEOREM NeutralThroughOpening == Spec => []NeutralWhileOpening
  <1>1. GamepadInv => NeutralWhileOpening
    BY DEF GamepadInv, SentInv, NeutralWhileOpening
  <1> QED
    BY InvAlways, <1>1, PTL

(* Advertising starts again after every link and every attempt that fails, *)
(* so that only a refused start or a reset of the host leaves the pad      *)
(* where no PC can find it.                                                *)
THEOREM AlwaysFoundUnlessRefused == Spec => []FoundUnlessRefused
  <1>1. GamepadInv => FoundUnlessRefused
    BY DEF GamepadInv, FoundInv
  <1> QED
    BY InvAlways, <1>1, PTL

(* negotiate_pad_interval() first speaks to a PC that has enabled          *)
(* notifications, unless the link was replaced between two rungs.          *)
THEOREM PcIsAskedWhenReady == Spec => AskedWhenReady
  <1>1. GamepadInv /\ [Next]_vars => [served' /\ ~served => subscribed \/ muted \/ lapped]_vars
    <2> SUFFICES ASSUME GamepadInv, Next, served', ~served
                 PROVE  subscribed \/ muted \/ lapped
      BY DEF vars
    <2> USE DEF GamepadInv, LinkInv, padVars, mapperVars, taskVars, airVars, pcVars,
            inputVars, stackVars
    <2>1. CASE NextRung
      BY <2>1 DEF NextRung, Request, Leave, conn_find
    <2>2. CASE Await
      BY <2>2 DEF Await, Request, Leave, conn_find
    <2>3. CASE Wait
      BY <2>3 DEF Wait
    <2>4. CASE LinkUp
      BY <2>4 DEF LinkUp
    <2>5. CASE LinkDown \/ Reset
      BY <2>5 DEF LinkDown, Reset, NoPc
    <2> QED
      BY <2>1, <2>2, <2>3, <2>4, <2>5
         DEF Next, gap_event, Connect, ConnectFailed, SubscriptionEnds, Disconnect, Subscribe,
             mapper_task, MapperTick, Notify, Remember, gamepad_task, StartTask,
             negotiate_pad_interval, StackStep, PcEnables, PcDisables, PcAnswers, AirLost, InputChanges,
             OpenBegins, OpenEnds
  <1> QED
    BY InvAlways, <1>1, PTL DEF Spec, AskedWhenReady
================================================================================
