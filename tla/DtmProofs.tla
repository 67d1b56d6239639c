------------------------------ MODULE DtmProofs ------------------------------
(***************************************************************************)
(* Theorems about DtmCoordination, for every value of its constants: type  *)
(* correctness, the end of QoS data exchanges, and the refinement of       *)
(* MediumSharing; then the reservation CTS: how late it may be, how long   *)
(* it keeps the AP quiet, and when the PHY is free for what the AP sends.  *)
(***************************************************************************)
EXTENDS DtmCoordination, FiniteSetTheorems, WellFoundedInduction, TLAPS

(* When the answer to a QoS PPDU whose data ends at t has ended too.       *)
Answered(t) == t + Sifs + AckAirtime

(* The notification of a cycle is delivered in time, and the window the AP *)
(* knows is that of this cycle or of an earlier one; it knows none only    *)
(* before the first delivery.                                              *)
WindowInv ==
  /\ nextStart >= FirstStart
  /\ now =< nextStart
  /\ ~ Started => notifications = {} /\ windowEnd = 0
  /\ \A t \in notifications :
       t = nextStart - (WifiOn + LaaOn + CtsDuration) /\ now =< t + MaxDelay
  /\ windowEnd = 0 => ~ Started \/ notifications # {}
  /\ windowEnd > 0 => windowEnd + AckDuration =< WifiSlotEnd

(* Frames and answers are not overdue, and an answer comes, or started, at *)
(* most one SIFS after the last transmission: too soon for an access.      *)
PunctualInv ==
  /\ idleSince =< now
  /\ OnAir(apFrame) => now =< apFrame.end
  /\ OnAir(staFrame) => now =< staFrame.end
  /\ OnAir(apResponse) => now =< apResponse.at
  /\ OnAir(staResponse) => now =< staResponse.at
  /\ OnAir(staResponse) => staResponse.at =< idleSince + Sifs
  /\ staFrame.kind = "cts" => staFrame.start =< idleSince + Sifs

(* At every stage of an exchange, what is left of it fits.                 *)
ExchangeInv ==
  LET limit == WifiSlotEnd + Overrun
  IN  /\ apFrame.kind = "rts" =>
           Answered(apFrame.end + Sifs + CtsAirtime + Sifs + apPacket) =< limit
      /\ staResponse.kind = "cts" =>
           /\ staResponse.airtime = CtsAirtime
           /\ Answered(staResponse.at + CtsAirtime + Sifs + apPacket) =< limit
      /\ staFrame.kind = "cts" =>
           Answered(staFrame.end + Sifs + apPacket) =< limit
      /\ apResponse.kind = "data" =>
           Answered(apResponse.at + apResponse.airtime) =< limit
      /\ apFrame.kind \in {"data", "group"} => Answered(apFrame.end) =< limit
      /\ staResponse.kind = "dataAck" =>
           /\ staResponse.airtime = AckAirtime
           /\ staResponse.at + AckAirtime =< limit
      /\ staFrame.kind = "dataAck" => staFrame.end =< limit

IInv == TypeOK /\ WindowInv /\ PunctualInv /\ ExchangeInv
-----------------------------------------------------------------------------
(* Type correctness: every step keeps all times natural numbers, the end   *)
(* of the window among them.                                               *)
LEMMA FrameType ==
  ASSUME NEW kinds, NEW frame \in Frames(kinds), NEW kind \in kinds,
         NEW airtime \in Nat, now \in Nat
  PROVE  /\ NoFrame \in Frames(kinds)
         /\ Airing(kind, airtime) \in Frames(kinds)
         /\ Collided(frame) \in Frames(kinds)
         /\ Collided(Airing(kind, airtime)) \in Frames(kinds)
<1>1. NoFrame \in Frames(kinds)
      BY DEF NoFrame, Frames
<1>2. Airing(kind, airtime) \in Frames(kinds)
      BY DEF Airing, Frames
<1>3. ASSUME NEW f \in Frames(kinds) PROVE Collided(f) \in Frames(kinds)
      BY <1>3 DEF Collided, Frames
<1>4. QED BY <1>1, <1>2, <1>3

LEMMA AnswerType ==
  ASSUME NEW kinds, NEW kind \in kinds, NEW at \in Nat, NEW airtime \in Nat
  PROVE  /\ Silent \in Answers(kinds)
         /\ [kind |-> kind, at |-> at, airtime |-> airtime] \in Answers(kinds)
  BY DEF Silent, Answers

LEMMA ApSendType ==
  ASSUME TypeOK, NEW kind \in ApKinds, NEW airtime \in Nat, ApSend(kind, airtime)
  PROVE  /\ apFrame' \in Frames(ApKinds)
         /\ staFrame' \in Frames(StaKinds)
         /\ assertFailed' \in BOOLEAN
<1>1. /\ Airing(kind, airtime) \in Frames(ApKinds)
      /\ Collided(Airing(kind, airtime)) \in Frames(ApKinds)
      BY FrameType DEF TypeOK
<1>2. Collided(staFrame) \in Frames(StaKinds)
      BY FrameType, "ack" \in StaKinds DEF TypeOK, StaKinds
<1>3. QED BY <1>1, <1>2 DEF ApSend, TypeOK

LEMMA StaSendType ==
  ASSUME TypeOK, NEW kind \in StaKinds, NEW airtime \in Nat, StaSend(kind, airtime)
  PROVE  /\ apFrame' \in Frames(ApKinds)
         /\ staFrame' \in Frames(StaKinds)
<1>1. /\ Airing(kind, airtime) \in Frames(StaKinds)
      /\ Collided(Airing(kind, airtime)) \in Frames(StaKinds)
      BY FrameType DEF TypeOK
<1>2. Collided(apFrame) \in Frames(ApKinds)
      BY FrameType, "ack" \in ApKinds DEF TypeOK, ApKinds
<1>3. QED BY <1>1, <1>2 DEF StaSend, TypeOK

LEMMA TypeInit == Init => TypeOK
<1>1. NoFrame \in Frames(ApKinds) /\ NoFrame \in Frames(StaKinds)
      BY DEF NoFrame, Frames
<1>2. Silent \in Answers({"data", "ack"}) /\ Silent \in Answers(StaKinds)
      BY DEF Silent, Answers
<1>3. ASSUME Init
      PROVE  /\ now \in Nat /\ nextStart \in Nat /\ idleSince \in Nat
             /\ notifications \subseteq Nat /\ windowEnd \in Nat
             /\ apPacket \in Nat /\ apNavEnd \in Nat /\ staNavEnd \in Nat
      BY <1>3, DurationsAreNat DEF Init
<1>4. ASSUME Init
      PROVE  reservations \subseteq [due : Nat, at : Nat] /\ assertFailed \in BOOLEAN
      BY <1>4 DEF Init
<1>5. QED BY <1>1, <1>2, <1>3, <1>4 DEF Init, TypeOK

LEMMA TypeStep == TypeOK /\ [Next]_vars => TypeOK'
<1> SUFFICES ASSUME TypeOK, [Next]_vars PROVE TypeOK'
    OBVIOUS
<1> USE DurationsAreNat
<1>a. {"data", "group", "rts", "other", "acked", "reserve", "ack"} \subseteq ApKinds
      BY DEF ApKinds
<1>b. {"uplink", "dataAck", "ack", "cts"} \subseteq StaKinds
      BY DEF StaKinds
<1>c. Silent \in Answers({"data", "ack"}) /\ Silent \in Answers(StaKinds)
      BY DEF Silent, Answers
<1>d. NoFrame \in Frames(ApKinds) /\ NoFrame \in Frames(StaKinds)
      BY DEF NoFrame, Frames
<1>1. CASE StartNotificationApp
      BY <1>1 DEF StartNotificationApp, apVars, staVars, TypeOK
<1>2. ASSUME NEW t \in notifications, NotificationReceivedByWifiAp(t)
      PROVE  TypeOK'
  <2>1. /\ t \in Nat
        /\ t + WifiOn - AckDuration \in Nat
        /\ now + ((t - now) + WifiOn) \in Nat
        BY FirstWindowIsLongEnough DEF TypeOK
  <2>2. QED BY <1>2, <2>1 DEF NotificationReceivedByWifiAp, WindowFrom, staVars, TypeOK
<1>3. ASSUME NEW d \in DataAirtimes, StartQosData(d) PROVE TypeOK'
  <2>1. /\ apFrame' \in Frames(ApKinds)
        /\ staFrame' \in Frames(StaKinds)
        /\ assertFailed' \in BOOLEAN
        BY <1>3, <1>a, ApSendType DEF StartQosData
  <2>2. QED BY <1>3, <2>1 DEF StartQosData, orchestratorVars, TypeOK
<1>3g. ASSUME NEW d \in DataAirtimes, StartGroupQosData(d) PROVE TypeOK'
  <2>1. /\ apFrame' \in Frames(ApKinds)
        /\ staFrame' \in Frames(StaKinds)
        /\ assertFailed' \in BOOLEAN
        BY <1>3g, <1>a, ApSendType DEF StartGroupQosData
  <2>2. QED BY <1>3g, <2>1 DEF StartGroupQosData, orchestratorVars, TypeOK
<1>4. ASSUME NEW d \in OtherAirtimes, NEW kind \in {"other", "acked"},
             StartOther(d, kind)
      PROVE  TypeOK'
  <2>1. /\ apFrame' \in Frames(ApKinds)
        /\ staFrame' \in Frames(StaKinds)
        /\ assertFailed' \in BOOLEAN
        BY <1>4, <1>a, ApSendType DEF StartOther
  <2>2. QED BY <1>4, <2>1 DEF StartOther, orchestratorVars, TypeOK
<1>5. ASSUME NEW r \in reservations, ReserveMedium(r) PROVE TypeOK'
  <2>1. r \in [due : Nat, at : Nat]
        BY DEF TypeOK
  <2>2. CASE OnAir(apFrame)
    <3>1. [r EXCEPT !.at = now + 1] \in [due : Nat, at : Nat]
          BY <2>1 DEF TypeOK
    <3>2. QED BY <1>5, <2>2, <3>1
              DEF ReserveMedium, ReserveEvent, PollAgain, orchestratorVars, TypeOK
  <2>3. CASE ~ OnAir(apFrame)
    <3>1. /\ apFrame' \in Frames(ApKinds)
          /\ staFrame' \in Frames(StaKinds)
          /\ assertFailed' \in BOOLEAN
          BY <1>5, <2>3, <1>a, ApSendType DEF ReserveMedium, Reserve
    <3>2. QED BY <1>5, <2>3, <3>1
              DEF ReserveMedium, ReserveEvent, Reserve, Max2, orchestratorVars, TypeOK
  <2>4. QED BY <2>2, <2>3
<1>6. CASE ApRespond
  <2>1. apResponse.kind \in ApKinds /\ apResponse.airtime \in Nat
        BY <1>6, <1>a DEF ApRespond, OnAir, TypeOK, Answers
  <2>2. /\ apFrame' \in Frames(ApKinds)
        /\ staFrame' \in Frames(StaKinds)
        /\ assertFailed' \in BOOLEAN
        BY <1>6, <2>1, ApSendType DEF ApRespond
  <2>3. QED BY <1>6, <2>2, <1>c DEF ApRespond, orchestratorVars, TypeOK
<1>7. CASE ApFrameEnds
  <2>1. ASSUME NEW kind \in StaKinds, NEW airtime \in Nat
        PROVE  [kind |-> kind, at |-> now + Sifs, airtime |-> airtime]
                 \in Answers(StaKinds)
        BY AnswerType DEF TypeOK
  <2>2. staResponse' \in Answers(StaKinds)
        BY <1>7, <2>1, <1>b DEF ApFrameEnds, TypeOK
  <2>3. staNavEnd' \in Nat
        BY <1>7 DEF ApFrameEnds, Max2, TypeOK
  <2>4. QED BY <1>7, <2>2, <2>3, <1>d DEF ApFrameEnds, orchestratorVars, TypeOK
<1>8. ASSUME NEW d \in UplinkAirtimes, StaUplink(d) PROVE TypeOK'
  <2>1. apFrame' \in Frames(ApKinds) /\ staFrame' \in Frames(StaKinds)
        BY <1>8, <1>b, StaSendType DEF StaUplink
  <2>2. QED BY <1>8, <2>1 DEF StaUplink, orchestratorVars, TypeOK
<1>9. CASE StaRespond
  <2>1. staResponse.kind \in StaKinds /\ staResponse.airtime \in Nat
        BY <1>9 DEF StaRespond, OnAir, TypeOK, Answers
  <2>2. apFrame' \in Frames(ApKinds) /\ staFrame' \in Frames(StaKinds)
        BY <1>9, <2>1, StaSendType DEF StaRespond
  <2>3. QED BY <1>9, <2>2, <1>c DEF StaRespond, orchestratorVars, TypeOK
<1>10. CASE StaFrameEnds
  <2>1. ASSUME NEW kind \in {"data", "ack"}, NEW airtime \in Nat
        PROVE  [kind |-> kind, at |-> now + Sifs, airtime |-> airtime]
                 \in Answers({"data", "ack"})
        BY AnswerType DEF TypeOK
  <2>2. apResponse' \in Answers({"data", "ack"})
        BY <1>10, <2>1 DEF StaFrameEnds, TypeOK
  <2>3. QED BY <1>10, <2>2, <1>d DEF StaFrameEnds, orchestratorVars, TypeOK
<1>11. CASE Tick
      BY <1>11 DEF Tick, orchestratorVars, apVars, staVars, TypeOK
<1>12. CASE UNCHANGED vars
      BY <1>12 DEF vars, orchestratorVars, apVars, staVars, TypeOK
<1>13. QED BY <1>1, <1>2, <1>3, <1>3g, <1>4, <1>5, <1>6, <1>7, <1>8, <1>9, <1>10,
              <1>11, <1>12 DEF Next, ApStep, StaStep

(* Every variable keeps its type; in particular the end of the window of   *)
(* the AP, AckDuration before that of the Wi-Fi window, is not negative.   *)
THEOREM TypeCorrect == Spec => []TypeOK
<1>1. QED BY TypeInit, TypeStep, PTL DEF Spec

-----------------------------------------------------------------------------
(* What a step does to the frames on the air, field by field.              *)
LEMMA Fields ==
  ASSUME TypeOK
  PROVE  /\ now \in Nat /\ nextStart \in Nat /\ idleSince \in Nat
         /\ windowEnd \in Nat /\ apPacket \in Nat
         /\ apFrame.start \in Nat /\ apFrame.end \in Nat
         /\ staFrame.start \in Nat /\ staFrame.end \in Nat
         /\ apResponse.at \in Nat /\ apResponse.airtime \in Nat
         /\ staResponse.at \in Nat /\ staResponse.airtime \in Nat
         /\ apResponse.kind \in {"data", "ack", "none"}
         /\ staResponse.kind \in StaKinds \cup {"none"}
  BY DEF TypeOK, Frames, Answers

LEMMA NextFields ==
  ASSUME TypeOK'
  PROVE  /\ now' \in Nat /\ nextStart' \in Nat /\ idleSince' \in Nat
         /\ windowEnd' \in Nat /\ apPacket' \in Nat
         /\ apFrame'.start \in Nat /\ apFrame'.end \in Nat
         /\ staFrame'.start \in Nat /\ staFrame'.end \in Nat
         /\ apResponse'.at \in Nat /\ apResponse'.airtime \in Nat
         /\ staResponse'.at \in Nat /\ staResponse'.airtime \in Nat
  BY DEF TypeOK, Frames, Answers

LEMMA CollidedKeeps ==
  ASSUME NEW kinds, NEW frame \in Frames(kinds)
  PROVE  /\ Collided(frame).kind = frame.kind
         /\ Collided(frame).start = frame.start
         /\ Collided(frame).end = frame.end
  BY DEF Collided, Frames

LEMMA AiringFields ==
  ASSUME NEW kind, NEW airtime, NEW f \in {Airing(kind, airtime), Collided(Airing(kind, airtime))}
  PROVE  f.kind = kind /\ f.start = now /\ f.end = now + airtime
  BY DEF Airing, Collided

LEMMA ApSendEffect ==
  ASSUME TypeOK, NEW kind, NEW airtime, ApSend(kind, airtime)
  PROVE  /\ staFrame'.kind = staFrame.kind
         /\ staFrame'.start = staFrame.start
         /\ staFrame'.end = staFrame.end
         /\ \/ OnAir(apFrame) /\ apFrame' = apFrame
            \/ /\ apFrame'.kind = kind
               /\ apFrame'.start = now
               /\ apFrame'.end = now + airtime
<1>1. /\ Collided(staFrame).kind = staFrame.kind
      /\ Collided(staFrame).start = staFrame.start
      /\ Collided(staFrame).end = staFrame.end
      BY CollidedKeeps DEF TypeOK
<1>2. QED BY <1>1, AiringFields DEF ApSend

LEMMA StaSendEffect ==
  ASSUME TypeOK, NEW kind, NEW airtime, StaSend(kind, airtime)
  PROVE  /\ apFrame'.kind = apFrame.kind
         /\ apFrame'.start = apFrame.start
         /\ apFrame'.end = apFrame.end
         /\ staFrame'.kind = kind
         /\ staFrame'.start = now
         /\ staFrame'.end = now + airtime
<1>1. /\ Collided(apFrame).kind = apFrame.kind
      /\ Collided(apFrame).start = apFrame.start
      /\ Collided(apFrame).end = apFrame.end
      BY CollidedKeeps DEF TypeOK
<1>2. QED BY <1>1, AiringFields DEF StaSend

-----------------------------------------------------------------------------
(* The window.  A delivered notification sets the end of the window to     *)
(* AckDuration before the end of the Wi-Fi window of the cycle under way.  *)
LEMMA WindowStep ==
  ASSUME TypeOK, TypeOK', WindowInv, Next
  PROVE  WindowInv'
<1> USE DurationsAreNat, FirstWindowIsLongEnough
<1>0. notifications \subseteq Nat /\ notifications' \subseteq Nat
      BY DEF TypeOK
<1>1. CASE StartNotificationApp
  <2>1. notifications = {}
        BY <1>0, <1>1, Fields DEF StartNotificationApp, WindowInv
  <2>2. nextStart' = now + WifiOn + LaaOn + CtsDuration /\ notifications' = {now}
        /\ windowEnd' = windowEnd /\ now' = now /\ now = nextStart
        BY <1>1, <2>1 DEF StartNotificationApp, apVars
  <2>3. QED BY <2>2, Fields DEF WindowInv, Started, WifiSlotEnd
<1>2. ASSUME NEW t \in notifications, NotificationReceivedByWifiAp(t)
      PROVE  WindowInv'
  <2>1. Started /\ t \in Nat /\ t = nextStart - (WifiOn + LaaOn + CtsDuration)
        BY <1>0 DEF WindowInv
  <2>2. /\ now' = now /\ nextStart' = nextStart
        /\ notifications' = notifications \ {t}
        /\ windowEnd' = t + WifiOn - AckDuration
        BY <1>2 DEF NotificationReceivedByWifiAp, WindowFrom
  <2>3. windowEnd' > 0 /\ windowEnd' + AckDuration = WifiSlotEnd
        BY <2>1, <2>2, Fields DEF WifiSlotEnd
  <2>4. QED BY <1>0, <2>1, <2>2, <2>3, Fields DEF WindowInv, Started, WifiSlotEnd
<1>3. CASE Tick
      BY <1>0, <1>3, Fields
      DEF Tick, NothingDue, orchestratorVars, apVars, WindowInv, Started, WifiSlotEnd
<1>4. CASE UNCHANGED <<now, nextStart, notifications, windowEnd>>
      BY <1>4 DEF WindowInv, Started, WifiSlotEnd
<1>5. QED BY <1>1, <1>2, <1>3, <1>4
          DEF Next, ApStep, StaStep, StartQosData, StartGroupQosData,
              StartOther, ReserveMedium,
              ReserveEvent, ApRespond, ApFrameEnds, StaUplink, StaRespond,
              StaFrameEnds, orchestratorVars

(* A QoS PPDU that passes the check is over, and answered, when the Wi-Fi  *)
(* window ends, also while the AP knows of no window.                      *)
LEMMA CheckedDataFits ==
  ASSUME TypeOK, WindowInv, NEW d \in DataAirtimes, IsWithinTimeLimits(d)
  PROVE  now + d + AckDuration =< WifiSlotEnd
<1> USE DurationsAreNat, FirstWindowIsLongEnough
<1>0. d \in Nat /\ notifications \subseteq Nat
      BY DEF TypeOK
<1>1. CASE windowEnd > 0
      BY <1>0, <1>1, Fields DEF IsWithinTimeLimits, WindowInv, WifiSlotEnd, Started
<1>2. CASE ~ Started
      BY <1>0, <1>2, Fields DEF WindowInv, WifiSlotEnd
<1>3. CASE Started /\ windowEnd = 0
  <2>1. PICK t \in notifications : TRUE
        BY <1>3 DEF WindowInv
  <2>2. t = nextStart - (WifiOn + LaaOn + CtsDuration) /\ now =< t + MaxDelay
        BY <2>1 DEF WindowInv
  <2>3. QED BY <1>0, <1>3, <2>1, <2>2, Fields DEF WifiSlotEnd
<1>4. QED BY <1>1, <1>2, <1>3, Fields

-----------------------------------------------------------------------------
(* Punctuality.  Nothing scheduled or on the air is overdue, for the clock *)
(* waits for it; an answer is scheduled one SIFS after a transmission.     *)
LEMMA PunctualStep ==
  ASSUME TypeOK, TypeOK', PunctualInv, Next
  PROVE  PunctualInv'
<1> USE DurationsAreNat, Fields, NextFields
<1>1. ASSUME NEW kind, NEW airtime \in Nat, ApSend(kind, airtime),
             UNCHANGED <<now, idleSince, staResponse>>,
             apResponse' \in {apResponse, Silent}
      PROVE  PunctualInv'
  <2>1. /\ staFrame'.kind = staFrame.kind
        /\ staFrame'.start = staFrame.start
        /\ staFrame'.end = staFrame.end
        /\ \/ apFrame' = apFrame
           \/ apFrame'.end = now + airtime
        BY <1>1, ApSendEffect
  <2>2. OnAir(apResponse') => apResponse' = apResponse
        BY <1>1 DEF Silent, OnAir
  <2>3. QED BY <1>1, <2>1, <2>2 DEF PunctualInv, OnAir
<1>2. ASSUME NEW kind, NEW airtime \in Nat, StaSend(kind, airtime),
             UNCHANGED <<now, idleSince, apResponse>>,
             staResponse' \in {staResponse, Silent},
             kind = "cts" => now =< idleSince + Sifs
      PROVE  PunctualInv'
  <2>1. /\ apFrame'.kind = apFrame.kind
        /\ apFrame'.end = apFrame.end
        /\ staFrame'.kind = kind
        /\ staFrame'.start = now
        /\ staFrame'.end = now + airtime
        BY <1>2, StaSendEffect
  <2>2. OnAir(staResponse') => staResponse' = staResponse
        BY <1>2 DEF Silent, OnAir
  <2>3. QED BY <1>2, <2>1, <2>2 DEF PunctualInv, OnAir
<1>3. CASE StartNotificationApp
      BY <1>3 DEF StartNotificationApp, apVars, staVars, PunctualInv
<1>4. ASSUME NEW t \in notifications, NotificationReceivedByWifiAp(t)
      PROVE  PunctualInv'
      BY <1>4 DEF NotificationReceivedByWifiAp, WindowFrom, staVars, PunctualInv
<1>5. ASSUME NEW d \in DataAirtimes, StartQosData(d) PROVE PunctualInv'
      BY <1>1, <1>5 DEF StartQosData
<1>5g. ASSUME NEW d \in DataAirtimes, StartGroupQosData(d) PROVE PunctualInv'
      BY <1>1, <1>5g DEF StartGroupQosData
<1>6. ASSUME NEW d \in OtherAirtimes, NEW kind \in {"other", "acked"},
             StartOther(d, kind)
      PROVE  PunctualInv'
      BY <1>1, <1>6 DEF StartOther
<1>7. ASSUME NEW r \in reservations, ReserveMedium(r) PROVE PunctualInv'
  <2>1. CASE OnAir(apFrame)
        BY <1>7, <2>1 DEF ReserveMedium, ReserveEvent, PollAgain, PunctualInv
  <2>2. CASE ~ OnAir(apFrame)
        BY <1>1, <1>7, <2>2 DEF ReserveMedium, ReserveEvent, Reserve
  <2>3. QED BY <2>1, <2>2
<1>8. CASE ApRespond
      BY <1>1, <1>8 DEF ApRespond
<1>9. CASE ApFrameEnds
  <2>1. /\ now' = now /\ idleSince' = now /\ apFrame' = NoFrame
        /\ staFrame' = staFrame /\ apResponse' = apResponse
        /\ staResponse' = staResponse \/ staResponse'.at = now + Sifs
        BY <1>9 DEF ApFrameEnds
  <2>2. ~ OnAir(apFrame')
        BY <2>1 DEF NoFrame, OnAir
  <2>3. QED BY <2>1, <2>2 DEF PunctualInv
<1>10. ASSUME NEW d \in UplinkAirtimes, StaUplink(d) PROVE PunctualInv'
      BY <1>2, <1>10 DEF StaUplink
<1>11. CASE StaRespond
  <2>1. now =< idleSince + Sifs
        BY <1>11 DEF StaRespond, PunctualInv
  <2>2. QED BY <1>2, <1>11, <2>1 DEF StaRespond
<1>12. CASE StaFrameEnds
  <2>1. /\ now' = now /\ idleSince' = now /\ staFrame' = NoFrame
        /\ apFrame' = apFrame /\ staResponse' = staResponse
        /\ apResponse' = apResponse \/ apResponse'.at = now + Sifs
        BY <1>12 DEF StaFrameEnds
  <2>2. ~ OnAir(staFrame') /\ staFrame'.kind # "cts"
        BY <2>1 DEF NoFrame, OnAir
  <2>3. QED BY <2>1, <2>2 DEF PunctualInv
<1>13. CASE Tick
      BY <1>13 DEF Tick, NothingDue, apVars, staVars, PunctualInv
<1>14. QED BY <1>3, <1>4, <1>5, <1>5g, <1>6, <1>7, <1>8, <1>9, <1>10, <1>11, <1>12,
              <1>13 DEF Next, ApStep, StaStep

(* The AP contends for the medium only when no CTS is scheduled or on the  *)
(* air: an answer comes within SIFS, an access not before Ifs.             *)
LEMMA NoAccessBetween ==
  ASSUME TypeOK, PunctualInv, ApMayAccess
  PROVE  ~ OnAir(apFrame) /\ staResponse.kind # "cts" /\ staFrame.kind # "cts"
<1> USE DurationsAreNat, Fields
<1>1. now >= idleSince + Ifs /\ Sifs < Ifs
      BY DEF ApMayAccess, MediumSensedIdle
<1>2. staResponse.kind # "cts"
      BY <1>1 DEF PunctualInv, OnAir
<1>3. staFrame.kind # "cts"
      BY <1>1 DEF PunctualInv, ApMayAccess, MediumSensedIdle, OnAir
<1>4. QED BY <1>2, <1>3 DEF ApMayAccess

-----------------------------------------------------------------------------
(* The exchange.  Each stage takes over what the stage before it had left. *)
LEMMA OverrunCovers ==
  /\ RtsOverrun \in Nat /\ AckOverrun \in Nat /\ Overrun \in Nat
  /\ Overrun = RtsOverrun + AckOverrun
  /\ Sifs + AckAirtime =< AckDuration + AckOverrun
  BY DurationsAreNat DEF RtsOverrun, AckOverrun, Overrun, Max2

LEMMA LimitMonotone ==
  ASSUME TypeOK, TypeOK', WindowInv, Next
  PROVE  /\ WifiSlotEnd \in Int /\ WifiSlotEnd' \in Int
         /\ WifiSlotEnd =< WifiSlotEnd'
<1> USE DurationsAreNat, Fields, NextFields
<1>1. WifiSlotEnd \in Int /\ WifiSlotEnd' \in Int
      BY DEF WifiSlotEnd
<1>2. CASE StartNotificationApp
      BY <1>1, <1>2 DEF StartNotificationApp, WifiSlotEnd, Started, WindowInv
<1>3. CASE nextStart' = nextStart
      BY <1>1, <1>3 DEF WifiSlotEnd, Started
<1>4. QED BY <1>1, <1>2, <1>3
          DEF Next, ApStep, StaStep, NotificationReceivedByWifiAp, WindowFrom,
              StartQosData, StartGroupQosData, StartOther, ReserveMedium, ReserveEvent, ApRespond,
              ApFrameEnds, StaUplink, StaRespond, StaFrameEnds, Tick, orchestratorVars

LEMMA ExchangeStep ==
  ASSUME TypeOK, TypeOK', WindowInv, PunctualInv, ExchangeInv, Next
  PROVE  ExchangeInv'
<1> USE DurationsAreNat, OverrunCovers, Fields, NextFields, LimitMonotone
<1>1. ASSUME UNCHANGED <<apPacket, apResponse, apFrame, staResponse, staFrame>>
      PROVE  ExchangeInv'
      BY <1>1 DEF ExchangeInv, Answered
<1>2. ASSUME NEW kind \in {"other", "acked", "reserve"}, NEW airtime \in Nat,
             ApSend(kind, airtime),
             UNCHANGED <<apPacket, apResponse, staResponse>>
      PROVE  ExchangeInv'
  <2>1. /\ staFrame'.kind = staFrame.kind
        /\ staFrame'.end = staFrame.end
        /\ apFrame' = apFrame \/ apFrame'.kind \notin {"rts", "data", "group"}
        BY <1>2, ApSendEffect
  <2>2. QED BY <1>2, <2>1 DEF ExchangeInv, Answered
<1>3. ASSUME NEW d \in DataAirtimes, StartQosData(d) PROVE ExchangeInv'
  <2>1. /\ ~ OnAir(apFrame) /\ staResponse.kind # "cts" /\ staFrame.kind # "cts"
        /\ now + d + AckDuration =< WifiSlotEnd
        /\ UNCHANGED <<nextStart, apResponse, staResponse>> /\ apPacket' = d
        BY <1>3, NoAccessBetween, CheckedDataFits DEF StartQosData, orchestratorVars
  <2>2. CASE UseRts
    <3>1. /\ staFrame'.kind = staFrame.kind /\ staFrame'.end = staFrame.end
          /\ apFrame'.kind = "rts" /\ apFrame'.end = now + RtsAirtime
          BY <1>3, <2>1, <2>2, ApSendEffect DEF StartQosData
    <3>2. RtsOverrun = RtsAirtime + Sifs + CtsAirtime + Sifs
          BY <2>2 DEF RtsOverrun
    <3>3. Answered(apFrame'.end + Sifs + CtsAirtime + Sifs + apPacket')
            =< WifiSlotEnd' + Overrun
          BY <2>1, <3>1, <3>2 DEF Answered
    <3>4. QED BY <2>1, <3>1, <3>3 DEF ExchangeInv, Answered
  <2>3. CASE ~ UseRts
    <3>1. /\ staFrame'.kind = staFrame.kind /\ staFrame'.end = staFrame.end
          /\ apFrame'.kind = "data" /\ apFrame'.end = now + d
          BY <1>3, <2>1, <2>3, ApSendEffect DEF StartQosData
    <3>2. Answered(apFrame'.end) =< WifiSlotEnd' + Overrun
          BY <2>1, <3>1 DEF Answered
    <3>3. QED BY <2>1, <3>1, <3>2 DEF ExchangeInv, Answered
  <2>4. QED BY <2>2, <2>3
<1>3g. ASSUME NEW d \in DataAirtimes, StartGroupQosData(d) PROVE ExchangeInv'
  <2>1. /\ ~ OnAir(apFrame) /\ staResponse.kind # "cts" /\ staFrame.kind # "cts"
        /\ now + d + AckDuration =< WifiSlotEnd
        /\ UNCHANGED <<nextStart, apResponse, staResponse>> /\ apPacket' = d
        BY <1>3g, NoAccessBetween, CheckedDataFits DEF StartGroupQosData, orchestratorVars
  <2>2. /\ staFrame'.kind = staFrame.kind /\ staFrame'.end = staFrame.end
        /\ apFrame'.kind = "group" /\ apFrame'.end = now + d
        BY <1>3g, <2>1, ApSendEffect DEF StartGroupQosData
  <2>3. Answered(apFrame'.end) =< WifiSlotEnd' + Overrun
        BY <2>1, <2>2 DEF Answered
  <2>4. QED BY <2>1, <2>2, <2>3 DEF ExchangeInv, Answered
<1>4. ASSUME NEW d \in OtherAirtimes, NEW kind \in {"other", "acked"},
             StartOther(d, kind)
      PROVE  ExchangeInv'
  <2>1. /\ ~ OnAir(apFrame) /\ staResponse.kind # "cts" /\ staFrame.kind # "cts"
        /\ UNCHANGED <<apResponse, staResponse>>
        BY <1>4, NoAccessBetween DEF StartOther
  <2>2. /\ staFrame'.kind = staFrame.kind /\ staFrame'.end = staFrame.end
        /\ apFrame'.kind = kind
        BY <1>4, <2>1, ApSendEffect DEF StartOther
  <2>3. QED BY <2>1, <2>2 DEF ExchangeInv, Answered
<1>5. ASSUME NEW r \in reservations, ReserveMedium(r) PROVE ExchangeInv'
  <2>1. CASE OnAir(apFrame)
        BY <1>1, <1>5, <2>1 DEF ReserveMedium, ReserveEvent, PollAgain
  <2>2. CASE ~ OnAir(apFrame)
        BY <1>2, <1>5, <2>2 DEF ReserveMedium, ReserveEvent, Reserve
  <2>3. QED BY <2>1, <2>2
<1>6. CASE ApRespond
  <2>1. /\ staFrame'.kind = staFrame.kind /\ staFrame'.end = staFrame.end
        /\ \/ apFrame' = apFrame
           \/ /\ apFrame'.kind = apResponse.kind
              /\ apFrame'.end = apResponse.at + apResponse.airtime
        BY <1>6, ApSendEffect DEF ApRespond
  <2>2. /\ UNCHANGED <<apPacket, staResponse>> /\ apResponse'.kind = "none"
        BY <1>6 DEF ApRespond, Silent
  <2>3. QED BY <2>1, <2>2 DEF ExchangeInv, Answered
<1>7. CASE ApFrameEnds
  <2>1. /\ UNCHANGED <<apPacket, apResponse, staFrame, nextStart>>
        /\ apFrame'.kind = "none" /\ now = apFrame.end
        BY <1>7 DEF ApFrameEnds, NoFrame, orchestratorVars
  <2>2. \/ staResponse' = staResponse
        \/ /\ apFrame.kind = "data"
           /\ staResponse' = [kind |-> "dataAck", at |-> now + Sifs, airtime |-> AckAirtime]
        \/ staResponse'.kind = "ack"
        \/ /\ apFrame.kind = "rts"
           /\ staResponse' = [kind |-> "cts", at |-> now + Sifs, airtime |-> CtsAirtime]
        BY <1>7 DEF ApFrameEnds
  <2>3. /\ staResponse'.kind = "cts" =>
             /\ staResponse'.airtime = CtsAirtime
             /\ Answered(staResponse'.at + CtsAirtime + Sifs + apPacket')
                  =< WifiSlotEnd' + Overrun
        /\ staResponse'.kind = "dataAck" =>
             /\ staResponse'.airtime = AckAirtime
             /\ staResponse'.at + AckAirtime =< WifiSlotEnd' + Overrun
        BY <2>1, <2>2 DEF ExchangeInv, Answered
  <2>4. QED BY <2>1, <2>3 DEF ExchangeInv, Answered
<1>8. ASSUME NEW kind \in StaKinds, NEW airtime \in Nat, StaSend(kind, airtime),
             UNCHANGED <<apPacket, apResponse, nextStart>>,
             staResponse' \in {staResponse, Silent},
             kind = "cts" =>
               Answered(now + airtime + Sifs + apPacket) =< WifiSlotEnd + Overrun,
             kind = "dataAck" => now + airtime =< WifiSlotEnd + Overrun
      PROVE  ExchangeInv'
  <2>1. /\ apFrame'.kind = apFrame.kind /\ apFrame'.end = apFrame.end
        /\ staFrame'.kind = kind /\ staFrame'.end = now + airtime
        BY <1>8, StaSendEffect
  <2>2. staResponse' = staResponse \/ staResponse'.kind = "none"
        BY <1>8 DEF Silent
  <2>3. QED BY <1>8, <2>1, <2>2 DEF ExchangeInv, Answered
<1>9. ASSUME NEW d \in UplinkAirtimes, StaUplink(d) PROVE ExchangeInv'
      BY <1>8, <1>9 DEF StaUplink, StaKinds, orchestratorVars
<1>10. CASE StaRespond
  <2>1. /\ staResponse.kind \in StaKinds /\ now = staResponse.at
        BY <1>10 DEF StaRespond, OnAir
  <2>2. /\ staResponse.kind = "cts" =>
             Answered(now + staResponse.airtime + Sifs + apPacket)
               =< WifiSlotEnd + Overrun
        /\ staResponse.kind = "dataAck" =>
             now + staResponse.airtime =< WifiSlotEnd + Overrun
        BY <2>1 DEF ExchangeInv
  <2>3. QED BY <1>8, <1>10, <2>1, <2>2 DEF StaRespond, orchestratorVars
<1>11. CASE StaFrameEnds
  <2>1. /\ UNCHANGED <<apPacket, apFrame, staResponse, nextStart>>
        /\ staFrame'.kind = "none" /\ now = staFrame.end
        BY <1>11 DEF StaFrameEnds, NoFrame, orchestratorVars
  <2>2. \/ apResponse' = apResponse
        \/ apResponse'.kind = "ack"
        \/ /\ staFrame.kind = "cts"
           /\ apResponse' = [kind |-> "data", at |-> now + Sifs, airtime |-> apPacket]
        BY <1>11 DEF StaFrameEnds
  <2>3. apResponse'.kind = "data" =>
          Answered(apResponse'.at + apResponse'.airtime) =< WifiSlotEnd' + Overrun
        BY <2>1, <2>2 DEF ExchangeInv, Answered
  <2>4. QED BY <2>1, <2>3 DEF ExchangeInv, Answered
<1>12. QED BY <1>1, <1>3, <1>3g, <1>4, <1>5, <1>6, <1>7, <1>9, <1>10, <1>11
           DEF Next, ApStep, StaStep, StartNotificationApp, Tick,
               NotificationReceivedByWifiAp, WindowFrom, apVars, staVars

-----------------------------------------------------------------------------
LEMMA InvInit == Init => IInv
<1> SUFFICES ASSUME Init PROVE IInv
    OBVIOUS
<1>1. /\ apFrame.kind = "none" /\ staFrame.kind = "none"
      /\ apResponse.kind = "none" /\ staResponse.kind = "none"
      BY DEF Init, NoFrame, Silent
<1>2. WindowInv
      BY DurationsAreNat DEF Init, WindowInv, Started
<1>3. PunctualInv /\ ExchangeInv
      BY <1>1, DurationsAreNat DEF Init, PunctualInv, ExchangeInv, OnAir
<1>4. QED BY <1>2, <1>3, TypeInit DEF IInv

LEMMA InvStep == IInv /\ [Next]_vars => IInv'
<1> SUFFICES ASSUME IInv, [Next]_vars PROVE IInv'
    OBVIOUS
<1>1. TypeOK'
      BY TypeStep DEF IInv
<1>2. CASE Next
      BY <1>1, <1>2, WindowStep, PunctualStep, ExchangeStep DEF IInv
<1>3. CASE UNCHANGED vars
  <2>1. WindowInv'
        BY <1>3 DEF IInv, WindowInv, Started, WifiSlotEnd, vars, orchestratorVars, apVars
  <2>2. PunctualInv'
        BY <1>3 DEF IInv, PunctualInv, vars, apVars, staVars, OnAir
  <2>3. ExchangeInv'
        BY <1>3 DEF IInv, ExchangeInv, Answered, WifiSlotEnd, Started,
                    vars, orchestratorVars, apVars, staVars
  <2>4. QED BY <1>1, <2>1, <2>2, <2>3 DEF IInv
<1>4. QED BY <1>2, <1>3

(* The invariant the theorems rest on: the window the AP knows, the events *)
(* that are due, and what is left of an exchange at each of its stages.    *)
THEOREM Invariant == Spec => []IInv
<1>1. QED BY InvInit, InvStep, PTL DEF Spec

LEMMA InvImpliesInTime == IInv => QosDataEndsInTime
<1> SUFFICES ASSUME IInv, QosExchange PROVE now =< WifiSlotEnd + Overrun
    BY DEF QosDataEndsInTime
<1> USE DurationsAreNat
<1>1. /\ TypeOK /\ PunctualInv /\ ExchangeInv
      /\ WifiSlotEnd \in Int /\ Overrun \in Nat
      BY OverrunCovers, Fields DEF IInv, WifiSlotEnd
<1>2. CASE apFrame.kind \in {"data", "group"}
      BY <1>1, <1>2, Fields DEF PunctualInv, ExchangeInv, Answered, OnAir
<1>3. CASE staResponse.kind = "dataAck"
      BY <1>1, <1>3, Fields DEF PunctualInv, ExchangeInv, OnAir
<1>4. CASE staFrame.kind = "dataAck"
      BY <1>1, <1>4, Fields DEF PunctualInv, ExchangeInv, OnAir
<1>5. QED BY <1>2, <1>3, <1>4 DEF QosExchange

(* Every QoS data exchange the AP starts is over, answer included, when    *)
(* the Wi-Fi window ends, but for the parts of it that the check of        *)
(* MacLow::IsWithinSizeAndTimeLimits leaves out.                           *)
THEOREM EndsInTime == Spec => []QosDataEndsInTime
<1>1. QED BY Invariant, InvImpliesInTime, PTL

LEMMA InvImpliesClear == IInv => QosDataClearOfLaa
<1> SUFFICES ASSUME IInv, Overrun < CtsDuration, InLaaSlot, QosExchange PROVE FALSE
    BY DEF QosDataClearOfLaa
<1>1. now =< WifiSlotEnd + Overrun
      BY InvImpliesInTime DEF QosDataEndsInTime
<1>2. WifiSlotEnd = nextStart - LaaOn - CtsDuration /\ nextStart - LaaOn =< now
      BY DEF InLaaSlot, WifiSlotEnd
<1>3. QED BY <1>1, <1>2, OverrunCovers, Fields, DurationsAreNat DEF IInv

(* No QoS data exchange touches the slot left to LAA, unless it outlives   *)
(* the window by the time kept for the reservation or more.                *)
THEOREM ClearOfLaa == Spec => []QosDataClearOfLaa
<1>1. QED BY Invariant, InvImpliesClear, PTL

-----------------------------------------------------------------------------
(* The refinement.  The turns follow the clock and the start of a cycle;   *)
(* an exchange is never under way in a turn that is not Wi-Fi's.           *)
LEMMA ExchangeIsWifis == IInv => (Overrun = 0 /\ QosExchange => Owner = "wifi")
<1> SUFFICES ASSUME IInv, Overrun = 0, QosExchange PROVE Owner = "wifi"
    OBVIOUS
<1>1. now =< WifiSlotEnd
      BY InvImpliesInTime, Fields, DurationsAreNat
      DEF IInv, QosDataEndsInTime, WifiSlotEnd
<1>2. QED BY <1>1 DEF Owner

LEMMA OwnerTurns ==
  ASSUME IInv, IInv', Next
  PROVE  \/ Owner' = Owner
         \/ UNCHANGED QosExchange /\ Owner = "wifi" /\ Owner' = "gap"
         \/ UNCHANGED QosExchange /\ Owner = "gap" /\ Owner' = "laa"
         \/ UNCHANGED QosExchange /\ Owner = "laa" /\ Owner' = "wifi"
<1> USE DurationsAreNat
<1>1. /\ now \in Nat /\ nextStart \in Nat /\ now =< nextStart
      /\ nextStart >= FirstStart
      BY Fields DEF IInv, WindowInv
<1>2. CASE StartNotificationApp
  <2>1. UNCHANGED QosExchange
        BY <1>2 DEF StartNotificationApp, apVars, staVars, QosExchange
  <2>2. Owner' = "wifi"
        BY <1>1, <1>2 DEF StartNotificationApp, Owner, WifiSlotEnd, Started
  <2>3. Owner \in {"wifi", "laa"}
        BY <1>1, <1>2 DEF StartNotificationApp, Owner, WifiSlotEnd, Started
  <2>4. QED BY <2>1, <2>2, <2>3
<1>3. CASE Tick
  <2>1. UNCHANGED QosExchange /\ now' = now + 1 /\ WifiSlotEnd' = WifiSlotEnd
        BY <1>3 DEF Tick, orchestratorVars, apVars, staVars, QosExchange, WifiSlotEnd, Started
  <2>2. WifiSlotEnd \in Int
        BY <1>1 DEF WifiSlotEnd
  <2>3. QED BY <1>1, <2>1, <2>2 DEF Owner
<1>4. CASE now' = now /\ nextStart' = nextStart
      BY <1>4 DEF Owner, WifiSlotEnd, Started
<1>5. QED BY <1>2, <1>3, <1>4
          DEF Next, ApStep, StaStep, NotificationReceivedByWifiAp, WindowFrom,
              StartQosData, StartGroupQosData, StartOther, ReserveMedium, ReserveEvent, ApRespond,
              ApFrameEnds, StaUplink, StaRespond, StaFrameEnds, orchestratorVars

LEMMA SharingInit == Init => Sharing!Init
<1> SUFFICES ASSUME Init PROVE Owner = "wifi" /\ QosExchange = FALSE
    BY DEF Sharing!Init
<1>1. QosExchange = FALSE
      BY DEF Init, QosExchange, NoFrame, Silent
<1>2. Owner = "wifi"
      BY DurationsAreNat DEF Init, Owner, WifiSlotEnd, Started
<1>3. QED BY <1>1, <1>2

LEMMA SharingStep ==
  ASSUME Overrun = 0
  PROVE  IInv /\ IInv' /\ [Next]_vars => [Sharing!Next]_(Sharing!sharingVars)
<1> SUFFICES ASSUME IInv, IInv', [Next]_vars
             PROVE  [Sharing!Next]_(Sharing!sharingVars)
    OBVIOUS
<1>0. QosExchange \in BOOLEAN /\ QosExchange' \in BOOLEAN
      BY DEF QosExchange
<1>a. (IInv => (Overrun = 0 /\ QosExchange => Owner = "wifi"))'
      BY ExchangeIsWifis, PTL
<1>1. (QosExchange => Owner = "wifi") /\ (QosExchange' => Owner' = "wifi")
      BY ExchangeIsWifis, <1>a
<1>2. CASE Next
      BY <1>0, <1>1, <1>2, OwnerTurns
      DEF Sharing!Next, Sharing!Start, Sharing!Finish, Sharing!WifiGivesUp,
          Sharing!LaaTakes, Sharing!WifiTakes, Sharing!sharingVars
<1>3. CASE UNCHANGED vars
      BY <1>3 DEF vars, orchestratorVars, apVars, staVars, Owner, WifiSlotEnd,
                  Started, QosExchange, Sharing!sharingVars
<1>4. QED BY <1>2, <1>3

(* Without overrun the program implements MediumSharing: the medium goes   *)
(* from Wi-Fi to nobody to LAA and back, and an exchange lies within one   *)
(* turn of Wi-Fi.                                                          *)
THEOREM ImplementsSharing ==
  ASSUME Overrun = 0
  PROVE  Spec => SharesTheMedium
<1>1. QED BY Invariant, SharingInit, SharingStep, PTL DEF Spec, SharesTheMedium, Sharing!Spec

-----------------------------------------------------------------------------

Cycle == WifiOn + LaaOn + CtsDuration

(* The reservation of the cycle under way has been sent.                   *)
Reserved ==
  /\ Started /\ notifications = {}
  /\ \A r \in reservations : r.due # WifiSlotEnd

(* What the three arguments share.  A frame is intact only while the other *)
(* side is silent, the AP's answer comes one SIFS after a transmission,    *)
(* and a reservation is tried at its time and not before.                  *)
MediumInv ==
  /\ OnAir(apFrame) => apFrame.start =< now
  /\ OnAir(staFrame) /\ staFrame.intact => ~ OnAir(apFrame)
  /\ OnAir(apResponse) => apResponse.at =< idleSince + Sifs
  /\ Started => nextStart =< now + Cycle
  /\ \A r \in reservations : r.due =< r.at /\ now =< r.at
  /\ ~ Started => reservations = {} /\ apFrame.kind # "reserve"

(* Once it has been sent, the AP's NAV covers the slot left to LAA, and    *)
(* what is left of an RTS/CTS exchange comes to nothing: the CTS meets the *)
(* reservation, or the data finds the PHY busy.                            *)
QuietInv ==
  Reserved =>
    /\ apNavEnd >= WifiSlotEnd + LaaOn
    /\ now < nextStart - CtsDuration =>
         /\ apFrame.kind \in {"none", "reserve", "ack"}
         /\ staResponse.kind = "cts" =>
              apFrame.kind = "reserve" /\ staResponse.at < apFrame.end
         /\ staFrame.kind = "cts" => ~ staFrame.intact
         /\ apResponse.kind = "data" =>
              apFrame.kind = "reserve" /\ apResponse.at < apFrame.end

(* No part of an RTS/CTS exchange is on the air or to come.                *)
NoRtsExchange ==
  /\ apFrame.kind # "rts" /\ staResponse.kind # "cts"
  /\ staFrame.kind # "cts" /\ apResponse.kind # "data"

(* The longest frame that may be in the way of a reservation.              *)
Lateness == Max2(LongestOther, AckAirtime)

(* A reservation that has been tried in vain waits for one frame, and      *)
(* nothing can follow that frame before it.                                *)
Polling(r) ==
  /\ IF OnAir(apFrame) THEN r.at =< apFrame.end /\ apFrame.end =< r.due + Lateness
                       ELSE r.at = now /\ now = idleSince /\ now =< r.due + Lateness
  /\ ~ OnAir(apResponse)
  /\ staFrame.kind = "uplink" => ~ staFrame.intact

(* Reservations belong to different cycles, at most one of them to the     *)
(* cycle under way.                                                        *)
CyclesInv ==
  /\ \A r \in reservations :
       /\ r.due = WifiSlotEnd \/ r.due + Cycle =< WifiSlotEnd
       /\ r.due = WifiSlotEnd => notifications = {}
  /\ \A r, s \in reservations :
       r = s \/ r.due + Cycle =< s.due \/ s.due + Cycle =< r.due

(* How long the frames that are not QoS data last.  The AP sends nothing   *)
(* but the reservation while it owes an answer.                            *)
AirtimesInv ==
  /\ apFrame.kind \in {"other", "acked", "ack"} => apFrame.end =< apFrame.start + Lateness
  /\ apResponse.kind = "ack" => apResponse.airtime = AckAirtime
  /\ OnAir(apFrame) /\ OnAir(apResponse) => apFrame.kind = "reserve"
  /\ staResponse.kind # "uplink"

(* The reservation CTS is over before that of the next cycle is due.       *)
CtsInv ==
  apFrame.kind = "reserve" =>
    apFrame.end =< (IF Reserved THEN WifiSlotEnd ELSE WifiSlotEnd - Cycle)
                     + Lateness + CtsAirtime

PollingInv == \A r \in reservations : r.at # r.due => Polling(r)

TimelyInv == NoRtsExchange /\ AirtimesInv /\ CtsInv /\ PollingInv

(* Without RTS and without frames of the station's own the AP never        *)
(* answers anything.                                                       *)
NoAnswerInv ==
  /\ NoRtsExchange
  /\ apResponse.kind = "none" /\ staFrame.kind # "uplink" /\ staResponse.kind # "uplink"
  /\ ~ assertFailed
-----------------------------------------------------------------------------
(* What the steps do, in the terms of these invariants.                    *)
LEMMA Times ==
  ASSUME TypeOK
  PROVE  /\ WifiSlotEnd \in Int /\ Cycle \in Nat /\ apNavEnd \in Nat
         /\ Started => WifiSlotEnd = nextStart - LaaOn - CtsDuration
         /\ \A r \in reservations : r.due \in Nat /\ r.at \in Nat
  BY DurationsAreNat, Fields DEF TypeOK, WifiSlotEnd, Cycle

(* WifiPhy::Send of the AP fails on a busy PHY; else it spoils what the    *)
(* station is sending.                                                     *)
LEMMA ApSendCases ==
  ASSUME TypeOK, NEW kind, NEW airtime, ApSend(kind, airtime)
  PROVE  \/ OnAir(apFrame) /\ UNCHANGED <<apFrame, staFrame>>
         \/ /\ ~ OnAir(apFrame) /\ UNCHANGED assertFailed
            /\ apFrame'.kind = kind /\ apFrame'.start = now /\ apFrame'.end = now + airtime
            /\ staFrame'.kind = staFrame.kind /\ staFrame'.intact = FALSE
<1>1. Collided(staFrame).kind = staFrame.kind /\ Collided(staFrame).intact = FALSE
      BY DEF TypeOK, Frames, Collided
<1>2. QED BY <1>1, AiringFields DEF ApSend

LEMMA StaSendCases ==
  ASSUME TypeOK, NEW kind, NEW airtime, StaSend(kind, airtime)
  PROVE  /\ apFrame'.kind = apFrame.kind
         /\ apFrame'.start = apFrame.start /\ apFrame'.end = apFrame.end
         /\ staFrame'.kind = kind
         /\ OnAir(apFrame) => staFrame'.intact = FALSE
<1>1. OnAir(apFrame) => staFrame'.intact = FALSE
      BY DEF StaSend, Airing, Collided
<1>2. QED BY <1>1, StaSendEffect

(* An access of the AP, for whatever it has to send.                       *)
ApAccess(kind, airtime) ==
  /\ ApMayAccess /\ ApSend(kind, airtime)
  /\ UNCHANGED <<now, orchestratorVars, windowEnd, reservations, apResponse,
                 apNavEnd, staResponse, staNavEnd, idleSince>>

LEMMA Accesses ==
  ASSUME ApStep
  PROVE  \/ \E t \in notifications : NotificationReceivedByWifiAp(t)
         \/ \E r \in reservations : ReserveMedium(r)
         \/ ApRespond \/ ApFrameEnds
         \/ \E kind \in {"rts", "data", "group", "other", "acked"}, airtime \in Nat :
              /\ ApAccess(kind, airtime)
              /\ kind = "rts" => UseRts
              /\ kind \in {"other", "acked"} => airtime \in OtherAirtimes
<1> USE DurationsAreNat
<1>1. ASSUME NEW d \in DataAirtimes, StartQosData(d)
      PROVE  \/ UseRts /\ ApAccess("rts", RtsAirtime)
             \/ ApAccess("data", d)
      BY <1>1 DEF StartQosData, ApAccess
<1>2. ASSUME NEW d \in DataAirtimes, StartGroupQosData(d) PROVE ApAccess("group", d)
      BY <1>2 DEF StartGroupQosData, ApAccess
<1>3. ASSUME NEW d \in OtherAirtimes, NEW kind \in {"other", "acked"}, StartOther(d, kind)
      PROVE  ApAccess(kind, d)
      BY <1>3 DEF StartOther, ApAccess
<1>4. QED BY <1>1, <1>2, <1>3 DEF ApStep

(* No access comes between a transmission and its answer, nor within Ifs   *)
(* of the end of a transmission or of the NAV.                             *)
LEMMA AccessIsLate ==
  ASSUME TypeOK, PunctualInv, MediumInv, ApMayAccess
  PROVE  /\ ~ OnAir(apFrame) /\ ~ OnAir(apResponse)
         /\ now > idleSince /\ now >= apNavEnd
<1> USE DurationsAreNat, Fields, Times
<1>1. ~ OnAir(apFrame) /\ now >= idleSince + Ifs /\ now >= apNavEnd + Ifs
      BY DEF ApMayAccess, MediumSensedIdle
<1>2. ~ OnAir(apResponse)
      BY <1>1 DEF PunctualInv, MediumInv
<1>3. QED BY <1>1, <1>2

LEMMA NewCycle ==
  ASSUME TypeOK, WindowInv, StartNotificationApp
  PROVE  /\ now = nextStart /\ now' = now /\ nextStart' = now + Cycle
         /\ Started' /\ ~ Reserved' /\ WifiSlotEnd' = now + WifiOn
         /\ Started => WifiSlotEnd' = WifiSlotEnd + Cycle
         /\ notifications = {} /\ UNCHANGED <<apVars, staVars, idleSince, assertFailed>>
<1> USE DurationsAreNat, Fields, Times
<1>1. /\ now = nextStart /\ now' = now /\ nextStart' = now + Cycle
      /\ now \in notifications'
      /\ UNCHANGED <<apVars, staVars, idleSince, assertFailed>>
      BY DEF StartNotificationApp, Cycle
<1>2. Started' /\ ~ Reserved' /\ WifiSlotEnd' = now + WifiOn
      BY <1>1 DEF Started, WifiSlotEnd, WindowInv, Cycle, Reserved
<1>3. notifications = {}
  <2>1. notifications \subseteq Nat
        BY DEF TypeOK
  <2>2. QED BY <1>1, <2>1, FirstWindowIsLongEnough DEF WindowInv
<1>4. QED BY <1>1, <1>2, <1>3 DEF Cycle

LEMMA Delivery ==
  ASSUME TypeOK, WindowInv, NEW t \in notifications, NotificationReceivedByWifiAp(t)
  PROVE  /\ Started /\ notifications # {} /\ notifications' = {} /\ now =< WifiSlotEnd
         /\ reservations' = reservations \cup {[due |-> WifiSlotEnd, at |-> WifiSlotEnd]}
         /\ WifiSlotEnd' = WifiSlotEnd /\ Started' /\ ~ Reserved /\ ~ Reserved'
         /\ UNCHANGED <<now, nextStart, apPacket, apFrame, apResponse, apNavEnd,
                        staVars, idleSince, assertFailed>>
<1> USE DurationsAreNat, FirstWindowIsLongEnough, Fields, Times
<1>1. /\ Started /\ t \in Nat /\ t + WifiOn = WifiSlotEnd /\ now =< t + MaxDelay
      /\ notifications \ {t} = {}
      BY DEF WindowInv, TypeOK
<1>2. /\ notifications' = {}
      /\ reservations' = reservations \cup {[due |-> now + ((t - now) + WifiOn),
                                             at |-> now + ((t - now) + WifiOn)]}
      /\ UNCHANGED <<now, nextStart, apPacket, apFrame, apResponse, apNavEnd,
                     staVars, idleSince, assertFailed>>
      BY <1>1 DEF NotificationReceivedByWifiAp, WindowFrom
<1>3. now + ((t - now) + WifiOn) = WifiSlotEnd
      BY <1>1
<1>4. WifiSlotEnd' = WifiSlotEnd /\ Started'
      BY <1>1, <1>2 DEF WifiSlotEnd, Started
<1>5. ~ Reserved'
  <2>1. [due |-> WifiSlotEnd, at |-> WifiSlotEnd] \in reservations'
        BY <1>2, <1>3
  <2>2. QED BY <1>4, <2>1 DEF Reserved
<1>6. QED BY <1>1, <1>2, <1>3, <1>4, <1>5 DEF Reserved

LEMMA ReserveCases ==
  ASSUME TypeOK, NEW r \in reservations, ReserveMedium(r)
  PROVE  /\ now = r.at
         /\ UNCHANGED <<now, nextStart, notifications, apResponse, staResponse, idleSince>>
         /\ \/ /\ OnAir(apFrame) /\ now < apFrame.end
               /\ \E q : /\ q.due = r.due /\ q.at = now + 1
                        /\ reservations' = (reservations \ {r}) \cup {q}
               /\ UNCHANGED <<apFrame, staFrame, apNavEnd, assertFailed>>
            \/ /\ ~ OnAir(apFrame) /\ reservations' = reservations \ {r}
               /\ apFrame'.kind = "reserve"
               /\ apFrame'.start = now /\ apFrame'.end = now + CtsAirtime
               /\ staFrame'.kind = staFrame.kind /\ staFrame'.intact = FALSE
               /\ apNavEnd' >= now + LaaOn /\ apNavEnd' >= apNavEnd
               /\ UNCHANGED assertFailed
<1> USE DurationsAreNat, Fields, Times
<1>1. /\ now = r.at
      /\ OnAir(apFrame) => now < apFrame.end
      /\ UNCHANGED <<now, nextStart, notifications, apResponse, staResponse, idleSince>>
      BY DEF ReserveMedium, ReserveEvent, orchestratorVars
<1>2. CASE OnAir(apFrame)
  <2>1. [r EXCEPT !.at = now + 1].due = r.due /\ [r EXCEPT !.at = now + 1].at = now + 1
        BY DEF TypeOK
  <2>2. /\ reservations' = (reservations \ {r}) \cup {[r EXCEPT !.at = now + 1]}
        /\ UNCHANGED <<apFrame, staFrame, apNavEnd, assertFailed>>
        BY <1>2 DEF ReserveMedium, PollAgain
  <2>3. QED BY <1>1, <1>2, <2>1, <2>2
<1>3. CASE ~ OnAir(apFrame)
  <2>1. reservations' = reservations \ {r} /\ ApSend("reserve", CtsAirtime)
        /\ apNavEnd' = Max2(apNavEnd, now + LaaOn)
        BY <1>3 DEF ReserveMedium, Reserve
  <2>2. apNavEnd' >= now + LaaOn /\ apNavEnd' >= apNavEnd
        BY <2>1 DEF Max2
  <2>3. /\ apFrame'.kind = "reserve" /\ UNCHANGED assertFailed
        /\ apFrame'.start = now /\ apFrame'.end = now + CtsAirtime
        /\ staFrame'.kind = staFrame.kind /\ staFrame'.intact = FALSE
        BY <1>3, <2>1, ApSendCases
  <2>4. QED BY <1>1, <1>3, <2>1, <2>2, <2>3
<1>4. QED BY <1>2, <1>3
-----------------------------------------------------------------------------
(* The medium and the reservations.                                        *)
LEMMA ReservationInit == Init => MediumInv /\ CyclesInv /\ QuietInv
<1> SUFFICES ASSUME Init PROVE MediumInv /\ CyclesInv /\ QuietInv
    OBVIOUS
<1>1. /\ ~ OnAir(apFrame) /\ ~ OnAir(staFrame) /\ ~ OnAir(apResponse)
      /\ ~ Started /\ reservations = {} /\ apFrame.kind # "reserve"
      BY DurationsAreNat DEF Init, OnAir, NoFrame, Silent, Started
<1>2. QED BY <1>1 DEF MediumInv, CyclesInv, QuietInv, Reserved

LEMMA MediumStep ==
  ASSUME TypeOK, TypeOK', WindowInv, PunctualInv, MediumInv, [Next]_vars
  PROVE  MediumInv'
<1> USE DurationsAreNat, Fields, NextFields, Times
<1>1. CASE StartNotificationApp
      BY <1>1, NewCycle DEF MediumInv, apVars, staVars
<1>2. ASSUME NEW t \in notifications, NotificationReceivedByWifiAp(t) PROVE MediumInv'
      BY <1>2, Delivery DEF MediumInv, staVars
<1>3. ASSUME NEW kind \in {"rts", "data", "group", "other", "acked"}, NEW airtime \in Nat,
             ApAccess(kind, airtime)
      PROVE  MediumInv'
  <2>1. /\ UNCHANGED <<now, nextStart, reservations, idleSince, apResponse>>
        /\ apFrame'.kind = kind /\ apFrame'.start = now
        /\ staFrame'.kind = staFrame.kind /\ staFrame'.intact = FALSE
        BY <1>3, AccessIsLate, ApSendCases DEF ApAccess, orchestratorVars
  <2>2. QED BY <1>3, <2>1 DEF MediumInv, OnAir, Started, Cycle
<1>4. ASSUME NEW r \in reservations, ReserveMedium(r) PROVE MediumInv'
  <2>1. /\ now = r.at /\ r.due =< now /\ Started
        /\ UNCHANGED <<now, nextStart, idleSince, apResponse>>
        BY <1>4, ReserveCases DEF MediumInv
  <2>2. Started' = Started
        BY <2>1 DEF Started
  <2>3. CASE OnAir(apFrame)
    <3>1. PICK q : /\ q.due = r.due /\ q.at = now + 1
                   /\ reservations' = (reservations \ {r}) \cup {q}
          BY <1>4, <2>3, ReserveCases
    <3>2. UNCHANGED <<apFrame, staFrame>>
          BY <1>4, <2>3, ReserveCases
    <3>3. QED BY <2>1, <2>2, <3>1, <3>2 DEF MediumInv, Cycle
  <2>4. CASE ~ OnAir(apFrame)
    <3>1. /\ reservations' = reservations \ {r}
          /\ apFrame'.start = now /\ staFrame'.intact = FALSE
          BY <1>4, <2>4, ReserveCases
    <3>2. QED BY <2>1, <2>2, <3>1 DEF MediumInv, Cycle
  <2>5. QED BY <2>3, <2>4
<1>5. CASE ApRespond
  <2>1. /\ OnAir(apResponse) /\ ApSend(apResponse.kind, apResponse.airtime)
        /\ ~ OnAir(apResponse')
        /\ UNCHANGED <<now, nextStart, reservations, idleSince>>
        BY <1>5 DEF ApRespond, Silent, OnAir, orchestratorVars
  <2>2. apResponse.kind # "reserve" /\ Started' = Started
        BY <2>1 DEF Started
  <2>3. CASE UNCHANGED <<apFrame, staFrame>>
        BY <2>1, <2>2, <2>3 DEF MediumInv
  <2>4. CASE /\ apFrame'.kind = apResponse.kind /\ apFrame'.start = now
             /\ staFrame'.intact = FALSE
        BY <2>1, <2>2, <2>4 DEF MediumInv
  <2>5. QED BY <2>1, <2>3, <2>4, ApSendCases
<1>6. CASE ApFrameEnds
      BY <1>6 DEF ApFrameEnds, MediumInv, PunctualInv, NoFrame, OnAir, Started, orchestratorVars
<1>7. ASSUME NEW kind, NEW airtime, StaSend(kind, airtime),
             UNCHANGED <<now, nextStart, reservations, idleSince, apResponse>>
      PROVE  MediumInv'
      BY <1>7, StaSendCases DEF MediumInv, OnAir, Started
<1>8. (\E d \in UplinkAirtimes : StaUplink(d)) \/ StaRespond => MediumInv'
      BY <1>7 DEF StaUplink, StaRespond, orchestratorVars
<1>9. CASE StaFrameEnds
      BY <1>9 DEF StaFrameEnds, MediumInv, PunctualInv, NoFrame, OnAir, Started, orchestratorVars
<1>10. CASE Tick
  <2>1. /\ \A r \in reservations : now < r.at
        /\ now < nextStart /\ now' = now + 1
        /\ UNCHANGED <<nextStart, apVars, staVars, idleSince>>
        BY <1>10 DEF Tick, NothingDue, orchestratorVars
  <2>2. QED BY <2>1 DEF MediumInv, apVars, staVars, Started, Cycle
<1>11. CASE UNCHANGED vars
      BY <1>11 DEF vars, orchestratorVars, apVars, staVars, MediumInv, Started
<1>12. QED BY <1>1, <1>2, <1>3, <1>4, <1>5, <1>6, <1>8, <1>9, <1>10, <1>11, Accesses
           DEF Next, StaStep

LEMMA CyclesStep ==
  ASSUME TypeOK, TypeOK', WindowInv, MediumInv, CyclesInv, [Next]_vars
  PROVE  CyclesInv'
<1> USE DurationsAreNat, Fields, NextFields, Times
<1>1. CASE StartNotificationApp
  <2>1. UNCHANGED reservations /\ Started => WifiSlotEnd' = WifiSlotEnd + Cycle
        BY <1>1, NewCycle DEF apVars
  <2>2. ~ Started => reservations = {}
        BY DEF MediumInv
  <2>3. Cycle > 0
        BY DEF Cycle
  <2>4. reservations' = reservations
        BY <1>1, NewCycle DEF apVars
  <2>5. QED BY <2>1, <2>2, <2>3, <2>4 DEF CyclesInv
<1>2. ASSUME NEW t \in notifications, NotificationReceivedByWifiAp(t) PROVE CyclesInv'
      BY <1>2, Delivery DEF CyclesInv
<1>3. ASSUME NEW r \in reservations, ReserveMedium(r) PROVE CyclesInv'
  <2>1. WifiSlotEnd' = WifiSlotEnd /\ notifications' = notifications
        BY <1>3, ReserveCases DEF WifiSlotEnd, Started
  <2>2. CASE reservations' = reservations \ {r}
        BY <2>1, <2>2 DEF CyclesInv
  <2>3. ASSUME NEW q, q.due = r.due, reservations' = (reservations \ {r}) \cup {q}
        PROVE  CyclesInv'
        BY <2>1, <2>3 DEF CyclesInv
  <2>4. QED BY <1>3, <2>2, <2>3, ReserveCases
<1>4. CASE UNCHANGED <<nextStart, notifications, reservations>>
      BY <1>4 DEF CyclesInv, WifiSlotEnd, Started
<1>5. QED BY <1>1, <1>2, <1>3, <1>4
          DEF Next, ApStep, StaStep, StartQosData, StartGroupQosData, StartOther, ApRespond,
              ApFrameEnds, StaUplink, StaRespond, StaFrameEnds, Tick, vars, orchestratorVars, apVars
-----------------------------------------------------------------------------
(* The AP is quiet.  A CTS lasts longer than a SIFS, so that an answer     *)
(* that is scheduled when the reservation goes out meets it.               *)
LEMMA QuietStep ==
  ASSUME Sifs < CtsAirtime,
         TypeOK, TypeOK', WindowInv, PunctualInv, MediumInv, QuietInv, [Next]_vars
  PROVE  QuietInv'
<1> USE DurationsAreNat, Fields, NextFields, Times
<1> DEFINE Early == now < nextStart - CtsDuration
<1>1. ASSUME ~ Reserved' PROVE QuietInv'
      BY <1>1 DEF QuietInv
<1>2. ASSUME UNCHANGED <<nextStart, notifications, reservations>>
      PROVE  Reserved' = Reserved /\ WifiSlotEnd' = WifiSlotEnd
      BY <1>2 DEF Reserved, Started, WifiSlotEnd
<1>3. ASSUME NEW kind, NEW airtime, ApAccess(kind, airtime) PROVE QuietInv'
  <2>1. /\ UNCHANGED <<now, nextStart, notifications, reservations, apNavEnd>>
        /\ now >= apNavEnd
        BY <1>3, AccessIsLate DEF ApAccess, orchestratorVars
  <2>2. Reserved => ~ Early
        BY <2>1 DEF QuietInv, Reserved
  <2>3. QED BY <1>2, <2>1, <2>2 DEF QuietInv
<1>4. ASSUME NEW r \in reservations, ReserveMedium(r) PROVE QuietInv'
  <2>1. /\ now = r.at /\ r.due =< now
        /\ UNCHANGED <<now, nextStart, notifications, apResponse, staResponse, idleSince>>
        BY <1>4, ReserveCases DEF MediumInv
  <2>2. WifiSlotEnd' = WifiSlotEnd /\ Started' = Started
        BY <2>1 DEF WifiSlotEnd, Started
  <2>3. CASE OnAir(apFrame)
    <3>1. /\ UNCHANGED <<apFrame, staFrame, apNavEnd>>
          /\ \E q : q.due = r.due /\ reservations' = (reservations \ {r}) \cup {q}
          BY <1>4, <2>3, ReserveCases
    <3>2. Reserved' => Reserved
          BY <2>1, <2>2, <3>1 DEF Reserved
    <3>3. QED BY <2>1, <2>2, <3>1, <3>2 DEF QuietInv
  <2>4. CASE ~ OnAir(apFrame)
    <3>1. /\ reservations' = reservations \ {r} /\ staFrame'.intact = FALSE
          /\ apFrame'.kind = "reserve" /\ apFrame'.end = now + CtsAirtime
          /\ apNavEnd' >= now + LaaOn /\ apNavEnd' >= apNavEnd
          BY <1>4, <2>4, ReserveCases
    <3>2. Reserved' => Reserved \/ r.due = WifiSlotEnd
          BY <2>1, <2>2, <3>1 DEF Reserved
    <3>3. apNavEnd' \in Nat
          BY DEF TypeOK
    <3>4. Reserved' => apNavEnd' >= WifiSlotEnd + LaaOn
          BY <2>1, <3>1, <3>2, <3>3 DEF QuietInv
    <3>5. /\ staResponse.kind = "cts" => staResponse.at < apFrame'.end
          /\ apResponse.kind = "data" => apResponse.at < apFrame'.end
          BY <3>1 DEF PunctualInv, MediumInv, OnAir
    <3>6. QED BY <2>1, <2>2, <3>1, <3>4, <3>5 DEF QuietInv
  <2>5. QED BY <2>3, <2>4
<1>5. CASE ApRespond
  <2>1. /\ UNCHANGED <<now, nextStart, notifications, reservations, apNavEnd, staResponse>>
        /\ ApSend(apResponse.kind, apResponse.airtime)
        /\ OnAir(apResponse) /\ apResponse'.kind = "none"
        BY <1>5 DEF ApRespond, Silent, orchestratorVars
  <2>2. CASE UNCHANGED <<apFrame, staFrame>>
        BY <1>2, <2>1, <2>2 DEF QuietInv
  <2>3. CASE /\ ~ OnAir(apFrame) /\ apFrame'.kind = apResponse.kind
             /\ staFrame'.intact = FALSE
    <3>1. Reserved /\ Early => apResponse.kind = "ack" /\ staResponse.kind # "cts"
          BY <2>1, <2>3 DEF QuietInv, OnAir
    <3>2. QED BY <1>2, <2>1, <2>3, <3>1 DEF QuietInv
  <2>4. QED BY <2>1, <2>2, <2>3, ApSendCases
<1>6. CASE ApFrameEnds
  <2>1. /\ UNCHANGED <<now, nextStart, notifications, reservations, apNavEnd, apResponse, staFrame>>
        /\ OnAir(apFrame) /\ now = apFrame.end /\ apFrame'.kind = "none"
        /\ apFrame.kind \notin {"data", "acked", "rts"} => staResponse' = staResponse
        BY <1>6 DEF ApFrameEnds, NoFrame, orchestratorVars
  <2>2. Reserved /\ Early => /\ staResponse' = staResponse
                            /\ staResponse.kind # "cts" /\ apResponse.kind # "data"
        BY <2>1 DEF QuietInv, PunctualInv, OnAir
  <2>3. QED BY <1>2, <2>1, <2>2 DEF QuietInv
<1>7. ASSUME NEW kind, NEW airtime, StaSend(kind, airtime),
             UNCHANGED <<now, nextStart, notifications, reservations, apNavEnd, apResponse>>,
             staResponse' \in {staResponse, Silent},
             kind = "cts" => staResponse.kind = "cts"
      PROVE  QuietInv'
  <2>1. /\ apFrame'.kind = apFrame.kind /\ apFrame'.end = apFrame.end
        /\ staFrame'.kind = kind
        /\ OnAir(apFrame) => staFrame'.intact = FALSE
        BY <1>7, StaSendCases
  <2>2. staResponse'.kind = "cts" => staResponse' = staResponse
        BY <1>7 DEF Silent
  <2>3. QED BY <1>2, <1>7, <2>1, <2>2 DEF QuietInv, OnAir
<1>8. ASSUME NEW d \in UplinkAirtimes, StaUplink(d) PROVE QuietInv'
      BY <1>7, <1>8 DEF StaUplink, orchestratorVars
<1>9. CASE StaRespond
      BY <1>7, <1>9 DEF StaRespond, orchestratorVars
<1>10. CASE StaFrameEnds
  <2>1. /\ UNCHANGED <<now, nextStart, notifications, reservations, apNavEnd, apFrame, staResponse>>
        /\ staFrame'.kind = "none"
        /\ apResponse' = apResponse \/ apResponse'.kind = "ack"
             \/ (staFrame.kind = "cts" /\ staFrame.intact)
        BY <1>10 DEF StaFrameEnds, NoFrame, orchestratorVars
  <2>2. QED BY <1>2, <2>1 DEF QuietInv
<1>11. CASE Tick
  <2>1. /\ UNCHANGED <<nextStart, notifications, reservations, apNavEnd, apFrame,
                       apResponse, staFrame, staResponse>>
        /\ now' = now + 1
        BY <1>11 DEF Tick, orchestratorVars, apVars, staVars
  <2>2. Reserved' => Reserved /\ apNavEnd' >= WifiSlotEnd' + LaaOn
        BY <1>2, <2>1 DEF QuietInv
  <2>3. now' < nextStart' - CtsDuration => Early
        BY <2>1
  <2>4. QED BY <2>1, <2>2, <2>3 DEF QuietInv
<1>12. CASE UNCHANGED vars
      BY <1>2, <1>12 DEF vars, orchestratorVars, apVars, staVars, QuietInv
<1>13. QED BY <1>1, <1>3, <1>4, <1>5, <1>6, <1>8, <1>9, <1>10, <1>11, <1>12, Accesses,
              NewCycle, Delivery DEF Next, StaStep

(* The invariant, which every run of the program keeps.                    *)
RInv == IInv /\ MediumInv /\ CyclesInv

LEMMA RInvStep == RInv /\ [Next]_vars => RInv'
  BY InvStep, MediumStep, CyclesStep DEF RInv, IInv

(* A frame that is intact has the medium for itself, an answer of the AP   *)
(* comes one SIFS after a transmission, and a pending reservation is tried *)
(* at its time and not before.                                             *)
THEOREM ReservationInvariant == Spec => []RInv
<1>1. Init => RInv
      BY InvInit, ReservationInit DEF RInv
<1>2. QED BY <1>1, RInvStep, PTL DEF Spec

(* Whatever the delay of the notifications, the delay that the AP gives to *)
(* Simulator::Schedule is not negative, and the reservation is due at the  *)
(* end of the Wi-Fi window of the cycle it belongs to: none is tried before*)
(* its time, and none is due in the window of a later cycle.               *)
THEOREM ReservationsDue == Spec => []ReservationsAreDue
<1>1. RInv => ReservationsAreDue
  <2> SUFFICES ASSUME RInv PROVE ReservationsAreDue
      OBVIOUS
  <2> USE DurationsAreNat, FirstWindowIsLongEnough
  <2>1. TypeOK /\ WindowInv /\ MediumInv /\ CyclesInv
        BY DEF RInv, IInv
  <2>2. ASSUME NEW t \in notifications PROVE now =< t + WifiOn
    <3>1. t \in Nat /\ now \in Nat /\ now =< t + MaxDelay
          BY <2>1, Fields DEF TypeOK, WindowInv
    <3>2. QED BY <3>1
  <2>3. ASSUME NEW r \in reservations
        PROVE  r.due =< r.at /\ now =< r.at /\ (now =< r.due => r.due = WifiSlotEnd)
    <3>1. r.due =< r.at /\ now =< r.at /\ Started
          BY <2>1 DEF MediumInv
    <3>2. now + Cycle >= nextStart /\ WifiSlotEnd = nextStart - LaaOn - CtsDuration
          BY <2>1, <3>1, Times DEF MediumInv
    <3>3. r.due = WifiSlotEnd \/ r.due + Cycle =< WifiSlotEnd
          BY <2>1 DEF CyclesInv
    <3>4. now \in Nat /\ nextStart \in Nat /\ r.due \in Nat
          BY <2>1, Times DEF TypeOK
    <3>5. QED BY <3>1, <3>2, <3>3, <3>4 DEF Cycle
  <2>4. QED BY <2>2, <2>3 DEF ReservationsAreDue
<1>2. QED BY <1>1, ReservationInvariant, PTL

(* From the reservation CTS of a cycle on, until CtsDuration before the    *)
(* next cycle, the AP starts nothing of its own, whatever else is pending  *)
(* when the CTS goes out: m_lastNavStart and m_lastNavDuration, which      *)
(* ReserveMedium sets, hold it back.                                       *)
THEOREM QuietWhileReserved ==
  ASSUME Sifs < CtsAirtime
  PROVE  Spec => []QuietAfterReservation
<1>1. Init => QuietInv
      BY ReservationInit
<1>2. RInv /\ RInv' /\ QuietInv /\ [Next]_vars => QuietInv'
      BY QuietStep DEF RInv, IInv
<1>3. QuietInv => QuietAfterReservation
      BY DEF QuietInv, QuietAfterReservation, Reserved
<1>4. QED BY <1>1, <1>2, <1>3, ReservationInvariant, PTL DEF Spec

-----------------------------------------------------------------------------
(* The PHY.                                                                *)
LEMMA NoRtsStep ==
  ASSUME ~ UseRts, TypeOK, NoRtsExchange, [Next]_vars
  PROVE  NoRtsExchange'
<1>1. ASSUME NEW kind, NEW airtime, ApAccess(kind, airtime), kind # "rts"
      PROVE  NoRtsExchange'
      BY <1>1, ApSendCases DEF ApAccess, NoRtsExchange
<1>2. ASSUME NEW r \in reservations, ReserveMedium(r) PROVE NoRtsExchange'
      BY <1>2, ReserveCases DEF NoRtsExchange
<1>3. CASE ApRespond
      BY <1>3, ApSendCases, Fields DEF ApRespond, NoRtsExchange, Silent
<1>4. CASE ApFrameEnds
      BY <1>4 DEF ApFrameEnds, NoRtsExchange, NoFrame
<1>5. ASSUME NEW kind, NEW airtime, StaSend(kind, airtime), kind # "cts",
             staResponse' \in {staResponse, Silent}, UNCHANGED apResponse
      PROVE  NoRtsExchange'
  <2>1. apFrame'.kind = apFrame.kind /\ staFrame'.kind = kind
        BY <1>5, StaSendCases
  <2>2. staResponse'.kind \in {staResponse.kind, "none"}
        BY <1>5 DEF Silent
  <2>3. QED BY <1>5, <2>1, <2>2 DEF NoRtsExchange
<1>5a. (\E d \in UplinkAirtimes : StaUplink(d)) \/ StaRespond => NoRtsExchange'
      BY <1>5 DEF StaUplink, StaRespond, NoRtsExchange
<1>6. CASE StaFrameEnds
      BY <1>6 DEF StaFrameEnds, NoRtsExchange, NoFrame
<1>7. CASE UNCHANGED <<apFrame, staFrame, apResponse, staResponse>>
      BY <1>7 DEF NoRtsExchange
<1>8. QED BY <1>1, <1>2, <1>3, <1>4, <1>5a, <1>6, <1>7, Accesses
          DEF Next, StaStep, StartNotificationApp, NotificationReceivedByWifiAp, WindowFrom,
              Tick, vars, apVars, staVars

LEMMA NoAnswerStep ==
  ASSUME ~ UseRts, UplinkAirtimes = {}, TypeOK, NoAnswerInv, [Next]_vars
  PROVE  NoAnswerInv'
<1>0. NoRtsExchange'
      BY NoRtsStep DEF NoAnswerInv
<1>1. ASSUME NEW kind, NEW airtime, ApAccess(kind, airtime) PROVE NoAnswerInv'
      BY <1>0, <1>1, ApSendCases DEF ApAccess, NoAnswerInv, ApMayAccess
<1>2. ASSUME NEW r \in reservations, ReserveMedium(r) PROVE NoAnswerInv'
  <2>1. /\ UNCHANGED <<apResponse, staResponse, assertFailed>>
        /\ staFrame'.kind = staFrame.kind
        BY <1>2, ReserveCases
  <2>2. QED BY <1>0, <2>1 DEF NoAnswerInv
<1>3. ~ ApRespond
      BY DEF ApRespond, NoAnswerInv, OnAir
<1>4. CASE ApFrameEnds
      BY <1>0, <1>4 DEF ApFrameEnds, NoAnswerInv
<1>5. CASE StaRespond
      BY <1>0, <1>5, StaSendCases DEF StaRespond, NoAnswerInv, Silent
<1>6. CASE StaFrameEnds
      BY <1>0, <1>6 DEF StaFrameEnds, NoAnswerInv, NoFrame, NoRtsExchange
<1>7. CASE UNCHANGED <<staFrame, apResponse, staResponse, assertFailed>>
      BY <1>0, <1>7 DEF NoAnswerInv
<1>8. QED BY <1>1, <1>2, <1>3, <1>4, <1>5, <1>6, <1>7, Accesses
          DEF Next, StaStep, StartNotificationApp, NotificationReceivedByWifiAp, WindowFrom,
              Tick, vars, apVars, staVars

(* While nothing but the AP sends of its own accord, WifiPhy::Send always  *)
(* finds the PHY free: ReserveMedium polls while the PHY transmits, and    *)
(* everything else waits for the medium.                                   *)
THEOREM PhyIsFree ==
  ASSUME ~ UseRts, UplinkAirtimes = {}
  PROVE  Spec => []PhyIsFreeWhenSending
<1>1. Init => NoAnswerInv
      BY DEF Init, NoAnswerInv, NoRtsExchange, NoFrame, Silent
<1>2. TypeOK /\ NoAnswerInv /\ [Next]_vars => NoAnswerInv'
      BY NoAnswerStep
<1>3. NoAnswerInv => PhyIsFreeWhenSending
      BY DEF NoAnswerInv, PhyIsFreeWhenSending
<1>4. QED BY <1>1, <1>2, <1>3, TypeCorrect, PTL DEF Spec

-----------------------------------------------------------------------------
(* The delay of a reservation.                                             *)
LEMMA LargestElement ==
  ASSUME NEW S, IsFiniteSet(S), S \subseteq Nat, S # {}
  PROVE  \E m \in S : \A e \in S : e =< m
<1> DEFINE Bounded(A) == \E m \in A : \A e \in A : e =< m
           Bad(n) == \E A \in SUBSET S : /\ IsFiniteSet(A) /\ A # {} /\ Cardinality(A) = n
                                         /\ ~ Bounded(A)
           T == {n \in Nat : Bad(n)}
<1>1. ASSUME T # {} PROVE FALSE
  <2>1. PICK n \in T : \A k \in T : ~ (<<k, n>> \in OpToRel(<, Nat))
    <3>1. T \subseteq Nat
          OBVIOUS
    <3> HIDE DEF T
    <3>2. QED BY <1>1, <3>1, NatLessThanWellFounded, WFMin, Zenon
  <2>2. \A k \in T : ~ (k < n)
        BY <2>1 DEF OpToRel
  <2>3. PICK A \in SUBSET S : /\ IsFiniteSet(A) /\ A # {} /\ Cardinality(A) = n
                              /\ ~ Bounded(A)
        OBVIOUS
  <2>4. PICK x \in A : TRUE
        BY <2>3
  <2> DEFINE B == A \ {x}
  <2>5. IsFiniteSet(B) /\ Cardinality(B) = n - 1 /\ Cardinality(B) \in Nat
        BY <2>3, <2>4, FS_RemoveElement, FS_CardinalityType
  <2>6. n - 1 \notin T
        BY <2>2, <2>5
  <2>7. B = {} \/ Bounded(B)
        BY <2>5, <2>6
  <2>8. Bounded(A)
    <3>1. x \in Nat /\ A \subseteq Nat
          BY <2>4
    <3>2. CASE B = {}
          BY <3>1, <3>2, <2>4
    <3>3. ASSUME NEW m \in B, \A e \in B : e =< m PROVE Bounded(A)
      <4>1. CASE x =< m
            BY <3>1, <3>3, <4>1
      <4>2. CASE m =< x
            BY <3>1, <3>3, <4>2, <2>4
      <4>3. QED BY <3>1, <3>3, <4>1, <4>2
    <3>4. QED BY <2>7, <3>2, <3>3
  <2>9. QED BY <2>3, <2>8
<1>2. Cardinality(S) \in Nat
      BY FS_CardinalityType
<1>3. QED BY <1>1, <1>2

LEMMA LatenessCovers ==
  ASSUME IsFiniteSet(OtherAirtimes)
  PROVE  /\ Lateness \in Nat /\ AckAirtime =< Lateness
         /\ \A d \in OtherAirtimes : d =< Lateness
<1> USE DurationsAreNat
<1>1. IsFiniteSet(OtherAirtimes \cup {0}) /\ OtherAirtimes \cup {0} \subseteq Nat
      BY FS_AddElement
<1>2. LongestOther \in Nat /\ \A d \in OtherAirtimes : d =< LongestOther
      BY <1>1, LargestElement DEF LongestOther
<1>3. QED BY <1>2 DEF Lateness, Max2

LEMMA AirtimesStep ==
  ASSUME IsFiniteSet(OtherAirtimes), TypeOK, TypeOK', PunctualInv, MediumInv,
         NoRtsExchange, AirtimesInv, [Next]_vars
  PROVE  AirtimesInv'
<1> USE DurationsAreNat, Fields, NextFields, LatenessCovers
<1>1. ASSUME NEW kind \in {"rts", "data", "group", "other", "acked"}, NEW airtime \in Nat,
             ApAccess(kind, airtime), kind \in {"other", "acked"} => airtime \in OtherAirtimes
      PROVE  AirtimesInv'
  <2>1. /\ ~ OnAir(apResponse) /\ UNCHANGED <<apResponse, staResponse>>
        /\ apFrame'.kind = kind /\ apFrame'.start = now /\ apFrame'.end = now + airtime
        BY <1>1, AccessIsLate, ApSendCases DEF ApAccess
  <2>2. QED BY <1>1, <2>1 DEF AirtimesInv, OnAir
<1>2. ASSUME NEW r \in reservations, ReserveMedium(r) PROVE AirtimesInv'
  <2>1. /\ UNCHANGED <<apResponse, staResponse>>
        /\ apFrame'.kind = "reserve" \/ UNCHANGED apFrame
        BY <1>2, ReserveCases
  <2>2. QED BY <2>1 DEF AirtimesInv
<1>3. CASE ApRespond
  <2>1. /\ ApSend("ack", AckAirtime) /\ apResponse'.kind = "none"
        /\ UNCHANGED staResponse
        BY <1>3 DEF ApRespond, NoRtsExchange, AirtimesInv, OnAir, Silent
  <2>2. \/ UNCHANGED apFrame
        \/ apFrame'.start = now /\ apFrame'.end = now + AckAirtime
        BY <2>1, ApSendCases
  <2>3. QED BY <2>1, <2>2 DEF AirtimesInv, OnAir
<1>4. CASE ApFrameEnds
      BY <1>4 DEF ApFrameEnds, AirtimesInv, NoFrame, OnAir
<1>5. ASSUME NEW kind, NEW airtime, StaSend(kind, airtime),
             staResponse' \in {staResponse, Silent}, UNCHANGED apResponse
      PROVE  AirtimesInv'
  <2>1. /\ apFrame'.kind = apFrame.kind
        /\ apFrame'.start = apFrame.start /\ apFrame'.end = apFrame.end
        BY <1>5, StaSendCases
  <2>2. staResponse'.kind \in {staResponse.kind, "none"}
        BY <1>5 DEF Silent
  <2>3. QED BY <1>5, <2>1, <2>2 DEF AirtimesInv, OnAir
<1>6. (\E d \in UplinkAirtimes : StaUplink(d)) \/ StaRespond => AirtimesInv'
      BY <1>5 DEF StaUplink, StaRespond
<1>7. CASE StaFrameEnds
  <2>1. /\ UNCHANGED <<apFrame, staResponse>>
        /\ \/ UNCHANGED apResponse
           \/ /\ OnAir(staFrame) /\ staFrame.intact
              /\ apResponse'.kind = "ack" => apResponse'.airtime = AckAirtime
        BY <1>7 DEF StaFrameEnds
  <2>2. QED BY <2>1 DEF AirtimesInv, MediumInv
<1>8. CASE UNCHANGED <<apFrame, apResponse, staResponse>>
      BY <1>8 DEF AirtimesInv
<1>9. QED BY <1>1, <1>2, <1>3, <1>4, <1>6, <1>7, <1>8, Accesses
          DEF Next, StaStep, StartNotificationApp, NotificationReceivedByWifiAp, WindowFrom,
              Tick, vars, apVars, staVars

(* A reservation that is sent at last is late by one frame at most.        *)
LEMMA LateByOneFrame ==
  ASSUME IsFiniteSet(OtherAirtimes), TypeOK, MediumInv, PollingInv,
         NEW r \in reservations, now = r.at, ~ OnAir(apFrame)
  PROVE  now =< r.due + Lateness
<1>1. CASE r.at = r.due
      BY <1>1, LatenessCovers, Times
<1>2. CASE r.at # r.due
      BY <1>2 DEF PollingInv, Polling
<1>3. QED BY <1>1, <1>2

LEMMA CtsStep ==
  ASSUME IsFiniteSet(OtherAirtimes), TypeOK, TypeOK', WindowInv, PunctualInv, MediumInv,
         CyclesInv, NoRtsExchange, CtsInv, PollingInv, [Next]_vars
  PROVE  CtsInv'
<1> USE DurationsAreNat, Fields, NextFields, Times, LatenessCovers
<1>0. Cycle > 0
      BY DEF Cycle
<1>1. CASE StartNotificationApp
  <2>1. /\ UNCHANGED apFrame /\ ~ Reserved'
        /\ Started => WifiSlotEnd' = WifiSlotEnd + Cycle
        BY <1>1, NewCycle DEF apVars
  <2>2. QED BY <1>0, <2>1 DEF CtsInv, MediumInv
<1>2. ASSUME NEW t \in notifications, NotificationReceivedByWifiAp(t) PROVE CtsInv'
      BY <1>2, Delivery DEF CtsInv
<1>3. ASSUME UNCHANGED <<nextStart, notifications, reservations>>
      PROVE  Reserved' = Reserved /\ WifiSlotEnd' = WifiSlotEnd
      BY <1>3 DEF Reserved, Started, WifiSlotEnd
<1>4. ASSUME UNCHANGED <<nextStart, notifications, reservations>>,
             apFrame'.kind = "reserve" => apFrame.kind = "reserve" /\ apFrame'.end = apFrame.end
      PROVE  CtsInv'
      BY <1>3, <1>4 DEF CtsInv
<1>5. ASSUME NEW kind, NEW airtime, ApAccess(kind, airtime), kind # "reserve"
      PROVE  CtsInv'
      BY <1>4, <1>5, ApSendCases DEF ApAccess, orchestratorVars
<1>6. ASSUME NEW r \in reservations, ReserveMedium(r) PROVE CtsInv'
  <2>1. /\ now = r.at /\ UNCHANGED <<now, nextStart, notifications>>
        BY <1>6, ReserveCases
  <2>2. WifiSlotEnd' = WifiSlotEnd /\ Started' = Started
        BY <2>1 DEF WifiSlotEnd, Started
  <2>3. CASE OnAir(apFrame)
    <3>1. /\ UNCHANGED apFrame
          /\ \E q : q.due = r.due /\ reservations' = (reservations \ {r}) \cup {q}
          BY <1>6, <2>3, ReserveCases
    <3>2. Reserved => Reserved'
          BY <2>1, <2>2, <3>1 DEF Reserved
    <3>3. QED BY <1>0, <2>2, <3>1, <3>2 DEF CtsInv
  <2>4. CASE ~ OnAir(apFrame)
    <3>1. reservations' = reservations \ {r} /\ apFrame'.end = now + CtsAirtime
          BY <1>6, <2>4, ReserveCases
    <3>2. now =< r.due + Lateness
          BY <2>1, <2>4, LateByOneFrame
    <3>3. CASE r.due = WifiSlotEnd
      <4>1. Reserved'
            BY <1>0, <2>1, <2>2, <3>1, <3>3 DEF Reserved, CyclesInv, MediumInv
      <4>2. QED BY <2>2, <3>1, <3>2, <3>3, <4>1 DEF CtsInv
    <3>4. CASE r.due + Cycle =< WifiSlotEnd
          BY <1>0, <2>2, <3>1, <3>2, <3>4 DEF CtsInv
    <3>5. QED BY <3>3, <3>4 DEF CyclesInv
  <2>5. QED BY <2>3, <2>4
<1>7. CASE ApRespond
  <2>1. apResponse.kind # "reserve"
        BY <1>7 DEF ApRespond
  <2>2. QED BY <1>4, <1>7, <2>1, ApSendCases DEF ApRespond, orchestratorVars
<1>8. CASE ApFrameEnds
      BY <1>4, <1>8 DEF ApFrameEnds, NoFrame, orchestratorVars
<1>9. ASSUME NEW kind, NEW airtime, StaSend(kind, airtime),
             UNCHANGED <<nextStart, notifications, reservations>>
      PROVE  CtsInv'
      BY <1>4, <1>9, StaSendCases
<1>10. (\E d \in UplinkAirtimes : StaUplink(d)) \/ StaRespond => CtsInv'
      BY <1>9 DEF StaUplink, StaRespond, orchestratorVars
<1>11. CASE StaFrameEnds \/ Tick \/ UNCHANGED vars
      BY <1>4, <1>11 DEF StaFrameEnds, Tick, vars, orchestratorVars, apVars
<1>12. QED BY <1>1, <1>2, <1>5, <1>6, <1>7, <1>8, <1>10, <1>11, Accesses DEF Next, StaStep

(* What is on the air when a reservation is tried at its time is neither   *)
(* QoS data nor the reservation of an earlier cycle.                       *)
LEMMA FirstPoll ==
  ASSUME ~ UseRts, IsFiniteSet(OtherAirtimes), Lateness + CtsAirtime =< Cycle,
         IInv, MediumInv, CyclesInv, TimelyInv,
         NEW r \in reservations, r.at = now, r.due = now,
         OnAir(apFrame), now < apFrame.end
  PROVE  apFrame.end =< now + Lateness /\ ~ OnAir(apResponse)
<1> USE DurationsAreNat, LatenessCovers
<1>1. TypeOK /\ TimelyInv
      BY DEF IInv
<1> USE Fields, Times, OverrunCovers
<1>2. r.due = WifiSlotEnd
  <2>1. Started /\ nextStart =< now + Cycle
        BY DEF MediumInv
  <2>2. QED BY <1>1, <2>1 DEF CyclesInv, Cycle
<1>3. apFrame.kind \notin {"data", "group"}
  <2>1. Overrun =< Sifs + AckAirtime
        BY DEF Overrun, RtsOverrun, AckOverrun, Max2
  <2>2. QED BY <1>1, <1>2, <2>1 DEF IInv, ExchangeInv, Answered
<1>4. apFrame.kind # "reserve"
  <2>1. ~ Reserved
        BY <1>2 DEF Reserved
  <2>2. QED BY <1>1, <1>2, <2>1 DEF TimelyInv, CtsInv
<1>5. apFrame.kind \in {"other", "acked", "ack"}
      BY <1>1, <1>3, <1>4 DEF TimelyInv, NoRtsExchange, OnAir, TypeOK, Frames, ApKinds
<1>6. QED BY <1>1, <1>5 DEF TimelyInv, AirtimesInv, MediumInv

LEMMA PollingStep ==
  ASSUME ~ UseRts, IsFiniteSet(OtherAirtimes), Lateness + CtsAirtime =< Cycle,
         IInv, TypeOK', MediumInv, CyclesInv, TimelyInv, [Next]_vars
  PROVE  PollingInv'
<1> USE DurationsAreNat, LatenessCovers
<1>0. /\ TypeOK /\ WindowInv /\ PunctualInv
      /\ NoRtsExchange /\ AirtimesInv /\ CtsInv /\ PollingInv
      BY DEF IInv, TimelyInv
<1> USE Fields, NextFields, Times
(* Who waits for the medium, or answers, cannot come in between.           *)
<1>a. ASSUME ~ OnAir(apFrame), now > idleSince \/ OnAir(apResponse),
             UNCHANGED reservations
      PROVE  PollingInv'
      BY <1>0, <1>a DEF PollingInv, Polling
<1>1. CASE StartNotificationApp \/ UNCHANGED vars
  <2>1. UNCHANGED <<now, idleSince, reservations, apFrame, apResponse, staFrame>>
        BY <1>0, <1>1, NewCycle DEF vars, apVars, staVars
  <2>2. QED BY <1>0, <2>1 DEF PollingInv, Polling
<1>2. ASSUME NEW t \in notifications, NotificationReceivedByWifiAp(t) PROVE PollingInv'
  <2>1. /\ UNCHANGED <<now, idleSince, apFrame, apResponse, staFrame>>
        /\ reservations' = reservations \cup {[due |-> WifiSlotEnd, at |-> WifiSlotEnd]}
        BY <1>0, <1>2, Delivery DEF staVars
  <2>2. QED BY <1>0, <2>1 DEF PollingInv, Polling
<1>3. ASSUME NEW kind, NEW airtime, ApAccess(kind, airtime) PROVE PollingInv'
      BY <1>0, <1>a, <1>3, AccessIsLate DEF ApAccess
<1>4. ASSUME NEW r \in reservations, ReserveMedium(r) PROVE PollingInv'
  <2>1. now = r.at /\ UNCHANGED <<now, idleSince, apResponse>>
        BY <1>0, <1>4, ReserveCases
  <2>2. CASE OnAir(apFrame)
    <3>1. PICK q : /\ q.due = r.due /\ q.at = now + 1
                   /\ reservations' = (reservations \ {r}) \cup {q}
          BY <1>0, <1>4, <2>2, ReserveCases
    <3>2. UNCHANGED <<apFrame, staFrame>> /\ now < apFrame.end
          BY <1>0, <1>4, <2>2, ReserveCases
    <3>3. apFrame.end =< r.due + Lateness /\ ~ OnAir(apResponse)
      <4>1. CASE r.at = r.due
            BY <2>1, <2>2, <3>2, <4>1, FirstPoll
      <4>2. CASE r.at # r.due
            BY <1>0, <2>2, <4>2 DEF PollingInv, Polling
      <4>3. QED BY <4>1, <4>2
    <3>4. staFrame.kind = "uplink" => ~ staFrame.intact
          BY <2>2 DEF MediumInv, OnAir
    <3>5. Polling(q)'
          BY <2>1, <2>2, <3>1, <3>2, <3>3, <3>4 DEF Polling
    <3>6. ASSUME NEW s \in reservations, s.at # s.due PROVE Polling(s)'
          BY <1>0, <2>1, <2>2, <3>2, <3>6 DEF PollingInv, Polling
    <3>7. QED BY <3>1, <3>5, <3>6 DEF PollingInv
  <2>3. CASE ~ OnAir(apFrame)
    <3>1. now =< r.due + Lateness
          BY <1>0, <2>1, <2>3, LateByOneFrame
    <3>2. ASSUME NEW s \in reservations, s # r, s.at # s.due PROVE FALSE
      <4>1. s.at = now /\ now =< s.due + Lateness /\ s.due =< s.at /\ r.due =< r.at
            BY <1>0, <2>3, <3>2 DEF PollingInv, Polling, MediumInv
      <4>2. r.due + Cycle =< s.due \/ s.due + Cycle =< r.due
            BY <3>2 DEF CyclesInv
      <4>3. Lateness < Cycle
            BY <1>0
      <4>4. QED BY <1>0, <2>1, <3>1, <4>1, <4>2, <4>3
    <3>3. reservations' = reservations \ {r}
          BY <1>0, <1>4, <2>3, ReserveCases
    <3>4. QED BY <3>2, <3>3 DEF PollingInv
  <2>4. QED BY <2>2, <2>3
<1>5. CASE ApRespond
  <2>1. OnAir(apResponse) /\ UNCHANGED reservations
        BY <1>5 DEF ApRespond
  <2>2. QED BY <1>0, <2>1 DEF PollingInv, Polling
<1>6. CASE ApFrameEnds
  <2>1. /\ UNCHANGED <<now, reservations, apResponse, staFrame>>
        /\ OnAir(apFrame) /\ now = apFrame.end /\ idleSince' = now /\ ~ OnAir(apFrame')
        BY <1>6 DEF ApFrameEnds, NoFrame, OnAir
  <2>2. QED BY <1>0, <2>1 DEF PollingInv, Polling, MediumInv
<1>7. ASSUME NEW kind, NEW airtime, StaSend(kind, airtime),
             UNCHANGED <<now, idleSince, reservations, apResponse>>,
             kind = "uplink" /\ ~ OnAir(apFrame) => now > idleSince
      PROVE  PollingInv'
  <2>1. /\ apFrame'.kind = apFrame.kind /\ apFrame'.end = apFrame.end
        /\ staFrame'.kind = kind
        /\ OnAir(apFrame) => staFrame'.intact = FALSE
        BY <1>0, <1>7, StaSendCases
  <2>2. QED BY <1>0, <1>7, <2>1 DEF PollingInv, Polling, OnAir
<1>8. ASSUME NEW d \in UplinkAirtimes, StaUplink(d) PROVE PollingInv'
  <2>1. now > idleSince
        BY <1>0, <1>8 DEF StaUplink, MediumSensedIdle
  <2>2. QED BY <1>7, <1>8, <2>1 DEF StaUplink, orchestratorVars
<1>9. CASE StaRespond
      BY <1>0, <1>7, <1>9 DEF StaRespond, AirtimesInv
<1>10. CASE StaFrameEnds
  <2>1. /\ UNCHANGED <<now, reservations, apFrame>> /\ idleSince' = now
        /\ staFrame'.kind = "none"
        /\ apResponse' = apResponse \/ (staFrame.kind = "uplink" /\ staFrame.intact)
        BY <1>0, <1>10 DEF StaFrameEnds, NoFrame, NoRtsExchange
  <2>2. QED BY <1>0, <2>1 DEF PollingInv, Polling
<1>11. CASE Tick
  <2>1. /\ \A r \in reservations : now < r.at
        /\ UNCHANGED <<reservations, apFrame, apResponse, staFrame>>
        BY <1>11 DEF Tick, NothingDue, apVars, staVars
  <2>2. QED BY <1>0, <2>1 DEF PollingInv, Polling
<1>12. QED BY <1>1, <1>2, <1>3, <1>4, <1>5, <1>6, <1>8, <1>9, <1>10, <1>11, Accesses
           DEF Next, StaStep

(* A reservation that finds the AP transmitting is late by the rest of     *)
(* that one frame: the polling of ReserveMedium gets in before anything    *)
(* else, in every cycle anew.  The longest frame and a CTS have to fit in  *)
(* a cycle, or the reservation of the next one would meet this one's.      *)
THEOREM TimelyReservation ==
  ASSUME IsFiniteSet(OtherAirtimes), Lateness + CtsAirtime =< Cycle
  PROVE  Spec => []ReservationIsTimely
<1>1. CASE UseRts
  <2>1. ReservationIsTimely
        BY <1>1 DEF ReservationIsTimely
  <2>2. QED BY <2>1, PTL
<1>2. CASE ~ UseRts
  <2>1. Init => TimelyInv
        BY DEF Init, TimelyInv, NoRtsExchange, AirtimesInv, CtsInv, PollingInv, NoFrame, Silent,
               OnAir
  <2>2. RInv /\ RInv' /\ TimelyInv /\ [Next]_vars => TimelyInv'
        BY <1>2, NoRtsStep, AirtimesStep, CtsStep, PollingStep DEF RInv, IInv, TimelyInv
  <2>3. RInv /\ TimelyInv => ReservationIsTimely
    <3> SUFFICES ASSUME RInv, TimelyInv, NEW r \in reservations
                 PROVE  now =< r.due + Lateness
        BY DEF ReservationIsTimely, Lateness
    <3>1. now =< r.at /\ TypeOK
          BY DEF RInv, IInv, MediumInv
    <3>2. CASE r.at = r.due
          BY <3>1, <3>2, LatenessCovers, Times, Fields
    <3>3. CASE r.at # r.due
          BY <3>1, <3>3, LatenessCovers, Times, Fields DEF TimelyInv, PollingInv, Polling
    <3>4. QED BY <3>2, <3>3
  <2>4. QED BY <2>1, <2>2, <2>3, ReservationInvariant, PTL DEF Spec
<1>3. QED BY <1>1, <1>2

=============================================================================
