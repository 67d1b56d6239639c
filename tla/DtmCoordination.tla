--------------------------- MODULE DtmCoordination ---------------------------
(***************************************************************************)
(* Dynamic time multiplexing (DTM) of one Wi-Fi BSS with LTE-LAA, as the   *)
(* program test-uvigo.cc and the functions it added to MacLow implement it.*)
(*                                                                         *)
(* An orchestrator notifies the access point (AP) once per cycle.  A cycle *)
(* that starts at time t is                                                *)
(*                                                                         *)
(*    [t, t+WifiOn)                       Wi-Fi window                     *)
(*    [t+WifiOn, t+WifiOn+CtsDuration)    room for the reservation CTS     *)
(*    [.., t+WifiOn+CtsDuration+LaaOn)    slot that is left to LAA         *)
(*                                                                         *)
(* On a notification the AP stores the end of its transmission window,     *)
(* which limits the QoS data it starts, and schedules a CTS that reserves  *)
(* the medium for LaaOn.  Nothing else it sends looks at the window.       *)
(*                                                                         *)
(* Definitions whose comment starts with "Deliberately wrong" are no part  *)
(* of the model: each replaces a definition of it to test a property.      *)
(*                                                                         *)
(* Time is discrete: all durations are numbers of ticks.  An event whose   *)
(* time has come happens before the clock goes on, in any order with the   *)
(* other events of the same tick.                                          *)
(***************************************************************************)
EXTENDS Integers

CONSTANTS
  WifiOn,           \* wifiTransmissionDuration
  LaaOn,            \* laaTransmissionDuration
  CtsDuration,      \* ctsTransmissionDuration, the 36 us of test-uvigo.cc
  AckDuration,      \* ackTransmissionDuration, SIFS and 36 us for the answer
  FirstStart,       \* txStartTimeSeconds: the first notification
  MaxDelay,         \* longest delivery of a notification (p2p link, UDP)
  Sifs,             \* m_phy->GetSifs
  Ifs,              \* shortest idle time before a contended access
  CtsAirtime,       \* time on air of a CTS
  AckAirtime,       \* time on air of an Ack or BlockAck
  RtsAirtime,       \* time on air of an RTS
  DataAirtimes,     \* possible times on air of a QoS data PPDU
  OtherAirtimes,    \* ... of a beacon, management or BAR frame
  UplinkAirtimes,   \* ... of a frame the station sends of its own accord
  UseRts,           \* the --useRts option
  DurationFieldMax, \* 0x7fff us, the largest value of the Duration field
  MaxTime           \* Simulator::Stop; bounds the clock

ASSUME DurationsAreNat ==
  /\ WifiOn \in Nat /\ LaaOn \in Nat \ {0} /\ CtsDuration \in Nat \ {0}
  /\ AckDuration \in Nat /\ FirstStart \in Nat /\ MaxDelay \in Nat
  /\ Sifs \in Nat /\ Ifs \in Nat /\ Sifs < Ifs
  /\ CtsAirtime \in Nat \ {0} /\ AckAirtime \in Nat \ {0} /\ RtsAirtime \in Nat \ {0}
  /\ DataAirtimes \subseteq Nat \ {0}
  /\ OtherAirtimes \subseteq Nat \ {0}
  /\ UplinkAirtimes \subseteq Nat \ {0}
  /\ UseRts \in BOOLEAN /\ DurationFieldMax \in Nat /\ MaxTime \in Nat

(* A PPDU that starts before the first notification arrives is limited by  *)
(* no window; it and its answer still end within the first Wi-Fi window.   *)
ASSUME FirstWindowIsLongEnough ==
  /\ MaxDelay + AckDuration < WifiOn
  /\ \A d \in DataAirtimes : MaxDelay + d + AckDuration =< WifiOn

(* NS_ASSERT in WifiMacHeader::SetDuration.                                *)
ASSUME LaaFitsDurationField == LaaOn =< DurationFieldMax

VARIABLES
  now,            \* Simulator::Now
  nextStart,      \* time of the scheduled StartNotificationApp event
  notifications,  \* notificationTimestamps on their way to the AP
  windowEnd,      \* MacLow::endOfTransmissionWindow of the AP, 0 when unset
  reservations,   \* scheduled ReserveMedium events of the AP
  apPacket,       \* time on air of the AP's m_currentPacket
  apFrame,        \* what the AP is transmitting
  apResponse,     \* m_sendDataEvent or m_sendAckEvent of the AP
  apNavEnd,       \* m_lastNavStart + m_lastNavDuration of the AP
  staFrame,       \* what the station is transmitting
  staResponse,    \* m_sendCtsEvent or m_sendAckEvent of the station
  staNavEnd,      \* m_lastNavStart + m_lastNavDuration of the station
  idleSince,      \* end of the last transmission on the medium
  assertFailed    \* an NS_ASSERT has failed: the program is gone

orchestratorVars == <<nextStart, notifications>>
apVars   == <<windowEnd, reservations, apPacket, apFrame, apResponse, apNavEnd>>
staVars  == <<staFrame, staResponse, staNavEnd>>
vars == <<now, orchestratorVars, apVars, staVars, idleSince, assertFailed>>

ApKinds  == {"data", "group", "rts", "other", "acked", "reserve", "ack"}
StaKinds == {"uplink", "dataAck", "ack", "cts"}

(* What may be on the air, and an answer that is scheduled.                *)
Frames(kinds) ==
  [kind : kinds \cup {"none"}, start : Nat, end : Nat, intact : BOOLEAN]
Answers(kinds) == [kind : kinds \cup {"none"}, at : Nat, airtime : Nat]

NoFrame == [kind |-> "none", start |-> 0, end |-> 0, intact |-> FALSE]
Silent  == [kind |-> "none", at |-> 0, airtime |-> 0]

Max2(a, b) == IF a >= b THEN a ELSE b

-----------------------------------------------------------------------------
(* The medium.                                                             *)

OnAir(frame) == frame.kind # "none"

Airing(kind, airtime) ==
  [kind |-> kind, start |-> now, end |-> now + airtime, intact |-> TRUE]

Collided(frame) == [frame EXCEPT !.intact = FALSE]

(* A frame that started in this very tick cannot be sensed yet.            *)
MediumSensedIdle ==
  /\ \A frame \in {apFrame, staFrame} : OnAir(frame) => frame.start = now
  /\ now >= idleSince + Ifs

(* WifiPhy::Send of the AP.  NS_ASSERT (!m_state->IsStateTx ()); a frame   *)
(* being received is lost, and so is the one that is sent over it.         *)
ApSend(kind, airtime) ==
  IF OnAir(apFrame)
  THEN assertFailed' = TRUE /\ UNCHANGED <<apFrame, staFrame>>
  ELSE /\ apFrame' = IF OnAir(staFrame) THEN Collided(Airing(kind, airtime))
                                        ELSE Airing(kind, airtime)
       /\ staFrame' = Collided(staFrame)
       /\ UNCHANGED assertFailed

(* WifiPhy::Send of the station, which always has a free PHY here.         *)
StaSend(kind, airtime) ==
  /\ staFrame' = IF OnAir(apFrame) THEN Collided(Airing(kind, airtime))
                                   ELSE Airing(kind, airtime)
  /\ apFrame' = Collided(apFrame)

-----------------------------------------------------------------------------
(* The orchestrator.                                                       *)

(* Deliberately wrong: the cycle leaves no time for the reservation CTS.   *)
StartWithoutCtsTime ==
  /\ now = nextStart
  /\ notifications' = notifications \cup {now}
  /\ nextStart' = now + WifiOn + LaaOn
  /\ UNCHANGED <<now, apVars, staVars, idleSince, assertFailed>>

(* StartNotificationApp stamps and sends the notification of a cycle and   *)
(* schedules itself for the next one.                                      *)
StartNotificationApp ==
  /\ now = nextStart
  /\ notifications' = notifications \cup {now}
  /\ nextStart' = now + WifiOn + LaaOn + CtsDuration
  /\ UNCHANGED <<now, apVars, staVars, idleSince, assertFailed>>

(* The handler, for a window that ends at end and the delay that it gives  *)
(* to Simulator::Schedule.                                                 *)
WindowFrom(timestamp, end, delay) ==
  /\ notifications' = notifications \ {timestamp}
  /\ windowEnd' = end
  /\ reservations' = reservations \cup {[due |-> now + delay, at |-> now + delay]}
  /\ UNCHANGED <<now, nextStart, apPacket, apFrame, apResponse, apNavEnd,
                 staVars, idleSince, assertFailed>>

(* Deliberately wrong: the window counts from the arrival; it lacks WifiOn;*)
(* the reservation counts from the arrival.                                *)
WindowFromArrival(timestamp) ==
  WindowFrom(timestamp, now + WifiOn, (timestamp - now) + WifiOn)
WindowWithoutWifiOn(timestamp) ==
  WindowFrom(timestamp, timestamp - AckDuration, (timestamp - now) + WifiOn)
ReservationFromArrival(timestamp) ==
  WindowFrom(timestamp, timestamp + WifiOn - AckDuration, WifiOn)

(* The AP takes the notification off its socket.  The window and the       *)
(* reservation are relative to the time the orchestrator stamped, so the   *)
(* delay on the way does not move them.                                    *)
NotificationReceivedByWifiAp(timestamp) ==
  WindowFrom(timestamp, timestamp + WifiOn - AckDuration, (timestamp - now) + WifiOn)

-----------------------------------------------------------------------------
(* The AP.                                                                 *)

(* What an access grant of ChannelAccessManager guarantees at least.       *)
ApMayAccess ==
  /\ ~ OnAir(apFrame)
  /\ MediumSensedIdle
  /\ now >= apNavEnd + Ifs

(* Deliberately wrong: the airtime of the PPDU is not counted.             *)
WindowNotOver(airtime) == windowEnd > 0 => now < windowEnd

(* The test added to MacLow::IsWithinSizeAndTimeLimits.                    *)
IsWithinTimeLimits(airtime) ==
  windowEnd > 0 => airtime =< windowEnd - now

(* StartTransmission of unicast QoS data.  The window is checked once, for *)
(* the PPDU alone: an RTS/CTS exchange that precedes it is not counted.    *)
StartQosData(airtime) ==
  /\ ApMayAccess
  /\ IsWithinTimeLimits(airtime)
  /\ apPacket' = airtime
  /\ IF UseRts THEN ApSend("rts", RtsAirtime) ELSE ApSend("data", airtime)
  /\ UNCHANGED <<now, orchestratorVars, windowEnd, reservations, apResponse,
                 apNavEnd, staResponse, staNavEnd, idleSince>>

(* A group addressed QoS data frame is dequeued on the access grant, under *)
(* the same check; it is sent without RTS and not answered.                *)
StartGroupQosData(airtime) ==
  /\ ApMayAccess
  /\ IsWithinTimeLimits(airtime)
  /\ apPacket' = airtime
  /\ ApSend("group", airtime)
  /\ UNCHANGED <<now, orchestratorVars, windowEnd, reservations, apResponse,
                 apNavEnd, staResponse, staNavEnd, idleSince>>

(* StartTransmission of a beacon, management or BAR frame, which the       *)
(* station may have to answer: no window is checked.                       *)
StartOther(airtime, kind) ==
  /\ ApMayAccess
  /\ apPacket' = airtime
  /\ ApSend(kind, airtime)
  /\ UNCHANGED <<now, orchestratorVars, windowEnd, reservations, apResponse,
                 apNavEnd, staResponse, staNavEnd, idleSince>>

(* SendDataAfterCts or SendAckAfterData, one SIFS after what they answer.  *)
(* They look neither at the PHY nor at the NAV nor at the window.          *)
ApRespond ==
  /\ OnAir(apResponse)
  /\ now = apResponse.at
  /\ ApSend(apResponse.kind, apResponse.airtime)
  /\ apResponse' = Silent
  /\ UNCHANGED <<now, orchestratorVars, windowEnd, reservations, apPacket,
                 apNavEnd, staResponse, staNavEnd, idleSince>>

(* MacLow::ReserveMedium.  While the PHY transmits it polls (a tick stands *)
(* for the nanosecond of the code); else the CTS goes out, whatever the    *)
(* MAC was about to do, and the AP sets its own NAV, which only grows.     *)
Reserve(r, nav) ==
  /\ reservations' = reservations \ {r}
  /\ ApSend("reserve", CtsAirtime)
  /\ apNavEnd' = Max2(apNavEnd, nav)

PollAgain(r, delay) ==
  /\ reservations' = (reservations \ {r}) \cup {[r EXCEPT !.at = now + delay]}
  /\ UNCHANGED <<apFrame, staFrame, apNavEnd, assertFailed>>

ReserveEvent(r) ==
  /\ now = r.at
  /\ OnAir(apFrame) => now < apFrame.end
  /\ UNCHANGED <<now, orchestratorVars, windowEnd, apPacket, apResponse,
                 staResponse, staNavEnd, idleSince>>

(* Deliberately wrong: no look at the PHY; no NAV for the AP itself; a     *)
(* second try after much more than one tick.                               *)
ReserveBlindly(r) == ReserveEvent(r) /\ Reserve(r, now + LaaOn)
ReserveWithoutNav(r) ==
  /\ ReserveEvent(r)
  /\ IF OnAir(apFrame) THEN PollAgain(r, 1) ELSE Reserve(r, 0)
ReservePollsSlowly(r) ==
  /\ ReserveEvent(r)
  /\ IF OnAir(apFrame) THEN PollAgain(r, WifiOn) ELSE Reserve(r, now + LaaOn)

ReserveMedium(r) ==
  /\ ReserveEvent(r)
  /\ IF OnAir(apFrame) THEN PollAgain(r, 1) ELSE Reserve(r, now + LaaOn)

(* The AP's transmission ends.  If the station received it, it schedules   *)
(* the answer (a CTS only if its NAV is zero) or sets its NAV.             *)
ApFrameEnds ==
  /\ OnAir(apFrame)
  /\ now = apFrame.end
  /\ apFrame' = NoFrame
  /\ idleSince' = now
  /\ staResponse' =
       CASE apFrame.intact /\ apFrame.kind = "data" ->
              [kind |-> "dataAck", at |-> now + Sifs, airtime |-> AckAirtime]
         [] apFrame.intact /\ apFrame.kind = "acked" ->
              [kind |-> "ack", at |-> now + Sifs, airtime |-> AckAirtime]
         [] apFrame.intact /\ apFrame.kind = "rts" /\ staNavEnd < now ->
              [kind |-> "cts", at |-> now + Sifs, airtime |-> CtsAirtime]
         [] OTHER -> staResponse
  /\ staNavEnd' = IF apFrame.intact /\ apFrame.kind = "reserve"
                  THEN Max2(staNavEnd, now + LaaOn) ELSE staNavEnd
  /\ UNCHANGED <<now, orchestratorVars, windowEnd, reservations, apPacket,
                 apResponse, apNavEnd, staFrame, assertFailed>>

-----------------------------------------------------------------------------
(* The station.  It knows of no window; only its NAV keeps it quiet.       *)

StaUplink(airtime) ==
  /\ ~ OnAir(staFrame)
  /\ MediumSensedIdle
  /\ now >= staNavEnd + Ifs
  /\ StaSend("uplink", airtime)
  /\ UNCHANGED <<now, orchestratorVars, windowEnd, reservations, apPacket,
                 apResponse, apNavEnd, staResponse, staNavEnd, idleSince,
                 assertFailed>>

StaRespond ==
  /\ OnAir(staResponse)
  /\ now = staResponse.at
  /\ StaSend(staResponse.kind, staResponse.airtime)
  /\ staResponse' = Silent
  /\ UNCHANGED <<now, orchestratorVars, windowEnd, reservations, apPacket,
                 apResponse, apNavEnd, staNavEnd, idleSince, assertFailed>>

(* The station's transmission ends.  The AP answers what it received: data *)
(* after a CTS, an Ack after an uplink frame.                              *)
StaFrameEnds ==
  /\ OnAir(staFrame)
  /\ now = staFrame.end
  /\ staFrame' = NoFrame
  /\ idleSince' = now
  /\ apResponse' =
       CASE staFrame.intact /\ staFrame.kind = "cts" ->
              [kind |-> "data", at |-> now + Sifs, airtime |-> apPacket]
         [] staFrame.intact /\ staFrame.kind = "uplink" ->
              [kind |-> "ack", at |-> now + Sifs, airtime |-> AckAirtime]
         [] OTHER -> apResponse
  /\ UNCHANGED <<now, orchestratorVars, windowEnd, reservations, apPacket,
                 apFrame, apNavEnd, staResponse, staNavEnd, assertFailed>>

-----------------------------------------------------------------------------
(* The simulator: the clock goes on when no event is left at this time.    *)

NothingDue ==
  /\ now < nextStart
  /\ \A t \in notifications : now < t + MaxDelay
  /\ \A r \in reservations : now < r.at
  /\ \A frame \in {apFrame, staFrame} : OnAir(frame) => now < frame.end
  /\ \A resp \in {apResponse, staResponse} : OnAir(resp) => now < resp.at

Tick ==
  /\ now < MaxTime
  /\ NothingDue
  /\ now' = now + 1
  /\ UNCHANGED <<orchestratorVars, apVars, staVars, idleSince, assertFailed>>

Init ==
  /\ now = 0 /\ idleSince = 0
  /\ nextStart = FirstStart /\ notifications = {}
  /\ windowEnd = 0 /\ reservations = {} /\ apPacket = 0
  /\ apFrame = NoFrame /\ apResponse = Silent /\ apNavEnd = 0
  /\ staFrame = NoFrame /\ staResponse = Silent /\ staNavEnd = 0
  /\ assertFailed = FALSE

ApStep ==
  \/ \E t \in notifications : NotificationReceivedByWifiAp(t)
  \/ \E d \in DataAirtimes : StartQosData(d) \/ StartGroupQosData(d)
  \/ \E d \in OtherAirtimes, kind \in {"other", "acked"} : StartOther(d, kind)
  \/ \E r \in reservations : ReserveMedium(r)
  \/ ApRespond
  \/ ApFrameEnds

StaStep ==
  \/ \E d \in UplinkAirtimes : StaUplink(d)
  \/ StaRespond
  \/ StaFrameEnds

Next == ~ assertFailed /\ (StartNotificationApp \/ ApStep \/ StaStep \/ Tick)

Spec == Init /\ [][Next]_vars

-----------------------------------------------------------------------------
(* Type invariant: all times are natural numbers.                          *)
TypeOK ==
  /\ now \in Nat /\ nextStart \in Nat /\ idleSince \in Nat
  /\ notifications \subseteq Nat
  /\ windowEnd \in Nat
  /\ reservations \subseteq [due : Nat, at : Nat]
  /\ apPacket \in Nat /\ apNavEnd \in Nat /\ staNavEnd \in Nat
  /\ apFrame \in Frames(ApKinds) /\ apResponse \in Answers({"data", "ack"})
  /\ staFrame \in Frames(StaKinds) /\ staResponse \in Answers(StaKinds)
  /\ assertFailed \in BOOLEAN

(* The end of the Wi-Fi window of the cycle that is under way, or of the   *)
(* first one while the orchestrator has not started; the slot left to LAA. *)
Started     == nextStart > FirstStart
WifiSlotEnd == IF Started THEN nextStart - LaaOn - CtsDuration
                          ELSE nextStart + WifiOn
InLaaSlot   == Started /\ nextStart - LaaOn =< now /\ now < nextStart

(* A QoS data PPDU or its answer is on the air or bound to come.           *)
QosExchange ==
  \/ apFrame.kind \in {"data", "group"}
  \/ staResponse.kind = "dataAck"
  \/ staFrame.kind = "dataAck"

(* How far a QoS data exchange may outlive the Wi-Fi window: an RTS/CTS    *)
(* exchange is not counted by the check, and at a low rate the answer      *)
(* takes longer than ackTransmissionDuration allows for.                   *)
RtsOverrun == IF UseRts THEN RtsAirtime + Sifs + CtsAirtime + Sifs ELSE 0
AckOverrun == Max2(0, Sifs + AckAirtime - AckDuration)
Overrun    == RtsOverrun + AckOverrun

(* A QoS data exchange is over when the Wi-Fi window ends, or at most      *)
(* Overrun later: the check in IsWithinSizeAndTimeLimits, made against a   *)
(* window that may be missing, stale, or that arrives while a PPDU is on   *)
(* the air, is enough.                                                     *)
QosDataEndsInTime == QosExchange => now =< WifiSlotEnd + Overrun

(* An overrun shorter than the time left for the reservation CTS keeps     *)
(* every QoS data exchange out of the slot left to LAA.                    *)
QosDataClearOfLaa == Overrun < CtsDuration => ~ (InLaaSlot /\ QosExchange)

(* Simulator::Schedule takes no negative delay: a notification, however it *)
(* is delayed, arrives before the reservation it asks for is due, and what *)
(* it schedules is due when the Wi-Fi window of the cycle ends.  The event *)
(* is not tried before that, nor passed over by the clock.                 *)
ReservationsAreDue ==
  /\ \A t \in notifications : now =< t + WifiOn
  /\ \A r \in reservations :
       /\ r.due =< r.at /\ now =< r.at
       /\ now =< r.due => r.due = WifiSlotEnd

LongestOther == CHOOSE d \in OtherAirtimes \cup {0} :
                  \A e \in OtherAirtimes \cup {0} : e =< d

(* A reservation that finds the AP transmitting is tried until it is sent, *)
(* and is late by no more than the one frame that was in its way: lateness *)
(* does not add up over the cycles, and no second frame slips in between.  *)
ReservationIsTimely ==
  ~ UseRts => \A r \in reservations : now =< r.due + Max2(LongestOther, AckAirtime)

(* After the reservation of a cycle has been sent, the AP's own NAV keeps  *)
(* it from starting anything before the last CtsDuration of the LAA slot;  *)
(* it only answers a station that did not hear the reservation.            *)
QuietAfterReservation ==
  Started /\ notifications = {} /\ reservations = {}
    /\ now < nextStart - CtsDuration
  => apFrame.kind \in {"none", "reserve", "ack"}

(* NS_ASSERT (!m_state->IsStateTx () ...) of WifiPhy::Send never fails.    *)
PhyIsFreeWhenSending == ~ assertFailed

(* The abstract promise, with instants on a boundary counted to the turn   *)
(* that ends there.                                                        *)
Owner ==
  IF now =< WifiSlotEnd THEN "wifi"
  ELSE IF now =< WifiSlotEnd + CtsDuration THEN "gap" ELSE "laa"

Sharing == INSTANCE MediumSharing WITH owner <- Owner, exchange <- QosExchange

SharesTheMedium == Sharing!Spec
==============================================================================
