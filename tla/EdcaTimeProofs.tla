--------------------------- MODULE EdcaTimeProofs ---------------------------
(***************************************************************************)
(* Theorems about the time of a grant in EdcaContention, for every value   *)
(* of its constants: whoever starts an exchange has waited for AIFS after  *)
(* the medium was last reported busy, and after the EIFS of a bad frame.   *)
(*                                                                         *)
(* The channel access manager keeps the end of the last interval of each   *)
(* kind; heard is what was reported instant by instant.  The invariant     *)
(* says that the intervals that are kept lose nothing that was heard,      *)
(* until it is too old to matter.                                          *)
(***************************************************************************)
EXTENDS EdcaProofs

(* Too old for anybody to wait because of it.                              *)
Old(time) == time < Oldest + Slot

(* The manager knows when the medium was last busy.                        *)
BusyIsKnown(d, h) == h.busy =< now /\ (h.busy =< LastEnd(d) \/ Old(h.busy))

(* It waits for the EIFS of a bad frame, unless a frame was received, a    *)
(* transmission or a channel switch has begun since, or it is long ago.    *)
BadIsKnown(d, h) ==
  \/ Old(h.bad) \/ h.bad =< h.busy
  \/ d.rxEnd > now \/ d.txEnd > now \/ d.switchEnd > now
  \/ ~ d.rxOk /\ h.bad =< d.rxEnd + EifsNoDifs

HeardInv == BusyIsKnown(dev, heard) /\ BadIsKnown(dev, heard)

(* What a handler may do to the intervals: leave them, or report the       *)
(* present or later; the end of a bad frame is replaced only by a new      *)
(* reception, a transmission or a switch.                                  *)
Reports(d, e) ==
  /\ Ends(e) = Ends(d) \/ \E end \in Ends(e) : end >= now
  /\ \/ e.rxEnd > now \/ e.txEnd > now \/ e.switchEnd > now
     \/ /\ e.rxEnd = d.rxEnd /\ e.rxOk = d.rxOk
        /\ e.txEnd = d.txEnd /\ e.switchEnd = d.switchEnd

(* Whoever becomes the owner of the exchange has waited.                   *)
StartsAfterAifs(d, e) == e.owner # d.owner /\ Underway(e) => Waited(d, e.owner)

Heeds(d, e) == Reports(d, e) /\ StartsAfterAifs(d, e)

-----------------------------------------------------------------------------
(* Steps in general.                                                       *)

LEMMA LongAgo ==
  ASSUME NEW t \in Txops
  PROVE  Oldest \in Int /\ Oldest + Slot + Sifs + Aifsn[t] * Slot =< now
<1> DEFINE u == CHOOSE x \in Txops : \A y \in Txops : Aifsn[y] =< Aifsn[x]
           more == MaxDraw + (Aifsn[u] - Aifsn[t])
<1>1. u \in Txops /\ Aifsn[t] =< Aifsn[u]
      BY LargestAifsn
<1> HIDE DEF u
<1>2. Aifsn[t] \in Nat /\ Aifsn[u] \in Nat
      BY <1>1, EdcaConstants
<1>3. more \in Nat /\ MaxDraw + 1 + Aifsn[u] = more + (1 + Aifsn[t])
      BY <1>1, <1>2, Constants
<1>4. Oldest = 0 - (Sifs + EifsNoDifs + (MaxDraw + 1 + Aifsn[u]) * Slot)
      BY DEF Oldest, u
<1> HIDE DEF more
<1>5. (MaxDraw + 1 + Aifsn[u]) * Slot = more * Slot + Slot + Aifsn[t] * Slot
      BY <1>2, <1>3, Constants
<1>6. more * Slot \in Nat /\ Aifsn[t] * Slot \in Nat
      BY <1>3, Aifs, Constants
<1>7. QED BY <1>4, <1>5, <1>6, Constants DEF now

LEMMA SameIntervals ==
  ASSUME NEW d, NEW e, Intervals(e) = Intervals(d), e.owner = d.owner \/ ~ Underway(e)
  PROVE  Heeds(d, e)
<1>1. Reports(d, e)
      BY SameLastEnd DEF Reports, Intervals
<1>2. QED BY <1>1 DEF Heeds, StartsAfterAifs

LEMMA NewEnd ==
  ASSUME NEW d, NEW e, e.owner = d.owner, NEW end \in Ends(e), end >= now,
         \/ e.rxEnd > now \/ e.txEnd > now \/ e.switchEnd > now
         \/ /\ e.rxEnd = d.rxEnd /\ e.rxOk = d.rxOk
            /\ e.txEnd = d.txEnd /\ e.switchEnd = d.switchEnd
  PROVE  Heeds(d, e)
  BY DEF Heeds, Reports, StartsAfterAifs

LEMMA TransmissionHeeds ==
  ASSUME NEW d, NEW e, e.txEnd = now + FrameTime, e.owner = d.owner \/ Waited(d, e.owner)
  PROVE  Heeds(d, e)
<1>1. e.txEnd > now /\ e.txEnd >= now
      BY Constants DEF now
<1>2. e.txEnd \in Ends(e)
      BY DEF Ends
<1>3. QED BY <1>1, <1>2 DEF Heeds, Reports, StartsAfterAifs

LEMMA OutcomeHeeds ==
  ASSUME NEW d, NEW g, Outcome(d, g)
  PROVE  Heeds(d, g)
<1>1. CASE Quiet(d, g)
      BY <1>1, SameIntervals DEF Quiet, Exchange
<1>2. CASE Begins(d, g)
      BY <1>2, TransmissionHeeds DEF Begins, HasBegun
<1>3. QED BY <1>1, <1>2 DEF Outcome

LEMMA HeedsAlike ==
  ASSUME NEW d, NEW q, NEW e \in Devices,
         Intervals(q) = Intervals(d), q.owner = d.owner, Heeds(q, e)
  PROVE  Heeds(d, e)
<1>1. Ends(q) = Ends(d)
      BY SameLastEnd
<1>2. Reports(d, e)
      BY <1>1 DEF Heeds, Reports, Intervals
<1>3. Underway(e) => e.owner \in Txops
      BY DEF Underway, Devices
<1>4. QED BY <1>2, <1>3, SameProtected DEF Heeds, StartsAfterAifs

-----------------------------------------------------------------------------
(* Packets, lifetimes, and the timer.                                      *)

LEMMA QueueHeeds ==
  ASSUME IInv, NEW t \in Txops, Queue(t)
  PROVE  Heeds(dev, dev')
<1> DEFINE queued(b) == [BackoffUponAccess(dev, t, b) EXCEPT !.frames[t] = @ + 1]
<1>1. dev \in Devices
      BY DEF IInv, TypeOK
<1>2. ASSUME NEW b \in Choices
      PROVE  /\ queued(b) \in Devices /\ Intervals(queued(b)) = Intervals(dev)
             /\ queued(b).owner = dev.owner /\ queued(b).sleeping = dev.sleeping
  <2>1. /\ queued(b) \in Devices /\ Intervals(queued(b)) = Intervals(dev)
        /\ Exchange(queued(b)) = Exchange(dev)
        BY <1>1, PacketQueued
  <2> HIDE DEF queued
  <2>2. QED BY <2>1 DEF Intervals, Exchange
<1> HIDE DEF queued
<1>3. DrawsOf[t] \subseteq Choices /\ \A b : Offers(AccessRequested(queued(b), t)) \subseteq Choices
      BY OpenChoices
<1>4. ASSUME NEW c \in Choices, dev' = queued(c) PROVE Heeds(dev, dev')
      BY <1>2, <1>4, SameIntervals
<1>5. ASSUME NEW b \in Choices, NEW c \in Choices, dev' = RequestAccess(queued(b), t, c)
      PROVE  Heeds(dev, dev')
  <2>1. CASE dev.sleeping
        BY <1>2, <1>4, <1>5, <2>1 DEF RequestAccess
  <2>2. CASE ~ dev.sleeping
    <3>1. Outcome(queued(b), dev')
          BY <1>2, <1>5, <2>2, AccessIsRequested
    <3>2. Heeds(queued(b), dev') /\ dev' \in Devices
          BY <3>1, OutcomeHeeds DEF Outcome
    <3>3. QED BY <1>2, <3>2, HeedsAlike
  <2>3. QED BY <2>1, <2>2
<1>6. QED BY <1>3, <1>4, <1>5 DEF Queue, Becomes, queued

LEMMA ExpireHeeds ==
  ASSUME IInv, NEW t \in Txops, Expire(t)
  PROVE  Heeds(dev, dev')
<1>1. dev' = [dev EXCEPT !.frames[t] = @ - 1] /\ dev \in Devices
      BY DEF Expire, Becomes, IInv, TypeOK
<1>2. Intervals(dev') = Intervals(dev) /\ dev'.owner = dev.owner
      BY <1>1 DEF Devices, Intervals
<1>3. QED BY <1>2, SameIntervals

LEMMA AccessTimeoutHeeds ==
  ASSUME IInv, AccessTimeout
  PROVE  Heeds(dev, dev')
<1> DEFINE stopped == [dev EXCEPT !.timer = Never]
           d == UpdateBackoff(stopped)
<1>1. PICK c \in Offers(d) : dev' = DoRestartAccessTimeoutIfNeeded(DoGrantDcfAccess(d, c))
      BY DEF AccessTimeout, Becomes
<1>2. c \in Choices
      BY OpenChoices
<1>3. stopped \in Devices /\ Intervals(stopped) = Intervals(dev) /\ stopped.owner = dev.owner
      BY DEF IInv, TypeOK, Devices, Event, Intervals
<1> HIDE DEF stopped
<1>4. d \in Devices /\ Intervals(d) = Intervals(dev) /\ d.owner = dev.owner
      BY <1>3, Updated DEF Exchange
<1> HIDE DEF d
<1>5. Outcome(d, dev')
      BY <1>1, <1>2, <1>4, GrantedAndTimed
<1>6. Heeds(d, dev') /\ dev' \in Devices
      BY <1>5, OutcomeHeeds DEF Outcome
<1>7. QED BY <1>4, <1>6, HeedsAlike

-----------------------------------------------------------------------------
(* Receptions.                                                             *)

LEMMA RxStartHeeds ==
  ASSUME IInv, NEW d \in RxTimes, RxStart(d)
  PROVE  Heeds(dev, dev')
<1> DEFINE u == UpdateBackoff(dev)
           started == [u EXCEPT !.rxEnd = now + d, !.rxOk = TRUE]
           acked == [started EXCEPT !.due = now + d, !.ackEnd = now]
           cleared == [started EXCEPT !.due = now + d, !.ctsEnd = now]
<1>1. /\ u \in Devices /\ u.owner = dev.owner
      BY Updated DEF IInv, TypeOK, Exchange
<1>2. now + d \in Nat /\ now + d > now /\ now \in Int
      BY EdcaConstants DEF now
<1>3. \/ dev' = started
      \/ dev' = DoRestartAccessTimeoutIfNeeded(acked)
      \/ dev' = DoRestartAccessTimeoutIfNeeded(cleared)
      BY DEF RxStart, Becomes
<1> HIDE DEF u
<1>4. ASSUME NEW e, e = started \/ e = acked \/ e = cleared
      PROVE  e \in Devices /\ e.owner = dev.owner /\ e.rxEnd = now + d
  <2>1. now + d \in Int /\ now + d \in Event
        BY <1>2 DEF Event
  <2>2. started \in Devices
        BY <1>1, <2>1 DEF Devices
  <2>3. started.owner = dev.owner /\ started.rxEnd = now + d
        BY <1>1 DEF Devices
  <2> HIDE DEF started
  <2>4. acked \in Devices /\ cleared \in Devices
        BY <1>2, <2>1, <2>2 DEF Devices
  <2>5. e.owner = dev.owner /\ e.rxEnd = now + d
        BY <1>4, <2>2, <2>3 DEF Devices
  <2>6. QED BY <1>4, <2>2, <2>4, <2>5
<1> HIDE DEF started, acked, cleared
<1>5. dev'.owner = dev.owner /\ dev'.rxEnd = now + d
      BY <1>3, <1>4, Restarted DEF Intervals, Exchange
<1>6. dev'.rxEnd \in Ends(dev') /\ dev'.rxEnd > now /\ dev'.rxEnd >= now
      BY <1>2, <1>5 DEF Ends, now
<1>7. QED BY <1>5, <1>6, NewEnd

LEMMA ReceiveAckHeeds ==
  ASSUME IInv, NEW n \in 0 .. MaxFrames, NEW c \in Choices, ReceiveAck(n, c)
  PROVE  Heeds(dev, dev')
<1> DEFINE reset == [dev EXCEPT !.ackEnd = now]
           d == DoRestartAccessTimeoutIfNeeded(reset)
<1>1. /\ RxEnds /\ dev.phase = "ack" /\ dev' = ExchangeEnds(d, n, c)
      BY DEF ReceiveAck, Becomes
<1>2. /\ dev \in Devices /\ phy \in Phys /\ DeviceInv(dev, phy)
      /\ ~ dev.sleeping /\ dev.rxEnd = now
      /\ Underway(dev) /\ dev.due = now
      BY <1>1, ReceptionEnds DEF DeviceInv, OwnerInv
<1>3. /\ reset \in Devices /\ Exchange(reset) = Exchange(dev) /\ Work(reset) = Work(dev)
      /\ reset.timer = dev.timer /\ reset.rxEnd = dev.rxEnd /\ reset.rxOk = dev.rxOk
      /\ reset.txEnd = dev.txEnd /\ reset.switchEnd = dev.switchEnd
      /\ reset.sleeping = dev.sleeping /\ reset.ctsEnd = dev.ctsEnd /\ reset.ackEnd = now
      BY <1>2 DEF Devices, Exchange, Work, now
<1> HIDE DEF reset
<1>4. /\ d \in Devices /\ Exchange(d) = Exchange(dev) /\ Work(d) = Work(dev)
      /\ (dev.timer # Never => d.timer # Never) /\ Intervals(d) = Intervals(reset)
      BY <1>3, Restarted
<1> HIDE DEF d
<1>5. /\ d.rxEnd = dev.rxEnd /\ d.rxOk = dev.rxOk /\ d.txEnd = dev.txEnd
      /\ d.switchEnd = dev.switchEnd
      /\ d.sleeping = dev.sleeping /\ d.ctsEnd = dev.ctsEnd /\ d.ackEnd = now
      BY <1>3, <1>4 DEF Intervals
<1>6. now \in Ends(d) /\ now >= now /\ dev.due =< Later(d.ackEnd, d.rxEnd)
      BY <1>2, <1>5 DEF Ends, now, Later
<1>7. DeviceInv(d, phy)
      BY <1>1, <1>2, <1>4, <1>5, <1>6, IntervalStep DEF Step
<1>8. Underway(d) /\ ~ d.sleeping /\ n \in Nat
      BY <1>2, <1>4, <1>5, Constants DEF Exchange, Underway
<1>9. ~ Underway(dev') /\ Intervals(dev') = Intervals(d)
      BY <1>1, <1>2, <1>4, <1>7, <1>8, ExchangeEnded
<1>10. Reports(dev, dev')
  <2>1. now \in Ends(dev') /\ now >= now
        BY <1>6, <1>9, SameLastEnd
  <2>2. QED BY <1>5, <1>9, <2>1 DEF Reports, Intervals
<1>11. QED BY <1>9, <1>10 DEF Heeds, StartsAfterAifs

LEMMA ReceiveCtsHeeds ==
  ASSUME IInv, ReceiveCts
  PROVE  Heeds(dev, dev')
<1> DEFINE reset == [dev EXCEPT !.ctsEnd = now]
           d == DoRestartAccessTimeoutIfNeeded(reset)
<1>1. dev' = [d EXCEPT !.phase = "sifs", !.due = now + Sifs]
      BY DEF ReceiveCts, Becomes
<1>2. /\ reset \in Devices /\ reset.owner = dev.owner
      /\ reset.rxEnd = dev.rxEnd /\ reset.rxOk = dev.rxOk
      /\ reset.txEnd = dev.txEnd /\ reset.switchEnd = dev.switchEnd /\ reset.ctsEnd = now
      BY DEF IInv, TypeOK, Devices, now
<1> HIDE DEF reset
<1>3. d \in Devices /\ d.owner = dev.owner /\ Intervals(d) = Intervals(reset)
      BY <1>2, Restarted DEF Exchange
<1> HIDE DEF d
<1>4. dev'.owner = dev.owner /\ Intervals(dev') = Intervals(reset)
      BY <1>1, <1>3 DEF Devices, Intervals
<1>5. now \in Ends(dev') /\ now >= now
      BY <1>2, <1>4 DEF Intervals, Ends, now
<1>6. QED BY <1>2, <1>4, <1>5, NewEnd DEF Intervals

LEMMA ReceiveRequestHeeds ==
  ASSUME IInv, ReceiveRequest
  PROVE  Heeds(dev, dev')
<1>1. dev' = [dev EXCEPT !.response = now + Sifs] /\ dev \in Devices
      BY DEF ReceiveRequest, Becomes, IInv, TypeOK
<1>2. Intervals(dev') = Intervals(dev) /\ dev'.owner = dev.owner
      BY <1>1 DEF Devices, Intervals
<1>3. QED BY <1>2, SameIntervals

LEMMA NotifyNavHeeds ==
  ASSUME IInv, NEW d \in NavTimes, NEW rts \in BOOLEAN, NotifyNav(d, rts)
  PROVE  Heeds(dev, dev')
<1> DEFINE u == UpdateBackoff(dev)
           nav == Later(u.navEnd, now + d)
<1>1. dev' = [u EXCEPT !.navEnd = nav]
      BY DEF NotifyNav, Becomes
<1>2. u \in Devices /\ Intervals(u) = Intervals(dev) /\ u.owner = dev.owner
      BY Updated DEF IInv, TypeOK, Exchange
<1> HIDE DEF u
<1>3. nav >= now /\ nav \in Int
      BY <1>2, EdcaConstants DEF Later, Devices, now
<1> HIDE DEF nav
<1>4. /\ dev'.owner = dev.owner /\ dev'.navEnd = nav
      /\ dev'.rxEnd = dev.rxEnd /\ dev'.rxOk = dev.rxOk
      /\ dev'.txEnd = dev.txEnd /\ dev'.switchEnd = dev.switchEnd
      BY <1>1, <1>2 DEF Devices, Intervals
<1>5. nav \in Ends(dev')
      BY <1>4 DEF Ends
<1>6. QED BY <1>3, <1>4, <1>5, NewEnd

LEMMA DoNavResetNowHeeds ==
  ASSUME IInv, DoNavResetNow
  PROVE  Heeds(dev, dev')
<1> DEFINE u == UpdateBackoff(dev)
           reset == [u EXCEPT !.navEnd = now]
<1>1. dev' = DoRestartAccessTimeoutIfNeeded(reset)
      BY DEF DoNavResetNow, Becomes
<1>2. u \in Devices /\ Intervals(u) = Intervals(dev) /\ u.owner = dev.owner
      BY Updated DEF IInv, TypeOK, Exchange
<1> HIDE DEF u
<1>3. /\ reset \in Devices /\ reset.owner = dev.owner /\ reset.navEnd = now
      /\ reset.rxEnd = dev.rxEnd /\ reset.rxOk = dev.rxOk
      /\ reset.txEnd = dev.txEnd /\ reset.switchEnd = dev.switchEnd
      BY <1>2 DEF Devices, Intervals, now
<1> HIDE DEF reset
<1>4. dev'.owner = dev.owner /\ Intervals(dev') = Intervals(reset)
      BY <1>1, <1>3, Restarted DEF Exchange
<1>5. now \in Ends(dev') /\ now >= now
      BY <1>3, <1>4 DEF Intervals, Ends, now
<1>6. QED BY <1>3, <1>4, <1>5, NewEnd DEF Intervals

LEMMA NotifyMaybeCcaBusyStartHeeds ==
  ASSUME IInv, NEW d \in CcaTimes, NotifyMaybeCcaBusyStart(d)
  PROVE  Heeds(dev, dev')
<1> DEFINE u == UpdateBackoff(dev)
           end == now + d
<1>1. dev' = [u EXCEPT !.busyEnd = end]
      BY DEF NotifyMaybeCcaBusyStart, Becomes
<1>2. u \in Devices /\ Intervals(u) = Intervals(dev) /\ u.owner = dev.owner
      BY Updated DEF IInv, TypeOK, Exchange
<1>3. end >= now
      BY EdcaConstants DEF now
<1> HIDE DEF u, end
<1>4. /\ dev'.owner = dev.owner /\ dev'.busyEnd = end
      /\ dev'.rxEnd = dev.rxEnd /\ dev'.rxOk = dev.rxOk
      /\ dev'.txEnd = dev.txEnd /\ dev'.switchEnd = dev.switchEnd
      BY <1>1, <1>2 DEF Devices, Intervals
<1>5. end \in Ends(dev')
      BY <1>4 DEF Ends
<1>6. QED BY <1>3, <1>4, <1>5, NewEnd

-----------------------------------------------------------------------------
(* The exchange under way, the answers to others, sleep and switch.        *)

LEMMA EndingHeeds ==
  ASSUME IInv, Underway(dev), NEW n \in Nat, NEW c \in Choices,
         dev' = ExchangeEnds(dev, n, c)
  PROVE  Heeds(dev, dev')
<1>1. dev \in Devices /\ phy \in Phys /\ DeviceInv(dev, phy) /\ ~ dev.sleeping
      BY DEF IInv, TypeOK, DeviceInv, SleepInv
<1>2. ~ Underway(dev') /\ Intervals(dev') = Intervals(dev)
      BY <1>1, ExchangeEnded
<1>3. QED BY <1>2, SameIntervals

LEMMA ExchangeTimeoutHeeds ==
  ASSUME IInv, NEW n \in 0 .. MaxFrames, NEW c \in Choices, ExchangeTimeout(n, c)
  PROVE  Heeds(dev, dev')
<1>1. Underway(dev) /\ n \in Nat
      BY Constants DEF ExchangeTimeout, IInv, DeviceInv, OwnerInv
<1>2. QED BY <1>1, EndingHeeds DEF ExchangeTimeout, Becomes

LEMMA EndTxNoAckHeeds ==
  ASSUME IInv, NEW c \in Choices, EndTxNoAck(c)
  PROVE  Heeds(dev, dev')
<1>1. Underway(dev) /\ dev.frames[dev.owner] > 0
      BY DEF EndTxNoAck, IInv, DeviceInv, OwnerInv
<1>2. dev.frames[dev.owner] - 1 \in Nat
      BY <1>1 DEF IInv, TypeOK, Devices, Underway
<1>3. QED BY <1>1, <1>2, EndingHeeds DEF EndTxNoAck, Becomes

LEMMA SendDataAfterCtsHeeds ==
  ASSUME IInv, NEW kind \in {"ack", "noack"}, SendDataAfterCts(kind)
  PROVE  Heeds(dev, dev')
<1>1. dev' = SendAs(dev, kind) /\ dev \in Devices
      BY DEF SendDataAfterCts, Becomes, IInv, TypeOK
<1>2. HasBegun(dev') /\ dev'.owner = dev.owner
      BY <1>1, Sends
<1>3. QED BY <1>2, TransmissionHeeds DEF HasBegun

LEMMA SendResponseHeeds ==
  ASSUME IInv, SendResponse
  PROVE  Heeds(dev, dev')
<1> DEFINE d == [dev EXCEPT !.response = Never]
<1>1. dev' = NotifyTxStartNow(d)
      BY DEF SendResponse, Becomes
<1>2. d \in Devices /\ d.owner = dev.owner
      BY DEF IInv, TypeOK, Devices, Event
<1> HIDE DEF d
<1>3. dev'.owner = dev.owner /\ dev'.txEnd = now + FrameTime
      BY <1>1, <1>2, TxStarted DEF Exchange
<1>4. QED BY <1>3, TransmissionHeeds

LEMMA NotifySleepNowHeeds ==
  ASSUME IInv, NotifySleepNow
  PROVE  Heeds(dev, dev')
<1> DEFINE d == CancelExchange(dev)
<1>1. dev' = [d EXCEPT !.sleeping = TRUE]
      BY DEF NotifySleepNow, Becomes
<1>2. d \in Devices /\ ~ Underway(d) /\ Intervals(d) = Intervals(dev)
      BY ExchangeCancelled DEF IInv, TypeOK, DeviceInv, OwnerInv
<1> HIDE DEF d
<1>3. /\ dev'.owner = d.owner /\ Ends(dev') = Ends(d)
      /\ dev'.rxEnd = d.rxEnd /\ dev'.rxOk = d.rxOk
      /\ dev'.txEnd = d.txEnd /\ dev'.switchEnd = d.switchEnd
      BY <1>1, <1>2 DEF Devices, Ends
<1>4. Reports(dev, dev')
      BY <1>2, <1>3, SameLastEnd DEF Reports, Intervals
<1>5. QED BY <1>2, <1>3, <1>4 DEF Heeds, StartsAfterAifs, Underway

LEMMA NotifySwitchingStartNowHeeds ==
  ASSUME IInv, NEW left \in [Txops -> 0 .. MaxFrames], NotifySwitchingStartNow(left)
  PROVE  Heeds(dev, dev')
<1> DEFINE cut(end) == IF end > now THEN now ELSE end
           d == CancelExchange(dev)
<1>1. dev' = [d EXCEPT
           !.rxOk = TRUE, !.rxEnd = cut(@), !.navEnd = cut(@), !.busyEnd = cut(@),
           !.ackEnd = cut(@), !.ctsEnd = cut(@), !.switchEnd = now + SwitchTime,
           !.start = [t \in Txops |-> IF dev.slots[t] > 0 THEN now ELSE d.start[t]],
           !.slots = [t \in Txops |-> 0], !.earned = [t \in Txops |-> 0],
           !.requested = [t \in Txops |-> FALSE], !.frames = left,
           !.stranded = {t \in Txops : left[t] > 0}]
      BY DEF NotifySwitchingStartNow, Becomes
<1>2. d \in Devices /\ ~ Underway(d)
      BY ExchangeCancelled DEF IInv, TypeOK, DeviceInv, OwnerInv
<1> HIDE DEF d, cut
<1>3. dev'.owner = d.owner /\ dev'.switchEnd = now + SwitchTime
      BY <1>1, <1>2 DEF Devices
<1>4. dev'.switchEnd \in Ends(dev') /\ dev'.switchEnd > now /\ dev'.switchEnd >= now
      BY <1>3, Constants DEF Ends, now
<1>5. QED BY <1>2, <1>3, <1>4 DEF Heeds, Reports, StartsAfterAifs, Underway

LEMMA NotifyWakeupNowHeeds ==
  ASSUME IInv, NEW c \in Choices, NotifyWakeupNow(c)
  PROVE  Heeds(dev, dev')
<1>1. PICK awake : \E d \in {0} \cup CcaTimes :
        /\ AwakeUpTo(awake, NTxops)
        /\ dev' = IF Later(phy.cca, now + d) > now
                  THEN [UpdateBackoff(awake) EXCEPT !.busyEnd = Later(phy.cca, now + d)]
                  ELSE awake
      BY WakesUp
<1>2. PICK d \in {0} \cup CcaTimes :
        /\ AwakeUpTo(awake, NTxops)
        /\ dev' = IF Later(phy.cca, now + d) > now
                  THEN [UpdateBackoff(awake) EXCEPT !.busyEnd = Later(phy.cca, now + d)]
                  ELSE awake
      BY <1>1
<1> DEFINE cca == Later(phy.cca, now + d)
           u == UpdateBackoff(awake)
<1>3. awake \in Devices /\ MayHaveBegun(awake)
      BY <1>2 DEF AwakeUpTo
<1>4. /\ dev'.owner = awake.owner
      /\ dev'.rxEnd = awake.rxEnd /\ dev'.rxOk = awake.rxOk
      /\ dev'.txEnd = awake.txEnd /\ dev'.switchEnd = awake.switchEnd
      /\ Ends(dev') = Ends(awake) \/ \E end \in Ends(dev') : end >= now
  <2>1. CASE cca > now
    <3>1. u \in Devices /\ Intervals(u) = Intervals(awake) /\ u.owner = awake.owner
          BY <1>3, Updated DEF Exchange
    <3>2. dev' = [u EXCEPT !.busyEnd = cca]
          BY <1>2, <2>1
    <3>3. cca >= now
      <4>1. phy.cca \in Int
            BY DEF IInv, TypeOK, Phys
      <4>2. now + d \in Int
            BY EdcaConstants DEF now
      <4>3. QED BY <2>1, <4>1, <4>2 DEF Later, now
    <3> HIDE DEF u, cca
    <3>4. /\ dev'.owner = u.owner /\ dev'.busyEnd = cca
          /\ dev'.rxEnd = u.rxEnd /\ dev'.rxOk = u.rxOk
          /\ dev'.txEnd = u.txEnd /\ dev'.switchEnd = u.switchEnd
          BY <3>1, <3>2 DEF Devices
    <3>5. cca \in Ends(dev')
          BY <3>4 DEF Ends
    <3>6. QED BY <3>1, <3>3, <3>4, <3>5 DEF Intervals
  <2>2. CASE ~ (cca > now)
        BY <1>2, <2>2
  <2>3. QED BY <2>1, <2>2
<1>5. CASE ~ Underway(awake) /\ Medium(awake) = Medium(dev)
  <2>1. Ends(awake) = Ends(dev)
        BY <1>5 DEF Medium, Ends
  <2>2. Reports(dev, dev')
        BY <1>4, <1>5, <2>1 DEF Reports, Medium
  <2>3. QED BY <1>4, <1>5, <2>2 DEF Heeds, StartsAfterAifs, Underway
<1>6. CASE Underway(awake) /\ awake.txEnd > now /\ Waited(dev, awake.owner)
  <2>1. dev'.txEnd \in Ends(dev') /\ dev'.txEnd > now /\ dev'.txEnd >= now
        BY <1>3, <1>4, <1>6 DEF Ends, Devices, now
  <2>2. QED BY <1>4, <1>6, <2>1 DEF Heeds, Reports, StartsAfterAifs
<1>7. QED BY <1>3, <1>5, <1>6 DEF MayHaveBegun

-----------------------------------------------------------------------------
(* What is known of the medium stays known.                                *)

LEMMA AnyHandler ==
  ASSUME IInv, Next, ~ Tick, ~ RxEndError
  PROVE  Heeds(dev, dev') /\ heard'.busy = heard.busy /\ heard'.bad = heard.bad
<1>1. heard \in [busy : Int, bad : Int, until : [Txops -> Int]] /\ dev.owner \in {Nobody} \cup Txops
      BY DEF IInv, TypeOK, Devices
<1>2. ASSUME NEW d, Becomes(d) PROVE heard'.busy = heard.busy /\ heard'.bad = heard.bad
      BY <1>1, <1>2 DEF Becomes, Heard
<1>3. CASE \E t \in Txops : Queue(t) \/ Expire(t)
      BY <1>2, <1>3, QueueHeeds, ExpireHeeds DEF Queue, Expire
<1>4. CASE AccessTimeout
      BY <1>2, <1>4, AccessTimeoutHeeds DEF AccessTimeout
<1>5. CASE \E c \in DrawsOf[dev.owner] : Ending(c)
  <2>1. PICK c \in DrawsOf[dev.owner] : Ending(c)
        BY <1>5
  <2>2. c \in Choices
        BY <1>1, OpenChoices
  <2>3. CASE \E n \in 0 .. MaxFrames : ReceiveAck(n, c)
        BY <1>2, <2>2, <2>3, ReceiveAckHeeds DEF ReceiveAck
  <2>4. CASE \E n \in 0 .. MaxFrames : ExchangeTimeout(n, c)
        BY <1>2, <2>2, <2>4, ExchangeTimeoutHeeds DEF ExchangeTimeout
  <2>5. CASE EndTxNoAck(c)
        BY <1>2, <2>2, <2>5, EndTxNoAckHeeds DEF EndTxNoAck
  <2>6. QED BY <2>1, <2>3, <2>4, <2>5 DEF Ending
<1>6. CASE Receiving
  <2>1. CASE \E d \in RxTimes : RxStart(d)
        BY <1>2, <2>1, RxStartHeeds DEF RxStart
  <2>2. CASE ReceiveCts
        BY <1>2, <2>2, ReceiveCtsHeeds DEF ReceiveCts
  <2>3. CASE ReceiveRequest
        BY <1>2, <2>3, ReceiveRequestHeeds DEF ReceiveRequest
  <2>4. CASE \E d \in NavTimes, rts \in BOOLEAN : NotifyNav(d, rts)
        BY <1>2, <2>4, NotifyNavHeeds DEF NotifyNav
  <2>5. CASE DoNavResetNow
        BY <1>2, <2>5, DoNavResetNowHeeds DEF DoNavResetNow
  <2>6. CASE \E d \in CcaTimes : NotifyMaybeCcaBusyStart(d)
        BY <1>2, <2>6, NotifyMaybeCcaBusyStartHeeds DEF NotifyMaybeCcaBusyStart
  <2>7. QED BY <1>6, <2>1, <2>2, <2>3, <2>4, <2>5, <2>6 DEF Receiving
<1>7. CASE Sending
      BY <1>2, <1>7, SendDataAfterCtsHeeds, SendResponseHeeds
         DEF Sending, SendDataAfterCts, SendResponse
<1>8. CASE NotifySleepNow
      BY <1>2, <1>8, NotifySleepNowHeeds DEF NotifySleepNow
<1>9. CASE \E c \in Choices : NotifyWakeupNow(c)
      BY <1>2, <1>9, NotifyWakeupNowHeeds DEF NotifyWakeupNow
<1>10. CASE \E left \in [Txops -> 0 .. MaxFrames] : NotifySwitchingStartNow(left)
       BY <1>2, <1>10, NotifySwitchingStartNowHeeds DEF NotifySwitchingStartNow
<1>11. QED BY <1>3, <1>4, <1>5, <1>6, <1>7, <1>8, <1>9, <1>10 DEF Next

LEMMA HandlerKnows ==
  ASSUME NEW d \in Devices, NEW e \in Devices, Heeds(d, e),
         NEW h \in [busy : Int, bad : Int, until : [Txops -> Int]],
         NEW g, g.busy = h.busy, g.bad = h.bad,
         BusyIsKnown(d, h), BadIsKnown(d, h)
  PROVE  BusyIsKnown(e, g) /\ BadIsKnown(e, g)
<1>1. LastEnd(d) \in Int /\ LastEnd(e) \in Int /\ \A end \in Ends(e) : end \in Int /\ end =< LastEnd(e)
      BY LastEndIsLast
<1>2. BusyIsKnown(e, g)
  <2>1. CASE Ends(e) = Ends(d)
    <3>1. LastEnd(e) = LastEnd(d)
          BY <2>1 DEF LastEnd, Ends
    <3>2. QED BY <3>1 DEF BusyIsKnown
  <2>2. CASE \E end \in Ends(e) : end >= now
        BY <1>1, <2>2 DEF BusyIsKnown, now
  <2>3. QED BY <2>1, <2>2 DEF Heeds, Reports
<1>3. BadIsKnown(e, g)
      BY DEF Heeds, Reports, BadIsKnown
<1>4. QED BY <1>2, <1>3

LEMMA RxEndErrorKnows ==
  ASSUME IInv, HeardInv, RxEndError
  PROVE  HeardInv' /\ dev'.owner = dev.owner
<1>1. /\ dev \in Devices /\ heard \in [busy : Int, bad : Int, until : [Txops -> Int]]
      /\ dev' = [dev EXCEPT !.rxEnd = now, !.rxOk = FALSE] /\ dev.rxEnd = now
      BY ReceptionEnds DEF RxEndError, IInv, TypeOK
<1>2. /\ dev'.owner = dev.owner /\ dev'.rxEnd = now /\ ~ dev'.rxOk /\ Ends(dev') = Ends(dev)
      BY <1>1 DEF Devices, Ends
<1>3. heard'.busy = heard.busy /\ heard'.bad = now + EifsNoDifs
      BY <1>1 DEF RxEndError, Heard
<1>4. LastEnd(dev') = LastEnd(dev)
      BY <1>2 DEF LastEnd, Ends
<1>5. BusyIsKnown(dev', heard')
      BY <1>3, <1>4 DEF HeardInv, BusyIsKnown
<1>6. BadIsKnown(dev', heard')
      BY <1>2, <1>3, Constants DEF BadIsKnown, now
<1>7. QED BY <1>2, <1>5, <1>6 DEF HeardInv

(* While the medium is in use some interval ends later.                    *)
LEMMA UseIsKnown ==
  ASSUME IInv, \A e \in Scheduled : e > now, InUse
  PROVE  LastEnd(dev) > now
<1>1. /\ dev \in Devices /\ DeviceInv(dev, phy)
      /\ \A end \in Ends(dev) : end \in Int /\ end =< LastEnd(dev)
      /\ LastEnd(dev) \in Int
      BY LastEndIsLast DEF IInv, TypeOK
<1>2. CASE IsBusy(dev) \/ dev.switchEnd > now
  <2>1. \E end \in Ends(dev) : end > now
        BY <1>2 DEF IsBusy, Ends
  <2>2. QED BY <1>1, <2>1 DEF now
<1>3. CASE dev.phase \in {"noack", "ack", "cts"}
  <2>1. dev.due \in Nat /\ dev.due > now
    <3>1. dev.due # Never /\ dev.due \in Event
          BY <1>1, <1>3 DEF DeviceInv, OwnerInv, Devices
    <3>2. QED BY <3>1, EventIs DEF Scheduled
  <2>2. /\ dev.txEnd \in Ends(dev) /\ dev.rxEnd \in Ends(dev)
        /\ dev.ackEnd \in Ends(dev) /\ dev.ctsEnd \in Ends(dev)
        BY DEF Ends
  <2>3. dev.due =< LastEnd(dev)
        BY <1>1, <1>3, <2>1, <2>2 DEF DeviceInv, ExchangeInv, Later
  <2>4. QED BY <1>1, <2>1, <2>3 DEF now
<1>4. QED BY <1>2, <1>3 DEF InUse

LEMMA EndsPass ==
  ASSUME IInv, Tick
  PROVE  /\ dev' \in Devices /\ dev'.owner = dev.owner /\ dev'.rxOk = dev.rxOk
         /\ ~ dev.rxOk => dev'.rxEnd >= dev.rxEnd - 1
         /\ LastEnd(dev') >= LastEnd(dev) - 1
<1> DEFINE last == LastEnd(dev)
           rxEnd == IF dev.rxOk THEN Forget(dev.rxEnd, last) ELSE Older(dev.rxEnd)
           start == [t \in Txops |-> Forget(dev.start[t], heard.busy + Sifs + Aifsn[t] * Slot)]
           earned == [t \in Txops |-> IF dev.earned[t] > 0 /\ SlotPasses(t)
                                      THEN dev.earned[t] - 1 ELSE dev.earned[t]]
<1>0. dev \in Devices
      BY DEF IInv, TypeOK
<1>1. dev' \in Devices
      BY TickStep DEF Step
<1>2. last \in Ends(dev) /\ last \in Int /\ dev.rxEnd \in Int
      BY <1>0, LastEndIsLast DEF Ends
<1>3. dev' = [dev EXCEPT
           !.rxEnd = rxEnd,
           !.txEnd = Forget(@, last), !.busyEnd = Forget(@, last),
           !.navEnd = Forget(@, last), !.ackEnd = Forget(@, last),
           !.ctsEnd = Forget(@, last), !.switchEnd = Forget(@, last),
           !.start = start,
           !.timer = Nearer(@), !.due = Nearer(@), !.response = Nearer(@),
           !.earned = earned]
      BY DEF Tick
<1>4. ~ dev.rxOk => rxEnd = Older(dev.rxEnd)
      OBVIOUS
<1>5. rxEnd = Forget(dev.rxEnd, last) \/ rxEnd = Older(dev.rxEnd)
      OBVIOUS
<1> HIDE DEF last, rxEnd, start, earned
<1>6. /\ Forget(last, last) >= last - 1 /\ Older(dev.rxEnd) >= dev.rxEnd - 1
      /\ dev.rxEnd = last => rxEnd >= last - 1
  <2>1. /\ \A later \in Int : last >= later => Forget(last, later) >= last - 1
        /\ Older(last) >= last - 1 /\ Older(dev.rxEnd) >= dev.rxEnd - 1
        BY <1>2, TimePasses
  <2>2. QED BY <1>2, <1>5, <2>1
<1>7. /\ dev'.rxEnd = rxEnd /\ dev'.rxOk = dev.rxOk /\ dev'.owner = dev.owner
      /\ dev'.txEnd = Forget(dev.txEnd, last) /\ dev'.busyEnd = Forget(dev.busyEnd, last)
      /\ dev'.navEnd = Forget(dev.navEnd, last) /\ dev'.ackEnd = Forget(dev.ackEnd, last)
      /\ dev'.ctsEnd = Forget(dev.ctsEnd, last) /\ dev'.switchEnd = Forget(dev.switchEnd, last)
      BY <1>0, <1>3 DEF Devices
<1>8. \E end \in Ends(dev') : end >= last - 1
      BY <1>2, <1>6, <1>7 DEF Ends
<1>9. LastEnd(dev') >= last - 1
      BY <1>1, <1>2, <1>8, LastEndIsLast
<1>10. QED BY <1>1, <1>4, <1>6, <1>7, <1>9 DEF last

LEMMA TickKnows ==
  ASSUME IInv, HeardInv, Tick
  PROVE  HeardInv'
<1>1. /\ dev \in Devices /\ dev' \in Devices
      /\ heard.busy \in Int /\ heard.bad \in Int
      /\ LastEnd(dev) \in Int /\ LastEnd(dev') \in Int
      /\ LastEnd(dev') >= LastEnd(dev) - 1
      /\ dev'.rxOk = dev.rxOk /\ dev.rxEnd \in Int /\ dev'.rxEnd \in Int
      /\ ~ dev.rxOk => dev'.rxEnd >= dev.rxEnd - 1
      BY EndsPass, LastEndIsLast DEF IInv, TypeOK, Devices
<1>2. /\ heard'.busy = IF InUse THEN now ELSE Older(heard.busy)
      /\ heard'.bad = IF dev.rxEnd > now \/ dev.txEnd > now \/ dev.switchEnd > now
                      THEN Oldest ELSE Forget(heard.bad, heard.busy + 1)
      BY DEF Tick
<1>3. Oldest \in Int /\ Slot \in Nat /\ Slot > 0 /\ EifsNoDifs \in Nat
      BY OldestTime, Constants
<1>4. \A time \in Int : /\ Older(time) \in Int
                        /\ Old(time) => Old(Older(time))
                        /\ ~ Old(time) => Older(time) = time - 1
      BY <1>3 DEF Older, Old
<1>5. BusyIsKnown(dev', heard')
  <2>1. CASE InUse
    <3>1. LastEnd(dev) > now
          BY <2>1, UseIsKnown DEF Tick
    <3>2. QED BY <1>1, <1>2, <2>1, <3>1 DEF BusyIsKnown, now
  <2>2. CASE ~ InUse
    <3>1. heard'.busy = Older(heard.busy)
          BY <1>2, <2>2
    <3>2. heard'.busy =< now
          BY <1>1, <3>1, TimePasses DEF HeardInv, BusyIsKnown, now
    <3>3. heard'.busy =< LastEnd(dev') \/ Old(heard'.busy)
          BY <1>1, <1>4, <3>1 DEF HeardInv, BusyIsKnown
    <3>4. QED BY <3>2, <3>3 DEF BusyIsKnown
  <2>3. QED BY <2>1, <2>2
<1>6. BadIsKnown(dev', heard')
  <2>1. CASE dev.rxEnd > now \/ dev.txEnd > now \/ dev.switchEnd > now
        BY <1>2, <1>3, <2>1 DEF BadIsKnown, Old
  <2>2. CASE ~ (dev.rxEnd > now \/ dev.txEnd > now \/ dev.switchEnd > now)
    <3>1. heard'.bad = Forget(heard.bad, heard.busy + 1)
          BY <1>2, <2>2
    <3>2. CASE heard.bad =< now /\ heard.bad < heard.busy + 1
          BY <1>3, <3>1, <3>2 DEF Forget, Old, BadIsKnown
    <3>3. CASE ~ (heard.bad =< now /\ heard.bad < heard.busy + 1)
      <4>1. heard'.bad = Older(heard.bad)
            BY <3>1, <3>3 DEF Forget
      <4>2. ~ (heard.bad =< heard.busy)
            BY <1>1, <3>3 DEF HeardInv, BusyIsKnown, now
      <4>3. CASE Old(heard.bad)
            BY <1>1, <1>4, <4>1, <4>3 DEF BadIsKnown
      <4>4. CASE ~ Old(heard.bad)
        <5>1. ~ dev.rxOk /\ heard.bad =< dev.rxEnd + EifsNoDifs
              BY <2>2, <4>2, <4>4 DEF HeardInv, BadIsKnown
        <5>2. heard'.bad = heard.bad - 1
              BY <1>1, <1>4, <4>1, <4>4
        <5>3. heard'.bad =< dev'.rxEnd + EifsNoDifs
              BY <1>1, <1>3, <5>1, <5>2
        <5>4. QED BY <1>1, <5>1, <5>3 DEF BadIsKnown
      <4>5. QED BY <4>3, <4>4
    <3>4. QED BY <3>2, <3>3
  <2>3. QED BY <2>1, <2>2
<1>7. QED BY <1>5, <1>6 DEF HeardInv

LEMMA HeardStep ==
  ASSUME IInv, HeardInv, [Next]_vars
  PROVE  HeardInv' /\ StartsAfterAifs(dev, dev')
<1>1. CASE UNCHANGED vars
      BY <1>1 DEF vars, HeardInv, BusyIsKnown, BadIsKnown, StartsAfterAifs
<1>2. CASE Tick
      BY <1>2, TickKnows, EndsPass DEF StartsAfterAifs
<1>3. CASE RxEndError
      BY <1>3, RxEndErrorKnows DEF StartsAfterAifs
<1>4. CASE Next /\ ~ Tick /\ ~ RxEndError
  <2>1. Heeds(dev, dev') /\ heard'.busy = heard.busy /\ heard'.bad = heard.bad
        BY <1>4, AnyHandler
  <2>2. dev \in Devices /\ dev' \in Devices /\ heard \in [busy : Int, bad : Int, until : [Txops -> Int]]
        BY <1>4, InvariantStep DEF IInv, TypeOK
  <2>3. BusyIsKnown(dev', heard') /\ BadIsKnown(dev', heard')
        BY <2>1, <2>2, HandlerKnows DEF HeardInv
  <2>4. QED BY <2>1, <2>3 DEF HeardInv, Heeds
<1>5. QED BY <1>1, <1>2, <1>3, <1>4

-----------------------------------------------------------------------------
(* The theorems.                                                           *)

(* After AIFS the medium has been idle for AIFS, as it was reported.       *)
LEMMA WaitedIsIdle ==
  ASSUME IInv, HeardInv, ~ Underway(dev), NEW t \in Txops, Waited(dev, t)
  PROVE  ~ InUse /\ now >= QuietSince + Sifs + Aifsn[t] * Slot
<1>1. /\ dev \in Devices /\ DeviceInv(dev, phy)
      /\ heard.busy \in Int /\ heard.bad \in Int
      BY DEF IInv, TypeOK
<1>2. /\ Aifsn[t] * Slot \in Nat /\ Aifsn[t] * Slot >= Slot
      /\ Sifs \in Nat /\ Slot \in Nat /\ Slot > 0 /\ EifsNoDifs \in Nat
      BY Aifs, Constants
<1> DEFINE aifs == Aifsn[t] * Slot
<1>3. /\ GetAccessGrantStart(dev) \in Int /\ GetAccessGrantStart(dev) + aifs =< now
      /\ LastEnd(dev) + Sifs =< GetAccessGrantStart(dev)
      /\ LastEnd(dev) \in Int
      BY <1>1, <1>2, AccessGrantStart, LastEndIsLast DEF Waited, now
<1>4. Oldest \in Int /\ Oldest + Slot + Sifs + aifs =< now
      BY LongAgo
<1> HIDE DEF aifs
<1>5. aifs \in Nat /\ aifs >= Slot
      BY <1>2 DEF aifs
<1>6. \A end \in Ends(dev) : end \in Int /\ end =< LastEnd(dev) /\ ~ (end > now)
      BY <1>1, <1>2, <1>3, <1>5, LastEndIsLast DEF now
<1>7. ~ InUse
  <2>1. dev.phase = "idle"
        BY <1>1 DEF DeviceInv, OwnerInv
  <2>2. ~ (dev.switchEnd > now) /\ ~ IsBusy(dev)
        BY <1>6 DEF Ends, IsBusy
  <2>3. QED BY <2>1, <2>2 DEF InUse
<1>8. \A time \in Int : Old(time) \/ time =< LastEnd(dev) => time + Sifs + aifs =< now
      BY <1>2, <1>3, <1>4, <1>5 DEF Old, now
<1>9. heard.busy + Sifs + aifs =< now
      BY <1>1, <1>8 DEF HeardInv, BusyIsKnown
<1>10. heard.bad + Sifs + aifs =< now
  <2>1. CASE Old(heard.bad)
        BY <1>1, <1>8, <2>1
  <2>2. CASE heard.bad =< heard.busy
        BY <1>1, <1>2, <1>5, <1>9, <2>2 DEF now
  <2>3. CASE ~ dev.rxOk /\ heard.bad =< dev.rxEnd + EifsNoDifs
    <3>1. /\ dev.rxEnd \in Int /\ dev.busyEnd \in Int /\ dev.txEnd \in Int /\ dev.navEnd \in Int
          /\ dev.ackEnd \in Int /\ dev.ctsEnd \in Int /\ dev.switchEnd \in Int
          BY <1>1 DEF Devices
    <3>2. dev.rxEnd =< now
          BY <1>6, <3>1 DEF Ends, now
    <3>3. dev.rxEnd + EifsNoDifs + Sifs =< GetAccessGrantStart(dev)
          BY <1>2, <2>3, <3>1, <3>2 DEF GetAccessGrantStart, Later
    <3>4. QED BY <1>1, <1>2, <1>3, <1>5, <2>3, <3>1, <3>3 DEF now
  <2>4. CASE dev.rxEnd > now \/ dev.txEnd > now \/ dev.switchEnd > now
        BY <1>6, <2>4 DEF Ends
  <2>5. QED BY <2>1, <2>2, <2>3, <2>4 DEF HeardInv, BadIsKnown
<1>11. QED BY <1>1, <1>2, <1>5, <1>7, <1>9, <1>10 DEF QuietSince, Later, aifs, now

LEMMA InitialHeard ==
  ASSUME Init
  PROVE  HeardInv
<1>1. heard.busy = now /\ heard.bad = now
      BY DEF Init
<1>2. dev \in Devices
      BY InitialInvariant DEF IInv, TypeOK
<1>3. dev.rxEnd = now
      BY DEF Init
<1>4. now \in Ends(dev)
      BY <1>3 DEF Ends
<1>5. now =< LastEnd(dev)
      BY <1>2, <1>4, LastEndIsLast
<1>6. QED BY <1>1, <1>5 DEF HeardInv, BusyIsKnown, BadIsKnown, now

(* The intervals that the channel access manager keeps, cut short,         *)
(* extended and overwritten by its handlers, never lose the last end of    *)
(* what was reported, nor the EIFS of a bad frame, before it is too old.   *)
THEOREM MediumIsKnown == Spec => []HeardInv
<1>1. Init => HeardInv
      BY InitialHeard
<1>2. IInv /\ HeardInv /\ [Next]_vars => HeardInv'
      BY HeardStep
<1>3. QED BY <1>1, <1>2, ContentionInvariant, PTL DEF Spec

(* Whoever becomes the owner of an exchange does so after the medium was   *)
(* reported idle for the AIFS of that Txop, and AIFS after the EIFS of the *)
(* last bad frame: whatever DoGrantDcfAccess was called from.              *)
THEOREM AccessIsGrantedAfterAifs == Spec => GrantsWait
<1>1. IInv /\ HeardInv /\ [Next]_vars =>
        [\A t \in Txops :
           Starts(t) => ~ InUse /\ now >= QuietSince + Sifs + Aifsn[t] * Slot]_vars
  <2>1. SUFFICES ASSUME IInv, HeardInv, [Next]_vars, NEW t \in Txops, Starts(t)
        PROVE  ~ InUse /\ now >= QuietSince + Sifs + Aifsn[t] * Slot
        OBVIOUS
  <2>2. dev'.owner = t /\ dev.owner # t /\ Underway(dev')
        BY <2>1, Constants DEF Starts, Underway
  <2>3. ~ Underway(dev)
        BY <2>1, <2>2, InvariantStep DEF Step, Uninterrupted
  <2>4. Waited(dev, t)
        BY <2>1, <2>2, HeardStep DEF StartsAfterAifs
  <2>5. QED BY <2>1, <2>3, <2>4, WaitedIsIdle
<1>2. QED BY <1>1, ContentionInvariant, MediumIsKnown, PTL DEF Spec, GrantsWait

=============================================================================
