----------------------------- MODULE EdcaProofs -----------------------------
(***************************************************************************)
(* Theorems about EdcaContention, for every value of its constants: types, *)
(* the exchange that no grant interrupts, and the timer and the request    *)
(* that nobody who has something to send is left without.                  *)
(***************************************************************************)
EXTENDS EdcaContention, WellFoundedInduction, TLAPS

(* What a device is made of: its intervals, the exchange under way and     *)
(* what the Txops want.                                                    *)
Intervals(d) ==
  <<d.rxEnd, d.rxOk, d.txEnd, d.busyEnd, d.navEnd, d.ackEnd, d.ctsEnd, d.switchEnd, d.sleeping>>
Exchange(d) == <<d.owner, d.phase, d.held, d.due, d.response>>
Work(d) == <<d.requested, d.frames, d.stranded>>

Ends(d) == {d.rxEnd, d.txEnd, d.busyEnd, d.navEnd, d.ackEnd, d.ctsEnd, d.switchEnd}

(* Nobody can be granted access before AIFS has passed since the last end. *)
Protected(d, time) == time =< LastEnd(d) + Sifs

-----------------------------------------------------------------------------
(* Arithmetic.                                                             *)

LEMMA LeastElement ==
  ASSUME NEW T, T \subseteq Nat, T # {}
  PROVE  Least(T) \in T /\ \A k \in T : Least(T) =< k
<1>1. PICK n \in T : \A k \in T : ~ (<<k, n>> \in OpToRel(<, Nat))
      BY NatLessThanWellFounded, WFMin, Zenon
<1>2. \A k \in T : ~ (k < n)
      BY <1>1 DEF OpToRel
<1>3. \E x \in T : \A y \in T : x =< y
      BY <1>2
<1>4. QED BY <1>3 DEF Least

LEMMA Constants ==
  /\ Sifs \in Nat /\ Sifs > 0 /\ Slot \in Nat /\ Slot > 0
  /\ FrameTime \in Nat /\ FrameTime > 0 /\ AnswerTime \in Nat /\ AnswerTime > 0
  /\ SwitchTime \in Nat /\ SwitchTime > 0 /\ NavResetTime \in Nat /\ NavResetTime > 0
  /\ EifsNoDifs \in Nat /\ MaxDraw \in Nat /\ MaxFrames \in Nat /\ MaxEvents \in Nat
  /\ Txops \subseteq Nat \ {0} /\ Nobody \notin Txops
  BY EdcaConstants DEF Txops, Nobody

LEMMA Aifs ==
  ASSUME NEW t \in Txops
  PROVE  Aifsn[t] * Slot \in Nat /\ Aifsn[t] * Slot >= Slot
<1>1. Aifsn[t] \in Nat /\ Aifsn[t] > 0
      BY EdcaConstants
<1>2. QED BY <1>1, Constants

LEMMA ComputedIsTheSame ==
  ASSUME NEW f
  PROVE  Computed(f) = f
  BY DEF Computed

LEMMA LastEndIsLast ==
  ASSUME NEW d \in Devices
  PROVE  LastEnd(d) \in Ends(d) /\ LastEnd(d) \in Int /\ \A e \in Ends(d) : e \in Int /\ e =< LastEnd(d)
<1>1. \A e \in Ends(d) : e \in Int
      BY DEF Ends, Devices
<1> DEFINE m1 == Later(d.rxEnd, d.txEnd)  m2 == Later(d.busyEnd, d.navEnd)
           m3 == Later(d.ackEnd, d.ctsEnd)
           m == Later(Later(m1, m2), Later(m3, d.switchEnd))
<1>2. m \in Ends(d) /\ \A e \in Ends(d) : e =< m
      BY <1>1 DEF Later, Ends
<1>3. \E end \in Ends(d) : \A e \in Ends(d) : e =< end
      BY <1>2
<1>4. LastEnd(d) = CHOOSE end \in Ends(d) : \A e \in Ends(d) : e =< end
      BY DEF LastEnd, Ends
<1>5. QED BY <1>1, <1>3, <1>4

LEMMA SameLastEnd ==
  ASSUME NEW d, NEW e, Intervals(e) = Intervals(d)
  PROVE  LastEnd(e) = LastEnd(d) /\ Ends(e) = Ends(d)
  BY DEF LastEnd, Ends, Intervals

(* Access starts no earlier than SIFS after the last end.                  *)
LEMMA AccessGrantStart ==
  ASSUME NEW d \in Devices
  PROVE  GetAccessGrantStart(d) \in Int /\ GetAccessGrantStart(d) >= LastEnd(d) + Sifs
<1>1. \A e \in Ends(d) : e \in Int /\ e + Sifs =< GetAccessGrantStart(d)
      BY Constants DEF Devices, Ends, GetAccessGrantStart, Later
<1>2. GetAccessGrantStart(d) \in Int
      BY Constants DEF Devices, GetAccessGrantStart, Later
<1>3. QED BY <1>1, <1>2, LastEndIsLast

LEMMA BackoffTimes ==
  ASSUME NEW d \in Devices, NEW t \in Txops
  PROVE  /\ GetBackoffStartFor(d, t) \in Int /\ GetBackoffEndFor(d, t) \in Int
         /\ GetBackoffStartFor(d, t) =< GetBackoffEndFor(d, t)
         /\ GetAccessGrantStart(d) + Aifsn[t] * Slot =< GetBackoffStartFor(d, t)
         /\ LastEnd(d) + Sifs < GetBackoffStartFor(d, t)
<1>1. d.start[t] \in Int /\ d.slots[t] \in Nat
      BY DEF Devices
<1>2. /\ GetBackoffStartFor(d, t) \in Int
      /\ GetBackoffStartFor(d, t) >= GetAccessGrantStart(d) + Aifsn[t] * Slot
      BY <1>1, Aifs, AccessGrantStart DEF GetBackoffStartFor, Later
<1>3. d.slots[t] * Slot \in Nat
      BY <1>1, Constants
<1>4. QED BY <1>2, <1>3, Aifs, AccessGrantStart, LastEndIsLast, Constants DEF GetBackoffEndFor

(* Nobody is ready while an interval that ended SIFS ago or later counts.  *)
LEMMA NobodyIsReady ==
  ASSUME NEW d \in Devices, Protected(d, now)
  PROVE  Ready(d) = {}
<1>1. ASSUME NEW t \in Txops PROVE ~ (GetBackoffEndFor(d, t) =< now)
      BY BackoffTimes, LastEndIsLast, Constants DEF Protected, now
<1>2. QED BY <1>1 DEF Ready

LEMMA ReadyTxop ==
  ASSUME NEW d \in Devices, Ready(d) # {}
  PROVE  /\ Least(Ready(d)) \in Ready(d)
         /\ Ready(d) \subseteq Txops
         /\ ~ Protected(d, now)
<1>1. Ready(d) \subseteq Txops
      BY DEF Ready
<1>2. Ready(d) \subseteq Nat
      BY <1>1, Constants
<1>3. QED BY <1>1, <1>2, LeastElement, NobodyIsReady

LEMMA PassedSlots ==
  ASSUME NEW d \in Devices, NEW t \in Txops
  PROVE  Passed(d, t) \in 0 .. d.slots[t]
<1> DEFINE gone == now - GetBackoffStartFor(d, t)
<1>1. d.slots[t] \in Nat /\ GetBackoffStartFor(d, t) \in Int
      BY BackoffTimes DEF Devices
<1>2. CASE gone \in Nat
  <2>1. gone \div Slot \in Nat
        BY <1>2, Constants
  <2>2. QED BY <1>1, <2>1 DEF Passed
<1>3. CASE GetBackoffStartFor(d, t) > now
      BY <1>1, <1>3 DEF Passed
<1>4. QED BY <1>1, <1>2, <1>3 DEF now

-----------------------------------------------------------------------------
(* What the functions on the device leave alone.                           *)

LEMMA Updated ==
  ASSUME NEW d \in Devices
  PROVE  /\ UpdateBackoff(d) \in Devices
         /\ Intervals(UpdateBackoff(d)) = Intervals(d)
         /\ Exchange(UpdateBackoff(d)) = Exchange(d)
         /\ Work(UpdateBackoff(d)) = Work(d)
         /\ UpdateBackoff(d).timer = d.timer /\ UpdateBackoff(d).earned = d.earned
<1> DEFINE slots == [t \in Txops |-> d.slots[t] - Passed(d, t)]
           start == [t \in Txops |->
                IF GetBackoffStartFor(d, t) > now THEN d.start[t]
                ELSE GetBackoffStartFor(d, t) + Passed(d, t) * Slot]
<1>1. slots \in [Txops -> Nat]
      BY PassedSlots DEF Devices
<1>2. ASSUME NEW t \in Txops PROVE start[t] \in Int
  <2>1. d.start[t] \in Int /\ GetBackoffStartFor(d, t) \in Int /\ Passed(d, t) \in Nat
        BY PassedSlots, BackoffTimes DEF Devices
  <2>2. Passed(d, t) * Slot \in Nat
        BY <2>1, Constants
  <2>3. QED BY <2>1, <2>2
<1>3. start \in [Txops -> Int]
      BY <1>2
<1>4. UpdateBackoff(d) = [d EXCEPT !.slots = Computed(slots), !.start = Computed(start)]
      BY DEF UpdateBackoff
<1> HIDE DEF slots, start
<1>5. Computed(slots) = slots /\ Computed(start) = start
      BY ComputedIsTheSame
<1>6. UpdateBackoff(d) = [d EXCEPT !.slots = slots, !.start = start]
      BY <1>4, <1>5, Zenon
<1>7. QED BY <1>1, <1>3, <1>6 DEF Devices, Intervals, Exchange, Work

LEMMA Restarted ==
  ASSUME NEW d \in Devices
  PROVE  LET e == DoRestartAccessTimeoutIfNeeded(d)
         IN  /\ e \in Devices
             /\ Intervals(e) = Intervals(d) /\ Exchange(e) = Exchange(d) /\ Work(e) = Work(d)
             /\ e.slots = d.slots /\ e.start = d.start /\ e.earned = d.earned
             /\ d.timer # Never => e.timer # Never
             /\ \A t \in Txops :
                  d.requested[t] /\ GetBackoffEndFor(d, t) > now => e.timer # Never
<1> DEFINE ends == {GetBackoffEndFor(d, t) : t \in {u \in Txops : d.requested[u]}}
           later == {x \in ends : x > now}
<1>1. later \subseteq Nat
      BY BackoffTimes DEF now
<1>2. \A t \in Txops : d.requested[t] /\ GetBackoffEndFor(d, t) > now =>
        GetBackoffEndFor(d, t) \in later
      OBVIOUS
<1>3. later # {} => Least(later) \in Nat
      BY <1>1, LeastElement
<1>4. DoRestartAccessTimeoutIfNeeded(d) =
        IF later = {} \/ (d.timer # Never /\ d.timer =< Least(later)) THEN d
        ELSE [d EXCEPT !.timer = Least(later)]
      BY DEF DoRestartAccessTimeoutIfNeeded
<1> HIDE DEF ends, later
<1>5. QED BY <1>2, <1>3, <1>4 DEF Devices, Intervals, Exchange, Work, Event, Never

LEMMA BackoffGenerated ==
  ASSUME NEW d \in Devices, NEW t \in Txops, NEW c \in Choices
  PROVE  /\ GenerateBackoff(d, t, c) \in Devices
         /\ Intervals(GenerateBackoff(d, t, c)) = Intervals(d)
         /\ Exchange(GenerateBackoff(d, t, c)) = Exchange(d)
         /\ Work(GenerateBackoff(d, t, c)) = Work(d)
         /\ GenerateBackoff(d, t, c).timer = d.timer
<1> DEFINE slots == [d.slots EXCEPT ![t] = c.draw[t]]
           start == [d.start EXCEPT ![t] = now]
           earned == [d.earned EXCEPT ![t] = c.draw[t]]
<1>1. c.draw[t] \in Nat
      BY Constants DEF Choices
<1>2. slots \in [Txops -> Nat] /\ start \in [Txops -> Int] /\ earned \in [Txops -> Nat]
      BY <1>1 DEF Devices, now
<1>3. GenerateBackoff(d, t, c) = [d EXCEPT !.slots = slots, !.start = start, !.earned = earned]
      BY DEF GenerateBackoff
<1> HIDE DEF slots, start, earned
<1>4. QED BY <1>2, <1>3 DEF Devices, Intervals, Exchange, Work

(* What follows when the PHY starts to send.                               *)
LEMMA TxStarted ==
  ASSUME NEW d \in Devices
  PROVE  LET e == NotifyTxStartNow(d)
         IN  /\ e \in Devices
             /\ Exchange(e) = Exchange(d) /\ Work(e) = Work(d)
             /\ e.timer = d.timer /\ e.earned = d.earned
             /\ e.rxOk = TRUE /\ e.rxEnd = (IF d.rxEnd > now THEN now ELSE d.rxEnd)
             /\ e.txEnd = now + FrameTime
             /\ e.busyEnd = d.busyEnd /\ e.navEnd = d.navEnd /\ e.ackEnd = d.ackEnd
             /\ e.ctsEnd = d.ctsEnd /\ e.switchEnd = d.switchEnd /\ e.sleeping = d.sleeping
<1> DEFINE rx == IF d.rxEnd > now THEN now ELSE d.rxEnd
           cut == [d EXCEPT !.rxOk = TRUE, !.rxEnd = rx]
           u == UpdateBackoff(cut)
<1>1. rx \in Int /\ now + FrameTime \in Int
      BY Constants DEF Devices, now
<1>2. NotifyTxStartNow(d) = [u EXCEPT !.txEnd = now + FrameTime]
      BY DEF NotifyTxStartNow
<1>3. rx = (IF d.rxEnd > now THEN now ELSE d.rxEnd)
      OBVIOUS
<1> HIDE DEF rx
<1>4. /\ cut \in Devices /\ Exchange(cut) = Exchange(d) /\ Work(cut) = Work(d)
      /\ cut.timer = d.timer /\ cut.earned = d.earned
      /\ Intervals(cut) = <<rx, TRUE, d.txEnd, d.busyEnd, d.navEnd, d.ackEnd, d.ctsEnd,
                            d.switchEnd, d.sleeping>>
      BY <1>1 DEF Devices, Intervals, Exchange, Work
<1> HIDE DEF cut
<1>5. /\ u \in Devices /\ Exchange(u) = Exchange(d) /\ Work(u) = Work(d)
      /\ u.timer = d.timer /\ u.earned = d.earned /\ Intervals(u) = Intervals(cut)
      BY <1>4, Updated
<1> HIDE DEF u
<1>6. /\ NotifyTxStartNow(d) \in Devices
      /\ Exchange(NotifyTxStartNow(d)) = Exchange(u) /\ Work(NotifyTxStartNow(d)) = Work(u)
      /\ NotifyTxStartNow(d).timer = u.timer /\ NotifyTxStartNow(d).earned = u.earned
      /\ Intervals(NotifyTxStartNow(d)) =
           <<u.rxEnd, u.rxOk, now + FrameTime, u.busyEnd, u.navEnd, u.ackEnd, u.ctsEnd,
             u.switchEnd, u.sleeping>>
      BY <1>1, <1>2, <1>5 DEF Devices, Intervals, Exchange, Work
<1>7. QED BY <1>3, <1>4, <1>5, <1>6 DEF Intervals

-----------------------------------------------------------------------------
(* Access is granted.                                                      *)

(* The device has just begun to send, and nobody is ready before it has    *)
(* ended what it waits for.                                                *)
HasBegun(d) ==
  /\ d.phase \in {"noack", "ack", "cts"} /\ d.due > now /\ d.txEnd = now + FrameTime
  /\ d.phase = "noack" => d.due =< d.txEnd
  /\ d.phase = "ack" => d.due =< d.ackEnd
  /\ d.phase = "cts" => d.due =< d.ctsEnd

LEMMA Sends ==
  ASSUME NEW d \in Devices, NEW kind \in {"noack", "ack", "cts"}
  PROVE  LET e == SendAs(d, kind)
         IN  /\ e \in Devices /\ HasBegun(e) /\ Work(e) = Work(d)
             /\ e.owner = d.owner /\ e.held = d.held /\ e.response = d.response
             /\ e.timer = d.timer /\ e.sleeping = d.sleeping
             /\ e.switchEnd = d.switchEnd /\ e.busyEnd = d.busyEnd
<1> DEFINE wait == now + FrameTime + AnswerTime
           timed == CASE kind = "cts" -> [d EXCEPT !.ctsEnd = wait, !.due = wait]
                 [] kind = "ack" -> [d EXCEPT !.ackEnd = wait, !.due = wait]
                 [] kind = "noack" -> [d EXCEPT !.due = now + FrameTime]
           f == [timed EXCEPT !.phase = kind]
<1>1. /\ wait \in Nat /\ now + FrameTime \in Nat /\ wait > now /\ now + FrameTime > now
      /\ wait \in Int /\ wait \in Event
      BY Constants DEF now, Event
<1>2. SendAs(d, kind) = NotifyTxStartNow(f)
      BY DEF SendAs
<1> HIDE DEF wait
<1>3. /\ f \in Devices /\ f.phase = kind /\ f.due \in Nat /\ f.due > now /\ Work(f) = Work(d)
      /\ f.owner = d.owner /\ f.held = d.held /\ f.response = d.response
      /\ f.timer = d.timer /\ f.sleeping = d.sleeping
      /\ f.switchEnd = d.switchEnd /\ f.busyEnd = d.busyEnd
      /\ kind = "cts" => f.ctsEnd = f.due
      /\ kind = "ack" => f.ackEnd = f.due
      /\ kind = "noack" => f.due = now + FrameTime
  <2>1. CASE kind = "cts"
    <3>1. f = [d EXCEPT !.ctsEnd = wait, !.due = wait, !.phase = "cts"]
          BY <2>1
    <3> HIDE DEF f
    <3>2. f \in Devices
          BY <1>1, <3>1 DEF Devices
    <3>3. /\ f.phase = "cts" /\ f.due = wait /\ f.ctsEnd = wait /\ Work(f) = Work(d)
          /\ f.owner = d.owner /\ f.held = d.held /\ f.response = d.response
          /\ f.timer = d.timer /\ f.sleeping = d.sleeping
          /\ f.switchEnd = d.switchEnd /\ f.busyEnd = d.busyEnd
          BY <3>1 DEF Devices, Work
    <3>4. QED BY <1>1, <2>1, <3>2, <3>3
  <2>2. CASE kind = "ack"
    <3>1. f = [d EXCEPT !.ackEnd = wait, !.due = wait, !.phase = "ack"]
          BY <2>2
    <3> HIDE DEF f
    <3>2. f \in Devices
          BY <1>1, <3>1 DEF Devices
    <3>3. /\ f.phase = "ack" /\ f.due = wait /\ f.ackEnd = wait /\ Work(f) = Work(d)
          /\ f.owner = d.owner /\ f.held = d.held /\ f.response = d.response
          /\ f.timer = d.timer /\ f.sleeping = d.sleeping
          /\ f.switchEnd = d.switchEnd /\ f.busyEnd = d.busyEnd
          BY <3>1 DEF Devices, Work
    <3>4. QED BY <1>1, <2>2, <3>2, <3>3
  <2>3. CASE kind = "noack"
        BY <1>1, <2>3 DEF Devices, Event, Work
  <2>4. QED BY <2>1, <2>2, <2>3
<1> DEFINE e == NotifyTxStartNow(f)
<1> HIDE DEF f
<1>4. /\ e \in Devices /\ Exchange(e) = Exchange(f) /\ Work(e) = Work(f)
      /\ e.timer = f.timer /\ e.txEnd = now + FrameTime /\ e.ackEnd = f.ackEnd
      /\ e.ctsEnd = f.ctsEnd /\ e.switchEnd = f.switchEnd /\ e.sleeping = f.sleeping
      /\ e.busyEnd = f.busyEnd
      BY <1>3, TxStarted
<1> HIDE DEF e
<1>5. /\ e.phase = f.phase /\ e.owner = f.owner /\ e.held = f.held /\ e.due = f.due
      /\ e.response = f.response
      BY <1>4 DEF Exchange
<1>6. HasBegun(e)
      BY <1>1, <1>3, <1>4, <1>5 DEF HasBegun, Devices
<1>7. QED BY <1>2, <1>3, <1>4, <1>5, <1>6 DEF e

LEMMA Transmitted ==
  ASSUME NEW d \in Devices, NEW t \in Txops, NEW c \in Choices
  PROVE  LET e == StartTransmission(d, t, c)
         IN  /\ e \in Devices /\ HasBegun(e) /\ Work(e) = Work(d)
             /\ e.owner = t /\ e.response = Never
             /\ e.timer = d.timer /\ e.sleeping = d.sleeping
             /\ e.switchEnd = d.switchEnd /\ e.busyEnd = d.busyEnd
<1> DEFINE f == [d EXCEPT !.owner = t, !.held = c.held, !.response = Never]
           kind == IF c.kind = "none" THEN "noack" ELSE c.kind
<1>1. c.held \in BOOLEAN /\ kind \in {"noack", "ack", "cts"}
      BY DEF Choices
<1>2. /\ f \in Devices /\ Work(f) = Work(d) /\ f.owner = t /\ f.response = Never
      /\ f.timer = d.timer /\ f.sleeping = d.sleeping
      /\ f.switchEnd = d.switchEnd /\ f.busyEnd = d.busyEnd
      BY <1>1 DEF Devices, Work, Event
<1>3. StartTransmission(d, t, c) = SendAs(f, kind)
      BY DEF StartTransmission
<1> HIDE DEF f, kind
<1>4. QED BY <1>1, <1>2, <1>3, Sends

(* Either the frame of t is sent, or nothing is and t is left behind if it *)
(* has one.                                                                *)
LEMMA AccessGranted ==
  ASSUME NEW d \in Devices, NEW t \in Txops, NEW c \in Choices
  PROVE  LET e == NotifyAccessGranted(d, t, c)
         IN  /\ e \in Devices
             /\ e.timer = d.timer /\ e.sleeping = d.sleeping /\ e.frames = d.frames
             /\ e.requested = [d.requested EXCEPT ![t] = FALSE]
             /\ d.stranded \ {t} \subseteq e.stranded
             /\ \/ /\ SendsNothing(d, t, c)
                   /\ Intervals(e) = Intervals(d) /\ Exchange(e) = Exchange(d)
                   /\ e.slots = d.slots /\ e.start = d.start
                   /\ e.frames[t] = 0 \/ t \in e.stranded
                \/ /\ ~ SendsNothing(d, t, c)
                   /\ HasBegun(e) /\ e.owner = t /\ e.frames[t] > 0
                   /\ e.response = Never /\ e.switchEnd = d.switchEnd
                   /\ e.busyEnd = d.busyEnd
<1> DEFINE granted == [d EXCEPT !.requested[t] = FALSE, !.stranded = @ \ {t}]
           left == [granted EXCEPT !.stranded = @ \cup {t}]
<1>1. /\ granted \in Devices /\ granted.frames = d.frames
      /\ granted.requested = [d.requested EXCEPT ![t] = FALSE]
      /\ granted.stranded = d.stranded \ {t}
      /\ granted.timer = d.timer /\ Intervals(granted) = Intervals(d)
      /\ Exchange(granted) = Exchange(d) /\ granted.slots = d.slots /\ granted.start = d.start
  <2> DEFINE requested == [d.requested EXCEPT ![t] = FALSE]
             stranded == d.stranded \ {t}
  <2>1. requested \in [Txops -> BOOLEAN] /\ stranded \in SUBSET Txops
        BY DEF Devices
  <2>2. granted = [d EXCEPT !.requested = requested, !.stranded = stranded]
        OBVIOUS
  <2> HIDE DEF requested, stranded, granted
  <2>3. /\ granted \in Devices /\ granted.frames = d.frames
        /\ granted.requested = requested /\ granted.stranded = stranded
        /\ granted.timer = d.timer /\ Intervals(granted) = Intervals(d)
        /\ Exchange(granted) = Exchange(d) /\ granted.slots = d.slots /\ granted.start = d.start
        BY <2>1, <2>2 DEF Devices, Intervals, Exchange
  <2>4. QED BY <2>3 DEF requested, stranded
<1> HIDE DEF granted
<1>2. d.frames[t] \in Nat
      BY DEF Devices
<1>3. CASE d.frames[t] = 0
  <2>1. NotifyAccessGranted(d, t, c) = granted
        BY <1>3 DEF NotifyAccessGranted, granted
  <2>2. QED BY <1>1, <1>3, <2>1 DEF SendsNothing, Intervals
<1>4. CASE d.frames[t] # 0 /\ SendsNothing(d, t, c)
  <2>1. NotifyAccessGranted(d, t, c) = left
        BY <1>4 DEF NotifyAccessGranted, granted
  <2>2. /\ left \in Devices /\ left.frames = granted.frames
        /\ left.requested = granted.requested /\ left.stranded = granted.stranded \cup {t}
        /\ left.timer = granted.timer /\ Intervals(left) = Intervals(granted)
        /\ Exchange(left) = Exchange(granted)
        /\ left.slots = granted.slots /\ left.start = granted.start
        BY <1>1 DEF Devices, Intervals, Exchange
  <2> HIDE DEF left
  <2>3. QED BY <1>1, <1>4, <2>1, <2>2 DEF Intervals
<1>5. CASE ~ SendsNothing(d, t, c)
  <2>1. NotifyAccessGranted(d, t, c) = StartTransmission(granted, t, c)
        BY <1>5 DEF NotifyAccessGranted, SendsNothing, granted
  <2>2. d.frames[t] > 0
        BY <1>2, <1>5 DEF SendsNothing
  <2>3. QED BY <1>1, <1>5, <2>1, <2>2, Transmitted DEF Work, Intervals
<1>6. QED BY <1>3, <1>4, <1>5

AfterCollision(d, losers, c, silent, e) ==
  /\ e \in Devices
  /\ Intervals(e) = Intervals(d) /\ Exchange(e) = Exchange(d)
  /\ e.timer = d.timer /\ e.requested = d.requested
  /\ \A t \in Txops : e.frames[t] =< d.frames[t]
  /\ \A t \in Txops \ losers :
       e.frames[t] = d.frames[t] /\ e.slots[t] = d.slots[t] /\ e.start[t] = d.start[t]
  /\ \A t \in losers : e.slots[t] = c.draw[t] /\ e.start[t] = now
  /\ \A t \in Txops :
       t \in e.stranded <=> t \in d.stranded \/ (t \in losers /\ silent /\ c.draw[t] = 0)

LEMMA Collided ==
  ASSUME NEW d \in Devices, NEW losers \in SUBSET Txops, NEW c \in Choices, NEW b, NEW w
  PROVE  AfterCollision(d, losers, c, SendsNothing(b, w, c),
                        Collide(d, losers, c, SendsNothing(b, w, c)))
<1> DEFINE silent == SendsNothing(b, w, c)
           slots == [t \in Txops |-> IF t \in losers THEN c.draw[t] ELSE d.slots[t]]
           start == [t \in Txops |-> IF t \in losers THEN now ELSE d.start[t]]
           earned == [t \in Txops |-> IF t \notin losers THEN d.earned[t]
                  ELSE IF silent /\ t \in Edca /\ c.draw[t] > 0 THEN c.draw[t] - 1
                  ELSE c.draw[t]]
           frames == [t \in Txops |-> IF t \in losers /\ c.drop /\ d.frames[t] > 0
                                      THEN d.frames[t] - 1 ELSE d.frames[t]]
           behind == {t \in losers : silent /\ c.draw[t] = 0}
           e == Collide(d, losers, c, silent)
<1>1. \A t \in Txops : /\ c.draw[t] \in Nat /\ d.slots[t] \in Nat /\ d.start[t] \in Int
                       /\ d.earned[t] \in Nat /\ d.frames[t] \in Nat
      BY Constants DEF Choices, Devices
<1>2. slots \in [Txops -> Nat] /\ start \in [Txops -> Int]
      BY <1>1 DEF now
<1>3. earned \in [Txops -> Nat]
      BY <1>1
<1>4. frames \in [Txops -> Nat] /\ behind \in SUBSET Txops
      BY <1>1
<1>5. e = [d EXCEPT !.slots = Computed(slots), !.start = Computed(start), !.earned = earned,
                    !.frames = frames, !.stranded = @ \cup behind]
      BY DEF Collide
<1>6. /\ \A t \in Txops : frames[t] =< d.frames[t]
      /\ \A t \in Txops \ losers :
           frames[t] = d.frames[t] /\ slots[t] = d.slots[t] /\ start[t] = d.start[t]
      /\ \A t \in losers : slots[t] = c.draw[t] /\ start[t] = now
      BY <1>1
<1> HIDE DEF slots, start, earned, frames, behind
<1>7. Computed(slots) = slots /\ Computed(start) = start
      BY ComputedIsTheSame
<1>8. e = [d EXCEPT !.slots = slots, !.start = start, !.earned = earned,
                    !.frames = frames, !.stranded = @ \cup behind]
      BY <1>5, <1>7, Zenon
<1> HIDE DEF e
<1>9. /\ e \in Devices /\ Intervals(e) = Intervals(d) /\ Exchange(e) = Exchange(d)
      /\ e.timer = d.timer /\ e.requested = d.requested
      /\ e.slots = slots /\ e.start = start /\ e.frames = frames
      /\ e.stranded = d.stranded \cup behind
      BY <1>2, <1>3, <1>4, <1>8 DEF Devices, Intervals, Exchange
<1>10. QED BY <1>6, <1>9 DEF e, behind, AfterCollision

LEMMA SameBackoff ==
  ASSUME NEW d, NEW e, NEW t, Intervals(e) = Intervals(d),
         e.slots[t] = d.slots[t], e.start[t] = d.start[t]
  PROVE  GetBackoffEndFor(e, t) = GetBackoffEndFor(d, t)
  BY DEF GetBackoffEndFor, GetBackoffStartFor, GetAccessGrantStart, Intervals

LEMMA ProtectedWhile ==
  ASSUME NEW d \in Devices, NEW e \in Ends(d), NEW time \in Int, time =< e + Sifs
  PROVE  Protected(d, time)
  BY LastEndIsLast, Constants DEF Protected

LEMMA BegunIsProtected ==
  ASSUME NEW d \in Devices, HasBegun(d)
  PROVE  Protected(d, now)
<1>1. d.txEnd \in Ends(d) /\ d.txEnd > now
      BY Constants DEF Ends, HasBegun, now
<1>2. QED BY <1>1, ProtectedWhile, LastEndIsLast, Constants DEF now

(* Nobody who waited is forgotten: who is no longer waiting has nothing to *)
(* send, or sends, or is left behind; who still waits is not ready, or is  *)
(* left behind.                                                            *)
Served(d, g) ==
  \A t \in Txops :
    /\ g.requested[t] => d.requested[t]
    /\ d.requested[t] \/ t \in d.stranded =>
         g.requested[t] \/ t \in g.stranded \/ g.frames[t] = 0 \/ (HasBegun(g) /\ g.owner = t)

NotForgotten(g) ==
  \A t \in Txops : g.requested[t] => GetBackoffEndFor(g, t) > now \/ t \in g.stranded

(* The medium has been idle for the AIFS of t.                             *)
Waited(d, t) == now >= GetAccessGrantStart(d) + Aifsn[t] * Slot

(* What a grant does to the exchange under way: nothing, or it starts one. *)
Quiet(d, g) == Intervals(g) = Intervals(d) /\ Exchange(g) = Exchange(d)

Begins(d, g) ==
  /\ ~ Protected(d, now) /\ Waited(d, g.owner)
  /\ HasBegun(g) /\ g.owner \in Txops /\ g.frames[g.owner] > 0
  /\ g.response = Never /\ g.switchEnd = d.switchEnd /\ g.busyEnd = d.busyEnd

LEMMA AccessDecided ==
  ASSUME NEW d \in Devices, NEW c \in Choices
  PROVE  LET g == DoGrantDcfAccess(d, c)
         IN  /\ g \in Devices /\ g.timer = d.timer /\ g.sleeping = d.sleeping
             /\ \A t \in Txops : g.frames[t] =< d.frames[t]
             /\ Protected(d, now) => g = d
             /\ Served(d, g) /\ NotForgotten(g)
             /\ Quiet(d, g) \/ Begins(d, g)
<1> DEFINE w == Least(Ready(d))
           n == NotifyAccessGranted(d, w, c)
           losers == Ready(d) \ {w}
           silent == SendsNothing(d, w, c)
           g == DoGrantDcfAccess(d, c)
<1>1. \A t \in Txops : GetBackoffEndFor(d, t) \in Int
      BY BackoffTimes
<1>2. \A t \in Txops : d.requested[t] /\ t \notin Ready(d) => GetBackoffEndFor(d, t) > now
      BY <1>1 DEF Ready, now
<1>3. CASE Ready(d) = {}
  <2>1. DoGrantDcfAccess(d, c) = d
        BY <1>3 DEF DoGrantDcfAccess
  <2>2. \A t \in Txops : d.frames[t] \in Nat
        BY DEF Devices
  <2>3. QED BY <1>2, <1>3, <2>1, <2>2 DEF Served, NotForgotten, Quiet
<1>4. CASE Ready(d) # {}
  <2>1. w \in Ready(d) /\ Ready(d) \subseteq Txops /\ ~ Protected(d, now)
        BY <1>4, ReadyTxop
  <2>2. w \in Txops /\ losers \in SUBSET Txops /\ w \notin losers /\ silent \in BOOLEAN
        BY <2>1 DEF SendsNothing
  <2>3. g = Collide(n, losers, c, silent)
        BY <1>4 DEF DoGrantDcfAccess
  <2>4. \A t \in Txops : t \notin losers /\ t # w => t \notin Ready(d)
        OBVIOUS
  <2> HIDE DEF w, losers
  <2>5. /\ n \in Devices
        /\ n.timer = d.timer /\ n.sleeping = d.sleeping /\ n.frames = d.frames
        /\ n.requested = [d.requested EXCEPT ![w] = FALSE]
        /\ d.stranded \ {w} \subseteq n.stranded
        /\ \/ /\ silent
              /\ Intervals(n) = Intervals(d) /\ Exchange(n) = Exchange(d)
              /\ n.slots = d.slots /\ n.start = d.start
              /\ n.frames[w] = 0 \/ w \in n.stranded
           \/ /\ ~ silent
              /\ HasBegun(n) /\ n.owner = w /\ n.frames[w] > 0
              /\ n.response = Never /\ n.switchEnd = d.switchEnd /\ n.busyEnd = d.busyEnd
        BY <2>2, AccessGranted
  <2> HIDE DEF n, silent, g
  <2>6. AfterCollision(n, losers, c, silent, g)
        BY <2>2, <2>3, <2>5, Collided, Zenon DEF silent
  <2> USE <2>6 DEF AfterCollision
  <2>7. /\ g.sleeping = d.sleeping /\ g.switchEnd = n.switchEnd /\ g.busyEnd = n.busyEnd
        /\ HasBegun(n) => HasBegun(g)
        BY <2>5 DEF Intervals, Exchange, HasBegun
  <2>8. g.requested = [d.requested EXCEPT ![w] = FALSE] /\ d.requested \in [Txops -> BOOLEAN]
        BY <2>5 DEF Devices
  <2>9. CASE silent
    <3>1. Quiet(d, g) /\ (g.frames[w] = 0 \/ w \in g.stranded)
          BY <2>2, <2>5, <2>9 DEF Quiet
    <3>2. Served(d, g)
          BY <2>2, <2>5, <2>8, <3>1 DEF Served
    <3>3. ASSUME NEW t \in Txops, g.requested[t]
          PROVE  GetBackoffEndFor(g, t) > now \/ t \in g.stranded
      <4>1. t # w /\ d.requested[t]
            BY <2>8, <3>3
      <4>2. CASE t \notin losers
            BY <1>2, <2>4, <2>5, <2>9, <4>1, <4>2, <3>1, SameBackoff DEF Quiet
      <4>3. CASE t \in losers
        <5>1. g.start[t] = now /\ g.slots[t] = c.draw[t] /\ c.draw[t] \in Nat
              BY <4>3, Constants DEF Choices
        <5>2. GetBackoffStartFor(g, t) \in Int /\ GetBackoffStartFor(g, t) >= now
          <6>1. GetAccessGrantStart(g) + Aifsn[t] * Slot \in Int
                BY AccessGrantStart, Aifs
          <6>2. QED BY <5>1, <6>1 DEF GetBackoffStartFor, Later, now
        <5>3. CASE c.draw[t] = 0
              BY <2>9, <4>3, <5>3
        <5>4. CASE c.draw[t] > 0
          <6>1. c.draw[t] * Slot \in Nat /\ c.draw[t] * Slot > 0
                BY <5>1, <5>4, Constants
          <6>2. QED BY <5>1, <5>2, <6>1 DEF GetBackoffEndFor, now
        <5>5. QED BY <5>1, <5>3, <5>4
      <4>4. QED BY <4>2, <4>3
    <3>4. NotForgotten(g)
          BY <3>3 DEF NotForgotten
    <3>5. QED BY <2>1, <2>5, <2>7, <3>1, <3>2, <3>4 DEF g
  <2>10. CASE ~ silent
    <3>1. /\ HasBegun(g) /\ g.owner = w /\ g.frames[w] > 0
          /\ g.response = Never /\ g.switchEnd = d.switchEnd /\ g.busyEnd = d.busyEnd
          BY <2>2, <2>5, <2>7, <2>10 DEF Exchange
    <3>2. Served(d, g)
          BY <2>2, <2>5, <2>8, <3>1 DEF Served
    <3>3. Ready(g) = {}
          BY <3>1, BegunIsProtected, NobodyIsReady
    <3>4. NotForgotten(g)
          BY <3>3, BackoffTimes DEF Ready, NotForgotten, now
    <3>5. Begins(d, g)
      <4>1. GetBackoffEndFor(d, w) =< now
            BY <2>1 DEF Ready
      <4>2. GetAccessGrantStart(d) + Aifsn[w] * Slot \in Int
            BY <2>2, AccessGrantStart, Aifs
      <4>3. Waited(d, w)
            BY <2>2, <4>1, <4>2, BackoffTimes DEF Waited, now
      <4>4. QED BY <2>1, <2>2, <3>1, <4>3 DEF Begins
    <3>6. QED BY <2>1, <2>5, <2>7, <3>2, <3>4, <3>5 DEF g
  <2>11. QED BY <2>9, <2>10
<1>5. QED BY <1>3, <1>4

-----------------------------------------------------------------------------
(* Requests.                                                               *)

(* What a request, its grants and the timer after them make of the device, *)
(* and of a Txop.                                                          *)
Outcome(d, g) ==
  /\ g \in Devices /\ g.sleeping = d.sleeping
  /\ \A t \in Txops : g.frames[t] =< d.frames[t]
  /\ Protected(d, now) => g.frames = d.frames
  /\ Quiet(d, g) \/ Begins(d, g)

Timed(g) == \A t \in Txops : g.requested[t] => g.timer # Never \/ t \in g.stranded

CaredFor(g, t) ==
  g.requested[t] \/ t \in g.stranded \/ g.frames[t] = 0 \/ (HasBegun(g) /\ g.owner = t)

Keeps(d, g) == \A t \in Txops : d.requested[t] \/ t \in d.stranded => CaredFor(g, t)

LEMMA GrantedAndTimed ==
  ASSUME NEW d \in Devices, NEW c \in Choices
  PROVE  LET g == DoRestartAccessTimeoutIfNeeded(DoGrantDcfAccess(d, c))
         IN  Outcome(d, g) /\ Timed(g) /\ Keeps(d, g)
<1> DEFINE h == DoGrantDcfAccess(d, c)
           g == DoRestartAccessTimeoutIfNeeded(h)
<1>1. /\ h \in Devices /\ h.timer = d.timer /\ h.sleeping = d.sleeping
      /\ \A t \in Txops : h.frames[t] =< d.frames[t]
      /\ Protected(d, now) => h = d
      /\ Served(d, h) /\ NotForgotten(h)
      /\ Quiet(d, h) \/ Begins(d, h)
      BY AccessDecided
<1> HIDE DEF h
<1>2. /\ g \in Devices
      /\ Intervals(g) = Intervals(h) /\ Exchange(g) = Exchange(h) /\ Work(g) = Work(h)
      /\ g.slots = h.slots /\ g.start = h.start
      /\ \A t \in Txops :
           h.requested[t] /\ GetBackoffEndFor(h, t) > now => g.timer # Never
      BY <1>1, Restarted
<1> HIDE DEF g
<1>3. /\ g.sleeping = h.sleeping /\ g.switchEnd = h.switchEnd /\ g.busyEnd = h.busyEnd
      /\ g.owner = h.owner /\ g.response = h.response
      /\ g.requested = h.requested /\ g.frames = h.frames /\ g.stranded = h.stranded
      /\ HasBegun(h) => HasBegun(g)
      BY <1>2 DEF Intervals, Exchange, Work, HasBegun
<1>4. Quiet(d, g) \/ Begins(d, g)
      BY <1>1, <1>2, <1>3 DEF Quiet, Begins
<1>5. Outcome(d, g)
      BY <1>1, <1>2, <1>3, <1>4 DEF Outcome
<1>6. Timed(g)
      BY <1>1, <1>2, <1>3 DEF Timed, NotForgotten
<1>7. Keeps(d, g)
      BY <1>1, <1>3 DEF Keeps, CaredFor, Served
<1>8. QED BY <1>5, <1>6, <1>7 DEF g, h

LEMMA RequestMade ==
  ASSUME NEW d \in Devices, NEW t \in Txops
  PROVE  LET e == AccessRequested(d, t)
         IN  /\ e \in Devices /\ Intervals(e) = Intervals(d) /\ Exchange(e) = Exchange(d)
             /\ e.frames = d.frames /\ e.timer = d.timer
             /\ e.requested = [d.requested EXCEPT ![t] = TRUE]
             /\ e.stranded = d.stranded \ {t}
<1> DEFINE a == AlignBackoffStart(d, t)
           u == UpdateBackoff(a)
<1>1. /\ a \in Devices /\ Intervals(a) = Intervals(d) /\ Exchange(a) = Exchange(d)
      /\ Work(a) = Work(d) /\ a.timer = d.timer
  <2> DEFINE from == GetAccessGrantStart(d) + Aifsn[t] * Slot
             later == from + ((d.start[t] - from) \div Slot + 1) * Slot
             start == [d.start EXCEPT ![t] = later]
  <2>1. from \in Int /\ d.start \in [Txops -> Int]
        BY AccessGrantStart, Aifs DEF Devices
  <2> HIDE DEF from
  <2>2. CASE t \in Edca /\ d.start[t] > from
    <3>1. (d.start[t] - from) \div Slot \in Nat
          BY <2>1, <2>2, Constants
    <3>2. ((d.start[t] - from) \div Slot + 1) * Slot \in Nat
          BY <3>1, Constants
    <3>3. later \in Int
          BY <2>1, <3>2
    <3> HIDE DEF later
    <3>4. start \in [Txops -> Int]
          BY <2>1, <3>3
    <3> HIDE DEF start
    <3>5. a = [d EXCEPT !.start = start]
          BY <2>2 DEF AlignBackoffStart, from, start, later
    <3> HIDE DEF a
    <3>6. QED BY <3>4, <3>5 DEF Devices, Intervals, Exchange, Work
  <2>3. CASE ~ (t \in Edca /\ d.start[t] > from)
        BY <2>3 DEF AlignBackoffStart, from
  <2>4. QED BY <2>2, <2>3
<1> HIDE DEF a
<1>2. /\ u \in Devices /\ Intervals(u) = Intervals(d) /\ Exchange(u) = Exchange(d)
      /\ Work(u) = Work(d) /\ u.timer = d.timer
      BY <1>1, Updated
<1>3. AccessRequested(d, t) = [u EXCEPT !.requested[t] = TRUE, !.stranded = @ \ {t}]
      BY DEF AccessRequested, a
<1> HIDE DEF u
<1> DEFINE requested == [u.requested EXCEPT ![t] = TRUE]
           stranded == u.stranded \ {t}
<1>4. requested \in [Txops -> BOOLEAN] /\ stranded \in SUBSET Txops
      BY <1>2 DEF Devices
<1>5. requested = [d.requested EXCEPT ![t] = TRUE] /\ stranded = d.stranded \ {t}
      BY <1>2 DEF Work
<1>6. AccessRequested(d, t) = [u EXCEPT !.requested = requested, !.stranded = stranded]
      BY <1>3
<1> HIDE DEF requested, stranded
<1>7. QED BY <1>2, <1>4, <1>5, <1>6 DEF Devices, Intervals, Exchange, Work

LEMMA SameProtected ==
  ASSUME NEW d, NEW e, Intervals(e) = Intervals(d)
  PROVE  /\ Protected(e, now) <=> Protected(d, now)
         /\ \A t \in Txops : Waited(e, t) <=> Waited(d, t)
<1>1. Protected(e, now) <=> Protected(d, now)
      BY SameLastEnd DEF Protected
<1>2. GetAccessGrantStart(e) = GetAccessGrantStart(d)
      BY DEF Intervals, GetAccessGrantStart
<1>3. QED BY <1>1, <1>2 DEF Waited

LEMMA AccessIsRequested ==
  ASSUME NEW d \in Devices, ~ d.sleeping, NEW t \in Txops, NEW c \in Choices
  PROVE  LET g == RequestAccess(d, t, c)
         IN  Outcome(d, g) /\ Timed(g) /\ Keeps(d, g) /\ CaredFor(g, t)
<1> DEFINE e == AccessRequested(d, t)
           g == DoRestartAccessTimeoutIfNeeded(DoGrantDcfAccess(e, c))
<1>1. /\ e \in Devices /\ Intervals(e) = Intervals(d) /\ Exchange(e) = Exchange(d)
      /\ e.frames = d.frames
      /\ e.requested = [d.requested EXCEPT ![t] = TRUE]
      /\ e.stranded = d.stranded \ {t}
      BY RequestMade
<1>2. RequestAccess(d, t, c) = g
      BY DEF RequestAccess
<1> HIDE DEF e
<1>3. Outcome(e, g) /\ Timed(g) /\ Keeps(e, g)
      BY <1>1, GrantedAndTimed
<1> HIDE DEF g
<1>4. e.sleeping = d.sleeping /\ e.switchEnd = d.switchEnd /\ e.busyEnd = d.busyEnd
      BY <1>1 DEF Intervals
<1>5. Outcome(d, g)
      BY <1>1, <1>3, <1>4, SameProtected DEF Outcome, Quiet, Begins
<1>6. \A u \in Txops : d.requested[u] \/ u \in d.stranded \/ u = t =>
                         e.requested[u] \/ u \in e.stranded
      BY <1>1 DEF Devices
<1>7. Keeps(d, g) /\ CaredFor(g, t)
      BY <1>3, <1>6 DEF Keeps
<1>8. QED BY <1>2, <1>3, <1>5, <1>7

LEMMA AccessIsRestarted ==
  ASSUME NEW d \in Devices, ~ d.sleeping, NEW t \in Txops, NEW c \in Choices
  PROVE  LET g == RestartAccessIfNeeded(d, t, c)
         IN  /\ Outcome(d, g) /\ Keeps(d, g)
             /\ g = d \/ Timed(g)
             /\ HasFramesToTransmit(d, t) => CaredFor(g, t)
<1>1. Outcome(d, d) /\ Keeps(d, d)
      BY DEF Outcome, Keeps, Quiet, CaredFor, Devices
<1>2. CASE HasFramesToTransmit(d, t) /\ ~ d.requested[t]
      BY <1>2, AccessIsRequested DEF RestartAccessIfNeeded
<1>3. CASE ~ (HasFramesToTransmit(d, t) /\ ~ d.requested[t])
      BY <1>1, <1>3 DEF RestartAccessIfNeeded, CaredFor
<1>4. QED BY <1>2, <1>3

-----------------------------------------------------------------------------
(* The inductive invariant.  d is a device and p its PHY.                  *)

Underway(d) == d.owner # Nobody

(* A Txop that owns the exchange has the frame under way to send.          *)
OwnerInv(d) ==
  /\ d.phase = "idle" <=> ~ Underway(d)
  /\ Underway(d) => d.due # Never /\ d.frames[d.owner] > 0

(* A reception is known to the manager; the device does not send then, and *)
(* what MacLow has scheduled waits for its end.                            *)
ReceptionInv(d, p) ==
  p.rx # Never =>
    /\ d.rxEnd = p.rx /\ d.rxOk /\ d.txEnd =< now
    /\ Underway(d) => d.due =< p.rx
    /\ d.phase = "sifs" => d.due < p.rx
    /\ Underway(d) /\ d.response # Never => p.rx > now

(* Until the event of MacLow is due an interval keeps others from access.  *)
ExchangeInv(d) ==
  /\ d.phase = "noack" => d.due =< d.txEnd
  /\ d.phase = "ack" => d.due =< Later(d.ackEnd, d.rxEnd)
  /\ d.phase = "cts" => d.due =< Later(d.ctsEnd, d.rxEnd)
  /\ d.phase = "sifs" => /\ d.due =< Sifs /\ Protected(d, d.due)
                         /\ d.txEnd =< now /\ d.response = Never

(* So does the end of what a response answers.                             *)
ResponseInv(d) ==
  d.response # Never =>
    /\ d.response =< Sifs /\ Protected(d, d.response)
    /\ d.txEnd =< now
    /\ Underway(d) => d.due = now /\ d.response > now

SleepInv(d, p) ==
  d.sleeping => /\ ~ Underway(d) /\ d.timer = Never /\ d.response = Never
                /\ p.rx = Never /\ p.reset = Never

DeviceInv(d, p) ==
  OwnerInv(d) /\ ReceptionInv(d, p) /\ ExchangeInv(d) /\ ResponseInv(d) /\ SleepInv(d, p)

IInv == TypeOK /\ DeviceInv(dev, phy)

(* The two invariants about the requests, of a device.                     *)
TimedDevice(d) ==
  \A t \in Txops : d.requested[t] /\ ~ d.sleeping => d.timer # Never \/ t \in d.stranded

Attended(d, t) ==
  HasFramesToTransmit(d, t) /\ ~ d.sleeping => d.requested[t] \/ d.owner = t \/ t \in d.stranded

WorkDevice(d) == \A t \in Txops : Attended(d, t)

LEMMA EventIs ==
  ASSUME NEW e \in Event
  PROVE  e # Never => e \in Nat /\ e >= now
  BY DEF Event, now, Never

LEMMA ProtectedBefore ==
  ASSUME NEW d \in Devices, NEW time \in Int, time >= now, Protected(d, time)
  PROVE  Protected(d, now)
  BY LastEndIsLast, Constants DEF Protected, now

(* An exchange, a response that is due and a reception keep others away.   *)
LEMMA DeviceIsProtected ==
  ASSUME NEW d \in Devices, NEW p \in Phys, DeviceInv(d, p),
         Underway(d) \/ d.response # Never \/ p.rx # Never
  PROVE  Protected(d, now)
<1>1. /\ d.due \in Event /\ d.response \in Event /\ p.rx \in Event
      /\ d.phase \in {"idle", "noack", "ack", "cts", "sifs"}
      /\ d.txEnd \in Int /\ d.rxEnd \in Int /\ d.ackEnd \in Int /\ d.ctsEnd \in Int
      BY DEF Devices, Phys
<1>2. \A e \in Ends(d) : e >= now => Protected(d, now)
      BY ProtectedWhile, LastEndIsLast, Constants DEF now
<1>3. /\ d.txEnd \in Ends(d) /\ d.rxEnd \in Ends(d)
      /\ d.ackEnd \in Ends(d) /\ d.ctsEnd \in Ends(d)
      BY DEF Ends
<1>4. CASE p.rx # Never
      BY <1>1, <1>2, <1>3, <1>4, EventIs DEF DeviceInv, ReceptionInv
<1>5. CASE d.response # Never
  <2>1. d.response \in Nat /\ d.response >= now /\ Protected(d, d.response)
        BY <1>1, <1>5, EventIs DEF DeviceInv, ResponseInv
  <2>2. QED BY <2>1, ProtectedBefore
<1>6. CASE Underway(d)
  <2>1. d.due \in Nat /\ d.due >= now /\ d.phase # "idle"
        BY <1>1, <1>6, EventIs DEF DeviceInv, OwnerInv
  <2>2. CASE d.phase = "sifs"
        BY <2>1, <2>2, ProtectedBefore DEF DeviceInv, ExchangeInv
  <2>3. CASE d.phase # "sifs"
    <3>1. \E e \in {d.txEnd, d.ackEnd, d.ctsEnd, d.rxEnd} : d.due =< e
          BY <1>1, <2>1, <2>3 DEF DeviceInv, ExchangeInv, Later
    <3>2. \E e \in {d.txEnd, d.ackEnd, d.ctsEnd, d.rxEnd} : e >= now
          BY <1>1, <2>1, <3>1 DEF now
    <3>3. QED BY <1>2, <1>3, <3>2
  <2>4. QED BY <2>2, <2>3
<1>7. QED BY <1>4, <1>5, <1>6

(* What no grant may do to an exchange under way, or to a response.        *)
Undisturbed(d, g) ==
  /\ g.txEnd = d.txEnd \/ d.txEnd =< now
  /\ Underway(d) => g.owner = d.owner
  /\ d.response # Never => g.response = d.response

LEMMA NewExchangeInv ==
  ASSUME NEW d \in Devices, NEW p, HasBegun(d), d.owner \in Txops, d.frames[d.owner] > 0,
         d.response = Never, ~ d.sleeping, p.rx = Never
  PROVE  DeviceInv(d, p)
<1>1. /\ Underway(d) /\ d.phase \in {"noack", "ack", "cts"}
      /\ d.due \in Event /\ d.due > now
      /\ d.rxEnd \in Int /\ d.ackEnd \in Int /\ d.ctsEnd \in Int
      BY Constants DEF Underway, HasBegun, Devices
<1>2. OwnerInv(d)
      BY <1>1 DEF OwnerInv, now, Never
<1>3. ExchangeInv(d)
      BY <1>1 DEF ExchangeInv, HasBegun, Later, Event, Never, now
<1>4. QED BY <1>2, <1>3 DEF DeviceInv, ReceptionInv, ResponseInv, SleepInv

LEMMA OutcomeIsUndisturbed ==
  ASSUME NEW d \in Devices, NEW p \in Phys, DeviceInv(d, p), ~ d.sleeping,
         NEW g, Outcome(d, g)
  PROVE  DeviceInv(g, p) /\ Undisturbed(d, g)
<1>1. g \in Devices /\ ~ g.sleeping
      BY DEF Outcome
<1>2. CASE Quiet(d, g)
  <2>1. Underway(d) => g.frames = d.frames
        BY DeviceIsProtected DEF Outcome
  <2>2. LastEnd(g) = LastEnd(d)
        BY <1>2, SameLastEnd DEF Quiet
  <2>3. /\ g.owner = d.owner /\ g.phase = d.phase /\ g.due = d.due /\ g.response = d.response
        /\ g.rxEnd = d.rxEnd /\ g.rxOk = d.rxOk /\ g.txEnd = d.txEnd
        /\ g.ackEnd = d.ackEnd /\ g.ctsEnd = d.ctsEnd
        BY <1>2 DEF Quiet, Intervals, Exchange
  <2>4. OwnerInv(g)
        BY <2>1, <2>3 DEF DeviceInv, OwnerInv, Underway
  <2>5. ReceptionInv(g, p)
        BY <2>3 DEF DeviceInv, ReceptionInv, Underway
  <2>6. ExchangeInv(g)
        BY <2>2, <2>3 DEF DeviceInv, ExchangeInv, Protected
  <2>7. ResponseInv(g)
        BY <2>2, <2>3 DEF DeviceInv, ResponseInv, Protected, Underway
  <2>8. QED BY <1>1, <2>3, <2>4, <2>5, <2>6, <2>7 DEF DeviceInv, SleepInv, Undisturbed
<1>3. CASE Begins(d, g)
  <2>1. ~ Underway(d) /\ d.response = Never /\ p.rx = Never
        BY <1>3, DeviceIsProtected DEF Begins
  <2>2. DeviceInv(g, p)
        BY <1>1, <1>3, <2>1, NewExchangeInv DEF Begins
  <2>3. d.txEnd =< now
    <3>1. d.txEnd \in Ends(d)
          BY DEF Ends
    <3>2. QED BY <1>3, <3>1, LastEndIsLast, Constants DEF Begins, Protected, now
  <2>4. QED BY <2>1, <2>2, <2>3 DEF Undisturbed
<1>4. QED BY <1>2, <1>3 DEF Outcome

LEMMA OutcomeIsAttended ==
  ASSUME NEW d \in Devices, NEW p \in Phys, DeviceInv(d, p), ~ d.sleeping,
         NEW g, Outcome(d, g), Keeps(d, g), NEW t \in Txops,
         Attended(d, t) \/ CaredFor(g, t)
  PROVE  Attended(g, t)
<1> SUFFICES ASSUME HasFramesToTransmit(g, t)
             PROVE  g.requested[t] \/ g.owner = t \/ t \in g.stranded
    BY DEF Attended
<1>1. /\ g.frames[t] \in Nat /\ d.frames[t] \in Nat /\ g.frames[t] =< d.frames[t]
      BY DEF Outcome, Devices
<1>2. g.frames[t] > 0
      BY <1>1 DEF HasFramesToTransmit
<1>3. CASE CaredFor(g, t)
      BY <1>2, <1>3 DEF CaredFor
<1>4. CASE d.requested[t] \/ t \in d.stranded
      BY <1>3, <1>4 DEF Keeps
<1>5. CASE ~ HasFramesToTransmit(d, t) /\ ~ CaredFor(g, t)
  <2>1. d.owner = t
        BY <1>1, <1>2, <1>5 DEF HasFramesToTransmit
  <2>2. Quiet(d, g)
    <3>1. Underway(d)
          BY <2>1, Constants DEF Underway
    <3>2. QED BY <3>1, DeviceIsProtected DEF Outcome, Begins
  <2>3. QED BY <2>1, <2>2 DEF Quiet, Exchange
<1>6. CASE d.owner = t
  <2>1. Underway(d)
        BY <1>6, Constants DEF Underway
  <2>2. QED BY <1>6, <2>1, OutcomeIsUndisturbed DEF Undisturbed
<1>7. QED BY <1>3, <1>4, <1>5, <1>6, Constants DEF Attended, Outcome

-----------------------------------------------------------------------------
(* What every step does to the device and its PHY.                         *)

Interrupted(d, e) == e.sleeping # d.sleeping \/ e.switchEnd # d.switchEnd

Uninterrupted(d, p, e) ==
  /\ e.txEnd > Later(d.txEnd, now) => d.txEnd =< now
  /\ Underway(d) /\ e.owner # d.owner =>
       ~ Underway(e) /\ (now = d.due \/ now = p.rx \/ Interrupted(d, e))
  /\ d.response # Never /\ e.response = Never => now = d.response \/ Interrupted(d, e)

Step(d, p, e, q) ==
  /\ e \in Devices /\ q \in Phys /\ DeviceInv(e, q)
  /\ TimedDevice(d) => TimedDevice(e)
  /\ WorkDevice(d) => WorkDevice(e)
  /\ Uninterrupted(d, p, e)

(* Two devices that differ only in backoffs, timer and requests.           *)
LEMMA AlikeInv ==
  ASSUME NEW d \in Devices, NEW e \in Devices, NEW p, DeviceInv(d, p),
         Intervals(e) = Intervals(d), Exchange(e) = Exchange(d),
         Underway(d) => e.frames[d.owner] > 0,
         d.sleeping => e.timer = d.timer
  PROVE  DeviceInv(e, p) /\ Undisturbed(d, e)
<1>1. LastEnd(e) = LastEnd(d)
      BY SameLastEnd
<1>2. /\ e.owner = d.owner /\ e.phase = d.phase /\ e.due = d.due /\ e.response = d.response
      /\ e.rxEnd = d.rxEnd /\ e.rxOk = d.rxOk /\ e.txEnd = d.txEnd
      /\ e.ackEnd = d.ackEnd /\ e.ctsEnd = d.ctsEnd /\ e.sleeping = d.sleeping
      BY DEF Intervals, Exchange
<1>3. OwnerInv(e)
      BY <1>2 DEF DeviceInv, OwnerInv, Underway
<1>4. ReceptionInv(e, p)
      BY <1>2 DEF DeviceInv, ReceptionInv, Underway
<1>5. ExchangeInv(e)
      BY <1>1, <1>2 DEF DeviceInv, ExchangeInv, Protected
<1>6. ResponseInv(e)
      BY <1>1, <1>2 DEF DeviceInv, ResponseInv, Protected, Underway
<1>7. SleepInv(e, p)
      BY <1>2 DEF DeviceInv, SleepInv, Underway
<1>8. QED BY <1>2, <1>3, <1>4, <1>5, <1>6, <1>7 DEF DeviceInv, Undisturbed

LEMMA UndisturbedStep ==
  ASSUME NEW d \in Devices, NEW e \in Devices, Undisturbed(d, e), NEW p
  PROVE  Uninterrupted(d, p, e)
  BY DEF Undisturbed, Uninterrupted, Later, Devices, now, Underway

LEMMA OutcomeStep ==
  ASSUME NEW d \in Devices, NEW p \in Phys, DeviceInv(d, p), ~ d.sleeping,
         NEW g, Outcome(d, g), Keeps(d, g), Timed(g) \/ g = d
  PROVE  Step(d, p, g, p)
<1>1. g \in Devices /\ DeviceInv(g, p) /\ Uninterrupted(d, p, g)
      BY OutcomeIsUndisturbed, UndisturbedStep DEF Outcome
<1>2. WorkDevice(d) => WorkDevice(g)
      BY OutcomeIsAttended DEF WorkDevice
<1>3. TimedDevice(d) => TimedDevice(g)
      BY DEF TimedDevice, Timed, Outcome
<1>4. QED BY <1>1, <1>2, <1>3 DEF Step

(* The exchange of d ends, and n frames are left to its Txop.              *)
LEMMA ExchangeEnded ==
  ASSUME NEW d \in Devices, NEW p \in Phys, DeviceInv(d, p), Underway(d), ~ d.sleeping,
         NEW n \in Nat, NEW c \in Choices
  PROVE  LET g == ExchangeEnds(d, n, c)
         IN  /\ g \in Devices /\ DeviceInv(g, p) /\ ~ Underway(g)
             /\ Intervals(g) = Intervals(d) /\ g.response = d.response
             /\ TimedDevice(d) => TimedDevice(g)
             /\ WorkDevice(d) => WorkDevice(g)
<1> DEFINE t == d.owner
           over == [d EXCEPT !.owner = Nobody, !.phase = "idle", !.due = Never,
                        !.held = FALSE, !.frames[t] = n]
           b == GenerateBackoff(over, t, c)
           g == RestartAccessIfNeeded(b, t, c)
           frames == [d.frames EXCEPT ![t] = n]
<1>1. t \in Txops
      BY DEF Underway, Devices
<1>2. frames \in [Txops -> Nat] /\ \A u \in Txops \ {t} : frames[u] = d.frames[u]
      BY <1>1 DEF Devices
<1>3. over = [d EXCEPT !.owner = Nobody, !.phase = "idle", !.due = Never,
                       !.held = FALSE, !.frames = frames]
      OBVIOUS
<1> HIDE DEF t, over, frames
<1>4. /\ over \in Devices /\ Intervals(over) = Intervals(d) /\ over.frames = frames
      /\ over.owner = Nobody /\ over.phase = "idle" /\ over.response = d.response
      /\ over.timer = d.timer /\ over.requested = d.requested /\ over.stranded = d.stranded
      BY <1>2, <1>3 DEF Devices, Event, Intervals
<1>5. /\ b \in Devices /\ Intervals(b) = Intervals(d) /\ b.frames = frames
      /\ b.owner = Nobody /\ b.phase = "idle" /\ b.response = d.response
      /\ b.timer = d.timer /\ b.requested = d.requested /\ b.stranded = d.stranded
      BY <1>1, <1>4, BackoffGenerated DEF Intervals, Exchange, Work
<1> HIDE DEF b
<1>6. /\ ~ Underway(b) /\ LastEnd(b) = LastEnd(d) /\ b.sleeping = d.sleeping
      /\ b.txEnd = d.txEnd /\ b.rxEnd = d.rxEnd /\ b.rxOk = d.rxOk
      BY <1>5, SameLastEnd DEF Underway, Intervals
<1>7. DeviceInv(b, p)
  <2>1. OwnerInv(b) /\ ExchangeInv(b)
        BY <1>5, <1>6 DEF OwnerInv, ExchangeInv
  <2>2. ReceptionInv(b, p)
        BY <1>5, <1>6 DEF DeviceInv, ReceptionInv
  <2>3. ResponseInv(b)
        BY <1>5, <1>6 DEF DeviceInv, ResponseInv, Protected
  <2>4. QED BY <1>6, <2>1, <2>2, <2>3 DEF DeviceInv, SleepInv
<1>8. Protected(b, now)
      BY <1>6, DeviceIsProtected DEF Protected
<1>9. /\ Outcome(b, g) /\ Keeps(b, g) /\ (g = b \/ Timed(g))
      /\ HasFramesToTransmit(b, t) => CaredFor(g, t)
      BY <1>1, <1>5, <1>6, AccessIsRestarted
<1>10. ExchangeEnds(d, n, c) = g
      BY DEF ExchangeEnds, b, over, t
<1> HIDE DEF g
<1>11. Step(b, p, g, p)
      BY <1>5, <1>6, <1>7, <1>9, OutcomeStep
<1>12. Quiet(b, g)
      BY <1>8, <1>9 DEF Outcome, Begins
<1>13. ~ Underway(g) /\ Intervals(g) = Intervals(d) /\ g.response = d.response
      BY <1>5, <1>12 DEF Quiet, Exchange, Underway
<1>14. TimedDevice(d) => TimedDevice(g)
      BY <1>5, <1>6, <1>11 DEF Step, TimedDevice
<1>15. ASSUME WorkDevice(d) PROVE WorkDevice(g)
  <2>1. ASSUME NEW u \in Txops, u # t PROVE Attended(b, u)
        BY <1>2, <1>5, <1>6, <1>15, <2>1, Constants
           DEF WorkDevice, Attended, HasFramesToTransmit, Underway, t
  <2>2. ASSUME NEW u \in Txops, u # t PROVE Attended(g, u)
        BY <1>5, <1>6, <1>7, <1>9, <2>1, <2>2, OutcomeIsAttended
  <2>3. Attended(b, t) \/ CaredFor(g, t)
        BY <1>9 DEF Attended
  <2>4. Attended(g, t)
        BY <1>1, <1>5, <1>6, <1>7, <1>9, <2>3, OutcomeIsAttended
  <2>5. QED BY <2>2, <2>4 DEF WorkDevice
<1>16. QED BY <1>10, <1>11, <1>13, <1>14, <1>15 DEF Step

-----------------------------------------------------------------------------
(* An instant passes.                                                      *)

LEMMA LargestAifsn ==
  \E t \in Txops : \A u \in Txops : Aifsn[u] =< Aifsn[t]
<1> DEFINE Has(n) == \E t \in 1 .. n : \A u \in 1 .. n : Aifsn[u] =< Aifsn[t]
           Without == {n \in Nat : n + 1 \in Txops /\ ~ Has(n + 1)}
<1>1. NTxops \in Nat \ {0} /\ \A t \in Txops : Aifsn[t] \in Nat
      BY EdcaConstants
<1>0. Without \subseteq Nat
      OBVIOUS
<1> HIDE DEF Without
<1>2. ASSUME Without # {} PROVE FALSE
  <2>1. PICK n \in Without : \A k \in Without : n =< k
        BY <1>0, <1>2, LeastElement
  <2>2. n \in Nat /\ n + 1 \in Txops /\ ~ Has(n + 1)
        BY <2>1 DEF Without
  <2>3. CASE n = 0
    <3>1. 1 .. n + 1 = {1}
          BY <2>3
    <3>2. Aifsn[1] =< Aifsn[1]
          BY <1>1, <2>2, <2>3
    <3>3. QED BY <2>2, <3>1, <3>2
  <2>4. CASE n > 0
    <3>1. n - 1 \in Nat /\ n \in Txops /\ (n - 1) + 1 = n
          BY <2>2, <2>4, <1>1 DEF Txops
    <3>2. n - 1 \notin Without
          BY <2>1, <2>2, <3>1
    <3>3. Has(n)
          BY <3>1, <3>2 DEF Without
    <3>4. PICK t \in 1 .. n : \A u \in 1 .. n : Aifsn[u] =< Aifsn[t]
          BY <3>3
    <3>5. \A u \in 1 .. n + 1 : u \in Txops /\ (u \in 1 .. n \/ u = n + 1)
          BY <2>2, <1>1 DEF Txops
    <3>6. t \in 1 .. n + 1 /\ n + 1 \in 1 .. n + 1
          BY <2>2, <3>4
    <3>7. CASE Aifsn[n + 1] =< Aifsn[t]
          BY <2>2, <3>4, <3>5, <3>6, <3>7
    <3>8. CASE Aifsn[t] =< Aifsn[n + 1]
      <4>1. \A u \in 1 .. n + 1 : Aifsn[u] =< Aifsn[n + 1]
            BY <1>1, <2>2, <3>4, <3>5, <3>6, <3>8
      <4>2. QED BY <2>2, <3>6, <4>1
    <3>9. QED BY <1>1, <2>2, <3>5, <3>6, <3>7, <3>8
  <2>5. QED BY <2>2, <2>3, <2>4
<1>3. NTxops - 1 \in Nat /\ (NTxops - 1) + 1 = NTxops /\ NTxops \in Txops
      BY <1>1 DEF Txops
<1>4. Has(NTxops)
      BY <1>2, <1>3 DEF Without
<1>5. QED BY <1>4 DEF Txops

LEMMA OldestTime == Oldest \in Int /\ Oldest + Slot < now
<1> DEFINE t == CHOOSE x \in Txops : \A u \in Txops : Aifsn[u] =< Aifsn[x]
           slots == MaxDraw + 1 + Aifsn[t]
<1>1. t \in Txops
      BY LargestAifsn
<1>2. Aifsn[t] \in Nat
      BY <1>1, EdcaConstants
<1>3. slots \in Nat /\ slots >= 1
      BY <1>2, Constants
<1>4. Oldest = 0 - (Sifs + EifsNoDifs + slots * Slot)
      BY DEF Oldest
<1> HIDE DEF slots
<1>5. slots * Slot \in Nat /\ slots * Slot >= Slot
      BY <1>3, Constants
<1>6. QED BY <1>4, <1>5, Constants DEF now

(* What becomes of a time when an instant passes.                          *)
LEMMA TimePasses ==
  ASSUME NEW time \in Int, NEW later \in Int
  PROVE  /\ Older(time) \in Int /\ Older(time) >= time - 1
         /\ Forget(time, later) \in Int
         /\ time > now => Forget(time, later) = time - 1 /\ Older(time) = time - 1
         /\ time =< now => Forget(time, later) =< now /\ Older(time) =< now
         /\ time >= later => Forget(time, later) >= time - 1
  BY OldestTime, Constants DEF Older, Forget, now

LEMMA EventComes ==
  ASSUME NEW e \in Event, e # Never => e > now
  PROVE  /\ Nearer(e) \in Event
         /\ Nearer(e) = Never <=> e = Never
         /\ e # Never => Nearer(e) = e - 1
  BY DEF Nearer, Event, now, Never

LEMMA TickStep ==
  ASSUME IInv, Tick
  PROVE  Step(dev, phy, dev', phy')
<1> DEFINE last == LastEnd(dev)
           rxEnd == IF dev.rxOk THEN Forget(dev.rxEnd, last) ELSE Older(dev.rxEnd)
           start == [t \in Txops |-> Forget(dev.start[t], heard.busy + Sifs + Aifsn[t] * Slot)]
           earned == [t \in Txops |-> IF dev.earned[t] > 0 /\ SlotPasses(t)
                                      THEN dev.earned[t] - 1 ELSE dev.earned[t]]
<1>1. /\ dev \in Devices /\ phy \in Phys /\ DeviceInv(dev, phy)
      /\ last \in Int /\ last \in Ends(dev) /\ heard.busy \in Int
      BY LastEndIsLast DEF IInv, TypeOK
<1>2. /\ \A e \in {dev.timer, dev.due, dev.response, phy.rx, phy.reset} :
            e \in Event /\ (e # Never => e > now)
      BY <1>1 DEF Tick, Scheduled, Devices, Phys
<1>3. /\ \A t \in Txops : dev.start[t] \in Int /\ dev.earned[t] \in Nat
      /\ \A e \in Ends(dev) : e \in Int
      BY <1>1, LastEndIsLast DEF Devices
<1>4. start \in [Txops -> Int]
  <2>1. ASSUME NEW t \in Txops PROVE start[t] \in Int
    <3>1. heard.busy + Sifs + Aifsn[t] * Slot \in Int
          BY <1>1, Aifs, Constants
    <3>2. QED BY <1>3, <3>1, TimePasses
  <2>2. QED BY <2>1
<1>5. earned \in [Txops -> Nat]
      BY <1>3
<1>6. /\ rxEnd \in Int
      /\ dev.rxEnd > now => rxEnd = dev.rxEnd - 1
      /\ dev.rxEnd = last => rxEnd >= last - 1
  <2> HIDE DEF last
  <2>1. dev.rxEnd \in Int
        BY <1>3 DEF Ends
  <2>2. /\ Older(dev.rxEnd) \in Int /\ Older(dev.rxEnd) >= dev.rxEnd - 1
        /\ Forget(dev.rxEnd, last) \in Int
        /\ dev.rxEnd > now => /\ Forget(dev.rxEnd, last) = dev.rxEnd - 1
                              /\ Older(dev.rxEnd) = dev.rxEnd - 1
        /\ dev.rxEnd >= last => Forget(dev.rxEnd, last) >= dev.rxEnd - 1
        BY <1>1, <2>1, TimePasses
  <2> HIDE DEF rxEnd
  <2>3. rxEnd = Forget(dev.rxEnd, last) \/ rxEnd = Older(dev.rxEnd)
        BY DEF rxEnd
  <2>4. QED BY <1>1, <2>1, <2>2, <2>3
<1>7. dev' = [dev EXCEPT
           !.rxEnd = rxEnd,
           !.txEnd = Forget(@, last), !.busyEnd = Forget(@, last),
           !.navEnd = Forget(@, last), !.ackEnd = Forget(@, last),
           !.ctsEnd = Forget(@, last), !.switchEnd = Forget(@, last),
           !.start = start,
           !.timer = Nearer(@), !.due = Nearer(@), !.response = Nearer(@),
           !.earned = earned]
      BY DEF Tick
<1>8. /\ \A time \in Int : Forget(time, last) \in Int /\ Forget(time, now + 1) \in Int
      /\ \A e \in {dev.timer, dev.due, dev.response, phy.rx, phy.reset} : Nearer(e) \in Event
  <2>1. now + 1 \in Int
        BY DEF now
  <2>2. QED BY <1>1, <1>2, <2>1, TimePasses, EventComes
<1> HIDE DEF last, rxEnd, start, earned
<1>9. dev' \in Devices
      BY <1>1, <1>4, <1>5, <1>6, <1>7, <1>8 DEF Devices
<1>10. /\ dev'.rxEnd = rxEnd /\ dev'.rxOk = dev.rxOk
       /\ dev'.txEnd = Forget(dev.txEnd, last) /\ dev'.busyEnd = Forget(dev.busyEnd, last)
       /\ dev'.navEnd = Forget(dev.navEnd, last) /\ dev'.ackEnd = Forget(dev.ackEnd, last)
       /\ dev'.ctsEnd = Forget(dev.ctsEnd, last) /\ dev'.switchEnd = Forget(dev.switchEnd, last)
       /\ dev'.timer = Nearer(dev.timer) /\ dev'.due = Nearer(dev.due)
       /\ dev'.response = Nearer(dev.response)
       /\ dev'.owner = dev.owner /\ dev'.phase = dev.phase /\ dev'.held = dev.held
       /\ dev'.sleeping = dev.sleeping /\ Work(dev') = Work(dev)
      BY <1>1, <1>7 DEF Devices, Work
<1>11. /\ phy' \in Phys /\ phy'.rx = Nearer(phy.rx) /\ phy'.reset = Nearer(phy.reset)
       BY <1>1, <1>8 DEF Tick, Phys
<1>12. LastEnd(dev') >= last - 1
  <2>1. \A time \in Int : time = last => Forget(time, last) >= last - 1
        BY TimePasses
  <2>2. \E e \in Ends(dev') : e >= last - 1
        BY <1>1, <1>3, <1>6, <1>10, <2>1 DEF Ends
  <2>3. QED BY <1>1, <1>9, <2>2, LastEndIsLast
<1>13. ASSUME NEW time \in Int, Protected(dev, time) PROVE Protected(dev', time - 1)
       BY <1>1, <1>9, <1>12, <1>13, LastEndIsLast, Constants DEF Protected, last
<1>14. \A e \in {dev.timer, dev.due, dev.response, phy.rx, phy.reset} :
          /\ Nearer(e) = Never <=> e = Never
          /\ e # Never => e \in Nat /\ e > now /\ Nearer(e) = e - 1
       BY <1>2, EventComes, EventIs
<1>15. \A time \in Int : /\ time > now => Forget(time, last) = time - 1
                         /\ time =< now => Forget(time, last) =< now
       BY <1>1, TimePasses DEF now
<1>16. /\ dev.txEnd \in Int /\ dev.rxEnd \in Int /\ dev.ackEnd \in Int /\ dev.ctsEnd \in Int
       /\ dev.sleeping \in BOOLEAN
       BY <1>1 DEF Devices
<1>17. OwnerInv(dev')
       BY <1>1, <1>10, <1>14 DEF DeviceInv, OwnerInv, Underway, Work
<1>18. ReceptionInv(dev', phy')
       BY <1>1, <1>6, <1>10, <1>11, <1>14, <1>15, <1>16
          DEF DeviceInv, OwnerInv, ReceptionInv, ResponseInv, Underway, now
<1>19. ExchangeInv(dev')
  <2>1. dev.phase # "idle" => dev.due \in Nat /\ dev.due > now /\ dev'.due = dev.due - 1
        BY <1>1, <1>10, <1>14 DEF DeviceInv, OwnerInv
  <2>2. dev.phase = "noack" => dev'.due =< dev'.txEnd
        BY <1>1, <1>10, <1>15, <1>16, <2>1 DEF DeviceInv, ExchangeInv, now
  <2>3. /\ dev.due =< dev.rxEnd /\ dev.phase # "idle" => dev'.due =< dev'.rxEnd
        /\ dev.due =< dev.ackEnd /\ dev.phase # "idle" => dev'.due =< dev'.ackEnd
        /\ dev.due =< dev.ctsEnd /\ dev.phase # "idle" => dev'.due =< dev'.ctsEnd
        BY <1>6, <1>10, <1>15, <1>16, <2>1 DEF now
  <2>4. dev'.ackEnd \in Int /\ dev'.ctsEnd \in Int /\ dev'.rxEnd \in Int
        BY <1>9 DEF Devices
  <2>5. dev.phase = "ack" => dev'.due =< Later(dev'.ackEnd, dev'.rxEnd)
        BY <1>1, <1>16, <2>1, <2>3, <2>4 DEF DeviceInv, ExchangeInv, Later
  <2>6. dev.phase = "cts" => dev'.due =< Later(dev'.ctsEnd, dev'.rxEnd)
        BY <1>1, <1>16, <2>1, <2>3, <2>4 DEF DeviceInv, ExchangeInv, Later
  <2>7. dev.phase = "sifs" => /\ dev'.due =< Sifs /\ Protected(dev', dev'.due)
                              /\ dev'.txEnd =< now /\ dev'.response = Never
        BY <1>1, <1>10, <1>13, <1>14, <1>15, <1>16, <2>1, Constants
           DEF DeviceInv, ExchangeInv, now
  <2>8. QED BY <1>10, <2>2, <2>5, <2>6, <2>7 DEF ExchangeInv
<1>20. ResponseInv(dev')
  <2>1. dev.response # Never => ~ Underway(dev) /\ dev.response \in Nat
        BY <1>1, <1>14 DEF DeviceInv, OwnerInv, ResponseInv, now
  <2>2. QED BY <1>1, <1>10, <1>13, <1>14, <1>15, <1>16, <2>1, Constants
            DEF DeviceInv, ResponseInv, Underway, now
<1>21. SleepInv(dev', phy')
       BY <1>1, <1>10, <1>11, <1>14 DEF DeviceInv, SleepInv, Underway
<1>22. TimedDevice(dev) => TimedDevice(dev')
       BY <1>10, <1>14 DEF TimedDevice, Work
<1>23. WorkDevice(dev) => WorkDevice(dev')
       BY <1>10 DEF WorkDevice, Attended, HasFramesToTransmit, Work
<1>24. Uninterrupted(dev, phy, dev')
  <2>1. ~ (dev'.txEnd > Later(dev.txEnd, now))
    <3>1. dev.txEnd > now => dev'.txEnd = dev.txEnd - 1
          BY <1>10, <1>15, <1>16
    <3>2. dev.txEnd =< now => dev'.txEnd =< now
          BY <1>10, <1>15, <1>16
    <3>3. dev'.txEnd \in Int
          BY <1>9 DEF Devices
    <3>4. QED BY <1>16, <3>1, <3>2, <3>3 DEF Later, now
  <2>2. QED BY <1>10, <1>14, <2>1 DEF Uninterrupted
<1>25. QED BY <1>9, <1>11, <1>17, <1>18, <1>19, <1>20, <1>21, <1>22, <1>23, <1>24
           DEF Step, DeviceInv

-----------------------------------------------------------------------------
(* Packets, lifetimes, and the timer.                                      *)

LEMMA OpenChoices ==
  /\ \A t \in {Nobody} \cup Txops : DrawsOf[t] \subseteq Choices
  /\ \A d : Offers(d) \subseteq Choices
<1>1. \A t \in {Nobody} \cup Txops : DrawsOf[t] \subseteq Choices
      BY DEF DrawsOf
<1>2. ASSUME NEW d PROVE Offers(d) \subseteq Choices
      BY <1>1 DEF Offers
<1>3. QED BY <1>1, <1>2

LEMMA BackoffIsDrawn ==
  ASSUME NEW d \in Devices, NEW t \in Txops, NEW c \in Choices
  PROVE  LET e == BackoffUponAccess(d, t, c)
         IN  /\ e \in Devices /\ Intervals(e) = Intervals(d) /\ Exchange(e) = Exchange(d)
             /\ Work(e) = Work(d) /\ e.timer = d.timer
<1> DEFINE u == UpdateBackoff(d)
           from == now + (IF t \in Edca THEN 0 ELSE Sifs + Aifsn[t] * Slot)
           start == [u.start EXCEPT ![t] = from]
           e == BackoffUponAccess(d, t, c)
<1>1. /\ u \in Devices /\ Intervals(u) = Intervals(d) /\ Exchange(u) = Exchange(d)
      /\ Work(u) = Work(d) /\ u.timer = d.timer
      BY Updated
<1>2. from \in Int
      BY Aifs, Constants DEF now
<1>3. \/ e = d \/ e = u \/ e = GenerateBackoff(u, t, c)
      \/ e = [u EXCEPT !.start = start]
      BY DEF BackoffUponAccess
<1> HIDE DEF u, from
<1>4. start \in [Txops -> Int]
      BY <1>1, <1>2 DEF Devices
<1> HIDE DEF start, e
<1>5. CASE e = [u EXCEPT !.start = start]
      BY <1>1, <1>4, <1>5 DEF Devices, Intervals, Exchange, Work, e
<1>6. CASE e = GenerateBackoff(u, t, c)
      BY <1>1, <1>6, BackoffGenerated DEF e
<1>7. QED BY <1>1, <1>3, <1>5, <1>6 DEF e

(* A packet from above, with the backoff that is drawn for it.             *)
LEMMA PacketQueued ==
  ASSUME dev \in Devices, NEW t \in Txops, NEW b \in Choices
  PROVE  LET q == [BackoffUponAccess(dev, t, b) EXCEPT !.frames[t] = @ + 1]
         IN  /\ q \in Devices
             /\ Intervals(q) = Intervals(dev) /\ Exchange(q) = Exchange(dev)
             /\ q.requested = dev.requested /\ q.stranded = dev.stranded
             /\ q.timer = dev.timer
             /\ \A u \in Txops : q.frames[u] >= dev.frames[u]
             /\ \A u \in Txops \ {t} : q.frames[u] = dev.frames[u]
<1> DEFINE e == BackoffUponAccess(dev, t, b)
           frames == [e.frames EXCEPT ![t] = @ + 1]
           q == [e EXCEPT !.frames[t] = @ + 1]
<1>1. /\ e \in Devices /\ Intervals(e) = Intervals(dev) /\ Exchange(e) = Exchange(dev)
      /\ Work(e) = Work(dev) /\ e.timer = dev.timer
      BY BackoffIsDrawn
<1>2. q = [e EXCEPT !.frames = frames]
      OBVIOUS
<1>3. /\ frames \in [Txops -> Nat]
      /\ \A u \in Txops : frames[u] >= e.frames[u]
      /\ \A u \in Txops \ {t} : frames[u] = e.frames[u]
      BY <1>1 DEF Devices
<1> HIDE DEF e, frames
<1>4. /\ [e EXCEPT !.frames = frames] \in Devices
      /\ Intervals([e EXCEPT !.frames = frames]) = Intervals(dev)
      /\ Exchange([e EXCEPT !.frames = frames]) = Exchange(dev)
      /\ [e EXCEPT !.frames = frames].requested = dev.requested
      /\ [e EXCEPT !.frames = frames].stranded = dev.stranded
      /\ [e EXCEPT !.frames = frames].timer = dev.timer
      /\ [e EXCEPT !.frames = frames].frames = frames
      BY <1>1, <1>3 DEF Devices, Intervals, Exchange, Work
<1>5. \A u \in Txops : e.frames[u] = dev.frames[u]
      BY <1>1 DEF Work
<1>6. QED BY <1>2, <1>3, <1>4, <1>5 DEF e

LEMMA QueueStep ==
  ASSUME IInv, NEW t \in Txops, Queue(t)
  PROVE  Step(dev, phy, dev', phy')
<1> DEFINE queued(b) == [BackoffUponAccess(dev, t, b) EXCEPT !.frames[t] = @ + 1]
<1>1. dev \in Devices /\ phy \in Phys /\ DeviceInv(dev, phy)
      BY DEF IInv, TypeOK
<1>2. ASSUME NEW b \in Choices
      PROVE  /\ queued(b) \in Devices
             /\ Intervals(queued(b)) = Intervals(dev) /\ Exchange(queued(b)) = Exchange(dev)
             /\ queued(b).requested = dev.requested /\ queued(b).stranded = dev.stranded
             /\ queued(b).timer = dev.timer
             /\ \A u \in Txops : queued(b).frames[u] >= dev.frames[u]
             /\ \A u \in Txops \ {t} : queued(b).frames[u] = dev.frames[u]
      BY <1>1, PacketQueued
<1> HIDE DEF queued
<1>3. ASSUME NEW b \in Choices
      PROVE  /\ DeviceInv(queued(b), phy) /\ Undisturbed(dev, queued(b))
             /\ queued(b).sleeping = dev.sleeping
             /\ TimedDevice(dev) => TimedDevice(queued(b))
             /\ \A u \in Txops \ {t} : Attended(dev, u) => Attended(queued(b), u)
  <2>1. Underway(dev) => queued(b).frames[dev.owner] > 0
    <3>1. Underway(dev) => dev.owner \in Txops /\ dev.frames[dev.owner] > 0
          BY <1>1 DEF Underway, Devices, DeviceInv, OwnerInv
    <3>2. \A u \in Txops : dev.frames[u] \in Nat /\ queued(b).frames[u] \in Nat
          BY <1>1, <1>2 DEF Devices
    <3>3. QED BY <1>2, <3>1, <3>2
  <2>2. DeviceInv(queued(b), phy) /\ Undisturbed(dev, queued(b))
        BY <1>1, <1>2, <2>1, AlikeInv
  <2>3. /\ queued(b).owner = dev.owner /\ queued(b).held = dev.held
        /\ queued(b).sleeping = dev.sleeping
        BY <1>2 DEF Intervals, Exchange
  <2>4. TimedDevice(dev) => TimedDevice(queued(b))
        BY <1>2, <2>3 DEF TimedDevice
  <2>5. \A u \in Txops \ {t} : Attended(dev, u) => Attended(queued(b), u)
        BY <1>2, <2>3 DEF Attended, HasFramesToTransmit
  <2>6. QED BY <2>2, <2>3, <2>4, <2>5
<1>4. DrawsOf[t] \subseteq Choices
      BY OpenChoices
<1>5. phy' = phy
      BY DEF Queue
<1>6. ASSUME NEW c \in Choices, dev' = queued(c),
             ~ (~ (dev.owner = t /\ dev.held) /\ ~ dev.requested[t]) \/ dev.sleeping
      PROVE  Step(dev, phy, dev', phy')
  <2>1. Uninterrupted(dev, phy, dev')
        BY <1>1, <1>2, <1>3, <1>6, UndisturbedStep
  <2>2. Attended(queued(c), t)
        BY <1>2, <1>3, <1>6 DEF Attended, Exchange
  <2>3. WorkDevice(dev) => WorkDevice(dev')
        BY <1>3, <1>6, <2>2 DEF WorkDevice
  <2>4. QED BY <1>1, <1>2, <1>3, <1>5, <1>6, <2>1, <2>3 DEF Step
<1>7. ASSUME NEW b \in Choices, NEW c \in Choices, dev' = RequestAccess(queued(b), t, c),
             ~ dev.sleeping
      PROVE  Step(dev, phy, dev', phy')
  <2> DEFINE q == queued(b)
             g == RequestAccess(q, t, c)
  <2>1. /\ q \in Devices /\ DeviceInv(q, phy) /\ Undisturbed(dev, q) /\ ~ q.sleeping
        /\ Intervals(q) = Intervals(dev) /\ Exchange(q) = Exchange(dev)
        BY <1>2, <1>3, <1>7
  <2> HIDE DEF q
  <2>2. Outcome(q, g) /\ Timed(g) /\ Keeps(q, g) /\ CaredFor(g, t)
        BY <2>1, AccessIsRequested
  <2> HIDE DEF g
  <2>3. g \in Devices /\ DeviceInv(g, phy) /\ Undisturbed(q, g)
        BY <1>1, <2>1, <2>2, OutcomeIsUndisturbed DEF Outcome
  <2>4. Undisturbed(dev, g)
        BY <2>1, <2>3 DEF Undisturbed, Intervals, Exchange, Underway
  <2>5. Uninterrupted(dev, phy, g)
        BY <1>1, <2>3, <2>4, UndisturbedStep
  <2>6. TimedDevice(g)
        BY <2>2 DEF Timed, TimedDevice
  <2>7. Attended(g, t)
        BY <1>1, <2>1, <2>2, OutcomeIsAttended
  <2>8. ASSUME NEW u \in Txops, u # t, Attended(dev, u) PROVE Attended(g, u)
    <3>1. Attended(q, u)
          BY <1>3, <2>8 DEF q
    <3>2. QED BY <1>1, <2>1, <2>2, <3>1, OutcomeIsAttended
  <2>9. WorkDevice(dev) => WorkDevice(g)
        BY <2>7, <2>8 DEF WorkDevice
  <2>10. dev' = g
        BY <1>7 DEF g, q
  <2>11. QED BY <1>1, <1>5, <2>3, <2>5, <2>6, <2>9, <2>10 DEF Step
<1>8. ASSUME dev.sleeping, NEW b \in Choices, NEW c \in Choices,
             dev' = RequestAccess(queued(b), t, c)
      PROVE  Step(dev, phy, dev', phy')
      BY <1>3, <1>6, <1>8 DEF RequestAccess
<1>9. \A b : Offers(AccessRequested(queued(b), t)) \subseteq Choices
      BY OpenChoices
<1>10. QED BY <1>4, <1>6, <1>7, <1>8, <1>9 DEF Queue, Becomes, queued

LEMMA ExpireStep ==
  ASSUME IInv, NEW t \in Txops, Expire(t)
  PROVE  Step(dev, phy, dev', phy')
<1> DEFINE frames == [dev.frames EXCEPT ![t] = @ - 1]
<1>1. /\ dev \in Devices /\ phy \in Phys /\ DeviceInv(dev, phy) /\ phy' = phy
      /\ dev.frames \in [Txops -> Nat]
      BY DEF IInv, TypeOK, Expire, Devices
<1>2. dev.frames[t] > (IF dev.owner = t THEN 1 ELSE 0)
      BY DEF Expire
<1>3. /\ frames \in [Txops -> Nat]
      /\ \A u \in Txops : frames[u] =< dev.frames[u]
      /\ Underway(dev) => frames[dev.owner] > 0
      BY <1>1, <1>2 DEF DeviceInv, OwnerInv, Underway, Devices
<1>4. dev' = [dev EXCEPT !.frames = frames]
      BY DEF Expire, Becomes
<1> HIDE DEF frames
<1>5. /\ dev' \in Devices /\ Intervals(dev') = Intervals(dev) /\ Exchange(dev') = Exchange(dev)
      /\ dev'.frames = frames /\ dev'.requested = dev.requested
      /\ dev'.stranded = dev.stranded /\ dev'.timer = dev.timer
      /\ dev'.owner = dev.owner /\ dev'.held = dev.held /\ dev'.sleeping = dev.sleeping
      BY <1>1, <1>3, <1>4 DEF Devices, Intervals, Exchange
<1>6. DeviceInv(dev', phy) /\ Undisturbed(dev, dev')
      BY <1>1, <1>3, <1>5, AlikeInv
<1>7. TimedDevice(dev) => TimedDevice(dev')
      BY <1>5 DEF TimedDevice
<1>8. WorkDevice(dev) => WorkDevice(dev')
      BY <1>1, <1>3, <1>5 DEF WorkDevice, Attended, HasFramesToTransmit
<1>9. QED BY <1>1, <1>5, <1>6, <1>7, <1>8, UndisturbedStep DEF Step

LEMMA AccessTimeoutStep ==
  ASSUME IInv, AccessTimeout
  PROVE  Step(dev, phy, dev', phy')
<1> DEFINE stopped == [dev EXCEPT !.timer = Never]
           d == UpdateBackoff(stopped)
<1>1. dev \in Devices /\ phy \in Phys /\ DeviceInv(dev, phy) /\ phy' = phy /\ ~ dev.sleeping
      BY DEF IInv, TypeOK, AccessTimeout, DeviceInv, SleepInv, now, Never
<1>2. PICK c \in Offers(d) : dev' = DoRestartAccessTimeoutIfNeeded(DoGrantDcfAccess(d, c))
      BY DEF AccessTimeout, Becomes
<1>3. c \in Choices
      BY OpenChoices
<1>4. /\ stopped \in Devices /\ Intervals(stopped) = Intervals(dev)
      /\ Exchange(stopped) = Exchange(dev) /\ Work(stopped) = Work(dev)
      BY <1>1 DEF Devices, Event, Intervals, Exchange, Work
<1> HIDE DEF stopped
<1>5. /\ d \in Devices /\ Intervals(d) = Intervals(dev)
      /\ Exchange(d) = Exchange(dev) /\ Work(d) = Work(dev)
      BY <1>4, Updated
<1> HIDE DEF d
<1>6. Outcome(d, dev') /\ Timed(dev') /\ Keeps(d, dev')
      BY <1>2, <1>3, <1>5, GrantedAndTimed
<1>7. /\ d.sleeping = dev.sleeping /\ d.switchEnd = dev.switchEnd /\ d.busyEnd = dev.busyEnd
      /\ d.frames = dev.frames /\ d.requested = dev.requested /\ d.stranded = dev.stranded
      BY <1>5 DEF Intervals, Work
<1>8. Outcome(dev, dev') /\ Keeps(dev, dev')
      BY <1>5, <1>6, <1>7, SameProtected DEF Outcome, Keeps, Quiet, Begins
<1>9. QED BY <1>1, <1>6, <1>8, OutcomeStep

-----------------------------------------------------------------------------
(* Receptions.                                                             *)

LEMMA ProtectedFor ==
  ASSUME NEW d \in Devices, NEW e \in Ends(d), e >= now, NEW time \in Int, time =< Sifs
  PROVE  Protected(d, time)
  BY ProtectedWhile, LastEndIsLast, Constants DEF now

LEMMA SameWork ==
  ASSUME NEW d, NEW e, Work(e) = Work(d), e.owner = d.owner, e.held = d.held,
         e.sleeping = d.sleeping, d.timer # Never => e.timer # Never
  PROVE  /\ TimedDevice(d) => TimedDevice(e)
         /\ WorkDevice(d) => WorkDevice(e)
  BY DEF TimedDevice, WorkDevice, Attended, HasFramesToTransmit, Work

LEMMA RxStartStep ==
  ASSUME IInv, NEW d \in RxTimes, RxStart(d)
  PROVE  Step(dev, phy, dev', phy')
<1> DEFINE u == UpdateBackoff(dev)
           started == [u EXCEPT !.rxEnd = now + d, !.rxOk = TRUE]
           acked == [started EXCEPT !.due = now + d, !.ackEnd = now]
           cleared == [started EXCEPT !.due = now + d, !.ctsEnd = now]
<1>1. /\ dev \in Devices /\ phy \in Phys /\ DeviceInv(dev, phy)
      /\ ~ dev.sleeping /\ dev.txEnd =< now
      BY DEF IInv, TypeOK, RxStart, Hears, Transmits, Devices, now
<1>2. now + d \in Nat /\ now + d > now /\ now + d > Sifs
      BY FramesAreLong, EdcaConstants DEF now
<1>3. /\ u \in Devices /\ Intervals(u) = Intervals(dev) /\ Exchange(u) = Exchange(dev)
      /\ Work(u) = Work(dev) /\ u.timer = dev.timer
      BY <1>1, Updated
<1>4. phy' \in Phys /\ phy'.rx = now + d
      BY <1>1, <1>2 DEF RxStart, Phys, Event
<1>5. /\ ~ Awaits => dev' = started
      /\ Awaits /\ dev.phase = "ack" => dev' = DoRestartAccessTimeoutIfNeeded(acked)
      /\ Awaits /\ dev.phase # "ack" => dev' = DoRestartAccessTimeoutIfNeeded(cleared)
      BY DEF RxStart, Becomes
<1> HIDE DEF u
<1>6. /\ started \in Devices /\ acked \in Devices /\ cleared \in Devices
  <2>1. now \in Int /\ now + d \in Int /\ now + d \in Event
        BY <1>2 DEF now, Event
  <2>2. started \in Devices
        BY <1>3, <2>1 DEF Devices
  <2> HIDE DEF started
  <2>3. QED BY <2>1, <2>2 DEF Devices
<1>7. /\ Exchange(started) = Exchange(dev) /\ Work(started) = Work(dev)
      /\ started.timer = dev.timer /\ started.rxOk /\ started.rxEnd = now + d
      /\ started.txEnd = dev.txEnd /\ started.ackEnd = dev.ackEnd
      /\ started.ctsEnd = dev.ctsEnd /\ started.sleeping = dev.sleeping
      /\ started.switchEnd = dev.switchEnd
      BY <1>3 DEF Intervals, Exchange, Work, Devices
<1>8. ASSUME NEW e \in Devices,
             e = started \/ (Awaits /\ dev.phase = "ack" /\ e = acked)
                         \/ (Awaits /\ dev.phase # "ack" /\ e = cleared)
      PROVE  /\ Work(e) = Work(dev) /\ e.timer = dev.timer /\ e.rxOk
             /\ e.rxEnd = now + d /\ e.txEnd = dev.txEnd /\ e.sleeping = dev.sleeping
             /\ e.owner = dev.owner /\ e.held = dev.held
             /\ e.phase = dev.phase /\ e.response = dev.response
             /\ e.ackEnd \in Int /\ e.ctsEnd \in Int
             /\ e = started => e.due = dev.due /\ e.ackEnd = dev.ackEnd /\ e.ctsEnd = dev.ctsEnd
             /\ e = acked \/ e = cleared => e.due = now + d
  <2>1. started \in Devices
        BY <1>6
  <2> HIDE DEF started
  <2>2. e = started \/ e = acked \/ e = cleared
        BY <1>8
  <2>3. /\ Work(e) = Work(started) /\ e.timer = started.timer /\ e.rxOk = started.rxOk
        /\ e.rxEnd = started.rxEnd /\ e.txEnd = started.txEnd /\ e.sleeping = started.sleeping
        /\ e.owner = started.owner /\ e.held = started.held
        /\ e.phase = started.phase /\ e.response = started.response
    <3>1. CASE e = started
          BY <3>1
    <3>2. CASE e = acked
          BY <2>1, <3>2 DEF Devices, Work
    <3>3. CASE e = cleared
          BY <2>1, <3>3 DEF Devices, Work
    <3>4. QED BY <2>2, <3>1, <3>2, <3>3
  <2>4. e.ackEnd \in Int /\ e.ctsEnd \in Int
        BY <1>8 DEF Devices
  <2>5. e = acked \/ e = cleared => e.due = now + d
        BY <2>1 DEF Devices
  <2>6. QED BY <1>7, <2>3, <2>4, <2>5 DEF Exchange
<1>9. /\ dev.due \in Event /\ dev.response \in Event
      /\ dev.phase \in {"idle", "noack", "ack", "cts", "sifs"}
      BY <1>1 DEF Devices
<1>10. Underway(dev) => dev.due \in Nat /\ dev.due >= now /\ dev.phase # "idle"
       BY <1>1, <1>9, EventIs DEF DeviceInv, OwnerInv
<1>11. Awaits => Underway(dev) /\ dev.response = Never
       BY <1>1, <1>10 DEF Awaits, DeviceInv, OwnerInv, ResponseInv, Underway, now
<1>12. Underway(dev) /\ ~ Awaits => dev.due =< now \/ dev.phase = "sifs"
       BY <1>1, <1>9, <1>10 DEF Awaits, DeviceInv, ExchangeInv, now, Devices
<1> HIDE DEF started, acked, cleared
<1>13. ASSUME NEW e \in Devices,
              (~ Awaits /\ e = started) \/ (Awaits /\ dev.phase = "ack" /\ e = acked)
                         \/ (Awaits /\ dev.phase # "ack" /\ e = cleared)
       PROVE  DeviceInv(e, phy') /\ Undisturbed(dev, e)
  <2>1. /\ Work(e) = Work(dev) /\ e.timer = dev.timer /\ e.rxOk
        /\ e.rxEnd = now + d /\ e.txEnd = dev.txEnd /\ e.sleeping = dev.sleeping
        /\ e.owner = dev.owner /\ e.held = dev.held
        /\ e.phase = dev.phase /\ e.response = dev.response
        /\ e.ackEnd \in Int /\ e.ctsEnd \in Int
        /\ e = started => e.due = dev.due /\ e.ackEnd = dev.ackEnd /\ e.ctsEnd = dev.ctsEnd
        /\ e = acked \/ e = cleared => e.due = now + d
        BY <1>8, <1>13
  <2>2. (e.due = dev.due /\ ~ Awaits) \/ (e.due = now + d /\ Awaits)
        BY <1>13, <2>1
  <2>3. OwnerInv(e)
        BY <1>1, <1>2, <2>1, <2>2 DEF DeviceInv, OwnerInv, Underway, Work, Never, now
  <2>4. Underway(dev) => e.due =< now + d /\ (e.phase = "sifs" => e.due < now + d)
    <3>1. dev.phase = "sifs" => dev.due =< Sifs
          BY <1>1 DEF DeviceInv, ExchangeInv
    <3>2. Awaits => dev.phase # "sifs"
          BY DEF Awaits
    <3>3. QED BY <1>2, <1>10, <1>12, <2>1, <2>2, <3>1, <3>2, Constants DEF now
  <2>5. ReceptionInv(e, phy')
        BY <1>1, <1>2, <1>4, <2>1, <2>3, <2>4 DEF ReceptionInv, OwnerInv, Underway
  <2>6. \A time \in Int : time =< Sifs => Protected(e, time)
    <3>1. e.rxEnd \in Ends(e)
          BY DEF Ends
    <3>2. QED BY <1>2, <2>1, <3>1, ProtectedFor DEF now
  <2>7. ExchangeInv(e)
    <3>1. e.phase = "noack" => e.due =< e.txEnd
          BY <1>1, <2>1, <2>2 DEF DeviceInv, ExchangeInv, Awaits
    <3>2. e.phase # "idle" => e.due =< e.rxEnd
          BY <1>1, <2>1, <2>4 DEF DeviceInv, OwnerInv
    <3>3. e.phase # "idle" => e.due \in Nat
          BY <1>1, <1>2, <1>10, <2>1, <2>2 DEF DeviceInv, OwnerInv
    <3>4. e.phase = "sifs" => e.due =< Sifs /\ e.txEnd =< now /\ e.response = Never
          BY <1>1, <2>1, <2>2 DEF DeviceInv, ExchangeInv, Awaits
    <3>5. QED BY <1>2, <2>1, <2>6, <3>1, <3>2, <3>3, <3>4 DEF ExchangeInv, Later
  <2>8. ResponseInv(e)
    <3>1. e.response # Never => e.response \in Int /\ e.response =< Sifs /\ e.due = dev.due
          BY <1>1, <1>9, <1>11, <2>1, <2>2, EventIs DEF DeviceInv, ResponseInv
    <3>2. QED BY <1>1, <2>1, <2>6, <3>1 DEF DeviceInv, ResponseInv, Underway
  <2>9. QED BY <1>1, <2>1, <2>3, <2>5, <2>7, <2>8 DEF DeviceInv, SleepInv, Undisturbed
<1>14. PICK e \in Devices :
         /\ (~ Awaits /\ e = started) \/ (Awaits /\ dev.phase = "ack" /\ e = acked)
                         \/ (Awaits /\ dev.phase # "ack" /\ e = cleared)
         /\ dev' = e \/ dev' = DoRestartAccessTimeoutIfNeeded(e)
       BY <1>5, <1>6
<1>15. /\ DeviceInv(e, phy') /\ Undisturbed(dev, e)
       /\ Work(e) = Work(dev) /\ e.timer = dev.timer /\ e.sleeping = dev.sleeping
       /\ e.owner = dev.owner /\ e.held = dev.held
       BY <1>8, <1>13, <1>14
<1>16. /\ dev' \in Devices /\ Intervals(dev') = Intervals(e) /\ Exchange(dev') = Exchange(e)
       /\ Work(dev') = Work(e) /\ (e.timer # Never => dev'.timer # Never)
       BY <1>14, Restarted
<1>17. /\ dev'.frames = e.frames /\ dev'.owner = dev.owner /\ dev'.held = dev.held
       /\ dev'.sleeping = dev.sleeping /\ ~ e.sleeping
       BY <1>1, <1>15, <1>16 DEF Work, Exchange, Intervals
<1>18. DeviceInv(dev', phy')
       BY <1>15, <1>16, <1>17, AlikeInv DEF DeviceInv, OwnerInv
<1>19. Undisturbed(dev, dev')
       BY <1>15, <1>16 DEF Undisturbed, Intervals, Exchange
<1>20. QED BY <1>1, <1>4, <1>15, <1>16, <1>17, <1>18, <1>19, SameWork, UndisturbedStep DEF Step

(* What is known when a reception ends.                                    *)
LEMMA ReceptionEnds ==
  ASSUME IInv, RxEnds
  PROVE  /\ dev \in Devices /\ phy \in Phys /\ DeviceInv(dev, phy)
         /\ ~ dev.sleeping /\ dev.rxEnd = now /\ dev.rxOk /\ dev.txEnd =< now
         /\ dev.phase # "sifs"
         /\ Underway(dev) => dev.due = now /\ dev.response = Never
         /\ \A q : q.rx = Never => DeviceInv(dev, q)
<1>1. /\ dev \in Devices /\ phy \in Phys /\ DeviceInv(dev, phy)
      /\ phy.rx = now /\ phy.rx # Never /\ dev.due \in Event
      BY DEF IInv, TypeOK, RxEnds, now, Never, Devices
<1>2. /\ dev.rxEnd = now /\ dev.rxOk /\ dev.txEnd =< now /\ ~ dev.sleeping
      /\ Underway(dev) => dev.due =< now /\ dev.due # Never /\ dev.response = Never
      /\ dev.phase = "sifs" => Underway(dev) /\ dev.due < now
      BY <1>1 DEF DeviceInv, ReceptionInv, SleepInv, OwnerInv, now
<1>3. Underway(dev) => dev.due = now
      BY <1>1, <1>2, EventIs DEF now
<1>4. \A q : q.rx = Never => DeviceInv(dev, q)
      BY <1>1, <1>2 DEF DeviceInv, ReceptionInv, SleepInv
<1>5. QED BY <1>1, <1>2, <1>3, <1>4 DEF now

LEMMA RxEndErrorStep ==
  ASSUME IInv, RxEndError
  PROVE  Step(dev, phy, dev', phy')
<1>1. /\ RxEnds /\ dev' = [dev EXCEPT !.rxEnd = now, !.rxOk = FALSE]
      /\ phy' = [phy EXCEPT !.rx = Never]
      BY DEF RxEndError
<1>2. /\ dev \in Devices /\ phy \in Phys /\ DeviceInv(dev, phy)
      /\ ~ dev.sleeping /\ dev.rxEnd = now
      /\ \A q : q.rx = Never => DeviceInv(dev, q)
      BY <1>1, ReceptionEnds
<1>3. /\ phy' \in Phys /\ phy'.rx = Never
      BY <1>1, <1>2 DEF Phys, Event
<1>4. /\ dev' \in Devices /\ dev'.rxEnd = dev.rxEnd /\ dev'.txEnd = dev.txEnd
      /\ dev'.ackEnd = dev.ackEnd /\ dev'.ctsEnd = dev.ctsEnd /\ Ends(dev') = Ends(dev)
      /\ Exchange(dev') = Exchange(dev) /\ Work(dev') = Work(dev)
      /\ dev'.timer = dev.timer /\ dev'.sleeping = dev.sleeping
      BY <1>1, <1>2 DEF Devices, Ends, Exchange, Work, now
<1>5. LastEnd(dev') = LastEnd(dev)
      BY <1>4 DEF LastEnd, Ends
<1>6. /\ dev'.owner = dev.owner /\ dev'.phase = dev.phase /\ dev'.due = dev.due
      /\ dev'.held = dev.held /\ dev'.response = dev.response
      /\ dev'.frames = dev.frames /\ dev'.requested = dev.requested
      /\ dev'.stranded = dev.stranded
      BY <1>4 DEF Exchange, Work
<1>7. OwnerInv(dev')
      BY <1>2, <1>6 DEF DeviceInv, OwnerInv, Underway
<1>8. ExchangeInv(dev')
      BY <1>2, <1>4, <1>5, <1>6 DEF DeviceInv, ExchangeInv, Protected
<1>9. ResponseInv(dev')
      BY <1>2, <1>4, <1>5, <1>6 DEF DeviceInv, ResponseInv, Protected, Underway
<1>10. DeviceInv(dev', phy')
      BY <1>2, <1>3, <1>4, <1>7, <1>8, <1>9 DEF DeviceInv, ReceptionInv, SleepInv
<1>11. Undisturbed(dev, dev')
      BY <1>4, <1>6 DEF Undisturbed
<1>12. QED BY <1>2, <1>3, <1>4, <1>6, <1>10, <1>11, SameWork, UndisturbedStep DEF Step

(* An interval of the manager is changed, and nothing else but backoffs.   *)
LEMMA IntervalStep ==
  ASSUME NEW d \in Devices, NEW p \in Phys, NEW e \in Devices, NEW q \in Phys,
         DeviceInv(d, q), ~ d.sleeping,
         Exchange(e) = Exchange(d), Work(e) = Work(d),
         d.timer # Never => e.timer # Never,
         e.rxEnd = d.rxEnd, e.rxOk = d.rxOk, e.txEnd = d.txEnd, e.sleeping = d.sleeping,
         d.phase = "ack" => d.due =< Later(e.ackEnd, e.rxEnd),
         d.phase = "cts" => d.due =< Later(e.ctsEnd, e.rxEnd),
         NEW end \in Ends(e), end >= now
  PROVE  Step(d, p, e, q)
<1>1. \A time \in Int : time =< Sifs => Protected(e, time)
      BY ProtectedFor
<1>2. /\ e.owner = d.owner /\ e.phase = d.phase /\ e.due = d.due
      /\ e.held = d.held /\ e.response = d.response
      /\ e.frames = d.frames /\ e.requested = d.requested /\ e.stranded = d.stranded
      /\ d.due \in Int /\ d.response \in Int
      BY DEF Exchange, Work, Devices, Event, Never
<1>3. OwnerInv(e)
      BY <1>2 DEF DeviceInv, OwnerInv, Underway
<1>4. ReceptionInv(e, q)
      BY <1>2 DEF DeviceInv, ReceptionInv, Underway
<1>5. ExchangeInv(e)
      BY <1>1, <1>2 DEF DeviceInv, ExchangeInv
<1>6. ResponseInv(e)
      BY <1>1, <1>2 DEF DeviceInv, ResponseInv, Underway
<1>7. DeviceInv(e, q)
      BY <1>3, <1>4, <1>5, <1>6 DEF DeviceInv, SleepInv
<1>8. Undisturbed(d, e)
      BY <1>2 DEF Undisturbed
<1>9. QED BY <1>2, <1>7, <1>8, SameWork, UndisturbedStep DEF Step

LEMMA ReceiveAckStep ==
  ASSUME IInv, NEW n \in 0 .. MaxFrames, NEW c \in Choices, ReceiveAck(n, c)
  PROVE  Step(dev, phy, dev', phy')
<1> DEFINE reset == [dev EXCEPT !.ackEnd = now]
           d == DoRestartAccessTimeoutIfNeeded(reset)
           g == ExchangeEnds(d, n, c)
<1>1. /\ RxEnds /\ dev.phase = "ack" /\ dev' = g /\ phy' = [phy EXCEPT !.rx = Never]
      /\ phy.rx = now
      BY DEF ReceiveAck, Becomes, RxEnds
<1>2. /\ dev \in Devices /\ phy \in Phys /\ DeviceInv(dev, phy)
      /\ ~ dev.sleeping /\ dev.rxEnd = now
      /\ Underway(dev) => dev.due = now
      /\ \A q : q.rx = Never => DeviceInv(dev, q)
      BY <1>1, ReceptionEnds
<1>3. Underway(dev)
      BY <1>1, <1>2 DEF DeviceInv, OwnerInv
<1>4. phy' \in Phys /\ phy'.rx = Never
      BY <1>1, <1>2 DEF Phys, Event
<1>5. /\ reset \in Devices /\ Exchange(reset) = Exchange(dev) /\ Work(reset) = Work(dev)
      /\ reset.timer = dev.timer /\ reset.rxEnd = dev.rxEnd /\ reset.rxOk = dev.rxOk
      /\ reset.txEnd = dev.txEnd /\ reset.sleeping = dev.sleeping
      /\ reset.ctsEnd = dev.ctsEnd /\ reset.ackEnd = now
      BY <1>2 DEF Devices, Exchange, Work, now
<1> HIDE DEF reset
<1>6. /\ d \in Devices /\ Exchange(d) = Exchange(dev) /\ Work(d) = Work(dev)
      /\ (dev.timer # Never => d.timer # Never) /\ Intervals(d) = Intervals(reset)
      BY <1>5, Restarted
<1> HIDE DEF d
<1>7. /\ d.rxEnd = dev.rxEnd /\ d.rxOk = dev.rxOk /\ d.txEnd = dev.txEnd
      /\ d.sleeping = dev.sleeping /\ d.ctsEnd = dev.ctsEnd /\ d.ackEnd = now
      BY <1>5, <1>6 DEF Intervals
<1>8. now \in Ends(d) /\ now >= now /\ dev.due =< Later(d.ackEnd, d.rxEnd)
      BY <1>2, <1>3, <1>7 DEF Ends, now, Later
<1>9. Step(dev, phy, d, phy')
      BY <1>1, <1>2, <1>4, <1>6, <1>7, <1>8, IntervalStep
<1>10. Underway(d) /\ ~ d.sleeping /\ d.response = dev.response
      BY <1>2, <1>3, <1>6, <1>7 DEF Exchange, Underway
<1>11. n \in Nat
      BY Constants
<1> HIDE DEF g
<1>12. /\ g \in Devices /\ DeviceInv(g, phy') /\ ~ Underway(g)
       /\ Intervals(g) = Intervals(d) /\ g.response = d.response
       /\ TimedDevice(d) => TimedDevice(g)
       /\ WorkDevice(d) => WorkDevice(g)
       BY <1>4, <1>6, <1>9, <1>10, <1>11, ExchangeEnded DEF Step, g
<1>13. g.txEnd = dev.txEnd
       BY <1>7, <1>12 DEF Intervals
<1>14. Uninterrupted(dev, phy, g)
       BY <1>1, <1>2, <1>10, <1>12, <1>13 DEF Uninterrupted, Later, Devices, now
<1>15. QED BY <1>1, <1>4, <1>9, <1>12, <1>14 DEF Step

LEMMA ReceiveCtsStep ==
  ASSUME IInv, ReceiveCts
  PROVE  Step(dev, phy, dev', phy')
<1> DEFINE reset == [dev EXCEPT !.ctsEnd = now]
           d == DoRestartAccessTimeoutIfNeeded(reset)
<1>1. /\ RxEnds /\ dev.phase = "cts" /\ dev' = [d EXCEPT !.phase = "sifs", !.due = now + Sifs]
      /\ phy' = [phy EXCEPT !.rx = Never]
      BY DEF ReceiveCts, Becomes
<1>2. /\ dev \in Devices /\ phy \in Phys /\ DeviceInv(dev, phy)
      /\ ~ dev.sleeping /\ dev.rxEnd = now /\ dev.txEnd =< now
      /\ Underway(dev) => dev.response = Never
      BY <1>1, ReceptionEnds
<1>3. Underway(dev) /\ dev.response = Never
      BY <1>1, <1>2 DEF DeviceInv, OwnerInv
<1>4. phy' \in Phys /\ phy'.rx = Never
      BY <1>1, <1>2 DEF Phys, Event
<1>5. /\ reset \in Devices /\ Exchange(reset) = Exchange(dev) /\ Work(reset) = Work(dev)
      /\ reset.timer = dev.timer /\ reset.rxEnd = dev.rxEnd
      /\ reset.txEnd = dev.txEnd /\ reset.sleeping = dev.sleeping
      BY <1>2 DEF Devices, Exchange, Work, now
<1> HIDE DEF reset
<1>6. /\ d \in Devices /\ Exchange(d) = Exchange(dev) /\ Work(d) = Work(dev)
      /\ (dev.timer # Never => d.timer # Never) /\ Intervals(d) = Intervals(reset)
      BY <1>5, Restarted
<1> HIDE DEF d
<1>7. now + Sifs \in Event /\ now + Sifs = Sifs
      BY Constants DEF Event, now
<1>8. /\ dev' \in Devices /\ Work(dev') = Work(dev) /\ (dev.timer # Never => dev'.timer # Never)
      /\ dev'.phase = "sifs" /\ dev'.due = now + Sifs
      /\ dev'.owner = dev.owner /\ dev'.held = dev.held /\ dev'.response = Never
      /\ Intervals(dev') = Intervals(reset)
      BY <1>1, <1>3, <1>6, <1>7 DEF Devices, Work, Exchange, Intervals
<1>9. /\ dev'.rxEnd = now /\ dev'.txEnd = dev.txEnd /\ dev'.sleeping = dev.sleeping
      BY <1>2, <1>5, <1>8 DEF Intervals
<1>10. Protected(dev', dev'.due)
  <2>1. dev'.rxEnd \in Ends(dev')
        BY DEF Ends
  <2>2. QED BY <1>7, <1>8, <1>9, <2>1, ProtectedFor, Constants DEF now
<1>11. OwnerInv(dev')
       BY <1>2, <1>3, <1>7, <1>8, Constants DEF DeviceInv, OwnerInv, Underway, Work, Never, now
<1>12. ExchangeInv(dev')
       BY <1>2, <1>7, <1>8, <1>9, <1>10, Constants DEF ExchangeInv, now
<1>13. DeviceInv(dev', phy')
       BY <1>2, <1>4, <1>8, <1>9, <1>11, <1>12 DEF DeviceInv, ReceptionInv, ResponseInv, SleepInv
<1>14. Undisturbed(dev, dev')
       BY <1>3, <1>8, <1>9 DEF Undisturbed
<1>15. QED BY <1>2, <1>4, <1>8, <1>9, <1>13, <1>14, SameWork, UndisturbedStep DEF Step

LEMMA ReceiveRequestStep ==
  ASSUME IInv, ReceiveRequest
  PROVE  Step(dev, phy, dev', phy')
<1>1. /\ RxEnds /\ dev' = [dev EXCEPT !.response = now + Sifs]
      /\ phy' = [phy EXCEPT !.rx = Never]
      BY DEF ReceiveRequest, Becomes
<1>2. /\ dev \in Devices /\ phy \in Phys /\ DeviceInv(dev, phy)
      /\ ~ dev.sleeping /\ dev.rxEnd = now /\ dev.txEnd =< now /\ dev.phase # "sifs"
      /\ Underway(dev) => dev.due = now /\ dev.response = Never
      /\ \A q : q.rx = Never => DeviceInv(dev, q)
      BY <1>1, ReceptionEnds
<1>3. phy' \in Phys /\ phy'.rx = Never
      BY <1>1, <1>2 DEF Phys, Event
<1>4. now + Sifs \in Event /\ now + Sifs \in Int /\ now + Sifs = Sifs /\ now + Sifs > now
      BY Constants DEF Event, now
<1>5. /\ dev' \in Devices /\ Intervals(dev') = Intervals(dev) /\ Work(dev') = Work(dev)
      /\ dev'.timer = dev.timer
      /\ dev'.owner = dev.owner /\ dev'.held = dev.held /\ dev'.phase = dev.phase
      /\ dev'.due = dev.due /\ dev'.response = now + Sifs
      BY <1>1, <1>2, <1>4 DEF Devices, Intervals, Work
<1>6. /\ dev'.rxEnd = dev.rxEnd /\ dev'.txEnd = dev.txEnd /\ dev'.sleeping = dev.sleeping
      /\ dev'.ackEnd = dev.ackEnd /\ dev'.ctsEnd = dev.ctsEnd
      BY <1>5 DEF Intervals
<1>7. Protected(dev', dev'.response)
  <2>1. dev'.rxEnd \in Ends(dev')
        BY DEF Ends
  <2>2. QED BY <1>2, <1>4, <1>5, <1>6, <2>1, ProtectedFor, Constants DEF now
<1>8. OwnerInv(dev')
      BY <1>2, <1>5 DEF DeviceInv, OwnerInv, Underway, Work
<1>9. ExchangeInv(dev')
      BY <1>2, <1>5, <1>6 DEF DeviceInv, ExchangeInv
<1>10. ResponseInv(dev')
      BY <1>2, <1>4, <1>5, <1>6, <1>7, Constants DEF ResponseInv, Underway
<1>11. DeviceInv(dev', phy')
      BY <1>2, <1>3, <1>6, <1>8, <1>9, <1>10 DEF DeviceInv, ReceptionInv, SleepInv
<1>12. Uninterrupted(dev, phy, dev')
      BY <1>2, <1>4, <1>5, <1>6 DEF Uninterrupted, Later, Devices, now, Never
<1>13. QED BY <1>2, <1>3, <1>5, <1>6, <1>11, <1>12, SameWork DEF Step

LEMMA NotifyNavStep ==
  ASSUME IInv, NEW d \in NavTimes, NEW rts \in BOOLEAN, NotifyNav(d, rts)
  PROVE  Step(dev, phy, dev', phy')
<1> DEFINE end == now + d
           u == UpdateBackoff(dev)
           nav == Later(u.navEnd, end)
           reset == IF rts /\ end > phy.nav THEN now + NavResetTime ELSE phy.reset
<1>1. /\ RxEnds /\ dev' = [u EXCEPT !.navEnd = nav]
      /\ phy' = [phy EXCEPT !.rx = Never, !.nav = Later(@, end), !.reset = reset]
      BY DEF NotifyNav, Becomes
<1>2. /\ dev \in Devices /\ phy \in Phys /\ ~ dev.sleeping
      /\ DeviceInv(dev, phy)
      /\ \A q : q.rx = Never => DeviceInv(dev, q)
      BY <1>1, ReceptionEnds
<1>3. end \in Int /\ end >= now /\ now + NavResetTime \in Event
      BY EdcaConstants DEF now, Event
<1>4. /\ u \in Devices /\ Intervals(u) = Intervals(dev) /\ Exchange(u) = Exchange(dev)
      /\ Work(u) = Work(dev) /\ u.timer = dev.timer
      BY <1>2, Updated
<1> HIDE DEF end, u
<1>5. nav \in Int /\ nav >= now /\ Later(phy.nav, end) \in Int /\ reset \in Event
      BY <1>2, <1>3, <1>4 DEF Later, Devices, Phys, now
<1> HIDE DEF nav, reset
<1>6. phy' \in Phys /\ phy'.rx = Never
      BY <1>1, <1>2, <1>5 DEF Phys, Event
<1>7. /\ dev' \in Devices /\ Exchange(dev') = Exchange(dev) /\ Work(dev') = Work(dev)
      /\ dev'.timer = dev.timer /\ dev'.navEnd = nav
      /\ dev'.rxEnd = dev.rxEnd /\ dev'.rxOk = dev.rxOk /\ dev'.txEnd = dev.txEnd
      /\ dev'.sleeping = dev.sleeping /\ dev'.ackEnd = dev.ackEnd /\ dev'.ctsEnd = dev.ctsEnd
      BY <1>1, <1>4, <1>5 DEF Devices, Intervals, Exchange, Work
<1>8. nav \in Ends(dev')
      BY <1>7 DEF Ends
<1>9. QED BY <1>2, <1>5, <1>6, <1>7, <1>8, IntervalStep DEF DeviceInv, ExchangeInv

LEMMA DoNavResetNowStep ==
  ASSUME IInv, DoNavResetNow
  PROVE  Step(dev, phy, dev', phy')
<1> DEFINE u == UpdateBackoff(dev)
           reset == [u EXCEPT !.navEnd = now]
<1>1. /\ dev' = DoRestartAccessTimeoutIfNeeded(reset)
      /\ phy' = [phy EXCEPT !.reset = Never, !.nav = now] /\ phy.reset # Never
      BY DEF DoNavResetNow, Becomes, now, Never
<1>2. /\ dev \in Devices /\ phy \in Phys /\ DeviceInv(dev, phy) /\ ~ dev.sleeping
      BY <1>1 DEF IInv, TypeOK, DeviceInv, SleepInv
<1>3. /\ u \in Devices /\ Intervals(u) = Intervals(dev) /\ Exchange(u) = Exchange(dev)
      /\ Work(u) = Work(dev) /\ u.timer = dev.timer
      BY <1>2, Updated
<1> HIDE DEF u
<1>4. /\ reset \in Devices /\ Exchange(reset) = Exchange(dev) /\ Work(reset) = Work(dev)
      /\ reset.timer = dev.timer /\ reset.navEnd = now
      /\ reset.rxEnd = dev.rxEnd /\ reset.rxOk = dev.rxOk /\ reset.txEnd = dev.txEnd
      /\ reset.sleeping = dev.sleeping /\ reset.ackEnd = dev.ackEnd
      /\ reset.ctsEnd = dev.ctsEnd
      BY <1>3 DEF Devices, Intervals, Exchange, Work, now
<1> HIDE DEF reset
<1>5. /\ dev' \in Devices /\ Exchange(dev') = Exchange(dev) /\ Work(dev') = Work(dev)
      /\ dev.timer # Never => dev'.timer # Never
      /\ Intervals(dev') = Intervals(reset)
      BY <1>1, <1>4, Restarted
<1>6. /\ dev'.navEnd = now
      /\ dev'.rxEnd = dev.rxEnd /\ dev'.rxOk = dev.rxOk /\ dev'.txEnd = dev.txEnd
      /\ dev'.sleeping = dev.sleeping /\ dev'.ackEnd = dev.ackEnd /\ dev'.ctsEnd = dev.ctsEnd
      BY <1>4, <1>5 DEF Intervals
<1>7. now \in Ends(dev') /\ now >= now
      BY <1>6 DEF Ends, now
<1>8. phy' \in Phys /\ phy'.rx = phy.rx
  <2>1. now \in Int /\ Never \in Event
        BY DEF now, Event
  <2>2. QED BY <1>1, <1>2, <2>1 DEF Phys
<1>9. DeviceInv(dev, phy')
      BY <1>2, <1>8 DEF DeviceInv, ReceptionInv, SleepInv
<1>10. QED BY <1>2, <1>5, <1>6, <1>7, <1>8, <1>9, IntervalStep DEF DeviceInv, ExchangeInv

LEMMA NotifyMaybeCcaBusyStartStep ==
  ASSUME IInv, NEW d \in CcaTimes, NotifyMaybeCcaBusyStart(d)
  PROVE  Step(dev, phy, dev', phy')
<1> DEFINE u == UpdateBackoff(dev)
           end == now + d
<1>1. /\ dev' = [u EXCEPT !.busyEnd = end] /\ phy' = [phy EXCEPT !.cca = Later(@, end)]
      /\ ~ dev.sleeping
      BY DEF NotifyMaybeCcaBusyStart, Becomes, Hears
<1>2. /\ dev \in Devices /\ phy \in Phys /\ DeviceInv(dev, phy)
      BY DEF IInv, TypeOK
<1>3. /\ u \in Devices /\ Intervals(u) = Intervals(dev) /\ Exchange(u) = Exchange(dev)
      /\ Work(u) = Work(dev) /\ u.timer = dev.timer
      BY <1>2, Updated
<1>4. end \in Int /\ end >= now
      BY EdcaConstants DEF now
<1> HIDE DEF u, end
<1>5. phy' \in Phys /\ phy'.rx = phy.rx
      BY <1>1, <1>2, <1>4 DEF Phys, Later
<1>6. /\ dev' \in Devices /\ Exchange(dev') = Exchange(dev) /\ Work(dev') = Work(dev)
      /\ dev'.timer = dev.timer /\ dev'.busyEnd = end
      /\ dev'.rxEnd = dev.rxEnd /\ dev'.rxOk = dev.rxOk /\ dev'.txEnd = dev.txEnd
      /\ dev'.sleeping = dev.sleeping /\ dev'.ackEnd = dev.ackEnd /\ dev'.ctsEnd = dev.ctsEnd
      BY <1>1, <1>3, <1>4 DEF Devices, Intervals, Exchange, Work
<1>7. end \in Ends(dev')
      BY <1>6 DEF Ends
<1>8. DeviceInv(dev, phy')
      BY <1>1, <1>2, <1>5 DEF DeviceInv, ReceptionInv, SleepInv
<1>9. QED BY <1>1, <1>2, <1>4, <1>5, <1>6, <1>7, <1>8, IntervalStep DEF DeviceInv, ExchangeInv

-----------------------------------------------------------------------------
(* The exchange under way and the answers to others.                       *)

LEMMA EndingStep ==
  ASSUME IInv, dev.due = now, Underway(dev), phy' = phy,
         NEW n \in Nat, NEW c \in Choices, dev' = ExchangeEnds(dev, n, c)
  PROVE  Step(dev, phy, dev', phy')
<1>1. dev \in Devices /\ phy \in Phys /\ DeviceInv(dev, phy)
      BY DEF IInv, TypeOK
<1>2. ~ dev.sleeping
      BY <1>1 DEF DeviceInv, SleepInv
<1>3. /\ dev' \in Devices /\ DeviceInv(dev', phy) /\ ~ Underway(dev')
      /\ Intervals(dev') = Intervals(dev) /\ dev'.response = dev.response
      /\ TimedDevice(dev) => TimedDevice(dev')
      /\ WorkDevice(dev) => WorkDevice(dev')
      BY <1>1, <1>2, ExchangeEnded
<1>4. Uninterrupted(dev, phy, dev')
      BY <1>1, <1>3 DEF Uninterrupted, Intervals, Later, Devices, now
<1>5. QED BY <1>1, <1>3, <1>4 DEF Step

LEMMA ExchangeTimeoutStep ==
  ASSUME IInv, NEW n \in 0 .. MaxFrames, NEW c \in Choices, ExchangeTimeout(n, c)
  PROVE  Step(dev, phy, dev', phy')
<1>1. Underway(dev)
      BY DEF ExchangeTimeout, IInv, DeviceInv, OwnerInv
<1>2. n \in Nat
      BY Constants
<1>3. QED BY <1>1, <1>2, EndingStep DEF ExchangeTimeout, Becomes

LEMMA EndTxNoAckStep ==
  ASSUME IInv, NEW c \in Choices, EndTxNoAck(c)
  PROVE  Step(dev, phy, dev', phy')
<1>1. Underway(dev) /\ dev.frames[dev.owner] > 0
      BY DEF EndTxNoAck, IInv, DeviceInv, OwnerInv
<1>2. dev.frames[dev.owner] - 1 \in Nat
      BY <1>1 DEF IInv, TypeOK, Devices, Underway
<1>3. QED BY <1>1, <1>2, EndingStep DEF EndTxNoAck, Becomes

LEMMA SendDataAfterCtsStep ==
  ASSUME IInv, NEW kind \in {"ack", "noack"}, SendDataAfterCts(kind)
  PROVE  Step(dev, phy, dev', phy')
<1>1. /\ dev.phase = "sifs" /\ dev' = SendAs(dev, kind) /\ phy' = [phy EXCEPT !.rx = Never]
      BY DEF SendDataAfterCts, Becomes
<1>2. /\ dev \in Devices /\ phy \in Phys /\ DeviceInv(dev, phy)
      BY DEF IInv, TypeOK
<1>3. /\ dev.owner \in Txops /\ dev.frames[dev.owner] > 0 /\ dev.response = Never
      /\ ~ dev.sleeping /\ dev.txEnd =< now
      BY <1>1, <1>2 DEF DeviceInv, OwnerInv, ExchangeInv, SleepInv, Underway, Devices
<1>4. /\ dev' \in Devices /\ HasBegun(dev') /\ Work(dev') = Work(dev)
      /\ dev'.owner = dev.owner /\ dev'.held = dev.held /\ dev'.response = dev.response
      /\ dev'.timer = dev.timer /\ dev'.sleeping = dev.sleeping
      BY <1>1, <1>2, Sends
<1>5. phy' \in Phys /\ phy'.rx = Never
      BY <1>1, <1>2 DEF Phys, Event
<1>6. DeviceInv(dev', phy')
      BY <1>3, <1>4, <1>5, NewExchangeInv DEF Work
<1>7. Undisturbed(dev, dev')
      BY <1>3, <1>4 DEF Undisturbed
<1>8. QED BY <1>2, <1>4, <1>5, <1>6, <1>7, SameWork, UndisturbedStep DEF Step

LEMMA SendResponseStep ==
  ASSUME IInv, SendResponse
  PROVE  Step(dev, phy, dev', phy')
<1> DEFINE d == [dev EXCEPT !.response = Never]
<1>1. /\ dev.response = now /\ dev' = NotifyTxStartNow(d) /\ phy' = [phy EXCEPT !.rx = Never]
      BY DEF SendResponse, Becomes
<1>2. /\ dev \in Devices /\ phy \in Phys /\ DeviceInv(dev, phy)
      BY DEF IInv, TypeOK
<1>3. ~ Underway(dev) /\ ~ dev.sleeping /\ dev.txEnd =< now
      BY <1>1, <1>2 DEF DeviceInv, ResponseInv, SleepInv, now, Never
<1>4. /\ d \in Devices /\ Work(d) = Work(dev) /\ d.response = Never /\ d.owner = dev.owner
      /\ d.phase = dev.phase /\ d.held = dev.held /\ d.timer = dev.timer
      /\ d.sleeping = dev.sleeping
      BY <1>2 DEF Devices, Event, Work
<1> HIDE DEF d
<1>5. /\ dev' \in Devices /\ Exchange(dev') = Exchange(d) /\ Work(dev') = Work(d)
      /\ dev'.timer = d.timer /\ dev'.sleeping = d.sleeping
      BY <1>1, <1>4, TxStarted
<1>6. /\ dev'.owner = dev.owner /\ dev'.phase = dev.phase /\ dev'.held = dev.held
      /\ dev'.response = Never
      BY <1>4, <1>5 DEF Exchange
<1>7. phy' \in Phys /\ phy'.rx = Never
      BY <1>1, <1>2 DEF Phys, Event
<1>8. dev.phase = "idle"
      BY <1>2, <1>3 DEF DeviceInv, OwnerInv
<1>9. DeviceInv(dev', phy')
      BY <1>3, <1>4, <1>5, <1>6, <1>7, <1>8
         DEF DeviceInv, OwnerInv, ReceptionInv, ExchangeInv, ResponseInv, SleepInv, Underway
<1>10. Uninterrupted(dev, phy, dev')
       BY <1>1, <1>3, <1>6 DEF Uninterrupted
<1>11. QED BY <1>2, <1>4, <1>5, <1>6, <1>7, <1>9, <1>10, SameWork DEF Step

-----------------------------------------------------------------------------
(* Sleep, wake-up and channel switch.                                      *)

LEMMA ExchangeCancelled ==
  ASSUME NEW d \in Devices, Underway(d) => d.frames[d.owner] > 0
  PROVE  LET e == CancelExchange(d)
         IN  /\ e \in Devices /\ ~ Underway(e) /\ e.phase = "idle" /\ e.timer = Never
             /\ e.response = Never
             /\ Intervals(e) = Intervals(d) /\ e.requested = d.requested
             /\ e.stranded = d.stranded
<1> DEFINE frames == [t \in Txops |-> IF t = d.owner /\ ~ d.held THEN d.frames[t] - 1
                                      ELSE d.frames[t]]
           e == CancelExchange(d)
<1>1. ASSUME NEW t \in Txops PROVE frames[t] \in Nat
  <2>1. d.frames[t] \in Nat /\ (t = d.owner => d.frames[t] > 0)
        BY Constants DEF Underway, Devices
  <2>2. QED BY <2>1
<1>2. frames \in [Txops -> Nat]
      BY <1>1
<1>3. e = [d EXCEPT !.owner = Nobody, !.phase = "idle", !.due = Never, !.response = Never,
                    !.held = FALSE, !.timer = Never, !.frames = frames]
      BY DEF CancelExchange
<1> HIDE DEF frames, e
<1>4. e \in Devices /\ e.owner = Nobody /\ e.phase = "idle" /\ e.timer = Never
      BY <1>2, <1>3 DEF Devices, Event
<1>5. /\ e.response = Never /\ Intervals(e) = Intervals(d) /\ e.requested = d.requested
      /\ e.stranded = d.stranded
      BY <1>3 DEF Devices, Intervals
<1>6. QED BY <1>4, <1>5 DEF Underway, e

LEMMA NotifySleepNowStep ==
  ASSUME IInv, NotifySleepNow
  PROVE  Step(dev, phy, dev', phy')
<1> DEFINE d == CancelExchange(dev)
<1>1. /\ dev' = [d EXCEPT !.sleeping = TRUE] /\ phy' = [phy EXCEPT !.nav = now, !.reset = Never]
      /\ ~ dev.sleeping /\ dev.txEnd =< now /\ phy.rx = Never
      BY DEF NotifySleepNow, Becomes, Hears, Transmits, IInv, TypeOK, Devices, now
<1>2. /\ dev \in Devices /\ phy \in Phys /\ DeviceInv(dev, phy)
      BY DEF IInv, TypeOK
<1>3. /\ d \in Devices /\ ~ Underway(d) /\ d.phase = "idle" /\ d.timer = Never
      /\ d.response = Never
      BY <1>2, ExchangeCancelled DEF DeviceInv, OwnerInv
<1> HIDE DEF d
<1>4. /\ dev' \in Devices /\ dev'.owner = d.owner /\ dev'.phase = "idle" /\ dev'.timer = Never
      /\ dev'.response = Never /\ dev'.sleeping
      BY <1>1, <1>3 DEF Devices
<1>5. phy' \in Phys /\ phy'.rx = Never /\ phy'.reset = Never
  <2>1. now \in Int /\ Never \in Event
        BY DEF now, Event
  <2>2. QED BY <1>1, <1>2, <2>1 DEF Phys
<1>6. DeviceInv(dev', phy')
      BY <1>3, <1>4, <1>5
         DEF DeviceInv, OwnerInv, ReceptionInv, ExchangeInv, ResponseInv, SleepInv, Underway
<1>7. Uninterrupted(dev, phy, dev')
      BY <1>1, <1>3, <1>4 DEF Uninterrupted, Underway, Interrupted
<1>8. TimedDevice(dev') /\ WorkDevice(dev')
      BY <1>4 DEF TimedDevice, WorkDevice, Attended
<1>9. QED BY <1>4, <1>5, <1>6, <1>7, <1>8 DEF Step

LEMMA NotifySwitchingStartNowStep ==
  ASSUME IInv, NEW left \in [Txops -> 0 .. MaxFrames], NotifySwitchingStartNow(left)
  PROVE  Step(dev, phy, dev', phy')
<1> DEFINE cut(end) == IF end > now THEN now ELSE end
           d == CancelExchange(dev)
           start == [t \in Txops |-> IF dev.slots[t] > 0 THEN now ELSE d.start[t]]
           none == [t \in Txops |-> 0]
           quiet == [t \in Txops |-> FALSE]
           behind == {t \in Txops : left[t] > 0}
<1>1. /\ dev \in Devices /\ phy \in Phys /\ DeviceInv(dev, phy)
      /\ ~ dev.sleeping /\ dev.txEnd =< now /\ dev.switchEnd =< now
      BY DEF NotifySwitchingStartNow, Hears, Transmits, IInv, TypeOK, Devices, now
<1>2. /\ d \in Devices /\ ~ Underway(d) /\ d.phase = "idle" /\ d.timer = Never
      /\ d.response = Never /\ Intervals(d) = Intervals(dev)
      BY <1>1, ExchangeCancelled DEF DeviceInv, OwnerInv
<1>3. \A end \in Int : cut(end) \in Int
      BY DEF now
<1>4. /\ dev' = [d EXCEPT
           !.rxOk = TRUE, !.rxEnd = cut(@), !.navEnd = cut(@), !.busyEnd = cut(@),
           !.ackEnd = cut(@), !.ctsEnd = cut(@), !.switchEnd = now + SwitchTime,
           !.start = start, !.slots = none, !.earned = none,
           !.requested = quiet, !.frames = left, !.stranded = behind]
      /\ phy' = [phy EXCEPT !.rx = Never, !.cca = cut(@), !.nav = now, !.reset = Never]
      BY DEF NotifySwitchingStartNow, Becomes
<1> HIDE DEF d, cut
<1>5. /\ start \in [Txops -> Int] /\ none \in [Txops -> Nat] /\ quiet \in [Txops -> BOOLEAN]
      /\ left \in [Txops -> Nat] /\ behind \in SUBSET Txops
      BY <1>2, Constants DEF Devices, now
<1>6. \A t \in Txops : quiet[t] = FALSE /\ left[t] \in Nat /\ (left[t] > 0 => t \in behind)
      BY <1>5
<1> HIDE DEF start, none, quiet, behind
<1>7. now + SwitchTime \in Int /\ now + SwitchTime > now /\ now \in Int /\ Never \in Event
      BY Constants DEF now, Event
<1>8. dev' \in Devices
      BY <1>2, <1>3, <1>4, <1>5, <1>7 DEF Devices
<1>9. /\ dev'.owner = d.owner /\ dev'.phase = d.phase /\ dev'.response = d.response
      /\ dev'.switchEnd = now + SwitchTime /\ dev'.sleeping = d.sleeping /\ dev'.txEnd = d.txEnd
      /\ dev'.requested = quiet /\ dev'.frames = left /\ dev'.stranded = behind
      BY <1>2, <1>4 DEF Devices
<1>10. dev'.sleeping = dev.sleeping /\ dev'.txEnd = dev.txEnd
       BY <1>2, <1>9 DEF Intervals
<1>11. phy' \in Phys /\ phy'.rx = Never
       BY <1>1, <1>3, <1>4, <1>7 DEF Phys
<1>12. DeviceInv(dev', phy')
       BY <1>1, <1>2, <1>9, <1>10, <1>11
          DEF DeviceInv, OwnerInv, ReceptionInv, ExchangeInv, ResponseInv, SleepInv, Underway
<1>13. TimedDevice(dev')
       BY <1>6, <1>9 DEF TimedDevice
<1>14. WorkDevice(dev')
       BY <1>6, <1>9, Constants DEF WorkDevice, Attended, HasFramesToTransmit
<1>15. Uninterrupted(dev, phy, dev')
  <2>1. Interrupted(dev, dev')
        BY <1>1, <1>7, <1>9 DEF Interrupted, Devices, now
  <2>2. QED BY <1>1, <1>2, <1>9, <1>10, <2>1 DEF Uninterrupted, Underway
<1>16. QED BY <1>8, <1>11, <1>12, <1>13, <1>14, <1>15 DEF Step

-----------------------------------------------------------------------------
(* The Txops are woken one after the other.                                *)

Rested(d, t) ==
  [d EXCEPT !.start[t] = IF d.slots[t] > 0 THEN now ELSE @, !.slots[t] = 0,
            !.earned[t] = 0, !.requested[t] = FALSE]

LEMMA WokenFunction ==
  ASSUME NEW c
  PROVE  \E f : f = [t \in 0 .. NTxops |->
                       IF t = 0 THEN [dev EXCEPT !.sleeping = FALSE]
                       ELSE RestartAccessIfNeeded(Rested(f[t - 1], t), t, c)]
<1> DEFINE Value(f, n) == IF n = 0 THEN [dev EXCEPT !.sleeping = FALSE]
                          ELSE RestartAccessIfNeeded(Rested(f[n - 1], n), n, c)
           Defines(f, k) == f = [n \in 0 .. k |-> Value(f, n)]
           T == {k \in Nat : ~ \E f : Defines(f, k)}
<1>1. ASSUME T # {} PROVE FALSE
  <2>1. PICK k \in T : \A j \in T : k =< j
    <3>1. T \subseteq Nat
          OBVIOUS
    <3> HIDE DEF T
    <3>2. QED BY <1>1, <3>1, LeastElement
  <2>2. k \in Nat /\ ~ \E f : Defines(f, k)
        OBVIOUS
  <2>3. CASE k = 0
    <3> DEFINE f == [n \in 0 .. 0 |-> [dev EXCEPT !.sleeping = FALSE]]
    <3>1. Defines(f, 0)
          OBVIOUS
    <3>2. QED BY <2>2, <2>3, <3>1
  <2>4. CASE k # 0
    <3>1. k - 1 \in Nat /\ ~ (k =< k - 1)
          BY <2>2, <2>4
    <3>2. PICK g : Defines(g, k - 1)
      <4> HIDE DEF Defines
      <4>1. k - 1 \notin T
            BY <2>1, <3>1, Zenon
      <4>2. QED BY <3>1, <4>1
    <3> DEFINE f == [n \in 0 .. k |-> IF n = k THEN Value(g, k) ELSE g[n]]
    <3>3. \A n \in 0 .. k : f[n] = Value(f, n)
      <4>1. TAKE n \in 0 .. k
      <4>2. CASE n = k
        <5>1. f[n - 1] = g[n - 1]
              BY <2>2, <2>4, <4>2
        <5>2. f[n] = Value(g, k)
              BY <4>2
        <5>3. QED BY <4>2, <5>1, <5>2
      <4>3. CASE n # k
        <5>1. n \in 0 .. k - 1 /\ (n # 0 => n - 1 \in 0 .. k /\ n - 1 # k)
              BY <2>2, <4>1, <4>3
        <5>2. g[n] = Value(g, n)
              BY <3>2, <5>1, Zenon
        <5>3. f[n] = g[n] /\ (n # 0 => f[n - 1] = g[n - 1])
              BY <4>1, <4>3, <5>1
        <5>4. QED BY <5>2, <5>3
      <4>4. QED BY <4>2, <4>3
    <3>4. Defines(f, k)
          BY <3>3
    <3>5. QED BY <2>2, <3>4
  <2>5. QED BY <2>3, <2>4
<1>2. NTxops \in Nat
      BY EdcaConstants
<1>3. \E f : Defines(f, NTxops)
  <2> HIDE DEF Defines
  <2>1. NTxops \notin T
        BY <1>1, Zenon
  <2>2. QED BY <1>2, <2>1
<1>4. QED BY <1>3, Zenon

(* The intervals alone.                                                    *)
Medium(d) ==
  <<d.rxEnd, d.rxOk, d.txEnd, d.busyEnd, d.navEnd, d.ackEnd, d.ctsEnd, d.switchEnd>>

(* Nobody has been granted access yet, or somebody who had waited has.     *)
MayHaveBegun(g) ==
  \/ ~ Underway(g) /\ Medium(g) = Medium(dev)
  \/ /\ Underway(g) /\ g.txEnd > now /\ Waited(dev, g.owner)
     /\ g.busyEnd = dev.busyEnd

(* The device when the Txops up to t have been woken.                      *)
AwakeUpTo(g, t) ==
  /\ g \in Devices /\ ~ g.sleeping /\ DeviceInv(g, phy)
  /\ g.txEnd = dev.txEnd \/ dev.txEnd =< now
  /\ MayHaveBegun(g)
  /\ \A u \in Txops : u =< t =>
       /\ g.requested[u] => g.timer # Never \/ u \in g.stranded
       /\ Attended(g, u)

LEMMA OneMoreAwake ==
  ASSUME phy \in Phys, NEW g, NEW t \in Txops, AwakeUpTo(g, t - 1), NEW c \in Choices
  PROVE  AwakeUpTo(RestartAccessIfNeeded(Rested(g, t), t, c), t)
<1> DEFINE start == [g.start EXCEPT ![t] = IF g.slots[t] > 0 THEN now ELSE @]
           slots == [g.slots EXCEPT ![t] = 0]
           earned == [g.earned EXCEPT ![t] = 0]
           requested == [g.requested EXCEPT ![t] = FALSE]
           r == Rested(g, t)
           h == RestartAccessIfNeeded(r, t, c)
<1>1. g \in Devices /\ ~ g.sleeping /\ DeviceInv(g, phy)
      BY DEF AwakeUpTo
<1>2. /\ start \in [Txops -> Int] /\ slots \in [Txops -> Nat] /\ earned \in [Txops -> Nat]
      /\ requested \in [Txops -> BOOLEAN] /\ requested[t] = FALSE
      /\ \A u \in Txops : u # t => requested[u] = g.requested[u]
      BY <1>1 DEF Devices, now
<1>3. r = [g EXCEPT !.start = start, !.slots = slots, !.earned = earned,
                    !.requested = requested]
      BY DEF Rested
<1> HIDE DEF start, slots, earned, requested, r
<1>4. /\ r \in Devices /\ Intervals(r) = Intervals(g) /\ Exchange(r) = Exchange(g)
      /\ r.frames = g.frames /\ r.stranded = g.stranded /\ r.timer = g.timer
      /\ r.requested = requested
      BY <1>1, <1>2, <1>3 DEF Devices, Intervals, Exchange
<1>5. r.sleeping = g.sleeping /\ r.owner = g.owner /\ r.held = g.held /\ r.txEnd = g.txEnd
      BY <1>4 DEF Intervals, Exchange
<1>6. DeviceInv(r, phy)
      BY <1>1, <1>4, AlikeInv DEF DeviceInv, OwnerInv
<1>7. /\ Outcome(r, h) /\ Keeps(r, h) /\ (h = r \/ Timed(h))
      /\ HasFramesToTransmit(r, t) => CaredFor(h, t)
      BY <1>1, <1>4, <1>5, AccessIsRestarted
<1> HIDE DEF h
<1>8. h \in Devices /\ ~ h.sleeping /\ DeviceInv(h, phy) /\ Undisturbed(r, h)
      BY <1>1, <1>4, <1>5, <1>6, <1>7, OutcomeIsUndisturbed DEF Outcome
<1>9. h.txEnd = dev.txEnd \/ dev.txEnd =< now
      BY <1>5, <1>8 DEF AwakeUpTo, Undisturbed
<1>10. \A u \in Txops : u =< t => u = t \/ u =< t - 1
       BY Constants
<1>11. ASSUME NEW u \in Txops, u =< t
       PROVE  h.requested[u] => h.timer # Never \/ u \in h.stranded
  <2>1. CASE h = r /\ u = t
        BY <1>2, <1>4, <2>1
  <2>2. CASE h = r /\ u # t
        BY <1>2, <1>4, <1>10, <1>11, <2>2 DEF AwakeUpTo
  <2>3. CASE Timed(h)
        BY <2>3 DEF Timed
  <2>4. QED BY <1>7, <2>1, <2>2, <2>3
<1>12. ASSUME NEW u \in Txops, u =< t
       PROVE  Attended(h, u)
  <2>1. Attended(r, u) \/ CaredFor(h, u)
    <3>1. CASE u = t
          BY <1>7, <3>1 DEF Attended
    <3>2. CASE u # t
          BY <1>2, <1>4, <1>5, <1>10, <1>12, <3>2 DEF AwakeUpTo, Attended, HasFramesToTransmit
    <3>3. QED BY <3>1, <3>2
  <2>2. QED BY <1>1, <1>4, <1>5, <1>6, <1>7, <2>1, OutcomeIsAttended
<1>13. MayHaveBegun(h)
  <2>1. MayHaveBegun(r)
        BY <1>4, <1>5 DEF AwakeUpTo, MayHaveBegun, Underway, Medium, Intervals
  <2>2. CASE Quiet(r, h)
        BY <2>1, <2>2 DEF Quiet, MayHaveBegun, Underway, Medium, Intervals, Exchange
  <2>3. CASE Begins(r, h)
    <3>1. ~ Underway(r)
          BY <1>4, <1>6, <2>3, DeviceIsProtected DEF Begins
    <3>2. Waited(dev, h.owner)
          BY <2>1, <2>3, <3>1 DEF Begins, MayHaveBegun, Medium, Waited, GetAccessGrantStart
    <3>3. Underway(h) /\ h.txEnd > now /\ h.busyEnd = dev.busyEnd
          BY <2>1, <2>3, <3>1, Constants
             DEF Begins, HasBegun, Underway, MayHaveBegun, Medium, now
    <3>4. QED BY <3>2, <3>3 DEF MayHaveBegun
  <2>4. QED BY <1>7, <2>2, <2>3 DEF Outcome
<1>14. QED BY <1>8, <1>9, <1>11, <1>12, <1>13 DEF AwakeUpTo, h, r

LEMMA AllAreWoken ==
  ASSUME IInv, dev.sleeping, NEW c \in Choices,
         NEW f, f = [t \in 0 .. NTxops |->
                       IF t = 0 THEN [dev EXCEPT !.sleeping = FALSE]
                       ELSE RestartAccessIfNeeded(Rested(f[t - 1], t), t, c)]
  PROVE  AwakeUpTo(f[NTxops], NTxops)
<1> DEFINE awake == [dev EXCEPT !.sleeping = FALSE]
           T == {n \in 0 .. NTxops : ~ AwakeUpTo(f[n], n)}
<1>1. NTxops \in Nat
      BY EdcaConstants
<1>2. f[0] = awake
      BY <1>1
<1>3. \A t \in Txops : f[t] = RestartAccessIfNeeded(Rested(f[t - 1], t), t, c)
  <2>1. TAKE t \in Txops
  <2>2. t \in 0 .. NTxops /\ t # 0
        BY <1>1 DEF Txops
  <2>3. QED BY <2>2, Zenon
<1>4. AwakeUpTo(f[0], 0)
  <2>1. /\ dev \in Devices /\ DeviceInv(dev, phy)
        BY DEF IInv, TypeOK
  <2>2. /\ awake \in Devices /\ ~ awake.sleeping /\ Exchange(awake) = Exchange(dev)
        /\ awake.txEnd = dev.txEnd /\ awake.frames = dev.frames /\ Ends(awake) = Ends(dev)
        /\ awake.response = dev.response /\ awake.owner = dev.owner /\ awake.phase = dev.phase
        /\ Medium(awake) = Medium(dev)
        BY <2>1 DEF Devices, Exchange, Ends, Medium
  <2>3. ~ Underway(dev) /\ dev.response = Never /\ phy.rx = Never
        BY <2>1 DEF DeviceInv, SleepInv
  <2> HIDE DEF awake
  <2>4. DeviceInv(awake, phy)
        BY <2>1, <2>2, <2>3
           DEF DeviceInv, OwnerInv, ReceptionInv, ExchangeInv, ResponseInv, SleepInv, Underway
  <2>5. \A u \in Txops : ~ (u =< 0)
        BY <1>1 DEF Txops
  <2>6. MayHaveBegun(awake)
        BY <2>2, <2>3 DEF MayHaveBegun, Underway
  <2>7. QED BY <1>2, <2>2, <2>4, <2>5, <2>6 DEF AwakeUpTo
<1>5. ASSUME T # {} PROVE FALSE
  <2>1. PICK n \in T : \A k \in T : n =< k
    <3>1. T \subseteq Nat
          BY <1>1
    <3> HIDE DEF T
    <3>2. QED BY <1>5, <3>1, LeastElement
  <2>2. n \in 0 .. NTxops /\ ~ AwakeUpTo(f[n], n)
        OBVIOUS
  <2>3. n \in Txops /\ n - 1 \in 0 .. NTxops /\ ~ (n =< n - 1)
        BY <1>1, <1>4, <2>2 DEF Txops
  <2>4. n - 1 \notin T
    <3> HIDE DEF T
    <3>1. QED BY <2>1, <2>3, Zenon
  <2>5. AwakeUpTo(f[n - 1], n - 1)
        BY <2>3, <2>4
  <2>6. phy \in Phys
        BY DEF IInv, TypeOK
  <2>7. f[n] = RestartAccessIfNeeded(Rested(f[n - 1], n), n, c)
        BY <1>3, <2>3
  <2>8. AwakeUpTo(RestartAccessIfNeeded(Rested(f[n - 1], n), n, c), n)
        BY <2>3, <2>5, <2>6, OneMoreAwake, Zenon
  <2>9. QED BY <2>2, <2>7, <2>8, Zenon
<1>6. NTxops \in 0 .. NTxops
      BY <1>1
<1>7. QED BY <1>5, <1>6

(* All the Txops have been woken, and then CCA may be reported busy.       *)
LEMMA WakesUp ==
  ASSUME IInv, NEW c \in Choices, NotifyWakeupNow(c)
  PROVE  \E awake : \E d \in {0} \cup CcaTimes :
           /\ AwakeUpTo(awake, NTxops)
           /\ phy' = [phy EXCEPT !.cca = Later(phy.cca, now + d)]
           /\ dev' = IF Later(phy.cca, now + d) > now
                     THEN [UpdateBackoff(awake) EXCEPT !.busyEnd = Later(phy.cca, now + d)]
                     ELSE awake
<1>1. PICK f : f = [t \in 0 .. NTxops |->
                      IF t = 0 THEN [dev EXCEPT !.sleeping = FALSE]
                      ELSE RestartAccessIfNeeded(Rested(f[t - 1], t), t, c)]
      BY WokenFunction
<1>2. dev.sleeping
      BY DEF NotifyWakeupNow
<1> DEFINE Woken(g) == g = [t \in 0 .. NTxops |->
                      IF t = 0 THEN [dev EXCEPT !.sleeping = FALSE]
                      ELSE RestartAccessIfNeeded(Rested(g[t - 1], t), t, c)]
           woken == CHOOSE g : Woken(g)
           awake == woken[NTxops]
<1>3. Woken(woken)
      BY <1>1, Zenon
<1>4. \E d \in {0} \cup CcaTimes :
        LET cca == Later(phy.cca, now + d)
        IN  /\ phy' = [phy EXCEPT !.cca = cca]
            /\ Becomes(IF cca > now THEN [UpdateBackoff(awake) EXCEPT !.busyEnd = cca]
                       ELSE awake)
      BY Zenon DEF NotifyWakeupNow, Rested
<1>5. AwakeUpTo(awake, NTxops)
      BY <1>2, <1>3, AllAreWoken, Zenon
<1> HIDE DEF awake, woken, Woken
<1>6. QED BY <1>4, <1>5 DEF Becomes

LEMMA NotifyWakeupNowStep ==
  ASSUME IInv, NEW c \in Choices, NotifyWakeupNow(c)
  PROVE  Step(dev, phy, dev', phy')
<1>1. PICK awake : \E d \in {0} \cup CcaTimes :
        /\ AwakeUpTo(awake, NTxops)
        /\ phy' = [phy EXCEPT !.cca = Later(phy.cca, now + d)]
        /\ dev' = IF Later(phy.cca, now + d) > now
                  THEN [UpdateBackoff(awake) EXCEPT !.busyEnd = Later(phy.cca, now + d)]
                  ELSE awake
      BY WakesUp
<1>2. dev.sleeping
      BY DEF NotifyWakeupNow
<1>3. PICK d \in {0} \cup CcaTimes :
        /\ AwakeUpTo(awake, NTxops)
        /\ phy' = [phy EXCEPT !.cca = Later(phy.cca, now + d)]
        /\ dev' = IF Later(phy.cca, now + d) > now
                  THEN [UpdateBackoff(awake) EXCEPT !.busyEnd = Later(phy.cca, now + d)]
                  ELSE awake
      BY <1>1
<1>4. AwakeUpTo(awake, NTxops)
      BY <1>3
<1> DEFINE cca == Later(phy.cca, now + d)
           u == UpdateBackoff(awake)
<1>5. /\ dev \in Devices /\ phy \in Phys /\ DeviceInv(dev, phy)
      BY DEF IInv, TypeOK
<1>6. ~ Underway(dev) /\ dev.response = Never
      BY <1>2, <1>5 DEF DeviceInv, SleepInv
<1>7. /\ awake \in Devices /\ ~ awake.sleeping /\ DeviceInv(awake, phy)
      /\ awake.txEnd = dev.txEnd \/ dev.txEnd =< now
      BY <1>4 DEF AwakeUpTo
<1>8. TimedDevice(awake) /\ WorkDevice(awake)
  <2>1. \A t \in Txops : t =< NTxops
        BY EdcaConstants DEF Txops
  <2>2. QED BY <1>4, <2>1 DEF AwakeUpTo, TimedDevice, WorkDevice
<1>9. cca \in Int
  <2>1. d \in Int /\ now + d \in Int
        BY EdcaConstants DEF now
  <2>2. phy.cca \in Int
        BY <1>5 DEF Phys
  <2>3. QED BY <2>1, <2>2 DEF Later
<1>10. /\ phy' = [phy EXCEPT !.cca = cca]
       /\ dev' = IF cca > now THEN [u EXCEPT !.busyEnd = cca] ELSE awake
       BY <1>3
<1> HIDE DEF cca
<1>11. phy' \in Phys /\ phy'.rx = phy.rx /\ phy'.reset = phy.reset
       BY <1>5, <1>9, <1>10 DEF Phys
<1>12. DeviceInv(awake, phy')
       BY <1>7, <1>11 DEF DeviceInv, ReceptionInv, SleepInv
<1>13. /\ dev' \in Devices /\ DeviceInv(dev', phy') /\ TimedDevice(dev') /\ WorkDevice(dev')
       /\ dev'.txEnd = awake.txEnd /\ dev'.sleeping = awake.sleeping
  <2>1. CASE cca > now
    <3>1. /\ u \in Devices /\ Intervals(u) = Intervals(awake) /\ Exchange(u) = Exchange(awake)
          /\ Work(u) = Work(awake) /\ u.timer = awake.timer
          BY <1>7, Updated
    <3>2. dev' = [u EXCEPT !.busyEnd = cca]
          BY <1>10, <2>1
    <3> HIDE DEF u
    <3>3. /\ dev' \in Devices /\ Exchange(dev') = Exchange(awake) /\ Work(dev') = Work(awake)
          /\ dev'.timer = awake.timer /\ dev'.busyEnd = cca
          /\ dev'.rxEnd = awake.rxEnd /\ dev'.rxOk = awake.rxOk /\ dev'.txEnd = awake.txEnd
          /\ dev'.sleeping = awake.sleeping
          /\ dev'.ackEnd = awake.ackEnd /\ dev'.ctsEnd = awake.ctsEnd
          BY <1>9, <3>1, <3>2 DEF Devices, Intervals, Exchange, Work
    <3>4. cca \in Ends(dev') /\ cca >= now
          BY <1>9, <2>1, <3>3 DEF Ends, now
    <3>5. Step(awake, phy, dev', phy')
          BY <1>5, <1>7, <1>11, <1>12, <3>3, <3>4, IntervalStep DEF DeviceInv, ExchangeInv
    <3>6. QED BY <1>8, <3>3, <3>5 DEF Step
  <2>2. CASE ~ (cca > now)
        BY <1>7, <1>8, <1>10, <1>12, <2>2
  <2>3. QED BY <2>1, <2>2
<1>14. Uninterrupted(dev, phy, dev')
       BY <1>5, <1>6, <1>7, <1>13 DEF Uninterrupted, Later, Devices, now
<1>15. QED BY <1>11, <1>13, <1>14 DEF Step

-----------------------------------------------------------------------------
(* Every step.                                                             *)

LEMMA AnyStep ==
  ASSUME IInv, Next
  PROVE  Step(dev, phy, dev', phy')
<1>1. dev.owner \in {Nobody} \cup Txops
      BY DEF IInv, TypeOK, Devices
<1>2. CASE Tick
      BY <1>2, TickStep
<1>3. ASSUME NEW t \in Txops, Queue(t) \/ Expire(t) PROVE Step(dev, phy, dev', phy')
      BY <1>3, QueueStep, ExpireStep
<1>4. CASE AccessTimeout
      BY <1>4, AccessTimeoutStep
<1>5. ASSUME NEW c \in DrawsOf[dev.owner], Ending(c) PROVE Step(dev, phy, dev', phy')
  <2>1. c \in Choices
        BY <1>1, OpenChoices
  <2>2. ASSUME NEW n \in 0 .. MaxFrames, ReceiveAck(n, c) PROVE Step(dev, phy, dev', phy')
        BY <2>1, <2>2, ReceiveAckStep
  <2>3. ASSUME NEW n \in 0 .. MaxFrames, ExchangeTimeout(n, c) PROVE Step(dev, phy, dev', phy')
        BY <2>1, <2>3, ExchangeTimeoutStep
  <2>4. CASE EndTxNoAck(c)
        BY <2>1, <2>4, EndTxNoAckStep
  <2>5. QED BY <1>5, <2>2, <2>3, <2>4 DEF Ending
<1>6. CASE Receiving
  <2>1. ASSUME NEW d \in RxTimes, RxStart(d) PROVE Step(dev, phy, dev', phy')
        BY <2>1, RxStartStep
  <2>2. CASE RxEndError
        BY <2>2, RxEndErrorStep
  <2>3. CASE ReceiveCts
        BY <2>3, ReceiveCtsStep
  <2>4. CASE ReceiveRequest
        BY <2>4, ReceiveRequestStep
  <2>5. ASSUME NEW d \in NavTimes, NEW rts \in BOOLEAN, NotifyNav(d, rts)
        PROVE  Step(dev, phy, dev', phy')
        BY <2>5, NotifyNavStep
  <2>6. CASE DoNavResetNow
        BY <2>6, DoNavResetNowStep
  <2>7. ASSUME NEW d \in CcaTimes, NotifyMaybeCcaBusyStart(d) PROVE Step(dev, phy, dev', phy')
        BY <2>7, NotifyMaybeCcaBusyStartStep
  <2>8. QED BY <1>6, <2>1, <2>2, <2>3, <2>4, <2>5, <2>6, <2>7 DEF Receiving
<1>7. CASE Sending
      BY <1>7, SendDataAfterCtsStep, SendResponseStep DEF Sending
<1>8. CASE NotifySleepNow
      BY <1>8, NotifySleepNowStep
<1>9. ASSUME NEW c \in Choices, NotifyWakeupNow(c) PROVE Step(dev, phy, dev', phy')
      BY <1>9, NotifyWakeupNowStep
<1>10. ASSUME NEW left \in [Txops -> 0 .. MaxFrames], NotifySwitchingStartNow(left)
       PROVE  Step(dev, phy, dev', phy')
       BY <1>10, NotifySwitchingStartNowStep
<1>11. QED BY <1>2, <1>3, <1>4, <1>5, <1>6, <1>7, <1>8, <1>9, <1>10 DEF Next

LEMMA StutteringStep ==
  ASSUME IInv, UNCHANGED vars
  PROVE  Step(dev, phy, dev', phy')
<1>1. dev' = dev /\ phy' = phy
      BY DEF vars
<1>2. dev \in Devices /\ phy \in Phys /\ DeviceInv(dev, phy)
      BY DEF IInv, TypeOK
<1>3. Uninterrupted(dev, phy, dev)
      BY <1>2 DEF Uninterrupted, Later, Devices, now
<1>4. QED BY <1>1, <1>2, <1>3 DEF Step

(* Backoffs are counted from no later than the history says.               *)
LEMMA LatestStarts ==
  ASSUME NEW d \in Devices, NEW t \in Txops
  PROVE  /\ LatestStart(d, t) \in Int /\ GetBackoffStartFor(d, t) =< LatestStart(d, t)
<1>1. /\ LastEnd(d) \in Int /\ \A e \in Ends(d) : e \in Int /\ e =< LastEnd(d)
      /\ d.start[t] \in Int
      BY LastEndIsLast DEF Devices
<1> DEFINE aifs == Aifsn[t] * Slot
           bad == IF d.rxOk THEN LastEnd(d) ELSE Later(LastEnd(d), d.rxEnd + EifsNoDifs)
<1>2. aifs \in Nat /\ Sifs \in Nat /\ EifsNoDifs \in Nat
      BY Aifs, Constants
<1>3. LatestStart(d, t) = Later(d.start[t], bad + Sifs + aifs)
      BY DEF LatestStart
<1>4. GetBackoffStartFor(d, t) = Later(d.start[t], GetAccessGrantStart(d) + aifs)
      BY DEF GetBackoffStartFor
<1>5. bad \in Int /\ GetAccessGrantStart(d) \in Int /\ GetAccessGrantStart(d) =< bad + Sifs
      BY <1>1, <1>2 DEF Ends, GetAccessGrantStart, Later
<1> HIDE DEF aifs, bad
<1>6. QED BY <1>1, <1>2, <1>3, <1>4, <1>5 DEF Later

(* The bound on the events, and the history.                               *)
LEMMA CountersKeepTypes ==
  ASSUME IInv, [Next]_vars, dev' \in Devices
  PROVE  events' \in 0 .. MaxEvents /\ heard' \in [busy : Int, bad : Int, until : [Txops -> Int]]
<1>1. /\ events \in 0 .. MaxEvents /\ heard \in [busy : Int, bad : Int, until : [Txops -> Int]]
      /\ dev \in Devices /\ phy \in Phys
      BY DEF IInv, TypeOK
<1>2. \A d \in Devices, t \in Txops : LatestStart(d, t) \in Int
      BY LatestStarts
<1>3. Heard(dev') \in [busy : Int, bad : Int, until : [Txops -> Int]]
      BY <1>1, <1>2 DEF Heard, Later
<1>4. ASSUME NEW d, Becomes(d)
      PROVE  heard' \in [busy : Int, bad : Int, until : [Txops -> Int]]
      BY <1>3, <1>4 DEF Becomes
<1>5. Outside \/ UNCHANGED events => events' \in 0 .. MaxEvents
      BY <1>1, Constants DEF Outside
<1>6. CASE Tick
  <2>1. \A time \in Int : Older(time) \in Int
        BY TimePasses
  <2>2. \A time, later \in Int : Forget(time, later) \in Int
        BY TimePasses
  <2>3. /\ heard.busy \in Int /\ heard.bad \in Int
        /\ heard.busy + 1 \in Int /\ now \in Int /\ Oldest \in Int
        BY <1>1, OldestTime DEF now
  <2> DEFINE busy == IF InUse THEN now ELSE Older(heard.busy)
             bad == IF dev.rxEnd > now \/ dev.txEnd > now \/ dev.switchEnd > now
                    THEN Oldest ELSE Forget(heard.bad, heard.busy + 1)
             until == [t \in Txops |-> Older(IF dev.requested[t] THEN heard.until[t]
                                             ELSE LatestStart(dev, t))]
  <2>4. \A t \in Txops : Older(IF dev.requested[t] THEN heard.until[t]
                               ELSE LatestStart(dev, t)) \in Int
        BY <1>1, <1>2, <2>1
  <2>5. busy \in Int /\ bad \in Int /\ until \in [Txops -> Int]
        BY <2>1, <2>2, <2>3, <2>4
  <2>6. heard' = [busy |-> busy, bad |-> bad, until |-> until] /\ UNCHANGED events
        BY <1>6 DEF Tick
  <2> HIDE DEF busy, bad, until
  <2>7. QED BY <1>5, <2>5, <2>6
<1>7. CASE RxEndError
  <2>1. now + EifsNoDifs \in Int
        BY Constants DEF now
  <2>2. heard' = [Heard(dev') EXCEPT !.bad = now + EifsNoDifs] /\ UNCHANGED events
        BY <1>7 DEF RxEndError, RxEnds
  <2>3. QED BY <1>3, <1>5, <2>1, <2>2
<1>8. CASE UNCHANGED vars
      BY <1>1, <1>8 DEF vars
<1>9. CASE \E t \in Txops : Queue(t) \/ Expire(t)
      BY <1>4, <1>5, <1>9 DEF Queue, Expire
<1>10. CASE AccessTimeout
       BY <1>4, <1>5, <1>10 DEF AccessTimeout
<1>11. CASE \E c \in DrawsOf[dev.owner] : Ending(c)
       BY <1>4, <1>5, <1>11 DEF Ending, ReceiveAck, ExchangeTimeout, EndTxNoAck, RxEnds
<1>12. CASE Receiving /\ ~ RxEndError
       BY <1>4, <1>5, <1>12
          DEF Receiving, RxStart, ReceiveCts, ReceiveRequest, NotifyNav, DoNavResetNow,
              NotifyMaybeCcaBusyStart, RxEnds
<1>13. CASE Sending
       BY <1>4, <1>5, <1>13 DEF Sending, SendDataAfterCts, SendResponse
<1>14. CASE NotifySleepNow
       BY <1>4, <1>5, <1>14 DEF NotifySleepNow
<1>15. CASE \E c \in Choices : NotifyWakeupNow(c)
       BY <1>4, <1>5, <1>15 DEF NotifyWakeupNow
<1>16. CASE \E left \in [Txops -> 0 .. MaxFrames] : NotifySwitchingStartNow(left)
       BY <1>4, <1>5, <1>16 DEF NotifySwitchingStartNow
<1>17. QED BY <1>6, <1>7, <1>8, <1>9, <1>10, <1>11, <1>12, <1>13, <1>14, <1>15, <1>16 DEF Next

LEMMA InvariantStep ==
  ASSUME IInv, [Next]_vars
  PROVE  IInv' /\ Step(dev, phy, dev', phy')
<1>1. Step(dev, phy, dev', phy')
      BY AnyStep, StutteringStep
<1>2. events' \in 0 .. MaxEvents /\ heard' \in [busy : Int, bad : Int, until : [Txops -> Int]]
      BY <1>1, CountersKeepTypes DEF Step
<1>3. QED BY <1>1, <1>2 DEF Step, IInv, TypeOK

LEMMA InitialInvariant ==
  ASSUME Init
  PROVE  IInv /\ TimedDevice(dev) /\ WorkDevice(dev)
<1>1. PICK draw \in [Txops -> 0 .. MaxDraw] :
        dev = [rxEnd |-> now, rxOk |-> TRUE, txEnd |-> now, busyEnd |-> now,
               navEnd |-> now, ackEnd |-> now, ctsEnd |-> now, switchEnd |-> now,
               sleeping |-> FALSE, timer |-> Never,
               requested |-> [t \in Txops |-> FALSE],
               slots |-> draw, start |-> [t \in Txops |-> now],
               frames |-> [t \in Txops |-> 0],
               owner |-> Nobody, phase |-> "idle", held |-> FALSE, due |-> Never,
               response |-> Never, earned |-> draw, stranded |-> {}]
      BY DEF Init
<1> DEFINE requested == [t \in Txops |-> FALSE]
           start == [t \in Txops |-> now]
           frames == [t \in Txops |-> 0]
<1>2. /\ draw \in [Txops -> Nat] /\ requested \in [Txops -> BOOLEAN]
      /\ start \in [Txops -> Int] /\ frames \in [Txops -> Nat]
      /\ \A t \in Txops : requested[t] = FALSE /\ frames[t] = 0
      BY Constants DEF now
<1>3. now \in Int /\ Never \in Event
      BY DEF now, Event
<1>4. dev = [rxEnd |-> now, rxOk |-> TRUE, txEnd |-> now, busyEnd |-> now,
             navEnd |-> now, ackEnd |-> now, ctsEnd |-> now, switchEnd |-> now,
             sleeping |-> FALSE, timer |-> Never, requested |-> requested,
             slots |-> draw, start |-> start, frames |-> frames,
             owner |-> Nobody, phase |-> "idle", held |-> FALSE, due |-> Never,
             response |-> Never, earned |-> draw, stranded |-> {}]
      BY <1>1
<1> HIDE DEF requested, start, frames
<1>5. dev \in Devices
      BY <1>2, <1>3, <1>4 DEF Devices
<1>6. phy \in Phys /\ phy.rx = Never
      BY <1>3 DEF Init, Phys
<1>7. events \in 0 .. MaxEvents /\ heard \in [busy : Int, bad : Int, until : [Txops -> Int]]
      BY <1>3, Constants DEF Init
<1>8. /\ dev.phase = "idle" /\ ~ Underway(dev) /\ dev.response = Never /\ ~ dev.sleeping
      /\ dev.requested = requested /\ dev.frames = frames
      BY <1>4 DEF Underway
<1>9. DeviceInv(dev, phy)
      BY <1>6, <1>8 DEF DeviceInv, OwnerInv, ReceptionInv, ExchangeInv, ResponseInv, SleepInv
<1>10. TimedDevice(dev)
       BY <1>2, <1>8 DEF TimedDevice
<1>11. WorkDevice(dev)
       BY <1>2, <1>8 DEF WorkDevice, Attended, HasFramesToTransmit
<1>12. QED BY <1>5, <1>6, <1>7, <1>9, <1>10, <1>11 DEF IInv, TypeOK

-----------------------------------------------------------------------------
(* The theorems.                                                           *)

(* What MacLow has scheduled and what the PHY receives always lies within  *)
(* an interval that the channel access manager knows of, so that it grants *)
(* no access meanwhile.                                                    *)
THEOREM ContentionInvariant == Spec => []IInv
<1>1. Init => IInv
      BY InitialInvariant
<1>2. IInv /\ [Next]_vars => IInv'
      BY InvariantStep
<1>3. QED BY <1>1, <1>2, PTL DEF Spec

(* Every variable of the device, the PHY and the history keeps its type.   *)
THEOREM TypeCorrect == Spec => []TypeOK
<1>1. IInv => TypeOK
      BY DEF IInv
<1>2. QED BY <1>1, ContentionInvariant, PTL

(* No grant of DoGrantDcfAccess, however its timer was set, starts to send *)
(* while the device sends, or makes MacLow::StartTransmission cancel the   *)
(* exchange or the response under way: only sleep and a channel switch do. *)
THEOREM ExchangesAreNotInterrupted == Spec => NoInterruption
<1>1. IInv /\ [Next]_vars =>
        [/\ dev'.txEnd > Later(dev.txEnd, now) => dev.txEnd =< now
         /\ dev.owner # Nobody /\ dev'.owner # dev.owner =>
              dev'.owner = Nobody /\ (now = dev.due \/ now = phy.rx \/ Interrupts)
         /\ dev.response # Never /\ dev'.response = Never =>
              now = dev.response \/ Interrupts]_vars
  <2>1. SUFFICES ASSUME IInv, [Next]_vars
        PROVE  /\ dev'.txEnd > Later(dev.txEnd, now) => dev.txEnd =< now
               /\ dev.owner # Nobody /\ dev'.owner # dev.owner =>
                    dev'.owner = Nobody /\ (now = dev.due \/ now = phy.rx \/ Interrupts)
               /\ dev.response # Never /\ dev'.response = Never =>
                    now = dev.response \/ Interrupts
        OBVIOUS
  <2>2. Uninterrupted(dev, phy, dev')
        BY <2>1, InvariantStep DEF Step
  <2>3. QED BY <2>2 DEF Uninterrupted, Underway, Interrupted, Interrupts
<1>2. QED BY <1>1, ContentionInvariant, PTL DEF Spec, NoInterruption

(* Whoever waits for access is granted it by a timer that runs: no handler *)
(* cancels or consumes m_accessTimeout and leaves a request behind it.     *)
THEOREM RequestsAreTimed == Spec => []RequestIsTimed
<1>1. Init => TimedDevice(dev)
      BY InitialInvariant
<1>2. IInv /\ TimedDevice(dev) /\ [Next]_vars => TimedDevice(dev)'
      BY InvariantStep DEF Step, TimedDevice
<1>3. TimedDevice(dev) => RequestIsTimed
      BY DEF TimedDevice, RequestIsTimed
<1>4. QED BY <1>1, <1>2, <1>3, ContentionInvariant, PTL DEF Spec

(* A Txop with something to send has asked for access or its exchange is   *)
(* under way: neither a grant, nor the end of an exchange, a collision or  *)
(* the wake-up consumes a request without renewing it.                     *)
THEOREM WorkIsAlwaysRequested == Spec => []WorkIsRequested
<1>1. Init => WorkDevice(dev)
      BY InitialInvariant
<1>2. IInv /\ WorkDevice(dev) /\ [Next]_vars => WorkDevice(dev)'
      BY InvariantStep DEF Step, WorkDevice, Attended, HasFramesToTransmit
<1>3. WorkDevice(dev) => WorkIsRequested
      BY DEF WorkDevice, Attended, WorkIsRequested
<1>4. QED BY <1>1, <1>2, <1>3, ContentionInvariant, PTL DEF Spec

=============================================================================
