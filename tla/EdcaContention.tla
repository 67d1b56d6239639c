--------------------------- MODULE EdcaContention ---------------------------
(***************************************************************************)
(* Contention for the channel inside one device: the channel access        *)
(* manager with several Txops, and the part of MacLow and of the PHY that  *)
(* drives it.  Every Txop draws a backoff; the manager works out from the  *)
(* last Rx, Tx, CCA, NAV, switching and timeout intervals when a backoff   *)
(* may start to run and when it ends, and keeps one timer, m_accessTimeout,*)
(* for the first request that will be ready.                               *)
(*                                                                         *)
(* A handler of the program that calls others is a composition of          *)
(* functions on dev, the state of the device: each takes the device and    *)
(* returns the device after the call.  Txop 1 has the highest priority.    *)
(* An interval is represented by its end.                                  *)
(*                                                                         *)
(* Times are relative to the present, so that the clock needs no bound: an *)
(* instant takes one from every time.  A time that cannot matter any more, *)
(* because a later one has passed or it is too old for AIFS, EIFS or any   *)
(* backoff, is forgotten; the latest one keeps its place in the slot.      *)
(*                                                                         *)
(* Definitions whose comment starts with "Deliberately wrong" are no part  *)
(* of the model: each replaces a definition of it to test a property.      *)
(***************************************************************************)
EXTENDS Integers, FiniteSets, TLC

CONSTANTS
  NTxops,        \* the Txops of the device are 1 .. NTxops
  Edca,          \* those that are QosTxops; the others are plain DCF
  Aifsn,         \* the AIFSN of every Txop
  Sifs, Slot,
  EifsNoDifs,    \* m_eifsNoDifs
  FrameTime,     \* time on air of a frame that the device sends
  AnswerTime,    \* SIFS, slot and PHY header that an answer is waited for
  RxTimes,       \* times on air of the frames of others
  CcaTimes,      \* busy durations that CCA reports
  NavTimes,      \* Duration fields of overheard frames
  NavResetTime,  \* delay after which a NAV set by an RTS is reset
  SwitchTime,    \* channel switch delay
  MaxDraw,       \* largest backoff drawn, in slots
  MaxFrames,     \* frames a Txop has at most
  MaxEvents      \* bound on the events from outside the device, the frames
                 \* that come while an answer is awaited not counted

Txops == 1 .. NTxops

(* A frame has a PHY header, which is longer than SIFS.                    *)
ASSUME FramesAreLong == \A time \in RxTimes : time > Sifs

ASSUME EdcaConstants ==
  /\ NTxops \in Nat \ {0} /\ Edca \subseteq Txops
  /\ Aifsn \in [Txops -> Nat \ {0}]
  /\ {Sifs, Slot, FrameTime, AnswerTime, SwitchTime, NavResetTime} \subseteq Nat \ {0}
  /\ AnswerTime > Sifs
  /\ RxTimes \subseteq Nat \ {0} /\ CcaTimes \subseteq Nat /\ NavTimes \subseteq Nat
  /\ {EifsNoDifs, MaxDraw, MaxFrames, MaxEvents} \subseteq Nat

VARIABLES
  dev,      \* the channel access manager, its Txops and MacLow, see Devices
  phy,      \* the PHY and the NAV of MacLow, see Phys
  events,   \* events from outside so far
  heard     \* history: what the medium was reported to be, instant by instant

vars == <<dev, phy, events, heard>>

now == 0     \* Simulator::Now
Never == -1  \* of an event that is not scheduled
Nobody == 0

Event == Nat \cup {Never}

Devices ==
  [rxEnd : Int, rxOk : BOOLEAN, txEnd : Int, busyEnd : Int, navEnd : Int,
   ackEnd : Int, ctsEnd : Int, switchEnd : Int,     \* the m_last... intervals
   sleeping : BOOLEAN,
   timer : Event,                                    \* m_accessTimeout
   requested : [Txops -> BOOLEAN],                  \* m_accessRequested
   slots : [Txops -> Nat], start : [Txops -> Int],  \* m_backoffSlots, m_backoffStart
   frames : [Txops -> Nat],                         \* what the Txop has to send
   owner : {Nobody} \cup Txops,                     \* m_currentTxop
   phase : {"idle", "noack", "ack", "cts", "sifs"}, \* which event of MacLow is scheduled
   held : BOOLEAN,        \* the frame under way is m_currentPacket of its Txop
   due : Event,                                      \* when that event is due
   response : Event,                                 \* m_sendAckEvent or m_sendCtsEvent
   earned : [Txops -> Nat],  \* history: slots that may not have been counted yet
   stranded : SUBSET Txops]  \* history: left behind by a grant that sent nothing

Phys ==
  [rx : Event,   \* when the reception under way ends, or Never
   cca : Int,    \* m_endCcaBusy
   nav : Int,    \* the NAV of MacLow
   reset : Event] \* when m_navCounterResetCtsMissed is due, or Never

(* f itself; TLC works it out here, to compare it, and not at every use.   *)
Computed(f) == CHOOSE g \in {f} : g = f

Later(a, b) == IF a > b THEN a ELSE b
Least(S) == CHOOSE x \in S : \A y \in S : x =< y

-----------------------------------------------------------------------------
(* Deliberately wrong: the NAV is left out, as for PCF.                    *)
GrantStartIgnoringNav(d) ==
  Sifs + Later(d.rxEnd + (IF d.rxEnd =< now /\ ~ d.rxOk THEN EifsNoDifs ELSE 0),
           Later(d.busyEnd, Later(d.txEnd, Later(d.ackEnd, Later(d.ctsEnd, d.switchEnd)))))

(* The arithmetic of ChannelAccessManager.                                 *)

GetAccessGrantStart(d) ==
  Sifs + Later(d.rxEnd + (IF d.rxEnd =< now /\ ~ d.rxOk THEN EifsNoDifs ELSE 0),
           Later(d.busyEnd, Later(d.txEnd, Later(d.navEnd,
             Later(d.ackEnd, Later(d.ctsEnd, d.switchEnd))))))

GetBackoffStartFor(d, t) == Later(d.start[t], GetAccessGrantStart(d) + Aifsn[t] * Slot)
GetBackoffEndFor(d, t) == GetBackoffStartFor(d, t) + d.slots[t] * Slot

IsBusy(d) == \E end \in {d.rxEnd, d.txEnd, d.navEnd, d.busyEnd} : end > now

(* Deliberately wrong: every Txop counts a slot at the end of AIFS.        *)
PassedAsEdca(d, t) ==
  LET full == (now - GetBackoffStartFor(d, t)) \div Slot + 1
  IN  IF GetBackoffStartFor(d, t) > now THEN 0
      ELSE IF full < d.slots[t] THEN full ELSE d.slots[t]

(* Slots of t that have passed: EDCA counts one at the end of AIFS already.*)
Passed(d, t) ==
  LET full == (now - GetBackoffStartFor(d, t)) \div Slot + (IF t \in Edca THEN 1 ELSE 0)
  IN  IF GetBackoffStartFor(d, t) > now THEN 0
      ELSE IF full < d.slots[t] THEN full ELSE d.slots[t]

UpdateBackoff(d) ==
  [d EXCEPT
    !.slots = Computed([t \in Txops |-> @[t] - Passed(d, t)]),
    !.start = Computed([t \in Txops |->
                IF GetBackoffStartFor(d, t) > now THEN @[t]
                ELSE GetBackoffStartFor(d, t) + Passed(d, t) * Slot])]

(* Deliberately wrong: a timer that runs is never moved.                   *)
RestartTimeoutIfNotRunning(d) ==
  LET ends == {GetBackoffEndFor(d, t) : t \in {u \in Txops : d.requested[u]}}
      later == {e \in ends : e > now}
  IN  IF later = {} \/ d.timer # Never THEN d ELSE [d EXCEPT !.timer = Least(later)]

(* The timer is set to the first request that becomes ready, or kept if it *)
(* goes off before.                                                        *)
DoRestartAccessTimeoutIfNeeded(d) ==
  LET ends == {GetBackoffEndFor(d, t) : t \in {u \in Txops : d.requested[u]}}
      later == {e \in ends : e > now}
  IN  IF later = {} \/ (d.timer # Never /\ d.timer =< Least(later)) THEN d
      ELSE [d EXCEPT !.timer = Least(later)]

-----------------------------------------------------------------------------
(* Sending.  A choice c is what a step leaves open: c.draw[t] the backoff  *)
(* that t draws if it draws one, c.kind and c.held how a frame is sent (by *)
(* "none" not at all, as it does not fit into the Wi-Fi window), c.drop if *)
(* the losers of a collision give up a frame.                              *)

Choices ==
  {c \in [draw : [Txops -> 0 .. MaxDraw], kind : {"none", "noack", "ack", "cts"},
          held : BOOLEAN, drop : BOOLEAN] :
     c.kind \in {"none", "noack"} => c.held}

(* Only the backoff of t is open.                                          *)
DrawsOf == [t \in {Nobody} \cup Txops |->
  {c \in Choices : c.kind = "noack" /\ ~ c.drop /\ \A u \in Txops \ {t} : c.draw[u] = 0}]

GenerateBackoff(d, t, c) ==
  [d EXCEPT !.slots[t] = c.draw[t], !.start[t] = now,
            !.earned[t] = c.draw[t]]

(* NotifyTxStartNow, called by the PHY when it starts to send.             *)
NotifyTxStartNow(d) ==
  [UpdateBackoff([d EXCEPT !.rxOk = TRUE, !.rxEnd = IF @ > now THEN now ELSE @])
     EXCEPT !.txEnd = now + FrameTime]

(* Deliberately wrong: the manager is not told that an answer is awaited.  *)
SendAsUnnoticed(d, kind) ==
  NotifyTxStartNow([d EXCEPT !.phase = kind,
    !.due = now + FrameTime + (IF kind = "noack" THEN 0 ELSE AnswerTime)])

(* SendRtsForPacket and StartDataTxTimers, then the PHY sends.             *)
SendAs(d, kind) ==
  LET wait == now + FrameTime + AnswerTime
      timed == CASE kind = "cts" -> [d EXCEPT !.ctsEnd = wait, !.due = wait]
                 [] kind = "ack" -> [d EXCEPT !.ackEnd = wait, !.due = wait]
                 [] kind = "noack" -> [d EXCEPT !.due = now + FrameTime]
  IN  NotifyTxStartNow([timed EXCEPT !.phase = kind])

(* StartTransmission cancels whatever MacLow had scheduled.                *)
StartTransmission(d, t, c) ==
  SendAs([d EXCEPT !.owner = t, !.held = c.held, !.response = Never],
         IF c.kind = "none" THEN "noack" ELSE c.kind)

SendsNothing(d, t, c) == d.frames[t] = 0 \/ (t \in Edca /\ c.kind = "none")

NotifyAccessGranted(d, t, c) ==
  LET granted == [d EXCEPT !.requested[t] = FALSE, !.stranded = @ \ {t}]
  IN  IF d.frames[t] = 0 THEN granted
      ELSE IF SendsNothing(d, t, c) THEN [granted EXCEPT !.stranded = @ \cup {t}]
      ELSE StartTransmission(granted, t, c)

Ready(d) == {t \in Txops : d.requested[t] /\ GetBackoffEndFor(d, t) =< now}

(* What is open when access is granted to those that are ready in d.       *)
Offers(d) ==
  LET losers == Ready(d) \ {Least(Ready(d))}
  IN  IF Ready(d) = {} THEN DrawsOf[Nobody]
      ELSE {c \in Choices : /\ losers = {} => ~ c.drop
                            /\ \A t \in Txops \ losers : c.draw[t] = 0}

(* NotifyInternalCollision of the losers: they keep their request.  If the *)
(* winner sent nothing, the slot boundary that it was granted at counts as *)
(* the first slot of an EDCA loser, and a loser that draws none is left    *)
(* behind: its backoff has ended already, so that no timer is set for it.  *)
Collide(d, losers, c, silent) ==
  [d EXCEPT
    !.slots = Computed([t \in Txops |-> IF t \in losers THEN c.draw[t] ELSE @[t]]),
    !.start = Computed([t \in Txops |-> IF t \in losers THEN now ELSE @[t]]),
    !.earned = [t \in Txops |-> IF t \notin losers THEN @[t]
                  ELSE IF silent /\ t \in Edca /\ c.draw[t] > 0 THEN c.draw[t] - 1
                  ELSE c.draw[t]],
    !.frames = [t \in Txops |-> IF t \in losers /\ c.drop /\ @[t] > 0 THEN @[t] - 1 ELSE @[t]],
    !.stranded = @ \cup {t \in losers : silent /\ c.draw[t] = 0}]

DoGrantDcfAccess(d, c) ==
  LET winner == Least(Ready(d))
  IN  IF Ready(d) = {} THEN d
      ELSE Collide(NotifyAccessGranted(d, winner, c), Ready(d) \ {winner}, c,
                   SendsNothing(d, winner, c))

(* EDCA starts at a slot boundary.                                         *)
AlignBackoffStart(d, t) ==
  LET from == GetAccessGrantStart(d) + Aifsn[t] * Slot
  IN  IF t \in Edca /\ d.start[t] > from
      THEN [d EXCEPT !.start[t] = from + ((@ - from) \div Slot + 1) * Slot]
      ELSE d

AccessRequested(d, t) ==
  [UpdateBackoff(AlignBackoffStart(d, t)) EXCEPT !.requested[t] = TRUE, !.stranded = @ \ {t}]

RequestAccess(d, t, c) ==
  IF d.sleeping THEN d
  ELSE DoRestartAccessTimeoutIfNeeded(DoGrantDcfAccess(AccessRequested(d, t), c))

(* A frame under way that is not m_currentPacket is outstanding only.      *)
HasFramesToTransmit(d, t) ==
  d.frames[t] > (IF d.owner = t /\ ~ d.held THEN 1 ELSE 0)

RestartAccessIfNeeded(d, t, c) ==
  IF HasFramesToTransmit(d, t) /\ ~ d.requested[t] THEN RequestAccess(d, t, c) ELSE d

(* Deliberately wrong: a backoff is drawn, but no access requested.        *)
ExchangeEndsQuietly(d, n, c) ==
  GenerateBackoff([d EXCEPT !.owner = Nobody, !.phase = "idle", !.due = Never,
                            !.held = FALSE, !.frames[d.owner] = n], d.owner, c)

(* The exchange of MacLow is over, and its Txop has n frames left.         *)
ExchangeEnds(d, n, c) ==
  LET t == d.owner
      over == [d EXCEPT !.owner = Nobody, !.phase = "idle", !.due = Never,
                        !.held = FALSE, !.frames[t] = n]
  IN  RestartAccessIfNeeded(GenerateBackoff(over, t, c), t, c)

-----------------------------------------------------------------------------
(* The history of the medium as it was reported: when it was last busy or  *)
(* used by the exchange under way, when the EIFS after a bad frame ends,   *)
(* and for each Txop the latest start of its backoff since it waits.       *)

Init ==
  /\ events = 0
  /\ dev \in {[rxEnd |-> now, rxOk |-> TRUE, txEnd |-> now, busyEnd |-> now,
               navEnd |-> now, ackEnd |-> now, ctsEnd |-> now, switchEnd |-> now,
               sleeping |-> FALSE, timer |-> Never,
               requested |-> [t \in Txops |-> FALSE],
               slots |-> draw, start |-> [t \in Txops |-> now],
               frames |-> [t \in Txops |-> 0],
               owner |-> Nobody, phase |-> "idle", held |-> FALSE, due |-> Never,
               response |-> Never, earned |-> draw, stranded |-> {}] :
               draw \in [Txops -> 0 .. MaxDraw]}
  /\ phy = [rx |-> Never, cca |-> now, nav |-> now, reset |-> Never]
  /\ heard = [busy |-> now, bad |-> now, until |-> [t \in Txops |-> now]]

LastEnd(d) ==
  LET ends == {d.rxEnd, d.txEnd, d.busyEnd, d.navEnd, d.ackEnd, d.ctsEnd, d.switchEnd}
  IN  CHOOSE end \in ends : \A e \in ends : e =< end

(* The latest instant from which the backoff of t may be counted: AIFS     *)
(* after the last end and after the EIFS of a bad frame, or its own start. *)
LatestStart(d, t) ==
  LET bad == IF d.rxOk THEN LastEnd(d) ELSE Later(LastEnd(d), d.rxEnd + EifsNoDifs)
  IN  Later(d.start[t], bad + Sifs + Aifsn[t] * Slot)

(* What has been heard when the device is d after a step.                  *)
Heard(d) ==
  [heard EXCEPT !.until = [t \in Txops |-> Later(@[t], LatestStart(d, t))]]

Becomes(d) == dev' = d /\ heard' = Heard(d)

(* One instant without an event.  The history counts, instant by instant,  *)
(* the slot boundaries at which the medium has been idle for AIFS.         *)
QuietSince == Later(heard.busy, heard.bad)
InUse == IsBusy(dev) \/ dev.phase \in {"noack", "ack", "cts"} \/ dev.switchEnd > now

SlotPasses(t) ==
  LET aifs == heard.busy + Sifs + Aifsn[t] * Slot
      from == Later(dev.start[t], aifs)
  IN  /\ ~ InUse
      /\ now + 1 >= aifs /\ (now + 1 - from) % Slot = 0
      /\ now + 1 > from \/ (t \in Edca /\ now + 1 = from)

Scheduled == {dev.timer, dev.due, dev.response, phy.rx, phy.reset} \ {Never}

Oldest == 0 - (Sifs + EifsNoDifs
            + (MaxDraw + 1 + Aifsn[CHOOSE t \in Txops : \A u \in Txops : Aifsn[u] =< Aifsn[t]]) * Slot)

Older(time) == IF time = Oldest THEN time - 1 + Slot ELSE time - 1
Nearer(event) == IF event = Never THEN Never ELSE event - 1

(* A time that has passed no longer matters after a later one: intervals   *)
(* are cut short to the present, never to the past.                        *)
Forget(time, later) == IF time =< now /\ time < later THEN Oldest ELSE Older(time)

Tick ==
  /\ \A e \in Scheduled : e > now
  /\ LET last == LastEnd(dev)
     IN  dev' = [dev EXCEPT
           !.rxEnd = IF dev.rxOk THEN Forget(@, last) ELSE Older(@),
           !.txEnd = Forget(@, last), !.busyEnd = Forget(@, last),
           !.navEnd = Forget(@, last), !.ackEnd = Forget(@, last),
           !.ctsEnd = Forget(@, last), !.switchEnd = Forget(@, last),
           !.start = [t \in Txops |-> Forget(@[t], heard.busy + Sifs + Aifsn[t] * Slot)],
           !.timer = Nearer(@), !.due = Nearer(@), !.response = Nearer(@),
           !.earned = [t \in Txops |-> IF @[t] > 0 /\ SlotPasses(t) THEN @[t] - 1 ELSE @[t]]]
  /\ phy' = [rx |-> Nearer(phy.rx), cca |-> Forget(phy.cca, now + 1),
             nav |-> Forget(phy.nav, now + 1), reset |-> Nearer(phy.reset)]
  /\ heard' = [busy |-> IF InUse THEN now ELSE Older(heard.busy),
               bad |-> IF dev.rxEnd > now \/ dev.txEnd > now \/ dev.switchEnd > now
                       THEN Oldest ELSE Forget(heard.bad, heard.busy + 1),
               until |-> [t \in Txops |-> Older(IF dev.requested[t] THEN heard.until[t]
                                                ELSE LatestStart(dev, t))]]
  /\ UNCHANGED events

-----------------------------------------------------------------------------
(* The Txops: packets from above, lifetimes, and the timer.                *)

Outside == events < MaxEvents /\ events' = events + 1

(* NeedBackoffUponAccess, with the backoff drawn if it says so.            *)
BackoffUponAccess(d, t, c) ==
  LET current == UpdateBackoff(d)
  IN  IF d.sleeping THEN d
      ELSE IF HasFramesToTransmit(current, t) \/ current.slots[t] # 0 THEN current
      ELSE IF IsBusy(current) THEN GenerateBackoff(current, t, c)
      ELSE [current EXCEPT !.start[t] =
              now + (IF t \in Edca THEN 0 ELSE Sifs + Aifsn[t] * Slot)]

Queue(t) ==
  LET queued(c) == [BackoffUponAccess(dev, t, c) EXCEPT !.frames[t] = @ + 1]
      asks == ~ (dev.owner = t /\ dev.held) /\ ~ dev.requested[t]
  IN  /\ Outside /\ dev.frames[t] < MaxFrames
      /\ \/ /\ ~ asks \/ dev.sleeping
            /\ \E c \in DrawsOf[t] : Becomes(queued(c))
         \/ /\ asks
            /\ \E b \in DrawsOf[t] :
                 \E c \in Offers(AccessRequested(queued(b), t)) :
                   Becomes(RequestAccess(queued(b), t, c))
      /\ UNCHANGED phy

(* Deliberately wrong: it may be the frame under way.                      *)
ExpireAny(t) ==
  /\ Outside /\ Becomes([dev EXCEPT !.frames[t] = @ - 1])
  /\ UNCHANGED phy

(* A frame that is not under way is too old.                               *)
Expire(t) ==
  /\ Outside /\ dev.frames[t] > (IF dev.owner = t THEN 1 ELSE 0)
  /\ Becomes([dev EXCEPT !.frames[t] = @ - 1])
  /\ UNCHANGED phy

(* Deliberately wrong: the timer is not set for those who still wait.      *)
AccessTimeoutOnce ==
  LET d == UpdateBackoff([dev EXCEPT !.timer = Never])
  IN  /\ dev.timer = now
      /\ \E c \in Offers(d) : Becomes(DoGrantDcfAccess(d, c))
      /\ UNCHANGED <<phy, events>>

AccessTimeout ==
  LET d == UpdateBackoff([dev EXCEPT !.timer = Never])
  IN  /\ dev.timer = now
      /\ \E c \in Offers(d) :
           Becomes(DoRestartAccessTimeoutIfNeeded(DoGrantDcfAccess(d, c)))
      /\ UNCHANGED <<phy, events>>

-----------------------------------------------------------------------------
(* Receptions.  The PHY reports the start to the channel access manager    *)
(* and to MacLow, which puts off a timeout and keeps the NAV.              *)

Hears == ~ dev.sleeping /\ dev.switchEnd =< now
Transmits == dev.txEnd > now

(* MacLow hears of the frame after its PHY header: a timeout that is due   *)
(* when the frame starts goes off before, and is not put off.              *)
Awaits == dev.phase \in {"ack", "cts"} /\ dev.due > now

RxStart(d) ==
  LET started == [UpdateBackoff(dev) EXCEPT !.rxEnd = now + d, !.rxOk = TRUE]
      putOff == [started EXCEPT !.due = now + d]
  IN  /\ IF Awaits THEN UNCHANGED events ELSE Outside
      /\ Hears /\ ~ Transmits /\ phy.rx = Never
      /\ Becomes(IF ~ Awaits THEN started
                 ELSE IF dev.phase = "ack"
                      THEN DoRestartAccessTimeoutIfNeeded([putOff EXCEPT !.ackEnd = now])
                      ELSE DoRestartAccessTimeoutIfNeeded([putOff EXCEPT !.ctsEnd = now]))
      /\ phy' = [phy EXCEPT !.rx = now + d, !.reset = IF Awaits THEN @ ELSE Never]

RxEnds == phy.rx = now /\ UNCHANGED events

(* A reception ends when it was announced to end: SwitchFromRxEndError     *)
(* asserts m_endRx == Simulator::Now (), and a reception that is given up  *)
(* goes to NotifyRxEndOkNow.  The branch of NotifyRxEndErrorNow for an     *)
(* earlier end is therefore never taken.                                   *)
RxEndError ==
  /\ RxEnds
  /\ dev' = [dev EXCEPT !.rxEnd = now, !.rxOk = FALSE]
  /\ heard' = [Heard(dev') EXCEPT !.bad = now + EifsNoDifs]
  /\ phy' = [phy EXCEPT !.rx = Never]

(* The answer to the data: n frames are left to send.                      *)
ReceiveAck(n, c) ==
  /\ RxEnds /\ dev.phase = "ack" /\ n =< dev.frames[dev.owner]
  /\ Becomes(ExchangeEnds(DoRestartAccessTimeoutIfNeeded([dev EXCEPT !.ackEnd = now]), n, c))
  /\ phy' = [phy EXCEPT !.rx = Never]

ReceiveCts ==
  /\ RxEnds /\ dev.phase = "cts"
  /\ Becomes([DoRestartAccessTimeoutIfNeeded([dev EXCEPT !.ctsEnd = now])
                EXCEPT !.phase = "sifs", !.due = now + Sifs])
  /\ phy' = [phy EXCEPT !.rx = Never]

(* A frame for this device that is answered after SIFS.                    *)
ReceiveRequest ==
  /\ RxEnds
  /\ Becomes([dev EXCEPT !.response = now + Sifs])
  /\ phy' = [phy EXCEPT !.rx = Never]

(* A frame for another device sets the NAV; an RTS also starts the timer   *)
(* after which the NAV is reset.                                           *)
NotifyNav(d, rts) ==
  LET end == now + d
  IN  /\ RxEnds /\ (rts => d > NavResetTime /\ phy.reset = Never)
      /\ Becomes([UpdateBackoff(dev) EXCEPT !.navEnd = Later(@, end)])
      /\ phy' = [phy EXCEPT !.rx = Never, !.nav = Later(@, end),
                            !.reset = IF rts /\ end > phy.nav THEN now + NavResetTime ELSE @]

DoNavResetNow ==
  /\ phy.reset = now
  /\ Becomes(DoRestartAccessTimeoutIfNeeded([UpdateBackoff(dev) EXCEPT !.navEnd = now]))
  /\ phy' = [phy EXCEPT !.reset = Never, !.nav = now]
  /\ UNCHANGED events

(* CCA reports energy on the channel; the report may end before an earlier *)
(* one does.                                                               *)
NotifyMaybeCcaBusyStart(d) ==
  /\ Outside /\ Hears /\ phy.rx = Never
  /\ Becomes([UpdateBackoff(dev) EXCEPT !.busyEnd = now + d])
  /\ phy' = [phy EXCEPT !.cca = Later(@, now + d)]

-----------------------------------------------------------------------------
(* The exchange under way and the answers to others.  What the device      *)
(* sends ends a reception that has begun within the last SIFS.             *)

ExchangeTimeout(n, c) ==
  /\ dev.due = now /\ dev.phase \in {"ack", "cts"} /\ phy.rx # now
  /\ n \in {dev.frames[dev.owner], dev.frames[dev.owner] - 1}
  /\ Becomes(ExchangeEnds(dev, n, c))
  /\ UNCHANGED <<phy, events>>

EndTxNoAck(c) ==
  /\ dev.due = now /\ dev.phase = "noack"
  /\ Becomes(ExchangeEnds(dev, dev.frames[dev.owner] - 1, c))
  /\ UNCHANGED <<phy, events>>

SendDataAfterCts(kind) ==
  /\ dev.due = now /\ dev.phase = "sifs"
  /\ Becomes(SendAs(dev, kind))
  /\ phy' = [phy EXCEPT !.rx = Never]
  /\ UNCHANGED events

SendResponse ==
  /\ dev.response = now
  /\ Becomes(NotifyTxStartNow([dev EXCEPT !.response = Never]))
  /\ phy' = [phy EXCEPT !.rx = Never]
  /\ UNCHANGED events

-----------------------------------------------------------------------------
(* Sleep and channel switch, which the PHY puts off while it sends.        *)

(* CancelAllEvents.  Frames that are outstanding under block ack are not   *)
(* to be sent again before a BlockAck tells.                               *)
CancelExchange(d) ==
  [d EXCEPT !.owner = Nobody, !.phase = "idle", !.due = Never, !.response = Never,
            !.held = FALSE, !.timer = Never,
            !.frames = [t \in Txops |-> IF t = d.owner /\ ~ d.held THEN @[t] - 1 ELSE @[t]]]

NotifySleepNow ==
  /\ Outside /\ Hears /\ ~ Transmits /\ phy.rx = Never
  /\ Becomes([CancelExchange(dev) EXCEPT !.sleeping = TRUE])
  /\ phy' = [phy EXCEPT !.nav = now, !.reset = Never]

(* The Txops are woken one after the other; a request of the first may be  *)
(* granted while the requests of the others are those from before.         *)
NotifyWakeupNow(c) ==
  /\ Outside /\ dev.sleeping
  /\ LET rested(d, t) ==
           [d EXCEPT !.start[t] = IF d.slots[t] > 0 THEN now ELSE @, !.slots[t] = 0,
                     !.earned[t] = 0, !.requested[t] = FALSE]
         woken[t \in 0 .. NTxops] ==
           IF t = 0 THEN [dev EXCEPT !.sleeping = FALSE]
           ELSE RestartAccessIfNeeded(rested(woken[t - 1], t), t, c)
         awake == woken[NTxops]
     IN  \E d \in {0} \cup CcaTimes :
           LET cca == Later(phy.cca, now + d)
           IN  /\ phy' = [phy EXCEPT !.cca = cca]
               /\ Becomes(IF cca > now THEN [UpdateBackoff(awake) EXCEPT !.busyEnd = cca]
                          ELSE awake)

(* All the intervals end; the queues are flushed, but what an EDCA Txop    *)
(* has to retransmit is left, without a request.                           *)
NotifySwitchingStartNow(left) ==
  LET cut(end) == IF end > now THEN now ELSE end
      d == CancelExchange(dev)
  IN  /\ Outside /\ Hears /\ ~ Transmits
      /\ \A t \in Txops : left[t] =< (IF t \in Edca THEN d.frames[t] ELSE 0)
      /\ Becomes([d EXCEPT
           !.rxOk = TRUE, !.rxEnd = cut(@), !.navEnd = cut(@), !.busyEnd = cut(@),
           !.ackEnd = cut(@), !.ctsEnd = cut(@), !.switchEnd = now + SwitchTime,
           !.start = [t \in Txops |-> IF dev.slots[t] > 0 THEN now ELSE @[t]],
           !.slots = [t \in Txops |-> 0], !.earned = [t \in Txops |-> 0],
           !.requested = [t \in Txops |-> FALSE], !.frames = left,
           !.stranded = {t \in Txops : left[t] > 0}])
      /\ phy' = [phy EXCEPT !.rx = Never, !.cca = cut(@), !.nav = now, !.reset = Never]

-----------------------------------------------------------------------------
Ending(c) ==
  \/ \E n \in 0 .. MaxFrames : ReceiveAck(n, c) \/ ExchangeTimeout(n, c)
  \/ EndTxNoAck(c)

Receiving ==
  \/ \E d \in RxTimes : RxStart(d)
  \/ RxEndError \/ ReceiveCts \/ ReceiveRequest
  \/ \E d \in NavTimes, rts \in BOOLEAN : NotifyNav(d, rts)
  \/ DoNavResetNow
  \/ \E d \in CcaTimes : NotifyMaybeCcaBusyStart(d)

Sending ==
  \/ \E kind \in {"ack", "noack"} : SendDataAfterCts(kind)
  \/ SendResponse

Next ==
  \/ Tick
  \/ \E t \in Txops : Queue(t) \/ Expire(t)
  \/ AccessTimeout
  \/ \E c \in DrawsOf[dev.owner] : Ending(c)
  \/ Receiving \/ Sending
  \/ NotifySleepNow
  \/ \E c \in Choices : NotifyWakeupNow(c)
  \/ \E left \in [Txops -> 0 .. MaxFrames] : NotifySwitchingStartNow(left)

Spec == Init /\ [][Next]_vars

-----------------------------------------------------------------------------
(* Properties.                                                             *)

(* Every variable keeps its type.                                          *)
TypeOK ==
  /\ events \in 0 .. MaxEvents
  /\ dev \in Devices /\ phy \in Phys
  /\ heard \in [busy : Int, bad : Int, until : [Txops -> Int]]

Starts(t) == dev'.owner = t /\ dev.owner # t

(* The rule of the channel: whoever starts an exchange does so after the   *)
(* medium was reported idle for AIFS, or AIFS after the EIFS of a bad      *)
(* frame, however the intervals overlapped, were cut short or extended.    *)
(* DoGrantDcfAccess sees only the end of the last interval of each kind.   *)
GrantsWait ==
  [][\A t \in Txops :
       Starts(t) => ~ InUse /\ now >= QuietSince + Sifs + Aifsn[t] * Slot]_vars

(* No step starts to send while the device is sending; an exchange is      *)
(* given up only for sleep or a channel switch, and so is an answer that   *)
(* is due.  MacLow::StartTransmission would cancel both without a word.    *)
Interrupts == dev'.sleeping # dev.sleeping \/ dev'.switchEnd # dev.switchEnd
NoInterruption ==
  [][/\ dev'.txEnd > Later(dev.txEnd, now) => dev.txEnd =< now
     /\ dev.owner # Nobody /\ dev'.owner # dev.owner =>
          dev'.owner = Nobody /\ (now = dev.due \/ now = phy.rx \/ Interrupts)
     /\ dev.response # Never /\ dev'.response = Never =>
          now = dev.response \/ Interrupts]_vars

(* UpdateBackoff works out afterwards, from the last intervals, how many   *)
(* slots have passed.  It never takes more of a backoff than the slots     *)
(* that were counted while they passed, the medium idle for AIFS or more.  *)
BackoffCountsIdleSlots == \A t \in Txops : dev.slots[t] >= dev.earned[t]

(* While access is requested the timer that grants it is running, unless   *)
(* the Txop lost an internal collision to one that sent nothing.           *)
RequestIsTimed ==
  \A t \in Txops :
    dev.requested[t] /\ ~ dev.sleeping => dev.timer # Never \/ t \in dev.stranded

(* A request is granted, or loses a collision, within the longest backoff  *)
(* of the latest instant from which, since it was made, the backoff could  *)
(* be counted: no interval that is cut short leaves the timer set for too  *)
(* late.                                                                   *)
AccessIsBounded ==
  \A t \in Txops :
    dev.requested[t] /\ ~ dev.sleeping /\ t \notin dev.stranded =>
      now =< heard.until[t] + MaxDraw * Slot

(* A Txop that has something to send has asked for access, or its exchange *)
(* is under way: no event may consume a request without renewing it.       *)
WorkIsRequested ==
  \A t \in Txops :
    HasFramesToTransmit(dev, t) /\ ~ dev.sleeping =>
      dev.requested[t] \/ dev.owner = t \/ t \in dev.stranded

=============================================================================
