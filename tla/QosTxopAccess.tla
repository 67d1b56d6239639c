---------------------------- MODULE QosTxopAccess ----------------------------
(***************************************************************************)
(* One EDCA function of the access point (QosTxop): how an MSDU goes from  *)
(* the queue to the air, with the part of MacLow that runs its exchanges   *)
(* and the part of BlockAckManager that keeps what must be sent again.     *)
(* There is one station, one TID, and group addressed frames.              *)
(*                                                                         *)
(* An MSDU waits in m_queue.  On an access grant it is numbered and sent:  *)
(* alone and held as m_currentPacket while no block ack agreement exists,  *)
(* else in an A-MPDU whose frames are outstanding until a BlockAck tells   *)
(* which of them go to the retransmit queue.                               *)
(*                                                                         *)
(* Sequence numbers are abstracted to the order of unfinished frames.  The *)
(* transmission window of the program is the number of MPDUs that fit when *)
(* access is granted, zero if not even one does.                           *)
(*                                                                         *)
(* Definitions whose comment starts with "Deliberately wrong" are no part  *)
(* of the model: each replaces a definition of it to test a property.      *)
(***************************************************************************)
EXTENDS Integers, Sequences, FiniteSets

CONSTANTS
  Msdus,              \* MSDUs for the station; one may come again later
  GroupMsdus,         \* group addressed MSDUs
  NoMsdu,             \* the null packet
  MaxQueueSize,       \* MaxSize of the WifiMacQueue
  MaxAmpdu,           \* most MPDUs that fit into a PPDU
  MaxSsrc,            \* m_maxSsrc of the station manager
  UseRts,             \* unicast PPDUs above a size are protected by RTS/CTS
  WindowMayClose,     \* the transmission window of the program is in use
  InternalCollisions, \* another EDCA function of the device is in use
  ResponsesOverlap    \* the station may have missed what the AP sent, and send
                      \* its response while the AP waits for an answer

ASSUME TxopConstants ==
  /\ IsFiniteSet(Msdus) /\ Msdus \cap GroupMsdus = {}
  /\ NoMsdu \notin Msdus \cup GroupMsdus
  /\ MaxQueueSize \in Nat \ {0} /\ MaxAmpdu \in Nat \ {0} /\ MaxSsrc \in Nat
  /\ {UseRts, WindowMayClose, InternalCollisions, ResponsesOverlap} \subseteq BOOLEAN

VARIABLES
  queue,           \* m_queue
  current,         \* m_currentPacket and m_currentHdr
  accessRequested, \* m_accessRequested
  retries,         \* m_ssrc of this access category
  expired,         \* frames past m_maxDelay
  ba,              \* frames with a number, and where BlockAckManager has them
  agreement,       \* state of the agreement; "none" when there is none
  blocked,         \* the station is in m_qosBlockedDestinations
  addBaTimer,      \* AddBaResponseTimeout is scheduled
  resetTimer,      \* ResetBa is scheduled
  exchange,        \* the frame exchange of MacLow
  requestHeard,    \* the station has received the ADDBA request
  response         \* its ADDBA response is under way

setupVars == <<agreement, blocked, addBaTimer, resetTimer, requestHeard, response>>
vars == <<queue, current, accessRequested, retries, expired, ba, setupVars, exchange>>

AnyMsdu == Msdus \cup GroupMsdus
Elements(s) == {s[i] : i \in DOMAIN s}

(* The elements of s that are in the set, and those that are not, in their *)
(* order.  A recursive function, so that it can be reasoned about.         *)
Only(s, set) ==
  LET kept[n \in 0 .. Len(s)] ==
        IF n = 0 THEN <<>>
        ELSE IF s[n] \in set THEN Append(kept[n - 1], s[n]) ELSE kept[n - 1]
  IN  kept[Len(s)]
Without(s, set) == Only(s, Elements(s) \ set)

Nothing == [kind |-> "none", msdu |-> NoMsdu]
Packet(kind, m) == [kind |-> kind, msdu |-> m]
Idle == [phase |-> "idle", answer |-> "none", mpdus |-> <<>>]
NoFrames == [numbered |-> <<>>, retry |-> {}, outstanding |-> {}, bar |-> "none"]

-----------------------------------------------------------------------------
(* The queue and BlockAckManager.                                          *)

(* What has expired is skipped and removed by every access to the queue.   *)
Fresh(q) == Without(q, expired)
ForStation(q) == Only(q, Msdus)
Available(q) == IF blocked THEN Only(Fresh(q), GroupMsdus) ELSE Fresh(q)

InOrder(b, set) == Only(b.numbered, set)
Place(b, m) == CHOOSE i \in DOMAIN b.numbered : b.numbered[i] = m

(* The window moves past the frames of the set, and what becomes old is    *)
(* given up: RemoveOldPackets and the agreement's NotifyDiscardedMpdu.     *)
MovePast(b, set) ==
  LET gone == {m \in Elements(b.numbered) :
                 \E d \in set \cap Elements(b.numbered) : Place(b, m) =< Place(b, d)}
  IN  [b EXCEPT !.numbered = Without(@, gone),
                !.retry = @ \ gone, !.outstanding = @ \ gone]

(* Deliberately wrong: the number of the frame is not released.            *)
FinishedByHalf(b, set) == [b EXCEPT !.retry = @ \ set, !.outstanding = @ \ set]

(* Deliberately wrong: the frame stays outstanding.                        *)
FinishedButOutstanding(b, set) ==
  [b EXCEPT !.numbered = Without(@, set), !.retry = @ \ set]

(* Frames that are acknowledged, or given up without an agreement.         *)
Finished(b, set) ==
  [b EXCEPT !.numbered = Without(@, set),
            !.retry = @ \ set, !.outstanding = @ \ set]

(* NotifyDiscardedMpdu: the recipient is told by a BAR.                    *)
NotifyDiscardedMpdu(b, set) ==
  IF agreement = "established" /\ set \cap Elements(b.numbered) # {}
  THEN [MovePast(b, set) EXCEPT !.bar = "bar"]
  ELSE b

(* The Expired trace of the retransmit queue is that function, too.        *)
Cleaned(b) == NotifyDiscardedMpdu(b, b.retry \cap expired)

(* GetBar: is there a BAR to send?  One that may be skipped waits for data.*)
BarReady(b, q) ==
  \/ b.bar = "bar"
  \/ b.bar = "skip" /\ (b.retry # {} \/ ForStation(q) # <<>>)

(* It also gives up outstanding frames that have expired.                  *)
GetBar(b, q) == IF BarReady(b, q) THEN MovePast(b, b.outstanding \cap expired) ELSE b

PeekNextFrame(b, q) ==
  LET again == InOrder(b, b.retry \ expired)
  IN  IF again # <<>> /\ ~ blocked THEN Head(again)
      ELSE IF Available(q) # <<>> THEN Head(Available(q)) ELSE NoMsdu

-----------------------------------------------------------------------------
(* Asking for access.                                                      *)

HasWork(b, q) == b.retry # {} \/ BarReady(b, q) \/ q # <<>>

(* HasPackets looks for a BAR only when the retransmit queue is empty.     *)
AfterHasPackets(b, q) ==
  IF Cleaned(b).retry # {} THEN Cleaned(b) ELSE GetBar(Cleaned(b), q)

(* Deliberately wrong: the packet that is held is not counted as work.     *)
RestartWithoutHeld(packet, q, b) ==
  LET kept == AfterHasPackets(b, Fresh(q))
  IN  /\ current' = packet
      /\ queue' = Fresh(q)
      /\ ba' = kept
      /\ accessRequested' = (accessRequested \/ HasWork(kept, Fresh(q)))

(* RestartAccessIfNeeded, after a handler has left packet as the current   *)
(* one, q in the queue and b with the block ack manager.                   *)
RestartAccessIfNeeded(packet, q, b) ==
  LET kept == AfterHasPackets(b, Fresh(q))
  IN  /\ current' = packet
      /\ queue' = Fresh(q)
      /\ ba' = kept
      /\ accessRequested' = (accessRequested \/ packet # Nothing
                                             \/ HasWork(kept, Fresh(q)))

(* StartAccessIfNeeded does not ask again for the current packet.          *)
StartAccessIfNeeded(q) ==
  LET kept == AfterHasPackets(ba, q)
  IN  /\ queue' = q
      /\ ba' = kept
      /\ accessRequested' = (accessRequested \/ (current = Nothing /\ HasWork(kept, q)))
      /\ UNCHANGED current

InSystem(m) ==
  \/ m \in Elements(queue)
  \/ m \in Elements(ba.numbered)
  \/ current.msdu = m

(* Txop::Queue.  A full queue drops the newcomer, and still asks for access.*)
Queue(m) ==
  /\ InSystem(m) => m \in expired \cap Elements(queue) /\ current.msdu # m
  /\ Len(Fresh(queue)) < MaxQueueSize
  /\ expired' = expired \ {m}
  /\ StartAccessIfNeeded(Append(Fresh(queue), m))
  /\ UNCHANGED <<retries, setupVars, exchange>>

(* Deliberately wrong: a full queue drops the oldest MSDU.                 *)
OverflowDropsOldest ==
  /\ Len(Fresh(queue)) = MaxQueueSize
  /\ StartAccessIfNeeded(Tail(Fresh(queue)))
  /\ UNCHANGED <<retries, expired, setupVars, exchange>>

QueueOverflow ==
  /\ Len(Fresh(queue)) = MaxQueueSize
  /\ StartAccessIfNeeded(Fresh(queue))
  /\ UNCHANGED <<retries, expired, setupVars, exchange>>

(* The lifetime of a frame ends.  Frames of the station expire in the order*)
(* in which they came.                                                     *)
Expire(m) ==
  /\ InSystem(m) /\ m \notin expired
  /\ m \in Msdus =>
       LET fifo == ba.numbered \o ForStation(Fresh(queue))
       IN  \A i, j \in DOMAIN fifo : fifo[i] = m /\ j < i => fifo[j] \in expired
  /\ expired' = expired \cup {m}
  /\ UNCHANGED <<queue, current, accessRequested, retries, ba, setupVars, exchange>>

-----------------------------------------------------------------------------
(* The access grant.                                                       *)

LifetimeOver == current.kind \in {"data", "group"} /\ current.msdu \in expired
Held == IF LifetimeOver THEN Nothing ELSE current
Kept == Cleaned(IF LifetimeOver THEN Finished(ba, {current.msdu}) ELSE ba)

(* ConstantWifiAckPolicySelector::UpdateTxParams.  A single MPDU that is   *)
(* not the first of the window is not answered, a BAR follows it.          *)
AnswerTo(b, mpdus) ==
  IF agreement # "established" THEN "ack"
  ELSE IF Len(mpdus) > 1 THEN "blockAck"
  ELSE IF mpdus[1] = Head(b.numbered) THEN "ack" ELSE "none"

(* CompleteMpduTx of each MPDU, and the BAR that SendDataPacket schedules. *)
Sent(b, answer, mpdus) ==
  IF agreement = "established"
  THEN [b EXCEPT !.outstanding = @ \cup (Elements(mpdus) \cap Elements(b.numbered)),
                 !.bar = IF answer = "none" THEN "bar" ELSE @]
  ELSE b

(* MacLow transmits unicast data, after an RTS if the PPDU is long.        *)
Transmit(b, mpdus) ==
  LET answer == AnswerTo(b, mpdus)
  IN  \/ /\ UseRts
         /\ exchange' = [phase |-> "rts", answer |-> answer, mpdus |-> mpdus]
         /\ ba' = b
      \/ /\ exchange' = [phase |-> "sent", answer |-> answer, mpdus |-> mpdus]
         /\ ba' = Sent(b, answer, mpdus)

TransmitOther(answer) ==
  exchange' = [phase |-> "sent", answer |-> answer, mpdus |-> <<>>]

(* What an access grant starts from.                                       *)
Granted == accessRequested /\ exchange = Idle

(* The number of MPDUs that fit is found when the PPDU is put together.    *)
Fitting == IF WindowMayClose THEN 0 .. MaxAmpdu ELSE 1 .. MaxAmpdu

(* A packet is held from an earlier grant.  Data is sent again only if it  *)
(* fits; if not, StartTransmission returns, and leaves it as it is.        *)
SendHeld(fit) ==
  /\ Granted /\ Held # Nothing
  /\ accessRequested' = FALSE
  /\ current' = Held
  /\ \/ Held.kind = "data" /\ fit > 0 /\ Transmit(Kept, <<Held.msdu>>)
     \/ Held.kind = "data" /\ fit = 0 /\ ba' = Kept /\ UNCHANGED exchange
     \/ Held.kind = "group" /\ ba' = Kept /\ TransmitOther("none")
     \/ Held.kind = "addBa" /\ ba' = Kept /\ TransmitOther("ack")
     \/ Held.kind = "bar" /\ ba' = Kept /\ TransmitOther("blockAck")
  /\ UNCHANGED <<queue, retries, expired, setupVars>>

SendBar ==
  /\ Granted /\ Held = Nothing /\ BarReady(Kept, Fresh(queue))
  /\ accessRequested' = FALSE
  /\ current' = Packet("bar", NoMsdu)
  /\ ba' = [GetBar(Kept, Fresh(queue)) EXCEPT !.bar = "none"]
  /\ TransmitOther("blockAck")
  /\ UNCHANGED <<queue, retries, expired, setupVars>>

NextFrame == PeekNextFrame(Kept, queue)

NothingHeld ==
  /\ Granted /\ Held = Nothing /\ ~ BarReady(Kept, Fresh(queue))
  /\ accessRequested' = FALSE
  /\ UNCHANGED <<retries, expired>>

NothingToSend ==
  /\ NothingHeld /\ NextFrame = NoMsdu
  /\ current' = Nothing
  /\ ba' = Kept
  /\ UNCHANGED <<queue, setupVars, exchange>>

(* SetupBlockAckIfNeeded, always so with VHT.  The frame stays where it is *)
(* and the station is blocked until the request is settled.                *)
SendAddBaRequest ==
  /\ NothingHeld /\ NextFrame \in Msdus /\ agreement \in {"none", "reset"}
  /\ agreement' = "pending" /\ blocked' = TRUE
  /\ requestHeard' = FALSE
  /\ current' = Packet("addBa", NoMsdu)
  /\ ba' = Kept
  /\ TransmitOther("ack")
  /\ UNCHANGED <<queue, addBaTimer, resetTimer, response>>

(* GetNextAmpdu: first what must be sent again, then the queue.  Without   *)
(* an agreement there is one MPDU.                                         *)
SendData(fit) ==
  LET ready == InOrder(Kept, Kept.retry) \o ForStation(Fresh(queue))
      limit == IF agreement = "established" THEN fit ELSE 1
      mpdus == SubSeq(ready, 1, IF Len(ready) < limit THEN Len(ready) ELSE limit)
      sent  == Elements(mpdus)
  IN  /\ NothingHeld /\ NextFrame \in Msdus /\ agreement \notin {"none", "reset"}
      /\ IF fit = 0
         THEN /\ current' = Nothing
              /\ ba' = Kept
              /\ UNCHANGED <<queue, exchange>>
         ELSE /\ current' = Packet("data", mpdus[1])
              /\ queue' = Without(Fresh(queue), sent)
              /\ Transmit([Kept EXCEPT
                     !.numbered = @ \o Without(mpdus, Kept.retry),
                     !.retry = @ \ sent], mpdus)
      /\ UNCHANGED setupVars

(* A group addressed frame is dequeued by QosTxop itself.  If it does not  *)
(* fit, it stays in the queue and is the current packet all the same.      *)
SendGroup(fit) ==
  /\ NothingHeld /\ NextFrame \in GroupMsdus
  /\ current' = Packet("group", NextFrame)
  /\ ba' = Kept
  /\ IF fit = 0 THEN UNCHANGED <<queue, exchange>>
     ELSE /\ queue' = Without(Fresh(queue), {NextFrame})
          /\ TransmitOther("none")
  /\ UNCHANGED setupVars

NotifyAccessGranted(fit) ==
  \/ SendHeld(fit) \/ SendBar \/ NothingToSend
  \/ SendAddBaRequest \/ SendData(fit) \/ SendGroup(fit)
-----------------------------------------------------------------------------
(* How exchanges end.                                                      *)

NeedRetransmission == retries < MaxSsrc
Awaiting(phase, answer) == exchange.phase = phase /\ exchange.answer = answer

(* The station's answer to a request it has heard for the first time.      *)
RequestReceived ==
  /\ requestHeard' = TRUE
  /\ response' = (response \/ ~ requestHeard)

(* Deliberately wrong: MPDUs sent after a CTS are not stored.              *)
CtsReceivedWithoutStore ==
  /\ exchange.phase = "rts" /\ current # Nothing
  /\ retries' = 0
  /\ exchange' = [exchange EXCEPT !.phase = "sent"]
  /\ UNCHANGED <<queue, current, accessRequested, expired, ba, setupVars>>

(* SendDataAfterCts.                                                       *)
CtsReceived ==
  /\ exchange.phase = "rts" /\ current # Nothing
  /\ retries' = 0
  /\ ba' = Sent(ba, exchange.answer, exchange.mpdus)
  /\ exchange' = [exchange EXCEPT !.phase = "sent"]
  /\ UNCHANGED <<queue, current, accessRequested, expired, setupVars>>

(* The frames go back to the head of the retransmit queue, or are held.    *)
NotifyMissedCts ==
  LET mpdus == Elements(exchange.mpdus)
  IN  /\ exchange.phase = "rts" /\ current # Nothing
      /\ exchange' = Idle
      /\ IF retries + 1 < MaxSsrc
         THEN /\ retries' = retries + 1
              /\ IF agreement = "established"
                 THEN RestartAccessIfNeeded(Nothing, queue,
                        [ba EXCEPT !.retry = @ \cup (mpdus \cap Elements(ba.numbered))])
                 ELSE RestartAccessIfNeeded(current, queue, ba)
         ELSE /\ retries' = 0
              /\ RestartAccessIfNeeded(Nothing, queue,
                   Finished(NotifyDiscardedMpdu(ba, mpdus), mpdus))
      /\ UNCHANGED <<expired, setupVars>>

(* An Ack arrives: GotAck and TerminateTxop.  An acknowledged request gets *)
(* a limited time for the response.                                        *)
GotAck ==
  /\ Awaiting("sent", "ack") /\ current # Nothing
  /\ exchange' = Idle
  /\ retries' = 0
  /\ IF current.kind = "addBa"
     THEN /\ addBaTimer' = TRUE
          /\ RequestReceived
     ELSE UNCHANGED <<addBaTimer, requestHeard, response>>
  /\ RestartAccessIfNeeded(Nothing, queue, Finished(ba, {current.msdu}))
  /\ UNCHANGED <<expired, agreement, blocked, resetTimer>>

(* Deliberately wrong: the station stays blocked.                          *)
NoReplyStaysBlocked ==
  /\ agreement' = "no_reply"
  /\ resetTimer' = TRUE
  /\ UNCHANGED blocked

(* NotifyAgreementNoReply lets data through again, and after another time  *)
(* the agreement may be asked for anew.                                    *)
NotifyAgreementNoReply ==
  /\ agreement' = "no_reply" /\ blocked' = FALSE
  /\ resetTimer' = TRUE

(* No Ack, and another try: the packet is held, or left to the block ack   *)
(* manager where there is an agreement.                                    *)
RetransmitLater ==
  /\ retries' = retries + 1
  /\ IF current.kind = "data" /\ agreement = "established"
     THEN RestartAccessIfNeeded(Nothing, queue,
            [ba EXCEPT !.outstanding = @ \ {current.msdu},
                       !.retry = @ \cup ({current.msdu} \cap Elements(ba.numbered))])
     ELSE RestartAccessIfNeeded(current, queue, ba)
  /\ UNCHANGED <<agreement, blocked, resetTimer>>

(* Deliberately wrong: a request that is given up leaves the agreement as  *)
(* it is.                                                                  *)
GiveUpSilently ==
  /\ retries' = 0
  /\ UNCHANGED <<agreement, blocked, resetTimer>>
  /\ RestartAccessIfNeeded(Nothing, queue,
       Finished(NotifyDiscardedMpdu(ba, {current.msdu}), {current.msdu}))

(* No Ack, for the last time.                                              *)
GiveUp ==
  /\ retries' = 0
  /\ IF current.kind = "addBa" /\ agreement = "pending"
     THEN NotifyAgreementNoReply
     ELSE UNCHANGED <<agreement, blocked, resetTimer>>
  /\ RestartAccessIfNeeded(Nothing, queue,
       Finished(NotifyDiscardedMpdu(ba, {current.msdu}), {current.msdu}))

MissedAck ==
  /\ Awaiting("sent", "ack") /\ current # Nothing
  /\ exchange' = Idle
  /\ IF NeedRetransmission THEN RetransmitLater ELSE GiveUp
  /\ \/ current.kind = "addBa" /\ RequestReceived
     \/ UNCHANGED <<requestHeard, response>>
  /\ UNCHANGED <<expired, addBaTimer>>

(* A BlockAck arrives: GotBlockAck and TerminateTxop.  Every outstanding   *)
(* frame is either acknowledged or to be sent again.                       *)
GotBlockAck(received) ==
  /\ Awaiting("sent", "blockAck") /\ current # Nothing
  /\ current.kind = "data" => received # {}
  /\ exchange' = Idle
  /\ RestartAccessIfNeeded(Nothing, queue,
       Finished([ba EXCEPT !.retry = @ \cup ba.outstanding, !.outstanding = {}], received))
  /\ UNCHANGED <<retries, expired, setupVars>>

(* Deliberately wrong: no BAR is scheduled for data that is not answered.  *)
MissedBlockAckWithoutBar ==
  /\ Awaiting("sent", "blockAck")
  /\ current # Nothing \/ ba.outstanding \ expired # {}
  /\ exchange' = Idle
  /\ IF ba.outstanding \ expired # {}
     THEN /\ RestartAccessIfNeeded(IF current.kind = "bar" THEN current ELSE Nothing, queue, ba)
          /\ UNCHANGED retries
     ELSE /\ retries' = 0
          /\ RestartAccessIfNeeded(Nothing, queue,
               IF ba.outstanding # {} THEN NotifyDiscardedMpdu(ba, ba.outstanding)
               ELSE [ba EXCEPT !.bar = "skip"])
  /\ UNCHANGED <<expired, setupVars>>

(* Deliberately wrong: BARs are sent as long as there are outstanding      *)
(* frames, expired or not.                                                 *)
MissedBlockAckForEver ==
  /\ Awaiting("sent", "blockAck")
  /\ current # Nothing \/ ba.outstanding \ expired # {}
  /\ exchange' = Idle
  /\ IF ba.outstanding # {}
     THEN /\ IF current.kind = "bar"
             THEN RestartAccessIfNeeded(current, queue, ba)
             ELSE RestartAccessIfNeeded(Nothing, queue, [ba EXCEPT !.bar = "bar"])
          /\ UNCHANGED retries
     ELSE /\ retries' = 0
          /\ RestartAccessIfNeeded(Nothing, queue, [ba EXCEPT !.bar = "skip"])
  /\ UNCHANGED <<expired, setupVars>>

(* MissedBlockAck, with UseExplicitBarAfterMissedBlockAck.  A BAR is sent  *)
(* as long as an outstanding frame has not expired; then all of them are   *)
(* given up, and another BAR tells the recipient.  Only then does it look  *)
(* into the packet.                                                        *)
MissedBlockAck ==
  /\ Awaiting("sent", "blockAck")
  /\ current # Nothing \/ ba.outstanding \ expired # {}
  /\ exchange' = Idle
  /\ IF ba.outstanding \ expired # {}
     THEN /\ IF current.kind = "bar"
             THEN RestartAccessIfNeeded(current, queue, ba)
             ELSE RestartAccessIfNeeded(Nothing, queue, [ba EXCEPT !.bar = "bar"])
          /\ UNCHANGED retries
     ELSE /\ retries' = 0
          /\ RestartAccessIfNeeded(Nothing, queue,
               IF ba.outstanding # {} THEN NotifyDiscardedMpdu(ba, ba.outstanding)
               ELSE [ba EXCEPT !.bar = "skip"])
  /\ UNCHANGED <<expired, setupVars>>

(* The end of a frame that asks for no answer.                             *)
EndTxNoAck ==
  /\ Awaiting("sent", "none")
  /\ exchange' = Idle
  /\ RestartAccessIfNeeded(Nothing, queue, ba)
  /\ UNCHANGED <<retries, expired, setupVars>>

-----------------------------------------------------------------------------
(* Block ack setup.                                                        *)

(* The response was not received in time.                                  *)
AddBaResponseTimeout ==
  /\ addBaTimer
  /\ addBaTimer' = FALSE
  /\ IF agreement = "pending"
     THEN NotifyAgreementNoReply /\ RestartAccessIfNeeded(current, queue, ba)
     ELSE UNCHANGED <<agreement, blocked, resetTimer, queue, current, accessRequested, ba>>
  /\ UNCHANGED <<retries, expired, exchange, requestHeard, response>>

ResetBa ==
  /\ resetTimer
  /\ resetTimer' = FALSE
  /\ agreement' = IF agreement = "established" THEN agreement ELSE "reset"
  /\ UNCHANGED <<queue, current, accessRequested, retries, expired, ba, blocked,
                 addBaTimer, exchange, requestHeard, response>>

(* A frame that comes while MacLow waits for an answer puts the timeout off*)
(* until it has been received, and handled; then the timeout goes off.     *)
AnswerAwaited == exchange.phase = "rts" \/ exchange.answer # "none"
MayHear == exchange = Idle \/ (ResponsesOverlap /\ AnswerAwaited)

(* Deliberately wrong: data held for retransmission stays held.            *)
ResponseLeavesData ==
  /\ response /\ MayHear
  /\ response' = FALSE
  /\ agreement' = "established" /\ blocked' = FALSE
  /\ RestartAccessIfNeeded(current, queue, ba)
  /\ UNCHANGED <<retries, expired, addBaTimer, resetTimer, exchange, requestHeard>>

(* GotAddBaResponse.  Data that is the current packet is left to the block *)
(* ack manager, be it held for retransmission or on its way, and is the    *)
(* first of the window unless it has expired.                              *)
GotAddBaResponse ==
  /\ response /\ MayHear
  /\ response' = FALSE
  /\ agreement' = "established" /\ blocked' = FALSE
  /\ IF current.kind = "data"
     THEN RestartAccessIfNeeded(Nothing, queue,
            IF current.msdu \in expired
            THEN Finished(NotifyDiscardedMpdu(ba, {current.msdu}), {current.msdu})
            ELSE [ba EXCEPT !.retry = @ \cup {current.msdu}])
     ELSE RestartAccessIfNeeded(current, queue, ba)
  /\ UNCHANGED <<retries, expired, addBaTimer, resetTimer, exchange, requestHeard>>

(* The station gives its response up.                                      *)
ResponseIsLost ==
  /\ response
  /\ response' = FALSE
  /\ UNCHANGED <<queue, current, accessRequested, retries, expired, ba, agreement,
                 blocked, addBaTimer, resetTimer, exchange, requestHeard>>

-----------------------------------------------------------------------------
(* Another EDCA function of the device has been granted access at the same *)
(* time.  The frame involved is the current packet or, where there is none,*)
(* the next one; what is dropped in that case is the head of the queue.    *)
NotifyInternalCollision ==
  LET involved == IF current # Nothing THEN current
                  ELSE Packet("next", PeekNextFrame(ba, queue))
      final == involved.msdu \notin GroupMsdus /\ ~ NeedRetransmission
      none  == current = Nothing /\ involved.msdu = NoMsdu
  IN  /\ InternalCollisions /\ Granted
      /\ retries' = IF none \/ involved.msdu \in GroupMsdus THEN retries
                    ELSE IF final THEN 0 ELSE retries + 1
      /\ IF none \/ ~ final THEN RestartAccessIfNeeded(current, queue, ba)
         ELSE IF current # Nothing
         THEN RestartAccessIfNeeded(Nothing, queue, Finished(ba, {current.msdu}))
         ELSE RestartAccessIfNeeded(Nothing,
                IF Fresh(queue) = <<>> THEN <<>> ELSE Tail(Fresh(queue)), ba)
      /\ UNCHANGED <<expired, setupVars, exchange>>

-----------------------------------------------------------------------------
Init ==
  /\ queue = <<>> /\ current = Nothing /\ accessRequested = FALSE
  /\ retries = 0 /\ expired = {}
  /\ ba = NoFrames
  /\ agreement = "none" /\ blocked = FALSE
  /\ addBaTimer = FALSE /\ resetTimer = FALSE
  /\ requestHeard = FALSE /\ response = FALSE
  /\ exchange = Idle

Arrival == (\E m \in AnyMsdu : Queue(m)) \/ QueueOverflow

ExchangeEnds ==
  \/ CtsReceived \/ NotifyMissedCts
  \/ GotAck \/ MissedAck
  \/ (\E received \in SUBSET ba.outstanding : GotBlockAck(received)) \/ MissedBlockAck
  \/ EndTxNoAck

Setup == AddBaResponseTimeout \/ ResetBa \/ GotAddBaResponse \/ ResponseIsLost

Next ==
  \/ Arrival
  \/ \E m \in AnyMsdu : Expire(m)
  \/ \E fit \in Fitting : NotifyAccessGranted(fit)
  \/ ExchangeEnds
  \/ Setup
  \/ NotifyInternalCollision

Spec == Init /\ [][Next]_vars

(* Events that are scheduled happen, and time passes: a lifetime that has  *)
(* begun ends.                                                             *)
EventsHappen ==
  /\ WF_vars(\E fit \in Fitting : NotifyAccessGranted(fit))
  /\ WF_vars(ExchangeEnds)
  /\ WF_vars(AddBaResponseTimeout) /\ WF_vars(ResetBa)
  /\ WF_vars(GotAddBaResponse \/ ResponseIsLost)
  /\ \A m \in AnyMsdu : WF_vars(Expire(m))

FairSpec == Spec /\ EventsHappen

(* With the window in use, the source does not fall silent for good, nor   *)
(* is access granted only at the end of windows.                           *)
SaturatedSpec ==
  /\ FairSpec
  /\ WF_vars(Arrival)
  /\ SF_vars(NotifyAccessGranted(MaxAmpdu))

-----------------------------------------------------------------------------
(* Properties.                                                             *)

(* Type invariant.                                                         *)
TypeOK ==
  /\ queue \in Seq(AnyMsdu) /\ Len(queue) =< MaxQueueSize
  /\ current \in [kind : {"none", "data", "group", "addBa", "bar"}, msdu : AnyMsdu \cup {NoMsdu}]
  /\ accessRequested \in BOOLEAN
  /\ retries \in 0 .. MaxSsrc
  /\ expired \subseteq AnyMsdu
  /\ ba.numbered \in Seq(Msdus)
  /\ ba.retry \subseteq Elements(ba.numbered) /\ ba.outstanding \subseteq Elements(ba.numbered)
  /\ ba.bar \in {"none", "bar", "skip"}
  /\ agreement \in {"none", "pending", "established", "no_reply", "reset"}
  /\ {blocked, addBaTimer, resetTimer, requestHeard, response} \subseteq BOOLEAN
  /\ exchange \in [phase : {"idle", "rts", "sent"}, answer : {"none", "ack", "blockAck"},
                   mpdus : Seq(Msdus)]

(* An MSDU for the station is in one place only: in the queue, held for a  *)
(* retransmission by QosTxop, in the retransmit queue, or on the way and   *)
(* not yet known to have failed.  Peeking and dequeuing are separate in    *)
(* the code and done by two classes; a frame peeked but sent is a duplicate*)
(* and a frame dequeued but not sent is lost.                              *)
Places(m) ==
  {p \in {"queue", "held", "retry", "onTheWay"} :
     CASE p = "queue" -> m \in Elements(queue)
       [] p = "held"  -> current = Packet("data", m) /\ agreement # "established"
       [] p = "retry" -> m \in ba.retry
       [] p = "onTheWay" -> m \in ba.outstanding
            \/ (exchange.phase = "rts" /\ agreement = "established"
                 /\ m \in Elements(exchange.mpdus) \cap Elements(ba.numbered))}

InOnePlace ==
  \A m \in Msdus : Cardinality(Places(m)) = IF m \in Elements(queue \o ba.numbered)
                                           THEN 1 ELSE 0

(* Whenever the MAC does nothing and there is something it could do, access*)
(* to the channel is requested: no handler that ends an exchange, settles a*)
(* request or takes a packet forgets it.                                   *)
WorkIsScheduled ==
  exchange = Idle /\ (current # Nothing \/ ba.retry # {} \/ Available(queue) # <<>>)
    => accessRequested

(* A frame that is outstanding while no exchange runs will be asked about: *)
(* a BAR is scheduled or is being sent.                                    *)
OutstandingIsCovered ==
  exchange = Idle /\ ba.outstanding # {} => ba.bar = "bar" \/ current.kind = "bar"

(* A pending agreement blocks the station, and an event that settles it is *)
(* still to come: the request is not yet acknowledged, or its timer runs.  *)
PendingIsResolved ==
  /\ blocked <=> agreement = "pending"
  /\ agreement = "pending" => current.kind = "addBa" \/ addBaTimer

(* The assertion of NotifyAccessGranted: data that is held by QosTxop was  *)
(* not sent under an agreement.                                            *)
HeldIsNotUnderAgreement ==
  accessRequested /\ exchange = Idle /\ current.kind = "data" => agreement # "established"

(* MissedAck and NotifyMissedCts look into the packet of the exchange whose*)
(* answer did not come, and Ptr asserts: "Attempted to dereference zero    *)
(* pointer".  QosTxop still has it, whatever was handled in between.       *)
AnswerFindsPacket ==
  exchange.phase = "rts" \/ Awaiting("sent", "ack") => current # Nothing

(* A frame disappears only after its lifetime or after it was transmitted. *)
NothingIsForgotten ==
  [][\A m \in AnyMsdu : InSystem(m) /\ ~ InSystem(m)' /\ m \notin expired
       => m \in ba.outstanding \cup ba.retry \cup Elements(exchange.mpdus)
          \/ current.msdu = m]_vars

(* Every frame that is taken from the queue leaves again: acknowledged, or *)
(* given up at its last retry or after its lifetime, wherever it is then.  *)
(* (Frames that expire in the queue stay there until the next arrival.)    *)
Taken(m) == m \in Elements(ba.numbered) \/ current.msdu = m
EveryMsduLeaves == \A m \in AnyMsdu : Taken(m) ~> ~ Taken(m)

(* What could not be sent is tried again, as StartTransmission has it: "let*)
(* the QosTxop retransmit it again".                                       *)
RetransmitsAgain ==
  (exchange = Idle /\ current.kind = "data")
    ~> (accessRequested \/ current.kind # "data")

(* A station is blocked only until its request is answered or given up.    *)
BlockingEnds == blocked ~> ~ blocked
=============================================================================
