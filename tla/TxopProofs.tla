------------------------------ MODULE TxopProofs ------------------------------
(***************************************************************************)
(* Theorems about QosTxopAccess, for every value of its constants: what    *)
(* ties the current packet of QosTxop, the exchange of MacLow and the      *)
(* block ack set-up together; then the frames themselves: where an MSDU    *)
(* is, that none is forgotten, and that what is left to do is asked for.   *)
(***************************************************************************)
EXTENDS QosTxopAccess, SequenceTheorems, FiniteSetTheorems, WellFoundedInduction, TLAPS

(* A response that came while an answer was awaited has taken the packet of*)
(* the exchange away.                                                      *)
TakenAway == ResponsesOverlap /\ current = Nothing

(* The exchange is one the current packet calls for, if it is still there. *)
ExchangeInv ==
  /\ exchange = [phase |-> exchange.phase, answer |-> exchange.answer,
                 mpdus |-> exchange.mpdus]
  /\ exchange.phase \in {"idle", "rts", "sent"}
  /\ exchange.answer \in {"none", "ack", "blockAck"}
  /\ exchange.phase = "idle" => exchange = Idle
  /\ exchange.phase = "rts" => current.kind = "data" \/ TakenAway
  /\ exchange.phase = "sent" =>
       \/ exchange.answer = "ack" /\ (current.kind \in {"data", "addBa"} \/ TakenAway)
       \/ exchange.answer = "blockAck" /\ (current.kind \in {"data", "bar"} \/ TakenAway)
       \/ exchange.answer = "none" /\ current.kind \in {"data", "group"}

(* Blocking follows the state of the agreement, and a failed set-up is not *)
(* forgotten as long as it cannot be tried again.                          *)
AgreementInv ==
  /\ blocked \in BOOLEAN
  /\ blocked <=> agreement = "pending"
  /\ resetTimer => agreement \in {"no_reply", "established"}

(* A pending request is on its way, or its timer runs.                     *)
RequestInv == agreement = "pending" => current.kind = "addBa" \/ addBaTimer = TRUE

(* Data between two exchanges is not under an agreement, whether access has*)
(* been asked for or not.                                                  *)
HeldInv == exchange = Idle /\ current.kind = "data" => agreement # "established"

IInv == ExchangeInv /\ AgreementInv /\ HeldInv

-----------------------------------------------------------------------------
(* What the handlers share.                                                *)

LEMMA RestartCurrent ==
  ASSUME NEW STATE packet, NEW STATE q, NEW STATE b, RestartAccessIfNeeded(packet, q, b)
  PROVE  current' = packet
  BY DEF RestartAccessIfNeeded

LEMMA StartCurrent ==
  ASSUME NEW STATE q, StartAccessIfNeeded(q)
  PROVE  UNCHANGED current
  BY DEF StartAccessIfNeeded

LEMMA HeldPacket ==
  /\ Held = current \/ Held = Nothing
  /\ current.kind \in {"addBa", "bar"} => Held = current
  BY DEF Held, LifetimeOver

LEMMA Answers ==
  ASSUME NEW STATE b, NEW STATE mpdus
  PROVE  /\ AnswerTo(b, mpdus) \in {"ack", "blockAck", "none"}
         /\ agreement # "established" => AnswerTo(b, mpdus) = "ack"
  BY DEF AnswerTo

LEMMA TransmitExchange ==
  ASSUME NEW STATE b, NEW STATE mpdus, Transmit(b, mpdus), current'.kind = "data"
  PROVE  ExchangeInv' /\ exchange' # Idle
<1> DEFINE a == AnswerTo(b, mpdus)
<1>1. a \in {"ack", "blockAck", "none"}
      BY Answers
<1>2. \/ exchange' = [phase |-> "rts", answer |-> a, mpdus |-> mpdus]
      \/ exchange' = [phase |-> "sent", answer |-> a, mpdus |-> mpdus]
      BY DEF Transmit
<1> HIDE DEF a
<1>3. QED BY <1>1, <1>2 DEF ExchangeInv, Idle

LEMMA OtherExchange ==
  ASSUME NEW STATE answer, TransmitOther(answer),
         \/ answer = "ack" /\ current'.kind = "addBa"
         \/ answer = "blockAck" /\ current'.kind = "bar"
         \/ answer = "none" /\ current'.kind = "group"
  PROVE  ExchangeInv' /\ exchange' # Idle
  BY DEF TransmitOther, ExchangeInv, Idle

(* An exchange that has ended leaves nothing to hold to.                   *)
LEMMA NoExchange ==
  ASSUME exchange' = Idle
  PROVE  ExchangeInv'
  BY DEF ExchangeInv, Idle

LEMMA SameExchange ==
  ASSUME ExchangeInv, UNCHANGED <<exchange, current>>
  PROVE  ExchangeInv'
  BY DEF ExchangeInv, TakenAway

LEMMA SameSetup ==
  ASSUME AgreementInv, UNCHANGED setupVars
  PROVE  AgreementInv' /\ (agreement' = agreement)
  BY DEF AgreementInv, setupVars

-----------------------------------------------------------------------------
(* Every step of an access grant.                                          *)

LEMMA SendHeldStep ==
  ASSUME IInv, NEW fit \in Fitting, SendHeld(fit)
  PROVE  IInv'
<1>1. exchange = Idle /\ current' = Held /\ Held = current /\ current # Nothing
      BY HeldPacket DEF SendHeld, Granted
<1>2. AgreementInv' /\ agreement' = agreement
      BY SameSetup DEF SendHeld, IInv
<1>3. CASE UNCHANGED exchange
      BY <1>1, <1>2, <1>3, NoExchange DEF IInv, HeldInv
<1>4. CASE Held.kind = "data" /\ fit > 0
  <2>1. Transmit(Kept, <<Held.msdu>>)
        BY <1>4 DEF SendHeld
  <2>2. QED BY <1>1, <1>2, <1>4, <2>1, TransmitExchange DEF IInv, HeldInv
<1>5. CASE Held.kind = "group" /\ TransmitOther("none")
      BY <1>1, <1>2, <1>5, OtherExchange DEF IInv, HeldInv
<1>6. CASE Held.kind = "addBa" /\ TransmitOther("ack")
      BY <1>1, <1>2, <1>6, OtherExchange DEF IInv, HeldInv
<1>7. CASE Held.kind = "bar" /\ TransmitOther("blockAck")
      BY <1>1, <1>2, <1>7, OtherExchange DEF IInv, HeldInv
<1>8. QED BY <1>3, <1>4, <1>5, <1>6, <1>7 DEF SendHeld

LEMMA GrantStep ==
  ASSUME IInv, NEW fit \in Fitting, NotifyAccessGranted(fit)
  PROVE  IInv'
<1>1. CASE SendHeld(fit)
      BY <1>1, SendHeldStep
<1>2. CASE SendBar
  <2>1. AgreementInv'
        BY <1>2, SameSetup DEF SendBar, IInv
  <2>2. current'.kind = "bar" /\ TransmitOther("blockAck")
        BY <1>2 DEF SendBar, Packet
  <2>3. QED BY <2>1, <2>2, OtherExchange DEF IInv, HeldInv
<1>3. CASE NothingToSend
  <2>1. AgreementInv'
        BY <1>3, SameSetup DEF NothingToSend, IInv
  <2>2. exchange' = Idle /\ current'.kind = "none"
        BY <1>3 DEF NothingToSend, NothingHeld, Granted, Nothing
  <2>3. QED BY <2>1, <2>2, NoExchange DEF IInv, HeldInv
<1>4. CASE SendAddBaRequest
  <2>1. AgreementInv'
        BY <1>4 DEF SendAddBaRequest, IInv, AgreementInv
  <2>2. current'.kind = "addBa" /\ TransmitOther("ack")
        BY <1>4 DEF SendAddBaRequest, Packet
  <2>3. QED BY <2>1, <2>2, OtherExchange DEF IInv, HeldInv
<1>5. CASE SendData(fit)
  <2>1. AgreementInv'
        BY <1>5, SameSetup DEF SendData, IInv
  <2>2. CASE fit = 0
    <3>1. exchange' = Idle /\ current'.kind = "none"
          BY <1>5, <2>2 DEF SendData, NothingHeld, Granted, Nothing
    <3>2. QED BY <2>1, <3>1, NoExchange DEF IInv, HeldInv
  <2>3. CASE fit # 0
    <3>1. current'.kind = "data"
          BY <1>5, <2>3 DEF SendData, Packet
    <3>2. PICK b, mpdus : Transmit(b, mpdus)
          BY <1>5, <2>3 DEF SendData
    <3>3. QED BY <2>1, <3>1, <3>2, TransmitExchange DEF IInv, HeldInv
  <2>4. QED BY <2>2, <2>3
<1>6. CASE SendGroup(fit)
  <2>1. AgreementInv'
        BY <1>6, SameSetup DEF SendGroup, IInv
  <2>2. current'.kind = "group"
        BY <1>6 DEF SendGroup, Packet
  <2>3. CASE exchange' = Idle
        BY <2>1, <2>2, <2>3, NoExchange DEF IInv, HeldInv
  <2>4. CASE TransmitOther("none")
        BY <2>1, <2>2, <2>4, OtherExchange DEF IInv, HeldInv
  <2>5. QED BY <1>6, <2>3, <2>4 DEF SendGroup, NothingHeld, Granted
<1>7. QED BY <1>1, <1>2, <1>3, <1>4, <1>5, <1>6 DEF NotifyAccessGranted

-----------------------------------------------------------------------------
(* The end of an exchange.                                                 *)

(* A handler that has cleared the exchange and left data of an agreement to*)
(* the block ack manager.                                                  *)
LEMMA EndStep ==
  ASSUME exchange' = Idle, AgreementInv',
         current'.kind = "data" => agreement' # "established"
  PROVE  IInv'
  BY NoExchange DEF IInv, HeldInv

LEMMA EndNothing ==
  ASSUME exchange' = Idle, AgreementInv', current' = Nothing
  PROVE  IInv'
  BY EndStep DEF Nothing

LEMMA CtsReceivedStep ==
  ASSUME IInv, CtsReceived
  PROVE  IInv'
<1>1. AgreementInv'
      BY SameSetup DEF CtsReceived, IInv
<1>2. ExchangeInv' /\ exchange' # Idle
  <2>1. PICK a, mpdus : exchange' = [phase |-> "sent", answer |-> a, mpdus |-> mpdus]
                        /\ a = exchange.answer
        BY DEF CtsReceived, IInv, ExchangeInv
  <2>2. a \in {"ack", "blockAck", "none"} /\ current'.kind = "data"
        BY <2>1 DEF CtsReceived, IInv, ExchangeInv, TakenAway
  <2>3. QED BY <2>1, <2>2 DEF ExchangeInv, Idle
<1>3. QED BY <1>1, <1>2 DEF IInv, HeldInv

LEMMA NotifyMissedCtsStep ==
  ASSUME IInv, NotifyMissedCts
  PROVE  IInv'
<1>1. AgreementInv' /\ agreement' = agreement /\ exchange' = Idle
      BY SameSetup DEF NotifyMissedCts, IInv
<1>2. current' = Nothing \/ (current' = current /\ agreement # "established")
      BY RestartCurrent DEF NotifyMissedCts
<1>3. QED BY <1>1, <1>2, EndStep DEF Nothing

LEMMA GotAckStep ==
  ASSUME IInv, GotAck
  PROVE  IInv'
<1>1. AgreementInv'
      BY DEF GotAck, IInv, AgreementInv
<1>2. exchange' = Idle /\ current' = Nothing
      BY RestartCurrent DEF GotAck
<1>3. QED BY <1>1, <1>2, EndNothing

LEMMA MissedAckStep ==
  ASSUME IInv, MissedAck
  PROVE  IInv'
<1>1. exchange' = Idle
      BY DEF MissedAck
<1>2. CASE RetransmitLater
  <2>1. AgreementInv' /\ agreement' = agreement
        BY <1>2 DEF RetransmitLater, IInv, AgreementInv
  <2>2. current' = Nothing
          \/ (current' = current /\ ~ (current.kind = "data" /\ agreement = "established"))
        BY <1>2, RestartCurrent DEF RetransmitLater
  <2>3. QED BY <1>1, <2>1, <2>2, EndStep DEF Nothing
<1>3. CASE GiveUp
  <2>1. AgreementInv'
        BY <1>3 DEF GiveUp, NotifyAgreementNoReply, IInv, AgreementInv
  <2>2. current' = Nothing
        BY <1>3, RestartCurrent DEF GiveUp
  <2>3. QED BY <1>1, <2>1, <2>2, EndNothing
<1>4. QED BY <1>2, <1>3 DEF MissedAck

LEMMA GotBlockAckStep ==
  ASSUME IInv, NEW received, GotBlockAck(received)
  PROVE  IInv'
<1>1. AgreementInv'
      BY SameSetup DEF GotBlockAck, IInv
<1>2. exchange' = Idle /\ current' = Nothing
      BY RestartCurrent DEF GotBlockAck
<1>3. QED BY <1>1, <1>2, EndNothing

LEMMA MissedBlockAckStep ==
  ASSUME IInv, MissedBlockAck
  PROVE  IInv'
<1>1. AgreementInv'
      BY SameSetup DEF MissedBlockAck, IInv
<1>2. exchange' = Idle
      BY DEF MissedBlockAck
<1>3. current' = Nothing \/ (current' = current /\ current.kind = "bar")
      BY RestartCurrent DEF MissedBlockAck
<1>4. QED BY <1>1, <1>2, <1>3, EndStep DEF Nothing

LEMMA EndTxNoAckStep ==
  ASSUME IInv, EndTxNoAck
  PROVE  IInv'
<1>1. AgreementInv'
      BY SameSetup DEF EndTxNoAck, IInv
<1>2. exchange' = Idle /\ current' = Nothing
      BY RestartCurrent DEF EndTxNoAck
<1>3. QED BY <1>1, <1>2, EndNothing

-----------------------------------------------------------------------------
(* Block ack setup, and everything else.                                   *)

LEMMA SetupStep ==
  ASSUME IInv, Setup
  PROVE  IInv'
<1>1. CASE AddBaResponseTimeout
  <2>1. UNCHANGED <<exchange, current>>
        BY <1>1, RestartCurrent DEF AddBaResponseTimeout
  <2>2. AgreementInv' /\ (agreement' = "established" => agreement = "established")
    <3>1. CASE agreement = "pending"
      <4>1. agreement' = "no_reply" /\ blocked' = FALSE
            BY <1>1, <3>1 DEF AddBaResponseTimeout, NotifyAgreementNoReply
      <4>2. QED BY <4>1 DEF AgreementInv
    <3>2. CASE agreement # "pending"
          BY <1>1, <3>2 DEF AddBaResponseTimeout, IInv, AgreementInv
    <3>3. QED BY <3>1, <3>2
  <2>3. QED BY <2>1, <2>2, SameExchange DEF IInv, HeldInv
<1>2. CASE ResetBa
  <2>1. UNCHANGED <<exchange, current>>
        BY <1>2 DEF ResetBa
  <2>2. AgreementInv' /\ (agreement' = "established" => agreement = "established")
        BY <1>2 DEF ResetBa, IInv, AgreementInv
  <2>3. QED BY <2>1, <2>2, SameExchange DEF IInv, HeldInv
<1>3. CASE GotAddBaResponse
  <2>1. UNCHANGED exchange /\ (exchange = Idle \/ (ResponsesOverlap /\ AnswerAwaited))
        BY <1>3 DEF GotAddBaResponse, MayHear
  <2>2. AgreementInv'
        BY <1>3 DEF GotAddBaResponse, IInv, AgreementInv
  <2>3. current' = Nothing \/ (current' = current /\ current.kind # "data")
        BY <1>3, RestartCurrent DEF GotAddBaResponse
  <2>4. CASE exchange = Idle
        BY <2>1, <2>2, <2>3, <2>4, EndStep DEF Nothing
  <2>5. CASE current' = Nothing /\ ResponsesOverlap /\ AnswerAwaited
    <3>1. ExchangeInv'
          BY <2>1, <2>5 DEF IInv, ExchangeInv, TakenAway, AnswerAwaited
    <3>2. QED BY <2>2, <2>5, <3>1 DEF IInv, HeldInv, Nothing
  <2>6. CASE current' = current /\ current.kind # "data"
    <3>1. ExchangeInv'
          BY <2>1, <2>6, SameExchange DEF IInv
    <3>2. QED BY <2>2, <2>6, <3>1 DEF IInv, HeldInv
  <2>7. QED BY <2>1, <2>3, <2>4, <2>5, <2>6
<1>4. CASE ResponseIsLost
  <2>1. UNCHANGED <<exchange, current>>
        BY <1>4 DEF ResponseIsLost
  <2>2. AgreementInv' /\ agreement' = agreement
        BY <1>4 DEF ResponseIsLost, IInv, AgreementInv
  <2>3. QED BY <2>1, <2>2, SameExchange DEF IInv, HeldInv
<1>5. QED BY <1>1, <1>2, <1>3, <1>4 DEF Setup

LEMMA QuietStep ==
  ASSUME IInv, UNCHANGED <<exchange, current, setupVars>>
  PROVE  IInv'
<1>1. AgreementInv' /\ agreement' = agreement
      BY SameSetup DEF IInv
<1>2. QED BY <1>1, SameExchange DEF IInv, HeldInv

LEMMA CollisionStep ==
  ASSUME IInv, NotifyInternalCollision
  PROVE  IInv'
<1>1. exchange' = Idle /\ exchange = Idle
      BY DEF NotifyInternalCollision, Granted
<1>2. AgreementInv' /\ agreement' = agreement
      BY SameSetup DEF NotifyInternalCollision, IInv
<1>3. current' = current \/ current' = Nothing
      BY RestartCurrent DEF NotifyInternalCollision
<1>4. QED BY <1>1, <1>2, <1>3, EndStep DEF IInv, HeldInv, Nothing

LEMMA InvInit == Init => IInv
<1> SUFFICES ASSUME Init PROVE IInv
  OBVIOUS
<1>1. ExchangeInv
      BY DEF Init, ExchangeInv, Idle
<1>2. AgreementInv
  <2>1. blocked = FALSE /\ agreement = "none" /\ resetTimer = FALSE
        BY DEF Init
  <2>2. QED BY <2>1 DEF AgreementInv
<1>3. HeldInv
      BY DEF Init, HeldInv, Nothing
<1>4. QED BY <1>1, <1>2, <1>3 DEF IInv

LEMMA InvStep == IInv /\ [Next]_vars => IInv'
<1> SUFFICES ASSUME IInv, [Next]_vars PROVE IInv'
  OBVIOUS
<1>1. CASE Arrival
      BY <1>1, QuietStep, StartCurrent DEF Arrival, Queue, QueueOverflow
<1>2. ASSUME NEW m \in AnyMsdu, Expire(m) PROVE IInv'
      BY <1>2, QuietStep DEF Expire
<1>3. ASSUME NEW fit \in Fitting, NotifyAccessGranted(fit) PROVE IInv'
      BY <1>3, GrantStep
<1>4. CASE ExchangeEnds
      BY <1>4, CtsReceivedStep, NotifyMissedCtsStep, GotAckStep, MissedAckStep,
         GotBlockAckStep, MissedBlockAckStep, EndTxNoAckStep DEF ExchangeEnds
<1>5. CASE Setup
      BY <1>5, SetupStep
<1>6. CASE NotifyInternalCollision
      BY <1>6, CollisionStep
<1>7. CASE UNCHANGED vars
      BY <1>7, QuietStep DEF vars
<1>8. QED BY <1>1, <1>2, <1>3, <1>4, <1>5, <1>6, <1>7 DEF Next

LEMMA Invariant == Spec => []IInv
<1>1. QED BY InvInit, InvStep, PTL DEF Spec

-----------------------------------------------------------------------------
(* What starts an exchange leaves the packet of the exchange with QosTxop. *)
LEMMA GrantedPacket ==
  ASSUME NEW fit \in Fitting, NotifyAccessGranted(fit)
  PROVE  exchange' = Idle \/ current' # Nothing
<1>1. CASE SendHeld(fit)
      BY <1>1 DEF SendHeld
<1>2. CASE SendBar \/ SendAddBaRequest
      BY <1>2 DEF SendBar, SendAddBaRequest, Packet, Nothing
<1>3. CASE NothingToSend
      BY <1>3 DEF NothingToSend, NothingHeld, Granted
<1>4. CASE SendData(fit)
  <2>1. CASE fit = 0
        BY <1>4, <2>1 DEF SendData, NothingHeld, Granted
  <2>2. CASE fit # 0
        BY <1>4, <2>2 DEF SendData, Packet, Nothing
  <2>3. QED BY <2>1, <2>2
<1>5. CASE SendGroup(fit)
      BY <1>5 DEF SendGroup, Packet, Nothing
<1>6. QED BY <1>1, <1>2, <1>3, <1>4, <1>5 DEF NotifyAccessGranted

LEMMA PacketStays ==
  ASSUME AnswerFindsPacket, [Next]_vars, ~ (GotAddBaResponse /\ exchange # Idle)
  PROVE  AnswerFindsPacket'
<1>1. ASSUME exchange' = Idle PROVE AnswerFindsPacket'
      BY <1>1 DEF AnswerFindsPacket, Awaiting, Idle
<1>2. ASSUME UNCHANGED <<exchange, current>> PROVE AnswerFindsPacket'
      BY <1>2 DEF AnswerFindsPacket, Awaiting
<1>3. ASSUME current' # Nothing PROVE AnswerFindsPacket'
      BY <1>3 DEF AnswerFindsPacket
<1>4. CASE Arrival
      BY <1>2, <1>4, StartCurrent DEF Arrival, Queue, QueueOverflow
<1>5. ASSUME NEW m \in AnyMsdu, Expire(m) PROVE AnswerFindsPacket'
      BY <1>2, <1>5 DEF Expire
<1>6. ASSUME NEW fit \in Fitting, NotifyAccessGranted(fit) PROVE AnswerFindsPacket'
      BY <1>1, <1>3, <1>6, GrantedPacket
<1>7. CASE ExchangeEnds
  <2>1. CASE CtsReceived
        BY <1>3, <2>1 DEF CtsReceived
  <2>2. CASE ~ CtsReceived
        BY <1>1, <1>7, <2>2 DEF ExchangeEnds, NotifyMissedCts, GotAck, MissedAck,
           GotBlockAck, MissedBlockAck, EndTxNoAck
  <2>3. QED BY <2>1, <2>2
<1>8. CASE Setup
  <2>1. CASE AddBaResponseTimeout
        BY <1>2, <2>1, RestartCurrent DEF AddBaResponseTimeout
  <2>2. CASE ResetBa \/ ResponseIsLost
        BY <1>2, <2>2 DEF ResetBa, ResponseIsLost
  <2>3. CASE GotAddBaResponse
        BY <1>1, <2>3 DEF GotAddBaResponse
  <2>4. QED BY <1>8, <2>1, <2>2, <2>3 DEF Setup
<1>9. CASE NotifyInternalCollision
      BY <1>1, <1>9 DEF NotifyInternalCollision, Granted
<1>10. CASE UNCHANGED vars
       BY <1>2, <1>10 DEF vars
<1>11. QED BY <1>4, <1>5, <1>6, <1>7, <1>8, <1>9, <1>10 DEF Next

(* MissedAck and NotifyMissedCts look into the packet of the exchange: of  *)
(* all the handlers that may run while MacLow waits for an answer, and of  *)
(* all that start and end exchanges, only GotAddBaResponse can leave them  *)
(* without it, and only when it runs during the exchange.                  *)
THEOREM OnlyAResponseTakesThePacket ==
  Spec => [][AnswerFindsPacket /\ ~ AnswerFindsPacket'
               => ResponsesOverlap /\ exchange # Idle /\ GotAddBaResponse]_vars
<1> DEFINE TakesThePacket == AnswerFindsPacket /\ ~ AnswerFindsPacket'
                              => ResponsesOverlap /\ exchange # Idle /\ GotAddBaResponse
<1>1. [Next]_vars => TakesThePacket
      BY PacketStays DEF GotAddBaResponse, MayHear
<1>2. QED BY <1>1, PTL DEF Spec

(* The assertion of NotifyAccessGranted holds: data held by QosTxop is not *)
(* under an agreement, also if the response overtakes a retransmission.    *)
THEOREM AgreementTakesHeldData == Spec => []HeldIsNotUnderAgreement
<1>1. IInv => HeldIsNotUnderAgreement
      BY DEF IInv, HeldInv, HeldIsNotUnderAgreement
<1>2. QED BY <1>1, Invariant, PTL

-----------------------------------------------------------------------------
(* Where no other EDCA function is in use, what keeps an agreement pending *)
(* goes on until it is settled.                                            *)

LEMMA RequestGrantStep ==
  ASSUME RequestInv, NEW fit \in Fitting, NotifyAccessGranted(fit)
  PROVE  RequestInv'
<1>1. CASE SendAddBaRequest
      BY <1>1 DEF SendAddBaRequest, Packet, RequestInv
<1>2. CASE ~ SendAddBaRequest
  <2>1. UNCHANGED <<agreement, addBaTimer>>
        BY <1>2 DEF NotifyAccessGranted, SendHeld, SendBar, NothingToSend, SendData,
           SendGroup, setupVars
  <2>2. CASE current.kind = "addBa"
    <3>1. Held # Nothing
          BY <2>2, HeldPacket DEF Nothing
    <3>2. SendHeld(fit)
          BY <1>2, <3>1 DEF NotifyAccessGranted, SendBar, NothingToSend, SendData,
             SendGroup, NothingHeld
    <3>3. current' = current
          BY <2>2, <3>2, HeldPacket DEF SendHeld
    <3>4. QED BY <2>1, <2>2, <3>3 DEF RequestInv
  <2>3. CASE current.kind # "addBa"
        BY <2>1, <2>3 DEF RequestInv
  <2>4. QED BY <2>2, <2>3
<1>3. QED BY <1>1, <1>2

LEMMA RequestMissedAck ==
  ASSUME RequestInv, MissedAck
  PROVE  RequestInv'
<1>1. UNCHANGED addBaTimer
      BY DEF MissedAck
<1>2. CASE RetransmitLater
  <2>1. agreement' = agreement /\ (current' = current \/ current.kind = "data")
        BY <1>2, RestartCurrent DEF RetransmitLater
  <2>2. QED BY <1>1, <2>1 DEF RequestInv
<1>3. CASE GiveUp
  <2>1. CASE current.kind = "addBa" /\ agreement = "pending"
        BY <1>3, <2>1 DEF GiveUp, NotifyAgreementNoReply, RequestInv
  <2>2. CASE ~ (current.kind = "addBa" /\ agreement = "pending")
        BY <1>1, <1>3, <2>2 DEF GiveUp, RequestInv
  <2>3. QED BY <2>1, <2>2
<1>4. QED BY <1>2, <1>3 DEF MissedAck

LEMMA RequestExchangeStep ==
  ASSUME IInv, RequestInv, ExchangeEnds
  PROVE  RequestInv'
<1>1. CASE CtsReceived
      BY <1>1 DEF CtsReceived, setupVars, RequestInv
<1>2. CASE GotAck
      BY <1>2 DEF GotAck, RequestInv
<1>3. CASE MissedAck
      BY <1>3, RequestMissedAck
<1>4. ASSUME UNCHANGED setupVars, current.kind # "addBa" PROVE RequestInv'
      BY <1>4 DEF setupVars, RequestInv
<1>5. CASE NotifyMissedCts
      BY <1>4, <1>5 DEF NotifyMissedCts, IInv, ExchangeInv, TakenAway, Nothing
<1>6. ASSUME NEW received, GotBlockAck(received) PROVE RequestInv'
      BY <1>4, <1>6 DEF GotBlockAck, Awaiting, IInv, ExchangeInv, TakenAway, Nothing
<1>7. CASE MissedBlockAck
      BY <1>4, <1>7 DEF MissedBlockAck, Awaiting, IInv, ExchangeInv, TakenAway, Nothing
<1>8. CASE EndTxNoAck
      BY <1>4, <1>8 DEF EndTxNoAck, Awaiting, IInv, ExchangeInv
<1>9. QED BY <1>1, <1>2, <1>3, <1>5, <1>6, <1>7, <1>8 DEF ExchangeEnds

LEMMA RequestSetupStep ==
  ASSUME RequestInv, Setup
  PROVE  RequestInv'
<1>1. CASE AddBaResponseTimeout
      BY <1>1 DEF AddBaResponseTimeout, NotifyAgreementNoReply, RequestInv
<1>2. CASE ResetBa
      BY <1>2 DEF ResetBa, RequestInv
<1>3. CASE GotAddBaResponse
      BY <1>3 DEF GotAddBaResponse, RequestInv
<1>4. CASE ResponseIsLost
      BY <1>4 DEF ResponseIsLost, RequestInv
<1>5. QED BY <1>1, <1>2, <1>3, <1>4 DEF Setup

LEMMA RequestStep ==
  ASSUME InternalCollisions = FALSE
  PROVE  IInv /\ RequestInv /\ [Next]_vars => RequestInv'
<1> SUFFICES ASSUME IInv, RequestInv, [Next]_vars PROVE RequestInv'
  OBVIOUS
<1>1. ASSUME UNCHANGED <<current, setupVars>> PROVE RequestInv'
      BY <1>1 DEF setupVars, RequestInv
<1>2. CASE Arrival
      BY <1>1, <1>2, StartCurrent DEF Arrival, Queue, QueueOverflow
<1>3. ASSUME NEW m \in AnyMsdu, Expire(m) PROVE RequestInv'
      BY <1>1, <1>3 DEF Expire
<1>4. ASSUME NEW fit \in Fitting, NotifyAccessGranted(fit) PROVE RequestInv'
      BY <1>4, RequestGrantStep
<1>5. CASE ExchangeEnds
      BY <1>5, RequestExchangeStep
<1>6. CASE Setup
      BY <1>6, RequestSetupStep
<1>7. CASE NotifyInternalCollision
      BY <1>7 DEF NotifyInternalCollision
<1>8. CASE UNCHANGED vars
      BY <1>1, <1>8 DEF vars
<1>9. QED BY <1>2, <1>3, <1>4, <1>5, <1>6, <1>7, <1>8 DEF Next

(* The station is blocked exactly while an agreement is pending, and then  *)
(* a request that is being sent, or a timer, will settle it.  With internal*)
(* collisions this does not hold: they drop the request.                   *)
THEOREM PendingResolved ==
  ASSUME InternalCollisions = FALSE
  PROVE  Spec => []PendingIsResolved
<1>1. Init => RequestInv
      BY DEF Init, RequestInv
<1>2. IInv /\ RequestInv => PendingIsResolved
      BY DEF IInv, AgreementInv, RequestInv, PendingIsResolved
<1>3. IInv /\ RequestInv /\ [Next]_vars => RequestInv'
      BY RequestStep
<1>4. QED BY <1>1, <1>2, <1>3, Invariant, PTL DEF Spec

-----------------------------------------------------------------------------

(* What BlockAckManager keeps.                                             *)
Frames == [numbered : Seq(Msdus), retry : SUBSET Msdus, outstanding : SUBSET Msdus,
           bar : {"none", "bar", "skip"}]

(* What the variables may be.                                              *)
QueueTypes ==
  /\ queue \in Seq(AnyMsdu) /\ Len(queue) =< MaxQueueSize
  /\ current \in [kind : {"none", "data", "group", "addBa", "bar"}, msdu : AnyMsdu \cup {NoMsdu}]
  /\ current.kind = "data" => current.msdu \in Msdus
  /\ current.kind = "group" => current.msdu \in GroupMsdus
  /\ current.kind \notin {"data", "group"} => current.msdu = NoMsdu
  /\ accessRequested \in BOOLEAN
  /\ ba \in Frames

SetupTypes ==
  /\ agreement \in {"none", "pending", "established", "no_reply", "reset"}
  /\ blocked \in BOOLEAN /\ addBaTimer \in BOOLEAN /\ resetTimer \in BOOLEAN
  /\ requestHeard \in BOOLEAN /\ response \in BOOLEAN

ExchangeTypes ==
  /\ retries \in 0 .. MaxSsrc
  /\ exchange \in [phase : {"idle", "rts", "sent"}, answer : {"none", "ack", "blockAck"},
                   mpdus : Seq(Msdus)]

TypeInv == QueueTypes /\ SetupTypes /\ ExchangeTypes /\ expired \subseteq AnyMsdu

(* As long as there is no agreement, the block ack manager has nothing to  *)
(* do, and every transmission of data is answered by an Ack.               *)
BeforeInv ==
  agreement # "established" =>
    /\ ba.outstanding = {} /\ ba.retry = {} /\ ba.bar = "none"
    /\ exchange.answer # "blockAck" /\ current.kind # "bar"
    /\ exchange.phase # "idle" /\ exchange.answer = "none" => current.kind # "data"

(* The frames that have a number are those that QosTxop holds, those in the*)
(* retransmit queue, and those on the way: outstanding, or to be sent once *)
(* the CTS has come.  None of them is in two places, or still in m_queue.  *)
Numbered == Elements(ba.numbered)
HeldFrames ==
  IF current.kind = "data" /\ agreement # "established" THEN {current.msdu} ELSE {}
AfterCts ==
  IF exchange.phase = "rts" /\ agreement = "established"
  THEN Elements(exchange.mpdus) \cap Numbered ELSE {}

PlacesInv ==
  /\ Numbered = HeldFrames \cup ba.retry \cup ba.outstanding \cup AfterCts
  /\ HeldFrames \cap (ba.retry \cup ba.outstanding) = {}
  /\ ba.retry \cap (ba.outstanding \cup AfterCts) = {}
  /\ ba.outstanding \cap AfterCts = {}
  /\ Numbered \cap Elements(queue) = {}
  /\ exchange.phase = "rts" => current.msdu \in Elements(exchange.mpdus)

(* Who asks about the outstanding frames.                                  *)
CoveredInv ==
  /\ ba.outstanding # {} =>
       \/ ba.bar = "bar"
       \/ current.kind = "bar"
       \/ exchange.phase = "sent" /\ exchange.answer = "blockAck"
       \/ /\ exchange.phase = "sent" /\ exchange.answer = "ack"
          /\ ba.outstanding \subseteq {current.msdu}
  /\ exchange.phase = "rts" /\ agreement = "established" =>
       /\ ba.outstanding = {}
       /\ exchange.answer = "ack" => Elements(exchange.mpdus) = {current.msdu}

-----------------------------------------------------------------------------
(* Sequences.                                                              *)

LEMMA LeastElement ==
  ASSUME NEW T, T \subseteq Nat, T # {}
  PROVE  \E n \in T : \A k \in T : n =< k
<1>1. PICK n \in T : \A k \in T : ~ (<<k, n>> \in OpToRel(<, Nat))
      BY NatLessThanWellFounded, WFMin, Zenon
<1>2. \A k \in T : ~ (k < n)
      BY <1>1 DEF OpToRel
<1>3. QED BY <1>2

LEMMA NoElements ==
  ASSUME NEW S, NEW s \in Seq(S)
  PROVE  /\ Elements(s) = {} <=> s = <<>>
         /\ Elements(s) \subseteq S
         /\ s # <<>> => Head(s) \in Elements(s)
<1>1. Len(s) \in Nat /\ DOMAIN s = 1 .. Len(s) /\ \A i \in 1 .. Len(s) : s[i] \in S
      BY LenProperties, ElementOfSeq
<1>2. s # <<>> => Len(s) > 0 /\ Head(s) = s[1]
      BY EmptySeq
<1>3. Elements(<<>>) = {}
      BY DEF Elements
<1>4. s # <<>> => Head(s) \in Elements(s)
      BY <1>1, <1>2 DEF Elements
<1>5. Elements(s) \subseteq S
      BY <1>1 DEF Elements
<1>6. QED BY <1>3, <1>4, <1>5

LEMMA SeqOfElements ==
  ASSUME NEW S, NEW s \in Seq(S), NEW U, Elements(s) \subseteq U
  PROVE  s \in Seq(U)
<1>1. Len(s) \in Nat /\ DOMAIN s = 1 .. Len(s) /\ s \in [1 .. Len(s) -> S]
      BY LenProperties
<1>2. \A i \in 1 .. Len(s) : s[i] \in U
      BY <1>1 DEF Elements
<1>3. s \in [1 .. Len(s) -> U]
      BY <1>1, <1>2
<1>4. QED BY <1>1, <1>3, SeqDef

LEMMA ElementsConcat ==
  ASSUME NEW S, NEW s \in Seq(S), NEW t \in Seq(S)
  PROVE  s \o t \in Seq(S) /\ Elements(s \o t) = Elements(s) \cup Elements(t)
<1>1. /\ s \o t \in Seq(S) /\ Len(s \o t) = Len(s) + Len(t)
      /\ Len(s) \in Nat /\ Len(t) \in Nat
      /\ \A i \in 1 .. Len(s) + Len(t) :
           (s \o t)[i] = IF i <= Len(s) THEN s[i] ELSE t[i - Len(s)]
      BY ConcatProperties, LenProperties
<1>2. /\ DOMAIN s = 1 .. Len(s) /\ DOMAIN t = 1 .. Len(t)
      /\ DOMAIN (s \o t) = 1 .. (Len(s) + Len(t))
      BY <1>1, LenProperties
<1>3. ASSUME NEW x \in Elements(s \o t) PROVE x \in Elements(s) \cup Elements(t)
  <2>1. PICK i \in 1 .. Len(s) + Len(t) : x = (s \o t)[i]
        BY <1>2, <1>3 DEF Elements
  <2>2. CASE i =< Len(s)
        BY <1>1, <1>2, <2>1, <2>2 DEF Elements
  <2>3. CASE i > Len(s)
    <3>1. i - Len(s) \in 1 .. Len(t) /\ x = t[i - Len(s)]
          BY <1>1, <2>1, <2>3
    <3>2. QED BY <1>2, <3>1 DEF Elements
  <2>4. QED BY <1>1, <2>1, <2>2, <2>3
<1>4. ASSUME NEW x \in Elements(s) PROVE x \in Elements(s \o t)
  <2>1. PICK i \in 1 .. Len(s) : x = s[i]
        BY <1>2, <1>4 DEF Elements
  <2>2. i \in 1 .. Len(s) + Len(t) /\ x = (s \o t)[i]
        BY <1>1, <2>1
  <2>3. QED BY <1>2, <2>2 DEF Elements
<1>5. ASSUME NEW x \in Elements(t) PROVE x \in Elements(s \o t)
  <2>1. PICK i \in 1 .. Len(t) : x = t[i]
        BY <1>2, <1>5 DEF Elements
  <2>2. i + Len(s) \in 1 .. Len(s) + Len(t) /\ x = (s \o t)[i + Len(s)]
        BY <1>1, <2>1
  <2>3. QED BY <1>2, <2>2 DEF Elements
<1>6. QED BY <1>1, <1>3, <1>4, <1>5

LEMMA ElementsAppend ==
  ASSUME NEW S, NEW s \in Seq(S), NEW x \in S
  PROVE  /\ Append(s, x) \in Seq(S) /\ Len(Append(s, x)) = Len(s) + 1
         /\ Elements(Append(s, x)) = Elements(s) \cup {x}
<1>1. /\ Append(s, x) \in Seq(S) /\ Len(Append(s, x)) = Len(s) + 1 /\ Len(s) \in Nat
      /\ \A i \in 1 .. Len(s) : Append(s, x)[i] = s[i]
      /\ Append(s, x)[Len(s) + 1] = x
      BY AppendProperties, LenProperties
<1>2. /\ DOMAIN s = 1 .. Len(s)
      /\ DOMAIN Append(s, x) = 1 .. Len(s) + 1
      BY <1>1, LenProperties
<1>3. \A i \in 1 .. Len(s) + 1 : i = Len(s) + 1 \/ i \in 1 .. Len(s)
      BY <1>1
<1>4. QED BY <1>1, <1>2, <1>3 DEF Elements

LEMMA ElementsTail ==
  ASSUME NEW S, NEW s \in Seq(S), s # <<>>
  PROVE  /\ Tail(s) \in Seq(S) /\ Len(Tail(s)) =< Len(s)
         /\ Elements(Tail(s)) \subseteq Elements(s)
<1>1. /\ Tail(s) \in Seq(S) /\ Len(Tail(s)) = Len(s) - 1
      /\ \A i \in 1 .. Len(Tail(s)) : Tail(s)[i] = s[i + 1]
      /\ Len(s) \in Nat /\ Len(Tail(s)) \in Nat
      BY HeadTailProperties, LenProperties
<1>2. DOMAIN s = 1 .. Len(s) /\ DOMAIN Tail(s) = 1 .. Len(Tail(s))
      BY <1>1, LenProperties
<1>3. \A i \in 1 .. Len(Tail(s)) : i + 1 \in 1 .. Len(s)
      BY <1>1
<1>4. QED BY <1>1, <1>2, <1>3 DEF Elements

LEMMA ElementsPrefix ==
  ASSUME NEW S, NEW s \in Seq(S), NEW n \in 0 .. Len(s)
  PROVE  /\ SubSeq(s, 1, n) \in Seq(S) /\ Len(SubSeq(s, 1, n)) = n
         /\ Elements(SubSeq(s, 1, n)) \subseteq Elements(s)
         /\ n > 0 => SubSeq(s, 1, n)[1] = s[1]
<1>1. Len(s) \in Nat /\ DOMAIN s = 1 .. Len(s) /\ \A i \in 1 .. n : s[i] \in S
      BY LenProperties, ElementOfSeq
<1>2. /\ SubSeq(s, 1, n) \in Seq(S) /\ Len(SubSeq(s, 1, n)) = n
      /\ \A i \in 1 .. n : SubSeq(s, 1, n)[i] = s[i]
      BY <1>1, SubSeqProperties
<1>3. DOMAIN SubSeq(s, 1, n) = 1 .. n
      BY <1>2, LenProperties
<1>4. QED BY <1>1, <1>2, <1>3 DEF Elements

(* The recursive function in Only is the function that its equation says.  *)
LEMMA OnlyFunction ==
  ASSUME NEW S, NEW s \in Seq(S), NEW set
  PROVE  \E f : /\ f = [n \in 0 .. Len(s) |->
                          IF n = 0 THEN <<>>
                          ELSE IF s[n] \in set THEN Append(f[n - 1], s[n]) ELSE f[n - 1]]
                /\ Only(s, set) = f[Len(s)]
<1> DEFINE Value(f, n) == IF n = 0 THEN <<>>
                          ELSE IF s[n] \in set THEN Append(f[n - 1], s[n]) ELSE f[n - 1]
           Defines(f, k) == f = [n \in 0 .. k |-> Value(f, n)]
           T == {k \in Nat : ~ \E f : Defines(f, k)}
<1>1. ASSUME T # {} PROVE FALSE
  <2>1. PICK k \in T : \A j \in T : k =< j
    <3>1. T \subseteq Nat
          OBVIOUS
    <3> HIDE DEF T
    <3>2. QED BY <1>1, <3>1, LeastElement
  <2>2. k \in Nat /\ ~ \E f : Defines(f, k)
        OBVIOUS
  <2>3. CASE k = 0
    <3> DEFINE f == [n \in 0 .. 0 |-> <<>>]
    <3>1. Defines(f, 0)
          OBVIOUS
    <3>2. QED BY <2>2, <2>3, <3>1
  <2>4. CASE k # 0
    <3>1. k - 1 \in Nat /\ ~ (k =< k - 1)
          BY <2>2, <2>4
    <3>2. PICK g : Defines(g, k - 1)
      <4> HIDE DEF Defines
      <4>1. k - 1 \notin T
            BY <2>1, <3>1, Zenon
      <4>2. QED BY <3>1, <4>1
    <3> DEFINE f == [n \in 0 .. k |-> IF n = k THEN Value(g, k) ELSE g[n]]
    <3>3. \A n \in 0 .. k : f[n] = Value(f, n)
      <4>1. TAKE n \in 0 .. k
      <4>2. CASE n = k
        <5>1. f[n - 1] = g[n - 1]
              BY <2>2, <2>4, <4>2
        <5>2. f[n] = Value(g, k)
              BY <4>2
        <5>3. QED BY <4>2, <5>1, <5>2
      <4>3. CASE n # k
        <5>1. n \in 0 .. k - 1 /\ (n # 0 => n - 1 \in 0 .. k /\ n - 1 # k)
              BY <2>2, <4>1, <4>3
        <5>2. g[n] = Value(g, n)
              BY <3>2, <5>1, Zenon
        <5>3. f[n] = g[n] /\ (n # 0 => f[n - 1] = g[n - 1])
              BY <4>1, <4>3, <5>1
        <5>4. QED BY <5>2, <5>3
      <4>4. QED BY <4>2, <4>3
    <3>4. Defines(f, k)
          BY <3>3
    <3>5. QED BY <2>2, <3>4
  <2>5. QED BY <2>3, <2>4
<1>2. Len(s) \in Nat
      BY LenProperties
<1>3. \E f : Defines(f, Len(s))
  <2> HIDE DEF Defines
  <2>1. Len(s) \notin T
        BY <1>1, Zenon
  <2>2. QED BY <1>2, <2>1
<1>4. QED BY <1>3, Zenon DEF Only

(* What Only and Without keep.                                             *)
LEMMA OnlyElements ==
  ASSUME NEW S, NEW s \in Seq(S), NEW set
  PROVE  /\ Only(s, set) \in Seq(S) /\ Len(Only(s, set)) =< Len(s)
         /\ Elements(Only(s, set)) = Elements(s) \cap set
<1>1. PICK f : /\ f = [n \in 0 .. Len(s) |->
                         IF n = 0 THEN <<>>
                         ELSE IF s[n] \in set THEN Append(f[n - 1], s[n]) ELSE f[n - 1]]
               /\ Only(s, set) = f[Len(s)]
      BY OnlyFunction
<1>2. Len(s) \in Nat /\ DOMAIN s = 1 .. Len(s) /\ \A i \in 1 .. Len(s) : s[i] \in S
      BY LenProperties, ElementOfSeq
<1>3. f[0] = <<>>
      BY <1>1, <1>2
<1>4. \A n \in 1 .. Len(s) : f[n] = IF s[n] \in set THEN Append(f[n - 1], s[n]) ELSE f[n - 1]
  <2>1. TAKE n \in 1 .. Len(s)
  <2>2. n \in 0 .. Len(s) /\ n # 0
        BY <1>2
  <2>3. QED BY <1>1, <2>2, Zenon
<1> HIDE <1>1
<1> DEFINE Right(n) == /\ f[n] \in Seq(S) /\ Len(f[n]) =< n
                      /\ Elements(f[n]) = {s[i] : i \in 1 .. n} \cap set
           T == {n \in 0 .. Len(s) : ~ Right(n)}
<1>5. ASSUME T # {} PROVE FALSE
  <2>1. PICK n \in T : \A k \in T : n =< k
    <3>1. T \subseteq Nat
          BY <1>2
    <3> HIDE DEF T
    <3>2. QED BY <1>5, <3>1, LeastElement
  <2>2. n \in 0 .. Len(s) /\ ~ Right(n)
        OBVIOUS
  <2>3. n # 0
    <3>1. f[0] \in Seq(S) /\ Len(f[0]) = 0 /\ Elements(f[0]) = {}
          BY <1>3, EmptySeq DEF Elements
    <3>2. Right(0)
          BY <3>1
    <3>3. QED BY <2>2, <3>2
  <2>4. n - 1 \in 0 .. Len(s) /\ n \in 1 .. Len(s)
        BY <1>2, <2>2, <2>3
  <2>5. Right(n - 1)
    <3>1. ~ (n =< n - 1)
          BY <2>4
    <3> HIDE DEF Right
    <3>2. n - 1 \notin T
          BY <2>1, <3>1, Zenon
    <3>3. QED BY <2>4, <3>2
  <2>6. {s[i] : i \in 1 .. n} = {s[i] : i \in 1 .. n - 1} \cup {s[n]}
        BY <1>2, <2>4
  <2>7. s[n] \in S /\ f[n] = IF s[n] \in set THEN Append(f[n - 1], s[n]) ELSE f[n - 1]
        BY <1>2, <1>4, <2>4
  <2>8. Len(f[n - 1]) \in Nat
        BY <2>5, LenProperties
  <2>9. CASE s[n] \in set
    <3>1. /\ f[n] \in Seq(S) /\ Len(f[n]) = Len(f[n - 1]) + 1
          /\ Elements(f[n]) = Elements(f[n - 1]) \cup {s[n]}
          BY <2>5, <2>7, <2>9, ElementsAppend
    <3>2. QED BY <2>2, <2>4, <2>5, <2>6, <2>8, <2>9, <3>1
  <2>10. CASE s[n] \notin set
        BY <2>2, <2>4, <2>5, <2>6, <2>7, <2>8, <2>10
  <2>11. QED BY <2>9, <2>10
<1>6. Right(Len(s))
  <2> HIDE DEF Right
  <2>1. QED BY <1>2, <1>5
<1>7. Only(s, set) = f[Len(s)]
      BY <1>1
<1>8. QED BY <1>2, <1>6, <1>7 DEF Elements

LEMMA WithoutElements ==
  ASSUME NEW S, NEW s \in Seq(S), NEW set
  PROVE  /\ Without(s, set) \in Seq(S) /\ Len(Without(s, set)) =< Len(s)
         /\ Elements(Without(s, set)) = Elements(s) \ set
<1>1. QED BY OnlyElements DEF Without

-----------------------------------------------------------------------------
(* The queue and BlockAckManager.                                          *)

(* c is b without the frames that are gone.                                *)
GivesUp(b, c, gone) ==
  /\ Elements(c.numbered) = Elements(b.numbered) \ gone
  /\ c.retry = b.retry \ gone
  /\ c.outstanding = b.outstanding \ gone

(* What the functions that look for work may do to b.                      *)
Reduces(b, c) ==
  /\ c \in Frames
  /\ \E gone : GivesUp(b, c, gone)
  /\ c.bar = b.bar \/ c.bar = "bar"
  /\ agreement # "established" /\ b.bar = "none" => c = b

LEMMA ReducesSame ==
  ASSUME NEW STATE b, b \in Frames
  PROVE  Reduces(b, b)
<1>1. GivesUp(b, b, {})
      BY DEF GivesUp
<1>2. QED BY <1>1 DEF Reduces

LEMMA ReducesTwice ==
  ASSUME NEW STATE b, NEW STATE c, NEW STATE d, Reduces(b, c), Reduces(c, d)
  PROVE  Reduces(b, d)
<1>1. PICK gone : GivesUp(b, c, gone)
      BY DEF Reduces
<1>2. PICK more : GivesUp(c, d, more)
      BY DEF Reduces
<1>3. GivesUp(b, d, gone \cup more)
      BY <1>1, <1>2 DEF GivesUp
<1>4. /\ d \in Frames
      /\ d.bar = b.bar \/ d.bar = "bar"
      /\ agreement # "established" /\ b.bar = "none" => d = b
      BY DEF Reduces
<1>5. QED BY <1>3, <1>4 DEF Reduces

(* Frames that are taken out of all the places.                            *)
TakeOut(b, gone) == [b EXCEPT !.numbered = Without(@, gone),
                              !.retry = @ \ gone, !.outstanding = @ \ gone]

LEMMA TakenOut ==
  ASSUME NEW STATE b, b \in Frames, NEW STATE gone
  PROVE  /\ TakeOut(b, gone) \in Frames
         /\ GivesUp(b, TakeOut(b, gone), gone)
         /\ TakeOut(b, gone).bar = b.bar
<1> DEFINE c == [b EXCEPT !.numbered = Without(@, gone),
                          !.retry = @ \ gone, !.outstanding = @ \ gone]
<1>1. /\ b.numbered \in Seq(Msdus) /\ b.retry \in SUBSET Msdus
      /\ b.outstanding \in SUBSET Msdus /\ b.bar \in {"none", "bar", "skip"}
      BY DEF Frames
<1>2. /\ Without(b.numbered, gone) \in Seq(Msdus)
      /\ Elements(Without(b.numbered, gone)) = Elements(b.numbered) \ gone
      BY <1>1, WithoutElements
<1>3. b.retry \ gone \in SUBSET Msdus /\ b.outstanding \ gone \in SUBSET Msdus
      BY <1>1
<1>4. /\ c.numbered = Without(b.numbered, gone) /\ c.retry = b.retry \ gone
      /\ c.outstanding = b.outstanding \ gone /\ c.bar = b.bar
      BY DEF Frames
<1>5. c \in Frames
      BY <1>2, <1>3 DEF Frames
<1>6. QED BY <1>2, <1>4, <1>5 DEF GivesUp, TakeOut

LEMMA FinishedFrames ==
  ASSUME NEW STATE b, b \in Frames, NEW STATE set
  PROVE  /\ Finished(b, set) \in Frames
         /\ GivesUp(b, Finished(b, set), set)
         /\ Finished(b, set).bar = b.bar
  BY TakenOut DEF Finished, TakeOut

LEMMA PlaceOfFrame ==
  ASSUME NEW STATE b, b \in Frames, NEW m \in Elements(b.numbered)
  PROVE  Place(b, m) \in Nat
<1>1. DOMAIN b.numbered = 1 .. Len(b.numbered) /\ Len(b.numbered) \in Nat
      BY LenProperties DEF Frames
<1>2. \E i \in DOMAIN b.numbered : b.numbered[i] = m
      BY DEF Elements
<1>3. QED BY <1>1, <1>2 DEF Place

LEMMA MovePastFrames ==
  ASSUME NEW STATE b, b \in Frames, NEW STATE set
  PROVE  /\ MovePast(b, set) \in Frames
         /\ MovePast(b, set).bar = b.bar
         /\ \E gone : /\ GivesUp(b, MovePast(b, set), gone)
                      /\ set \cap Elements(b.numbered) \subseteq gone
<1> DEFINE gone == {m \in Elements(b.numbered) :
                      \E d \in set \cap Elements(b.numbered) : Place(b, m) =< Place(b, d)}
<1>1. set \cap Elements(b.numbered) \subseteq gone
      BY PlaceOfFrame
<1>2. MovePast(b, set) = TakeOut(b, gone)
      BY DEF MovePast, TakeOut
<1> HIDE DEF gone
<1>3. /\ MovePast(b, set) \in Frames /\ MovePast(b, set).bar = b.bar
      /\ GivesUp(b, MovePast(b, set), gone)
      BY <1>2, TakenOut
<1>4. QED BY <1>1, <1>3

LEMMA DiscardedFrames ==
  ASSUME NEW STATE b, b \in Frames, NEW STATE set
  PROVE  LET c == NotifyDiscardedMpdu(b, set)
         IN  /\ Reduces(b, c)
             /\ agreement # "established" => c = b
             /\ agreement = "established" =>
                  /\ Elements(c.numbered) \cap set = {}
                  /\ set \cap Elements(b.numbered) # {} => c.bar = "bar"
<1> DEFINE c == NotifyDiscardedMpdu(b, set)
<1>1. CASE agreement = "established" /\ set \cap Elements(b.numbered) # {}
  <2> DEFINE d == MovePast(b, set)
  <2>1. d \in Frames
        BY MovePastFrames
  <2>2. PICK gone : GivesUp(b, d, gone) /\ set \cap Elements(b.numbered) \subseteq gone
        BY MovePastFrames
  <2>3. c = [d EXCEPT !.bar = "bar"]
        BY <1>1 DEF NotifyDiscardedMpdu
  <2> HIDE DEF c, d
  <2>4. /\ c.numbered = d.numbered /\ c.retry = d.retry
        /\ c.outstanding = d.outstanding /\ c.bar = "bar"
        BY <2>1, <2>3 DEF Frames
  <2>5. c \in Frames
        BY <2>1, <2>3 DEF Frames
  <2>6. GivesUp(b, c, gone) /\ Elements(c.numbered) \cap set = {}
        BY <2>2, <2>4 DEF GivesUp
  <2>7. Reduces(b, c)
        BY <1>1, <2>4, <2>5, <2>6 DEF Reduces
  <2>8. QED BY <1>1, <2>4, <2>6, <2>7 DEF c
<1>2. CASE ~ (agreement = "established" /\ set \cap Elements(b.numbered) # {})
  <2>1. c = b
        BY <1>2 DEF NotifyDiscardedMpdu
  <2>2. QED BY <1>2, <2>1, ReducesSame
<1>3. QED BY <1>1, <1>2

(* No frame in the retransmit queue has expired after it was cleaned.      *)
LEMMA CleanedFrames ==
  ASSUME NEW STATE b, b \in Frames
  PROVE  /\ Reduces(b, Cleaned(b))
         /\ agreement # "established" => Cleaned(b) = b
         /\ agreement = "established" /\ b.retry \subseteq Elements(b.numbered)
              => Cleaned(b).retry \cap expired = {}
<1> DEFINE c == Cleaned(b)
<1>1. /\ Reduces(b, c)
      /\ agreement # "established" => c = b
      /\ agreement = "established" => Elements(c.numbered) \cap (b.retry \cap expired) = {}
      BY DiscardedFrames DEF Cleaned
<1>2. PICK gone : GivesUp(b, c, gone)
      BY <1>1 DEF Reduces
<1>3. c.retry \subseteq b.retry
      BY <1>2 DEF GivesUp
<1>4. b.retry \subseteq Elements(b.numbered) => c.retry \subseteq Elements(c.numbered)
      BY <1>2 DEF GivesUp
<1>5. QED BY <1>1, <1>3, <1>4

LEMMA GetBarFrames ==
  ASSUME NEW STATE b, b \in Frames, NEW STATE q
  PROVE  Reduces(b, GetBar(b, q))
<1>1. CASE BarReady(b, q)
  <2>1. PICK gone : GivesUp(b, MovePast(b, b.outstanding \cap expired), gone)
        BY MovePastFrames
  <2>2. /\ MovePast(b, b.outstanding \cap expired) \in Frames
        /\ MovePast(b, b.outstanding \cap expired).bar = b.bar
        BY MovePastFrames
  <2>3. b.bar # "none" /\ GetBar(b, q) = MovePast(b, b.outstanding \cap expired)
        BY <1>1 DEF BarReady, GetBar
  <2>4. QED BY <2>1, <2>2, <2>3 DEF Reduces
<1>2. CASE ~ BarReady(b, q)
      BY <1>2, ReducesSame DEF GetBar
<1>3. QED BY <1>1, <1>2

LEMMA AfterHasPacketsFrames ==
  ASSUME NEW STATE b, b \in Frames, NEW STATE q
  PROVE  Reduces(b, AfterHasPackets(b, q))
<1>1. Reduces(b, Cleaned(b)) /\ Cleaned(b) \in Frames
      BY CleanedFrames DEF Reduces
<1>2. Reduces(Cleaned(b), GetBar(Cleaned(b), q))
      BY <1>1, GetBarFrames
<1>3. Reduces(b, GetBar(Cleaned(b), q))
      BY <1>1, <1>2, ReducesTwice
<1>4. QED BY <1>1, <1>3 DEF AfterHasPackets

LEMMA FreshQueue ==
  ASSUME NEW STATE q, q \in Seq(AnyMsdu)
  PROVE  /\ Fresh(q) \in Seq(AnyMsdu) /\ Len(Fresh(q)) =< Len(q)
         /\ Elements(Fresh(q)) = Elements(q) \ expired
  BY WithoutElements DEF Fresh

(* What RestartAccessIfNeeded does with what a handler leaves to it.       *)
LEMMA Restarted ==
  ASSUME NEW STATE packet, NEW STATE q, q \in Seq(AnyMsdu), NEW STATE b, b \in Frames,
         accessRequested \in BOOLEAN, RestartAccessIfNeeded(packet, q, b)
  PROVE  /\ current' = packet
         /\ queue' \in Seq(AnyMsdu) /\ Len(queue') =< Len(q)
         /\ Elements(queue') = Elements(q) \ expired
         /\ Reduces(b, ba') /\ ba' \in Frames
         /\ accessRequested' \in BOOLEAN
         /\ accessRequested \/ packet # Nothing => accessRequested'
         /\ ba'.retry # {} \/ queue' # <<>> => accessRequested'
<1>1. /\ current' = packet /\ queue' = Fresh(q) /\ ba' = AfterHasPackets(b, Fresh(q))
      /\ accessRequested' = (accessRequested \/ packet # Nothing \/ HasWork(ba', Fresh(q)))
      BY DEF RestartAccessIfNeeded
<1>2. Reduces(b, ba') /\ ba' \in Frames
      BY <1>1, AfterHasPacketsFrames DEF Reduces
<1>3. QED BY <1>1, <1>2, FreshQueue DEF HasWork

LEMMA Started ==
  ASSUME NEW STATE q, ba \in Frames, accessRequested \in BOOLEAN, StartAccessIfNeeded(q)
  PROVE  /\ UNCHANGED current /\ queue' = q
         /\ Reduces(ba, ba') /\ ba' \in Frames
         /\ accessRequested' \in BOOLEAN
         /\ accessRequested => accessRequested'
         /\ current = Nothing /\ (ba'.retry # {} \/ q # <<>>) => accessRequested'
<1>1. /\ UNCHANGED current /\ queue' = q /\ ba' = AfterHasPackets(ba, q)
      /\ accessRequested' = (accessRequested \/ (current = Nothing /\ HasWork(ba', q)))
      BY DEF StartAccessIfNeeded
<1>2. Reduces(ba, ba') /\ ba' \in Frames
      BY <1>1, AfterHasPacketsFrames DEF Reduces
<1>3. QED BY <1>1, <1>2 DEF HasWork

-----------------------------------------------------------------------------
(* The type invariant.                                                     *)

LEMMA Constants ==
  /\ NoMsdu \notin AnyMsdu /\ Msdus \cap GroupMsdus = {} /\ AnyMsdu = Msdus \cup GroupMsdus
  /\ MaxQueueSize \in Nat /\ MaxQueueSize > 0 /\ MaxAmpdu \in Nat /\ MaxSsrc \in Nat
  /\ Fitting \subseteq Nat
  BY TxopConstants DEF AnyMsdu, Fitting

LEMMA IdleTypes ==
  ASSUME exchange' = Idle, retries' \in 0 .. MaxSsrc
  PROVE  ExchangeTypes'
<1>1. <<>> \in Seq(Msdus)
      BY EmptySeq
<1>2. QED BY <1>1 DEF ExchangeTypes, Idle

LEMMA SameQueueTypes ==
  ASSUME QueueTypes, UNCHANGED <<queue, current, accessRequested>>, ba' \in Frames
  PROVE  QueueTypes'
  BY DEF QueueTypes

LEMMA SameSetupTypes ==
  ASSUME SetupTypes, UNCHANGED setupVars
  PROVE  SetupTypes'
  BY DEF SetupTypes, setupVars

LEMMA RestartTypes ==
  ASSUME QueueTypes, NEW STATE packet, packet = current \/ packet = Nothing,
         NEW STATE q, q \in Seq(AnyMsdu), Len(q) =< Len(queue),
         NEW STATE b, b \in Frames, RestartAccessIfNeeded(packet, q, b)
  PROVE  QueueTypes'
<1>1. /\ current' = packet /\ queue' \in Seq(AnyMsdu) /\ Len(queue') =< Len(q)
      /\ ba' \in Frames /\ accessRequested' \in BOOLEAN
      BY Restarted DEF QueueTypes
<1>2. Len(queue') \in Nat /\ Len(q) \in Nat /\ Len(queue) \in Nat
      BY <1>1, LenProperties DEF QueueTypes
<1>3. Len(queue') =< MaxQueueSize
      BY <1>1, <1>2, Constants DEF QueueTypes
<1>4. QED BY <1>1, <1>3 DEF QueueTypes, Nothing

LEMMA RestartQueueTypes ==
  ASSUME QueueTypes, NEW STATE packet, packet = current \/ packet = Nothing,
         NEW STATE b, b \in Frames, RestartAccessIfNeeded(packet, queue, b)
  PROVE  QueueTypes'
<1>1. queue \in Seq(AnyMsdu) /\ Len(queue) \in Nat
      BY LenProperties DEF QueueTypes
<1>2. Len(queue) =< Len(queue)
      BY <1>1
<1>3. QED BY <1>1, <1>2, RestartTypes

LEMMA ArrivalTypes ==
  ASSUME TypeInv, Arrival
  PROVE  TypeInv'
<1>1. SetupTypes' /\ ExchangeTypes'
      BY SameSetupTypes DEF Arrival, Queue, QueueOverflow, TypeInv, ExchangeTypes
<1>2. /\ Fresh(queue) \in Seq(AnyMsdu) /\ Len(Fresh(queue)) =< Len(queue)
      /\ Len(queue) \in Nat /\ Len(Fresh(queue)) \in Nat /\ Len(queue) =< MaxQueueSize
      BY FreshQueue, LenProperties DEF TypeInv, QueueTypes
<1>3. ASSUME NEW STATE q, q \in Seq(AnyMsdu), Len(q) =< MaxQueueSize, StartAccessIfNeeded(q)
      PROVE  QueueTypes'
      BY <1>3, Started DEF TypeInv, QueueTypes
<1>4. ASSUME NEW m \in AnyMsdu, Queue(m) PROVE TypeInv'
  <2>1. /\ Append(Fresh(queue), m) \in Seq(AnyMsdu)
        /\ Len(Append(Fresh(queue), m)) = Len(Fresh(queue)) + 1
        BY <1>2, ElementsAppend
  <2>2. Len(Append(Fresh(queue), m)) =< MaxQueueSize
        BY <1>2, <1>4, <2>1, Constants DEF Queue
  <2>3. QueueTypes'
        BY <1>3, <1>4, <2>1, <2>2 DEF Queue
  <2>4. QED BY <1>1, <1>4, <2>3 DEF Queue, TypeInv
<1>5. CASE QueueOverflow
  <2>1. Len(Fresh(queue)) =< MaxQueueSize
        BY <1>2, Constants
  <2>2. QueueTypes'
        BY <1>2, <1>3, <1>5, <2>1 DEF QueueOverflow
  <2>3. QED BY <1>1, <1>5, <2>2 DEF QueueOverflow, TypeInv
<1>6. QED BY <1>4, <1>5 DEF Arrival

-----------------------------------------------------------------------------
(* What an access grant starts from, and what it sends.                    *)

LEMMA KeptFrames ==
  ASSUME ba \in Frames
  PROVE  /\ Kept \in Frames
         /\ \E gone : GivesUp(ba, Kept, gone)
         /\ Kept.bar = ba.bar \/ Kept.bar = "bar"
         /\ agreement # "established" =>
              Kept = IF LifetimeOver THEN Finished(ba, {current.msdu}) ELSE ba
         /\ agreement = "established" /\ ba.retry \subseteq Elements(ba.numbered)
              => Kept.retry \cap expired = {}
<1> DEFINE b == IF LifetimeOver THEN Finished(ba, {current.msdu}) ELSE ba
<1>1. b \in Frames /\ b.bar = ba.bar /\ \E gone : GivesUp(ba, b, gone)
  <2>1. CASE LifetimeOver
        BY <2>1, FinishedFrames
  <2>2. CASE ~ LifetimeOver
        BY <2>2, ReducesSame DEF Reduces
  <2>3. QED BY <2>1, <2>2
<1>2. Kept = Cleaned(b)
      BY DEF Kept
<1> HIDE DEF b
<1>3. /\ Reduces(b, Kept)
      /\ agreement # "established" => Kept = b
      /\ agreement = "established" /\ b.retry \subseteq Elements(b.numbered)
           => Kept.retry \cap expired = {}
      BY <1>1, <1>2, CleanedFrames
<1>4. PICK gone, more : GivesUp(ba, b, gone) /\ GivesUp(b, Kept, more)
      BY <1>1, <1>3 DEF Reduces
<1>5. GivesUp(ba, Kept, gone \cup more)
      BY <1>4 DEF GivesUp
<1>6. ba.retry \subseteq Elements(ba.numbered) => b.retry \subseteq Elements(b.numbered)
      BY <1>4 DEF GivesUp
<1>7. QED BY <1>1, <1>3, <1>5, <1>6 DEF Reduces, b

(* The MPDUs that SendData puts together.                                  *)
Ready == InOrder(Kept, Kept.retry) \o ForStation(Fresh(queue))
Limit(fit) == IF agreement = "established" THEN fit ELSE 1
Ampdu(fit) == SubSeq(Ready, 1, IF Len(Ready) < Limit(fit) THEN Len(Ready) ELSE Limit(fit))
WithNumbers(fit) ==
  [Kept EXCEPT !.numbered = @ \o Without(Ampdu(fit), Kept.retry),
               !.retry = @ \ Elements(Ampdu(fit))]

LEMMA SendDataCases ==
  ASSUME NEW fit, SendData(fit), fit # 0
  PROVE  /\ current' = Packet("data", Ampdu(fit)[1])
         /\ queue' = Without(Fresh(queue), Elements(Ampdu(fit)))
         /\ Transmit(WithNumbers(fit), Ampdu(fit))
  BY DEF SendData, Ready, Limit, Ampdu, WithNumbers

LEMMA ReadyElements ==
  ASSUME TypeInv
  PROVE  /\ Ready \in Seq(Msdus)
         /\ Elements(Ready) = (Elements(Kept.numbered) \cap Kept.retry)
                                \cup ((Elements(queue) \ expired) \cap Msdus)
<1>1. Kept.numbered \in Seq(Msdus)
      BY KeptFrames DEF TypeInv, QueueTypes, Frames
<1>2. /\ InOrder(Kept, Kept.retry) \in Seq(Msdus)
      /\ Elements(InOrder(Kept, Kept.retry)) = Elements(Kept.numbered) \cap Kept.retry
      BY <1>1, OnlyElements DEF InOrder
<1>3. Fresh(queue) \in Seq(AnyMsdu) /\ Elements(Fresh(queue)) = Elements(queue) \ expired
      BY FreshQueue DEF TypeInv, QueueTypes
<1>4. /\ ForStation(Fresh(queue)) \in Seq(AnyMsdu)
      /\ Elements(ForStation(Fresh(queue))) = (Elements(queue) \ expired) \cap Msdus
      BY <1>3, OnlyElements DEF ForStation
<1>5. ForStation(Fresh(queue)) \in Seq(Msdus)
      BY <1>4, SeqOfElements
<1>6. QED BY <1>2, <1>4, <1>5, ElementsConcat DEF Ready

(* What PeekNextFrame finds.                                               *)
LEMMA NextFrameFound ==
  ASSUME TypeInv
  PROVE  /\ NextFrame \in Msdus => Ready # <<>>
         /\ NextFrame \in GroupMsdus => NextFrame \in Elements(queue) \ expired
         /\ NextFrame = NoMsdu =>
              /\ Available(queue) = <<>>
              /\ blocked \/ Kept.retry \cap Elements(Kept.numbered) \subseteq expired
<1> DEFINE again == InOrder(Kept, Kept.retry \ expired)
<1>1. Kept.numbered \in Seq(Msdus)
      BY KeptFrames DEF TypeInv, QueueTypes, Frames
<1>2. /\ again \in Seq(Msdus)
      /\ Elements(again) = Elements(Kept.numbered) \cap (Kept.retry \ expired)
      BY <1>1, OnlyElements DEF InOrder
<1>3. Fresh(queue) \in Seq(AnyMsdu) /\ Elements(Fresh(queue)) = Elements(queue) \ expired
      BY FreshQueue DEF TypeInv, QueueTypes
<1>4. /\ Available(queue) \in Seq(AnyMsdu)
      /\ Elements(Available(queue)) \subseteq Elements(queue) \ expired
      BY <1>3, OnlyElements DEF Available
<1>5. /\ NextFrame = IF again # <<>> /\ ~ blocked THEN Head(again)
                     ELSE IF Available(queue) # <<>> THEN Head(Available(queue)) ELSE NoMsdu
      BY DEF NextFrame, PeekNextFrame
<1> HIDE DEF again
<1>6. again # <<>> => Head(again) \in Elements(again) /\ Elements(again) \subseteq Msdus
      BY <1>2, NoElements
<1>7. Available(queue) # <<>> =>
        Head(Available(queue)) \in Elements(Available(queue)) /\ Head(Available(queue)) \in AnyMsdu
      BY <1>4, NoElements
<1>8. again = <<>> => Elements(again) = {}
      BY <1>2, NoElements
<1>9. Elements(Ready) # {} => Ready # <<>>
      BY ReadyElements, NoElements
<1>10. NextFrame \in Msdus => Ready # <<>>
      BY <1>2, <1>4, <1>5, <1>6, <1>7, <1>9, Constants, ReadyElements
<1>11. NextFrame \in GroupMsdus => NextFrame \in Elements(queue) \ expired
      BY <1>4, <1>5, <1>6, <1>7, Constants
<1>12. ASSUME NextFrame = NoMsdu
       PROVE  /\ Available(queue) = <<>>
              /\ blocked \/ Kept.retry \cap Elements(Kept.numbered) \subseteq expired
  <2>1. Available(queue) = <<>> /\ (again = <<>> \/ blocked)
        BY <1>5, <1>6, <1>7, <1>12, Constants
  <2>2. QED BY <1>2, <1>8, <2>1
<1>13. QED BY <1>10, <1>11, <1>12

LEMMA AmpduElements ==
  ASSUME TypeInv, NEW fit \in Fitting, fit # 0, NextFrame \in Msdus
  PROVE  /\ Ampdu(fit) \in Seq(Msdus) /\ Len(Ampdu(fit)) > 0
         /\ Ampdu(fit)[1] \in Elements(Ampdu(fit)) /\ Elements(Ampdu(fit)) \subseteq Msdus
         /\ Elements(Ampdu(fit)) \subseteq Elements(Ready)
         /\ agreement # "established" => Len(Ampdu(fit)) = 1
         /\ Len(Ampdu(fit)) = 1 => Elements(Ampdu(fit)) = {Ampdu(fit)[1]}
<1> DEFINE n == IF Len(Ready) < Limit(fit) THEN Len(Ready) ELSE Limit(fit)
<1>1. Ready \in Seq(Msdus) /\ Ready # <<>>
      BY ReadyElements, NextFrameFound
<1>2. Len(Ready) \in Nat /\ Len(Ready) > 0
      BY <1>1, EmptySeq
<1>3. Limit(fit) \in Nat /\ Limit(fit) > 0
      BY Constants DEF Limit
<1>4. n \in 0 .. Len(Ready) /\ n > 0
      BY <1>2, <1>3
<1>5. agreement # "established" => n = 1
      BY <1>2 DEF Limit
<1> HIDE DEF n
<1>6. /\ SubSeq(Ready, 1, n) \in Seq(Msdus) /\ Len(SubSeq(Ready, 1, n)) = n
      /\ Elements(SubSeq(Ready, 1, n)) \subseteq Elements(Ready)
      BY <1>1, <1>4, ElementsPrefix
<1>7. Ampdu(fit) = SubSeq(Ready, 1, n)
      BY DEF Ampdu, n
<1>8. DOMAIN Ampdu(fit) = 1 .. n
      BY <1>6, <1>7, LenProperties
<1>9. Ampdu(fit)[1] \in Elements(Ampdu(fit))
      BY <1>4, <1>8 DEF Elements
<1>10. n = 1 => Elements(Ampdu(fit)) = {Ampdu(fit)[1]}
      BY <1>8 DEF Elements
<1>11. Elements(Ampdu(fit)) \subseteq Msdus
      BY <1>6, <1>7, NoElements
<1>12. QED BY <1>4, <1>5, <1>6, <1>7, <1>9, <1>10, <1>11

LEMMA NumberedFrames ==
  ASSUME TypeInv, NEW fit \in Fitting, fit # 0, NextFrame \in Msdus
  PROVE  LET b == WithNumbers(fit)
             sent == Elements(Ampdu(fit))
         IN  /\ b \in Frames
             /\ Elements(b.numbered) = Elements(Kept.numbered) \cup (sent \ Kept.retry)
             /\ b.retry = Kept.retry \ sent
             /\ b.outstanding = Kept.outstanding /\ b.bar = Kept.bar
<1> DEFINE b == WithNumbers(fit)
           sent == Elements(Ampdu(fit))
           more == Without(Ampdu(fit), Kept.retry)
<1>1. Kept \in Frames /\ Kept.numbered \in Seq(Msdus)
      BY KeptFrames DEF TypeInv, QueueTypes, Frames
<1>2. more \in Seq(Msdus) /\ Elements(more) = sent \ Kept.retry
      BY AmpduElements, WithoutElements
<1>3. /\ Kept.numbered \o more \in Seq(Msdus)
      /\ Elements(Kept.numbered \o more) = Elements(Kept.numbered) \cup Elements(more)
      BY <1>1, <1>2, ElementsConcat
<1>4. b = [Kept EXCEPT !.numbered = Kept.numbered \o more, !.retry = Kept.retry \ sent]
      BY DEF WithNumbers
<1> HIDE DEF b, more, sent
<1>5. /\ b.numbered = Kept.numbered \o more /\ b.retry = Kept.retry \ sent
      /\ b.outstanding = Kept.outstanding /\ b.bar = Kept.bar
      BY <1>1, <1>4 DEF Frames
<1>6. b \in Frames
  <2>1. Kept.retry \ sent \in SUBSET Msdus
        BY <1>1 DEF Frames
  <2>2. QED BY <1>1, <1>3, <1>4, <2>1 DEF Frames
<1>7. QED BY <1>2, <1>3, <1>5, <1>6 DEF b, sent

(* Every frame that is sent leaves the block ack manager as it is, or makes*)
(* it outstanding.                                                         *)
LEMMA SentFrames ==
  ASSUME NEW STATE b, b \in Frames, NEW STATE answer, NEW STATE mpdus
  PROVE  LET c == Sent(b, answer, mpdus)
         IN  /\ c \in Frames /\ c.numbered = b.numbered /\ c.retry = b.retry
             /\ agreement # "established" => c = b
             /\ agreement = "established" =>
                  /\ c.outstanding = b.outstanding \cup (Elements(mpdus) \cap Elements(b.numbered))
                  /\ c.bar = IF answer = "none" THEN "bar" ELSE b.bar
<1>1. CASE agreement = "established"
  <2> DEFINE more == Elements(mpdus) \cap Elements(b.numbered)
             c == Sent(b, answer, mpdus)
  <2>1. c = [b EXCEPT !.outstanding = b.outstanding \cup more,
                      !.bar = IF answer = "none" THEN "bar" ELSE b.bar]
        BY <1>1 DEF Sent
  <2>2. more \subseteq Msdus
        BY NoElements DEF Frames
  <2>3. b.outstanding \cup more \in SUBSET Msdus
        BY <2>2 DEF Frames
  <2>4. (IF answer = "none" THEN "bar" ELSE b.bar) \in {"none", "bar", "skip"}
        BY DEF Frames
  <2> HIDE DEF more, c
  <2>5. c \in Frames
        BY <2>1, <2>3, <2>4 DEF Frames
  <2>6. /\ c.numbered = b.numbered /\ c.retry = b.retry
        /\ c.outstanding = b.outstanding \cup more
        /\ c.bar = IF answer = "none" THEN "bar" ELSE b.bar
        BY <2>1 DEF Frames
  <2>7. QED BY <1>1, <2>5, <2>6 DEF c, more
<1>2. CASE agreement # "established"
      BY <1>2 DEF Sent
<1>3. QED BY <1>1, <1>2

-----------------------------------------------------------------------------
(* The type invariant holds after every step.                              *)

LEMMA TransmitTypes ==
  ASSUME NEW STATE b, b \in Frames, NEW STATE mpdus, mpdus \in Seq(Msdus),
         retries' \in 0 .. MaxSsrc, Transmit(b, mpdus)
  PROVE  ExchangeTypes' /\ ba' \in Frames
<1> DEFINE a == AnswerTo(b, mpdus)
<1>1. a \in {"ack", "blockAck", "none"}
      BY Answers
<1> HIDE DEF a
<1>2. \/ exchange' = [phase |-> "rts", answer |-> a, mpdus |-> mpdus]
      \/ exchange' = [phase |-> "sent", answer |-> a, mpdus |-> mpdus]
      BY DEF Transmit, a
<1>3. ExchangeTypes'
      BY <1>1, <1>2 DEF ExchangeTypes
<1>4. ba' \in Frames
      BY SentFrames DEF Transmit
<1>5. QED BY <1>3, <1>4

LEMMA OtherTypes ==
  ASSUME NEW STATE answer, answer \in {"ack", "blockAck", "none"},
         retries' \in 0 .. MaxSsrc, TransmitOther(answer)
  PROVE  ExchangeTypes'
<1>1. <<>> \in Seq(Msdus)
      BY EmptySeq
<1>2. QED BY <1>1 DEF ExchangeTypes, TransmitOther

LEMMA GrantTypes ==
  ASSUME TypeInv, NEW fit \in Fitting, NotifyAccessGranted(fit)
  PROVE  TypeInv'
<1> USE DEF TypeInv
<1>1. Kept \in Frames
      BY KeptFrames DEF QueueTypes
<1>2. retries' \in 0 .. MaxSsrc /\ expired' \subseteq AnyMsdu /\ accessRequested' \in BOOLEAN
      BY DEF NotifyAccessGranted, SendHeld, SendBar, NothingToSend, SendAddBaRequest,
         SendData, SendGroup, NothingHeld, ExchangeTypes
<1>3. CASE SendHeld(fit)
  <2>1. UNCHANGED queue /\ SetupTypes' /\ current' = current /\ Held = current
        BY <1>3, SameSetupTypes, HeldPacket DEF SendHeld
  <2>2. ba' \in Frames /\ ExchangeTypes'
    <3>1. CASE Held.kind = "data" /\ Transmit(Kept, <<Held.msdu>>)
      <4>1. Held.msdu \in Msdus
            BY <2>1, <3>1 DEF QueueTypes
      <4>2. <<Held.msdu>> \in Seq(Msdus)
            BY <4>1
      <4>3. QED BY <1>1, <1>2, <3>1, <4>2, TransmitTypes
    <3>2. CASE ba' = Kept /\ UNCHANGED exchange
          BY <1>1, <1>2, <3>2 DEF ExchangeTypes
    <3>3. CASE ba' = Kept /\ TransmitOther("none")
          BY <1>1, <1>2, <3>3, OtherTypes
    <3>4. CASE ba' = Kept /\ TransmitOther("ack")
          BY <1>1, <1>2, <3>4, OtherTypes
    <3>5. CASE ba' = Kept /\ TransmitOther("blockAck")
          BY <1>1, <1>2, <3>5, OtherTypes
    <3>6. QED BY <1>3, <3>1, <3>2, <3>3, <3>4, <3>5 DEF SendHeld
  <2>3. QED BY <1>2, <2>1, <2>2 DEF QueueTypes
<1>4. CASE SendBar
  <2>1. GetBar(Kept, Fresh(queue)) \in Frames
        BY <1>1, GetBarFrames DEF Reduces
  <2>2. ba' \in Frames
        BY <1>4, <2>1 DEF SendBar, Frames
  <2>3. UNCHANGED queue /\ current' = Packet("bar", NoMsdu) /\ SetupTypes' /\ ExchangeTypes'
        BY <1>2, <1>4, SameSetupTypes, OtherTypes DEF SendBar
  <2>4. QED BY <1>2, <2>2, <2>3 DEF QueueTypes, Packet
<1>5. CASE NothingToSend
      BY <1>1, <1>2, <1>5, SameSetupTypes DEF NothingToSend, QueueTypes, ExchangeTypes, Nothing
<1>6. CASE SendAddBaRequest
  <2>1. UNCHANGED queue /\ current' = Packet("addBa", NoMsdu) /\ ba' = Kept /\ ExchangeTypes'
        BY <1>2, <1>6, OtherTypes DEF SendAddBaRequest
  <2>2. SetupTypes'
        BY <1>6 DEF SendAddBaRequest, SetupTypes
  <2>3. QED BY <1>1, <1>2, <2>1, <2>2 DEF QueueTypes, Packet
<1>7. CASE SendData(fit)
  <2>1. SetupTypes'
        BY <1>7, SameSetupTypes DEF SendData
  <2>2. CASE fit = 0
        BY <1>1, <1>2, <1>7, <2>1, <2>2 DEF SendData, QueueTypes, ExchangeTypes, Nothing
  <2>3. CASE fit # 0
    <3>1. NextFrame \in Msdus
          BY <1>7 DEF SendData
    <3>2. /\ Ampdu(fit) \in Seq(Msdus) /\ Ampdu(fit)[1] \in Msdus
          BY <2>3, <3>1, AmpduElements
    <3>3. WithNumbers(fit) \in Frames
          BY <2>3, <3>1, NumberedFrames
    <3>4. ExchangeTypes' /\ ba' \in Frames
          BY <1>2, <1>7, <2>3, <3>2, <3>3, SendDataCases, TransmitTypes
    <3>5. Fresh(queue) \in Seq(AnyMsdu) /\ Len(Fresh(queue)) =< Len(queue)
          BY FreshQueue DEF QueueTypes
    <3>6. /\ queue' \in Seq(AnyMsdu) /\ Len(queue') =< Len(Fresh(queue))
          BY <1>7, <2>3, <3>5, WithoutElements, SendDataCases
    <3>7. Len(queue') \in Nat /\ Len(Fresh(queue)) \in Nat /\ Len(queue) \in Nat
          BY <3>5, <3>6, LenProperties DEF QueueTypes
    <3>8. Len(queue') =< MaxQueueSize
          BY <3>5, <3>6, <3>7, Constants DEF QueueTypes
    <3>9. current' = Packet("data", Ampdu(fit)[1])
          BY <1>7, <2>3, SendDataCases
    <3>10. QED BY <1>2, <2>1, <3>2, <3>4, <3>6, <3>8, <3>9, Constants DEF QueueTypes, Packet
  <2>4. QED BY <2>2, <2>3
<1>8. CASE SendGroup(fit)
  <2>1. SetupTypes' /\ current' = Packet("group", NextFrame) /\ NextFrame \in GroupMsdus
        BY <1>8, SameSetupTypes DEF SendGroup
  <2>2. CASE UNCHANGED <<queue, exchange>>
        BY <1>1, <1>2, <1>8, <2>1, <2>2, Constants
        DEF SendGroup, QueueTypes, ExchangeTypes, Packet
  <2>3. CASE queue' = Without(Fresh(queue), {NextFrame}) /\ TransmitOther("none")
    <3>1. Fresh(queue) \in Seq(AnyMsdu) /\ Len(Fresh(queue)) =< Len(queue)
          BY FreshQueue DEF QueueTypes
    <3>2. queue' \in Seq(AnyMsdu) /\ Len(queue') =< Len(Fresh(queue))
          BY <2>3, <3>1, WithoutElements
    <3>3. Len(queue') \in Nat /\ Len(Fresh(queue)) \in Nat /\ Len(queue) \in Nat
          BY <3>1, <3>2, LenProperties DEF QueueTypes
    <3>4. Len(queue') =< MaxQueueSize
          BY <3>1, <3>2, <3>3, Constants DEF QueueTypes
    <3>5. ExchangeTypes'
          BY <1>2, <2>3, OtherTypes
    <3>6. ba' \in Frames
          BY <1>1, <1>8 DEF SendGroup
    <3>7. QED BY <1>2, <2>1, <3>2, <3>4, <3>5, <3>6, Constants DEF QueueTypes, Packet
  <2>4. QED BY <1>8, <2>2, <2>3 DEF SendGroup
<1>9. QED BY <1>3, <1>4, <1>5, <1>6, <1>7, <1>8 DEF NotifyAccessGranted

-----------------------------------------------------------------------------
(* What handlers leave with the block ack manager at the end of exchanges. *)

LEMMA BackInQueue ==
  ASSUME ba \in Frames, NEW STATE set
  PROVE  LET b == [ba EXCEPT !.retry = @ \cup (set \cap Elements(ba.numbered))]
         IN  /\ b \in Frames /\ b.numbered = ba.numbered
             /\ b.retry = ba.retry \cup (set \cap Numbered)
             /\ b.outstanding = ba.outstanding /\ b.bar = ba.bar
<1>1. Numbered \subseteq Msdus
      BY NoElements DEF Frames, Numbered
<1>2. ba.retry \cup (set \cap Numbered) \in SUBSET Msdus
      BY <1>1 DEF Frames
<1>3. QED BY <1>2 DEF Frames, Numbered

LEMMA NotAcknowledged ==
  ASSUME ba \in Frames
  PROVE  LET b == [ba EXCEPT !.outstanding = @ \ {current.msdu},
                             !.retry = @ \cup ({current.msdu} \cap Elements(ba.numbered))]
         IN  /\ b \in Frames /\ b.numbered = ba.numbered
             /\ b.retry = ba.retry \cup ({current.msdu} \cap Numbered)
             /\ b.outstanding = ba.outstanding \ {current.msdu} /\ b.bar = ba.bar
<1>1. Numbered \subseteq Msdus
      BY NoElements DEF Frames, Numbered
<1>2. /\ ba.retry \cup ({current.msdu} \cap Numbered) \in SUBSET Msdus
      /\ ba.outstanding \ {current.msdu} \in SUBSET Msdus
      BY <1>1 DEF Frames
<1>3. QED BY <1>2 DEF Frames, Numbered

LEMMA AllToBeSentAgain ==
  ASSUME ba \in Frames
  PROVE  LET b == [ba EXCEPT !.retry = @ \cup ba.outstanding, !.outstanding = {}]
         IN  /\ b \in Frames /\ b.numbered = ba.numbered
             /\ b.retry = ba.retry \cup ba.outstanding
             /\ b.outstanding = {} /\ b.bar = ba.bar
<1>1. ba.retry \cup ba.outstanding \in SUBSET Msdus /\ {} \in SUBSET Msdus
      BY DEF Frames
<1>2. QED BY <1>1 DEF Frames

LEMMA BarScheduled ==
  ASSUME ba \in Frames, NEW STATE bar, bar \in {"none", "bar", "skip"}
  PROVE  LET b == [ba EXCEPT !.bar = bar]
         IN  /\ b \in Frames /\ b.numbered = ba.numbered /\ b.retry = ba.retry
             /\ b.outstanding = ba.outstanding /\ b.bar = bar
  BY DEF Frames

LEMMA GivenUp ==
  ASSUME ba \in Frames, NEW STATE set
  PROVE  LET b == Finished(NotifyDiscardedMpdu(ba, set), set)
         IN  /\ b \in Frames
             /\ \E gone : GivesUp(ba, b, gone) /\ set \subseteq gone
             /\ b.bar = ba.bar \/ b.bar = "bar"
             /\ agreement # "established" => b.bar = ba.bar
<1> DEFINE c == NotifyDiscardedMpdu(ba, set)
           b == Finished(c, set)
<1>1. Reduces(ba, c) /\ c \in Frames /\ (agreement # "established" => c = ba)
      BY DiscardedFrames DEF Reduces
<1> HIDE DEF c
<1>2. b \in Frames /\ GivesUp(c, b, set) /\ b.bar = c.bar
      BY <1>1, FinishedFrames
<1> HIDE DEF b
<1>3. PICK gone : GivesUp(ba, c, gone)
      BY <1>1 DEF Reduces
<1>4. GivesUp(ba, b, gone \cup set) /\ set \subseteq gone \cup set
      BY <1>2, <1>3 DEF GivesUp
<1>5. /\ b.bar = ba.bar \/ b.bar = "bar"
      /\ agreement # "established" => b.bar = ba.bar
      BY <1>1, <1>2 DEF Reduces
<1>6. b \in Frames /\ \E more : GivesUp(ba, b, more) /\ set \subseteq more
      BY <1>2, <1>4
<1>7. QED BY <1>5, <1>6 DEF b, c

LEMMA OneLeft ==
  ASSUME ba \in Frames, current.msdu \in Msdus
  PROVE  LET b == [ba EXCEPT !.retry = @ \cup {current.msdu}]
         IN  /\ b \in Frames /\ b.numbered = ba.numbered
             /\ b.retry = ba.retry \cup {current.msdu}
             /\ b.outstanding = ba.outstanding /\ b.bar = ba.bar
<1>1. ba.retry \cup {current.msdu} \in SUBSET Msdus
      BY DEF Frames
<1>2. QED BY <1>1 DEF Frames

LEMMA ExchangeEndsTypes ==
  ASSUME TypeInv, ExchangeEnds
  PROVE  TypeInv'
<1> USE DEF TypeInv
<1>1. ba \in Frames /\ expired' \subseteq AnyMsdu
      BY DEF ExchangeEnds, QueueTypes, CtsReceived, NotifyMissedCts, GotAck, MissedAck,
         GotBlockAck, MissedBlockAck, EndTxNoAck
<1>2. 0 \in 0 .. MaxSsrc /\ (NeedRetransmission => retries + 1 \in 0 .. MaxSsrc)
      BY Constants DEF ExchangeTypes, NeedRetransmission
<1>3. CASE CtsReceived
  <2>1. ba' \in Frames
        BY <1>1, <1>3, SentFrames DEF CtsReceived
  <2>2. SetupTypes' /\ QueueTypes'
        BY <1>3, <2>1, SameSetupTypes, SameQueueTypes DEF CtsReceived
  <2>3. ExchangeTypes'
        BY <1>2, <1>3 DEF CtsReceived, ExchangeTypes
  <2>4. QED BY <1>1, <2>2, <2>3
<1>4. CASE NotifyMissedCts
  <2>1. SetupTypes'
        BY <1>4, SameSetupTypes DEF NotifyMissedCts
  <2>2. retries' \in 0 .. MaxSsrc
        BY <1>4, Constants DEF NotifyMissedCts, ExchangeTypes
  <2>3. ExchangeTypes'
        BY <1>4, <2>2, IdleTypes DEF NotifyMissedCts
  <2> DEFINE mpdus == Elements(exchange.mpdus)
             again == [ba EXCEPT !.retry = @ \cup (mpdus \cap Elements(ba.numbered))]
             done == Finished(NotifyDiscardedMpdu(ba, mpdus), mpdus)
  <2>4. again \in Frames /\ done \in Frames
        BY <1>1, BackInQueue, GivenUp
  <2>5. \/ RestartAccessIfNeeded(Nothing, queue, again)
        \/ RestartAccessIfNeeded(current, queue, ba)
        \/ RestartAccessIfNeeded(Nothing, queue, done)
        BY <1>4 DEF NotifyMissedCts
  <2> HIDE DEF again, done
  <2>6. QueueTypes'
        BY <1>1, <2>4, <2>5, RestartQueueTypes
  <2>7. QED BY <1>1, <2>1, <2>3, <2>6
<1>5. CASE GotAck
  <2>1. SetupTypes'
        BY <1>5 DEF GotAck, RequestReceived, SetupTypes
  <2>2. ExchangeTypes'
        BY <1>2, <1>5, IdleTypes DEF GotAck
  <2>3. QueueTypes'
        BY <1>1, <1>5, FinishedFrames, RestartQueueTypes DEF GotAck
  <2>4. QED BY <1>1, <2>1, <2>2, <2>3
<1>6. CASE MissedAck
  <2>1. CASE NeedRetransmission /\ RetransmitLater
    <3>1. SetupTypes'
          BY <1>6, <2>1 DEF MissedAck, RetransmitLater, RequestReceived, SetupTypes
    <3>2. ExchangeTypes'
          BY <1>2, <1>6, <2>1, IdleTypes DEF MissedAck, RetransmitLater
    <3> DEFINE b == [ba EXCEPT !.outstanding = @ \ {current.msdu},
                       !.retry = @ \cup ({current.msdu} \cap Elements(ba.numbered))]
    <3>3. b \in Frames
          BY <1>1, NotAcknowledged
    <3>4. \/ RestartAccessIfNeeded(Nothing, queue, b)
          \/ RestartAccessIfNeeded(current, queue, ba)
          BY <2>1 DEF RetransmitLater
    <3> HIDE DEF b
    <3>5. QueueTypes'
          BY <1>1, <3>3, <3>4, RestartQueueTypes
    <3>6. QED BY <1>1, <3>1, <3>2, <3>5
  <2>2. CASE GiveUp
    <3>1. SetupTypes'
          BY <1>6, <2>2
          DEF MissedAck, GiveUp, NotifyAgreementNoReply, RequestReceived, SetupTypes
    <3>2. ExchangeTypes'
          BY <1>2, <1>6, <2>2, IdleTypes DEF MissedAck, GiveUp
    <3>3. QueueTypes'
          BY <1>1, <2>2, GivenUp, RestartQueueTypes DEF GiveUp
    <3>4. QED BY <1>1, <3>1, <3>2, <3>3
  <2>3. QED BY <1>6, <2>1, <2>2 DEF MissedAck
<1>7. ASSUME NEW received, GotBlockAck(received) PROVE TypeInv'
  <2>1. SetupTypes' /\ ExchangeTypes'
        BY <1>7, SameSetupTypes, IdleTypes DEF GotBlockAck, ExchangeTypes
  <2> DEFINE b == [ba EXCEPT !.retry = @ \cup ba.outstanding, !.outstanding = {}]
  <2>2. b \in Frames
        BY <1>1, AllToBeSentAgain
  <2>3. RestartAccessIfNeeded(Nothing, queue, Finished(b, received))
        BY <1>7 DEF GotBlockAck
  <2> HIDE DEF b
  <2>4. Finished(b, received) \in Frames
        BY <2>2, FinishedFrames
  <2>5. QueueTypes'
        BY <2>3, <2>4, RestartQueueTypes
  <2>6. QED BY <1>1, <2>1, <2>5
<1>8. CASE MissedBlockAck
  <2>1. SetupTypes'
        BY <1>8, SameSetupTypes DEF MissedBlockAck
  <2>2. ExchangeTypes'
        BY <1>2, <1>8, IdleTypes DEF MissedBlockAck, ExchangeTypes
  <2>3. /\ [ba EXCEPT !.bar = "bar"] \in Frames /\ [ba EXCEPT !.bar = "skip"] \in Frames
        /\ NotifyDiscardedMpdu(ba, ba.outstanding) \in Frames
        BY <1>1, BarScheduled, DiscardedFrames DEF Reduces
  <2>4. \/ RestartAccessIfNeeded(current, queue, ba)
        \/ RestartAccessIfNeeded(Nothing, queue, [ba EXCEPT !.bar = "bar"])
        \/ RestartAccessIfNeeded(Nothing, queue, NotifyDiscardedMpdu(ba, ba.outstanding))
        \/ RestartAccessIfNeeded(Nothing, queue, [ba EXCEPT !.bar = "skip"])
        BY <1>8 DEF MissedBlockAck
  <2>5. QueueTypes'
        BY <1>1, <2>3, <2>4, RestartQueueTypes
  <2>6. QED BY <1>1, <2>1, <2>2, <2>5
<1>9. CASE EndTxNoAck
  <2>1. SetupTypes' /\ ExchangeTypes'
        BY <1>9, SameSetupTypes, IdleTypes DEF EndTxNoAck, ExchangeTypes
  <2>2. QueueTypes'
        BY <1>1, <1>9, RestartQueueTypes DEF EndTxNoAck
  <2>3. QED BY <1>1, <2>1, <2>2
<1>10. QED BY <1>3, <1>4, <1>5, <1>6, <1>7, <1>8, <1>9 DEF ExchangeEnds

LEMMA SetupStepTypes ==
  ASSUME TypeInv, Setup
  PROVE  TypeInv'
<1> USE DEF TypeInv
<1>1. /\ ba \in Frames /\ expired' \subseteq AnyMsdu /\ ExchangeTypes'
      BY DEF Setup, AddBaResponseTimeout, ResetBa, GotAddBaResponse, ResponseIsLost,
         QueueTypes, ExchangeTypes
<1>2. CASE AddBaResponseTimeout
  <2>1. SetupTypes'
        BY <1>2 DEF AddBaResponseTimeout, NotifyAgreementNoReply, SetupTypes
  <2>2. \/ RestartAccessIfNeeded(current, queue, ba)
        \/ UNCHANGED <<queue, current, accessRequested, ba>>
        BY <1>2 DEF AddBaResponseTimeout
  <2>3. QueueTypes'
        BY <1>1, <2>2, RestartQueueTypes, SameQueueTypes
  <2>4. QED BY <1>1, <2>1, <2>3
<1>3. CASE ResetBa
  <2>1. SetupTypes'
        BY <1>3 DEF ResetBa, SetupTypes
  <2>2. QueueTypes'
        BY <1>1, <1>3, SameQueueTypes DEF ResetBa
  <2>3. QED BY <1>1, <2>1, <2>2
<1>4. CASE GotAddBaResponse
  <2>1. SetupTypes'
        BY <1>4 DEF GotAddBaResponse, SetupTypes
  <2> DEFINE b == [ba EXCEPT !.retry = @ \cup {current.msdu}]
  <2>2. CASE current.kind = "data"
    <3> DEFINE done == Finished(NotifyDiscardedMpdu(ba, {current.msdu}), {current.msdu})
    <3>1. b \in Frames /\ done \in Frames
          BY <1>1, <2>2, OneLeft, GivenUp DEF QueueTypes
    <3>2. RestartAccessIfNeeded(Nothing, queue, b) \/ RestartAccessIfNeeded(Nothing, queue, done)
          BY <1>4, <2>2 DEF GotAddBaResponse
    <3> HIDE DEF b, done
    <3>3. QueueTypes'
          BY <3>1, <3>2, RestartQueueTypes
    <3>4. QED BY <1>1, <2>1, <3>3
  <2>3. CASE current.kind # "data"
    <3>1. QueueTypes'
          BY <1>1, <1>4, <2>3, RestartQueueTypes DEF GotAddBaResponse
    <3>2. QED BY <1>1, <2>1, <3>1
  <2>4. QED BY <2>2, <2>3
<1>5. CASE ResponseIsLost
  <2>1. SetupTypes'
        BY <1>5 DEF ResponseIsLost, SetupTypes
  <2>2. QueueTypes'
        BY <1>1, <1>5, SameQueueTypes DEF ResponseIsLost
  <2>3. QED BY <1>1, <2>1, <2>2
<1>6. QED BY <1>2, <1>3, <1>4, <1>5 DEF Setup

(* What an internal collision leaves.                                      *)
LEMMA CollisionCases ==
  ASSUME NotifyInternalCollision
  PROVE  /\ UNCHANGED <<expired, setupVars, exchange>>
         /\ \/ RestartAccessIfNeeded(current, queue, ba)
            \/ /\ current # Nothing
               /\ RestartAccessIfNeeded(Nothing, queue, Finished(ba, {current.msdu}))
            \/ /\ current = Nothing
               /\ RestartAccessIfNeeded(Nothing,
                    IF Fresh(queue) = <<>> THEN <<>> ELSE Tail(Fresh(queue)), ba)
  BY DEF NotifyInternalCollision

LEMMA TailOfFresh ==
  ASSUME queue \in Seq(AnyMsdu)
  PROVE  LET q == IF Fresh(queue) = <<>> THEN <<>> ELSE Tail(Fresh(queue))
         IN  /\ q \in Seq(AnyMsdu) /\ Len(q) =< Len(queue)
             /\ Elements(q) \subseteq Elements(queue)
<1> DEFINE f == Fresh(queue)
<1>1. f \in Seq(AnyMsdu) /\ Len(f) =< Len(queue) /\ Elements(f) = Elements(queue) \ expired
      BY FreshQueue
<1>2. Len(f) \in Nat /\ Len(queue) \in Nat
      BY <1>1, LenProperties
<1> HIDE DEF f
<1>3. CASE f = <<>>
      BY <1>1, <1>2, <1>3 DEF f
<1>4. CASE f # <<>>
  <2>1. Tail(f) \in Seq(AnyMsdu) /\ Len(Tail(f)) =< Len(f) /\ Elements(Tail(f)) \subseteq Elements(f)
        BY <1>1, <1>4, ElementsTail
  <2>2. Len(Tail(f)) \in Nat
        BY <2>1, LenProperties
  <2>3. QED BY <1>1, <1>2, <1>4, <2>1, <2>2 DEF f
<1>5. QED BY <1>3, <1>4

LEMMA CollisionTypes ==
  ASSUME TypeInv, NotifyInternalCollision
  PROVE  TypeInv'
<1> USE DEF TypeInv
<1>1. UNCHANGED expired /\ SetupTypes'
      BY CollisionCases, SameSetupTypes
<1>2. retries' \in 0 .. MaxSsrc
  <2>1. /\ retries \in 0 .. MaxSsrc /\ 0 \in 0 .. MaxSsrc
        /\ NeedRetransmission => retries + 1 \in 0 .. MaxSsrc
        BY Constants DEF ExchangeTypes, NeedRetransmission
  <2>2. retries' = retries \/ retries' = 0 \/ (NeedRetransmission /\ retries' = retries + 1)
        BY DEF NotifyInternalCollision
  <2>3. QED BY <2>1, <2>2
<1>3. ExchangeTypes'
      BY <1>2, CollisionCases DEF ExchangeTypes
<1>4. ba \in Frames /\ Finished(ba, {current.msdu}) \in Frames /\ queue \in Seq(AnyMsdu)
      BY FinishedFrames DEF QueueTypes
<1>5. QueueTypes'
      BY <1>4, CollisionCases, TailOfFresh, RestartTypes, RestartQueueTypes
<1>6. QED BY <1>1, <1>3, <1>5

LEMMA TypeStep == TypeInv /\ [Next]_vars => TypeInv'
<1> SUFFICES ASSUME TypeInv, [Next]_vars PROVE TypeInv'
  OBVIOUS
<1>1. CASE Arrival
      BY <1>1, ArrivalTypes
<1>2. ASSUME NEW m \in AnyMsdu, Expire(m) PROVE TypeInv'
  <2>1. expired' \subseteq AnyMsdu
        BY <1>2 DEF Expire, TypeInv
  <2>2. QED BY <1>2, <2>1, SameSetupTypes DEF Expire, TypeInv, QueueTypes, ExchangeTypes
<1>3. ASSUME NEW fit \in Fitting, NotifyAccessGranted(fit) PROVE TypeInv'
      BY <1>3, GrantTypes
<1>4. CASE ExchangeEnds
      BY <1>4, ExchangeEndsTypes
<1>5. CASE Setup
      BY <1>5, SetupStepTypes
<1>6. CASE NotifyInternalCollision
      BY <1>6, CollisionTypes
<1>7. CASE UNCHANGED vars
      BY <1>7, SameSetupTypes DEF vars, TypeInv, QueueTypes, ExchangeTypes
<1>8. QED BY <1>1, <1>2, <1>3, <1>4, <1>5, <1>6, <1>7 DEF Next

LEMMA TypeInit == Init => TypeInv
<1> SUFFICES ASSUME Init PROVE TypeInv
  OBVIOUS
<1>1. <<>> \in Seq(AnyMsdu) /\ <<>> \in Seq(Msdus) /\ Len(<<>>) = 0
      BY EmptySeq
<1>2. ba \in Frames
      BY <1>1 DEF Init, NoFrames, Frames
<1>3. QueueTypes
  <2>1. queue \in Seq(AnyMsdu) /\ Len(queue) =< MaxQueueSize
        BY <1>1, Constants DEF Init
  <2>2. current = Nothing /\ accessRequested = FALSE
        BY DEF Init
  <2>3. QED BY <1>2, <2>1, <2>2 DEF QueueTypes, Nothing
<1>4. SetupTypes
      BY DEF Init, SetupTypes
<1>5. ExchangeTypes
      BY <1>1, Constants DEF Init, Idle, ExchangeTypes
<1>6. QED BY <1>3, <1>4, <1>5 DEF TypeInv, Init

-----------------------------------------------------------------------------
(* Before there is an agreement.                                           *)

(* An agreement stays established.                                         *)
LEMMA AgreementStays ==
  ASSUME AgreementInv, [Next]_vars, agreement = "established"
  PROVE  agreement' = "established"
<1>1. CASE UNCHANGED setupVars
      BY <1>1 DEF setupVars
<1>2. CASE Arrival
      BY <1>1, <1>2 DEF Arrival, Queue, QueueOverflow
<1>3. ASSUME NEW m \in AnyMsdu, Expire(m) PROVE agreement' = "established"
      BY <1>1, <1>3 DEF Expire
<1>4. ASSUME NEW fit \in Fitting, NotifyAccessGranted(fit) PROVE agreement' = "established"
      BY <1>1, <1>4 DEF NotifyAccessGranted, SendHeld, SendBar, NothingToSend,
         SendAddBaRequest, SendData, SendGroup
<1>5. CASE ExchangeEnds
      BY <1>1, <1>5 DEF ExchangeEnds, CtsReceived, NotifyMissedCts, GotAck, MissedAck,
         RetransmitLater, GiveUp, GotBlockAck, MissedBlockAck, EndTxNoAck
<1>6. CASE Setup
      BY <1>6 DEF Setup, AddBaResponseTimeout, ResetBa, GotAddBaResponse, ResponseIsLost
<1>7. CASE NotifyInternalCollision
      BY <1>1, <1>7 DEF NotifyInternalCollision
<1>8. CASE UNCHANGED vars
      BY <1>1, <1>8 DEF vars, setupVars
<1>9. QED BY <1>2, <1>3, <1>4, <1>5, <1>6, <1>7, <1>8 DEF Next

NothingWaits(b) == b.outstanding = {} /\ b.retry = {} /\ b.bar = "none"

LEMMA NothingMoreWaits ==
  ASSUME NEW STATE b, NEW STATE c, NothingWaits(b), NEW STATE gone, GivesUp(b, c, gone),
         c.bar = b.bar
  PROVE  NothingWaits(c)
  BY DEF NothingWaits, GivesUp

LEMMA KeptBefore ==
  ASSUME TypeInv, BeforeInv, agreement # "established"
  PROVE  NothingWaits(Kept)
<1>1. ba \in Frames /\ NothingWaits(ba)
      BY DEF TypeInv, QueueTypes, BeforeInv, NothingWaits
<1>2. NothingWaits(Finished(ba, {current.msdu}))
      BY <1>1, FinishedFrames, NothingMoreWaits
<1>3. QED BY <1>1, <1>2, KeptFrames

LEMMA RestartBefore ==
  ASSUME TypeInv, agreement # "established", exchange' = Idle,
         NEW STATE packet, packet.kind # "bar", NEW STATE b, b \in Frames, NothingWaits(b),
         NEW STATE q, q \in Seq(AnyMsdu), RestartAccessIfNeeded(packet, q, b)
  PROVE  BeforeInv'
<1>1. current' = packet /\ ba' = b
      BY Restarted DEF TypeInv, QueueTypes, Reduces, NothingWaits
<1>2. QED BY <1>1 DEF BeforeInv, NothingWaits, Idle

LEMMA GrantBefore ==
  ASSUME TypeInv, BeforeInv, agreement # "established",
         NEW fit \in Fitting, NotifyAccessGranted(fit)
  PROVE  BeforeInv'
<1>1. Kept \in Frames /\ NothingWaits(Kept)
      BY KeptFrames, KeptBefore DEF TypeInv, QueueTypes
<1>2. exchange = Idle /\ current.kind # "bar"
      BY DEF NotifyAccessGranted, SendHeld, SendBar, NothingToSend, SendAddBaRequest,
         SendData, SendGroup, NothingHeld, Granted, BeforeInv
<1>3. ASSUME NEW STATE b, b \in Frames, NothingWaits(b), NEW STATE mpdus, Transmit(b, mpdus),
             current'.kind = "data"
      PROVE  BeforeInv'
  <2>1. ba' = b
        BY <1>3, SentFrames DEF Transmit
  <2>2. exchange'.answer = "ack"
        BY <1>3, Answers DEF Transmit
  <2>3. QED BY <1>3, <2>1, <2>2 DEF BeforeInv, NothingWaits
<1>4. ASSUME NEW STATE answer, answer # "blockAck", TransmitOther(answer), ba' = Kept,
             current'.kind \in {"group", "addBa"}
      PROVE  BeforeInv'
      BY <1>1, <1>4 DEF TransmitOther, BeforeInv, NothingWaits
<1>5. ASSUME UNCHANGED exchange, ba' = Kept, current'.kind # "bar"
      PROVE  BeforeInv'
      BY <1>1, <1>2, <1>5 DEF BeforeInv, NothingWaits, Idle
<1>6. CASE SendHeld(fit)
  <2>1. current' = current /\ Held = current
        BY <1>6, HeldPacket DEF SendHeld
  <2>2. CASE Held.kind = "data" /\ Transmit(Kept, <<Held.msdu>>)
        BY <1>1, <1>3, <2>1, <2>2
  <2>3. CASE ba' = Kept /\ UNCHANGED exchange
        BY <1>2, <1>5, <2>1, <2>3
  <2>4. CASE Held.kind = "group" /\ ba' = Kept /\ TransmitOther("none")
        BY <1>4, <2>1, <2>4
  <2>5. CASE Held.kind = "addBa" /\ ba' = Kept /\ TransmitOther("ack")
        BY <1>4, <2>1, <2>5
  <2>6. QED BY <1>2, <1>6, <2>1, <2>2, <2>3, <2>4, <2>5 DEF SendHeld
<1>7. CASE SendBar
      BY <1>1, <1>7 DEF SendBar, BarReady, NothingWaits
<1>8. CASE NothingToSend
      BY <1>5, <1>8 DEF NothingToSend, Nothing
<1>9. CASE SendAddBaRequest
      BY <1>4, <1>9 DEF SendAddBaRequest, Packet
<1>10. CASE SendData(fit)
  <2>1. CASE fit = 0
        BY <1>5, <1>10, <2>1 DEF SendData, Nothing
  <2>2. CASE fit # 0
    <3>1. NextFrame \in Msdus
          BY <1>10 DEF SendData
    <3>2. /\ WithNumbers(fit) \in Frames
          /\ WithNumbers(fit).retry = Kept.retry \ Elements(Ampdu(fit))
          /\ WithNumbers(fit).outstanding = Kept.outstanding
          /\ WithNumbers(fit).bar = Kept.bar
          BY <2>2, <3>1, NumberedFrames
    <3>3. NothingWaits(WithNumbers(fit))
          BY <1>1, <3>2 DEF NothingWaits
    <3>4. current'.kind = "data" /\ Transmit(WithNumbers(fit), Ampdu(fit))
          BY <1>10, <2>2, SendDataCases DEF Packet
    <3>5. QED BY <1>3, <3>2, <3>3, <3>4
  <2>3. QED BY <2>1, <2>2
<1>11. CASE SendGroup(fit)
  <2>1. ba' = Kept /\ current'.kind = "group" /\ (UNCHANGED exchange \/ TransmitOther("none"))
        BY <1>11 DEF SendGroup, Packet
  <2>2. QED BY <1>4, <1>5, <2>1
<1>12. QED BY <1>6, <1>7, <1>8, <1>9, <1>10, <1>11 DEF NotifyAccessGranted

LEMMA ExchangeEndsBefore ==
  ASSUME TypeInv, BeforeInv, agreement # "established", ExchangeEnds
  PROVE  BeforeInv'
<1>1. /\ ba \in Frames /\ NothingWaits(ba) /\ queue \in Seq(AnyMsdu)
      /\ current.kind # "bar" /\ Nothing.kind # "bar"
      BY DEF TypeInv, QueueTypes, BeforeInv, NothingWaits, Nothing
<1>2. ASSUME NEW STATE set
      PROVE  /\ Finished(ba, set) \in Frames /\ NothingWaits(Finished(ba, set))
             /\ NotifyDiscardedMpdu(ba, set) = ba
      BY <1>1, FinishedFrames, NothingMoreWaits DEF NotifyDiscardedMpdu
<1>3. CASE CtsReceived
  <2>1. ba' = ba /\ exchange.phase # "idle"
        BY <1>3 DEF CtsReceived, Sent
  <2>2. exchange'.answer = exchange.answer /\ UNCHANGED current
        BY <1>3 DEF CtsReceived, TypeInv, ExchangeTypes
  <2>3. QED BY <2>1, <2>2 DEF BeforeInv
<1>4. CASE NotifyMissedCts
  <2>1. \/ RestartAccessIfNeeded(current, queue, ba)
        \/ RestartAccessIfNeeded(Nothing, queue,
             Finished(ba, Elements(exchange.mpdus)))
        BY <1>2, <1>4 DEF NotifyMissedCts
  <2>2. exchange' = Idle
        BY <1>4 DEF NotifyMissedCts
  <2>3. QED BY <1>1, <1>2, <2>1, <2>2, RestartBefore
<1>5. CASE GotAck
      BY <1>1, <1>2, <1>5, RestartBefore DEF GotAck
<1>6. CASE MissedAck
  <2>1. \/ RestartAccessIfNeeded(current, queue, ba)
        \/ RestartAccessIfNeeded(Nothing, queue, Finished(ba, {current.msdu}))
        BY <1>2, <1>6 DEF MissedAck, RetransmitLater, GiveUp
  <2>2. exchange' = Idle
        BY <1>6 DEF MissedAck
  <2>3. QED BY <1>1, <1>2, <2>1, <2>2, RestartBefore
<1>7. ASSUME NEW received, GotBlockAck(received) PROVE FALSE
      BY <1>7 DEF GotBlockAck, Awaiting, BeforeInv
<1>8. CASE MissedBlockAck
      BY <1>8 DEF MissedBlockAck, Awaiting, BeforeInv
<1>9. CASE EndTxNoAck
      BY <1>1, <1>9, RestartBefore DEF EndTxNoAck
<1>10. QED BY <1>3, <1>4, <1>5, <1>6, <1>7, <1>8, <1>9 DEF ExchangeEnds

LEMMA SetupBefore ==
  ASSUME TypeInv, BeforeInv, agreement # "established", agreement' # "established", Setup
  PROVE  BeforeInv'
<1>1. /\ ba \in Frames /\ NothingWaits(ba) /\ queue \in Seq(AnyMsdu)
      BY DEF TypeInv, QueueTypes, BeforeInv, NothingWaits
<1>2. /\ UNCHANGED exchange
      /\ UNCHANGED <<current, ba>> \/ RestartAccessIfNeeded(current, queue, ba)
      BY DEF Setup, AddBaResponseTimeout, ResetBa, GotAddBaResponse, ResponseIsLost
<1>3. UNCHANGED <<current, ba>>
  <2>1. CASE RestartAccessIfNeeded(current, queue, ba)
        BY <1>1, <2>1, Restarted DEF TypeInv, QueueTypes, Reduces, NothingWaits
  <2>2. QED BY <1>2, <2>1
<1>4. QED BY <1>2, <1>3 DEF BeforeInv

LEMMA BeforeStep ==
  ASSUME TypeInv, AgreementInv, BeforeInv, [Next]_vars
  PROVE  BeforeInv'
<1> SUFFICES ASSUME agreement' # "established" PROVE BeforeInv'
    BY DEF BeforeInv
<1>1. agreement # "established"
      BY AgreementStays
<1>2. /\ ba \in Frames /\ NothingWaits(ba) /\ queue \in Seq(AnyMsdu)
      BY <1>1 DEF TypeInv, QueueTypes, BeforeInv, NothingWaits
<1>3. CASE Arrival
  <2>1. UNCHANGED exchange /\ \E q : StartAccessIfNeeded(q)
        BY <1>3 DEF Arrival, Queue, QueueOverflow
  <2>2. UNCHANGED <<current, ba>>
        BY <1>1, <1>2, <2>1, Started DEF TypeInv, QueueTypes, Reduces, NothingWaits
  <2>3. QED BY <1>1, <2>1, <2>2 DEF BeforeInv
<1>4. ASSUME NEW m \in AnyMsdu, Expire(m) PROVE BeforeInv'
      BY <1>1, <1>4 DEF Expire, BeforeInv
<1>5. ASSUME NEW fit \in Fitting, NotifyAccessGranted(fit) PROVE BeforeInv'
      BY <1>1, <1>5, GrantBefore
<1>6. CASE ExchangeEnds
      BY <1>1, <1>6, ExchangeEndsBefore
<1>7. CASE Setup
      BY <1>1, <1>7, SetupBefore
<1>8. CASE NotifyInternalCollision
  <2>1. exchange' = Idle
        BY <1>8 DEF NotifyInternalCollision, Granted
  <2>2. current.kind # "bar" /\ Nothing.kind # "bar"
        BY <1>1 DEF BeforeInv, Nothing
  <2>3. Finished(ba, {current.msdu}) \in Frames /\ NothingWaits(Finished(ba, {current.msdu}))
        BY <1>2, FinishedFrames, NothingMoreWaits
  <2>4. QED BY <1>1, <1>2, <1>8, <2>1, <2>2, <2>3, CollisionCases, TailOfFresh, RestartBefore
<1>9. CASE UNCHANGED vars
      BY <1>1, <1>9 DEF vars, BeforeInv
<1>10. QED BY <1>3, <1>4, <1>5, <1>6, <1>7, <1>8, <1>9 DEF Next

-----------------------------------------------------------------------------
(* Every frame in its place.                                               *)

(* The places, when no CTS is waited for: packet is held, q is in m_queue, *)
(* b with the block ack manager, and a the state of the agreement.         *)
Placed(packet, q, b, a) ==
  LET held == IF packet.kind = "data" /\ a # "established" THEN {packet.msdu} ELSE {}
  IN  /\ Elements(b.numbered) = held \cup b.retry \cup b.outstanding
      /\ held \cap (b.retry \cup b.outstanding) = {}
      /\ b.retry \cap b.outstanding = {}
      /\ Elements(b.numbered) \cap Elements(q) = {}

LEMMA PlacedNow ==
  ASSUME PlacesInv, exchange.phase # "rts"
  PROVE  Placed(current, queue, ba, agreement)
  BY DEF PlacesInv, Placed, Numbered, HeldFrames, AfterCts

LEMMA PlacedThen ==
  ASSUME Placed(current', queue', ba', agreement'), exchange'.phase # "rts"
  PROVE  PlacesInv'
  BY DEF PlacesInv, Placed, Numbered, HeldFrames, AfterCts

LEMMA PlacedRestart ==
  ASSUME TypeInv, exchange' = Idle, NEW STATE packet, NEW STATE b, b \in Frames,
         NEW STATE q, q \in Seq(AnyMsdu), RestartAccessIfNeeded(packet, q, b),
         Placed(packet, q, b, agreement'),
         \/ agreement' = "established"
         \/ agreement # "established" /\ b.bar = "none"
  PROVE  PlacesInv'
<1>1. /\ current' = packet /\ Elements(queue') \subseteq Elements(q) /\ Reduces(b, ba')
      BY Restarted DEF TypeInv, QueueTypes
<1>2. ba' = b \/ agreement' = "established"
      BY <1>1 DEF Reduces
<1>3. \E gone : GivesUp(b, ba', gone)
      BY <1>1 DEF Reduces
<1>4. Placed(packet, queue', ba', agreement')
  <2>1. CASE ba' = b
        BY <1>1, <2>1 DEF Placed
  <2>2. CASE agreement' = "established"
        BY <1>1, <1>3, <2>2 DEF Placed, GivesUp
  <2>3. QED BY <1>2, <2>1, <2>2
<1>5. QED BY <1>1, <1>4, PlacedThen DEF Idle

LEMMA KeptPlaced ==
  ASSUME TypeInv, BeforeInv, HeldInv, PlacesInv, exchange = Idle
  PROVE  Placed(Held, queue, Kept, agreement)
<1>1. Placed(current, queue, ba, agreement)
      BY PlacedNow DEF Idle
<1>2. ba \in Frames
      BY DEF TypeInv, QueueTypes
<1>3. CASE agreement = "established"
  <2>1. \E gone : GivesUp(ba, Kept, gone)
        BY <1>2, KeptFrames
  <2>2. QED BY <1>1, <1>3, <2>1 DEF Placed, GivesUp
<1>4. CASE agreement # "established" /\ LifetimeOver
  <2>1. Kept = Finished(ba, {current.msdu}) /\ Held = Nothing
        BY <1>2, <1>4, KeptFrames DEF Held
  <2>2. GivesUp(ba, Kept, {current.msdu})
        BY <1>2, <2>1, FinishedFrames
  <2>3. QED BY <1>1, <2>1, <2>2 DEF Placed, GivesUp, Nothing
<1>5. CASE agreement # "established" /\ ~ LifetimeOver
      BY <1>1, <1>2, <1>5, KeptFrames DEF Held
<1>6. QED BY <1>3, <1>4, <1>5

(* An A-MPDU takes its frames from the retransmit queue and from m_queue.  *)
LEMMA SendDataPlaces ==
  ASSUME TypeInv, BeforeInv, HeldInv, PlacesInv,
         NEW fit \in Fitting, SendData(fit), fit # 0
  PROVE  PlacesInv'
<1> DEFINE N == Elements(Kept.numbered)
           R == Kept.retry
           O == Kept.outstanding
           Q == Elements(queue)
           S == Elements(Ampdu(fit))
           b == WithNumbers(fit)
<1>1. NextFrame \in Msdus /\ Held = Nothing /\ exchange = Idle /\ UNCHANGED agreement
      BY DEF SendData, NothingHeld, Granted, setupVars
<1>2. N = R \cup O /\ R \cap O = {} /\ N \cap Q = {}
      BY <1>1, KeptPlaced DEF Placed, Nothing
<1>3. S \subseteq (N \cap R) \cup (Q \ expired)
      BY <1>1, AmpduElements, ReadyElements
<1>4. /\ b \in Frames /\ Elements(b.numbered) = N \cup (S \ R)
      /\ b.retry = R \ S /\ b.outstanding = O
      BY <1>1, NumberedFrames
<1>5. /\ Elements(queue') = (Q \ expired) \ S /\ current' = Packet("data", Ampdu(fit)[1])
      /\ Transmit(b, Ampdu(fit))
  <2>1. Fresh(queue) \in Seq(AnyMsdu) /\ Elements(Fresh(queue)) = Q \ expired
        BY FreshQueue DEF TypeInv, QueueTypes
  <2>2. QED BY <2>1, SendDataCases, WithoutElements
<1>6. /\ Ampdu(fit)[1] \in S
      /\ agreement # "established" => S = {Ampdu(fit)[1]} /\ R = {} /\ O = {}
      BY <1>1, AmpduElements, KeptBefore DEF NothingWaits
<1> DEFINE answer == AnswerTo(b, Ampdu(fit))
<1> HIDE DEF N, R, O, Q, S, b, answer
<1>7. CASE /\ exchange' = [phase |-> "rts", answer |-> answer, mpdus |-> Ampdu(fit)]
           /\ ba' = b
  <2>1. /\ exchange'.phase = "rts" /\ Elements(exchange'.mpdus) = S
        /\ current'.kind = "data" /\ current'.msdu = Ampdu(fit)[1]
        BY <1>5, <1>7 DEF Packet, S
  <2>2. Numbered' = N \cup (S \ R)
        BY <1>4, <1>7 DEF Numbered
  <2>3. ba'.retry = R \ S /\ ba'.outstanding = O
        BY <1>4, <1>7
  <2>4. CASE agreement = "established"
    <3>1. HeldFrames' = {} /\ AfterCts' = S \cap Numbered'
          BY <1>1, <2>1, <2>4 DEF HeldFrames, AfterCts
    <3>2. QED BY <1>2, <1>3, <1>5, <1>6, <2>1, <2>2, <2>3, <3>1 DEF PlacesInv
  <2>5. CASE agreement # "established"
    <3>1. HeldFrames' = S /\ AfterCts' = {}
          BY <1>1, <1>6, <2>1, <2>5 DEF HeldFrames, AfterCts
    <3>2. QED BY <1>2, <1>3, <1>5, <1>6, <2>1, <2>2, <2>3, <2>5, <3>1 DEF PlacesInv
  <2>6. QED BY <2>4, <2>5
<1>8. CASE /\ exchange' = [phase |-> "sent", answer |-> answer, mpdus |-> Ampdu(fit)]
           /\ ba' = Sent(b, answer, Ampdu(fit))
  <2>1. exchange'.phase = "sent" /\ current'.kind = "data" /\ current'.msdu = Ampdu(fit)[1]
        BY <1>5, <1>8 DEF Packet
  <2>2. Elements(ba'.numbered) = N \cup (S \ R) /\ ba'.retry = R \ S
        BY <1>4, <1>8, SentFrames
  <2>3. CASE agreement = "established"
    <3>1. ba'.outstanding = O \cup (S \cap (N \cup (S \ R)))
          BY <1>4, <1>8, <2>3, SentFrames DEF S
    <3>2. Placed(current', queue', ba', agreement')
          BY <1>1, <1>2, <1>3, <1>5, <2>2, <2>3, <3>1 DEF Placed
    <3>3. QED BY <2>1, <3>2, PlacedThen
  <2>4. CASE agreement # "established"
    <3>1. ba'.outstanding = O
          BY <1>4, <1>8, <2>4, SentFrames
    <3>2. Placed(current', queue', ba', agreement')
          BY <1>1, <1>2, <1>3, <1>5, <1>6, <2>1, <2>2, <2>4, <3>1 DEF Placed
    <3>3. QED BY <2>1, <3>2, PlacedThen
  <2>5. QED BY <2>3, <2>4
<1>9. QED BY <1>5, <1>7, <1>8 DEF Transmit, answer

LEMMA GrantPlaces ==
  ASSUME TypeInv, BeforeInv, HeldInv, PlacesInv,
         NEW fit \in Fitting, NotifyAccessGranted(fit)
  PROVE  PlacesInv'
<1>1. exchange = Idle
      BY DEF NotifyAccessGranted, SendHeld, SendBar, NothingToSend, SendAddBaRequest,
         SendData, SendGroup, NothingHeld, Granted
<1>2. Placed(Held, queue, Kept, agreement) /\ Kept \in Frames
      BY <1>1, KeptPlaced, KeptFrames DEF TypeInv, QueueTypes
<1>3. ASSUME Placed(current', queue', ba', agreement'),
             UNCHANGED exchange \/ \E answer : TransmitOther(answer)
      PROVE  PlacesInv'
      BY <1>1, <1>3, PlacedThen DEF TransmitOther, Idle
<1>4. CASE SendHeld(fit)
  <2>1. current' = Held /\ Held = current /\ UNCHANGED <<queue, agreement>>
        BY <1>4, HeldPacket DEF SendHeld, setupVars
  <2>2. CASE Held.kind = "data" /\ Transmit(Kept, <<Held.msdu>>)
    <3>1. agreement # "established"
          BY <1>1, <2>1, <2>2 DEF HeldInv
    <3>2. ba' = Kept /\ Placed(current', queue', ba', agreement')
          BY <1>2, <2>1, <2>2, <3>1, SentFrames DEF Transmit
    <3>3. exchange'.mpdus = <<Held.msdu>>
          BY <2>2 DEF Transmit
    <3>4. AfterCts' = {} /\ current'.msdu \in Elements(exchange'.mpdus)
          BY <2>1, <3>1, <3>3 DEF AfterCts, Elements
    <3>5. QED BY <3>2, <3>4 DEF PlacesInv, Placed, Numbered, HeldFrames
  <2>3. CASE ba' = Kept /\ (UNCHANGED exchange \/ \E answer : TransmitOther(answer))
        BY <1>2, <1>3, <2>1, <2>3
  <2>4. QED BY <1>4, <2>2, <2>3 DEF SendHeld
<1>5. CASE SendBar
  <2>1. /\ Held = Nothing /\ current' = Packet("bar", NoMsdu) /\ UNCHANGED <<queue, agreement>>
        /\ TransmitOther("blockAck")
        BY <1>5 DEF SendBar, setupVars
  <2> DEFINE b == GetBar(Kept, Fresh(queue))
  <2>2. Reduces(Kept, b) /\ b \in Frames
        BY <1>2, GetBarFrames DEF Reduces
  <2>3. /\ ba'.numbered = b.numbered /\ ba'.retry = b.retry
        /\ ba'.outstanding = b.outstanding
        BY <1>5, <2>2 DEF SendBar, Frames
  <2> HIDE DEF b
  <2>4. \E gone : GivesUp(Kept, ba', gone)
        BY <2>2, <2>3 DEF Reduces, GivesUp
  <2>5. Placed(Nothing, queue, ba', agreement)
        BY <1>2, <2>1, <2>4 DEF Placed, GivesUp, Nothing
  <2>6. Placed(current', queue', ba', agreement')
        BY <2>1, <2>5 DEF Placed, Nothing, Packet
  <2>7. QED BY <1>3, <2>1, <2>6
<1>6. CASE NothingToSend
  <2>1. /\ Held = Nothing /\ current' = Nothing /\ ba' = Kept
        /\ UNCHANGED <<queue, agreement, exchange>>
        BY <1>6 DEF NothingToSend, NothingHeld, setupVars
  <2>2. QED BY <1>2, <1>3, <2>1
<1>7. CASE SendAddBaRequest
  <2>1. /\ Held = Nothing /\ current' = Packet("addBa", NoMsdu) /\ ba' = Kept
        /\ UNCHANGED queue /\ TransmitOther("ack")
        BY <1>7 DEF SendAddBaRequest, NothingHeld
  <2>2. Placed(current', queue', ba', agreement')
        BY <1>2, <2>1 DEF Placed, Packet, Nothing
  <2>3. QED BY <1>3, <2>1, <2>2
<1>8. CASE SendData(fit)
  <2>1. CASE fit = 0
    <3>1. /\ Held = Nothing /\ current' = Nothing /\ ba' = Kept
          /\ UNCHANGED <<queue, agreement, exchange>>
          BY <1>8, <2>1 DEF SendData, NothingHeld, setupVars
    <3>2. QED BY <1>2, <1>3, <3>1
  <2>2. QED BY <1>8, <2>1, SendDataPlaces
<1>9. CASE SendGroup(fit)
  <2>1. /\ Held = Nothing /\ current' = Packet("group", NextFrame) /\ ba' = Kept
        /\ UNCHANGED agreement /\ (UNCHANGED exchange \/ TransmitOther("none"))
        /\ UNCHANGED queue \/ queue' = Without(Fresh(queue), {NextFrame})
        BY <1>9 DEF SendGroup, NothingHeld, setupVars
  <2>2. Elements(queue') \subseteq Elements(queue)
    <3>1. Fresh(queue) \in Seq(AnyMsdu) /\ Elements(Fresh(queue)) \subseteq Elements(queue)
          BY FreshQueue DEF TypeInv, QueueTypes
    <3>2. QED BY <2>1, <3>1, WithoutElements
  <2>3. Placed(current', queue', ba', agreement')
        BY <1>2, <2>1, <2>2 DEF Placed, Packet, Nothing
  <2>4. QED BY <1>3, <2>1, <2>3
<1>10. QED BY <1>4, <1>5, <1>6, <1>7, <1>8, <1>9 DEF NotifyAccessGranted

(* The end of an exchange.                                                 *)

LEMMA CtsReceivedPlaces ==
  ASSUME TypeInv, PlacesInv, CtsReceived
  PROVE  PlacesInv'
<1>1. /\ ba' = Sent(ba, exchange.answer, exchange.mpdus) /\ exchange.phase = "rts"
      /\ UNCHANGED <<queue, current, agreement>>
      BY DEF CtsReceived, setupVars
<1>2. exchange'.phase = "sent"
      BY DEF CtsReceived, TypeInv, ExchangeTypes
<1>3. /\ ba'.numbered = ba.numbered /\ ba'.retry = ba.retry
      /\ ba'.outstanding = ba.outstanding \cup AfterCts
      BY <1>1, SentFrames DEF TypeInv, QueueTypes, AfterCts, Numbered
<1>4. /\ Numbered = HeldFrames \cup ba'.retry \cup ba'.outstanding
      /\ HeldFrames \cap (ba'.retry \cup ba'.outstanding) = {}
      /\ ba'.retry \cap ba'.outstanding = {}
  <2>1. HeldFrames \cap AfterCts = {}
        BY DEF HeldFrames, AfterCts
  <2>2. QED BY <1>3, <2>1 DEF PlacesInv
<1>5. Placed(current', queue', ba', agreement')
      BY <1>1, <1>3, <1>4 DEF PlacesInv, Placed, Numbered, HeldFrames
<1>6. QED BY <1>2, <1>5, PlacedThen

LEMMA NotifyMissedCtsPlaces ==
  ASSUME TypeInv, BeforeInv, IInv, PlacesInv, NotifyMissedCts
  PROVE  PlacesInv'
<1> DEFINE mpdus == Elements(exchange.mpdus)
<1>1. /\ exchange' = Idle /\ exchange.phase = "rts" /\ UNCHANGED agreement
      /\ current.kind = "data" /\ current.msdu \in mpdus
      BY DEF NotifyMissedCts, setupVars, IInv, ExchangeInv, TakenAway, PlacesInv
<1>2. /\ ba \in Frames /\ queue \in Seq(AnyMsdu)
      /\ agreement # "established" => ba.bar = "none"
      BY DEF TypeInv, QueueTypes, BeforeInv
<1>3. CASE RestartAccessIfNeeded(Nothing, queue,
             Finished(NotifyDiscardedMpdu(ba, mpdus), mpdus))
  <2> DEFINE b == Finished(NotifyDiscardedMpdu(ba, mpdus), mpdus)
  <2>1. /\ b \in Frames /\ (agreement # "established" => b.bar = ba.bar)
        /\ \E gone : GivesUp(ba, b, gone) /\ mpdus \subseteq gone
        BY <1>2, GivenUp
  <2> HIDE DEF b
  <2>2. HeldFrames \cup AfterCts \subseteq mpdus
        BY <1>1 DEF HeldFrames, AfterCts
  <2>3. Placed(Nothing, queue, b, agreement')
        BY <2>1, <2>2 DEF PlacesInv, Placed, GivesUp, Numbered, Nothing
  <2>4. QED BY <1>1, <1>2, <1>3, <2>1, <2>3, PlacedRestart DEF b
<1>4. CASE /\ agreement = "established"
           /\ RestartAccessIfNeeded(Nothing, queue,
                [ba EXCEPT !.retry = @ \cup (mpdus \cap Elements(ba.numbered))])
  <2> DEFINE b == [ba EXCEPT !.retry = @ \cup (mpdus \cap Elements(ba.numbered))]
  <2>1. /\ b \in Frames /\ b.numbered = ba.numbered /\ b.outstanding = ba.outstanding
        /\ b.retry = ba.retry \cup (mpdus \cap Numbered)
        BY <1>2, BackInQueue
  <2> HIDE DEF b
  <2>2. AfterCts = mpdus \cap Numbered /\ HeldFrames = {}
        BY <1>1, <1>4 DEF AfterCts, HeldFrames
  <2>3. /\ Numbered = b.retry \cup b.outstanding /\ b.retry \cap b.outstanding = {}
        /\ Numbered \cap Elements(queue) = {}
    <3>1. b.retry = ba.retry \cup AfterCts
          BY <2>1, <2>2
    <3>2. QED BY <2>1, <2>2, <3>1 DEF PlacesInv
  <2>4. Placed(Nothing, queue, b, agreement')
        BY <2>1, <2>3 DEF Placed, Numbered, Nothing
  <2>5. QED BY <1>1, <1>2, <1>4, <2>1, <2>4, PlacedRestart DEF b
<1>5. CASE agreement # "established" /\ RestartAccessIfNeeded(current, queue, ba)
  <2>1. AfterCts = {}
        BY <1>5 DEF AfterCts
  <2>2. Placed(current, queue, ba, agreement')
        BY <1>1, <2>1 DEF PlacesInv, Placed, Numbered, HeldFrames
  <2>3. QED BY <1>1, <1>2, <1>5, <2>2, PlacedRestart
<1>6. QED BY <1>3, <1>4, <1>5 DEF NotifyMissedCts

(* The current packet is given up, and with it what expired before it.     *)
LEMMA DonePlaces ==
  ASSUME TypeInv, BeforeInv, PlacesInv, exchange.phase # "rts", exchange' = Idle,
         agreement' = "established" <=> agreement = "established",
         NEW STATE b, b \in Frames, agreement # "established" => b.bar = ba.bar,
         \E gone : GivesUp(ba, b, gone) /\ {current.msdu} \subseteq gone,
         RestartAccessIfNeeded(Nothing, queue, b)
  PROVE  PlacesInv'
<1>1. Placed(current, queue, ba, agreement)
      BY PlacedNow
<1>2. Placed(Nothing, queue, b, agreement')
      BY <1>1 DEF Placed, GivesUp, Nothing
<1>3. QED BY <1>2, PlacedRestart DEF TypeInv, QueueTypes, BeforeInv

LEMMA FinishedPlaces ==
  ASSUME TypeInv, BeforeInv, PlacesInv, exchange.phase # "rts", exchange' = Idle,
         agreement' = "established" <=> agreement = "established",
         RestartAccessIfNeeded(Nothing, queue, Finished(ba, {current.msdu}))
  PROVE  PlacesInv'
<1>1. /\ Finished(ba, {current.msdu}) \in Frames
      /\ GivesUp(ba, Finished(ba, {current.msdu}), {current.msdu})
      /\ Finished(ba, {current.msdu}).bar = ba.bar
      BY FinishedFrames DEF TypeInv, QueueTypes
<1>2. QED BY <1>1, DonePlaces

(* The current packet stays, and nothing else changes.                     *)
LEMMA StayingPlaces ==
  ASSUME TypeInv, BeforeInv, PlacesInv, exchange.phase # "rts", exchange' = Idle,
         agreement' = "established" <=> agreement = "established",
         RestartAccessIfNeeded(current, queue, ba)
  PROVE  PlacesInv'
<1>1. Placed(current, queue, ba, agreement)
      BY PlacedNow
<1>2. Placed(current, queue, ba, agreement')
      BY <1>1 DEF Placed
<1>3. QED BY <1>2, PlacedRestart DEF TypeInv, QueueTypes, BeforeInv

LEMMA MissedAckPlaces ==
  ASSUME TypeInv, AgreementInv, BeforeInv, PlacesInv, MissedAck
  PROVE  PlacesInv'
<1>1. exchange' = Idle /\ exchange.phase = "sent"
      BY DEF MissedAck, Awaiting
<1>2. ba \in Frames /\ queue \in Seq(AnyMsdu)
      BY DEF TypeInv, QueueTypes
<1>3. CASE RetransmitLater
  <2>1. UNCHANGED agreement
        BY <1>3 DEF RetransmitLater
  <2>2. CASE current.kind = "data" /\ agreement = "established"
    <3> DEFINE b == [ba EXCEPT !.outstanding = @ \ {current.msdu},
                       !.retry = @ \cup ({current.msdu} \cap Elements(ba.numbered))]
    <3>1. /\ b \in Frames /\ b.numbered = ba.numbered
          /\ b.retry = ba.retry \cup ({current.msdu} \cap Numbered)
          /\ b.outstanding = ba.outstanding \ {current.msdu}
          BY <1>2, NotAcknowledged
    <3>2. RestartAccessIfNeeded(Nothing, queue, b)
          BY <1>3, <2>2 DEF RetransmitLater
    <3> HIDE DEF b
    <3>3. Placed(current, queue, ba, agreement)
          BY <1>1, PlacedNow
    <3>4. Placed(Nothing, queue, b, agreement')
          BY <2>1, <2>2, <3>1, <3>3 DEF Placed, Numbered, Nothing
    <3>5. QED BY <1>1, <1>2, <2>1, <2>2, <3>1, <3>2, <3>4, PlacedRestart
  <2>3. CASE ~ (current.kind = "data" /\ agreement = "established")
    <3>1. RestartAccessIfNeeded(current, queue, ba)
          BY <1>3, <2>3 DEF RetransmitLater
    <3>2. QED BY <1>1, <2>1, <3>1, StayingPlaces
  <2>4. QED BY <2>2, <2>3
<1>4. CASE GiveUp
  <2> DEFINE b == Finished(NotifyDiscardedMpdu(ba, {current.msdu}), {current.msdu})
  <2>1. /\ b \in Frames /\ (agreement # "established" => b.bar = ba.bar)
        /\ \E gone : GivesUp(ba, b, gone) /\ {current.msdu} \subseteq gone
        BY <1>2, GivenUp
  <2>2. RestartAccessIfNeeded(Nothing, queue, b)
        BY <1>4 DEF GiveUp
  <2> HIDE DEF b
  <2>3. agreement' = "established" <=> agreement = "established"
        BY <1>4 DEF GiveUp, NotifyAgreementNoReply
  <2>4. QED BY <1>1, <2>1, <2>2, <2>3, DonePlaces
<1>5. QED BY <1>3, <1>4 DEF MissedAck

LEMMA BlockAckPlaces ==
  ASSUME TypeInv, BeforeInv, PlacesInv, exchange' = Idle, Awaiting("sent", "blockAck"),
         UNCHANGED setupVars, NEW STATE packet, packet.kind # "data",
         NEW STATE b, b \in Frames, RestartAccessIfNeeded(packet, queue, b),
         \/ \E gone : GivesUp(ba, b, gone)
         \/ /\ \E set : Elements(b.numbered) = Numbered \ set
                        /\ b.retry = (ba.retry \cup ba.outstanding) \ set
            /\ b.outstanding = {}
  PROVE  PlacesInv'
<1>1. agreement = "established" /\ agreement' = agreement /\ exchange.phase # "rts"
      BY DEF Awaiting, BeforeInv, setupVars
<1>2. Placed(current, queue, ba, agreement) /\ queue \in Seq(AnyMsdu)
      BY <1>1, PlacedNow DEF TypeInv, QueueTypes
<1>3. CASE \E gone : GivesUp(ba, b, gone)
  <2>1. Placed(packet, queue, b, agreement')
        BY <1>1, <1>2, <1>3 DEF Placed, GivesUp
  <2>2. QED BY <1>1, <1>2, <2>1, PlacedRestart
<1>4. CASE /\ \E set : Elements(b.numbered) = Numbered \ set
                       /\ b.retry = (ba.retry \cup ba.outstanding) \ set
           /\ b.outstanding = {}
  <2>1. Placed(packet, queue, b, agreement')
        BY <1>1, <1>2, <1>4 DEF Placed, Numbered
  <2>2. QED BY <1>1, <1>2, <2>1, PlacedRestart
<1>5. QED BY <1>3, <1>4

LEMMA ExchangeEndsPlaces ==
  ASSUME TypeInv, BeforeInv, IInv, PlacesInv, ExchangeEnds
  PROVE  PlacesInv'
<1>1. ba \in Frames /\ queue \in Seq(AnyMsdu) /\ Nothing.kind # "data"
      BY DEF TypeInv, QueueTypes, Nothing
<1>2. CASE CtsReceived
      BY <1>2, CtsReceivedPlaces
<1>3. CASE NotifyMissedCts
      BY <1>3, NotifyMissedCtsPlaces
<1>4. CASE GotAck
      BY <1>4, FinishedPlaces DEF GotAck, Awaiting
<1>5. CASE MissedAck
      BY <1>5, MissedAckPlaces DEF IInv
<1>6. ASSUME NEW received, GotBlockAck(received) PROVE PlacesInv'
  <2> DEFINE b == [ba EXCEPT !.retry = @ \cup ba.outstanding, !.outstanding = {}]
             c == Finished(b, received)
  <2>1. /\ b \in Frames /\ b.numbered = ba.numbered
        /\ b.retry = ba.retry \cup ba.outstanding /\ b.outstanding = {}
        BY <1>1, AllToBeSentAgain
  <2>2. RestartAccessIfNeeded(Nothing, queue, c)
        BY <1>6 DEF GotBlockAck
  <2> HIDE DEF b
  <2>3. c \in Frames /\ GivesUp(b, c, received)
        BY <2>1, FinishedFrames
  <2> HIDE DEF c
  <2>4. /\ Elements(c.numbered) = Numbered \ received
        /\ c.retry = (ba.retry \cup ba.outstanding) \ received /\ c.outstanding = {}
        BY <2>1, <2>3 DEF GivesUp, Numbered
  <2>5. exchange' = Idle /\ Awaiting("sent", "blockAck") /\ UNCHANGED setupVars
        BY <1>6 DEF GotBlockAck
  <2>6. QED BY <1>1, <2>2, <2>3, <2>4, <2>5, BlockAckPlaces
<1>7. CASE MissedBlockAck
  <2>1. exchange' = Idle /\ Awaiting("sent", "blockAck") /\ UNCHANGED setupVars
        BY <1>7 DEF MissedBlockAck
  <2>2. ASSUME NEW STATE bar, bar \in {"bar", "skip"}
        PROVE  /\ [ba EXCEPT !.bar = bar] \in Frames
               /\ \E gone : GivesUp(ba, [ba EXCEPT !.bar = bar], gone)
    <3> DEFINE b == [ba EXCEPT !.bar = bar]
    <3>1. /\ b \in Frames /\ b.numbered = ba.numbered /\ b.retry = ba.retry
          /\ b.outstanding = ba.outstanding
          BY <1>1, <2>2, BarScheduled
    <3> HIDE DEF b
    <3>2. GivesUp(ba, b, {})
          BY <3>1 DEF GivesUp
    <3>3. QED BY <3>1, <3>2 DEF b
  <2>3. /\ NotifyDiscardedMpdu(ba, ba.outstanding) \in Frames
        /\ \E gone : GivesUp(ba, NotifyDiscardedMpdu(ba, ba.outstanding), gone)
        /\ \E gone : GivesUp(ba, ba, gone)
        BY <1>1, DiscardedFrames, ReducesSame DEF Reduces
  <2>4. CASE current.kind = "bar" /\ RestartAccessIfNeeded(current, queue, ba)
        BY <1>1, <2>1, <2>3, <2>4, BlockAckPlaces
  <2>5. CASE RestartAccessIfNeeded(Nothing, queue, [ba EXCEPT !.bar = "bar"])
        BY <1>1, <2>1, <2>2, <2>5, BlockAckPlaces
  <2>6. CASE RestartAccessIfNeeded(Nothing, queue, NotifyDiscardedMpdu(ba, ba.outstanding))
        BY <1>1, <2>1, <2>3, <2>6, BlockAckPlaces
  <2>7. CASE RestartAccessIfNeeded(Nothing, queue, [ba EXCEPT !.bar = "skip"])
        BY <1>1, <2>1, <2>2, <2>7, BlockAckPlaces
  <2>8. QED BY <1>7, <2>4, <2>5, <2>6, <2>7 DEF MissedBlockAck
<1>8. CASE EndTxNoAck
  <2>1. exchange' = Idle /\ exchange.phase = "sent" /\ exchange.answer = "none"
        /\ UNCHANGED agreement /\ RestartAccessIfNeeded(Nothing, queue, ba)
        BY <1>8 DEF EndTxNoAck, Awaiting, setupVars
  <2>2. agreement # "established" => current.kind # "data" /\ ba.bar = "none"
        BY <2>1 DEF BeforeInv
  <2>3. Placed(current, queue, ba, agreement)
        BY <2>1, PlacedNow
  <2>4. Placed(Nothing, queue, ba, agreement')
        BY <2>1, <2>2, <2>3 DEF Placed, Nothing
  <2>5. QED BY <1>1, <2>1, <2>2, <2>4, PlacedRestart
<1>9. QED BY <1>2, <1>3, <1>4, <1>5, <1>6, <1>7, <1>8 DEF ExchangeEnds

(* Arrivals, block ack setup and internal collisions.                      *)

LEMMA ArrivalPlaces ==
  ASSUME TypeInv, BeforeInv, PlacesInv, Arrival
  PROVE  PlacesInv'
<1>1. UNCHANGED <<exchange, agreement>>
      BY DEF Arrival, Queue, QueueOverflow, setupVars
<1>2. Fresh(queue) \in Seq(AnyMsdu) /\ Elements(Fresh(queue)) = Elements(queue) \ expired
      BY FreshQueue DEF TypeInv, QueueTypes
<1>3. ASSUME NEW STATE q, StartAccessIfNeeded(q), Elements(q) \cap Numbered = {}
      PROVE  PlacesInv'
  <2>1. UNCHANGED current /\ queue' = q /\ \E gone : GivesUp(ba, ba', gone)
        BY <1>3, Started DEF TypeInv, QueueTypes, Reduces
  <2>2. PICK gone : GivesUp(ba, ba', gone)
        BY <2>1
  <2>3. HeldFrames' = HeldFrames
        BY <1>1, <2>1 DEF HeldFrames
  <2>4. Numbered' = Numbered \ gone
        BY <2>2 DEF GivesUp, Numbered
  <2>5. AfterCts' = AfterCts \ gone
        BY <1>1, <2>4 DEF AfterCts
  <2>6. ba'.retry = ba.retry \ gone /\ ba'.outstanding = ba.outstanding \ gone
        BY <2>2 DEF GivesUp
  <2>7. exchange'.phase = "rts" => current'.msdu \in Elements(exchange'.mpdus)
        BY <1>1, <2>1 DEF PlacesInv
  <2>8. HeldFrames' = {} \/ ba' = ba
    <3>1. agreement # "established" => ba' = ba
          BY <1>3, Started DEF TypeInv, QueueTypes, Reduces, BeforeInv
    <3>2. QED BY <1>1, <3>1 DEF HeldFrames
  <2>9. CASE ba' = ba
    <3>1. Numbered' = Numbered /\ AfterCts' = AfterCts
          BY <1>1, <2>9 DEF Numbered, AfterCts
    <3>2. QED BY <1>3, <2>1, <2>3, <2>7, <2>9, <3>1 DEF PlacesInv
  <2>10. CASE HeldFrames' = {}
    <3>1. Numbered' = ba'.retry \cup ba'.outstanding \cup AfterCts'
          BY <2>3, <2>4, <2>5, <2>6, <2>10 DEF PlacesInv
    <3>2. /\ ba'.retry \cap (ba'.outstanding \cup AfterCts') = {}
          /\ ba'.outstanding \cap AfterCts' = {}
          BY <2>5, <2>6 DEF PlacesInv
    <3>3. Numbered' \cap Elements(queue') = {}
          BY <1>3, <2>1, <2>4
    <3>4. QED BY <2>7, <2>10, <3>1, <3>2, <3>3 DEF PlacesInv
  <2>11. QED BY <2>8, <2>9, <2>10
<1>4. ASSUME NEW m \in AnyMsdu, Queue(m) PROVE PlacesInv'
  <2>1. m \notin Numbered
        BY <1>4 DEF Queue, InSystem, PlacesInv, Numbered
  <2>2. Elements(Append(Fresh(queue), m)) = (Elements(queue) \ expired) \cup {m}
        BY <1>2, ElementsAppend
  <2>3. QED BY <1>3, <1>4, <2>1, <2>2 DEF Queue, PlacesInv
<1>5. CASE QueueOverflow
      BY <1>2, <1>3, <1>5 DEF QueueOverflow, PlacesInv
<1>6. QED BY <1>4, <1>5 DEF Arrival

(* Nothing changes but that expired frames leave the queue.                *)
LEMMA SamePlaces ==
  ASSUME PlacesInv, UNCHANGED <<exchange, current, ba>>,
         agreement' = "established" <=> agreement = "established",
         Elements(queue') \subseteq Elements(queue)
  PROVE  PlacesInv'
<1>1. HeldFrames' = HeldFrames /\ AfterCts' = AfterCts /\ Numbered' = Numbered
      BY DEF HeldFrames, AfterCts, Numbered
<1>2. QED BY <1>1 DEF PlacesInv

LEMMA SetupPlaces ==
  ASSUME ResponsesOverlap = FALSE, TypeInv, BeforeInv, IInv, PlacesInv, Setup
  PROVE  PlacesInv'
<1>1. ba \in Frames /\ queue \in Seq(AnyMsdu)
      BY DEF TypeInv, QueueTypes
<1>2. CASE AddBaResponseTimeout
  <2>1. CASE agreement = "pending"
    <3>1. agreement' = "no_reply" /\ UNCHANGED exchange
          /\ RestartAccessIfNeeded(current, queue, ba)
          BY <1>2, <2>1 DEF AddBaResponseTimeout, NotifyAgreementNoReply
    <3>2. ba' = ba /\ current' = current /\ Elements(queue') \subseteq Elements(queue)
          BY <1>1, <2>1, <3>1, Restarted DEF TypeInv, QueueTypes, Reduces, BeforeInv
    <3>3. QED BY <2>1, <3>1, <3>2, SamePlaces
  <2>2. CASE agreement # "pending"
        BY <1>2, <2>2, SamePlaces DEF AddBaResponseTimeout
  <2>3. QED BY <2>1, <2>2
<1>3. CASE ResetBa
      BY <1>3, SamePlaces DEF ResetBa
<1>4. CASE GotAddBaResponse
  <2>1. exchange = Idle /\ exchange' = Idle /\ agreement' = "established"
        BY <1>4 DEF GotAddBaResponse, MayHear
  <2>2. Placed(current, queue, ba, agreement)
        BY <2>1, PlacedNow DEF Idle
  <2>3. CASE current.kind = "data" /\ current.msdu \in expired
    <3> DEFINE b == Finished(ba, {current.msdu})
    <3>1. RestartAccessIfNeeded(Nothing, queue, b)
      <4>1. NotifyDiscardedMpdu(ba, {current.msdu}) = ba
            BY <2>1, <2>3 DEF NotifyDiscardedMpdu, IInv, HeldInv
      <4>2. QED BY <1>4, <2>3, <4>1 DEF GotAddBaResponse
    <3>2. b \in Frames /\ GivesUp(ba, b, {current.msdu})
          BY <1>1, FinishedFrames
    <3> HIDE DEF b
    <3>3. Placed(Nothing, queue, b, agreement')
          BY <2>1, <2>2, <3>2 DEF Placed, GivesUp, Nothing
    <3>4. QED BY <1>1, <2>1, <3>1, <3>2, <3>3, PlacedRestart
  <2>4. CASE current.kind = "data" /\ current.msdu \notin expired
    <3> DEFINE b == [ba EXCEPT !.retry = @ \cup {current.msdu}]
    <3>1. RestartAccessIfNeeded(Nothing, queue, b)
          BY <1>4, <2>4 DEF GotAddBaResponse
    <3>2. current.msdu \in Msdus
          BY <2>4 DEF TypeInv, QueueTypes
    <3>3. /\ b \in Frames /\ b.numbered = ba.numbered
          /\ b.retry = ba.retry \cup {current.msdu} /\ b.outstanding = ba.outstanding
          BY <1>1, <3>2, OneLeft
    <3> HIDE DEF b
    <3>4. agreement # "established"
          BY <2>1, <2>4 DEF IInv, HeldInv
    <3>5. Placed(Nothing, queue, b, agreement')
          BY <2>1, <2>2, <2>4, <3>3, <3>4 DEF Placed, Nothing
    <3>6. QED BY <1>1, <2>1, <3>1, <3>3, <3>5, PlacedRestart
  <2>5. CASE current.kind # "data"
    <3>1. RestartAccessIfNeeded(current, queue, ba)
          BY <1>4, <2>5 DEF GotAddBaResponse
    <3>2. Placed(current, queue, ba, agreement')
          BY <2>2, <2>5 DEF Placed
    <3>3. QED BY <1>1, <2>1, <3>1, <3>2, PlacedRestart
  <2>6. QED BY <2>3, <2>4, <2>5
<1>5. CASE ResponseIsLost
      BY <1>5, SamePlaces DEF ResponseIsLost
<1>6. QED BY <1>2, <1>3, <1>4, <1>5 DEF Setup

LEMMA CollisionPlaces ==
  ASSUME TypeInv, BeforeInv, PlacesInv, NotifyInternalCollision
  PROVE  PlacesInv'
<1>1. exchange = Idle /\ exchange' = Idle /\ UNCHANGED agreement
      BY DEF NotifyInternalCollision, Granted, setupVars
<1>2. exchange.phase # "rts"
      BY <1>1 DEF Idle
<1>3. CASE RestartAccessIfNeeded(current, queue, ba)
      BY <1>1, <1>2, <1>3, StayingPlaces
<1>4. CASE RestartAccessIfNeeded(Nothing, queue, Finished(ba, {current.msdu}))
      BY <1>1, <1>2, <1>4, FinishedPlaces
<1>5. ASSUME NEW STATE q, q \in Seq(AnyMsdu), Elements(q) \subseteq Elements(queue),
             current = Nothing, RestartAccessIfNeeded(Nothing, q, ba)
      PROVE  PlacesInv'
  <2>1. Placed(current, queue, ba, agreement)
        BY <1>2, PlacedNow
  <2>2. Placed(Nothing, q, ba, agreement')
        BY <1>1, <1>5, <2>1 DEF Placed
  <2>3. QED BY <1>1, <1>5, <2>2, PlacedRestart DEF TypeInv, QueueTypes, BeforeInv
<1>6. QED BY <1>3, <1>4, <1>5, CollisionCases, TailOfFresh DEF TypeInv, QueueTypes

LEMMA PlacesStep ==
  ASSUME ResponsesOverlap = FALSE, TypeInv, BeforeInv, IInv, PlacesInv, [Next]_vars
  PROVE  PlacesInv'
<1>1. CASE Arrival
      BY <1>1, ArrivalPlaces
<1>2. ASSUME NEW m \in AnyMsdu, Expire(m) PROVE PlacesInv'
      BY <1>2, SamePlaces DEF Expire, setupVars
<1>3. ASSUME NEW fit \in Fitting, NotifyAccessGranted(fit) PROVE PlacesInv'
      BY <1>3, GrantPlaces DEF IInv
<1>4. CASE ExchangeEnds
      BY <1>4, ExchangeEndsPlaces
<1>5. CASE Setup
      BY <1>5, SetupPlaces
<1>6. CASE NotifyInternalCollision
      BY <1>6, CollisionPlaces
<1>7. CASE UNCHANGED vars
      BY <1>7, SamePlaces DEF vars, setupVars
<1>8. QED BY <1>1, <1>2, <1>3, <1>4, <1>5, <1>6, <1>7 DEF Next

-----------------------------------------------------------------------------
(* The invariant of every run: what is sent, what waits and what is held.  *)

FramesInv == IInv /\ TypeInv /\ BeforeInv /\ PlacesInv

LEMMA FramesInit == Init => FramesInv
<1> SUFFICES ASSUME Init PROVE FramesInv
  OBVIOUS
<1>1. IInv /\ TypeInv
      BY InvInit, TypeInit
<1>2. BeforeInv
      BY DEF Init, BeforeInv, NoFrames, Nothing, Idle
<1>3. Elements(<<>>) = {}
      BY DEF Elements
<1>4. /\ Numbered = {} /\ ba.retry = {} /\ ba.outstanding = {}
      /\ HeldFrames = {} /\ AfterCts = {} /\ exchange.phase = "idle"
      BY <1>3 DEF Init, NoFrames, Nothing, Idle, Numbered, HeldFrames, AfterCts
<1>5. PlacesInv
      BY <1>4 DEF PlacesInv
<1>6. QED BY <1>1, <1>2, <1>5 DEF FramesInv

(* An MSDU is where the variables say, and nowhere else: the invariant on  *)
(* which the theorems that follow rest.  They are about runs in which no   *)
(* response is handled while MacLow waits for an answer; where one is, the *)
(* exchange goes on without its packet.                                    *)
THEOREM FramesInvariant ==
  ASSUME ResponsesOverlap = FALSE
  PROVE  Spec => []FramesInv
<1>1. FramesInv /\ [Next]_vars => FramesInv'
      BY InvStep, TypeStep, BeforeStep, PlacesStep DEF FramesInv, IInv
<1>2. QED BY <1>1, FramesInit, PTL DEF Spec

(* No handler leaves a variable outside its type: queues keep their limit, *)
(* the retry counter its maximum, and what is outstanding or to be sent    *)
(* again has a number.                                                     *)
THEOREM TypeCorrect ==
  ASSUME ResponsesOverlap = FALSE
  PROVE  Spec => []TypeOK
<1>1. FramesInv => TypeOK
  <2> SUFFICES ASSUME FramesInv PROVE TypeOK
    OBVIOUS
  <2>1. /\ ba.numbered \in Seq(Msdus) /\ ba.bar \in {"none", "bar", "skip"}
        BY DEF FramesInv, TypeInv, QueueTypes, Frames
  <2>2. ba.retry \subseteq Elements(ba.numbered) /\ ba.outstanding \subseteq Elements(ba.numbered)
        BY DEF FramesInv, PlacesInv, Numbered
  <2>3. {blocked, addBaTimer, resetTimer, requestHeard, response} \subseteq BOOLEAN
        BY DEF FramesInv, TypeInv, SetupTypes
  <2>4. QED BY <2>1, <2>2, <2>3
        DEF TypeOK, FramesInv, TypeInv, QueueTypes, SetupTypes, ExchangeTypes
<1>2. QED BY <1>1, FramesInvariant, PTL

-----------------------------------------------------------------------------
(* One place for every MSDU.                                               *)

LEMMA PlacesOf ==
  ASSUME FramesInv, NEW m \in Msdus
  PROVE  Places(m) = {p \in {"queue", "held", "retry", "onTheWay"} :
                        \/ p = "queue" /\ m \in Elements(queue)
                        \/ p = "held" /\ m \in HeldFrames
                        \/ p = "retry" /\ m \in ba.retry
                        \/ p = "onTheWay" /\ m \in ba.outstanding \cup AfterCts}
<1>1. m \in HeldFrames <=> current = Packet("data", m) /\ agreement # "established"
      BY DEF HeldFrames, Packet, FramesInv, TypeInv, QueueTypes
<1>2. m \in ba.outstanding \cup AfterCts <=>
        \/ m \in ba.outstanding
        \/ (exchange.phase = "rts" /\ agreement = "established"
             /\ m \in Elements(exchange.mpdus) \cap Elements(ba.numbered))
      BY DEF AfterCts, Numbered
<1>3. QED BY <1>1, <1>2 DEF Places

LEMMA OnePlace ==
  ASSUME FramesInv, NEW m \in Msdus
  PROVE  IF m \in Elements(queue) \cup Numbered THEN \E p : Places(m) = {p}
         ELSE Places(m) = {}
<1>1. /\ Numbered = HeldFrames \cup ba.retry \cup ba.outstanding \cup AfterCts
      /\ HeldFrames \cap (ba.retry \cup ba.outstanding) = {}
      /\ ba.retry \cap (ba.outstanding \cup AfterCts) = {}
      /\ Numbered \cap Elements(queue) = {}
      BY DEF FramesInv, PlacesInv
<1>2. HeldFrames \cap AfterCts = {}
      BY DEF HeldFrames, AfterCts
<1>3. CASE m \in Elements(queue)
  <2>1. Places(m) = {"queue"}
        BY <1>1, <1>3, PlacesOf
  <2>2. QED BY <1>3, <2>1
<1>4. CASE m \in HeldFrames
  <2>1. Places(m) = {"held"}
        BY <1>1, <1>2, <1>4, PlacesOf
  <2>2. QED BY <1>1, <1>4, <2>1
<1>5. CASE m \in ba.retry
  <2>1. Places(m) = {"retry"}
        BY <1>1, <1>5, PlacesOf
  <2>2. QED BY <1>1, <1>5, <2>1
<1>6. CASE m \in ba.outstanding \cup AfterCts
  <2>1. Places(m) = {"onTheWay"}
        BY <1>1, <1>2, <1>6, PlacesOf
  <2>2. QED BY <1>1, <1>6, <2>1
<1>7. CASE m \notin Elements(queue) \cup Numbered
      BY <1>1, <1>7, PlacesOf
<1>8. QED BY <1>1, <1>3, <1>4, <1>5, <1>6, <1>7

(* An MSDU for the station is in one place only, from the time it is queued*)
(* until it is acknowledged or given up, whatever the handlers of three    *)
(* classes do with it: no frame is sent as two, and none is taken from the *)
(* queue without being kept.                                               *)
THEOREM OnePlaceOnly ==
  ASSUME ResponsesOverlap = FALSE
  PROVE  Spec => []InOnePlace
<1>1. FramesInv => InOnePlace
  <2> SUFFICES ASSUME FramesInv, NEW m \in Msdus
               PROVE  Cardinality(Places(m)) =
                        IF m \in Elements(queue \o ba.numbered) THEN 1 ELSE 0
      BY DEF InOnePlace
  <2>1. queue \in Seq(AnyMsdu) /\ ba.numbered \in Seq(Msdus)
        BY DEF FramesInv, TypeInv, QueueTypes, Frames
  <2>2. ba.numbered \in Seq(AnyMsdu)
        BY <2>1, SeqMonotonic DEF AnyMsdu
  <2>3. Elements(queue \o ba.numbered) = Elements(queue) \cup Numbered
        BY <2>1, <2>2, ElementsConcat DEF Numbered
  <2>4. QED BY <2>3, OnePlace, FS_Singleton, FS_EmptySet
<1>2. QED BY <1>1, FramesInvariant, PTL

-----------------------------------------------------------------------------
(* No frame is forgotten.                                                  *)

(* A frame that leaves m_queue has expired, or has become the current      *)
(* packet, or has a number.  (An internal collision drops the head.)       *)
LEMMA QueueKeeps ==
  ASSUME InternalCollisions = FALSE, FramesInv, [Next]_vars,
         NEW m \in Elements(queue), m \notin expired
  PROVE  InSystem(m)'
<1>1. queue \in Seq(AnyMsdu) /\ ba \in Frames
      BY DEF FramesInv, TypeInv, QueueTypes
<1>2. Fresh(queue) \in Seq(AnyMsdu) /\ m \in Elements(Fresh(queue))
      BY <1>1, FreshQueue
<1>3. ASSUME m \in Elements(queue') PROVE InSystem(m)'
      BY <1>3 DEF InSystem
<1>4. CASE UNCHANGED vars
      BY <1>3, <1>4 DEF vars
<1>5. CASE Arrival
  <2>1. ASSUME NEW n \in AnyMsdu, Queue(n) PROVE InSystem(m)'
    <3>1. queue' = Append(Fresh(queue), n)
          BY <2>1 DEF Queue, StartAccessIfNeeded
    <3>2. QED BY <1>2, <1>3, <3>1, ElementsAppend
  <2>2. CASE QueueOverflow
        BY <1>2, <1>3, <2>2 DEF QueueOverflow, StartAccessIfNeeded
  <2>3. QED BY <1>5, <2>1, <2>2 DEF Arrival
<1>6. ASSUME UNCHANGED queue PROVE InSystem(m)'
      BY <1>3, <1>6
<1>7. ASSUME NEW fit \in Fitting, NotifyAccessGranted(fit) PROVE InSystem(m)'
  <2>1. CASE SendData(fit) /\ fit # 0
    <3>1. NextFrame \in Msdus
          BY <2>1 DEF SendData
    <3>2. /\ queue' = Without(Fresh(queue), Elements(Ampdu(fit)))
          /\ Transmit(WithNumbers(fit), Ampdu(fit))
          BY <2>1, SendDataCases
    <3>3. /\ WithNumbers(fit) \in Frames
          /\ Elements(WithNumbers(fit).numbered) =
               Elements(Kept.numbered) \cup (Elements(Ampdu(fit)) \ Kept.retry)
          BY <2>1, <3>1, NumberedFrames DEF FramesInv
    <3>4. ba'.numbered = WithNumbers(fit).numbered
          BY <3>2, <3>3, SentFrames DEF Transmit
    <3>5. CASE m \in Elements(Ampdu(fit))
      <4>1. m \notin Kept.retry
        <5>1. Kept.retry \subseteq ba.retry
              BY <1>1, KeptFrames DEF GivesUp
        <5>2. ba.retry \cap Elements(queue) = {}
              BY DEF FramesInv, PlacesInv
        <5>3. QED BY <5>1, <5>2
      <4>2. QED BY <3>3, <3>4, <3>5, <4>1 DEF InSystem
    <3>6. CASE m \notin Elements(Ampdu(fit))
          BY <1>2, <1>3, <3>2, <3>6, WithoutElements
    <3>7. QED BY <3>5, <3>6
  <2>2. CASE SendGroup(fit)
    <3>1. /\ current'.msdu = NextFrame
          /\ UNCHANGED queue \/ queue' = Without(Fresh(queue), {NextFrame})
          BY <2>2 DEF SendGroup, Packet
    <3>2. CASE m = NextFrame
          BY <3>1, <3>2 DEF InSystem
    <3>3. CASE m # NextFrame
          BY <1>2, <1>3, <3>1, <3>3, WithoutElements
    <3>4. QED BY <3>2, <3>3
  <2>3. CASE ~ (SendData(fit) /\ fit # 0) /\ ~ SendGroup(fit)
    <3>1. UNCHANGED queue
          BY <1>7, <2>3 DEF NotifyAccessGranted, SendHeld, SendBar, NothingToSend,
             SendAddBaRequest, SendData
    <3>2. QED BY <1>6, <3>1
  <2>4. QED BY <2>1, <2>2, <2>3
<1>8. CASE ExchangeEnds
  <2>1. CASE CtsReceived
        BY <1>6, <2>1 DEF CtsReceived
  <2>2. CASE ~ CtsReceived
    <3>1. \E packet, b : RestartAccessIfNeeded(packet, queue, b)
          BY <1>8, <2>2 DEF ExchangeEnds, NotifyMissedCts, GotAck, MissedAck,
             RetransmitLater, GiveUp, GotBlockAck, MissedBlockAck, EndTxNoAck
    <3>2. queue' = Fresh(queue)
          BY <3>1 DEF RestartAccessIfNeeded
    <3>3. QED BY <1>2, <1>3, <3>2
  <2>3. QED BY <2>1, <2>2
<1>9. CASE Setup
  <2>1. UNCHANGED queue \/ \E packet, b : RestartAccessIfNeeded(packet, queue, b)
        BY <1>9 DEF Setup, AddBaResponseTimeout, ResetBa, GotAddBaResponse, ResponseIsLost
  <2>2. queue' = queue \/ queue' = Fresh(queue)
        BY <2>1 DEF RestartAccessIfNeeded
  <2>3. QED BY <1>2, <1>3, <2>2
<1>10. CASE NotifyInternalCollision
       BY <1>10 DEF NotifyInternalCollision
<1>11. ASSUME NEW n \in AnyMsdu, Expire(n) PROVE InSystem(m)'
       BY <1>6, <1>11 DEF Expire
<1>12. QED BY <1>4, <1>5, <1>7, <1>8, <1>9, <1>10, <1>11 DEF Next

(* Where the device has no other EDCA function in use, an MSDU leaves the  *)
(* MAC only after its lifetime, or after it was sent or prepared to be     *)
(* sent: no handler drops a frame that waits in the queue.                 *)
THEOREM NoneIsForgotten ==
  ASSUME InternalCollisions = FALSE, ResponsesOverlap = FALSE
  PROVE  Spec => NothingIsForgotten
<1> DEFINE Remembered ==
      \A m \in AnyMsdu : InSystem(m) /\ ~ InSystem(m)' /\ m \notin expired
        => m \in ba.outstanding \cup ba.retry \cup Elements(exchange.mpdus)
           \/ current.msdu = m
<1>1. FramesInv /\ [Next]_vars => Remembered
  <2> SUFFICES ASSUME FramesInv, [Next]_vars, NEW m \in AnyMsdu,
                      InSystem(m), ~ InSystem(m)', m \notin expired, current.msdu # m
               PROVE  m \in ba.outstanding \cup ba.retry \cup Elements(exchange.mpdus)
      OBVIOUS
  <2>1. m \notin Elements(queue)
        BY QueueKeeps
  <2>2. m \in Numbered
        BY <2>1 DEF InSystem, Numbered
  <2>3. m \in ba.retry \cup ba.outstanding \cup AfterCts
        BY <2>2 DEF FramesInv, PlacesInv, HeldFrames
  <2>4. QED BY <2>3 DEF AfterCts
<1>2. Spec => [][Remembered]_vars
  <2>1. QED BY <1>1, FramesInvariant, PTL DEF Spec
<1>3. QED BY <1>2 DEF NothingIsForgotten

-----------------------------------------------------------------------------
(* Access is asked for whenever there is something to do.                  *)

LEMMA AvailableElements ==
  ASSUME NEW q \in Seq(AnyMsdu), NEW late, NEW closed
  PROVE  LET left == IF closed THEN Only(Without(q, late), GroupMsdus) ELSE Without(q, late)
         IN  left # <<>> <=> \E m \in Elements(q) \ late : closed => m \in GroupMsdus
<1> DEFINE w == Without(q, late)
           g == Only(w, GroupMsdus)
<1>1. w \in Seq(AnyMsdu) /\ Elements(w) = Elements(q) \ late
      BY WithoutElements
<1> HIDE DEF w
<1>2. g \in Seq(AnyMsdu) /\ Elements(g) = Elements(w) \cap GroupMsdus
      BY <1>1, OnlyElements
<1> HIDE DEF g
<1>3. (w # <<>> <=> Elements(w) # {}) /\ (g # <<>> <=> Elements(g) # {})
      BY <1>1, <1>2, NoElements
<1>4. CASE closed
      BY <1>1, <1>2, <1>3, <1>4 DEF w, g
<1>5. CASE ~ closed
      BY <1>1, <1>3, <1>5 DEF w
<1>6. QED BY <1>4, <1>5

LEMMA AvailableBefore ==
  ASSUME TypeInv
  PROVE  Available(queue) # <<>> <=>
           \E m \in Elements(queue) \ expired : blocked => m \in GroupMsdus
  BY AvailableElements DEF TypeInv, QueueTypes, Available, Fresh

LEMMA AvailableAfter ==
  ASSUME TypeInv'
  PROVE  Available(queue)' # <<>> <=>
           \E m \in Elements(queue') \ expired' : blocked' => m \in GroupMsdus
  BY AvailableElements DEF TypeInv, QueueTypes, Available, Fresh

LEMMA RestartScheduled ==
  ASSUME TypeInv, TypeInv', NEW STATE packet, NEW STATE q, q \in Seq(AnyMsdu),
         NEW STATE b, b \in Frames, RestartAccessIfNeeded(packet, q, b)
  PROVE  WorkIsScheduled'
<1>1. /\ current' = packet /\ (packet # Nothing => accessRequested')
      /\ ba'.retry # {} \/ queue' # <<>> => accessRequested'
      BY Restarted DEF TypeInv, QueueTypes
<1>2. Available(queue)' # <<>> => queue' # <<>>
      BY AvailableAfter DEF Elements
<1>3. QED BY <1>1, <1>2 DEF WorkIsScheduled

LEMMA SameScheduled ==
  ASSUME WorkIsScheduled,
         UNCHANGED <<exchange, current, ba, queue, expired, blocked, accessRequested>>
  PROVE  WorkIsScheduled'
  BY DEF WorkIsScheduled, Available, Fresh

LEMMA TransmitIsExchange ==
  ASSUME \/ \E b, mpdus : Transmit(b, mpdus)
         \/ \E answer : TransmitOther(answer)
  PROVE  exchange' # Idle
  BY DEF Transmit, TransmitOther, Idle

LEMMA GrantScheduled ==
  ASSUME WindowMayClose = FALSE, FramesInv, WorkIsScheduled,
         NEW fit \in Fitting, NotifyAccessGranted(fit)
  PROVE  WorkIsScheduled'
<1>1. fit # 0
      BY DEF Fitting
<1>2. CASE NothingToSend
  <2>1. /\ current' = Nothing /\ ba' = Kept /\ NextFrame = NoMsdu
        /\ UNCHANGED <<queue, expired, blocked>>
        BY <1>2 DEF NothingToSend, NothingHeld, setupVars
  <2>2. /\ Available(queue) = <<>>
        /\ blocked \/ Kept.retry \cap Elements(Kept.numbered) \subseteq expired
        BY <2>1, NextFrameFound DEF FramesInv
  <2>3. Kept.retry = {}
    <3>1. CASE agreement = "established"
      <4>1. ~ blocked
            BY <3>1 DEF FramesInv, IInv, AgreementInv
      <4>2. Kept.retry \cap expired = {}
            BY <3>1, KeptFrames DEF FramesInv, TypeInv, QueueTypes, PlacesInv, Numbered
      <4>3. ba.retry \subseteq Elements(ba.numbered)
            BY DEF FramesInv, PlacesInv, Numbered
      <4>4. Kept.retry \subseteq Elements(Kept.numbered)
            BY <4>3, KeptFrames DEF FramesInv, TypeInv, QueueTypes, GivesUp
      <4>5. QED BY <2>2, <4>1, <4>2, <4>4
    <3>2. CASE agreement # "established"
          BY <3>2, KeptBefore DEF FramesInv, NothingWaits
    <3>3. QED BY <3>1, <3>2
  <2>4. Available(queue)' = Available(queue)
        BY <2>1 DEF Available, Fresh
  <2>5. QED BY <2>1, <2>2, <2>3, <2>4 DEF WorkIsScheduled
<1>3. CASE ~ NothingToSend
  <2>1. \/ \E b, mpdus : Transmit(b, mpdus)
        \/ \E answer : TransmitOther(answer)
        BY <1>1, <1>3 DEF NotifyAccessGranted, SendHeld, SendBar, SendAddBaRequest,
           SendData, SendGroup
  <2>2. QED BY <2>1, TransmitIsExchange DEF WorkIsScheduled
<1>4. QED BY <1>2, <1>3

LEMMA ExchangeEndsScheduled ==
  ASSUME FramesInv, TypeInv', ExchangeEnds
  PROVE  WorkIsScheduled'
<1>1. TypeInv /\ ba \in Frames /\ queue \in Seq(AnyMsdu)
      BY DEF FramesInv, TypeInv, QueueTypes
<1>2. CASE CtsReceived
  <2>1. exchange' # Idle
        BY <1>1, <1>2 DEF CtsReceived, TypeInv, ExchangeTypes, Idle
  <2>2. QED BY <2>1 DEF WorkIsScheduled
<1>3. CASE NotifyMissedCts
  <2> DEFINE mpdus == Elements(exchange.mpdus)
             again == [ba EXCEPT !.retry = @ \cup (mpdus \cap Elements(ba.numbered))]
             done == Finished(NotifyDiscardedMpdu(ba, mpdus), mpdus)
  <2>1. again \in Frames /\ done \in Frames
        BY <1>1, BackInQueue, GivenUp
  <2>2. \/ RestartAccessIfNeeded(Nothing, queue, again)
        \/ RestartAccessIfNeeded(current, queue, ba)
        \/ RestartAccessIfNeeded(Nothing, queue, done)
        BY <1>3 DEF NotifyMissedCts
  <2> HIDE DEF again, done
  <2>3. QED BY <1>1, <2>1, <2>2, RestartScheduled
<1>4. CASE GotAck
      BY <1>1, <1>4, FinishedFrames, RestartScheduled DEF GotAck
<1>5. CASE MissedAck
  <2> DEFINE b == [ba EXCEPT !.outstanding = @ \ {current.msdu},
                     !.retry = @ \cup ({current.msdu} \cap Elements(ba.numbered))]
             done == Finished(NotifyDiscardedMpdu(ba, {current.msdu}), {current.msdu})
  <2>1. b \in Frames /\ done \in Frames
        BY <1>1, NotAcknowledged, GivenUp
  <2>2. \/ RestartAccessIfNeeded(Nothing, queue, b)
        \/ RestartAccessIfNeeded(current, queue, ba)
        \/ RestartAccessIfNeeded(Nothing, queue, done)
        BY <1>5 DEF MissedAck, RetransmitLater, GiveUp
  <2> HIDE DEF b, done
  <2>3. QED BY <1>1, <2>1, <2>2, RestartScheduled
<1>6. ASSUME NEW received, GotBlockAck(received) PROVE WorkIsScheduled'
  <2> DEFINE b == [ba EXCEPT !.retry = @ \cup ba.outstanding, !.outstanding = {}]
  <2>1. b \in Frames
        BY <1>1, AllToBeSentAgain
  <2>2. RestartAccessIfNeeded(Nothing, queue, Finished(b, received))
        BY <1>6 DEF GotBlockAck
  <2> HIDE DEF b
  <2>3. QED BY <1>1, <2>1, <2>2, FinishedFrames, RestartScheduled
<1>7. CASE MissedBlockAck
  <2>1. /\ [ba EXCEPT !.bar = "bar"] \in Frames /\ [ba EXCEPT !.bar = "skip"] \in Frames
        /\ NotifyDiscardedMpdu(ba, ba.outstanding) \in Frames
        BY <1>1, BarScheduled, DiscardedFrames DEF Reduces
  <2>2. \/ RestartAccessIfNeeded(current, queue, ba)
        \/ RestartAccessIfNeeded(Nothing, queue, [ba EXCEPT !.bar = "bar"])
        \/ RestartAccessIfNeeded(Nothing, queue, NotifyDiscardedMpdu(ba, ba.outstanding))
        \/ RestartAccessIfNeeded(Nothing, queue, [ba EXCEPT !.bar = "skip"])
        BY <1>7 DEF MissedBlockAck
  <2>3. QED BY <1>1, <2>1, <2>2, RestartScheduled
<1>8. CASE EndTxNoAck
      BY <1>1, <1>8, RestartScheduled DEF EndTxNoAck
<1>9. QED BY <1>2, <1>3, <1>4, <1>5, <1>6, <1>7, <1>8 DEF ExchangeEnds

LEMMA SetupScheduled ==
  ASSUME FramesInv, TypeInv', WorkIsScheduled, Setup
  PROVE  WorkIsScheduled'
<1>1. TypeInv /\ ba \in Frames /\ queue \in Seq(AnyMsdu)
      BY DEF FramesInv, TypeInv, QueueTypes
<1>2. CASE AddBaResponseTimeout
      BY <1>1, <1>2, RestartScheduled, SameScheduled DEF AddBaResponseTimeout
<1>3. CASE ResetBa \/ ResponseIsLost
      BY <1>3, SameScheduled DEF ResetBa, ResponseIsLost
<1>4. CASE GotAddBaResponse
  <2> DEFINE b == [ba EXCEPT !.retry = @ \cup {current.msdu}]
  <2>1. CASE current.kind = "data"
    <3> DEFINE done == Finished(NotifyDiscardedMpdu(ba, {current.msdu}), {current.msdu})
    <3>1. b \in Frames /\ done \in Frames
          BY <1>1, <2>1, OneLeft, GivenUp DEF TypeInv, QueueTypes
    <3>2. RestartAccessIfNeeded(Nothing, queue, b) \/ RestartAccessIfNeeded(Nothing, queue, done)
          BY <1>4, <2>1 DEF GotAddBaResponse
    <3> HIDE DEF b, done
    <3>3. QED BY <1>1, <3>1, <3>2, RestartScheduled
  <2>2. CASE current.kind # "data"
        BY <1>1, <1>4, <2>2, RestartScheduled DEF GotAddBaResponse
  <2>3. QED BY <2>1, <2>2
<1>5. QED BY <1>2, <1>3, <1>4 DEF Setup

LEMMA ScheduledStep ==
  ASSUME WindowMayClose = FALSE
  PROVE  FramesInv /\ TypeInv' /\ WorkIsScheduled /\ [Next]_vars => WorkIsScheduled'
<1> SUFFICES ASSUME FramesInv, TypeInv', WorkIsScheduled, [Next]_vars
             PROVE  WorkIsScheduled'
  OBVIOUS
<1>1. TypeInv /\ ba \in Frames /\ accessRequested \in BOOLEAN
      BY DEF FramesInv, TypeInv, QueueTypes
<1>2. CASE Arrival
  <2>1. UNCHANGED exchange /\ \E q : StartAccessIfNeeded(q)
        BY <1>2 DEF Arrival, Queue, QueueOverflow
  <2>2. PICK q : StartAccessIfNeeded(q)
        BY <2>1
  <2>3. /\ UNCHANGED current /\ queue' = q /\ (accessRequested => accessRequested')
        /\ current = Nothing /\ (ba'.retry # {} \/ q # <<>>) => accessRequested'
        BY <1>1, <2>2, Started
  <2>4. Available(queue)' # <<>> => queue' # <<>>
        BY AvailableAfter DEF Elements
  <2>5. QED BY <2>1, <2>3, <2>4 DEF WorkIsScheduled
<1>3. ASSUME NEW m \in AnyMsdu, Expire(m) PROVE WorkIsScheduled'
  <2>1. /\ UNCHANGED <<exchange, current, ba, queue, blocked, accessRequested>>
        /\ expired \subseteq expired'
        BY <1>3 DEF Expire, setupVars
  <2>2. Available(queue)' # <<>> => Available(queue) # <<>>
        BY <1>1, <2>1, AvailableBefore, AvailableAfter
  <2>3. QED BY <2>1, <2>2 DEF WorkIsScheduled
<1>4. ASSUME NEW fit \in Fitting, NotifyAccessGranted(fit) PROVE WorkIsScheduled'
      BY <1>4, GrantScheduled
<1>5. CASE ExchangeEnds
      BY <1>5, ExchangeEndsScheduled
<1>6. CASE Setup
      BY <1>6, SetupScheduled
<1>7. CASE NotifyInternalCollision
  <2>1. Finished(ba, {current.msdu}) \in Frames /\ queue \in Seq(AnyMsdu)
        BY <1>1, FinishedFrames DEF TypeInv, QueueTypes
  <2>2. QED BY <1>1, <1>7, <2>1, CollisionCases, TailOfFresh, RestartScheduled
<1>8. CASE UNCHANGED vars
      BY <1>8, SameScheduled DEF vars, setupVars
<1>9. QED BY <1>2, <1>3, <1>4, <1>5, <1>6, <1>7, <1>8 DEF Next

(* Where the transmission window of the program is not in use, the MAC that*)
(* does nothing although it could has asked for access: no handler that    *)
(* ends an exchange, settles a request or takes a packet forgets it, and   *)
(* neither does an internal collision.  (With the window it does: what did *)
(* not fit is left without a request.)                                     *)
THEOREM WorkScheduled ==
  ASSUME WindowMayClose = FALSE, ResponsesOverlap = FALSE
  PROVE  Spec => []WorkIsScheduled
<1>1. Init => WorkIsScheduled
  <2> SUFFICES ASSUME Init PROVE WorkIsScheduled
    OBVIOUS
  <2>1. TypeInv /\ Elements(queue) = {} /\ current = Nothing /\ ba.retry = {}
        BY TypeInit DEF Init, NoFrames, Elements
  <2>2. QED BY <2>1, AvailableBefore DEF WorkIsScheduled
<1>2. FramesInv /\ WorkIsScheduled /\ [Next]_vars => WorkIsScheduled'
      BY ScheduledStep, TypeStep DEF FramesInv
<1>3. QED BY <1>1, <1>2, FramesInvariant, PTL DEF Spec

-----------------------------------------------------------------------------
(* Somebody asks about the frames that are outstanding.                    *)

LEMMA CoveredRestart ==
  ASSUME TypeInv, exchange' = Idle, NEW STATE packet, NEW STATE b, b \in Frames,
         NEW STATE q, q \in Seq(AnyMsdu), RestartAccessIfNeeded(packet, q, b),
         b.outstanding # {} => b.bar = "bar" \/ packet.kind = "bar"
  PROVE  CoveredInv'
<1>1. /\ current' = packet /\ Reduces(b, ba')
      BY Restarted DEF TypeInv, QueueTypes
<1>2. ba'.outstanding \subseteq b.outstanding
      BY <1>1 DEF Reduces, GivesUp
<1>3. b.bar = "bar" => ba'.bar = "bar"
      BY <1>1 DEF Reduces
<1>4. QED BY <1>1, <1>2, <1>3 DEF CoveredInv, Idle

LEMMA NothingIsOut ==
  ASSUME ba'.outstanding = {}, exchange'.phase # "rts"
  PROVE  CoveredInv'
  BY DEF CoveredInv

LEMMA CoveredIdle ==
  ASSUME CoveredInv, exchange = Idle, ba.outstanding # {}
  PROVE  ba.bar = "bar" \/ current.kind = "bar"
  BY DEF CoveredInv, Idle

(* A grant that finds no packet and no BAR finds no outstanding frame.     *)
LEMMA NothingHeldNothingOut ==
  ASSUME FramesInv, CoveredInv, NothingHeld
  PROVE  Kept.outstanding = {}
<1>1. /\ exchange = Idle /\ Held = Nothing /\ ~ BarReady(Kept, Fresh(queue))
      BY DEF NothingHeld, Granted
<1>2. current.kind # "bar"
      BY <1>1, HeldPacket DEF Nothing
<1>3. /\ \E gone : GivesUp(ba, Kept, gone)
      /\ Kept.bar = ba.bar \/ Kept.bar = "bar"
      BY KeptFrames DEF FramesInv, TypeInv, QueueTypes
<1>4. Kept.bar # "bar"
      BY <1>1 DEF BarReady
<1>5. ba.outstanding = {}
      BY <1>1, <1>2, <1>3, <1>4, CoveredIdle
<1>6. QED BY <1>3, <1>5 DEF GivesUp

LEMMA SendDataCovered ==
  ASSUME FramesInv, CoveredInv, NEW fit \in Fitting, SendData(fit), fit # 0
  PROVE  CoveredInv'
<1> DEFINE b == WithNumbers(fit)
           mpdus == Ampdu(fit)
           answer == AnswerTo(b, mpdus)
<1>1. NextFrame \in Msdus /\ NothingHeld /\ UNCHANGED agreement /\ TypeInv
      BY DEF SendData, setupVars, FramesInv
<1>2. b \in Frames /\ b.outstanding = {}
      BY <1>1, NothingHeldNothingOut, NumberedFrames
<1>3. /\ current'.msdu = mpdus[1] /\ Transmit(b, mpdus)
      BY SendDataCases DEF Packet
<1>4. /\ Len(mpdus) > 0 /\ Len(mpdus) \in Nat
      /\ Len(mpdus) = 1 => Elements(mpdus) = {mpdus[1]}
      BY <1>1, AmpduElements, LenProperties
<1>5. /\ answer \in {"ack", "blockAck", "none"}
      /\ agreement = "established" /\ answer = "ack" => Len(mpdus) = 1
      BY <1>4, Answers DEF AnswerTo
<1> HIDE DEF b, mpdus, answer
<1>6. CASE exchange' = [phase |-> "rts", answer |-> answer, mpdus |-> mpdus] /\ ba' = b
      BY <1>1, <1>2, <1>3, <1>4, <1>5, <1>6 DEF CoveredInv
<1>7. CASE /\ exchange' = [phase |-> "sent", answer |-> answer, mpdus |-> mpdus]
           /\ ba' = Sent(b, answer, mpdus)
  <2>1. exchange'.phase = "sent" /\ exchange'.answer = answer
        BY <1>7
  <2>2. CASE agreement = "established"
    <3>1. /\ ba'.outstanding \subseteq Elements(mpdus)
          /\ answer = "none" => ba'.bar = "bar"
          BY <1>2, <1>7, <2>2, SentFrames
    <3>2. QED BY <1>3, <1>4, <1>5, <2>1, <2>2, <3>1 DEF CoveredInv
  <2>3. CASE agreement # "established"
    <3>1. ba'.outstanding = {}
          BY <1>2, <1>7, <2>3, SentFrames
    <3>2. QED BY <2>1, <3>1, NothingIsOut
  <2>4. QED BY <2>2, <2>3
<1>8. QED BY <1>3, <1>6, <1>7 DEF Transmit, answer

LEMMA GrantCovered ==
  ASSUME FramesInv, CoveredInv, NEW fit \in Fitting, NotifyAccessGranted(fit)
  PROVE  CoveredInv'
<1>1. TypeInv /\ ba \in Frames /\ IInv /\ BeforeInv
      BY DEF FramesInv, TypeInv, QueueTypes
<1>2. /\ \E gone : GivesUp(ba, Kept, gone)
      /\ Kept.bar = ba.bar \/ Kept.bar = "bar"
      BY <1>1, KeptFrames
<1>3. ASSUME ba' = Kept, NothingHeld,
             UNCHANGED exchange \/ \E answer : TransmitOther(answer)
      PROVE  CoveredInv'
  <2>1. ba'.outstanding = {}
        BY <1>3, NothingHeldNothingOut
  <2>2. exchange = Idle
        BY <1>3 DEF NothingHeld, Granted
  <2>3. exchange'.phase # "rts"
        BY <1>3, <2>2 DEF TransmitOther, Idle
  <2>4. QED BY <2>1, <2>3, NothingIsOut
<1>4. CASE SendHeld(fit)
  <2>1. exchange = Idle /\ current' = current /\ Held = current /\ UNCHANGED agreement
        BY <1>4, HeldPacket DEF SendHeld, Granted, setupVars
  <2>2. Kept.outstanding # {} => Kept.bar = "bar" \/ current.kind = "bar"
        BY <1>2, <2>1, CoveredIdle DEF GivesUp
  <2>3. CASE Held.kind = "data" /\ Transmit(Kept, <<Held.msdu>>)
    <3>1. agreement # "established"
          BY <1>1, <2>1, <2>3 DEF IInv, HeldInv
    <3>2. Kept.outstanding = {} /\ ba' = Kept
          BY <1>1, <2>3, <3>1, KeptBefore, SentFrames, KeptFrames DEF NothingWaits, Transmit
    <3>3. QED BY <2>1, <3>1, <3>2 DEF CoveredInv
  <2>4. CASE ba' = Kept /\ (UNCHANGED exchange \/ \E answer : TransmitOther(answer))
    <3>1. exchange'.phase # "rts"
          BY <2>1, <2>4 DEF TransmitOther, Idle
    <3>2. QED BY <2>1, <2>2, <2>4, <3>1 DEF CoveredInv
  <2>5. QED BY <1>4, <2>3, <2>4 DEF SendHeld
<1>5. CASE SendBar
      BY <1>5 DEF SendBar, Packet, TransmitOther, CoveredInv
<1>6. CASE NothingToSend
      BY <1>3, <1>6 DEF NothingToSend
<1>7. CASE SendAddBaRequest
      BY <1>3, <1>7 DEF SendAddBaRequest
<1>8. CASE SendData(fit)
      BY <1>3, <1>8, SendDataCovered DEF SendData
<1>9. CASE SendGroup(fit)
      BY <1>3, <1>9 DEF SendGroup
<1>10. QED BY <1>4, <1>5, <1>6, <1>7, <1>8, <1>9 DEF NotifyAccessGranted

LEMMA CtsReceivedCovered ==
  ASSUME FramesInv, CoveredInv, CtsReceived
  PROVE  CoveredInv'
<1>1. /\ ba' = Sent(ba, exchange.answer, exchange.mpdus) /\ exchange.phase = "rts"
      /\ UNCHANGED <<current, agreement>> /\ ba \in Frames
      BY DEF CtsReceived, setupVars, FramesInv, TypeInv, QueueTypes
<1>2. exchange'.phase = "sent" /\ exchange'.answer = exchange.answer
      BY DEF CtsReceived, FramesInv, TypeInv, ExchangeTypes
<1>3. exchange.answer \in {"none", "ack", "blockAck"}
      BY DEF FramesInv, TypeInv, ExchangeTypes
<1>4. CASE agreement = "established"
  <2>1. ba.outstanding = {} /\ (exchange.answer = "ack" => Elements(exchange.mpdus) = {current.msdu})
        BY <1>1, <1>4 DEF CoveredInv
  <2>2. /\ ba'.outstanding \subseteq Elements(exchange.mpdus)
        /\ exchange.answer = "none" => ba'.bar = "bar"
        BY <1>1, <1>4, <2>1, SentFrames
  <2>3. QED BY <1>1, <1>2, <1>3, <2>1, <2>2 DEF CoveredInv
<1>5. CASE agreement # "established"
  <2>1. ba'.outstanding = {}
        BY <1>1, <1>5 DEF Sent, FramesInv, BeforeInv
  <2>2. QED BY <1>2, <2>1, NothingIsOut
<1>6. QED BY <1>4, <1>5

LEMMA NotifyMissedCtsCovered ==
  ASSUME FramesInv, CoveredInv, NotifyMissedCts
  PROVE  CoveredInv'
<1> DEFINE mpdus == Elements(exchange.mpdus)
           again == [ba EXCEPT !.retry = @ \cup (mpdus \cap Elements(ba.numbered))]
           done == Finished(NotifyDiscardedMpdu(ba, mpdus), mpdus)
<1>1. TypeInv /\ ba \in Frames /\ queue \in Seq(AnyMsdu) /\ exchange' = Idle
      BY DEF FramesInv, TypeInv, QueueTypes, NotifyMissedCts
<1>2. ba.outstanding = {}
      BY DEF NotifyMissedCts, CoveredInv, FramesInv, BeforeInv
<1>3. again \in Frames /\ again.outstanding = {}
      BY <1>1, <1>2, BackInQueue
<1>4. done \in Frames /\ done.outstanding = {}
      BY <1>1, <1>2, GivenUp DEF GivesUp
<1>5. \/ RestartAccessIfNeeded(Nothing, queue, again)
      \/ RestartAccessIfNeeded(current, queue, ba)
      \/ RestartAccessIfNeeded(Nothing, queue, done)
      BY DEF NotifyMissedCts
<1> HIDE DEF again, done
<1>6. QED BY <1>1, <1>2, <1>3, <1>4, <1>5, CoveredRestart

(* An Ack, or none, settles the only frame that was outstanding.           *)
LEMMA AckCovers ==
  ASSUME FramesInv, CoveredInv, Awaiting("sent", "ack"), current # Nothing
  PROVE  /\ ba.outstanding \subseteq {current.msdu} \/ ba.bar = "bar"
         /\ current.kind # "data" => ba.outstanding = {} \/ ba.bar = "bar"
<1>1. current.kind \in {"data", "addBa"}
      BY DEF Awaiting, FramesInv, IInv, ExchangeInv, TakenAway
<1>2. ba.outstanding \subseteq {current.msdu} \/ ba.bar = "bar"
      BY <1>1 DEF Awaiting, CoveredInv
<1>3. current.kind # "data" => current.msdu \notin Msdus
      BY <1>1, Constants DEF FramesInv, TypeInv, QueueTypes
<1>4. ba.outstanding \subseteq Msdus
      BY DEF FramesInv, TypeInv, QueueTypes, Frames
<1>5. QED BY <1>2, <1>3, <1>4

LEMMA MissedAckCovered ==
  ASSUME FramesInv, CoveredInv, MissedAck
  PROVE  CoveredInv'
<1> DEFINE b == [ba EXCEPT !.outstanding = @ \ {current.msdu},
                   !.retry = @ \cup ({current.msdu} \cap Elements(ba.numbered))]
           done == Finished(NotifyDiscardedMpdu(ba, {current.msdu}), {current.msdu})
<1>1. TypeInv /\ ba \in Frames /\ queue \in Seq(AnyMsdu) /\ exchange' = Idle
      BY DEF FramesInv, TypeInv, QueueTypes, MissedAck
<1>2. /\ ba.outstanding \subseteq {current.msdu} \/ ba.bar = "bar"
      /\ current.kind # "data" => ba.outstanding = {} \/ ba.bar = "bar"
      BY AckCovers DEF MissedAck
<1>3. b \in Frames /\ b.outstanding = ba.outstanding \ {current.msdu} /\ b.bar = ba.bar
      BY <1>1, NotAcknowledged
<1>4. /\ done \in Frames
      /\ done.bar = ba.bar \/ done.bar = "bar"
      BY <1>1, GivenUp
<1>5. done.outstanding \subseteq ba.outstanding \ {current.msdu}
      BY <1>1, GivenUp DEF GivesUp
<1>6. \/ RestartAccessIfNeeded(Nothing, queue, b)
      \/ /\ ~ (current.kind = "data" /\ agreement = "established")
         /\ RestartAccessIfNeeded(current, queue, ba)
      \/ RestartAccessIfNeeded(Nothing, queue, done)
      BY DEF MissedAck, RetransmitLater, GiveUp
<1> HIDE DEF b, done
<1>7. CASE RestartAccessIfNeeded(Nothing, queue, b)
      BY <1>1, <1>2, <1>3, <1>7, CoveredRestart
<1>8. CASE /\ ~ (current.kind = "data" /\ agreement = "established")
           /\ RestartAccessIfNeeded(current, queue, ba)
  <2>1. ba.outstanding = {} \/ ba.bar = "bar"
        BY <1>2, <1>8 DEF FramesInv, BeforeInv
  <2>2. QED BY <1>1, <1>8, <2>1, CoveredRestart
<1>9. CASE RestartAccessIfNeeded(Nothing, queue, done)
      BY <1>1, <1>2, <1>4, <1>5, <1>9, CoveredRestart
<1>10. QED BY <1>6, <1>7, <1>8, <1>9

LEMMA MissedBlockAckCovered ==
  ASSUME FramesInv, CoveredInv, MissedBlockAck
  PROVE  CoveredInv'
<1>1. TypeInv /\ ba \in Frames /\ queue \in Seq(AnyMsdu) /\ exchange' = Idle
      BY DEF FramesInv, TypeInv, QueueTypes, MissedBlockAck
<1>2. agreement = "established"
      BY DEF MissedBlockAck, Awaiting, FramesInv, BeforeInv
<1>3. CASE current.kind = "bar" /\ RestartAccessIfNeeded(current, queue, ba)
      BY <1>1, <1>3, CoveredRestart
<1>4. CASE RestartAccessIfNeeded(Nothing, queue, [ba EXCEPT !.bar = "bar"])
  <2>1. [ba EXCEPT !.bar = "bar"] \in Frames /\ [ba EXCEPT !.bar = "bar"].bar = "bar"
        BY <1>1, BarScheduled
  <2>2. QED BY <1>1, <1>4, <2>1, CoveredRestart
<1>5. CASE /\ ba.outstanding # {}
           /\ RestartAccessIfNeeded(Nothing, queue, NotifyDiscardedMpdu(ba, ba.outstanding))
  <2>1. ba.outstanding \cap Elements(ba.numbered) # {}
        BY <1>5 DEF FramesInv, PlacesInv, Numbered
  <2>2. /\ NotifyDiscardedMpdu(ba, ba.outstanding) \in Frames
        /\ NotifyDiscardedMpdu(ba, ba.outstanding).bar = "bar"
        BY <1>1, <1>2, <2>1, DiscardedFrames DEF Reduces
  <2>3. QED BY <1>1, <1>5, <2>2, CoveredRestart
<1>6. CASE /\ ba.outstanding = {}
           /\ RestartAccessIfNeeded(Nothing, queue, [ba EXCEPT !.bar = "skip"])
  <2>1. /\ [ba EXCEPT !.bar = "skip"] \in Frames
        /\ [ba EXCEPT !.bar = "skip"].outstanding = {}
        BY <1>1, <1>6, BarScheduled
  <2>2. QED BY <1>1, <1>6, <2>1, CoveredRestart
<1>7. QED BY <1>3, <1>4, <1>5, <1>6 DEF MissedBlockAck

LEMMA ExchangeEndsCovered ==
  ASSUME FramesInv, CoveredInv, ExchangeEnds
  PROVE  CoveredInv'
<1>1. TypeInv /\ ba \in Frames /\ queue \in Seq(AnyMsdu)
      BY DEF FramesInv, TypeInv, QueueTypes
<1>2. CASE GotAck
  <2>1. exchange' = Idle /\ RestartAccessIfNeeded(Nothing, queue, Finished(ba, {current.msdu}))
        BY <1>2 DEF GotAck
  <2>2. ba.outstanding \subseteq {current.msdu} \/ ba.bar = "bar"
        BY <1>2, AckCovers DEF GotAck
  <2>3. /\ Finished(ba, {current.msdu}) \in Frames
        /\ Finished(ba, {current.msdu}).outstanding = ba.outstanding \ {current.msdu}
        /\ Finished(ba, {current.msdu}).bar = ba.bar
        BY <1>1, FinishedFrames DEF GivesUp
  <2>4. QED BY <1>1, <2>1, <2>2, <2>3, CoveredRestart
<1>3. ASSUME NEW received, GotBlockAck(received) PROVE CoveredInv'
  <2> DEFINE b == [ba EXCEPT !.retry = @ \cup ba.outstanding, !.outstanding = {}]
  <2>1. b \in Frames /\ b.outstanding = {}
        BY <1>1, AllToBeSentAgain
  <2>2. exchange' = Idle /\ RestartAccessIfNeeded(Nothing, queue, Finished(b, received))
        BY <1>3 DEF GotBlockAck
  <2> HIDE DEF b
  <2>3. Finished(b, received) \in Frames /\ Finished(b, received).outstanding = {}
        BY <2>1, FinishedFrames DEF GivesUp
  <2>4. QED BY <1>1, <2>2, <2>3, CoveredRestart
<1>4. CASE EndTxNoAck
  <2>1. /\ exchange' = Idle /\ RestartAccessIfNeeded(Nothing, queue, ba)
        /\ exchange.phase = "sent" /\ exchange.answer = "none"
        BY <1>4 DEF EndTxNoAck, Awaiting
  <2>2. current.kind \in {"data", "group"}
        BY <2>1 DEF FramesInv, IInv, ExchangeInv
  <2>3. ba.outstanding # {} => ba.bar = "bar"
        BY <2>1, <2>2 DEF CoveredInv
  <2>4. QED BY <1>1, <2>1, <2>3, CoveredRestart
<1>5. QED BY <1>2, <1>3, <1>4, CtsReceivedCovered, NotifyMissedCtsCovered, MissedAckCovered,
             MissedBlockAckCovered DEF ExchangeEnds

LEMMA SameCovered ==
  ASSUME CoveredInv, UNCHANGED <<exchange, current>>,
         agreement' = "established" => agreement = "established",
         ba'.outstanding \subseteq ba.outstanding, ba'.bar = ba.bar \/ ba'.bar = "bar"
  PROVE  CoveredInv'
  BY DEF CoveredInv

LEMMA CoveredStep ==
  ASSUME FramesInv, FramesInv', CoveredInv, [Next]_vars,
         InternalCollisions = FALSE, ResponsesOverlap = FALSE
  PROVE  CoveredInv'
<1>1. TypeInv /\ ba \in Frames /\ queue \in Seq(AnyMsdu)
      BY DEF FramesInv, TypeInv, QueueTypes
<1>2. CASE Arrival
  <2>1. UNCHANGED <<exchange, agreement>> /\ \E q : StartAccessIfNeeded(q)
        BY <1>2 DEF Arrival, Queue, QueueOverflow, setupVars
  <2>2. UNCHANGED current /\ Reduces(ba, ba')
        BY <1>1, <2>1, Started DEF TypeInv, QueueTypes
  <2>3. ba'.outstanding \subseteq ba.outstanding /\ (ba'.bar = ba.bar \/ ba'.bar = "bar")
        BY <2>2 DEF Reduces, GivesUp
  <2>4. QED BY <2>1, <2>2, <2>3, SameCovered
<1>3. ASSUME NEW m \in AnyMsdu, Expire(m) PROVE CoveredInv'
      BY <1>3, SameCovered DEF Expire, setupVars
<1>4. ASSUME NEW fit \in Fitting, NotifyAccessGranted(fit) PROVE CoveredInv'
      BY <1>4, GrantCovered
<1>5. CASE ExchangeEnds
      BY <1>5, ExchangeEndsCovered
<1>6. CASE AddBaResponseTimeout
  <2>1. CASE agreement = "pending"
    <3>1. agreement' = "no_reply"
          BY <1>6, <2>1 DEF AddBaResponseTimeout, NotifyAgreementNoReply
    <3>2. QED BY <3>1 DEF FramesInv, BeforeInv, CoveredInv
  <2>2. CASE agreement # "pending"
        BY <1>6, <2>2, SameCovered DEF AddBaResponseTimeout
  <2>3. QED BY <2>1, <2>2
<1>7. CASE ResetBa
      BY <1>7, SameCovered DEF ResetBa
<1>8. CASE GotAddBaResponse
  <2>1. exchange = Idle /\ exchange' = Idle
        BY <1>8 DEF GotAddBaResponse, MayHear
  <2> DEFINE b == [ba EXCEPT !.retry = @ \cup {current.msdu}]
  <2>2. CASE current.kind = "data"
    <3>1. ba.outstanding = {} /\ current.msdu \in Msdus
          BY <2>1, <2>2 DEF FramesInv, IInv, HeldInv, BeforeInv, TypeInv, QueueTypes
    <3>2. b \in Frames /\ b.outstanding = {}
          BY <1>1, <3>1, OneLeft
    <3> DEFINE done == Finished(NotifyDiscardedMpdu(ba, {current.msdu}), {current.msdu})
    <3>3. done \in Frames /\ done.outstanding = {}
          BY <1>1, <3>1, GivenUp DEF GivesUp
    <3>4. RestartAccessIfNeeded(Nothing, queue, b) \/ RestartAccessIfNeeded(Nothing, queue, done)
          BY <1>8, <2>2 DEF GotAddBaResponse
    <3> HIDE DEF b, done
    <3>5. QED BY <1>1, <2>1, <3>2, <3>3, <3>4, CoveredRestart
  <2>3. CASE current.kind # "data"
    <3>1. RestartAccessIfNeeded(current, queue, ba)
          BY <1>8, <2>3 DEF GotAddBaResponse
    <3>2. QED BY <1>1, <2>1, <3>1, CoveredIdle, CoveredRestart
  <2>4. QED BY <2>2, <2>3
<1>9. CASE ResponseIsLost
      BY <1>9, SameCovered DEF ResponseIsLost
<1>10. CASE NotifyInternalCollision
       BY <1>10 DEF NotifyInternalCollision
<1>11. CASE UNCHANGED vars
       BY <1>11, SameCovered DEF vars, setupVars
<1>12. QED BY <1>2, <1>3, <1>4, <1>5, <1>6, <1>7, <1>8, <1>9, <1>10, <1>11 DEF Next, Setup

(* Where the device has no other EDCA function in use, the recipient will  *)
(* be asked about every frame that is outstanding: no retry, no expiry and *)
(* no lost answer leaves one without a BAR scheduled or being sent.  (An   *)
(* internal collision may discard the BAR.)                                *)
THEOREM OutstandingCovered ==
  ASSUME InternalCollisions = FALSE, ResponsesOverlap = FALSE
  PROVE  Spec => []OutstandingIsCovered
<1>1. Init => CoveredInv
      BY DEF Init, NoFrames, Idle, CoveredInv
<1>2. FramesInv /\ FramesInv' /\ CoveredInv /\ [Next]_vars => CoveredInv'
      BY CoveredStep
<1>3. CoveredInv => OutstandingIsCovered
      BY CoveredIdle DEF OutstandingIsCovered
<1>4. QED BY <1>1, <1>2, <1>3, FramesInvariant, PTL DEF Spec

=============================================================================
