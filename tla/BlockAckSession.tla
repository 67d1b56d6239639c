--------------------------- MODULE BlockAckSession ---------------------------
(***************************************************************************)
(* The two ends of an established block ack agreement for one TID: the     *)
(* originator's transmit window with the frames it keeps (BlockAckManager, *)
(* OriginatorBlockAckAgreement), and the recipient's reorder buffer and    *)
(* score of received frames (MacLow, BlockAckCache).  Both windows are kept*)
(* in sequence numbers modulo SeqSpace, of which one half is old.          *)
(*                                                                         *)
(* An MSDU is named by its place in the queue, and gets that place modulo  *)
(* SeqSpace for its sequence number; the program sees the number only.     *)
(* One frame exchange runs at a time, and its answer comes before anything *)
(* else is sent.  Frames and answers may be lost.  How long an originator  *)
(* tries is not counted: any missed Ack may be the last one.               *)
(*                                                                         *)
(* Definitions whose comment starts with "Deliberately wrong" are no part  *)
(* of the model: each replaces a definition of it to test a property.      *)
(***************************************************************************)
EXTENDS Integers, Sequences, FiniteSets, FiniteSetsExt, SequencesExt

CONSTANTS
  SeqSpace,   \* 4096 in the program
  WinSize,    \* buffer size of the agreement: 64 or 256
  Thresholds, \* values of BaThreshold times WinSize, rounded up
  ExplicitBar, \* values of UseExplicitBar
  MaxMsdus,   \* bound: MSDUs that arrive in one behaviour
  MaxQueued   \* bound: MSDUs waiting without a number

ASSUME SessionConstants ==
  /\ SeqSpace \in Nat /\ SeqSpace % 2 = 0
  /\ WinSize \in Nat \ {0} /\ 4 * WinSize < SeqSpace
  /\ Thresholds \subseteq 0 .. WinSize /\ ExplicitBar \subseteq BOOLEAN
  /\ MaxMsdus \in Nat /\ MaxQueued \in Nat \ {0}

Half == SeqSpace \div 2
Seqs == 0 .. SeqSpace - 1
Ids == 0 .. MaxMsdus - 1
NumberOf(m) == m % SeqSpace

VARIABLES
  arrived,      \* MSDUs that have come; those from numbered on are in m_queue
  numbered,     \* MSDUs that have a number: the counter of MacTxMiddle
  expired,      \* frames the originator keeps past their m_maxDelay
  orig,         \* the originator: window, outstanding and retry frames, BAR
  heldBar,      \* a BAR is m_currentPacket after it was not answered
  exchange,     \* the frame exchange
  rcpt          \* the recipient: reorder window and buffer, BlockAckCache,
                \* and the latest that m_rxCallback has been given

vars == <<arrived, numbered, expired, orig, heldBar, exchange, rcpt>>

NoSeq == -1
NoBar == [kind |-> "none", start |-> NoSeq]
NoReply == [sort |-> "none", start |-> NoSeq, received |-> {}]
Idle == [phase |-> "idle", sort |-> "none", mpdus |-> <<>>, start |-> NoSeq, reply |-> NoReply]

(* QosUtilsIsOldPacket, IsInWindow and GetDistance.                        *)
Dist(start, s) == (s - start) % SeqSpace
IsOld(start, s) == Dist(start, s) >= Half
InWindow(s, start) == Dist(start, s) < WinSize
Span(start, count) == {(start + i) % SeqSpace : i \in 0 .. count - 1}

IsExpired(m) == m \in expired

(* F(v), with v computed once: what follows is a chain of updates, and TLC *)
(* computes an argument each time it is used when it looks for what is     *)
(* enabled.                                                                *)
Then(v, F(_)) == LET results == {F(x) : x \in {v}} IN CHOOSE y \in results : TRUE

(* Op, on v and each element of the list s in turn.                        *)
InTurn(Op(_, _), v, s) ==
  LET upTo[i \in 0 .. Len(s)] ==
        IF i = 0 THEN v ELSE Then(upTo[i - 1], LAMBDA x : Op(x, s[i]))
  IN  upTo[Len(s)]

BySeq(start, set) ==
  CHOOSE s \in [1 .. Cardinality(set) -> set] : \A i, j \in 1 .. Cardinality(set) :
    i < j => Dist(start, NumberOf(s[i])) < Dist(start, NumberOf(s[j]))

-----------------------------------------------------------------------------
(* The originator's transmit window.                                       *)

(* BlockAckWindow::Advance, then OriginatorBlockAckAgreement's             *)
(* AdvanceTxWindow: past what is acknowledged at its head.                 *)
Moved(o, count) ==
  LET start == (o.start + count) % SeqSpace
      acked == o.acked \ Span(o.start, count)
      run   == Min({i \in 0 .. WinSize : (start + i) % SeqSpace \notin acked})
  IN  [o EXCEPT !.start = (start + run) % SeqSpace,
                !.acked = acked \ Span(start, run)]

DistanceOf(o, m) == Dist(o.start, NumberOf(m))
Stale(o, m) == IsOld(o.start, NumberOf(m))

NotifyAckedMpdu(o, m) ==
  IF Stale(o, m) THEN o ELSE Moved([o EXCEPT !.acked = @ \cup {NumberOf(m)}], 0)

(* StorePacket, with NotifyTransmittedMpdu.                                *)
StorePacket(o, m) ==
  IF Stale(o, m) \/ m \in o.outstanding THEN o
  ELSE Moved([o EXCEPT !.outstanding = @ \cup {m}],
             Max({0, DistanceOf(o, m) - WinSize + 1}))

Stored(o, mpdus) == InTurn(StorePacket, o, mpdus)

InsertInRetryQueue(o, m) ==
  IF Stale(o, m) THEN o ELSE [o EXCEPT !.retry = @ \cup {m}]

(* Deliberately wrong: the recipient is not told.                          *)
DiscardedWithoutBar(o, m) ==
  LET upTo(n) == DistanceOf(o, n) =< DistanceOf(o, m)
  IN  IF Stale(o, m) THEN o
      ELSE Moved([o EXCEPT !.retry = {n \in @ : ~ upTo(n) \/ IsExpired(n)},
                           !.outstanding = {n \in @ : ~ upTo(n)}],
                 DistanceOf(o, m) + 1)

(* The frame is given up with every frame before it (RemoveOldPackets); the*)
(* window moves past it and a BAR will tell the recipient.  What has       *)
(* expired in the retransmit queue is not seen there.                      *)
NotifyDiscardedMpdu(o, m) ==
  LET upTo(n) == DistanceOf(o, n) =< DistanceOf(o, m)
      next == Moved([o EXCEPT !.retry = {n \in @ : ~ upTo(n) \/ IsExpired(n)},
                              !.outstanding = {n \in @ : ~ upTo(n)}],
                    DistanceOf(o, m) + 1)
  IN  IF Stale(o, m) THEN o
      ELSE [next EXCEPT !.bar = [kind |-> "bar", start |-> next.start]]

Discarded(o, mpdus) == InTurn(NotifyDiscardedMpdu, o, mpdus)

(* The Expired trace of the retransmit queue calls it.                     *)
Cleaned(o) ==
  LET gone == {m \in o.retry : IsExpired(m)}
  IN  [Discarded(o, BySeq(o.start, gone)) EXCEPT !.retry = @ \ gone]

(* GetBar: a BAR that may be skipped waits for data.                       *)
BarReady(o, queued) ==
  \/ o.bar.kind = "bar"
  \/ o.bar.kind = "skip" /\ (o.retry # {} \/ queued > 0)

(* OriginatorBlockAckAgreement::NotifyDiscardedMpdu.                       *)
Passed(o, m) == IF Stale(o, m) THEN o ELSE Moved(o, DistanceOf(o, m) + 1)
PassedBy(o, mpdus) == InTurn(Passed, o, mpdus)

(* Expired outstanding frames leave the window, and the BAR is brought up  *)
(* to date.                                                                *)
GetBar(o) ==
  LET gone == {m \in o.outstanding : IsExpired(m)}
  IN  Then(PassedBy(o, BySeq(o.start, gone)), LAMBDA left :
           [left EXCEPT !.outstanding = @ \ gone, !.bar.start = left.start])

(* HasPackets, which every arrival and every end of an exchange calls.     *)
HasPackets(o, queued) ==
  Then(Cleaned(o), LAMBDA kept :
       IF kept.retry = {} /\ BarReady(kept, queued) THEN GetBar(kept) ELSE kept)

Queued == arrived - numbered
Kept == orig.outstanding \cup orig.retry
KeepsExpired == expired' = expired \cap Kept'

-----------------------------------------------------------------------------
(* Arrivals and lifetimes.                                                 *)

Queue ==
  /\ arrived < MaxMsdus /\ Queued < MaxQueued
  /\ arrived' = arrived + 1
  /\ orig' = HasPackets(orig, Queued + 1)
  /\ KeepsExpired
  /\ UNCHANGED <<numbered, heldBar, exchange, rcpt>>

(* Frames expire in the order of their arrival.                            *)
Expire ==
  /\ IF Kept \subseteq expired
     THEN Queued > 0 /\ arrived' = arrived - 1 /\ UNCHANGED expired
     ELSE expired' = expired \cup {Min(Kept \ expired)} /\ UNCHANGED arrived
  /\ UNCHANGED <<numbered, orig, heldBar, exchange, rcpt>>

-----------------------------------------------------------------------------
(* The access grant.                                                       *)

Send(sort, mpdus, start) ==
  exchange' = [phase |-> "sent", sort |-> sort, mpdus |-> mpdus, start |-> start,
               reply |-> NoReply]

(* The BAR that was not answered is sent again as it was.                  *)
SendHeldBar ==
  /\ exchange = Idle /\ heldBar # NoSeq
  /\ Send("bar", <<>>, heldBar)
  /\ UNCHANGED <<arrived, numbered, expired, orig, heldBar, rcpt>>

SendBar ==
  /\ exchange = Idle /\ heldBar = NoSeq
  /\ BarReady(Cleaned(orig), Queued)
  /\ \E kept \in {Then(Cleaned(orig), GetBar)} :
       /\ orig' = [kept EXCEPT !.bar = NoBar]
       /\ heldBar' = kept.bar.start
       /\ Send("bar", <<>>, kept.bar.start)
  /\ KeepsExpired
  /\ UNCHANGED <<arrived, numbered, rcpt>>

(* Deliberately wrong: a new frame is numbered without regard to the window.*)
ReadyBeyondWindow(o) ==
  BySeq(o.start, {m \in o.retry : ~ Stale(o, m)}) \o [i \in 1 .. Queued |-> numbered + i - 1]

(* PeekNextFrame: what must be sent again and is not old, then the queue up*)
(* to the first frame beyond the window.                                   *)
Ready(o) ==
  LET fits == Max({k \in 0 .. Queued :
                     \A i \in 1 .. k : InWindow(NumberOf(numbered + i - 1), o.start)})
  IN  BySeq(o.start, {m \in o.retry : ~ Stale(o, m)}) \o [i \in 1 .. fits |-> numbered + i - 1]

(* ConstantWifiAckPolicySelector, whose attributes may change.  A response *)
(* is wanted for what is far from the start of the window, and for the last*)
(* frame there is; it is an Ack, a BlockAck, or has to be asked for by a   *)
(* BAR.                                                                    *)
WantsResponse(o, mpdus, threshold) ==
  \/ DistanceOf(o, Last(mpdus)) >= threshold
  \/ Ready(o) = mpdus

AnswerTo(o, mpdus, threshold, explicit) ==
  IF ~ WantsResponse(o, mpdus, threshold) THEN "none"
  ELSE IF DistanceOf(o, Last(mpdus)) = 0 THEN "ack"
  ELSE IF Len(mpdus) = 1 \/ explicit THEN "askedLater" ELSE "blockAck"

(* GetNextAmpdu takes as many MPDUs as the limits on size and time allow.  *)
(* The BAR is prepared before the frames are stored.                       *)
SendData ==
  /\ exchange = Idle /\ heldBar = NoSeq
  /\ \E kept \in {Cleaned(orig)} :
       /\ ~ BarReady(kept, Queued)
       /\ \E n \in 1 .. Len(Ready(kept)), threshold \in Thresholds, explicit \in ExplicitBar :
            LET mpdus  == SubSeq(Ready(kept), 1, n)
                answer == AnswerTo(kept, mpdus, threshold, explicit)
                taken  == [kept EXCEPT
                             !.retry = @ \ Range(mpdus),
                             !.bar = IF answer = "askedLater"
                                     THEN [kind |-> "bar", start |-> kept.start] ELSE @]
            IN  /\ Send(IF answer = "askedLater" THEN "none" ELSE answer, mpdus, NoSeq)
                /\ orig' = Stored(taken, mpdus)
                /\ numbered' = numbered + Cardinality(Range(mpdus) \ kept.retry)
  /\ KeepsExpired
  /\ UNCHANGED <<arrived, heldBar, rcpt>>

-----------------------------------------------------------------------------
(* The recipient.                                                          *)

(* QosUtilsMapSeqControlToUniqueInteger: the oldest number maps to 0.      *)
Mapped(start, s) == (s - start + Half) % SeqSpace

(* Passed up to m_rxCallback.  (As many are remembered as may be confused. *)
Given(r, s) ==
  LET all == r.delivered \o s
  IN  SubSeq(all, Max({1, Len(all) - WinSize + 1}), Len(all))

(* RxCompleteBufferedPacketsWithSmallerSequence.  Of equal numbers in the  *)
(* buffer one is passed up.                                                *)
PassOne(s, m) == IF s # <<>> /\ NumberOf(Last(s)) = NumberOf(m) THEN s ELSE Append(s, m)
OnceEach(mpdus) == InTurn(PassOne, <<>>, mpdus)
PassSmaller(r) ==
  LET smaller(i) == Mapped(r.start, NumberOf(r.buffer[i])) < Half
      n == Max({k \in 0 .. Len(r.buffer) : \A i \in 1 .. k : smaller(i)})
  IN  [r EXCEPT !.buffer = SubSeq(@, n + 1, Len(@)),
                !.delivered = Given(r, OnceEach(SubSeq(r.buffer, 1, n)))]

(* Deliberately wrong: the start of the window does not come round.         *)
PassBeyondSpace(r) ==
  LET inPlace(i) == NumberOf(r.buffer[i]) = (r.start + i - 1) % SeqSpace
      n == Max({k \in 0 .. Len(r.buffer) : \A i \in 1 .. k : inPlace(i)})
  IN  [r EXCEPT !.start = @ + n, !.buffer = SubSeq(@, n + 1, Len(@)),
                !.delivered = Given(r, SubSeq(r.buffer, 1, n))]

(* RxCompleteBufferedPacketsUntilFirstLost.                                *)
PassUntilLost(r) ==
  LET inPlace(i) == NumberOf(r.buffer[i]) = (r.start + i - 1) % SeqSpace
      n == Max({k \in 0 .. Len(r.buffer) : \A i \in 1 .. k : inPlace(i)})
  IN  [r EXCEPT !.start = (@ + n) % SeqSpace,
                !.buffer = SubSeq(@, n + 1, Len(@)),
                !.delivered = Given(r, SubSeq(r.buffer, 1, n))]

(* Deliberately wrong: bits of the last lap stay.                          *)
UpdateWithStaleBits(r, s) ==
  LET delta == Dist((r.winStart + WinSize - 1) % SeqSpace, s)
  IN  IF IsOld(r.winStart, s) THEN r
      ELSE IF InWindow(s, r.winStart) THEN [r EXCEPT !.bitmap = @ \cup {s}]
      ELSE [r EXCEPT !.winStart = (@ + delta) % SeqSpace, !.bitmap = @ \cup {s}]

(* The reorder window is moved.                                            *)
MoveTo(r, s) == Then(PassSmaller([r EXCEPT !.start = s]), PassUntilLost)

(* BlockAckCache::UpdateWithMpdu.                                          *)
UpdateWithMpdu(r, s) ==
  LET end   == (r.winStart + WinSize - 1) % SeqSpace
      delta == (s - end) % SeqSpace
  IN  IF IsOld(r.winStart, s) THEN r
      ELSE IF InWindow(s, r.winStart) THEN [r EXCEPT !.bitmap = @ \cup {s}]
      ELSE [r EXCEPT !.winStart = (@ + delta) % SeqSpace,
                     !.bitmap = (@ \ Span(end + 1, delta - 1)) \cup {s}]

(* BlockAckCache::UpdateWithBlockAckReq.                                   *)
UpdateWithBlockAckReq(r, s) ==
  LET count == IF InWindow(s, r.winStart) THEN Dist(r.winStart, s) ELSE WinSize
  IN  IF IsOld(r.winStart, s) THEN r
      ELSE [r EXCEPT !.winStart = s,
                     !.bitmap = @ \ Span((s + WinSize - count) % SeqSpace, count)]

(* StoreMpduIfNeeded: before the first that is not older.                  *)
StoreMpduIfNeeded(r, m) ==
  LET older(i) == Mapped(r.start, NumberOf(r.buffer[i])) < Mapped(r.start, NumberOf(m))
      n == Max({k \in 0 .. Len(r.buffer) : \A i \in 1 .. k : older(i)})
  IN  UpdateWithMpdu([r EXCEPT !.buffer = InsertAt(@, n + 1, m)], NumberOf(m))

(* Deliberately wrong: an MPDU that was passed up before is stored again.  *)
ReceiveOldToo(r, m) ==
  Then(StoreMpduIfNeeded(r, m), LAMBDA stored :
       IF InWindow(NumberOf(m), r.start) THEN PassUntilLost(stored)
       ELSE MoveTo(stored, (NumberOf(m) - WinSize + 1) % SeqSpace))

(* ReceiveMpdu.  A number beyond the window moves it.                      *)
ReceiveMpdu(r, m) ==
  IF IsOld(r.start, NumberOf(m)) THEN r
  ELSE Then(StoreMpduIfNeeded(r, m), LAMBDA stored :
            IF InWindow(NumberOf(m), r.start) THEN PassUntilLost(stored)
            ELSE MoveTo(stored, (NumberOf(m) - WinSize + 1) % SeqSpace))

BlockAckFrom(r, start) ==
  [sort |-> "blockAck", start |-> start, received |-> r.bitmap \cap Span(start, WinSize)]

(* Data: each MPDU that is received is passed on at once.  A single one is *)
(* answered with an Ack, old or not, after passing up what can be; an      *)
(* A-MPDU with a BlockAck from the start of the cache.                     *)
HeardOne(r, m, got) == IF m \in got THEN ReceiveMpdu(r, m) ELSE r
Heard(r, mpdus, got) == InTurn(LAMBDA a, m : HeardOne(a, m, got), r, mpdus)

ReceiveData(got) ==
  /\ exchange.phase = "sent" /\ exchange.sort # "bar"
  /\ \E after \in {Heard(rcpt, exchange.mpdus, got)} :
       /\ rcpt' = IF exchange.sort = "ack" /\ got # {}
                  THEN MoveTo(after, after.start) ELSE after
       /\ exchange' = [exchange EXCEPT !.phase = "over",
                         !.reply = IF got = {} \/ exchange.sort = "none" THEN NoReply
                                   ELSE IF exchange.sort = "ack"
                                   THEN [NoReply EXCEPT !.sort = "ack"]
                                   ELSE BlockAckFrom(after, after.winStart)]
  /\ UNCHANGED <<arrived, numbered, expired, orig, heldBar>>

(* A BAR moves the cache at once, and the reorder window when the BlockAck *)
(* is sent.                                                                *)
ReceiveBar ==
  LET s == exchange.start
  IN  /\ exchange.phase = "sent" /\ exchange.sort = "bar"
      /\ \E asked \in {UpdateWithBlockAckReq(rcpt, s)} :
           /\ rcpt' = IF IsOld(asked.start, s) THEN asked ELSE MoveTo(asked, s)
           /\ exchange' = [exchange EXCEPT !.phase = "over", !.reply = BlockAckFrom(asked, s)]
      /\ UNCHANGED <<arrived, numbered, expired, orig, heldBar>>

BarIsLost ==
  /\ exchange.phase = "sent" /\ exchange.sort = "bar"
  /\ exchange' = [exchange EXCEPT !.phase = "over"]
  /\ UNCHANGED <<arrived, numbered, expired, orig, heldBar, rcpt>>

-----------------------------------------------------------------------------
(* How exchanges end: the handlers of QosTxop, and RestartAccessIfNeeded.  *)

Ends(o, bar) ==
  /\ orig' = Then(o, LAMBDA x : HasPackets(x, Queued))
  /\ heldBar' = bar
  /\ exchange' = Idle
  /\ KeepsExpired
  /\ UNCHANGED <<arrived, numbered, rcpt>>

Without(o, m) == [o EXCEPT !.outstanding = @ \ {m}]

GotAck ==
  LET m == exchange.mpdus[1]
  IN  /\ exchange.phase = "over" /\ exchange.reply.sort = "ack"
      /\ Ends(NotifyAckedMpdu(Without(orig, m), m), NoSeq)

(* Tried again by the block ack manager, or given up.                      *)
MissedAck ==
  LET m == exchange.mpdus[1]
  IN  /\ exchange.phase = "over" /\ exchange.sort = "ack"
      /\ \/ Ends(InsertInRetryQueue(Without(orig, m), m), NoSeq)
         \/ Ends(NotifyDiscardedMpdu(orig, m), NoSeq)

(* NotifyGotBlockAck, for a compressed BlockAck: what is not reported as   *)
(* received is to be sent again, and nothing is outstanding any more.      *)
SettleOne(o, m, start, received) ==
  IF NumberOf(m) \in received THEN NotifyAckedMpdu(o, m)
  ELSE IF IsOld(start, NumberOf(m)) THEN o ELSE InsertInRetryQueue(o, m)
Settled(o, mpdus, start, received) ==
  InTurn(LAMBDA a, m : SettleOne(a, m, start, received), o, mpdus)
Settle(reply) ==
  [Settled(orig, BySeq(orig.start, orig.outstanding), orig.start, reply.received)
     EXCEPT !.outstanding = {}]

GotBlockAck ==
  /\ exchange.phase = "over" /\ exchange.reply.sort = "blockAck"
  /\ Ends(Settle(exchange.reply), NoSeq)

(* DiscardOutstandingMpdus.                                                *)
DiscardOutstanding(o) ==
  [Discarded(o, BySeq(o.start, o.outstanding)) EXCEPT !.outstanding = {}]

(* With UseExplicitBarAfterMissedBlockAck, the default.  As long as an     *)
(* outstanding frame has not expired, a BAR asks about them; then they are *)
(* given up.  A BAR that was only to move the recipient's window waits for *)
(* more data.                                                              *)
MissedBlockAck ==
  LET bar(kind) == [kind |-> kind, start |-> orig.start]
  IN  /\ exchange.phase = "over" /\ exchange.sort \in {"blockAck", "bar"}
      /\ IF \E m \in orig.outstanding : ~ IsExpired(m)
         THEN Ends(IF heldBar = NoSeq THEN [orig EXCEPT !.bar = bar("bar")] ELSE orig,
                   heldBar)
         ELSE Ends(IF orig.outstanding # {} THEN DiscardOutstanding(orig)
                   ELSE [orig EXCEPT !.bar = bar("skip")],
                   NoSeq)

EndTxNoAck ==
  /\ exchange.phase = "over" /\ exchange.sort = "none"
  /\ Ends(orig, NoSeq)

-----------------------------------------------------------------------------
Init ==
  /\ arrived = 0 /\ numbered = 0 /\ expired = {}
  /\ orig = [start |-> 0, acked |-> {}, outstanding |-> {}, retry |-> {}, bar |-> NoBar]
  /\ heldBar = NoSeq
  /\ exchange = Idle
  /\ rcpt = [start |-> 0, buffer |-> <<>>, winStart |-> 0, bitmap |-> {}, delivered |-> <<>>]

Granted == SendHeldBar \/ SendBar \/ SendData

Received == (\E got \in SUBSET Range(exchange.mpdus) : ReceiveData(got)) \/ ReceiveBar

Answered == GotAck \/ GotBlockAck \/ EndTxNoAck

Next ==
  \/ Queue \/ Expire
  \/ Granted
  \/ Received \/ BarIsLost
  \/ Answered \/ MissedAck \/ MissedBlockAck

Spec == Init /\ [][Next]_vars

-----------------------------------------------------------------------------
(* Properties.                                                             *)

Delivered == Range(rcpt.delivered)
Buffered == Range(rcpt.buffer)

(* Type invariant.                                                         *)
TypeOK ==
  /\ arrived \in 0 .. MaxMsdus /\ numbered \in 0 .. arrived
  /\ expired \subseteq Kept
  /\ orig \in [start : Seqs, acked : SUBSET Seqs, outstanding : SUBSET Ids,
               retry : SUBSET Ids, bar : [kind : {"none", "bar", "skip"}, start : Seqs \cup {NoSeq}]]
  /\ heldBar \in Seqs \cup {NoSeq}
  /\ exchange.phase \in {"idle", "sent", "over"}
  /\ exchange.sort \in {"none", "ack", "blockAck", "bar"}
  /\ exchange.mpdus \in Seq(Ids)
  /\ rcpt.start \in Seqs /\ rcpt.winStart \in Seqs /\ rcpt.bitmap \subseteq Seqs
  /\ rcpt.buffer \in Seq(Ids) /\ rcpt.delivered \in Seq(Ids)

(* Passing up in order, with retransmissions, moving windows and numbers   *)
(* that come round again, is what a block ack agreement promises.          *)
Promise == INSTANCE OrderedDelivery WITH delivered <- rcpt.delivered
DeliversInOrder == Promise!Spec

(* No false acknowledgement: a frame the originator stops keeping without  *)
(* giving it up has been received.  A bit of the recipient's score stands  *)
(* for every frame with that number, and must be cleared between two.      *)
AckedIsReceived ==
  [][Answered =>
       \A m \in Kept \ Kept' : m \in Delivered \cup Buffered \/ IsExpired(m)]_vars

(* The windows of the two ends do not drift apart: a frame the originator  *)
(* keeps is old for the recipient only if it has been received, else its   *)
(* retransmissions would be thrown away unread and never acknowledged.     *)
RecipientIsNotAhead ==
  \A m \in Kept : IsOld(rcpt.start, NumberOf(m)) => m \in Delivered

(* A frame waits in the reorder buffer only for what may still come: each  *)
(* frame it waits for is kept by the originator, or a BAR will tell the    *)
(* recipient not to wait.                                                  *)
BarIsDue == orig.bar.kind # "none" \/ heldBar # NoSeq
WaitedFor ==
  (UNION {{b - i : i \in 1 .. Dist(rcpt.start, NumberOf(b))} : b \in Buffered}) \ Buffered
GapIsAttended == BarIsDue \/ WaitedFor \subseteq Kept

=============================================================================
