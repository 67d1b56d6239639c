---------------------------- MODULE BlockAckProofs ----------------------------
(***************************************************************************)
(* Theorems about BlockAckSession, for every size of the sequence space and*)
(* of the window: type correctness, no false acknowledgement, windows that *)
(* do not drift apart, attended gaps, and delivery in order.               *)
(*                                                                         *)
(* The two ends know numbers only.  The invariant says which MSDUs their   *)
(* windows start at: the transmit window at O, the reorder window at R and *)
(* the score at V.                                                         *)
(***************************************************************************)
EXTENDS BlockAckLemmas

Exchanges ==
  [phase : {"idle", "sent", "over"}, sort : {"none", "ack", "blockAck", "bar"},
   mpdus : Seq(Ids), start : Seqs \cup {NoSeq},
   reply : [sort : {"none", "ack", "blockAck"}, start : Seqs \cup {NoSeq}, received : SUBSET Seqs]]

(* The types, and that nothing expires but what is kept, oldest first.     *)
Types ==
  /\ arrived \in Nat /\ arrived =< MaxMsdus /\ numbered \in Nat /\ numbered =< arrived
  /\ expired \subseteq Kept
  /\ orig \in Originators
  /\ heldBar \in Seqs \cup {NoSeq}
  /\ exchange \in Exchanges

(* Each end by itself: N frames have their numbers.                        *)
Windows(o, r, N, O, R, V) ==
  /\ o \in Originators /\ Starts(o, N, O) /\ Keeps(o, N, O, {}, {}) /\ Covers(o, N, O, {})
  /\ Score(r, R, V, N)

(* The ends together.  What the transmit window has passed or counts as    *)
(* acknowledged has been received, or a BAR is due; a BAR that is held may *)
(* be late, but not by a window.                                           *)
Follows(o, r, bar, N, O, R, V) ==
  /\ V =< O
  /\ \A i \in O .. R - 1 : i \in Range(r.delivered)
  /\ \A i \in O .. N - 1 : NumberOf(i) \in o.acked => Got(r, R, i)
  /\ \A m \in o.retry : m \notin Range(r.buffer)
  /\ o.bar.kind = "none" => IF bar = NoSeq THEN O =< R ELSE bar = o.start
  /\ bar # NoSeq => \E H \in 0 .. O : bar = NumberOf(H) /\ N - WinSize =< H /\ V =< H

(* The frame exchange x: its frames have not been received before if they  *)
(* can be told from it, and its reply does not say more than is so.        *)
Frames(x, o, r, bar, N, O, R) ==
  /\ x.phase = "idle" => x = Idle
  /\ x.phase # "over" => x.reply = NoReply
  /\ x.phase # "idle" => (bar # NoSeq <=> x.sort = "bar")
  /\ x.sort = "bar" => x.start = bar
  /\ Ascending(x.mpdus)
  /\ \A m \in Range(x.mpdus) :
       /\ N - WinSize =< m /\ m < N
       /\ x.phase = "sent" => m \notin Range(r.buffer)
       /\ O =< m => m \in o.outstanding
  /\ x.sort = "ack" => Len(x.mpdus) = 1 /\ x.mpdus[1] =< R
  /\ x.reply.sort = "ack" => x.sort = "ack" /\ x.mpdus[1] < R
  /\ x.reply.sort = "blockAck" =>
       /\ x.sort \in {"blockAck", "bar"}
       /\ \A i \in O .. N - 1 :
            /\ NumberOf(i) \in x.reply.received => Got(r, R, i)
            /\ i \in Range(r.buffer) => NumberOf(i) \in x.reply.received
       /\ x.sort = "bar" /\ o.bar.kind = "none" => O =< R

Agree(o, r, bar, x, N, O, R, V) ==
  /\ Windows(o, r, N, O, R, V)
  /\ Follows(o, r, bar, N, O, R, V)
  /\ Frames(x, o, r, bar, N, O, R)

SessionInv ==
  /\ Types
  /\ OldestFirst(orig)
  /\ \E O, R, V \in Nat : Agree(orig, rcpt, heldBar, exchange, numbered, O, R, V)

-----------------------------------------------------------------------------
(* Frames that leave without being heard.                                  *)

LEMMA FollowsNarrow ==
  ASSUME NEW o, NEW p, NEW r, NEW bar, NEW N \in Nat, NEW A \in Nat, NEW B, NEW R \in Nat, NEW V \in Nat,
         Starts(o, N, A), Follows(o, r, bar, N, A, R, V), Narrows(o, p, N, A, B),
         p.bar.kind # "none" \/ (p.bar = o.bar /\ B = A)
  PROVE  Follows(p, r, bar, N, B, R, V)
<1>1. B \in Nat /\ A =< B /\ p.retry \subseteq o.retry /\ o.start = NumberOf(A) /\ p.start = NumberOf(B)
  BY DEF Narrows, Starts
<1>2. \A i \in B .. N - 1 : NumberOf(i) \in p.acked <=> NumberOf(i) \in o.acked
  BY DEF Narrows
<1>3. \A i \in B .. R - 1 : i \in A .. R - 1
  BY <1>1
<1>4. \A i \in B .. N - 1 : i \in A .. N - 1
  BY <1>1
<1>5. V =< B
  BY <1>1 DEF Follows
<1>6. p.bar.kind = "none" => IF bar = NoSeq THEN B =< R ELSE bar = p.start
  BY <1>1 DEF Follows
<1>7. \A H \in 0 .. A : H \in 0 .. B
  BY <1>1
<1>8. \A i \in B .. R - 1 : i \in Range(r.delivered)
  BY <1>3 DEF Follows
<1>9. \A i \in B .. N - 1 : NumberOf(i) \in p.acked => Got(r, R, i)
  BY <1>2, <1>4 DEF Follows
<1>10. \A m \in p.retry : m \notin Range(r.buffer)
  BY <1>1 DEF Follows
<1>11. bar # NoSeq => \E H \in 0 .. B : bar = NumberOf(H) /\ N - WinSize =< H /\ V =< H
  BY <1>7 DEF Follows
<1> QED BY <1>5, <1>6, <1>8, <1>9, <1>10, <1>11 DEF Follows

LEMMA FollowsOn ==
  ASSUME NEW o, NEW p, NEW r, NEW bar, NEW N \in Nat, NEW A \in Nat, NEW B, NEW R \in Nat, NEW V \in Nat,
         Starts(o, N, A), Follows(o, r, bar, N, A, R, V), Ages(o, p, N, A, B)
  PROVE  Follows(p, r, bar, N, B, R, V)
<1>1. Narrows(o, p, N, A, B) /\ (p.bar.kind # "none" \/ (p.bar = o.bar /\ B = A))
  BY DEF Ages
<1> QED BY <1>1, FollowsNarrow

(* A BAR that is due need not be held.                                     *)
LEMMA FollowsBar ==
  ASSUME NEW o, NEW p, NEW r, NEW bar, NEW N, NEW A, NEW R, NEW V, Follows(o, r, bar, N, A, R, V),
         p.acked = o.acked, p.retry = o.retry, p.bar.kind # "none"
  PROVE  Follows(p, r, NoSeq, N, A, R, V)
BY DEF Follows

(* The transmit window does not pass what has not been received.           *)
LEMMA NotBeyond ==
  ASSUME NEW r, NEW R, NEW V, NEW N, Score(r, R, V, N), NEW O \in Nat, NEW B \in Nat, O =< R,
         \A i \in O .. B - 1 : Got(r, R, i)
  PROVE  B =< R
<1>1. R \in Nat
  BY DEF Score, Remembers
<1>2. SUFFICES ASSUME ~ (B =< R) PROVE FALSE
  OBVIOUS
<1>3. R \in O .. B - 1
  BY <1>1, <1>2
<1>4. Got(r, R, R)
  BY <1>3
<1>5. R \in Range(r.buffer) /\ ~ (R < R)
  BY <1>1, <1>4 DEF Got
<1> QED BY <1>5 DEF Score

LEMMA FramesOn ==
  ASSUME NEW o, NEW p, NEW r, NEW bar, NEW x \in Exchanges, NEW N \in Nat, NEW A \in Nat, NEW B,
         NEW R \in Nat, Frames(x, o, r, bar, N, A, R), Ages(o, p, N, A, B)
  PROVE  Frames(x, p, r, bar, N, B, R)
<1>1. B \in Nat /\ A =< B /\ \A n \in o.outstanding : n \in p.outstanding \/ n < B
  BY DEF Ages, Narrows
<1>2. \A m \in Range(x.mpdus) : m \in Int
  <2>1. x.mpdus \in Seq(Ids) BY DEF Exchanges
  <2>2. \A m \in Range(x.mpdus) : m \in Ids BY <2>1, LenProperties, ElementOfSeq DEF Range
  <2> QED BY <2>2, Sizes DEF Ids
<1>3. \A m \in Range(x.mpdus) :
        /\ N - WinSize =< m /\ m < N
        /\ x.phase = "sent" => m \notin Range(r.buffer)
        /\ B =< m => m \in p.outstanding
  <2>1. ASSUME NEW m \in Range(x.mpdus), B =< m PROVE m \in p.outstanding
    <3>1. m \in Int /\ A =< m /\ ~ (m < B) BY <1>1, <1>2, <2>1
    <3>2. m \in o.outstanding BY <3>1 DEF Frames
    <3> QED BY <1>1, <3>1, <3>2
  <2> QED BY <2>1 DEF Frames
<1>4. \A i \in B .. N - 1 : i \in A .. N - 1
  BY <1>1
<1>5. p.bar.kind = "none" => p.bar = o.bar /\ B = A
  BY DEF Ages
<1>6. x.reply.sort = "blockAck" =>
       /\ x.sort \in {"blockAck", "bar"}
       /\ \A i \in B .. N - 1 :
            /\ NumberOf(i) \in x.reply.received => Got(r, R, i)
            /\ i \in Range(r.buffer) => NumberOf(i) \in x.reply.received
       /\ x.sort = "bar" /\ p.bar.kind = "none" => B =< R
  BY <1>4, <1>5 DEF Frames
<1> QED BY <1>3, <1>6 DEF Frames

LEMMA OldestStaysFirst ==
  ASSUME OldestFirst(orig), Kept' \subseteq Kept, KeepsExpired
  PROVE  OldestFirst(orig)'
<1>1. /\ orig'.outstanding \cup orig'.retry \subseteq orig.outstanding \cup orig.retry
      /\ expired' = expired \cap (orig'.outstanding \cup orig'.retry)
  BY DEF Kept, KeepsExpired
<1>2. \A m, n \in orig'.outstanding \cup orig'.retry : m \in expired' /\ n < m => n \in expired'
  BY <1>1 DEF OldestFirst, IsExpired
<1> QED BY <1>2 DEF OldestFirst, IsExpired

(* What an action has to show.                                             *)
LEMMA InvIsKept ==
  ASSUME Types', OldestFirst(orig)', NEW O \in Nat, NEW R \in Nat, NEW V \in Nat,
         Agree(orig', rcpt', heldBar', exchange', numbered', O, R, V)
  PROVE  SessionInv'
BY DEF SessionInv

LEMMA IdleIs ==
  /\ Idle \in Exchanges
  /\ \A o, r, bar, N, A, R : Frames(Idle, o, r, bar, N, A, R)
<1>1. /\ Idle.phase = "idle" /\ Idle.sort = "none" /\ Idle.mpdus = <<>> /\ Idle.start = NoSeq
      /\ Idle.reply = NoReply /\ NoReply.sort = "none"
  BY DEF Idle, NoReply
<1>2. Ascending(<<>>) /\ Range(<<>>) = {}
  BY DEF Ascending, Range
<1>3. ASSUME NEW o, NEW r, NEW bar, NEW N, NEW A, NEW R PROVE Frames(Idle, o, r, bar, N, A, R)
  BY <1>1, <1>2 DEF Frames
<1>4. Idle \in Exchanges
  BY DEF Exchanges, Idle, NoReply
<1> QED BY <1>3, <1>4

(* The end of an exchange, with the originator's record o.                 *)
LEMMA EndsWell ==
  ASSUME Types, OldestFirst(orig), NEW o \in Originators, NEW A \in Nat, NEW R \in Nat, NEW V \in Nat,
         NEW bar \in Seqs \cup {NoSeq},
         Starts(o, numbered, A), Keeps(o, numbered, A, {}, expired), Covers(o, numbered, A, {}),
         Score(rcpt, R, V, numbered), Follows(o, rcpt, bar, numbered, A, R, V),
         o.outstanding \cup o.retry \subseteq Kept, Ends(o, bar)
  PROVE  SessionInv' /\ \E B \in Nat : Ages(o, orig', numbered, A, B)
<1>1. /\ orig' = HasPackets(o, Queued) /\ heldBar' = bar /\ exchange' = Idle
      /\ arrived' = arrived /\ numbered' = numbered /\ rcpt' = rcpt /\ KeepsExpired
  BY DEF Ends, Then
<1>2. PICK N \in Nat : N = numbered
  BY DEF Types
<1>3. PICK p : p = HasPackets(o, Queued)
  OBVIOUS
<1>4. OldestFirst(o)
  BY OldestStay DEF Kept
<1>5. PICK B \in Nat : Ages(o, p, N, A, B)
  BY <1>2, <1>3, <1>4, HasPacketsIs
<1>6. /\ p \in Originators /\ Starts(p, N, B) /\ Keeps(p, N, B, {}, {}) /\ Covers(p, N, B, {})
      /\ p.outstanding \subseteq o.outstanding /\ p.retry \subseteq o.retry
  BY <1>5 DEF Ages, Narrows
<1>7. Follows(p, rcpt, bar, N, B, R, V)
  BY <1>2, <1>5, FollowsOn
<1>8. Kept' \subseteq Kept
  BY <1>1, <1>3, <1>6 DEF Kept
<1>9. Types'
  <2>1. expired' \subseteq Kept' BY <1>1 DEF KeepsExpired
  <2> QED BY <1>1, <1>3, <1>6, <2>1, IdleIs DEF Types
<1>10. OldestFirst(orig)'
  BY <1>1, <1>8, OldestStaysFirst
<1>11. Agree(p, rcpt, bar, Idle, N, B, R, V)
  BY <1>2, <1>6, <1>7, IdleIs DEF Agree, Windows
<1>12. SessionInv'
  BY <1>1, <1>2, <1>3, <1>9, <1>10, <1>11, InvIsKept
<1> QED BY <1>1, <1>2, <1>3, <1>5, <1>12

(* Keeps with fewer exceptions.                                            *)
LEMMA KeepsMore ==
  ASSUME NEW o, NEW N, NEW A, NEW Y, Keeps(o, N, A, {}, {})
  PROVE  Keeps(o, N, A, {}, Y)
BY DEF Keeps

(* What may be used of the invariant.                                      *)
LEMMA AgreeIs ==
  ASSUME SessionInv
  PROVE  \E N, O, R, V \in Nat :
           /\ N = numbered /\ orig \in Originators /\ exchange \in Exchanges
           /\ Starts(orig, N, O) /\ Keeps(orig, N, O, {}, {}) /\ Covers(orig, N, O, {})
           /\ Score(rcpt, R, V, N) /\ Follows(orig, rcpt, heldBar, N, O, R, V)
           /\ Frames(exchange, orig, rcpt, heldBar, N, O, R)
BY DEF SessionInv, Types, Agree, Windows

-----------------------------------------------------------------------------
(* The initial state.                                                      *)

LEMMA SessionInit == Init => SessionInv
<1> SUFFICES ASSUME Init PROVE SessionInv
  OBVIOUS
<1>1. PICK z \in Nat : z = 0
  OBVIOUS
<1>2. NumberOf(z) = 0 /\ 0 \in Seqs
  <2>1. z % SeqSpace = z BY <1>1, Small, Sizes
  <2> QED BY <1>1, <2>1, Sizes DEF NumberOf
<1>3. /\ orig = [start |-> 0, acked |-> {}, outstanding |-> {}, retry |-> {}, bar |-> NoBar]
      /\ rcpt = [start |-> 0, buffer |-> <<>>, winStart |-> 0, bitmap |-> {}, delivered |-> <<>>]
      /\ arrived = z /\ numbered = z /\ expired = {} /\ heldBar = NoSeq /\ exchange = Idle
  BY <1>1 DEF Init
<1>4. orig \in Originators /\ Kept = {}
  BY <1>2, <1>3 DEF Originators, NoBar, Kept
<1>5. Types
  BY <1>1, <1>3, <1>4, IdleIs, Sizes DEF Types
<1>6. OldestFirst(orig)
  BY <1>3 DEF OldestFirst
<1>7. \A i \in z .. z - 1 : FALSE
  BY <1>1
<1>8. Starts(orig, z, z) /\ Keeps(orig, z, z, {}, {}) /\ Covers(orig, z, z, {})
  <2>1. z =< z /\ z =< z + WinSize BY <1>1, Sizes
  <2> QED BY <1>1, <1>2, <1>3, <1>7, <2>1 DEF Starts, Keeps, Covers
<1>9. Ascending(<<>>) /\ Range(<<>>) = {} /\ Len(<<>>) = 0 /\ <<>> \in Seq(Ids)
  BY DEF Ascending, Range
<1>10. Score(rcpt, z, z, z)
  <2>1. rcpt \in Recipients BY <1>2, <1>3, <1>9 DEF Recipients
  <2>2. z =< z /\ z =< z + WinSize /\ 0 =< WinSize BY <1>1, Sizes
  <2>3. Remembers(rcpt, z) BY <1>3, <1>9, <2>1, <2>2 DEF Remembers
  <2> QED BY <1>1, <1>2, <1>3, <1>9, <2>2, <2>3 DEF Score
<1>11. Follows(orig, rcpt, heldBar, z, z, z, z)
  <2>1. z =< z BY <1>1
  <2> QED BY <1>3, <1>7, <2>1 DEF Follows
<1>12. Agree(orig, rcpt, heldBar, exchange, numbered, z, z, z)
  BY <1>3, <1>4, <1>8, <1>10, <1>11, IdleIs DEF Agree, Windows
<1> QED BY <1>5, <1>6, <1>12 DEF SessionInv

-----------------------------------------------------------------------------
(* Arrivals and lifetimes.                                                 *)

LEMMA QueueKeeps ==
  ASSUME SessionInv, Queue
  PROVE  SessionInv'
<1>1. PICK N, O, R, V \in Nat :
           /\ N = numbered /\ orig \in Originators /\ exchange \in Exchanges
           /\ Starts(orig, N, O) /\ Keeps(orig, N, O, {}, {}) /\ Covers(orig, N, O, {})
           /\ Score(rcpt, R, V, N) /\ Follows(orig, rcpt, heldBar, N, O, R, V)
           /\ Frames(exchange, orig, rcpt, heldBar, N, O, R)
  BY AgreeIs
<1>2. PICK p : p = HasPackets(orig, Queued + 1)
  OBVIOUS
<1>3. /\ orig' = p /\ numbered' = numbered /\ heldBar' = heldBar /\ exchange' = exchange
      /\ rcpt' = rcpt /\ arrived' = arrived + 1 /\ arrived < MaxMsdus /\ KeepsExpired
  BY <1>2 DEF Queue
<1>4. Types /\ OldestFirst(orig)
  BY DEF SessionInv
<1>5. PICK B \in Nat : Ages(orig, p, N, O, B)
  <2>1. Keeps(orig, N, O, {}, expired) BY <1>1, KeepsMore
  <2> QED BY <1>1, <1>2, <1>4, <2>1, HasPacketsIs
<1>6. /\ p \in Originators /\ Starts(p, N, B) /\ Keeps(p, N, B, {}, {}) /\ Covers(p, N, B, {})
      /\ p.outstanding \subseteq orig.outstanding /\ p.retry \subseteq orig.retry
  BY <1>5 DEF Ages, Narrows
<1>7. Follows(p, rcpt, heldBar, N, B, R, V)
  BY <1>1, <1>5, FollowsOn
<1>8. Frames(exchange, p, rcpt, heldBar, N, B, R)
  BY <1>1, <1>5, FramesOn
<1>9. Kept' \subseteq Kept
  BY <1>3, <1>6 DEF Kept
<1>10. Types'
  <2>1. expired' \subseteq Kept' BY <1>3 DEF KeepsExpired
  <2>2. arrived' \in Nat /\ arrived' =< MaxMsdus /\ numbered' =< arrived'
    BY <1>3, <1>4, Sizes DEF Types
  <2> QED BY <1>3, <1>4, <1>6, <2>1, <2>2 DEF Types
<1>11. OldestFirst(orig)'
  BY <1>3, <1>4, <1>9, OldestStaysFirst
<1>12. Agree(orig', rcpt', heldBar', exchange', numbered', B, R, V)
  BY <1>1, <1>3, <1>6, <1>7, <1>8 DEF Agree, Windows
<1> QED BY <1>10, <1>11, <1>12, InvIsKept

LEMMA ExpireKeeps ==
  ASSUME SessionInv, Expire
  PROVE  SessionInv'
<1>1. /\ numbered' = numbered /\ orig' = orig /\ heldBar' = heldBar /\ exchange' = exchange
      /\ rcpt' = rcpt
  BY DEF Expire
<1>2. Types /\ OldestFirst(orig)
  BY DEF SessionInv
<1>3. Kept' = Kept
  BY <1>1 DEF Kept
<1>4. Types' /\ OldestFirst(orig)'
  <2>1. CASE Kept \subseteq expired
    <3>1. expired' = expired /\ arrived' = arrived - 1 /\ Queued > 0 BY <2>1 DEF Expire
    <3>2. arrived' \in Nat /\ arrived' =< MaxMsdus /\ numbered =< arrived'
      BY <1>2, <3>1, Sizes DEF Types, Queued
    <3>3. Types' BY <1>1, <1>2, <1>3, <3>1, <3>2 DEF Types
    <3>4. OldestFirst(orig)' BY <1>1, <1>2, <3>1 DEF OldestFirst, IsExpired
    <3> QED BY <3>3, <3>4
  <2>2. CASE ~ (Kept \subseteq expired)
    <3>1. expired' = expired \cup {Min(Kept \ expired)} /\ arrived' = arrived BY <2>2 DEF Expire
    <3>2. PICK m : m = Min(Kept \ expired) OBVIOUS
    <3>3. Kept \subseteq Ids BY <1>2 DEF Types, Kept, Originators
    <3>4. Kept \ expired \subseteq Nat /\ Kept \ expired # {}
      <4>1. Ids \subseteq Nat BY Sizes DEF Ids
      <4> QED BY <2>2, <3>3, <4>1
    <3>5. m \in Kept \ expired /\ \A n \in Kept \ expired : m =< n BY <3>2, <3>4, MinIs
    <3>6. Types' BY <1>1, <1>2, <1>3, <3>1, <3>2, <3>5 DEF Types
    <3>7. ASSUME NEW n \in Kept, n < m PROVE n \in expired
      <4>1. n \in Int /\ m \in Int BY <3>3, <3>5, Sizes DEF Ids
      <4> QED BY <3>5, <3>7, <4>1
    <3>8. \A k, n \in Kept : k \in expired' /\ n < k => n \in expired'
      BY <1>2, <3>1, <3>2, <3>7 DEF OldestFirst, IsExpired, Kept
    <3>9. OldestFirst(orig)' BY <1>1, <3>8 DEF OldestFirst, IsExpired, Kept
    <3> QED BY <3>6, <3>9
  <2> QED BY <2>1, <2>2
<1>5. PICK O, R, V \in Nat : Agree(orig, rcpt, heldBar, exchange, numbered, O, R, V)
  BY DEF SessionInv
<1>6. Agree(orig', rcpt', heldBar', exchange', numbered', O, R, V)
  BY <1>1, <1>5
<1> QED BY <1>4, <1>6, InvIsKept

-----------------------------------------------------------------------------
(* The access grant.                                                       *)

LEMMA SendHeldBarKeeps ==
  ASSUME SessionInv, SendHeldBar
  PROVE  SessionInv'
<1>1. PICK N, O, R, V \in Nat :
           /\ N = numbered /\ orig \in Originators /\ exchange \in Exchanges
           /\ Starts(orig, N, O) /\ Keeps(orig, N, O, {}, {}) /\ Covers(orig, N, O, {})
           /\ Score(rcpt, R, V, N) /\ Follows(orig, rcpt, heldBar, N, O, R, V)
           /\ Frames(exchange, orig, rcpt, heldBar, N, O, R)
  BY AgreeIs
<1>2. /\ arrived' = arrived /\ numbered' = numbered /\ expired' = expired /\ orig' = orig
      /\ heldBar' = heldBar /\ rcpt' = rcpt /\ heldBar # NoSeq
      /\ exchange' = [phase |-> "sent", sort |-> "bar", mpdus |-> <<>>, start |-> heldBar,
                      reply |-> NoReply]
  BY DEF SendHeldBar, Send
<1>3. Types /\ OldestFirst(orig)
  BY DEF SessionInv
<1>4. Types' /\ OldestFirst(orig)'
  <2>1. exchange' \in Exchanges BY <1>2, <1>3 DEF Types, Exchanges, NoReply
  <2>2. Kept' = Kept BY <1>2 DEF Kept
  <2>3. Types' BY <1>2, <1>3, <2>1, <2>2 DEF Types
  <2>4. OldestFirst(orig)' BY <1>2, <1>3 DEF OldestFirst, IsExpired
  <2> QED BY <2>3, <2>4
<1>5. Frames(exchange', orig, rcpt, heldBar, N, O, R)
  <2>1. Ascending(<<>>) /\ Range(<<>>) = {} BY DEF Ascending, Range
  <2> QED BY <1>2, <2>1 DEF Frames, NoReply
<1>6. Agree(orig', rcpt', heldBar', exchange', numbered', O, R, V)
  BY <1>1, <1>2, <1>5 DEF Agree, Windows
<1> QED BY <1>4, <1>6, InvIsKept

LEMMA SendBarKeeps ==
  ASSUME SessionInv, SendBar
  PROVE  SessionInv'
<1>1. PICK N, O, R, V \in Nat :
           /\ N = numbered /\ orig \in Originators /\ exchange \in Exchanges
           /\ Starts(orig, N, O) /\ Keeps(orig, N, O, {}, {}) /\ Covers(orig, N, O, {})
           /\ Score(rcpt, R, V, N) /\ Follows(orig, rcpt, heldBar, N, O, R, V)
           /\ Frames(exchange, orig, rcpt, heldBar, N, O, R)
  BY AgreeIs
<1>2. PICK clean, kept : clean = Cleaned(orig) /\ kept = GetBar(clean)
  OBVIOUS
<1>3. /\ orig' = [kept EXCEPT !.bar = NoBar] /\ heldBar' = kept.bar.start
      /\ exchange' = [phase |-> "sent", sort |-> "bar", mpdus |-> <<>>, start |-> kept.bar.start,
                      reply |-> NoReply]
      /\ KeepsExpired /\ arrived' = arrived /\ numbered' = numbered /\ rcpt' = rcpt
      /\ heldBar = NoSeq
  <2>1. Then(Cleaned(orig), GetBar) = kept BY <1>2, ThenIs
  <2> QED BY <2>1 DEF SendBar, Send
<1>4. Types /\ OldestFirst(orig)
  BY DEF SessionInv
<1>5. clean.retry \cap expired = {}
  <2>1. Keeps(orig, N, O, {}, expired) BY <1>1, KeepsMore
  <2> QED BY <1>1, <1>2, <1>4, <2>1, CleanedIs
<1>6. PICK A \in Nat : Ages(orig, clean, N, O, A)
  <2>1. Keeps(orig, N, O, {}, expired) BY <1>1, KeepsMore
  <2>2. \E A \in Nat :
          /\ Ages(orig, clean, N, O, A)
          /\ clean.bar.kind = "bar" \/ (clean.bar = orig.bar /\ A = O)
    BY <1>1, <1>2, <1>4, <2>1, CleanedIs
  <2> QED BY <2>2
<1>7. Narrows(orig, clean, N, O, A) /\ Keeps(clean, N, A, {}, {}) /\ Covers(clean, N, A, {})
  BY <1>6 DEF Ages
<1>8. clean \in Originators /\ Starts(clean, N, A) /\ OldestFirst(clean)
  <2>1. clean \in Originators /\ Starts(clean, N, A) BY <1>7 DEF Narrows
  <2>2. clean.outstanding \cup clean.retry \subseteq orig.outstanding \cup orig.retry
    BY <1>7 DEF Narrows
  <2> QED BY <1>4, <2>1, <2>2, OldestStay
<1>9. kept.retry = clean.retry /\ kept.bar.start = kept.start
  BY <1>1, <1>2, <1>5, <1>7, <1>8, GetBarIs
<1>10. PICK B \in Nat :
         /\ Narrows(clean, kept, N, A, B) /\ Keeps(kept, N, B, {}, {}) /\ Covers(kept, N, B, {})
         /\ \A n \in clean.outstanding : n \in kept.outstanding \/ IsExpired(n)
  BY <1>1, <1>2, <1>5, <1>7, <1>8, GetBarIs
<1>11. Narrows(orig, kept, N, O, B)
  BY <1>1, <1>7, <1>10, NarrowsOn
<1>12. PICK p : p = [kept EXCEPT !.bar = NoBar]
  OBVIOUS
<1>13. kept \in Originators /\ Starts(kept, N, B) /\ kept.start = NumberOf(B) /\ O =< B /\ B =< N
  BY <1>11 DEF Narrows, Starts
<1>14. /\ p \in Originators /\ p.start = kept.start /\ p.acked = kept.acked
       /\ p.outstanding = kept.outstanding /\ p.retry = kept.retry /\ p.bar = NoBar
  BY <1>12, <1>13 DEF Originators, NoBar
<1>15. Starts(p, N, B) /\ Keeps(p, N, B, {}, {}) /\ Covers(p, N, B, {})
  BY <1>10, <1>13, <1>14 DEF Starts, Keeps, Covers
<1>16. p.outstanding \subseteq orig.outstanding /\ p.retry \subseteq orig.retry
  BY <1>11, <1>14 DEF Narrows
<1>17. Kept' \subseteq Kept
  BY <1>3, <1>12, <1>16 DEF Kept
<1>18. NumberOf(B) \in Seqs /\ NumberOf(B) # NoSeq
  <2>1. NumberOf(B) \in Seqs BY <1>13, NumberType
  <2> QED BY <2>1, Sizes DEF NoSeq
<1>19. heldBar' = NumberOf(B)
  BY <1>3, <1>9, <1>13
<1>20. Types' /\ OldestFirst(orig)'
  <2>1. exchange' \in Exchanges BY <1>3, <1>9, <1>13, <1>18 DEF Exchanges, NoReply
  <2>2. expired' \subseteq Kept' BY <1>3 DEF KeepsExpired
  <2>3. Types' BY <1>3, <1>4, <1>12, <1>14, <1>18, <1>19, <2>1, <2>2 DEF Types
  <2> QED BY <1>3, <1>4, <1>17, <2>3, OldestStaysFirst
<1>21. Follows(p, rcpt, NumberOf(B), N, B, R, V)
  <2>1. V =< O /\ V =< B BY <1>1, <1>13 DEF Follows
  <2>2. \A i \in B .. R - 1 : i \in O .. R - 1 BY <1>1, <1>13
  <2>3. \A i \in B .. R - 1 : i \in Range(rcpt.delivered) BY <1>1, <2>2 DEF Follows
  <2>4. \A i \in B .. N - 1 : i \in O .. N - 1 BY <1>1, <1>13
  <2>5. \A i \in B .. N - 1 : NumberOf(i) \in p.acked => NumberOf(i) \in orig.acked
    BY <1>11, <1>14 DEF Narrows
  <2>6. \A i \in B .. N - 1 : NumberOf(i) \in p.acked => Got(rcpt, R, i)
    BY <1>1, <2>4, <2>5 DEF Follows
  <2>7. \A m \in p.retry : m \notin Range(rcpt.buffer) BY <1>1, <1>16 DEF Follows
  <2>8. B \in 0 .. B /\ N - WinSize =< B
    <3>1. N =< B + WinSize BY <1>15 DEF Starts
    <3> QED BY <1>1, <3>1, Sizes
  <2>9. p.start = NumberOf(B) BY <1>13, <1>14
  <2>10. \E H \in 0 .. B : NumberOf(B) = NumberOf(H) /\ N - WinSize =< H /\ V =< H
    BY <2>1, <2>8
  <2> QED BY <1>18, <2>1, <2>3, <2>6, <2>7, <2>9, <2>10 DEF Follows
<1>22. Frames(exchange', p, rcpt, NumberOf(B), N, B, R)
  <2>1. Ascending(<<>>) /\ Range(<<>>) = {} BY DEF Ascending, Range
  <2> QED BY <1>3, <1>18, <1>19, <2>1 DEF Frames, NoReply
<1>23. Agree(orig', rcpt', heldBar', exchange', numbered', B, R, V)
  BY <1>1, <1>3, <1>12, <1>14, <1>15, <1>19, <1>21, <1>22 DEF Agree, Windows
<1> QED BY <1>20, <1>23, InvIsKept

(* What data is sent with.                                                 *)
LEMMA SendDataIs ==
  ASSUME SendData
  PROVE  \E kept, mpdus, answer, bar :
           /\ kept = Cleaned(orig) /\ ~ BarReady(kept, Queued)
           /\ \E n \in 1 .. Len(Ready(kept)) : mpdus = SubSeq(Ready(kept), 1, n)
           /\ answer \in {"none", "ack", "blockAck", "askedLater"}
           /\ answer = "ack" => DistanceOf(kept, Last(mpdus)) = 0
           /\ bar = IF answer = "askedLater" THEN [kind |-> "bar", start |-> kept.start] ELSE kept.bar
           /\ exchange' = [phase |-> "sent", sort |-> IF answer = "askedLater" THEN "none" ELSE answer,
                           mpdus |-> mpdus, start |-> NoSeq, reply |-> NoReply]
           /\ orig' = Stored([kept EXCEPT !.retry = @ \ Range(mpdus), !.bar = bar], mpdus)
           /\ numbered' = numbered + Cardinality(Range(mpdus) \ kept.retry)
<1>1. PICK kept \in {Cleaned(orig)} :
        /\ ~ BarReady(kept, Queued)
        /\ \E n \in 1 .. Len(Ready(kept)), threshold \in Thresholds, explicit \in ExplicitBar :
             LET mpdus  == SubSeq(Ready(kept), 1, n)
                 answer == AnswerTo(kept, mpdus, threshold, explicit)
                 taken  == [kept EXCEPT
                              !.retry = @ \ Range(mpdus),
                              !.bar = IF answer = "askedLater"
                                      THEN [kind |-> "bar", start |-> kept.start] ELSE @]
             IN  /\ Send(IF answer = "askedLater" THEN "none" ELSE answer, mpdus, NoSeq)
                 /\ orig' = Stored(taken, mpdus)
                 /\ numbered' = numbered + Cardinality(Range(mpdus) \ kept.retry)
  BY DEF SendData
<1>2. kept = Cleaned(orig) /\ ~ BarReady(kept, Queued)
  BY <1>1
<1>3. PICK n \in 1 .. Len(Ready(kept)), threshold \in Thresholds, explicit \in ExplicitBar :
        LET mpdus  == SubSeq(Ready(kept), 1, n)
            answer == AnswerTo(kept, mpdus, threshold, explicit)
            taken  == [kept EXCEPT
                         !.retry = @ \ Range(mpdus),
                         !.bar = IF answer = "askedLater"
                                 THEN [kind |-> "bar", start |-> kept.start] ELSE @]
        IN  /\ Send(IF answer = "askedLater" THEN "none" ELSE answer, mpdus, NoSeq)
            /\ orig' = Stored(taken, mpdus)
            /\ numbered' = numbered + Cardinality(Range(mpdus) \ kept.retry)
  BY <1>1
<1>4. PICK mpdus : mpdus = SubSeq(Ready(kept), 1, n)
  OBVIOUS
<1>5. PICK answer : answer = AnswerTo(kept, mpdus, threshold, explicit)
  OBVIOUS
<1>6. PICK bar : bar = IF answer = "askedLater" THEN [kind |-> "bar", start |-> kept.start] ELSE kept.bar
  OBVIOUS
<1>7. answer \in {"none", "ack", "blockAck", "askedLater"}
  BY <1>5 DEF AnswerTo
<1>8. answer = "ack" => DistanceOf(kept, Last(mpdus)) = 0
  BY <1>5 DEF AnswerTo
<1>9. exchange' = [phase |-> "sent", sort |-> IF answer = "askedLater" THEN "none" ELSE answer,
                   mpdus |-> mpdus, start |-> NoSeq, reply |-> NoReply]
  BY <1>3, <1>4, <1>5 DEF Send
<1>10. orig' = Stored([kept EXCEPT !.retry = @ \ Range(mpdus), !.bar = bar], mpdus)
  BY <1>3, <1>4, <1>5, <1>6
<1>11. numbered' = numbered + Cardinality(Range(mpdus) \ kept.retry)
  BY <1>3, <1>4
<1> QED BY <1>2, <1>4, <1>6, <1>7, <1>8, <1>9, <1>10, <1>11

LEMMA SendDataKeeps ==
  ASSUME SessionInv, SendData
  PROVE  SessionInv' /\ numbered' \in Nat /\ numbered =< numbered'
<1>1. PICK N, O, R, V \in Nat :
           /\ N = numbered /\ orig \in Originators /\ exchange \in Exchanges
           /\ Starts(orig, N, O) /\ Keeps(orig, N, O, {}, {}) /\ Covers(orig, N, O, {})
           /\ Score(rcpt, R, V, N) /\ Follows(orig, rcpt, heldBar, N, O, R, V)
           /\ Frames(exchange, orig, rcpt, heldBar, N, O, R)
  BY AgreeIs
<1>2. PICK kept, mpdus, answer, bar :
           /\ kept = Cleaned(orig) /\ ~ BarReady(kept, Queued)
           /\ \E n \in 1 .. Len(Ready(kept)) : mpdus = SubSeq(Ready(kept), 1, n)
           /\ answer \in {"none", "ack", "blockAck", "askedLater"}
           /\ answer = "ack" => DistanceOf(kept, Last(mpdus)) = 0
           /\ bar = IF answer = "askedLater" THEN [kind |-> "bar", start |-> kept.start] ELSE kept.bar
           /\ exchange' = [phase |-> "sent", sort |-> IF answer = "askedLater" THEN "none" ELSE answer,
                           mpdus |-> mpdus, start |-> NoSeq, reply |-> NoReply]
           /\ orig' = Stored([kept EXCEPT !.retry = @ \ Range(mpdus), !.bar = bar], mpdus)
           /\ numbered' = numbered + Cardinality(Range(mpdus) \ kept.retry)
  BY SendDataIs
<1>3. KeepsExpired /\ arrived' = arrived /\ heldBar' = heldBar /\ rcpt' = rcpt /\ heldBar = NoSeq
  BY DEF SendData
<1>4. Types /\ OldestFirst(orig)
  BY DEF SessionInv
<1>5. PICK A \in Nat :
        /\ Ages(orig, kept, N, O, A)
        /\ kept.bar.kind = "bar" \/ (kept.bar = orig.bar /\ A = O)
  <2>1. Keeps(orig, N, O, {}, expired) BY <1>1, KeepsMore
  <2>2. \E A \in Nat :
          /\ Ages(orig, kept, N, O, A)
          /\ kept.bar.kind = "bar" \/ (kept.bar = orig.bar /\ A = O)
    <3>1. kept = Cleaned(orig) BY <1>2
    <3> QED BY <1>1, <1>4, <2>1, <3>1, CleanedIs
  <2> QED BY <2>2
<1>6. kept.bar.kind # "bar" /\ A = O /\ kept.bar = orig.bar
  BY <1>2, <1>5 DEF BarReady
<1>7. /\ kept \in Originators /\ Starts(kept, N, O) /\ Keeps(kept, N, O, {}, {}) /\ Covers(kept, N, O, {})
      /\ kept.outstanding \subseteq orig.outstanding /\ kept.retry \subseteq orig.retry
      /\ \A i \in O .. N - 1 : NumberOf(i) \in kept.acked <=> NumberOf(i) \in orig.acked
  BY <1>5, <1>6 DEF Ages, Narrows
<1>8. PICK M : Batch(kept, mpdus, N, O, M)
  <2>1. PICK n \in 1 .. Len(Ready(kept)) : mpdus = SubSeq(Ready(kept), 1, n) BY <1>2
  <2>2. arrived \in Nat /\ N =< arrived /\ arrived =< MaxMsdus BY <1>1, <1>4 DEF Types
  <2> QED BY <1>1, <1>7, <2>1, <2>2, BatchIs
<1>9. /\ M \in Nat /\ N =< M /\ M =< O + WinSize /\ M =< arrived /\ numbered' = M
      /\ mpdus \in Seq(Ids) /\ Ascending(mpdus) /\ O \in Int /\ N \in Int /\ WinSize \in Nat
  BY <1>1, <1>2, <1>8, Sizes DEF Batch
<1>10. bar \in [kind : {"none", "bar", "skip"}, start : Seqs \cup {NoSeq}]
  BY <1>2, <1>7 DEF Originators
<1>11. PICK p : p = Stored([kept EXCEPT !.retry = @ \ Range(mpdus), !.bar = bar], mpdus)
  OBVIOUS
<1>12. Takes(kept, p, mpdus, bar, M, O)
  BY <1>1, <1>7, <1>8, <1>10, <1>11, TakenIs
<1>13. /\ p \in Originators /\ p.outstanding = kept.outstanding \cup Range(mpdus)
       /\ p.retry = kept.retry \ Range(mpdus) /\ p.bar = bar
       /\ p.start = kept.start /\ p.acked = kept.acked
       /\ Starts(p, M, O) /\ Keeps(p, M, O, {}, {}) /\ Covers(p, M, O, {})
  BY <1>12 DEF Takes
<1>14. orig' = p
  BY <1>2, <1>11
<1>15. \A m \in Range(mpdus) : m \in Int /\ O =< m /\ m < M /\ (m \in kept.retry \/ N =< m)
  <2>1. \A m \in Range(mpdus) : O =< m /\ (m \in kept.retry \/ (N =< m /\ m < M)) BY <1>8 DEF Batch
  <2>2. \A m \in Range(mpdus) : m \in Int
    <3>1. \A m \in Range(mpdus) : m \in Ids BY <1>9, LenProperties, ElementOfSeq DEF Range
    <3> QED BY <3>1, Sizes DEF Ids
  <2>3. \A m \in kept.retry : m < N BY <1>7 DEF Keeps
  <2> QED BY <1>9, <2>1, <2>2, <2>3
<1>16. O =< R
  <2>1. kept.bar.kind = "none"
    <3>1. kept.bar.kind \in {"none", "bar", "skip"} BY <1>7 DEF Originators
    <3>2. ASSUME kept.bar.kind = "skip" PROVE FALSE
      <4>1. kept.retry = {} /\ ~ (Queued > 0) BY <1>2, <3>2 DEF BarReady
      <4>2. M =< N BY <1>1, <1>4, <1>9, <4>1 DEF Queued, Types
      <4>3. \A m \in Range(mpdus) : FALSE BY <1>9, <1>15, <4>1, <4>2
      <4>4. 1 \in DOMAIN mpdus BY <1>8, LenProperties DEF Batch
      <4> QED BY <4>3, <4>4 DEF Range
    <3> QED BY <1>6, <3>1, <3>2
  <2> QED BY <1>1, <1>3, <1>6, <2>1 DEF Follows
<1>17. Score(rcpt, R, V, M)
  <2>1. M =< R + WinSize BY <1>1, <1>9, <1>16
  <2> QED BY <1>1, <1>9, <2>1, ScoreGrows
<1>18. \A b \in Range(rcpt.buffer) : b < N /\ R < b
  BY <1>1 DEF Score
<1>19. NumberOf(O) \in Seqs /\ kept.start = NumberOf(O) /\ O =< N
  <2>1. kept.start = NumberOf(O) /\ O =< N BY <1>7 DEF Starts
  <2> QED BY <1>1, <2>1, NumberType
<1>20. Follows(p, rcpt, NoSeq, M, O, R, V)
  <2>1. \A i \in O .. M - 1 : NumberOf(i) \in p.acked => Got(rcpt, R, i)
    <3>1. SUFFICES ASSUME NEW i \in O .. M - 1, NumberOf(i) \in p.acked PROVE Got(rcpt, R, i)
      OBVIOUS
    <3>2. kept.acked \subseteq Numbers(O, N - 1) BY <1>7 DEF Starts
    <3>3. SeqSpace \in Nat /\ 4 * WinSize < SeqSpace BY Sizes
    <3>4. i \in Int /\ O =< i /\ i < O + SeqSpace /\ (N - 1) - SeqSpace < i /\ N - 1 \in Int
      <4>1. O =< N /\ N =< O + WinSize BY <1>7 DEF Starts
      <4> QED BY <1>1, <1>9, <3>3, <4>1
    <3>5. NumberOf(i) \in Numbers(O, N - 1) <=> i \in O .. N - 1 BY <1>9, <3>4, HasNumber
    <3>6. i \in O .. N - 1 BY <1>13, <3>1, <3>2, <3>5
    <3> QED BY <1>1, <1>7, <1>13, <3>1, <3>6 DEF Follows
  <2>2. \A m \in p.retry : m \notin Range(rcpt.buffer) BY <1>1, <1>7, <1>13 DEF Follows
  <2> QED BY <1>1, <1>16, <2>1, <2>2 DEF Follows
<1>21. PICK x : x = exchange'
  OBVIOUS
<1>22. /\ x.phase = "sent" /\ x.mpdus = mpdus /\ x.start = NoSeq /\ x.reply = NoReply
       /\ x.sort \in {"none", "ack", "blockAck"}
       /\ x.sort = "ack" => DistanceOf(kept, Last(mpdus)) = 0
  BY <1>2, <1>21
<1>23. x \in Exchanges
  <2>1. NoReply \in [sort : {"none", "ack", "blockAck"}, start : Seqs \cup {NoSeq}, received : SUBSET Seqs]
    BY DEF NoReply
  <2> QED BY <1>2, <1>9, <1>21, <1>22, <2>1 DEF Exchanges
<1>24. Frames(x, p, rcpt, NoSeq, M, O, R)
  <2>1. ASSUME NEW m \in Range(mpdus)
        PROVE  M - WinSize =< m /\ m < M /\ m \notin Range(rcpt.buffer) /\ m \in p.outstanding
    <3>1. m \in Int /\ O =< m /\ m < M /\ (m \in kept.retry \/ N =< m) BY <1>15
    <3>2. M - WinSize =< m BY <1>9, <3>1
    <3>3. m \notin Range(rcpt.buffer)
      <4>1. CASE m \in kept.retry
        BY <1>1, <1>7, <4>1 DEF Follows
      <4>2. CASE N =< m
        BY <1>9, <1>18, <3>1, <4>2
      <4> QED BY <3>1, <4>1, <4>2
    <3> QED BY <1>13, <3>1, <3>2, <3>3
  <2>2. x.sort = "ack" => Len(mpdus) = 1 /\ mpdus[1] =< R
    <3>1. SUFFICES ASSUME x.sort = "ack" PROVE Len(mpdus) = 1 /\ mpdus[1] =< R OBVIOUS
    <3>2. \A m \in kept.retry : m < N BY <1>7 DEF Keeps
    <3>3. N =< O + WinSize /\ kept.start = NumberOf(O) BY <1>7 DEF Starts
    <3>4. Len(mpdus) = 1 /\ mpdus[1] = O
      BY <1>1, <1>8, <1>22, <3>1, <3>2, <3>3, OnlyOne
    <3> QED BY <1>16, <3>4
  <2> QED BY <1>9, <1>22, <2>1, <2>2 DEF Frames, NoReply
<1>25. \A m \in p.outstanding \cup p.retry : m \in Kept \/ N =< m
  BY <1>7, <1>13, <1>15 DEF Kept
<1>26. Types'
  <2>1. expired' \subseteq Kept' BY <1>3 DEF KeepsExpired
  <2> QED BY <1>3, <1>4, <1>9, <1>13, <1>14, <1>21, <1>23, <2>1 DEF Types
<1>27. OldestFirst(orig)'
  <2>1. \A m \in Kept : m \in Int /\ m < N
    <3>1. Kept \subseteq Ids BY <1>4 DEF Types, Kept, Originators
    <3>2. \A m \in Kept : m < N BY <1>1 DEF Keeps, Kept
    <3> QED BY <3>1, <3>2, Sizes DEF Ids
  <2>2. ASSUME NEW m \in p.outstanding \cup p.retry, NEW n \in p.outstanding \cup p.retry,
               m \in expired', n < m
        PROVE  n \in expired'
    <3>1. m \in expired /\ m \in Kept BY <1>3, <1>4, <2>2 DEF KeepsExpired, Types
    <3>2. n \in Ids BY <1>13 DEF Originators
    <3>3. ~ (N =< n) BY <1>9, <2>1, <2>2, <3>1, <3>2, Sizes DEF Ids
    <3>4. n \in Kept BY <1>25, <3>3
    <3>5. n \in expired BY <1>4, <2>2, <3>1, <3>4 DEF OldestFirst, IsExpired, Kept
    <3>6. n \in Kept' BY <1>14 DEF Kept
    <3> QED BY <1>3, <3>5, <3>6 DEF KeepsExpired
  <2> QED BY <1>14, <2>2 DEF OldestFirst, IsExpired
<1>28. Agree(orig', rcpt', heldBar', exchange', numbered', O, R, V)
  BY <1>3, <1>9, <1>13, <1>14, <1>17, <1>20, <1>21, <1>24 DEF Agree, Windows
<1>29. SessionInv'
  BY <1>1, <1>26, <1>27, <1>28, InvIsKept
<1> QED BY <1>1, <1>9, <1>29

-----------------------------------------------------------------------------
(* The recipient.                                                          *)

LEMMA FollowsHeard ==
  ASSUME NEW o, NEW r, NEW p, NEW bar, NEW N \in Nat, NEW O \in Nat, NEW R \in Nat, NEW V \in Nat,
         Starts(o, N, O), Keeps(o, N, O, {}, {}), Follows(o, r, bar, N, O, R, V),
         NEW Q \in Nat, NEW U \in Nat, NEW t, NEW D, U =< O, Score(r, R, V, N), Score(p, Q, U, N),
         Advances(r, R, p, Q, t), \A i \in R .. Q - 1 : O =< i => i \in Range(t),
         \A i \in Int : O =< i => (Got(p, Q, i) <=> Got(r, R, i) \/ i \in D),
         \A m \in o.retry : m \notin D,
         bar # NoSeq => \E H \in 0 .. O : bar = NumberOf(H) /\ N - WinSize =< H /\ U =< H
  PROVE  Follows(o, p, bar, N, O, Q, U)
<1>1. /\ O \in Int /\ N \in Int /\ O =< N /\ N =< O + WinSize /\ WinSize \in Nat
      /\ R =< Q /\ Q =< N
  BY Sizes DEF Starts, Score, Advances
<1>2. Remembers(r, R)
  BY DEF Score
<1>3. \A m \in Range(r.delivered) : Q - WinSize =< m => m \in Range(p.delivered)
  BY <1>2, RemembersOn
<1>4. \A m \in Range(t) : Q - WinSize =< m => m \in Range(p.delivered)
  BY <1>2, RemembersOn
<1>5. ASSUME NEW i \in O .. Q - 1 PROVE i \in Range(p.delivered)
  <2>1. i \in Int /\ O =< i /\ i < Q /\ Q - WinSize =< i BY <1>1
  <2>2. CASE i < R
    <3>1. i \in O .. R - 1 BY <1>1, <2>1, <2>2
    <3>2. i \in Range(r.delivered) BY <3>1 DEF Follows
    <3> QED BY <1>3, <2>1, <3>2
  <2>3. CASE ~ (i < R)
    <3>1. i \in R .. Q - 1 BY <1>1, <2>1, <2>3
    <3> QED BY <1>4, <2>1, <3>1
  <2> QED BY <2>2, <2>3
<1>6. ASSUME NEW i \in O .. N - 1, NumberOf(i) \in o.acked PROVE Got(p, Q, i)
  <2>1. i \in Int /\ O =< i BY <1>1
  <2>2. Got(r, R, i) BY <1>6 DEF Follows
  <2> QED BY <2>1, <2>2
<1>7. ASSUME NEW m \in o.retry, m \in Range(p.buffer) PROVE FALSE
  <2>1. p.buffer \in Seq(Ids) BY DEF Advances, Recipients
  <2>2. m \in Int
    <3>1. m \in Ids BY <1>7, <2>1, LenProperties, ElementOfSeq DEF Range
    <3> QED BY <3>1, Sizes DEF Ids
  <2>3. O =< m BY <1>7 DEF Keeps
  <2>4. Got(r, R, m) BY <1>7, <2>2, <2>3 DEF Got
  <2>5. m \notin Range(r.buffer) BY <1>7 DEF Follows
  <2>6. m < R BY <2>4, <2>5 DEF Got
  <2>7. Q < m BY <1>7 DEF Score
  <2> QED BY <1>1, <2>2, <2>6, <2>7
<1>8. o.bar.kind = "none" => IF bar = NoSeq THEN O =< Q ELSE bar = o.start
  <2>1. O =< R => O =< Q BY <1>1
  <2> QED BY <2>1 DEF Follows
<1> QED BY <1>5, <1>6, <1>7, <1>8 DEF Follows

(* How what is received is passed up, and counted.                         *)
LEMMA DataIsHeard ==
  ASSUME NEW N \in Nat, NEW O, NEW R, NEW V \in Nat, NEW bar, exchange \in Exchanges, Score(rcpt, R, V, N),
         Frames(exchange, orig, rcpt, bar, N, O, R), NEW got, ReceiveData(got)
  PROVE  \E Q, U, t : Hears(rcpt, rcpt', Range(exchange.mpdus) \cap got, R, Q, V, U, N, t)
<1>1. PICK mpdus : mpdus = exchange.mpdus
  OBVIOUS
<1>2. PICK after : after = Heard(rcpt, mpdus, got)
  OBVIOUS
<1>3. /\ exchange.phase = "sent"
      /\ rcpt' = IF exchange.sort = "ack" /\ got # {} THEN MoveTo(after, after.start) ELSE after
  BY <1>1, <1>2 DEF ReceiveData
<1>4. PICK Q, U, t : Hears(rcpt, after, Range(mpdus) \cap got, R, Q, V, U, N, t)
  <2>1. mpdus \in Seq(Ids) BY <1>1 DEF Exchanges
  <2>2. \A i \in 1 .. Len(mpdus) : mpdus[i] \in Range(mpdus) /\ mpdus[i] \in Int
    <3>1. \A i \in 1 .. Len(mpdus) : mpdus[i] \in Ids BY <2>1, ElementOfSeq
    <3>2. DOMAIN mpdus = 1 .. Len(mpdus) BY <2>1, LenProperties
    <3> QED BY <3>1, <3>2, Sizes DEF Ids, Range
  <2>3. \A i \in 1 .. Len(mpdus) :
          N - WinSize =< mpdus[i] /\ mpdus[i] < N /\ mpdus[i] \notin Range(rcpt.buffer)
    BY <1>1, <1>3, <2>2 DEF Frames
  <2>4. \A i, j \in 1 .. Len(mpdus) : i < j => mpdus[i] # mpdus[j]
    <3>1. Ascending(mpdus) BY <1>1 DEF Frames
    <3> QED BY <2>2, <3>1 DEF Ascending
  <2> QED BY <1>2, <2>1, <2>3, <2>4, AllHeard
<1>5. CASE exchange.sort = "ack" /\ got # {}
  <2>1. Score(after, Q, U, N) BY <1>4 DEF Hears
  <2>2. PICK S, u : Hears(after, MoveTo(after, after.start), {}, Q, S, U, U, N, u)
    BY <2>1, PassedUpIs
  <2>3. Hears(rcpt, MoveTo(after, after.start), (Range(mpdus) \cap got) \cup {}, R, S, V, U, N, t \o u)
    BY <1>4, <2>2, HearsOn
  <2>4. (Range(mpdus) \cap got) \cup {} = Range(mpdus) \cap got OBVIOUS
  <2>5. rcpt' = MoveTo(after, after.start) BY <1>3, <1>5
  <2> QED BY <1>1, <2>3, <2>4, <2>5
<1>6. CASE ~ (exchange.sort = "ack" /\ got # {})
  <2>1. rcpt' = after BY <1>3, <1>6
  <2> QED BY <1>1, <1>4, <2>1
<1> QED BY <1>5, <1>6

LEMMA ReceiveDataKeeps ==
  ASSUME SessionInv, NEW got \in SUBSET Range(exchange.mpdus), ReceiveData(got)
  PROVE  SessionInv'
<1>1. PICK N, O, R, V \in Nat :
           /\ N = numbered /\ orig \in Originators /\ exchange \in Exchanges
           /\ Starts(orig, N, O) /\ Keeps(orig, N, O, {}, {}) /\ Covers(orig, N, O, {})
           /\ Score(rcpt, R, V, N) /\ Follows(orig, rcpt, heldBar, N, O, R, V)
           /\ Frames(exchange, orig, rcpt, heldBar, N, O, R)
  BY AgreeIs
<1>2. PICK mpdus, after : mpdus = exchange.mpdus /\ after = Heard(rcpt, mpdus, got)
  OBVIOUS
<1>3. PICK reply :
        reply = IF got = {} \/ exchange.sort = "none" THEN NoReply
                ELSE IF exchange.sort = "ack" THEN [NoReply EXCEPT !.sort = "ack"]
                ELSE BlockAckFrom(after, after.winStart)
  OBVIOUS
<1>4. /\ exchange.phase = "sent" /\ exchange.sort # "bar"
      /\ rcpt' = IF exchange.sort = "ack" /\ got # {} THEN MoveTo(after, after.start) ELSE after
      /\ exchange' = [exchange EXCEPT !.phase = "over", !.reply = reply]
      /\ arrived' = arrived /\ numbered' = numbered /\ expired' = expired /\ orig' = orig
      /\ heldBar' = heldBar
  BY <1>2, <1>3 DEF ReceiveData
<1>5. Types /\ OldestFirst(orig)
  BY DEF SessionInv
<1>6. heldBar = NoSeq
  BY <1>1, <1>4 DEF Frames
<1>7. PICK Q, U, t : Hears(rcpt, rcpt', Range(mpdus) \cap got, R, Q, V, U, N, t)
  BY <1>1, <1>2, DataIsHeard
<1>8. PICK r : r = rcpt'
  OBVIOUS
<1>9. /\ Score(r, Q, U, N) /\ V =< U /\ (U = V \/ U =< N - WinSize)
      /\ Advances(rcpt, R, r, Q, t) /\ \A i \in R .. Q - 1 : i \in Range(t)
      /\ \A i \in Int : Got(r, Q, i) <=> Got(rcpt, R, i) \/ i \in got
  <2>1. Range(mpdus) \cap got = got BY <1>2
  <2> QED BY <1>7, <1>8, <2>1 DEF Hears
<1>10. /\ Q \in Nat /\ U \in Nat /\ R =< Q /\ Q =< N /\ O =< N /\ N =< O + WinSize
       /\ WinSize \in Nat /\ O \in Int /\ N \in Int /\ r \in Recipients /\ r.winStart = NumberOf(U)
  BY <1>1, <1>9, Sizes DEF Score, Remembers, Advances, Starts
<1>11. U =< O
  <2>1. V =< O BY <1>1 DEF Follows
  <2> QED BY <1>9, <1>10, <2>1
<1>12. \A m \in Range(mpdus) : O =< m => m \in orig.outstanding
  BY <1>1, <1>2 DEF Frames
<1>13. \A m \in orig.retry : m \notin got
  <2>1. SUFFICES ASSUME NEW m \in orig.retry, m \in got PROVE FALSE OBVIOUS
  <2>2. O =< m BY <1>1, <2>1 DEF Keeps
  <2>3. m \in orig.outstanding BY <1>2, <1>12, <2>1, <2>2
  <2> QED BY <1>1, <2>1, <2>3 DEF Keeps
<1>14. Follows(orig, r, NoSeq, N, O, Q, U)
  <2>1. \A i \in R .. Q - 1 : O =< i => i \in Range(t) BY <1>9
  <2>2. \A i \in Int : O =< i => (Got(r, Q, i) <=> Got(rcpt, R, i) \/ i \in got) BY <1>9
  <2> QED BY <1>1, <1>6, <1>9, <1>10, <1>11, <1>13, <2>1, <2>2, FollowsHeard
<1>15. PICK x : x = exchange'
  OBVIOUS
<1>16. /\ x.phase = "over" /\ x.sort = exchange.sort /\ x.mpdus = mpdus /\ x.start = exchange.start
       /\ x.reply = reply /\ x.sort \in {"none", "ack", "blockAck"} /\ mpdus \in Seq(Ids)
  BY <1>1, <1>2, <1>4, <1>15 DEF Exchanges
<1>17. reply.sort = "blockAck" => x.sort = "blockAck" /\ r = after /\ reply = BlockAckFrom(r, NumberOf(U))
  BY <1>3, <1>4, <1>8, <1>10, <1>16 DEF NoReply
<1>18. reply.sort = "ack" => x.sort = "ack" /\ got # {}
  BY <1>3, <1>16 DEF NoReply, BlockAckFrom
<1>19. reply \in [sort : {"none", "ack", "blockAck"}, start : Seqs \cup {NoSeq}, received : SUBSET Seqs]
  <2>1. CASE got = {} \/ exchange.sort = "none" \/ exchange.sort = "ack"
    BY <1>3, <2>1 DEF NoReply
  <2>2. CASE ~ (got = {} \/ exchange.sort = "none" \/ exchange.sort = "ack")
    <3>1. reply = BlockAckFrom(r, r.winStart) BY <1>3, <1>4, <1>8, <2>2
    <3>2. r.winStart \in Seqs /\ r.bitmap \in SUBSET Seqs BY <1>10 DEF Recipients
    <3> QED BY <3>1, <3>2 DEF BlockAckFrom
  <2> QED BY <2>1, <2>2
<1>20. Frames(x, orig, r, NoSeq, N, O, Q)
  <2>1. Ascending(mpdus) /\ \A m \in Range(mpdus) : N - WinSize =< m /\ m < N
    BY <1>1, <1>2 DEF Frames
  <2>2. x.sort = "ack" => Len(mpdus) = 1 /\ mpdus[1] =< R /\ mpdus[1] \in Int /\ Range(mpdus) = {mpdus[1]}
    <3>1. SUFFICES ASSUME x.sort = "ack"
                   PROVE  Len(mpdus) = 1 /\ mpdus[1] =< R /\ mpdus[1] \in Int /\ Range(mpdus) = {mpdus[1]}
      OBVIOUS
    <3>2. Len(mpdus) = 1 /\ mpdus[1] =< R BY <1>1, <1>2, <1>16, <3>1 DEF Frames
    <3>3. DOMAIN mpdus = 1 .. 1 /\ mpdus[1] \in Ids
      <4>1. DOMAIN mpdus = 1 .. Len(mpdus) BY <1>16, LenProperties
      <4>2. \A i \in 1 .. Len(mpdus) : mpdus[i] \in Ids BY <1>16, ElementOfSeq
      <4> QED BY <3>2, <4>1, <4>2
    <3>4. Range(mpdus) = {mpdus[1]} BY <3>3 DEF Range
    <3> QED BY <3>2, <3>3, <3>4, Sizes DEF Ids
  <2>3. x.sort = "ack" => mpdus[1] =< Q
    BY <1>10, <2>2
  <2>4. reply.sort = "ack" => x.sort = "ack" /\ mpdus[1] < Q
    <3>1. SUFFICES ASSUME reply.sort = "ack" PROVE x.sort = "ack" /\ mpdus[1] < Q OBVIOUS
    <3>2. x.sort = "ack" /\ got # {} BY <1>18, <3>1
    <3>3. mpdus[1] \in got /\ mpdus[1] \in Int BY <1>2, <2>2, <3>2
    <3>4. Got(r, Q, mpdus[1]) BY <1>9, <3>3
    <3>5. mpdus[1] \in Range(r.buffer) => Q < mpdus[1] BY <1>9 DEF Score
    <3> QED BY <1>10, <2>3, <3>2, <3>3, <3>4, <3>5 DEF Got
  <2>5. ASSUME reply.sort = "blockAck", NEW i \in O .. N - 1
        PROVE  /\ NumberOf(i) \in reply.received => Got(r, Q, i)
               /\ i \in Range(r.buffer) => NumberOf(i) \in reply.received
    <3>1. i \in U .. N - 1 BY <1>10, <1>11
    <3>2. reply = BlockAckFrom(r, NumberOf(U)) BY <1>17, <2>5
    <3> QED BY <1>9, <3>1, <3>2, ReplyIs
  <2> QED BY <1>12, <1>16, <1>17, <2>1, <2>2, <2>3, <2>4, <2>5 DEF Frames
<1>21. Types' /\ OldestFirst(orig)'
  <2>1. Kept' = Kept BY <1>4 DEF Kept
  <2>2. exchange' \in Exchanges BY <1>1, <1>4, <1>19 DEF Exchanges
  <2>3. Types' BY <1>4, <1>5, <2>1, <2>2 DEF Types
  <2>4. OldestFirst(orig)' BY <1>4, <1>5 DEF OldestFirst, IsExpired
  <2> QED BY <2>3, <2>4
<1>22. Agree(orig', rcpt', heldBar', exchange', numbered', O, Q, U)
  BY <1>1, <1>4, <1>6, <1>8, <1>9, <1>14, <1>15, <1>20 DEF Agree, Windows
<1> QED BY <1>1, <1>10, <1>21, <1>22, InvIsKept

LEMMA ReceiveBarKeeps ==
  ASSUME SessionInv, ReceiveBar
  PROVE  SessionInv'
<1>1. PICK N, O, R, V \in Nat :
           /\ N = numbered /\ orig \in Originators /\ exchange \in Exchanges
           /\ Starts(orig, N, O) /\ Keeps(orig, N, O, {}, {}) /\ Covers(orig, N, O, {})
           /\ Score(rcpt, R, V, N) /\ Follows(orig, rcpt, heldBar, N, O, R, V)
           /\ Frames(exchange, orig, rcpt, heldBar, N, O, R)
  BY AgreeIs
<1>2. PICK asked : asked = UpdateWithBlockAckReq(rcpt, exchange.start)
  OBVIOUS
<1>3. PICK reply : reply = BlockAckFrom(asked, exchange.start)
  OBVIOUS
<1>4. /\ exchange.phase = "sent" /\ exchange.sort = "bar"
      /\ rcpt' = IF IsOld(asked.start, exchange.start) THEN asked ELSE MoveTo(asked, exchange.start)
      /\ exchange' = [exchange EXCEPT !.phase = "over", !.reply = reply]
      /\ arrived' = arrived /\ numbered' = numbered /\ expired' = expired /\ orig' = orig
      /\ heldBar' = heldBar
  BY <1>2, <1>3 DEF ReceiveBar
<1>5. Types /\ OldestFirst(orig)
  BY DEF SessionInv
<1>6. heldBar # NoSeq /\ exchange.start = heldBar
  BY <1>1, <1>4 DEF Frames
<1>7. PICK H \in 0 .. O : heldBar = NumberOf(H) /\ N - WinSize =< H /\ V =< H
  BY <1>1, <1>6 DEF Follows
<1>8. /\ H \in Nat /\ H =< O /\ O =< N /\ H =< N /\ N =< O + WinSize /\ WinSize \in Nat
      /\ O \in Int /\ N \in Int
  <2>1. O =< N /\ N =< O + WinSize BY <1>1 DEF Starts
  <2> QED BY <1>1, <2>1, Sizes
<1>9. PICK r : r = rcpt'
  OBVIOUS
<1>10. PICK Q \in Nat : \E t : HearsBar(rcpt, asked, r, R, Q, V, H, N, t)
  <2>1. asked = UpdateWithBlockAckReq(rcpt, NumberOf(H)) BY <1>2, <1>6, <1>7
  <2>2. r = IF IsOld(asked.start, NumberOf(H)) THEN asked ELSE MoveTo(asked, NumberOf(H))
    BY <1>4, <1>6, <1>7, <1>9
  <2>3. Score(rcpt, R, V, N) /\ H \in Nat /\ V =< H /\ N - WinSize =< H /\ H =< N
    BY <1>1, <1>7, <1>8
  <2> QED BY <2>1, <2>2, <2>3, BarIsHeard
<1>11. PICK t : HearsBar(rcpt, asked, r, R, Q, V, H, N, t)
  BY <1>10
<1>12. /\ Score(r, Q, H, N) /\ H =< Q /\ asked.bitmap = r.bitmap
       /\ Advances(rcpt, R, r, Q, t) /\ \A i \in H .. Q - 1 : R =< i => i \in Range(t)
       /\ \A i \in Int : H =< i => (Got(r, Q, i) <=> Got(rcpt, R, i))
  BY <1>11 DEF HearsBar
<1>13. Follows(orig, r, heldBar, N, O, Q, H)
  <2>1. \A i \in R .. Q - 1 : O =< i => i \in Range(t)
    <3>1. SUFFICES ASSUME NEW i \in R .. Q - 1, O =< i PROVE i \in Range(t) OBVIOUS
    <3>2. i \in H .. Q - 1 /\ R =< i BY <1>1, <1>8, <3>1
    <3> QED BY <1>12, <3>2
  <2>2. PICK D : D = {} OBVIOUS
  <2>3. \A i \in Int : O =< i => (Got(r, Q, i) <=> Got(rcpt, R, i) \/ i \in D)
    <3>1. \A i \in Int : O =< i => H =< i BY <1>8
    <3> QED BY <1>12, <2>2, <3>1
  <2>4. \A m \in orig.retry : m \notin D BY <2>2
  <2>5. Starts(orig, N, O) /\ Keeps(orig, N, O, {}, {}) /\ Score(rcpt, R, V, N) BY <1>1
  <2>6. Follows(orig, rcpt, heldBar, N, O, R, V) BY <1>1
  <2>7. Score(r, Q, H, N) /\ Advances(rcpt, R, r, Q, t) /\ H =< O /\ H \in Nat BY <1>8, <1>12
  <2>8. \E G \in 0 .. O : heldBar = NumberOf(G) /\ N - WinSize =< G /\ H =< G
    <3>1. H =< H BY <1>8
    <3> QED BY <1>7, <3>1
  <2> QED BY <2>1, <2>3, <2>4, <2>8, <2>5, <2>6, <2>7, FollowsHeard
<1>14. PICK x : x = exchange'
  OBVIOUS
<1>15. reply = BlockAckFrom(r, NumberOf(H)) /\ reply.sort = "blockAck"
  BY <1>3, <1>6, <1>7, <1>12 DEF BlockAckFrom
<1>16. /\ x.phase = "over" /\ x.sort = "bar" /\ x.mpdus = exchange.mpdus /\ x.start = heldBar
       /\ x.reply = reply
  BY <1>1, <1>4, <1>6, <1>14 DEF Exchanges
<1>17. ASSUME NEW i \in O .. N - 1
       PROVE  /\ NumberOf(i) \in reply.received => Got(r, Q, i)
              /\ i \in Range(r.buffer) => NumberOf(i) \in reply.received
  <2>1. i \in H .. N - 1 BY <1>8
  <2> QED BY <1>12, <1>15, <2>1, ReplyIs
<1>18. orig.bar.kind = "none" => O =< Q
  <2>1. SUFFICES ASSUME orig.bar.kind = "none" PROVE O =< Q OBVIOUS
  <2>2. heldBar = orig.start /\ orig.start = NumberOf(O)
    BY <1>1, <1>6, <2>1 DEF Follows, Starts
  <2>3. -SeqSpace < H - O /\ H - O < SeqSpace BY <1>7, <1>8, Sizes
  <2>4. H = O
    <3>1. NumberOf(H) = NumberOf(O) /\ H \in Int BY <1>7, <1>8, <2>2
    <3> QED BY <1>8, <2>3, <3>1, SameNumber
  <2> QED BY <1>12, <2>4
<1>19. Frames(x, orig, r, heldBar, N, O, Q)
  <2>1. /\ Ascending(exchange.mpdus)
        /\ \A m \in Range(exchange.mpdus) :
             N - WinSize =< m /\ m < N /\ (O =< m => m \in orig.outstanding)
    BY <1>1 DEF Frames
  <2> QED BY <1>6, <1>15, <1>16, <1>17, <1>18, <2>1 DEF Frames
<1>20. Types' /\ OldestFirst(orig)'
  <2>1. Kept' = Kept BY <1>4 DEF Kept
  <2>2. reply \in [sort : {"none", "ack", "blockAck"}, start : Seqs \cup {NoSeq}, received : SUBSET Seqs]
    <3>1. r.bitmap \in SUBSET Seqs /\ NumberOf(H) \in Seqs
      <4>1. r \in Recipients BY <1>12 DEF Advances
      <4> QED BY <1>8, <4>1, NumberType DEF Recipients
    <3> QED BY <1>15, <3>1 DEF BlockAckFrom
  <2>3. exchange' \in Exchanges BY <1>1, <1>4, <2>2 DEF Exchanges
  <2>4. Types' BY <1>4, <1>5, <2>1, <2>3 DEF Types
  <2>5. OldestFirst(orig)' BY <1>4, <1>5 DEF OldestFirst, IsExpired
  <2> QED BY <2>4, <2>5
<1>21. Agree(orig', rcpt', heldBar', exchange', numbered', O, Q, H)
  BY <1>1, <1>4, <1>9, <1>12, <1>13, <1>14, <1>19 DEF Agree, Windows
<1> QED BY <1>1, <1>8, <1>20, <1>21, InvIsKept

LEMMA BarIsLostKeeps ==
  ASSUME SessionInv, BarIsLost
  PROVE  SessionInv'
<1>1. PICK N, O, R, V \in Nat :
           /\ N = numbered /\ orig \in Originators /\ exchange \in Exchanges
           /\ Starts(orig, N, O) /\ Keeps(orig, N, O, {}, {}) /\ Covers(orig, N, O, {})
           /\ Score(rcpt, R, V, N) /\ Follows(orig, rcpt, heldBar, N, O, R, V)
           /\ Frames(exchange, orig, rcpt, heldBar, N, O, R)
  BY AgreeIs
<1>2. /\ exchange.phase = "sent" /\ exchange.sort = "bar"
      /\ exchange' = [exchange EXCEPT !.phase = "over"]
      /\ arrived' = arrived /\ numbered' = numbered /\ expired' = expired /\ orig' = orig
      /\ heldBar' = heldBar /\ rcpt' = rcpt
  BY DEF BarIsLost
<1>3. Types /\ OldestFirst(orig)
  BY DEF SessionInv
<1>4. PICK x : x = exchange'
  OBVIOUS
<1>5. /\ x \in Exchanges /\ x.phase = "over" /\ x.sort = "bar" /\ x.mpdus = exchange.mpdus
      /\ x.start = exchange.start /\ x.reply = exchange.reply
  BY <1>1, <1>2, <1>4 DEF Exchanges
<1>6. Frames(x, orig, rcpt, heldBar, N, O, R)
  <2>1. exchange.reply = NoReply BY <1>1, <1>2 DEF Frames
  <2> QED BY <1>1, <1>2, <1>5, <2>1 DEF Frames, NoReply
<1>7. Types' /\ OldestFirst(orig)'
  <2>1. Kept' = Kept BY <1>2 DEF Kept
  <2>2. Types' BY <1>2, <1>3, <1>4, <1>5, <2>1 DEF Types
  <2>3. OldestFirst(orig)' BY <1>2, <1>3 DEF OldestFirst, IsExpired
  <2> QED BY <2>2, <2>3
<1>8. Agree(orig', rcpt', heldBar', exchange', numbered', O, R, V)
  BY <1>1, <1>2, <1>4, <1>6 DEF Agree, Windows
<1> QED BY <1>7, <1>8, InvIsKept

-----------------------------------------------------------------------------
(* How exchanges end.                                                      *)

(* Every frame that o keeps is kept, or has expired.                       *)
NoneLost(o) == \A m \in o.outstanding \cup o.retry : m \in Kept' \/ IsExpired(m)

LEMMA NoneIsLost ==
  ASSUME NEW o, NEW N, NEW A, NEW B, Ages(o, orig', N, A, B)
  PROVE  NoneLost(o)
BY DEF Ages, NoneLost, Kept

LEMMA EndTxNoAckKeeps ==
  ASSUME SessionInv, EndTxNoAck
  PROVE  SessionInv' /\ NoneLost(orig)
<1>1. PICK N, O, R, V \in Nat :
           /\ N = numbered /\ orig \in Originators /\ exchange \in Exchanges
           /\ Starts(orig, N, O) /\ Keeps(orig, N, O, {}, {}) /\ Covers(orig, N, O, {})
           /\ Score(rcpt, R, V, N) /\ Follows(orig, rcpt, heldBar, N, O, R, V)
           /\ Frames(exchange, orig, rcpt, heldBar, N, O, R)
  BY AgreeIs
<1>2. exchange.phase = "over" /\ exchange.sort = "none"
  BY DEF EndTxNoAck
<1>3. PICK o : o = orig
  OBVIOUS
<1>4. Ends(o, NoSeq)
  BY <1>3 DEF EndTxNoAck, Ends
<1>5. Types /\ OldestFirst(orig)
  BY DEF SessionInv
<1>6. heldBar = NoSeq
  BY <1>1, <1>2 DEF Frames
<1>7. Keeps(o, N, O, {}, expired) /\ Follows(o, rcpt, NoSeq, N, O, R, V)
  BY <1>1, <1>3, <1>6, KeepsMore
<1>8. o.outstanding \cup o.retry \subseteq Kept
  BY <1>3 DEF Kept
<1>9. SessionInv' /\ \E B \in Nat : Ages(o, orig', numbered, O, B)
  BY <1>1, <1>3, <1>4, <1>5, <1>7, <1>8, EndsWell
<1> QED BY <1>3, <1>9, NoneIsLost

(* The frame of the exchange, which is not kept any more.                  *)
LEMMA WithoutIs ==
  ASSUME NEW o \in Originators, NEW N, NEW A, NEW m, Starts(o, N, A), Keeps(o, N, A, {}, {}),
         Covers(o, N, A, {}), NEW p, p = Without(o, m)
  PROVE  /\ p \in Originators /\ p.start = o.start /\ p.acked = o.acked /\ p.retry = o.retry
         /\ p.bar = o.bar /\ p.outstanding = o.outstanding \ {m}
         /\ Starts(p, N, A) /\ Keeps(p, N, A, {}, {}) /\ Covers(p, N, A, {m})
<1>1. /\ p \in Originators /\ p.start = o.start /\ p.acked = o.acked /\ p.retry = o.retry
      /\ p.bar = o.bar /\ p.outstanding = o.outstanding \ {m}
  BY DEF Without, Originators
<1>2. Starts(p, N, A)
  BY <1>1 DEF Starts
<1>3. Keeps(p, N, A, {}, {})
  BY <1>1 DEF Keeps
<1>4. Covers(p, N, A, {m})
  BY <1>1 DEF Covers
<1> QED BY <1>1, <1>2, <1>3, <1>4

(* The only frame of an exchange that asks for an Ack.                     *)
LEMMA AckFrameIs ==
  ASSUME NEW o, NEW r, NEW bar, NEW x \in Exchanges, NEW N, NEW A, NEW R,
         Keeps(o, N, A, {}, {}), Frames(x, o, r, bar, N, A, R), x.sort = "ack", x.phase = "over"
  PROVE  /\ bar = NoSeq /\ x.mpdus[1] \in Ids
         /\ N - WinSize =< x.mpdus[1] /\ x.mpdus[1] < N /\ x.mpdus[1] =< R
         /\ A =< x.mpdus[1] => x.mpdus[1] \in o.outstanding
         /\ x.mpdus[1] \notin o.retry
         /\ A =< x.mpdus[1] => NumberOf(x.mpdus[1]) \notin o.acked
         /\ x.reply.sort = "ack" => x.mpdus[1] < R
<1>1. PICK s \in Seq(Ids) : s = x.mpdus
  BY DEF Exchanges
<1>2. bar = NoSeq /\ Len(s) = 1 /\ s[1] =< R /\ (x.reply.sort = "ack" => s[1] < R)
  BY <1>1 DEF Frames
<1>3. s[1] \in Ids /\ s[1] \in Range(s)
  <2>1. DOMAIN s = 1 .. Len(s) BY LenProperties
  <2>2. \A i \in 1 .. Len(s) : s[i] \in Ids BY ElementOfSeq
  <2>3. 1 \in 1 .. Len(s) BY <1>2
  <2> QED BY <2>1, <2>2, <2>3 DEF Range
<1>4. N - WinSize =< s[1] /\ s[1] < N /\ (A =< s[1] => s[1] \in o.outstanding)
  BY <1>1, <1>3 DEF Frames
<1>5. s[1] \in o.retry => A =< s[1]
  BY DEF Keeps
<1>6. s[1] \in o.outstanding => s[1] \notin o.retry /\ NumberOf(s[1]) \notin o.acked
  BY DEF Keeps
<1> QED BY <1>1, <1>2, <1>3, <1>4, <1>5, <1>6

LEMMA GotAckKeeps ==
  ASSUME SessionInv, GotAck
  PROVE  /\ SessionInv'
         /\ \A m \in Kept \ Kept' : m \in Delivered \cup Buffered \/ IsExpired(m)
<1>1. PICK N, O, R, V \in Nat :
           /\ N = numbered /\ orig \in Originators /\ exchange \in Exchanges
           /\ Starts(orig, N, O) /\ Keeps(orig, N, O, {}, {}) /\ Covers(orig, N, O, {})
           /\ Score(rcpt, R, V, N) /\ Follows(orig, rcpt, heldBar, N, O, R, V)
           /\ Frames(exchange, orig, rcpt, heldBar, N, O, R)
  BY AgreeIs
<1>2. exchange.phase = "over" /\ exchange.reply.sort = "ack" /\ exchange.sort = "ack"
  BY <1>1 DEF GotAck, Frames
<1>3. PICK m : m = exchange.mpdus[1]
  OBVIOUS
<1>4. /\ heldBar = NoSeq /\ m \in Ids /\ N - WinSize =< m /\ m < N /\ m \notin orig.retry /\ m < R
  BY <1>1, <1>2, <1>3, AckFrameIs
<1>5. PICK a, o : a = Without(orig, m) /\ o = NotifyAckedMpdu(a, m)
  OBVIOUS
<1>6. Ends(o, NoSeq)
  BY <1>3, <1>5 DEF GotAck, Ends
<1>7. Types /\ OldestFirst(orig)
  BY DEF SessionInv
<1>8. /\ a \in Originators /\ a.start = orig.start /\ a.acked = orig.acked /\ a.retry = orig.retry
      /\ a.bar = orig.bar /\ a.outstanding = orig.outstanding \ {m}
      /\ Starts(a, N, O) /\ Keeps(a, N, O, {}, {}) /\ Covers(a, N, O, {m})
  BY <1>1, <1>5, WithoutIs
<1>9. m \notin a.outstanding /\ m \notin a.retry
  BY <1>4, <1>8
<1>10. /\ o \in Originators /\ o.outstanding = a.outstanding /\ o.retry = a.retry /\ o.bar = a.bar
  BY <1>1, <1>4, <1>5, <1>8, <1>9, AckedIs
<1>11. PICK B \in Nat :
         Acks(a, o, m, N, O, B) /\ Keeps(o, N, B, {}, {}) /\ Covers(o, N, B, {m} \ {m})
  BY <1>1, <1>4, <1>5, <1>8, <1>9, AckedIs
<1>12. Starts(o, N, B) /\ O =< B /\ B =< N
  BY <1>11 DEF Acks, Starts
<1>13. Covers(o, N, B, {}) /\ Keeps(o, N, B, {}, expired)
  <2>1. {m} \ {m} = {} OBVIOUS
  <2> QED BY <1>11, <2>1, KeepsMore
<1>14. ASSUME NEW i \in O .. N - 1, i < B \/ NumberOf(i) \in o.acked PROVE Got(rcpt, R, i)
  <2>1. i = m \/ NumberOf(i) \in orig.acked BY <1>8, <1>11, <1>14 DEF Acks
  <2>2. CASE i = m
    BY <1>4, <2>2 DEF Got
  <2>3. CASE NumberOf(i) \in orig.acked
    BY <1>1, <2>3 DEF Follows
  <2> QED BY <2>1, <2>2, <2>3
<1>15. Follows(o, rcpt, NoSeq, N, B, R, V)
  <2>1. V =< B BY <1>1, <1>12 DEF Follows
  <2>2. \A i \in B .. R - 1 : i \in O .. R - 1 BY <1>1, <1>12
  <2>3. \A i \in B .. R - 1 : i \in Range(rcpt.delivered) BY <1>1, <2>2 DEF Follows
  <2>4. \A i \in B .. N - 1 : i \in O .. N - 1 BY <1>1, <1>12
  <2>5. \A i \in B .. N - 1 : NumberOf(i) \in o.acked => Got(rcpt, R, i) BY <1>14, <2>4
  <2>6. \A n \in o.retry : n \notin Range(rcpt.buffer) BY <1>1, <1>8, <1>10 DEF Follows
  <2>7. o.bar.kind = "none" => B =< R
    <3>1. SUFFICES ASSUME o.bar.kind = "none" PROVE B =< R OBVIOUS
    <3>2. O =< R BY <1>1, <1>4, <1>8, <1>10, <3>1 DEF Follows
    <3>3. \A i \in O .. B - 1 : i \in O .. N - 1 /\ i < B BY <1>1, <1>12
    <3>4. \A i \in O .. B - 1 : Got(rcpt, R, i) BY <1>14, <3>3
    <3> QED BY <1>1, <3>2, <3>4, NotBeyond
  <2> QED BY <2>1, <2>3, <2>5, <2>6, <2>7 DEF Follows
<1>16. o.outstanding \cup o.retry \subseteq Kept
  BY <1>8, <1>10 DEF Kept
<1>17. SessionInv' /\ \E C \in Nat : Ages(o, orig', numbered, B, C)
  BY <1>1, <1>6, <1>7, <1>10, <1>12, <1>13, <1>15, <1>16, EndsWell
<1>18. NoneLost(o)
  BY <1>17, NoneIsLost
<1>19. ASSUME NEW n \in Kept, n \notin Kept' PROVE n \in Delivered \/ IsExpired(n)
  <2>1. CASE n = m
    <3>1. O =< m BY <1>1, <1>19, <2>1 DEF Keeps, Kept
    <3>2. m \in O .. R - 1 BY <1>1, <1>4, <3>1, Sizes DEF Ids
    <3> QED BY <1>1, <2>1, <3>2 DEF Follows, Delivered
  <2>2. CASE n # m
    <3>1. n \in o.outstanding \cup o.retry BY <1>8, <1>10, <1>19, <2>2 DEF Kept
    <3> QED BY <1>18, <1>19, <3>1 DEF NoneLost
  <2> QED BY <2>1, <2>2
<1> QED BY <1>17, <1>19

LEMMA MissedAckKeeps ==
  ASSUME SessionInv, MissedAck
  PROVE  SessionInv'
<1>1. PICK N, O, R, V \in Nat :
           /\ N = numbered /\ orig \in Originators /\ exchange \in Exchanges
           /\ Starts(orig, N, O) /\ Keeps(orig, N, O, {}, {}) /\ Covers(orig, N, O, {})
           /\ Score(rcpt, R, V, N) /\ Follows(orig, rcpt, heldBar, N, O, R, V)
           /\ Frames(exchange, orig, rcpt, heldBar, N, O, R)
  BY AgreeIs
<1>2. exchange.phase = "over" /\ exchange.sort = "ack"
  BY DEF MissedAck
<1>3. PICK m : m = exchange.mpdus[1]
  OBVIOUS
<1>4. /\ heldBar = NoSeq /\ m \in Ids /\ N - WinSize =< m /\ m < N /\ m =< R /\ m \notin orig.retry
      /\ O =< m => m \in orig.outstanding
      /\ O =< m => NumberOf(m) \notin orig.acked
  BY <1>1, <1>2, <1>3, AckFrameIs
<1>5. Types /\ OldestFirst(orig)
  BY DEF SessionInv
<1>6. PICK a, o, d : a = Without(orig, m) /\ o = InsertInRetryQueue(a, m) /\ d = NotifyDiscardedMpdu(orig, m)
  OBVIOUS
<1>7. Ends(o, NoSeq) \/ Ends(d, NoSeq)
  BY <1>3, <1>6 DEF MissedAck, Ends
<1>8. CASE Ends(o, NoSeq)
  <2>1. /\ a \in Originators /\ a.start = orig.start /\ a.acked = orig.acked /\ a.retry = orig.retry
        /\ a.bar = orig.bar /\ a.outstanding = orig.outstanding \ {m}
        /\ Starts(a, N, O) /\ Keeps(a, N, O, {}, {}) /\ Covers(a, N, O, {m})
    <3>1. PICK p : p = orig
      OBVIOUS
    <3>2. p \in Originators /\ Starts(p, N, O) /\ Keeps(p, N, O, {}, {}) /\ Covers(p, N, O, {})
      BY <1>1, <3>1
    <3>3. a = Without(p, m)
      BY <1>6, <3>1
    <3>4. /\ a \in Originators /\ a.start = p.start /\ a.acked = p.acked /\ a.retry = p.retry
          /\ a.bar = p.bar /\ a.outstanding = p.outstanding \ {m}
          /\ Starts(a, N, O) /\ Keeps(a, N, O, {}, {}) /\ Covers(a, N, O, {m})
      BY <3>2, <3>3, WithoutIs
    <3> QED BY <3>1, <3>4
  <2>2. /\ o \in Originators
        /\ o.start = a.start /\ o.acked = a.acked /\ o.outstanding = a.outstanding
        /\ o.bar = a.bar /\ o.retry = a.retry \cup {n \in {m} : O =< m}
        /\ Starts(o, N, O) /\ Keeps(o, N, O, {}, {}) /\ Covers(o, N, O, {m} \ {m})
    <3>1. PICK E, F : E = {} /\ F = {m}
      OBVIOUS
    <3>2. Starts(a, N, O) /\ Keeps(a, N, O, E, E) /\ Covers(a, N, O, F)
      BY <2>1, <3>1
    <3>3. O =< m => (m \in E \/ NumberOf(m) \notin a.acked) /\ (m \in a.outstanding => m \in E)
      BY <1>4, <2>1
    <3>4. N \in Nat /\ m \in Ids /\ N - WinSize =< m /\ m < N /\ a \in Originators
      BY <1>4, <2>1
    <3>5. o = InsertInRetryQueue(a, m)
      BY <1>6
    <3>6. TriesAgain(a, o, m, N, O, E, E, F)
      BY <3>2, <3>3, <3>4, <3>5, RetriedIs
    <3> QED BY <3>1, <3>6 DEF TriesAgain
  <2>3. o.retry = orig.retry \cup {n \in {m} : O =< m} /\ o.outstanding = orig.outstanding \ {m}
    BY <2>1, <2>2
  <2>4. Covers(o, N, O, {}) /\ Keeps(o, N, O, {}, expired)
    <3>1. {m} \ {m} = {} OBVIOUS
    <3> QED BY <2>2, <3>1, KeepsMore
  <2>5. Follows(o, rcpt, NoSeq, N, O, R, V)
    <3>1. m \notin Range(rcpt.buffer)
      <4>1. m \in Int BY <1>4, Sizes DEF Ids
      <4>2. m \in Range(rcpt.buffer) => R < m BY <1>1 DEF Score
      <4> QED BY <1>1, <1>4, <4>1, <4>2
    <3>2. \A n \in o.retry : n \notin Range(rcpt.buffer)
      BY <1>1, <2>1, <2>3, <3>1 DEF Follows
    <3> QED BY <1>1, <1>4, <2>1, <2>2, <3>2 DEF Follows
  <2>6. o.outstanding \cup o.retry \subseteq Kept
    BY <1>4, <2>3 DEF Kept
  <2> QED BY <1>1, <1>5, <1>8, <2>2, <2>4, <2>5, <2>6, EndsWell
<1>9. CASE Ends(d, NoSeq)
  <2>1. PICK B \in Nat :
           /\ Narrows(orig, d, N, O, B) /\ m < B
           /\ Keeps(d, N, B, {}, expired) /\ Covers(d, N, B, {})
           /\ (m < O /\ d = orig /\ B = O) \/ (O =< m /\ d.bar.kind = "bar")
    <3>1. Keeps(orig, N, O, {}, expired) BY <1>1, KeepsMore
    <3>2. \A n \in orig.retry : IsExpired(n) => n \in expired BY DEF IsExpired
    <3>3. PICK p, E, Y : p = orig /\ E = {} /\ Y = expired
      OBVIOUS
    <3>4. /\ p \in Originators /\ N \in Nat /\ m \in Ids /\ N - WinSize =< m /\ m < N
          /\ Starts(p, N, O) /\ Keeps(p, N, O, E, Y) /\ Covers(p, N, O, E)
          /\ \A n \in p.retry : IsExpired(n) => n \in Y
          /\ d = NotifyDiscardedMpdu(p, m)
      BY <1>1, <1>4, <1>6, <3>1, <3>2, <3>3
    <3>5. GivesUp(p, d, m, N, O, E, Y, E)
      BY <3>4, GivenUpIs
    <3> QED BY <3>3, <3>5 DEF GivesUp
  <2>2. d \in Originators /\ Starts(d, N, B) /\ d.outstanding \subseteq orig.outstanding
        /\ d.retry \subseteq orig.retry
    BY <2>1 DEF Narrows
  <2>3. Follows(d, rcpt, NoSeq, N, B, R, V)
    <3>1. d.bar.kind # "none" \/ (d.bar = orig.bar /\ B = O) BY <2>1
    <3> QED BY <1>1, <1>4, <2>1, <3>1, FollowsNarrow
  <2>4. d.outstanding \cup d.retry \subseteq Kept
    BY <2>2 DEF Kept
  <2>5. Ends(d, NoSeq) BY <1>9
  <2>6. Keeps(d, N, B, {}, expired) /\ Covers(d, N, B, {}) BY <2>1
  <2> QED BY <1>1, <1>5, <2>2, <2>3, <2>4, <2>5, <2>6, EndsWell
<1> QED BY <1>7, <1>8, <1>9

LEMMA GotBlockAckKeeps ==
  ASSUME SessionInv, GotBlockAck
  PROVE  /\ SessionInv'
         /\ \A m \in Kept \ Kept' : m \in Delivered \cup Buffered \/ IsExpired(m)
<1>1. PICK N, O, R, V \in Nat :
           /\ N = numbered /\ orig \in Originators /\ exchange \in Exchanges
           /\ Starts(orig, N, O) /\ Keeps(orig, N, O, {}, {}) /\ Covers(orig, N, O, {})
           /\ Score(rcpt, R, V, N) /\ Follows(orig, rcpt, heldBar, N, O, R, V)
           /\ Frames(exchange, orig, rcpt, heldBar, N, O, R)
  BY AgreeIs
<1>2. exchange.phase = "over" /\ exchange.reply.sort = "blockAck"
  BY DEF GotBlockAck
<1>3. PICK received, D : received = exchange.reply.received /\ D = orig.outstanding
  OBVIOUS
<1>4. PICK s : s = BySeq(NumberOf(O), D)
  OBVIOUS
<1>5. /\ O \in Int /\ O =< N /\ N =< O + WinSize /\ WinSize \in Nat /\ 2 * WinSize < Half /\ Half \in Nat
      /\ orig.start = NumberOf(O) /\ D \in SUBSET Ids
  BY <1>1, <1>3, Sizes DEF Starts, Originators
<1>6. \A m \in D : m \in Int /\ O =< m /\ m < N
  <2>1. \A m \in D : O =< m /\ m < N BY <1>1, <1>3 DEF Keeps
  <2> QED BY <1>5, <2>1, Sizes DEF Ids
<1>7. /\ s \in Seq(D) /\ Range(s) = D
      /\ \A i, j \in 1 .. Len(s) : i < j /\ O =< s[j] => O =< s[i] /\ s[i] < s[j]
  <2>1. \A m \in D : -Half =< m - O /\ m - O < Half BY <1>1, <1>5, <1>6
  <2> QED BY <1>4, <1>5, <2>1, BySeqIs
<1>8. PICK q : q = Settled(orig, s, NumberOf(O), received)
  OBVIOUS
<1>9. PICK B : Settles(orig, q, N, O, B, D, received)
  <2>1. s \in Seq(Ids) BY <1>5, <1>7, SeqDef
  <2>2. \A i \in 1 .. Len(s) : s[i] \in orig.outstanding BY <1>3, <1>7, ElementOfSeq
  <2>3. \A i, j \in 1 .. Len(s) : i < j => s[i] # s[j]
    <3>1. \A i \in 1 .. Len(s) : s[i] \in Int /\ O =< s[i] BY <1>3, <1>6, <2>2
    <3> QED BY <1>7, <3>1
  <2>4. \E B : Settles(orig, q, N, O, B, Range(s), received)
    BY <1>1, <1>8, <2>1, <2>2, <2>3, AllSettled
  <2> QED BY <1>7, <2>4
<1>10. PICK o : o = [q EXCEPT !.outstanding = {}]
  OBVIOUS
<1>11. Ends(o, NoSeq)
  <2>1. Settle(exchange.reply) = o BY <1>3, <1>4, <1>5, <1>8, <1>10 DEF Settle
  <2> QED BY <2>1 DEF GotBlockAck, Ends
<1>12. Types /\ OldestFirst(orig)
  BY DEF SessionInv
<1>13. /\ q \in Originators /\ B \in Nat /\ O =< B /\ Starts(q, N, B) /\ Keeps(q, N, B, D, {})
       /\ Covers(q, N, B, {}) /\ q.outstanding = D /\ q.bar = orig.bar /\ orig.retry \subseteq q.retry
       /\ \A n \in q.retry : n \in orig.retry \/ (n \in D /\ NumberOf(n) \notin received)
       /\ \A n \in D : /\ n < B \/ NumberOf(n) \in q.acked \/ n \in q.retry
                       /\ NumberOf(n) \notin received => n \in q.retry
       /\ \A i \in O .. N - 1 :
            i < B \/ NumberOf(i) \in q.acked =>
              NumberOf(i) \in orig.acked \/ (i \in D /\ NumberOf(i) \in received)
  BY <1>3, <1>9 DEF Settles
<1>14. /\ o \in Originators /\ o.start = q.start /\ o.acked = q.acked /\ o.retry = q.retry
       /\ o.bar = orig.bar /\ o.outstanding = {}
  BY <1>10, <1>13 DEF Originators
<1>15. Starts(o, N, B) /\ Keeps(o, N, B, {}, expired) /\ B =< N
  <2>1. Starts(o, N, B) BY <1>13, <1>14 DEF Starts
  <2>2. Keeps(o, N, B, {}, {}) BY <1>13, <1>14 DEF Keeps
  <2> QED BY <2>1, <2>2, KeepsMore DEF Starts
<1>16. Covers(o, N, B, {})
  <2>1. SUFFICES ASSUME NEW i \in B .. N - 1 PROVE i \in o.retry \/ NumberOf(i) \in o.acked
    BY DEF Covers
  <2>2. ~ (i < B) BY <1>1, <1>13
  <2>3. i \in D \/ i \in q.retry \/ NumberOf(i) \in q.acked BY <1>13, <2>1 DEF Covers
  <2> QED BY <1>13, <1>14, <2>2, <2>3
<1>17. /\ exchange.sort \in {"blockAck", "bar"}
       /\ \A i \in O .. N - 1 :
            /\ NumberOf(i) \in received => Got(rcpt, R, i)
            /\ i \in Range(rcpt.buffer) => NumberOf(i) \in received
       /\ exchange.sort = "bar" /\ orig.bar.kind = "none" => O =< R
  BY <1>1, <1>2, <1>3 DEF Frames
<1>18. ASSUME NEW i \in O .. N - 1, i < B \/ NumberOf(i) \in o.acked PROVE Got(rcpt, R, i)
  <2>1. NumberOf(i) \in orig.acked \/ NumberOf(i) \in received BY <1>13, <1>14, <1>18
  <2>2. CASE NumberOf(i) \in orig.acked
    BY <1>1, <2>2 DEF Follows
  <2> QED BY <1>17, <2>1, <2>2
<1>19. orig.bar.kind = "none" => O =< R
  <2>1. SUFFICES ASSUME orig.bar.kind = "none", exchange.sort = "blockAck" PROVE O =< R
    BY <1>17
  <2>2. heldBar = NoSeq BY <1>1, <1>2, <2>1 DEF Frames
  <2> QED BY <1>1, <2>1, <2>2 DEF Follows
<1>20. Follows(o, rcpt, NoSeq, N, B, R, V)
  <2>1. V =< B BY <1>1, <1>13 DEF Follows
  <2>2. \A i \in B .. R - 1 : i \in O .. R - 1 BY <1>1, <1>13
  <2>3. \A i \in B .. R - 1 : i \in Range(rcpt.delivered) BY <1>1, <2>2 DEF Follows
  <2>4. \A i \in B .. N - 1 : i \in O .. N - 1 BY <1>1, <1>13
  <2>5. \A i \in B .. N - 1 : NumberOf(i) \in o.acked => Got(rcpt, R, i) BY <1>18, <2>4
  <2>6. ASSUME NEW n \in o.retry, n \in Range(rcpt.buffer) PROVE FALSE
    <3>1. CASE n \in orig.retry
      BY <1>1, <2>6, <3>1 DEF Follows
    <3>2. CASE n \in D /\ NumberOf(n) \notin received
      <4>1. n \in O .. N - 1 BY <1>1, <1>6, <3>2
      <4> QED BY <1>17, <2>6, <3>2, <4>1
    <3> QED BY <1>13, <1>14, <2>6, <3>1, <3>2
  <2>7. o.bar.kind = "none" => B =< R
    <3>1. SUFFICES ASSUME o.bar.kind = "none" PROVE B =< R OBVIOUS
    <3>2. O =< R BY <1>14, <1>19, <3>1
    <3>3. \A i \in O .. B - 1 : i \in O .. N - 1 /\ i < B BY <1>1, <1>13, <1>15
    <3>4. \A i \in O .. B - 1 : Got(rcpt, R, i) BY <1>18, <3>3
    <3> QED BY <1>1, <1>13, <3>2, <3>4, NotBeyond
  <2> QED BY <2>1, <2>3, <2>5, <2>6, <2>7 DEF Follows
<1>21. o.outstanding \cup o.retry \subseteq Kept
  BY <1>3, <1>13, <1>14 DEF Kept
<1>22. SessionInv' /\ \E C \in Nat : Ages(o, orig', numbered, B, C)
  BY <1>1, <1>11, <1>12, <1>13, <1>14, <1>15, <1>16, <1>20, <1>21, EndsWell
<1>23. NoneLost(o)
  BY <1>22, NoneIsLost
<1>24. ASSUME NEW n \in Kept, n \notin Kept' PROVE n \in Delivered \cup Buffered \/ IsExpired(n)
  <2>1. CASE n \in o.retry
    BY <1>23, <1>24, <2>1 DEF NoneLost
  <2>2. CASE n \notin o.retry
    <3>1. n \in D /\ NumberOf(n) \in received BY <1>3, <1>13, <1>14, <2>2 DEF Kept
    <3>2. n \in O .. N - 1 BY <1>1, <1>6, <3>1
    <3>3. Got(rcpt, R, n) BY <1>17, <3>1, <3>2
    <3>4. n < R => n \in O .. R - 1 BY <1>1, <3>2
    <3>5. n < R => n \in Range(rcpt.delivered) BY <1>1, <3>4 DEF Follows
    <3> QED BY <3>3, <3>5 DEF Got, Delivered, Buffered
  <2> QED BY <2>1, <2>2
<1> QED BY <1>22, <1>24

LEMMA MissedBlockAckKeeps ==
  ASSUME SessionInv, MissedBlockAck
  PROVE  SessionInv'
<1>1. PICK N, O, R, V \in Nat :
           /\ N = numbered /\ orig \in Originators /\ exchange \in Exchanges
           /\ Starts(orig, N, O) /\ Keeps(orig, N, O, {}, {}) /\ Covers(orig, N, O, {})
           /\ Score(rcpt, R, V, N) /\ Follows(orig, rcpt, heldBar, N, O, R, V)
           /\ Frames(exchange, orig, rcpt, heldBar, N, O, R)
  BY AgreeIs
<1>2. Types /\ OldestFirst(orig) /\ heldBar \in Seqs \cup {NoSeq}
  BY DEF SessionInv, Types
<1>3. Keeps(orig, N, O, {}, expired)
  BY <1>1, KeepsMore
<1>4. PICK ask, skip, d :
         /\ ask = [orig EXCEPT !.bar = [kind |-> "bar", start |-> orig.start]]
         /\ skip = [orig EXCEPT !.bar = [kind |-> "skip", start |-> orig.start]]
         /\ d = DiscardOutstanding(orig)
  OBVIOUS
<1>5. \/ heldBar = NoSeq /\ Ends(ask, NoSeq)
      \/ Ends(orig, heldBar)
      \/ orig.outstanding # {} /\ Ends(d, NoSeq)
      \/ Ends(skip, NoSeq)
  BY <1>4 DEF MissedBlockAck, Ends
<1>6. ASSUME NEW p, p = ask \/ p = skip, Ends(p, NoSeq) PROVE SessionInv'
  <2>1. /\ p \in Originators /\ p.start = orig.start /\ p.acked = orig.acked
        /\ p.outstanding = orig.outstanding /\ p.retry = orig.retry /\ p.bar.kind # "none"
    BY <1>1, <1>4, <1>6 DEF Originators
  <2>2. Starts(p, N, O) /\ Keeps(p, N, O, {}, expired) /\ Covers(p, N, O, {})
    BY <1>1, <1>3, <2>1 DEF Starts, Keeps, Covers
  <2>3. Follows(p, rcpt, NoSeq, N, O, R, V)
    BY <1>1, <2>1, FollowsBar
  <2>4. p.outstanding \cup p.retry \subseteq Kept
    BY <2>1 DEF Kept
  <2> QED BY <1>1, <1>2, <1>6, <2>1, <2>2, <2>3, <2>4, EndsWell
<1>7. ASSUME Ends(orig, heldBar) PROVE SessionInv'
  <2>1. PICK o, bar : o = orig /\ bar = heldBar
    OBVIOUS
  <2>2. Ends(o, bar) BY <1>7, <2>1 DEF Ends
  <2>3. o.outstanding \cup o.retry \subseteq Kept BY <2>1 DEF Kept
  <2> QED BY <1>1, <1>2, <1>3, <2>1, <2>2, <2>3, EndsWell
<1>8. ASSUME orig.outstanding # {}, Ends(d, NoSeq) PROVE SessionInv'
  <2>1. d.bar.kind = "bar"
    BY <1>1, <1>4, <1>8, DiscardOutstandingIs
  <2>2. PICK B \in Nat :
          Narrows(orig, d, N, O, B) /\ Keeps(d, N, B, {}, expired) /\ Covers(d, N, B, {})
    BY <1>1, <1>4, <1>8, DiscardOutstandingIs
  <2>3. d \in Originators /\ Starts(d, N, B) /\ d.outstanding \subseteq orig.outstanding
        /\ d.retry \subseteq orig.retry
    BY <2>2 DEF Narrows
  <2>4. Follows(d, rcpt, heldBar, N, B, R, V)
    BY <1>1, <2>1, <2>2, FollowsNarrow
  <2>5. Follows(d, rcpt, NoSeq, N, B, R, V)
    BY <2>1, <2>4, FollowsBar
  <2>6. d.outstanding \cup d.retry \subseteq Kept
    BY <2>3 DEF Kept
  <2> QED BY <1>1, <1>2, <1>8, <2>2, <2>3, <2>5, <2>6, EndsWell
<1> QED BY <1>5, <1>6, <1>7, <1>8

-----------------------------------------------------------------------------
(* The invariant holds.                                                    *)

LEMMA NothingKeeps ==
  ASSUME SessionInv, UNCHANGED vars
  PROVE  SessionInv'
<1>1. /\ arrived' = arrived /\ numbered' = numbered /\ expired' = expired /\ orig' = orig
      /\ heldBar' = heldBar /\ exchange' = exchange /\ rcpt' = rcpt
  BY DEF vars
<1>2. Types' /\ OldestFirst(orig)'
  BY <1>1 DEF SessionInv, Types, Kept, OldestFirst, IsExpired
<1>3. PICK O, R, V \in Nat : Agree(orig, rcpt, heldBar, exchange, numbered, O, R, V)
  BY DEF SessionInv
<1>4. Agree(orig', rcpt', heldBar', exchange', numbered', O, R, V)
  BY <1>1, <1>3
<1> QED BY <1>2, <1>4, InvIsKept

LEMMA SessionStep ==
  ASSUME SessionInv, [Next]_vars
  PROVE  SessionInv'
<1>1. CASE Queue
  BY <1>1, QueueKeeps
<1>2. CASE Expire
  BY <1>2, ExpireKeeps
<1>3. CASE SendHeldBar
  BY <1>3, SendHeldBarKeeps
<1>4. CASE SendBar
  BY <1>4, SendBarKeeps
<1>5. CASE SendData
  BY <1>5, SendDataKeeps
<1>6. CASE \E got \in SUBSET Range(exchange.mpdus) : ReceiveData(got)
  BY <1>6, ReceiveDataKeeps
<1>7. CASE ReceiveBar
  BY <1>7, ReceiveBarKeeps
<1>8. CASE BarIsLost
  BY <1>8, BarIsLostKeeps
<1>9. CASE GotAck
  BY <1>9, GotAckKeeps
<1>10. CASE GotBlockAck
  BY <1>10, GotBlockAckKeeps
<1>11. CASE EndTxNoAck
  BY <1>11, EndTxNoAckKeeps
<1>12. CASE MissedAck
  BY <1>12, MissedAckKeeps
<1>13. CASE MissedBlockAck
  BY <1>13, MissedBlockAckKeeps
<1>14. CASE UNCHANGED vars
  BY <1>14, NothingKeeps
<1> QED BY <1>1, <1>2, <1>3, <1>4, <1>5, <1>6, <1>7, <1>8, <1>9, <1>10, <1>11, <1>12, <1>13, <1>14
        DEF Next, Granted, Received, Answered

(* The ends of an agreement always agree about where the windows start,    *)
(* what is acknowledged and what has been received, whatever is lost and   *)
(* however often the numbers come round.                                   *)
THEOREM SessionInvariant == Spec => []SessionInv
<1>1. Init => SessionInv
  BY SessionInit
<1>2. SessionInv /\ [Next]_vars => SessionInv'
  BY SessionStep
<1> QED BY <1>1, <1>2, PTL DEF Spec

(* Every number the two ends keep is one of the sequence space, and frames *)
(* expire only while they are kept.                                        *)
THEOREM TypeCorrect == Spec => []TypeOK
<1>1. SessionInv => TypeOK
  <2>1. SUFFICES ASSUME SessionInv PROVE TypeOK OBVIOUS
  <2>2. PICK N, O, R, V \in Nat : orig \in Originators /\ exchange \in Exchanges /\ Score(rcpt, R, V, N)
    BY <2>1, AgreeIs
  <2>3. Types
    BY <2>1 DEF SessionInv
  <2>4. arrived \in 0 .. MaxMsdus /\ numbered \in 0 .. arrived
    BY <2>3, Sizes DEF Types
  <2>5. rcpt \in Recipients
    BY <2>2 DEF Score, Remembers
  <2>6. /\ rcpt.start \in Seqs /\ rcpt.winStart \in Seqs /\ rcpt.bitmap \subseteq Seqs
        /\ rcpt.buffer \in Seq(Ids) /\ rcpt.delivered \in Seq(Ids)
    BY <2>5 DEF Recipients
  <2>7. /\ exchange.phase \in {"idle", "sent", "over"}
        /\ exchange.sort \in {"none", "ack", "blockAck", "bar"}
        /\ exchange.mpdus \in Seq(Ids)
    BY <2>2 DEF Exchanges
  <2>8. expired \subseteq Kept /\ heldBar \in Seqs \cup {NoSeq}
    BY <2>3 DEF Types
  <2> QED BY <2>2, <2>4, <2>6, <2>7, <2>8 DEF TypeOK, Originators
<1> QED BY <1>1, SessionInvariant, PTL

(* The reorder window is never ahead of the transmit window by a frame that*)
(* is kept and has not been received.                                      *)
THEOREM WindowsStayClose == Spec => []RecipientIsNotAhead
<1>1. SessionInv => RecipientIsNotAhead
  <2>1. SUFFICES ASSUME SessionInv, NEW m \in Kept, IsOld(rcpt.start, NumberOf(m)) PROVE m \in Delivered
    BY DEF RecipientIsNotAhead
  <2>2. PICK N, O, R, V \in Nat :
           /\ N = numbered /\ orig \in Originators /\ exchange \in Exchanges
           /\ Starts(orig, N, O) /\ Keeps(orig, N, O, {}, {}) /\ Covers(orig, N, O, {})
           /\ Score(rcpt, R, V, N) /\ Follows(orig, rcpt, heldBar, N, O, R, V)
           /\ Frames(exchange, orig, rcpt, heldBar, N, O, R)
    BY <2>1, AgreeIs
  <2>3. O =< m /\ m < N /\ N - WinSize =< m
    BY <2>1, <2>2 DEF Kept, Keeps
  <2>4. m \in Int
    BY <2>1, <2>2, Sizes DEF Kept, Originators, Ids
  <2>5. R =< N /\ N =< R + WinSize /\ rcpt.start = NumberOf(R)
    BY <2>2 DEF Score
  <2>6. -Half =< m - R /\ m - R < Half /\ R \in Int
    BY <2>2, <2>3, <2>4, <2>5, Sizes
  <2>7. m < R
    BY <2>1, <2>4, <2>5, <2>6, OldOrNot
  <2>8. m \in O .. R - 1
    BY <2>2, <2>3, <2>4, <2>7
  <2> QED BY <2>2, <2>8 DEF Follows, Delivered
<1> QED BY <1>1, SessionInvariant, PTL

(* What the reorder buffer waits for is kept by the originator, or a BAR   *)
(* is due that will move the reorder window past it.                       *)
THEOREM GapsAreAttended == Spec => []GapIsAttended
<1>1. SessionInv => GapIsAttended
  <2>1. SUFFICES ASSUME SessionInv, ~ BarIsDue, NEW x \in WaitedFor PROVE x \in Kept
    BY DEF GapIsAttended
  <2>2. PICK N, O, R, V \in Nat :
           /\ N = numbered /\ orig \in Originators /\ exchange \in Exchanges
           /\ Starts(orig, N, O) /\ Keeps(orig, N, O, {}, {}) /\ Covers(orig, N, O, {})
           /\ Score(rcpt, R, V, N) /\ Follows(orig, rcpt, heldBar, N, O, R, V)
           /\ Frames(exchange, orig, rcpt, heldBar, N, O, R)
    BY <2>1, AgreeIs
  <2>3. O =< R
    BY <2>1, <2>2 DEF Follows, BarIsDue
  <2>4. PICK b \in Buffered : \E i \in 1 .. Dist(rcpt.start, NumberOf(b)) : x = b - i
    BY <2>1 DEF WaitedFor
  <2>5. x \notin Range(rcpt.buffer)
    BY <2>1 DEF WaitedFor, Buffered
  <2>6. R < b /\ b < N /\ N =< R + WinSize /\ rcpt.start = NumberOf(R)
    BY <2>2, <2>4 DEF Score, Buffered
  <2>7. b \in Int
    <3>1. rcpt.buffer \in Seq(Ids) BY <2>2 DEF Score, Remembers, Recipients
    <3>2. b \in Ids BY <2>4, <3>1, LenProperties, ElementOfSeq DEF Buffered, Range
    <3> QED BY <3>2, Sizes DEF Ids
  <2>8. Dist(NumberOf(R), NumberOf(b)) = b - R
    <3>1. R \in Int /\ -SeqSpace =< b - R /\ b - R < SeqSpace /\ R =< b BY <2>2, <2>6, <2>7, Sizes
    <3> QED BY <2>7, <3>1, Distance
  <2>9. x \in R .. b - 1
    <3>1. PICK i \in 1 .. b - R : x = b - i BY <2>4, <2>6, <2>8
    <3> QED BY <2>2, <2>7, <3>1
  <2>10. x \in O .. N - 1 /\ ~ (x < R)
    BY <2>2, <2>3, <2>6, <2>7, <2>9
  <2>11. NumberOf(x) \notin orig.acked
    BY <2>2, <2>5, <2>10 DEF Follows, Got
  <2> QED BY <2>2, <2>10, <2>11 DEF Covers, Kept
<1> QED BY <1>1, SessionInvariant, PTL

(* An answer takes a frame from what the originator keeps only if the frame*)
(* has been received, or has expired.                                      *)
THEOREM NoFalseAck == Spec => AckedIsReceived
<1>1. SessionInv /\ [Next]_vars =>
        [Answered => \A m \in Kept \ Kept' : m \in Delivered \cup Buffered \/ IsExpired(m)]_vars
  <2>1. SUFFICES ASSUME SessionInv, Answered
                 PROVE  \A m \in Kept \ Kept' : m \in Delivered \cup Buffered \/ IsExpired(m)
    OBVIOUS
  <2>2. CASE GotAck
    BY <2>1, <2>2, GotAckKeeps
  <2>3. CASE GotBlockAck
    BY <2>1, <2>3, GotBlockAckKeeps
  <2>4. CASE EndTxNoAck
    <3>1. NoneLost(orig) BY <2>1, <2>4, EndTxNoAckKeeps
    <3> QED BY <3>1 DEF NoneLost, Kept
  <2> QED BY <2>1, <2>2, <2>3, <2>4 DEF Answered
<1> QED BY <1>1, SessionInvariant, PTL DEF Spec, AckedIsReceived

-----------------------------------------------------------------------------
(* What is passed up, against the promise of OrderedDelivery.              *)

(* From the list d to the list g the frames of a list come after those     *)
(* before, all of them below N.                                            *)
PassesOn(d, g, N) ==
  \E n \in 1 .. Len(g) :
    /\ Len(g) - n =< Len(d)
    /\ SubSeq(g, 1, Len(g) - n) = SubSeq(d, Len(d) - (Len(g) - n) + 1, Len(d))
    /\ d # <<>> => d[Len(d)] < g[Len(g) - n + 1]
    /\ Ascending(g) /\ g[Len(g)] < N

LEMMA PassedOn ==
  ASSUME NEW d \in Seq(Ids), NEW t \in Seq(Ids), NEW g, NEW c \in Nat, LastOf(d \o t, g, c),
         NEW R \in Nat, NEW Q \in Nat, NEW N \in Nat, Q =< N, Ascending(g),
         \A m \in Range(d) : m < R, \A m \in Range(t) : R =< m /\ m < Q,
         0 < Len(t), Len(t) =< WinSize
  PROVE  PassesOn(d, g, N)
<1>1. PICK u \in Seq(Ids) : u = d \o t
  BY JoinIs
<1>2. PICK k, n, l \in Nat : k = Len(d) /\ n = Len(t) /\ l = Len(g)
  BY LenProperties DEF LastOf
<1>3. /\ Len(u) = k + n
      /\ \A i \in 1 .. k : u[i] = d[i]
      /\ \A i \in 1 .. n : u[k + i] = t[i]
  BY <1>1, <1>2, JoinIs
<1>4. /\ g \in Seq(Ids) /\ l = (k + n) - c
      /\ \A i \in 1 .. l : g[i] = u[c + i]
      /\ IF k + n =< WinSize THEN c = 0 ELSE c = (k + n) - WinSize
  BY <1>1, <1>2, <1>3 DEF LastOf
<1>5. c =< k /\ n \in 1 .. l /\ l - n = k - c /\ WinSize \in Nat /\ 0 < n
  BY <1>2, <1>4, Sizes
<1>6. \A i \in 1 .. k - c : g[i] = d[c + i]
  <2>1. \A i \in 1 .. k - c : i \in 1 .. l /\ c + i \in 1 .. k BY <1>2, <1>5
  <2> QED BY <1>3, <1>4, <2>1
<1>7. \A i \in 1 .. n : g[k - c + i] = t[i]
  <2>1. \A i \in 1 .. n : k - c + i \in 1 .. l /\ c + (k - c + i) = k + i BY <1>2, <1>5
  <2> QED BY <1>3, <1>4, <2>1
<1>8. SubSeq(g, 1, k - c) = SubSeq(d, c + 1, k)
  <2>1. PICK e \in Nat : e = k - c
    <3>1. k - c \in Nat BY <1>5
    <3> QED BY <3>1
  <2>2. PICK b \in Nat : b = 1
    OBVIOUS
  <2>3. 1 =< b /\ b =< e + 1 /\ e =< Len(g) /\ g \in Seq(Ids)
    <3>1. e =< l BY <1>5, <2>1
    <3> QED BY <1>2, <1>4, <2>2, <3>1
  <2>4. /\ SubSeq(g, b, e) \in Seq(Ids) /\ Len(SubSeq(g, b, e)) = e - b + 1
        /\ \A i \in 1 .. e - b + 1 : SubSeq(g, b, e)[i] = g[b + i - 1]
    BY <2>3, PartIs, SMTT(30)
  <2>5. /\ SubSeq(d, c + 1, k) \in Seq(Ids) /\ Len(SubSeq(d, c + 1, k)) = k - (c + 1) + 1
        /\ \A i \in 1 .. k - (c + 1) + 1 : SubSeq(d, c + 1, k)[i] = d[(c + 1) + i - 1]
    <3>1. c + 1 \in Nat /\ 1 =< c + 1 /\ c + 1 =< k + 1 /\ k =< Len(d) BY <1>2, <1>5
    <3> QED BY <1>2, <3>1, PartIs
  <2>6. Len(SubSeq(g, b, e)) = Len(SubSeq(d, c + 1, k))
    BY <1>2, <2>1, <2>2, <2>4, <2>5
  <2>7. ASSUME NEW i \in 1 .. Len(SubSeq(g, b, e)) PROVE SubSeq(g, b, e)[i] = SubSeq(d, c + 1, k)[i]
    <3>1. i \in 1 .. e - b + 1 /\ i \in 1 .. k - (c + 1) + 1 /\ i \in 1 .. k - c
      BY <1>2, <2>1, <2>2, <2>4, <2>7
    <3>2. b + i - 1 = i /\ (c + 1) + i - 1 = c + i
      BY <2>2, <3>1
    <3>3. SubSeq(g, b, e)[i] = g[i]
      BY <2>4, <3>1, <3>2
    <3>4. SubSeq(d, c + 1, k)[i] = d[c + i]
      BY <2>5, <3>1, <3>2
    <3> QED BY <1>6, <3>1, <3>3, <3>4
  <2>8. SubSeq(g, b, e) = SubSeq(d, c + 1, k)
    BY <2>4, <2>5, <2>6, <2>7, SeqEqual
  <2> QED BY <2>1, <2>2, <2>8
<1>9. \A i \in 1 .. n : t[i] \in Range(t)
  BY <1>2, LenProperties DEF Range
<1>10. d # <<>> => d[k] < g[k - c + 1]
  <2>1. SUFFICES ASSUME d # <<>> PROVE d[k] < g[k - c + 1] OBVIOUS
  <2>2. k \in 1 .. k BY <1>2, <2>1, EmptySeq
  <2>3. d[k] \in Range(d) /\ d[k] \in Int
    <3>1. d[k] \in Ids BY <1>2, <2>2, ElementOfSeq
    <3> QED BY <1>2, <2>2, <3>1, LenProperties, Sizes DEF Range, Ids
  <2>4. 1 \in 1 .. n BY <1>2, <1>5
  <2>5. g[k - c + 1] = t[1] /\ R =< t[1] BY <1>7, <1>9, <2>4
  <2>6. t[1] \in Int
    <3>1. t[1] \in Ids BY <1>2, <2>4, ElementOfSeq
    <3> QED BY <3>1, Sizes DEF Ids
  <2>7. d[k] < R BY <2>3
  <2> QED BY <2>3, <2>5, <2>6, <2>7
<1>11. g[l] < N
  <2>1. n \in 1 .. n /\ k - c + n = l BY <1>2, <1>5
  <2>2. g[l] = t[n] /\ t[n] < Q BY <1>7, <1>9, <2>1
  <2>3. t[n] \in Int
    <3>1. t[n] \in Ids BY <1>2, <2>1, ElementOfSeq
    <3> QED BY <3>1, Sizes DEF Ids
  <2> QED BY <2>2, <2>3
<1>12. /\ l - n =< k /\ k - (l - n) + 1 = c + 1 /\ l - n + 1 = k - c + 1
  <2>1. l - n = k - c
    BY <1>5
  <2>2. k - c =< k /\ k - (k - c) + 1 = c + 1
    OBVIOUS
  <2> QED BY <2>1, <2>2
<1>13. SubSeq(g, 1, l - n) = SubSeq(d, k - (l - n) + 1, k)
  BY <1>5, <1>8, <1>12
<1>14. d # <<>> => d[k] < g[l - n + 1]
  BY <1>10, <1>12
<1> QED BY <1>2, <1>5, <1>11, <1>12, <1>13, <1>14 DEF PassesOn

LEMMA AdvancePassesOn ==
  ASSUME NEW r, NEW p, NEW R, NEW Q, NEW V, NEW U, NEW N, NEW t,
         Score(r, R, V, N), Score(p, Q, U, N), Advances(r, R, p, Q, t)
  PROVE  p.delivered = r.delivered \/ PassesOn(r.delivered, p.delivered, N)
<1>1. PICK d, g \in Seq(Ids) : d = r.delivered /\ g = p.delivered
  BY DEF Advances, Recipients
<1>2. /\ Remembers(r, R) /\ R \in Nat /\ Q \in Nat /\ N \in Nat /\ Q =< N /\ N =< R + WinSize /\ R =< Q
      /\ Ascending(g) /\ t \in Seq(Ids) /\ Ascending(t) /\ g = Given(r, t)
      /\ (\A m \in Range(d) : m < R) /\ (\A m \in Range(t) : R =< m /\ m < Q)
  BY <1>1 DEF Score, Remembers, Advances
<1>3. PICK n \in Nat : n = Len(t)
  BY <1>2, LenProperties
<1>4. CASE n = 0
  <2>1. t = <<>> BY <1>2, <1>3, <1>4, EmptySeq
  <2>2. Advances(r, R, r, R, <<>>) BY <1>2, GivenNothing
  <2>3. d = Given(r, <<>>) BY <1>1, <2>2 DEF Advances
  <2> QED BY <1>1, <1>2, <2>1, <2>3
<1>5. CASE 0 < n
  <2>1. 1 \in 1 .. n /\ n \in 1 .. n /\ n \in 1 .. Len(t) BY <1>3, <1>5
  <2>2. t[1] + (n - 1) =< t[n]
    <3>1. PICK i, j \in Nat : i = 1 /\ j = n OBVIOUS
    <3>2. i \in 1 .. Len(t) /\ j \in i .. Len(t) BY <1>3, <1>5, <3>1
    <3>3. t[i] + (j - i) =< t[j] BY <1>2, <3>2, Apart
    <3> QED BY <3>1, <3>3
  <2>3. t[1] \in Range(t) /\ t[n] \in Range(t)
    BY <1>2, <1>3, <2>1, LenProperties DEF Range
  <2>4. t[1] \in Int /\ t[n] \in Int
    <3>1. t[1] \in Ids /\ t[n] \in Ids BY <1>2, <1>3, <2>1, ElementOfSeq
    <3> QED BY <3>1, Sizes DEF Ids
  <2>5. R =< t[1] /\ t[n] < Q BY <1>2, <2>3
  <2>6. n =< WinSize BY <1>2, <1>3, <2>2, <2>4, <2>5, Sizes
  <2>7. PICK c \in Nat : LastOf(d \o t, g, c)
    <3>1. PICK c \in Nat : LastOf(d \o t, Given(r, t), c) BY <1>1, <1>2, GivenIs
    <3> QED BY <1>2, <3>1
  <2>8. 0 < Len(t) /\ Len(t) =< WinSize BY <1>3, <1>5, <2>6
  <2>9. PassesOn(d, g, N) BY <1>2, <2>7, <2>8, PassedOn
  <2> QED BY <1>1, <2>9
<1> QED BY <1>3, <1>4, <1>5

LEMMA DataPassesOn ==
  ASSUME SessionInv, NEW got, ReceiveData(got)
  PROVE  rcpt'.delivered = rcpt.delivered \/ PassesOn(rcpt.delivered, rcpt'.delivered, numbered)
<1>1. PICK N, O, R, V \in Nat :
           /\ N = numbered /\ orig \in Originators /\ exchange \in Exchanges
           /\ Starts(orig, N, O) /\ Keeps(orig, N, O, {}, {}) /\ Covers(orig, N, O, {})
           /\ Score(rcpt, R, V, N) /\ Follows(orig, rcpt, heldBar, N, O, R, V)
           /\ Frames(exchange, orig, rcpt, heldBar, N, O, R)
  BY AgreeIs
<1>2. PICK Q, U, t : Hears(rcpt, rcpt', Range(exchange.mpdus) \cap got, R, Q, V, U, N, t)
  BY <1>1, DataIsHeard
<1>3. Score(rcpt', Q, U, N) /\ Advances(rcpt, R, rcpt', Q, t)
  BY <1>2 DEF Hears
<1>4. PICK p : p = rcpt'
  OBVIOUS
<1>5. p.delivered = rcpt.delivered \/ PassesOn(rcpt.delivered, p.delivered, N)
  BY <1>1, <1>3, <1>4, AdvancePassesOn
<1> QED BY <1>1, <1>4, <1>5

LEMMA BarPassesOn ==
  ASSUME SessionInv, ReceiveBar
  PROVE  rcpt'.delivered = rcpt.delivered \/ PassesOn(rcpt.delivered, rcpt'.delivered, numbered)
<1>1. PICK N, O, R, V \in Nat :
           /\ N = numbered /\ orig \in Originators /\ exchange \in Exchanges
           /\ Starts(orig, N, O) /\ Keeps(orig, N, O, {}, {}) /\ Covers(orig, N, O, {})
           /\ Score(rcpt, R, V, N) /\ Follows(orig, rcpt, heldBar, N, O, R, V)
           /\ Frames(exchange, orig, rcpt, heldBar, N, O, R)
  BY AgreeIs
<1>2. PICK s, asked, p : s = exchange.start /\ asked = UpdateWithBlockAckReq(rcpt, s) /\ p = rcpt'
  OBVIOUS
<1>3. /\ exchange.phase = "sent" /\ exchange.sort = "bar"
      /\ p = IF IsOld(asked.start, s) THEN asked ELSE MoveTo(asked, s)
  BY <1>2 DEF ReceiveBar
<1>4. heldBar # NoSeq /\ s = heldBar
  BY <1>1, <1>2, <1>3 DEF Frames
<1>5. PICK H \in 0 .. O : s = NumberOf(H) /\ N - WinSize =< H /\ V =< H
  BY <1>1, <1>4 DEF Follows
<1>6. H \in Nat /\ H =< N
  <2>1. O =< N BY <1>1 DEF Starts
  <2> QED BY <1>1, <2>1
<1>7. PICK Q, t : HearsBar(rcpt, asked, p, R, Q, V, H, N, t)
  <2>1. asked = UpdateWithBlockAckReq(rcpt, NumberOf(H)) BY <1>2, <1>5
  <2>2. p = IF IsOld(asked.start, NumberOf(H)) THEN asked ELSE MoveTo(asked, NumberOf(H))
    BY <1>3, <1>5
  <2>3. Score(rcpt, R, V, N) /\ V =< H /\ N - WinSize =< H BY <1>1, <1>5
  <2>4. \E Q \in Nat : \E t : HearsBar(rcpt, asked, p, R, Q, V, H, N, t)
    BY <1>6, <2>1, <2>2, <2>3, BarIsHeard
  <2> QED BY <2>4
<1>8. Score(p, Q, H, N) /\ Advances(rcpt, R, p, Q, t)
  BY <1>7 DEF HearsBar
<1>9. p.delivered = rcpt.delivered \/ PassesOn(rcpt.delivered, p.delivered, N)
  BY <1>1, <1>8, AdvancePassesOn
<1> QED BY <1>1, <1>2, <1>9

LEMMA DeliveryStep ==
  ASSUME SessionInv, [Next]_vars
  PROVE  [Promise!Number \/ Promise!Deliver]_<<numbered, rcpt.delivered>>
<1>1. ASSUME numbered' = numbered, PassesOn(rcpt.delivered, rcpt'.delivered, numbered)
      PROVE  Promise!Deliver
  <2>1. PICK d, g : d = rcpt.delivered /\ g = rcpt'.delivered
    OBVIOUS
  <2>2. PICK n \in 1 .. Len(g) :
          /\ Len(g) - n =< Len(d)
          /\ SubSeq(g, 1, Len(g) - n) = SubSeq(d, Len(d) - (Len(g) - n) + 1, Len(d))
          /\ d # <<>> => d[Len(d)] < g[Len(g) - n + 1]
          /\ Ascending(g) /\ g[Len(g)] < numbered
    BY <1>1, <2>1 DEF PassesOn
  <2>3. rcpt' \in Recipients
    <3>1. SessionInv' BY SessionStep
    <3>2. \E N, R, V \in Nat : Score(rcpt', R, V, N)
      BY <3>1 DEF SessionInv, Agree, Windows, Score
    <3> QED BY <3>2 DEF Score, Remembers
  <2>4. g \in Seq(Ids)
    BY <2>1, <2>3 DEF Recipients
  <2>5. Promise!Increasing(g)
    BY <2>2, <2>4, LenProperties DEF Ascending, Promise!Increasing
  <2> QED BY <1>1, <2>1, <2>2, <2>5 DEF Promise!Deliver, Promise!Latest
<1>2. CASE Queue \/ Expire \/ SendHeldBar \/ SendBar \/ BarIsLost \/ UNCHANGED vars
  BY <1>2 DEF Queue, Expire, SendHeldBar, SendBar, BarIsLost, vars
<1>3. CASE GotAck \/ GotBlockAck \/ EndTxNoAck \/ MissedAck \/ MissedBlockAck
  BY <1>3 DEF GotAck, GotBlockAck, EndTxNoAck, MissedAck, MissedBlockAck, Ends
<1>4. CASE SendData
  <2>1. numbered' \in Nat /\ numbered =< numbered' /\ rcpt' = rcpt /\ numbered \in Nat
    BY <1>4, SendDataKeeps DEF SendData, SessionInv, Types
  <2>2. numbered' = numbered \/ numbered' > numbered
    BY <2>1
  <2> QED BY <2>1, <2>2 DEF Promise!Number
<1>5. CASE \E got \in SUBSET Range(exchange.mpdus) : ReceiveData(got)
  <2>1. numbered' = numbered BY <1>5 DEF ReceiveData
  <2>2. rcpt'.delivered = rcpt.delivered \/ PassesOn(rcpt.delivered, rcpt'.delivered, numbered)
    BY <1>5, DataPassesOn
  <2> QED BY <1>1, <2>1, <2>2
<1>6. CASE ReceiveBar
  <2>1. numbered' = numbered BY <1>6 DEF ReceiveBar
  <2>2. rcpt'.delivered = rcpt.delivered \/ PassesOn(rcpt.delivered, rcpt'.delivered, numbered)
    BY <1>6, BarPassesOn
  <2> QED BY <1>1, <2>1, <2>2
<1> QED BY <1>2, <1>3, <1>4, <1>5, <1>6 DEF Next, Granted, Received, Answered

(* Passing up from the reorder buffer is in the order of the numbers, none *)
(* twice and none that was not sent, as the agreement promises.            *)
THEOREM ImplementsDelivery == Spec => DeliversInOrder
<1>1. Init => Promise!Init
  BY DEF Init, Promise!Init
<1>2. SessionInv /\ [Next]_vars => [Promise!Number \/ Promise!Deliver]_<<numbered, rcpt.delivered>>
  BY DeliveryStep
<1> QED BY <1>1, <1>2, SessionInvariant, PTL DEF Spec, DeliversInOrder, Promise!Spec

=============================================================================
