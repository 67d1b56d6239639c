-------------------------- MODULE EdcaBackoffProofs --------------------------
(***************************************************************************)
(* Theorems about the backoff in EdcaContention, for every value of its    *)
(* constants: UpdateBackoff, which works out afterwards how many slots     *)
(* have passed, never counts a slot that was not idle while it passed; and *)
(* the timer of the manager is never set for too late.                     *)
(*                                                                         *)
(* heard counts the slots of a Txop on a grid that begins when the medium  *)
(* was reported idle for AIFS; the channel access manager has a grid of    *)
(* its own, that begins with the last end it keeps.  The invariant says    *)
(* that the next slot on the first grid ends before the manager takes more *)
(* slots than have been counted.                                           *)
(*                                                                         *)
(* The timer is either left alone while what a Txop waits for moves, or    *)
(* set for all who wait; the invariant compares it with the latest start   *)
(* of the backoff since the Txop began to wait.                            *)
(***************************************************************************)
EXTENDS EdcaTimeProofs

(* The slots that have begun when the first one is counted: EDCA counts    *)
(* one at the end of AIFS.                                                 *)
First(t) == IF t \in Edca THEN 0 ELSE 1

(* Where the grids of t begin.                                             *)
HeardStart(d, t) == Later(d.start[t], heard.busy + Sifs + Aifsn[t] * Slot)
KnownStart(d, t) == Later(d.start[t], LastEnd(d) + Sifs + Aifsn[t] * Slot)

(* The next slot that is counted is slot n of the one grid, and ends       *)
(* before the manager has to know of more than were counted so far.        *)
NextIsCounted(d, t) ==
  \E n \in Nat :
    /\ now < HeardStart(d, t) + (n + First(t)) * Slot
    /\ HeardStart(d, t) + (n + First(t)) * Slot =<
         KnownStart(d, t) + (d.slots[t] - d.earned[t] + First(t)) * Slot

Recent(d, t) == now < HeardStart(d, t) + (MaxDraw - d.earned[t] + 1) * Slot

Counted(d, t) ==
  /\ d.slots[t] =< MaxDraw /\ d.earned[t] =< d.slots[t]
  /\ d.earned[t] > 0 => Recent(d, t) /\ NextIsCounted(d, t)

CountInv(d) ==
  /\ heard.busy \in Int /\ BusyIsKnown(d, heard)
  /\ \A t \in Txops : Counted(d, t)

-----------------------------------------------------------------------------
(* Arithmetic.                                                             *)

LEMMA SlotsAdd ==
  ASSUME NEW a \in Int, NEW b \in Int
  PROVE  /\ a * Slot \in Int /\ (a + b) * Slot = a * Slot + b * Slot
         /\ (a - b) * Slot = a * Slot - b * Slot
         /\ a =< b <=> a * Slot =< b * Slot
         /\ a < b <=> a * Slot < b * Slot
  BY Constants

LEMMA SlotsDivide ==
  ASSUME NEW a \in Nat
  PROVE  /\ a \div Slot \in Nat
         /\ (a \div Slot) * Slot =< a /\ a < (a \div Slot + 1) * Slot
  BY Constants

LEMMA Firsts ==
  ASSUME NEW t \in Txops
  PROVE  First(t) \in {0, 1}
  BY DEF First

LEMMA LongestAgo ==
  ASSUME NEW t \in Txops
  PROVE  Oldest \in Int /\ Oldest + Slot + Sifs + Aifsn[t] * Slot + MaxDraw * Slot =< now
<1> DEFINE u == CHOOSE x \in Txops : \A y \in Txops : Aifsn[y] =< Aifsn[x]
           more == Aifsn[u] - Aifsn[t]
<1>1. u \in Txops /\ Aifsn[t] =< Aifsn[u]
      BY LargestAifsn
<1> HIDE DEF u
<1>2. Aifsn[t] \in Nat /\ Aifsn[u] \in Nat
      BY <1>1, EdcaConstants
<1>3. more \in Nat /\ MaxDraw + 1 + Aifsn[u] = (more + MaxDraw) + (1 + Aifsn[t])
      BY <1>1, <1>2, Constants
<1>4. Oldest = 0 - (Sifs + EifsNoDifs + (MaxDraw + 1 + Aifsn[u]) * Slot)
      BY DEF Oldest, u
<1> HIDE DEF more
<1>5. (MaxDraw + 1 + Aifsn[u]) * Slot = more * Slot + MaxDraw * Slot + Slot + Aifsn[t] * Slot
      BY <1>2, <1>3, Constants
<1>6. more * Slot \in Nat /\ Aifsn[t] * Slot \in Nat /\ MaxDraw * Slot \in Nat
      BY <1>3, Aifs, Constants
<1>7. QED BY <1>4, <1>5, <1>6, Constants DEF now

LEMMA GridStarts ==
  ASSUME NEW d \in Devices, heard.busy \in Int, NEW t \in Txops
  PROVE  /\ d.start[t] \in Int /\ d.slots[t] \in Nat /\ d.earned[t] \in Nat
         /\ LastEnd(d) \in Int
         /\ HeardStart(d, t) \in Int /\ KnownStart(d, t) \in Int
         /\ d.start[t] =< HeardStart(d, t) /\ d.start[t] =< KnownStart(d, t)
         /\ heard.busy + Sifs + Aifsn[t] * Slot =< HeardStart(d, t)
         /\ LastEnd(d) + Sifs + Aifsn[t] * Slot =< KnownStart(d, t)
         /\ KnownStart(d, t) =< GetBackoffStartFor(d, t)
<1>1. d.start[t] \in Int /\ d.slots[t] \in Nat /\ d.earned[t] \in Nat
      BY DEF Devices
<1>2. /\ LastEnd(d) \in Int /\ GetAccessGrantStart(d) \in Int
      /\ GetAccessGrantStart(d) >= LastEnd(d) + Sifs
      BY LastEndIsLast, AccessGrantStart
<1> DEFINE aifs == Aifsn[t] * Slot
<1>3. aifs \in Int /\ Sifs \in Int
      BY Aifs, Constants
<1>4. /\ HeardStart(d, t) = Later(d.start[t], heard.busy + Sifs + aifs)
      /\ KnownStart(d, t) = Later(d.start[t], LastEnd(d) + Sifs + aifs)
      /\ GetBackoffStartFor(d, t) = Later(d.start[t], GetAccessGrantStart(d) + aifs)
      BY DEF HeardStart, KnownStart, GetBackoffStartFor
<1> HIDE DEF aifs
<1>5. QED BY <1>1, <1>2, <1>3, <1>4 DEF Later, aifs

(* What is older than any backoff does not count.                          *)
LEMMA RecentStart ==
  ASSUME NEW d \in Devices, heard.busy \in Int, BusyIsKnown(d, heard), NEW t \in Txops,
         d.earned[t] > 0, d.earned[t] =< MaxDraw, Recent(d, t)
  PROVE  /\ now < HeardStart(d, t) + MaxDraw * Slot
         /\ Old(heard.busy) => /\ HeardStart(d, t) = d.start[t]
                               /\ heard.busy + Sifs + Aifsn[t] * Slot < d.start[t]
         /\ HeardStart(d, t) =< KnownStart(d, t)
         /\ d.start[t] = Oldest => heard.busy + Sifs + Aifsn[t] * Slot > Oldest + Slot
         /\ HeardStart(d, t) > Oldest + Slot
<1> DEFINE aifs == Aifsn[t] * Slot
           left == MaxDraw - d.earned[t] + 1
<1>1. /\ d.start[t] \in Int /\ d.earned[t] \in Nat /\ LastEnd(d) \in Int
      /\ HeardStart(d, t) \in Int /\ KnownStart(d, t) \in Int
      /\ LastEnd(d) + Sifs + aifs =< KnownStart(d, t) /\ d.start[t] =< KnownStart(d, t)
      BY GridStarts
<1>2. left \in Int /\ left =< MaxDraw /\ MaxDraw \in Int
      BY <1>1, Constants
<1>3. left * Slot =< MaxDraw * Slot /\ left * Slot \in Int /\ MaxDraw * Slot \in Int
      BY <1>2, SlotsAdd
<1>4. now < HeardStart(d, t) + left * Slot
      BY DEF Recent
<1> HIDE DEF left
<1>5. now < HeardStart(d, t) + MaxDraw * Slot
      BY <1>1, <1>3, <1>4 DEF now
<1>6. /\ aifs \in Nat /\ Sifs \in Nat /\ Slot \in Nat
      /\ Oldest \in Int /\ Oldest + Slot + Sifs + aifs + MaxDraw * Slot =< now
      BY Aifs, Constants, LongestAgo
<1>7. HeardStart(d, t) = Later(d.start[t], heard.busy + Sifs + aifs)
      BY DEF HeardStart
<1> HIDE DEF aifs
<1>8. Old(heard.busy) => heard.busy + Sifs + aifs < HeardStart(d, t)
      BY <1>1, <1>3, <1>5, <1>6 DEF Old, now
<1>9. Old(heard.busy) => HeardStart(d, t) = d.start[t]
      BY <1>1, <1>6, <1>7, <1>8 DEF Later
<1>10. HeardStart(d, t) > Oldest + Slot
      BY <1>1, <1>3, <1>5, <1>6 DEF now
<1>11. HeardStart(d, t) =< KnownStart(d, t)
      BY <1>1, <1>6, <1>7, <1>9 DEF BusyIsKnown, Later
<1>12. d.start[t] = Oldest => heard.busy + Sifs + aifs > Oldest + Slot
      BY <1>1, <1>6, <1>7, <1>10 DEF Later
<1>13. QED BY <1>5, <1>8, <1>9, <1>10, <1>11, <1>12 DEF aifs

-----------------------------------------------------------------------------
(* What keeps the count true.                                              *)

(* Some slot of the one grid ends before a slot that lasts until later.    *)
LEMMA SomeSlotIsNext ==
  ASSUME NEW H \in Int, NEW K \in Int, H =< K, now + Slot =< K,
         NEW t \in Txops, NEW ahead \in Nat
  PROVE  \E n \in Nat : /\ now < H + (n + First(t)) * Slot
                        /\ H + (n + First(t)) * Slot =< K + (ahead + First(t)) * Slot
<1> DEFINE from == H + First(t) * Slot
<1>1. Slot \in Nat /\ Slot > 0 /\ First(t) \in Nat
      BY Firsts, Constants
<1>2. /\ First(t) * Slot \in Nat /\ ahead * Slot \in Nat
      /\ (ahead + First(t)) * Slot = ahead * Slot + First(t) * Slot
      BY <1>1, SlotsAdd
<1>3. CASE from > now
      BY <1>1, <1>2, <1>3 DEF now
<1>4. CASE ~ (from > now)
  <2> DEFINE q == (now - from) \div Slot
  <2>1. now - from \in Nat
        BY <1>1, <1>2, <1>4 DEF now
  <2>2. q \in Nat /\ q * Slot =< now - from /\ now - from < (q + 1) * Slot
        BY <2>1, SlotsDivide
  <2> HIDE DEF q
  <2>3. /\ (q + 1) * Slot = q * Slot + Slot /\ q * Slot \in Int
        /\ (q + 1 + First(t)) * Slot = q * Slot + Slot + First(t) * Slot
        BY <1>1, <2>2
  <2>4. /\ now < H + (q + 1 + First(t)) * Slot
        /\ H + (q + 1 + First(t)) * Slot =< now + Slot
        BY <1>1, <1>2, <2>1, <2>2, <2>3 DEF now
  <2>5. /\ (q + 1 + First(t)) * Slot \in Int
        /\ now + Slot =< K + (ahead + First(t)) * Slot
        BY <1>1, <1>2, <2>2, <2>3 DEF now
  <2>6. q + 1 \in Nat /\ H + (q + 1 + First(t)) * Slot =< K + (ahead + First(t)) * Slot
        BY <1>1, <1>2, <2>2, <2>4, <2>5 DEF now
  <2>7. QED BY <2>4, <2>6
<1>5. QED BY <1>3, <1>4

(* While the medium may not be taken any slot may be the next.             *)
LEMMA CountedAnew ==
  ASSUME NEW d \in Devices, heard.busy \in Int, BusyIsKnown(d, heard), NEW t \in Txops,
         Protected(d, now), d.slots[t] =< MaxDraw, d.earned[t] =< d.slots[t],
         d.earned[t] > 0 => Recent(d, t)
  PROVE  Counted(d, t)
<1> SUFFICES ASSUME d.earned[t] > 0 PROVE NextIsCounted(d, t)
    BY DEF Counted
<1>1. /\ d.slots[t] \in Nat /\ d.earned[t] \in Nat /\ LastEnd(d) \in Int
      /\ HeardStart(d, t) \in Int /\ KnownStart(d, t) \in Int
      /\ LastEnd(d) + Sifs + Aifsn[t] * Slot =< KnownStart(d, t)
      /\ Aifsn[t] * Slot \in Nat /\ Aifsn[t] * Slot >= Slot
      /\ Sifs \in Nat /\ Slot \in Nat /\ MaxDraw \in Nat
      BY GridStarts, Aifs, Constants
<1>2. d.slots[t] - d.earned[t] \in Nat
      BY <1>1
<1>3. HeardStart(d, t) =< KnownStart(d, t)
      BY <1>1, RecentStart
<1>4. now + Slot =< KnownStart(d, t)
      BY <1>1 DEF Protected, now
<1>5. QED BY <1>1, <1>2, <1>3, <1>4, SomeSlotIsNext DEF NextIsCounted

(* Only the backoffs and the last end count.                               *)
Backoffs(d) == <<d.slots, d.start, d.earned>>

Reported(d, e) == Ends(e) = Ends(d) \/ \E end \in Ends(e) : end >= now

LEMMA BusyStaysKnown ==
  ASSUME NEW d, NEW e \in Devices, heard.busy \in Int, BusyIsKnown(d, heard), Reported(d, e)
  PROVE  BusyIsKnown(e, heard)
<1>1. LastEnd(e) \in Int /\ \A end \in Ends(e) : end \in Int /\ end =< LastEnd(e)
      BY LastEndIsLast
<1>2. CASE Ends(e) = Ends(d)
  <2>1. LastEnd(e) = LastEnd(d)
        BY <1>2 DEF LastEnd, Ends
  <2>2. QED BY <2>1 DEF BusyIsKnown
<1>3. CASE \E end \in Ends(e) : end >= now
      BY <1>1, <1>3 DEF BusyIsKnown, now
<1>4. QED BY <1>2, <1>3 DEF Reported

LEMMA SameCounts ==
  ASSUME NEW d \in Devices, NEW e \in Devices, CountInv(d), Reported(d, e),
         Backoffs(e) = Backoffs(d)
  PROVE  CountInv(e)
<1>1. heard.busy \in Int /\ BusyIsKnown(e, heard)
      BY BusyStaysKnown DEF CountInv
<1>2. ASSUME NEW t \in Txops PROVE Counted(e, t)
  <2>1. /\ e.slots[t] = d.slots[t] /\ e.start[t] = d.start[t] /\ e.earned[t] = d.earned[t]
        /\ Counted(d, t)
        BY DEF Backoffs, CountInv
  <2>2. HeardStart(e, t) = HeardStart(d, t)
        BY <2>1 DEF HeardStart
  <2>3. CASE Ends(e) = Ends(d)
    <3>1. LastEnd(e) = LastEnd(d)
          BY <2>3 DEF LastEnd, Ends
    <3>2. KnownStart(e, t) = KnownStart(d, t)
          BY <2>1, <3>1 DEF KnownStart
    <3>3. QED BY <2>1, <2>2, <3>2 DEF Counted, Recent, NextIsCounted
  <2>4. CASE \E end \in Ends(e) : end >= now
    <3>1. Protected(e, now)
          BY <2>4, LastEndIsLast, Constants DEF Protected, now
    <3>2. /\ e.slots[t] =< MaxDraw /\ e.earned[t] =< e.slots[t]
          /\ e.earned[t] > 0 => Recent(e, t)
          BY <2>1, <2>2 DEF Counted, Recent
    <3>3. QED BY <1>1, <3>1, <3>2, CountedAnew
  <2>5. QED BY <2>3, <2>4 DEF Reported
<1>3. QED BY <1>1, <1>2 DEF CountInv

(* UpdateBackoff takes no more than has been counted.                      *)
LEMMA PassedAreCounted ==
  ASSUME NEW d \in Devices, CountInv(d), NEW t \in Txops, d.earned[t] > 0
  PROVE  /\ d.slots[t] - d.earned[t] \in Nat
         /\ now < KnownStart(d, t) + (d.slots[t] - d.earned[t] + First(t)) * Slot
         /\ Passed(d, t) =< d.slots[t] - d.earned[t]
<1> DEFINE ahead == d.slots[t] - d.earned[t]
           B == GetBackoffStartFor(d, t)
           K == KnownStart(d, t)
           full == (now - B) \div Slot + (IF t \in Edca THEN 1 ELSE 0)
<1>1. /\ heard.busy \in Int /\ Counted(d, t)
      /\ d.slots[t] \in Nat /\ d.earned[t] \in Nat /\ HeardStart(d, t) \in Int
      /\ K \in Int /\ K =< B /\ B \in Int /\ First(t) \in {0, 1}
      BY GridStarts, BackoffTimes, Firsts DEF CountInv
<1>2. ahead \in Nat
      BY <1>1 DEF Counted
<1> HIDE DEF K
<1>3. now < K + (ahead + First(t)) * Slot
  <2>1. PICK n \in Nat :
          /\ now < HeardStart(d, t) + (n + First(t)) * Slot
          /\ HeardStart(d, t) + (n + First(t)) * Slot =< K + (ahead + First(t)) * Slot
        BY <1>1 DEF Counted, NextIsCounted, K
  <2>2. (n + First(t)) * Slot \in Int /\ (ahead + First(t)) * Slot \in Int
        BY <1>1, <1>2, Constants
  <2>3. QED BY <1>1, <2>1, <2>2 DEF now
<1> HIDE DEF B
<1>4. Passed(d, t) =< ahead
  <2>1. CASE B > now
        BY <1>2, <2>1 DEF Passed, B
  <2>2. CASE ~ (B > now)
    <3>1. now - B \in Nat
          BY <1>1, <2>2 DEF now
    <3> DEFINE q == (now - B) \div Slot
    <3>2. q \in Nat /\ q * Slot =< now - B
          BY <3>1, SlotsDivide
    <3> HIDE DEF q
    <3> HIDE DEF ahead
    <3>3. q * Slot \in Int /\ (ahead + First(t)) * Slot \in Int
          BY <1>1, <1>2, <3>2, Constants
    <3>4. q * Slot < (ahead + First(t)) * Slot
          BY <1>1, <1>3, <3>1, <3>2, <3>3 DEF now
    <3>5. q < ahead + First(t)
      <4>1. q \in Int /\ ahead + First(t) \in Int
            BY <1>1, <1>2, <3>2
      <4>2. \A a, b \in Int : a < b <=> a * Slot < b * Slot
            BY SlotsAdd
      <4>3. QED BY <3>4, <4>1, <4>2, Zenon
    <3>6. full =< ahead
          BY <1>1, <1>2, <3>2, <3>5 DEF First, q
    <3>7. Passed(d, t) = IF full < d.slots[t] THEN full ELSE d.slots[t]
          BY <2>2 DEF Passed, B
    <3>8. full \in Int
          BY <3>2 DEF q
    <3> HIDE DEF full
    <3>9. QED BY <1>1, <1>2, <3>6, <3>7, <3>8
  <2>3. QED BY <2>1, <2>2
<1>5. QED BY <1>2, <1>3, <1>4 DEF K

LEMMA UpdatedBackoffs ==
  ASSUME NEW d \in Devices, NEW t \in Txops
  PROVE  /\ UpdateBackoff(d).slots[t] = d.slots[t] - Passed(d, t)
         /\ UpdateBackoff(d).start[t] =
              IF GetBackoffStartFor(d, t) > now THEN d.start[t]
              ELSE GetBackoffStartFor(d, t) + Passed(d, t) * Slot
<1> DEFINE slots == [u \in Txops |-> d.slots[u] - Passed(d, u)]
           start == [u \in Txops |->
                IF GetBackoffStartFor(d, u) > now THEN d.start[u]
                ELSE GetBackoffStartFor(d, u) + Passed(d, u) * Slot]
<1>1. /\ slots[t] = d.slots[t] - Passed(d, t)
      /\ start[t] = IF GetBackoffStartFor(d, t) > now THEN d.start[t]
                    ELSE GetBackoffStartFor(d, t) + Passed(d, t) * Slot
      OBVIOUS
<1>2. UpdateBackoff(d) = [d EXCEPT !.slots = Computed(slots), !.start = Computed(start)]
      BY DEF UpdateBackoff
<1> HIDE DEF slots, start
<1>3. Computed(slots) = slots /\ Computed(start) = start
      BY ComputedIsTheSame
<1>4. UpdateBackoff(d) = [d EXCEPT !.slots = slots, !.start = start]
      BY <1>2, <1>3, Zenon
<1>5. UpdateBackoff(d).slots = slots /\ UpdateBackoff(d).start = start
      BY <1>4 DEF Devices
<1>6. QED BY <1>1, <1>5, Zenon

LEMMA UpdateCounts ==
  ASSUME NEW d \in Devices, CountInv(d)
  PROVE  CountInv(UpdateBackoff(d))
<1> DEFINE e == UpdateBackoff(d)
<1>1. e \in Devices /\ Intervals(e) = Intervals(d) /\ e.earned = d.earned
      BY Updated
<1>2. \A t \in Txops :
        /\ e.slots[t] = d.slots[t] - Passed(d, t)
        /\ e.start[t] = IF GetBackoffStartFor(d, t) > now THEN d.start[t]
                        ELSE GetBackoffStartFor(d, t) + Passed(d, t) * Slot
      BY UpdatedBackoffs
<1> HIDE DEF e
<1>3. LastEnd(e) = LastEnd(d)
      BY <1>1, SameLastEnd
<1>4. heard.busy \in Int /\ BusyIsKnown(d, heard) /\ BusyIsKnown(e, heard)
      BY <1>3 DEF CountInv, BusyIsKnown
<1>5. ASSUME NEW t \in Txops PROVE Counted(e, t)
  <2> DEFINE V == Passed(d, t)
             B == GetBackoffStartFor(d, t)
             K == KnownStart(d, t)
             ahead == d.slots[t] - d.earned[t]
             left == e.slots[t] - e.earned[t]
  <2>1. /\ Counted(d, t) /\ e.earned[t] = d.earned[t] /\ e.slots[t] = d.slots[t] - V
        /\ e.start[t] = IF B > now THEN d.start[t] ELSE B + V * Slot
        BY <1>1, <1>2, <1>5 DEF CountInv
  <2>2. /\ V \in Nat /\ V =< d.slots[t] /\ d.slots[t] \in Nat /\ d.earned[t] \in Nat
        /\ d.start[t] \in Int /\ e.start[t] \in Int
        /\ HeardStart(d, t) \in Int /\ HeardStart(e, t) \in Int
        /\ HeardStart(d, t) >= heard.busy + Sifs + Aifsn[t] * Slot
        /\ KnownStart(e, t) \in Int
        /\ K \in Int /\ K =< B /\ B \in Int /\ LastEnd(d) \in Int /\ MaxDraw \in Nat
        /\ B >= d.start[t] /\ K >= LastEnd(d) + Sifs + Aifsn[t] * Slot
        /\ Aifsn[t] * Slot \in Int /\ Sifs \in Int /\ K >= d.start[t]
        BY <1>1, <1>4, GridStarts, BackoffTimes, PassedSlots, Constants, Aifs
  <2>3. e.slots[t] \in Nat /\ e.slots[t] =< MaxDraw
        BY <2>1, <2>2 DEF Counted
  <2>4. CASE d.earned[t] = 0
        BY <2>1, <2>3, <2>4 DEF Counted
  <2>5. CASE d.earned[t] > 0
    <3>1. /\ ahead \in Nat /\ V =< ahead
          /\ now < K + (ahead + First(t)) * Slot
          BY <2>5, PassedAreCounted
    <3>2. /\ HeardStart(d, t) =< K /\ Recent(d, t)
          BY <1>4, <2>1, <2>2, <2>5, RecentStart DEF Counted
    <3>3. First(t) \in {0, 1}
          BY Firsts
    <3>4. e.earned[t] =< e.slots[t] /\ left = ahead - V
          BY <2>1, <2>2, <3>1
    <3>5. CASE B > now
      <4>1. e.start[t] = d.start[t] /\ V = 0
            BY <2>1, <3>5 DEF Passed
      <4>2. HeardStart(e, t) = HeardStart(d, t) /\ KnownStart(e, t) = KnownStart(d, t)
            BY <1>3, <4>1 DEF HeardStart, KnownStart
      <4>3. e.slots[t] = d.slots[t]
            BY <2>1, <2>2, <4>1
      <4>4. QED BY <2>1, <4>2, <4>3 DEF Counted, Recent, NextIsCounted
    <3>6. CASE ~ (B > now)
      <4>1. e.start[t] = B + V * Slot /\ V * Slot \in Nat
            BY <2>1, <2>2, <3>6, Constants
      <4>2. HeardStart(e, t) = Later(e.start[t], heard.busy + Sifs + Aifsn[t] * Slot)
            BY DEF HeardStart
      <4>3. KnownStart(e, t) = Later(e.start[t], LastEnd(d) + Sifs + Aifsn[t] * Slot)
            BY <1>3 DEF KnownStart
      <4> DEFINE aifs == Aifsn[t] * Slot
                 begun == V * Slot
      <4> HIDE DEF aifs, begun, B, K, V
      <4>4. HeardStart(e, t) = B + begun
            BY <1>4, <2>2, <3>2, <4>1, <4>2 DEF Later, aifs, begun
      <4>5. KnownStart(e, t) = B + begun
            BY <1>4, <2>2, <3>2, <4>1, <4>3 DEF Later, aifs, begun
      <4>6. Recent(e, t)
        <5> DEFINE most == MaxDraw - d.earned[t] + 1
        <5>1. most * Slot \in Int
              BY <2>2, Constants
        <5>2. now < HeardStart(d, t) + most * Slot
              BY <3>2 DEF Recent
        <5> HIDE DEF most
        <5>3. HeardStart(d, t) =< B + begun
              BY <2>2, <3>2, <4>1 DEF begun
        <5>4. now < HeardStart(e, t) + most * Slot
              BY <2>2, <4>4, <5>1, <5>2, <5>3 DEF now
        <5>5. QED BY <2>1, <5>4 DEF Recent, most
      <4>7. NextIsCounted(e, t)
        <5> DEFINE step == (left + First(t)) * Slot
        <5> HIDE DEF left, ahead
        <5>1. left \in Nat /\ ahead + First(t) = V + (left + First(t))
              BY <2>2, <3>1, <3>3, <3>4
        <5>2. (ahead + First(t)) * Slot = begun + step /\ step \in Int
              BY <2>2, <3>3, <5>1, Constants DEF begun
        <5> HIDE DEF step
        <5>3. now < B + begun + step
              BY <2>2, <3>1, <4>1, <5>2 DEF now, begun
        <5>4. /\ now < HeardStart(e, t) + step
              /\ HeardStart(e, t) + step =< KnownStart(e, t) + step
              BY <2>2, <4>1, <4>4, <4>5, <5>2, <5>3 DEF begun, now
        <5>5. QED BY <5>1, <5>4 DEF NextIsCounted, step, left
      <4>8. QED BY <2>3, <3>4, <4>6, <4>7 DEF Counted
    <3>7. QED BY <3>5, <3>6
  <2>6. QED BY <2>2, <2>4, <2>5
<1>6. QED BY <1>4, <1>5 DEF CountInv, e

(* A backoff is drawn, and its count begins now.                           *)
LEMMA RecentAnew ==
  ASSUME NEW d \in Devices, heard.busy \in Int, NEW t \in Txops,
         d.start[t] = now, d.earned[t] =< MaxDraw
  PROVE  Recent(d, t)
<1> DEFINE left == MaxDraw - d.earned[t] + 1
<1>1. HeardStart(d, t) \in Int /\ HeardStart(d, t) >= now /\ d.earned[t] \in Nat
      BY GridStarts DEF now
<1>2. left \in Nat /\ left >= 1
      BY <1>1, Constants
<1>3. left * Slot \in Int /\ left * Slot > 0
      BY <1>2, Constants
<1> HIDE DEF left
<1>4. now < HeardStart(d, t) + left * Slot
      BY <1>1, <1>3 DEF now
<1>5. QED BY <1>4 DEF Recent, left

LEMMA DrawnCounts ==
  ASSUME NEW d \in Devices, NEW t \in Txops, NEW c \in Choices, CountInv(d), Protected(d, now)
  PROVE  CountInv(GenerateBackoff(d, t, c))
<1> DEFINE e == GenerateBackoff(d, t, c)
<1>1. e \in Devices /\ Intervals(e) = Intervals(d)
      BY BackoffGenerated
<1>2. /\ e.slots[t] = c.draw[t] /\ e.start[t] = now /\ e.earned[t] = c.draw[t]
      /\ \A u \in Txops \ {t} : /\ e.slots[u] = d.slots[u] /\ e.start[u] = d.start[u]
                                /\ e.earned[u] = d.earned[u]
      BY DEF GenerateBackoff, Devices
<1> HIDE DEF e
<1>3. LastEnd(e) = LastEnd(d)
      BY <1>1, SameLastEnd
<1>4. heard.busy \in Int /\ BusyIsKnown(e, heard) /\ Protected(e, now)
      BY <1>3 DEF CountInv, BusyIsKnown, Protected
<1>5. Counted(e, t)
  <2>1. c.draw[t] \in Nat /\ c.draw[t] =< MaxDraw
        BY Constants DEF Choices
  <2>2. Recent(e, t)
        BY <1>1, <1>2, <1>4, <2>1, RecentAnew
  <2>3. QED BY <1>1, <1>2, <1>4, <2>1, <2>2, CountedAnew
<1>6. ASSUME NEW u \in Txops \ {t} PROVE Counted(e, u)
  <2>1. HeardStart(e, u) = HeardStart(d, u) /\ KnownStart(e, u) = KnownStart(d, u)
        BY <1>2, <1>3 DEF HeardStart, KnownStart
  <2>2. QED BY <1>2, <2>1 DEF CountInv, Counted, Recent, NextIsCounted
<1>7. QED BY <1>4, <1>5, <1>6 DEF CountInv, e

-----------------------------------------------------------------------------
(* Access is granted.                                                      *)

LEMMA TxStartCounts ==
  ASSUME NEW d \in Devices, CountInv(d)
  PROVE  CountInv(NotifyTxStartNow(d))
<1> DEFINE rx == IF d.rxEnd > now THEN now ELSE d.rxEnd
           cut == [d EXCEPT !.rxOk = TRUE, !.rxEnd = rx]
           u == UpdateBackoff(cut)
           e == [u EXCEPT !.txEnd = now + FrameTime]
<1>1. rx \in Int /\ now + FrameTime \in Int /\ now + FrameTime >= now
      BY Constants DEF Devices, now
<1>2. rx = d.rxEnd \/ rx >= now
      BY DEF now
<1>3. NotifyTxStartNow(d) = e
      BY DEF NotifyTxStartNow
<1> HIDE DEF rx
<1>4. cut \in Devices /\ Backoffs(cut) = Backoffs(d) /\ cut.rxEnd = rx
      BY <1>1 DEF Devices, Backoffs
<1>5. Reported(d, cut)
  <2>1. CASE rx = d.rxEnd
    <3>1. Ends(cut) = Ends(d)
          BY <1>1, <2>1 DEF Ends, Devices
    <3>2. QED BY <3>1 DEF Reported
  <2>2. CASE rx >= now
        BY <1>4, <2>2 DEF Reported, Ends
  <2>3. QED BY <1>2, <2>1, <2>2
<1> HIDE DEF cut
<1>6. CountInv(cut)
      BY <1>4, <1>5, SameCounts
<1>7. u \in Devices /\ CountInv(u)
      BY <1>4, <1>6, Updated, UpdateCounts
<1> HIDE DEF u
<1>8. e \in Devices /\ Backoffs(e) = Backoffs(u) /\ e.txEnd = now + FrameTime
      BY <1>1, <1>7 DEF Devices, Backoffs
<1> HIDE DEF e
<1>9. Reported(u, e)
      BY <1>1, <1>8 DEF Reported, Ends
<1>10. QED BY <1>3, <1>7, <1>8, <1>9, SameCounts

LEMMA SendCounts ==
  ASSUME NEW d \in Devices, NEW kind \in {"noack", "ack", "cts"}, CountInv(d)
  PROVE  CountInv(SendAs(d, kind))
<1> DEFINE wait == now + FrameTime + AnswerTime
           timed == CASE kind = "cts" -> [d EXCEPT !.ctsEnd = wait, !.due = wait]
                 [] kind = "ack" -> [d EXCEPT !.ackEnd = wait, !.due = wait]
                 [] kind = "noack" -> [d EXCEPT !.due = now + FrameTime]
           f == [timed EXCEPT !.phase = kind]
<1>1. /\ wait \in Nat /\ now + FrameTime \in Nat /\ wait >= now
      /\ wait \in Int /\ wait \in Event /\ now + FrameTime \in Event
      BY Constants DEF now, Event
<1>2. SendAs(d, kind) = NotifyTxStartNow(f)
      BY DEF SendAs
<1> HIDE DEF wait
<1>3. f \in Devices /\ Backoffs(f) = Backoffs(d) /\ Reported(d, f)
  <2>1. CASE kind = "cts"
    <3>1. f = [d EXCEPT !.ctsEnd = wait, !.due = wait, !.phase = "cts"]
          BY <2>1
    <3> HIDE DEF f
    <3>2. f \in Devices
          BY <1>1, <3>1 DEF Devices
    <3>3. Backoffs(f) = Backoffs(d) /\ f.ctsEnd = wait
          BY <3>1 DEF Devices, Backoffs
    <3>4. QED BY <1>1, <3>2, <3>3 DEF Reported, Ends
  <2>2. CASE kind = "ack"
    <3>1. f = [d EXCEPT !.ackEnd = wait, !.due = wait, !.phase = "ack"]
          BY <2>2
    <3> HIDE DEF f
    <3>2. f \in Devices
          BY <1>1, <3>1 DEF Devices
    <3>3. Backoffs(f) = Backoffs(d) /\ f.ackEnd = wait
          BY <3>1 DEF Devices, Backoffs
    <3>4. QED BY <1>1, <3>2, <3>3 DEF Reported, Ends
  <2>3. CASE kind = "noack"
    <3>1. f = [d EXCEPT !.due = now + FrameTime, !.phase = "noack"]
          BY <2>3
    <3> HIDE DEF f
    <3>2. f \in Devices
          BY <1>1, <3>1 DEF Devices
    <3>3. Backoffs(f) = Backoffs(d) /\ Ends(f) = Ends(d)
          BY <3>1 DEF Devices, Backoffs, Ends
    <3>4. QED BY <3>2, <3>3 DEF Reported
  <2>4. QED BY <2>1, <2>2, <2>3
<1> HIDE DEF f
<1>4. CountInv(f)
      BY <1>3, SameCounts
<1>5. QED BY <1>2, <1>3, <1>4, TxStartCounts

(* Only what the exchange and the requests are changes.                    *)
LEMMA CountsAlike ==
  ASSUME NEW d \in Devices, NEW e \in Devices, CountInv(d),
         Intervals(e) = Intervals(d), Backoffs(e) = Backoffs(d)
  PROVE  CountInv(e)
  BY SameLastEnd, SameCounts DEF Reported

LEMMA GrantedCounts ==
  ASSUME NEW d \in Devices, NEW t \in Txops, NEW c \in Choices, CountInv(d)
  PROVE  CountInv(NotifyAccessGranted(d, t, c))
<1> DEFINE requested == [d.requested EXCEPT ![t] = FALSE]
           stranded == d.stranded \ {t}
           granted == [d EXCEPT !.requested = requested, !.stranded = stranded]
           left == [granted EXCEPT !.stranded = @ \cup {t}]
           f == [granted EXCEPT !.owner = t, !.held = c.held, !.response = Never]
           kind == IF c.kind = "none" THEN "noack" ELSE c.kind
<1>1. NotifyAccessGranted(d, t, c) \in {granted, left, SendAs(f, kind)}
      BY DEF NotifyAccessGranted, StartTransmission
<1>2. requested \in [Txops -> BOOLEAN] /\ stranded \in SUBSET Txops
      BY DEF Devices
<1> HIDE DEF requested, stranded
<1>3. /\ granted \in Devices /\ Intervals(granted) = Intervals(d)
      /\ Backoffs(granted) = Backoffs(d)
      BY <1>2 DEF Devices, Intervals, Backoffs
<1> HIDE DEF granted
<1>4. left \in Devices /\ Intervals(left) = Intervals(d) /\ Backoffs(left) = Backoffs(d)
      BY <1>3 DEF Devices, Intervals, Backoffs
<1>5. c.held \in BOOLEAN /\ kind \in {"noack", "ack", "cts"}
      BY DEF Choices
<1>6. f \in Devices /\ Intervals(f) = Intervals(d) /\ Backoffs(f) = Backoffs(d)
      BY <1>3, <1>5 DEF Devices, Intervals, Backoffs, Event
<1> HIDE DEF left, f, kind
<1>7. CountInv(granted) /\ CountInv(left) /\ CountInv(f)
      BY <1>3, <1>4, <1>6, CountsAlike
<1>8. CountInv(SendAs(f, kind))
      BY <1>5, <1>6, <1>7, SendCounts
<1>9. QED BY <1>1, <1>7, <1>8

(* The slot boundary that a silent winner was granted at has been counted  *)
(* for an EDCA loser, whose grid begins with it; otherwise the medium may  *)
(* not be taken.                                                           *)
LEMMA LoserIsCounted ==
  ASSUME NEW d \in Devices, heard.busy \in Int, BusyIsKnown(d, heard), NEW t \in Txops,
         NEW silent, d.start[t] = now, d.slots[t] =< MaxDraw,
         d.earned[t] = (IF silent /\ t \in Edca /\ d.slots[t] > 0 THEN d.slots[t] - 1
                        ELSE d.slots[t]),
         silent => LastEnd(d) + Sifs + Aifsn[t] * Slot =< now,
         ~ silent => Protected(d, now)
  PROVE  Counted(d, t)
<1>1. /\ d.slots[t] \in Nat /\ d.earned[t] \in Nat /\ LastEnd(d) \in Int
      /\ HeardStart(d, t) \in Int /\ KnownStart(d, t) \in Int
      /\ HeardStart(d, t) >= now /\ MaxDraw \in Nat
      BY GridStarts, Constants DEF now
<1>2. d.earned[t] =< d.slots[t] /\ d.earned[t] =< MaxDraw
      BY <1>1
<1>3. Recent(d, t)
      BY <1>2, RecentAnew
<1>4. CASE ~ silent
      BY <1>2, <1>3, <1>4, CountedAnew
<1>5. CASE silent /\ d.earned[t] > 0
  <2>1. /\ KnownStart(d, t) = now
        /\ HeardStart(d, t) =< KnownStart(d, t)
    <3>1. HeardStart(d, t) =< KnownStart(d, t)
          BY <1>2, <1>3, <1>5, RecentStart
    <3>2. KnownStart(d, t) = Later(now, LastEnd(d) + Sifs + Aifsn[t] * Slot)
          BY DEF KnownStart
    <3>3. QED BY <1>1, <1>5, <3>1, <3>2, Aifs, Constants DEF Later, now
  <2>2. HeardStart(d, t) = now
        BY <1>1, <2>1 DEF now
  <2>3. NextIsCounted(d, t)
    <3>1. CASE t \in Edca
      <4>1. d.slots[t] - d.earned[t] = 1 /\ First(t) = 0
            BY <1>1, <1>5, <3>1 DEF First
      <4>2. (1 + 0) * Slot = Slot /\ Slot \in Nat /\ Slot > 0
            BY Constants
      <4>3. 1 \in Nat /\ now < now + (1 + 0) * Slot /\ now + (1 + 0) * Slot =< now + (1 + 0) * Slot
            BY <4>2 DEF now
      <4>4. QED BY <2>1, <2>2, <4>1, <4>3 DEF NextIsCounted
    <3>2. CASE t \notin Edca
      <4>1. d.slots[t] - d.earned[t] = 0 /\ First(t) = 1
            BY <1>1, <1>5, <3>2 DEF First
      <4>2. (0 + 1) * Slot = Slot /\ Slot \in Nat /\ Slot > 0
            BY Constants
      <4>3. 0 \in Nat /\ now < now + (0 + 1) * Slot /\ now + (0 + 1) * Slot =< now + (0 + 1) * Slot
            BY <4>2 DEF now
      <4>4. QED BY <2>1, <2>2, <4>1, <4>3 DEF NextIsCounted
    <3>3. QED BY <3>1, <3>2
  <2>4. QED BY <1>2, <1>3, <2>3 DEF Counted
<1>6. CASE d.earned[t] = 0
      BY <1>2, <1>6 DEF Counted
<1>7. QED BY <1>1, <1>4, <1>5, <1>6

LEMMA CollisionCounts ==
  ASSUME NEW d \in Devices, NEW losers \in SUBSET Txops, NEW c \in Choices, NEW b, NEW w,
         CountInv(d),
         SendsNothing(b, w, c) =>
           \A t \in losers : LastEnd(d) + Sifs + Aifsn[t] * Slot =< now,
         ~ SendsNothing(b, w, c) => Protected(d, now)
  PROVE  CountInv(Collide(d, losers, c, SendsNothing(b, w, c)))
<1> DEFINE silent == SendsNothing(b, w, c)
           earned == [t \in Txops |-> IF t \notin losers THEN d.earned[t]
                  ELSE IF silent /\ t \in Edca /\ c.draw[t] > 0 THEN c.draw[t] - 1
                  ELSE c.draw[t]]
           e == Collide(d, losers, c, silent)
<1>1. AfterCollision(d, losers, c, silent, e)
      BY Collided, Zenon
<1>2. \A t \in Txops : earned[t] =
        IF t \notin losers THEN d.earned[t]
        ELSE IF silent /\ t \in Edca /\ c.draw[t] > 0 THEN c.draw[t] - 1 ELSE c.draw[t]
      OBVIOUS
<1> HIDE DEF silent
<1>3. e.earned = earned
      BY DEF Collide, Devices
<1> HIDE DEF earned, e
<1>4. /\ e \in Devices /\ LastEnd(e) = LastEnd(d)
      /\ heard.busy \in Int /\ BusyIsKnown(e, heard)
      BY <1>1, SameLastEnd DEF AfterCollision, CountInv, BusyIsKnown
<1>5. ASSUME NEW t \in losers PROVE Counted(e, t)
  <2>1. e.slots[t] = c.draw[t] /\ e.start[t] = now /\ t \in Txops
        BY <1>1 DEF AfterCollision
  <2>2. c.draw[t] =< MaxDraw
        BY <2>1, Constants DEF Choices
  <2>3. e.earned[t] = IF silent /\ t \in Edca /\ e.slots[t] > 0 THEN e.slots[t] - 1
                      ELSE e.slots[t]
        BY <1>2, <1>3, <2>1
  <2>4. silent => LastEnd(e) + Sifs + Aifsn[t] * Slot =< now
        BY <1>4 DEF silent
  <2>5. ~ silent => Protected(e, now)
        BY <1>4 DEF silent, Protected
  <2>6. QED BY <1>4, <2>1, <2>2, <2>3, <2>4, <2>5, LoserIsCounted
<1>6. ASSUME NEW t \in Txops \ losers PROVE Counted(e, t)
  <2>1. e.slots[t] = d.slots[t] /\ e.start[t] = d.start[t] /\ e.earned[t] = d.earned[t]
        BY <1>1, <1>2, <1>3 DEF AfterCollision
  <2>2. HeardStart(e, t) = HeardStart(d, t) /\ KnownStart(e, t) = KnownStart(d, t)
        BY <1>4, <2>1 DEF HeardStart, KnownStart
  <2>3. QED BY <2>1, <2>2 DEF CountInv, Counted, Recent, NextIsCounted
<1>7. CountInv(e)
      BY <1>4, <1>5, <1>6 DEF CountInv
<1>8. QED BY <1>7 DEF e, silent

LEMMA DecisionCounts ==
  ASSUME NEW d \in Devices, NEW c \in Choices, CountInv(d)
  PROVE  CountInv(DoGrantDcfAccess(d, c))
<1> DEFINE w == Least(Ready(d))
           n == NotifyAccessGranted(d, w, c)
           losers == Ready(d) \ {w}
<1>1. CASE Ready(d) = {}
      BY <1>1 DEF DoGrantDcfAccess
<1>2. CASE Ready(d) # {}
  <2>1. w \in Ready(d) /\ Ready(d) \subseteq Txops
        BY <1>2, ReadyTxop
  <2>2. DoGrantDcfAccess(d, c) = Collide(n, losers, c, SendsNothing(d, w, c))
        BY <1>2 DEF DoGrantDcfAccess
  <2>3. \A t \in Ready(d) : LastEnd(d) + Sifs + Aifsn[t] * Slot =< now
    <3>1. ASSUME NEW t \in Ready(d) PROVE LastEnd(d) + Sifs + Aifsn[t] * Slot =< now
      <4>1. t \in Txops /\ GetBackoffEndFor(d, t) =< now
            BY DEF Ready
      <4>2. /\ GetBackoffStartFor(d, t) \in Int /\ GetBackoffEndFor(d, t) \in Int
            /\ GetBackoffStartFor(d, t) =< GetBackoffEndFor(d, t)
            /\ GetAccessGrantStart(d) + Aifsn[t] * Slot =< GetBackoffStartFor(d, t)
            /\ GetAccessGrantStart(d) \in Int /\ GetAccessGrantStart(d) >= LastEnd(d) + Sifs
            /\ LastEnd(d) \in Int /\ Aifsn[t] * Slot \in Nat /\ Sifs \in Nat
            BY <4>1, BackoffTimes, AccessGrantStart, LastEndIsLast, Aifs, Constants
      <4>3. QED BY <4>1, <4>2 DEF now
    <3>2. QED BY <3>1
  <2>4. w \in Txops /\ losers \in SUBSET Txops /\ losers \subseteq Ready(d)
        BY <2>1
  <2> HIDE DEF w, losers
  <2>5. n \in Devices /\ CountInv(n)
        BY <2>4, AccessGranted, GrantedCounts
  <2>6. SendsNothing(d, w, c) => Intervals(n) = Intervals(d)
        BY <2>4, AccessGranted
  <2>7. ~ SendsNothing(d, w, c) => HasBegun(n)
        BY <2>4, AccessGranted
  <2> HIDE DEF n
  <2>8. SendsNothing(d, w, c) => \A t \in losers : LastEnd(n) + Sifs + Aifsn[t] * Slot =< now
        BY <2>3, <2>4, <2>6, SameLastEnd
  <2>9. ~ SendsNothing(d, w, c) => Protected(n, now)
        BY <2>5, <2>7, BegunIsProtected
  <2>10. CountInv(Collide(n, losers, c, SendsNothing(d, w, c)))
        BY <2>4, <2>5, <2>8, <2>9, CollisionCounts
  <2>11. QED BY <2>2, <2>10
<1>3. QED BY <1>1, <1>2

-----------------------------------------------------------------------------
(* Requests.                                                               *)

LEMMA AlignedCounts ==
  ASSUME NEW d \in Devices, NEW t \in Txops, CountInv(d)
  PROVE  AlignBackoffStart(d, t) \in Devices /\ CountInv(AlignBackoffStart(d, t))
<1> DEFINE from == GetAccessGrantStart(d) + Aifsn[t] * Slot
           later == from + ((d.start[t] - from) \div Slot + 1) * Slot
           start == [d.start EXCEPT ![t] = later]
           e == AlignBackoffStart(d, t)
<1>1. /\ from \in Int /\ d.start \in [Txops -> Int] /\ heard.busy \in Int
      /\ LastEnd(d) + Sifs + Aifsn[t] * Slot =< from /\ LastEnd(d) \in Int
      /\ Aifsn[t] * Slot \in Int /\ Sifs \in Int
      BY AccessGrantStart, LastEndIsLast, Aifs, Constants DEF Devices, CountInv
<1> HIDE DEF from
<1>2. CASE t \in Edca /\ d.start[t] > from
  <2> DEFINE q == (d.start[t] - from) \div Slot
  <2>1. d.start[t] - from \in Nat
        BY <1>1, <1>2
  <2>2. q \in Nat /\ d.start[t] - from < (q + 1) * Slot
        BY <2>1, SlotsDivide
  <2>3. later = from + (q + 1) * Slot
        OBVIOUS
  <2> HIDE DEF q, later
  <2>4. (q + 1) * Slot \in Int
        BY <2>2, Constants
  <2>5. later \in Int /\ later > d.start[t]
        BY <1>1, <2>2, <2>3, <2>4
  <2>6. start \in [Txops -> Int] /\ start[t] = later /\ \A u \in Txops \ {t} : start[u] = d.start[u]
        BY <1>1, <2>5
  <2> HIDE DEF start
  <2>7. e = [d EXCEPT !.start = start]
        BY <1>2 DEF AlignBackoffStart, from, start, later
  <2> HIDE DEF e
  <2>8. /\ e \in Devices /\ Intervals(e) = Intervals(d)
        /\ e.slots = d.slots /\ e.earned = d.earned /\ e.start = start
        BY <2>6, <2>7 DEF Devices, Intervals
  <2>9. LastEnd(e) = LastEnd(d)
        BY <2>8, SameLastEnd
  <2>10. Counted(e, t)
    <3> DEFINE ahead == d.slots[t] - d.earned[t]
               next == (ahead + First(t)) * Slot
               left == (MaxDraw - d.earned[t] + 1) * Slot
    <3>1. CASE d.earned[t] > 0
      <4>1. /\ ahead \in Nat /\ now < KnownStart(d, t) + next
            BY <3>1, PassedAreCounted
      <4>2. /\ d.earned[t] =< d.slots[t] /\ d.slots[t] =< MaxDraw
            /\ d.earned[t] \in Nat /\ d.slots[t] \in Nat /\ MaxDraw \in Nat
            /\ Recent(d, t) /\ BusyIsKnown(d, heard) /\ HeardStart(d, t) \in Int
            /\ heard.busy + Sifs + Aifsn[t] * Slot =< HeardStart(d, t)
            /\ First(t) \in {0, 1}
            BY <1>1, <3>1, GridStarts, Constants, Firsts DEF CountInv, Counted
      <4>3. HeardStart(d, t) =< KnownStart(d, t)
            BY <1>1, <3>1, <4>2, RecentStart
      <4>4. KnownStart(d, t) = d.start[t]
            BY <1>1, <1>2 DEF KnownStart, Later
      <4>5. KnownStart(e, t) = later
            BY <1>1, <1>2, <2>5, <2>6, <2>8, <2>9 DEF KnownStart, Later
      <4>6. HeardStart(e, t) = Later(later, heard.busy + Sifs + Aifsn[t] * Slot)
            BY <2>6, <2>8 DEF HeardStart
      <4>7. HeardStart(e, t) = later
            BY <1>1, <2>5, <4>2, <4>3, <4>4, <4>6 DEF Later
      <4>8. next \in Int /\ left \in Int
            BY <4>1, <4>2, Constants
      <4>9. now < HeardStart(d, t) + left
            BY <4>2 DEF Recent
      <4> HIDE DEF next, left, ahead
      <4>10. now < later + left /\ now < later + next
            BY <1>1, <2>5, <4>1, <4>2, <4>3, <4>4, <4>8, <4>9 DEF now
      <4>11. Recent(e, t)
            BY <2>8, <4>7, <4>10 DEF Recent, left
      <4>12. later + next =< later + next
            BY <2>5, <4>8
      <4>13. NextIsCounted(e, t)
            BY <2>8, <4>1, <4>5, <4>7, <4>10, <4>12 DEF NextIsCounted, next, ahead
      <4>14. QED BY <2>8, <4>2, <4>11, <4>13 DEF Counted
    <3>2. CASE ~ (d.earned[t] > 0)
          BY <2>8, <3>2 DEF CountInv, Counted
    <3>3. QED BY <3>1, <3>2
  <2>11. ASSUME NEW u \in Txops \ {t} PROVE Counted(e, u)
    <3>1. HeardStart(e, u) = HeardStart(d, u) /\ KnownStart(e, u) = KnownStart(d, u)
          BY <2>6, <2>8, <2>9 DEF HeardStart, KnownStart
    <3>2. QED BY <2>8, <3>1 DEF CountInv, Counted, Recent, NextIsCounted
  <2>12. QED BY <2>8, <2>9, <2>10, <2>11 DEF CountInv, BusyIsKnown, e
<1>3. CASE ~ (t \in Edca /\ d.start[t] > from)
      BY <1>3 DEF AlignBackoffStart, from
<1>4. QED BY <1>2, <1>3

LEMMA AccessRequestedCounts ==
  ASSUME NEW d \in Devices, NEW t \in Txops, CountInv(d)
  PROVE  AccessRequested(d, t) \in Devices /\ CountInv(AccessRequested(d, t))
<1> DEFINE a == AlignBackoffStart(d, t)
           u == UpdateBackoff(a)
           e == AccessRequested(d, t)
<1>1. a \in Devices /\ CountInv(a)
      BY AlignedCounts
<1>2. e = [u EXCEPT !.requested[t] = TRUE, !.stranded = @ \ {t}]
      BY DEF AccessRequested
<1> HIDE DEF a
<1>3. u \in Devices /\ CountInv(u)
      BY <1>1, Updated, UpdateCounts
<1> HIDE DEF u
<1>4. e \in Devices
      BY RequestMade
<1> HIDE DEF e
<1>5. Intervals(e) = Intervals(u) /\ Backoffs(e) = Backoffs(u)
      BY <1>2, <1>3, <1>4 DEF Devices, Intervals, Backoffs
<1>6. QED BY <1>3, <1>4, <1>5, CountsAlike DEF e

LEMMA RequestCounts ==
  ASSUME NEW d \in Devices, NEW t \in Txops, NEW c \in Choices, CountInv(d)
  PROVE  RequestAccess(d, t, c) \in Devices /\ CountInv(RequestAccess(d, t, c))
<1> DEFINE e == AccessRequested(d, t)
           h == DoGrantDcfAccess(e, c)
           g == DoRestartAccessTimeoutIfNeeded(h)
<1>1. CASE d.sleeping
      BY <1>1 DEF RequestAccess
<1>2. CASE ~ d.sleeping
  <2>1. RequestAccess(d, t, c) = g
        BY <1>2 DEF RequestAccess
  <2>2. e \in Devices /\ CountInv(e)
        BY AccessRequestedCounts
  <2> HIDE DEF e
  <2>3. h \in Devices /\ CountInv(h)
        BY <2>2, AccessDecided, DecisionCounts
  <2> HIDE DEF h
  <2>4. g \in Devices /\ Intervals(g) = Intervals(h) /\ Backoffs(g) = Backoffs(h)
        BY <2>3, Restarted DEF Backoffs
  <2> HIDE DEF g
  <2>5. CountInv(g)
        BY <2>3, <2>4, CountsAlike
  <2>6. QED BY <2>1, <2>4, <2>5
<1>3. QED BY <1>1, <1>2

LEMMA RestartedCounts ==
  ASSUME NEW d \in Devices, NEW t \in Txops, NEW c \in Choices, CountInv(d)
  PROVE  RestartAccessIfNeeded(d, t, c) \in Devices /\ CountInv(RestartAccessIfNeeded(d, t, c))
  BY RequestCounts DEF RestartAccessIfNeeded

LEMMA TimerCounts ==
  ASSUME NEW d \in Devices, CountInv(d)
  PROVE  CountInv(DoRestartAccessTimeoutIfNeeded(d))
<1>1. LET e == DoRestartAccessTimeoutIfNeeded(d)
      IN  e \in Devices /\ Intervals(e) = Intervals(d) /\ Backoffs(e) = Backoffs(d)
      BY Restarted DEF Backoffs
<1>2. QED BY <1>1, CountsAlike

(* A backoff that has ended may begin anywhere.                            *)
LEMMA NothingLeftCounts ==
  ASSUME NEW d \in Devices, NEW e \in Devices, CountInv(d), Intervals(e) = Intervals(d),
         \A t \in Txops :
           \/ e.slots[t] = 0 /\ e.earned[t] = 0
           \/ /\ e.slots[t] = d.slots[t] /\ e.start[t] = d.start[t]
              /\ e.earned[t] = d.earned[t]
  PROVE  CountInv(e)
<1>1. LastEnd(e) = LastEnd(d)
      BY SameLastEnd
<1>2. ASSUME NEW t \in Txops PROVE Counted(e, t)
  <2>1. CASE e.slots[t] = 0 /\ e.earned[t] = 0
        BY <2>1, Constants DEF Counted
  <2>2. CASE /\ e.slots[t] = d.slots[t] /\ e.start[t] = d.start[t]
             /\ e.earned[t] = d.earned[t]
    <3>1. HeardStart(e, t) = HeardStart(d, t) /\ KnownStart(e, t) = KnownStart(d, t)
          BY <1>1, <2>2 DEF HeardStart, KnownStart
    <3>2. QED BY <2>2, <3>1 DEF CountInv, Counted, Recent, NextIsCounted
  <2>3. QED BY <2>1, <2>2
<1>3. QED BY <1>1, <1>2 DEF CountInv, BusyIsKnown

LEMMA BusyIsProtected ==
  ASSUME NEW d \in Devices, IsBusy(d)
  PROVE  Protected(d, now)
<1>1. \E end \in Ends(d) : end > now
      BY DEF IsBusy, Ends
<1>2. QED BY <1>1, LastEndIsLast, Constants DEF Protected, now

LEMMA AccessBackoffCounts ==
  ASSUME NEW d \in Devices, NEW t \in Txops, NEW c \in Choices, CountInv(d)
  PROVE  CountInv(BackoffUponAccess(d, t, c))
<1> DEFINE u == UpdateBackoff(d)
           from == now + (IF t \in Edca THEN 0 ELSE Sifs + Aifsn[t] * Slot)
           start == [u.start EXCEPT ![t] = from]
           e == [u EXCEPT !.start = start]
<1>1. u \in Devices /\ CountInv(u)
      BY Updated, UpdateCounts
<1>2. \/ BackoffUponAccess(d, t, c) \in {d, u}
      \/ IsBusy(u) /\ BackoffUponAccess(d, t, c) = GenerateBackoff(u, t, c)
      \/ u.slots[t] = 0 /\ BackoffUponAccess(d, t, c) = e
      BY DEF BackoffUponAccess
<1>3. from \in Int
      BY Aifs, Constants DEF now
<1> HIDE DEF u, from
<1>4. IsBusy(u) => CountInv(GenerateBackoff(u, t, c))
      BY <1>1, BusyIsProtected, DrawnCounts
<1>5. ASSUME u.slots[t] = 0 PROVE CountInv(e)
  <2>1. start \in [Txops -> Int] /\ \A v \in Txops \ {t} : start[v] = u.start[v]
        BY <1>1, <1>3 DEF Devices
  <2> HIDE DEF start
  <2>2. /\ e \in Devices /\ Intervals(e) = Intervals(u) /\ e.slots = u.slots
        /\ e.earned = u.earned /\ e.start = start
        BY <1>1, <2>1 DEF Devices, Intervals
  <2> HIDE DEF e
  <2>3. u.earned[t] = 0
    <3>1. u.earned[t] \in Nat /\ u.earned[t] =< u.slots[t]
          BY <1>1 DEF Devices, CountInv, Counted
    <3>2. QED BY <1>5, <3>1
  <2>4. QED BY <1>1, <1>5, <2>1, <2>2, <2>3, NothingLeftCounts
<1>6. QED BY <1>1, <1>2, <1>4, <1>5

LEMMA EndedCounts ==
  ASSUME NEW d \in Devices, NEW p \in Phys, DeviceInv(d, p), Underway(d), CountInv(d),
         NEW n \in Nat, NEW c \in Choices
  PROVE  CountInv(ExchangeEnds(d, n, c))
<1> DEFINE t == d.owner
           frames == [d.frames EXCEPT ![t] = n]
           over == [d EXCEPT !.owner = Nobody, !.phase = "idle", !.due = Never,
                             !.held = FALSE, !.frames = frames]
           b == GenerateBackoff(over, t, c)
<1>1. ExchangeEnds(d, n, c) = RestartAccessIfNeeded(b, t, c)
      BY DEF ExchangeEnds
<1>2. t \in Txops
      BY DEF Underway, Devices
<1>3. frames \in [Txops -> Nat]
      BY <1>2 DEF Devices
<1> HIDE DEF t, frames
<1>4. over \in Devices /\ Intervals(over) = Intervals(d) /\ Backoffs(over) = Backoffs(d)
      BY <1>3 DEF Devices, Event, Intervals, Backoffs
<1> HIDE DEF over
<1>5. CountInv(over) /\ Protected(over, now)
      BY <1>4, CountsAlike, DeviceIsProtected, SameProtected
<1>6. b \in Devices /\ CountInv(b)
      BY <1>2, <1>4, <1>5, BackoffGenerated, DrawnCounts
<1> HIDE DEF b
<1>7. QED BY <1>1, <1>2, <1>6, RestartedCounts

LEMMA CancelledBackoffs ==
  ASSUME NEW d \in Devices, NEW p, DeviceInv(d, p)
  PROVE  LET e == CancelExchange(d)
         IN  e \in Devices /\ Intervals(e) = Intervals(d) /\ Backoffs(e) = Backoffs(d)
<1> DEFINE e == CancelExchange(d)
<1>1. e \in Devices /\ Intervals(e) = Intervals(d)
      BY ExchangeCancelled DEF DeviceInv, OwnerInv
<1>2. Backoffs(e) = Backoffs(d)
      BY DEF CancelExchange, Backoffs, Devices
<1>3. QED BY <1>1, <1>2

-----------------------------------------------------------------------------
(* Every handler keeps the count true.                                     *)

LEMMA QueuedCounts ==
  ASSUME dev \in Devices, CountInv(dev), NEW t \in Txops, NEW b \in Choices
  PROVE  LET q == [BackoffUponAccess(dev, t, b) EXCEPT !.frames[t] = @ + 1]
         IN  q \in Devices /\ CountInv(q)
<1> DEFINE e == BackoffUponAccess(dev, t, b)
           q == [e EXCEPT !.frames[t] = @ + 1]
<1>1. e \in Devices /\ Intervals(e) = Intervals(dev) /\ CountInv(e)
      BY BackoffIsDrawn, AccessBackoffCounts
<1>2. q \in Devices /\ Intervals(q) = Intervals(dev)
      BY PacketQueued
<1> HIDE DEF e
<1>3. Backoffs(q) = Backoffs(e)
      BY <1>1 DEF Backoffs, Devices
<1> HIDE DEF q
<1>4. CountInv(q)
      BY <1>1, <1>2, <1>3, CountsAlike
<1>5. QED BY <1>2, <1>4 DEF e, q

LEMMA QueueCounts ==
  ASSUME IInv, CountInv(dev), NEW t \in Txops, Queue(t)
  PROVE  CountInv(dev')
<1> DEFINE queued(b) == [BackoffUponAccess(dev, t, b) EXCEPT !.frames[t] = @ + 1]
<1>1. dev \in Devices
      BY DEF IInv, TypeOK
<1>2. ASSUME NEW b \in Choices PROVE queued(b) \in Devices /\ CountInv(queued(b))
      BY <1>1, QueuedCounts
<1> HIDE DEF queued
<1>3. DrawsOf[t] \subseteq Choices /\ \A b : Offers(AccessRequested(queued(b), t)) \subseteq Choices
      BY OpenChoices
<1>4. ASSUME NEW c \in Choices, dev' = queued(c) PROVE CountInv(dev')
      BY <1>2, <1>4
<1>5. ASSUME NEW b \in Choices, NEW c \in Choices, dev' = RequestAccess(queued(b), t, c)
      PROVE  CountInv(dev')
      BY <1>2, <1>5, RequestCounts
<1>6. QED BY <1>3, <1>4, <1>5 DEF Queue, Becomes, queued

LEMMA ExpireCounts ==
  ASSUME IInv, CountInv(dev), dev' \in Devices, NEW t \in Txops, Expire(t)
  PROVE  CountInv(dev')
<1>1. dev' = [dev EXCEPT !.frames[t] = @ - 1] /\ dev \in Devices
      BY DEF Expire, Becomes, IInv, TypeOK
<1>2. Intervals(dev') = Intervals(dev) /\ Backoffs(dev') = Backoffs(dev)
      BY <1>1 DEF Devices, Intervals, Backoffs
<1>3. QED BY <1>1, <1>2, CountsAlike

LEMMA AccessTimeoutCounts ==
  ASSUME IInv, CountInv(dev), AccessTimeout
  PROVE  CountInv(dev')
<1> DEFINE stopped == [dev EXCEPT !.timer = Never]
           d == UpdateBackoff(stopped)
<1>1. PICK c \in Offers(d) : dev' = DoRestartAccessTimeoutIfNeeded(DoGrantDcfAccess(d, c))
      BY DEF AccessTimeout, Becomes
<1>2. c \in Choices
      BY OpenChoices
<1>3. /\ dev \in Devices /\ stopped \in Devices
      /\ Intervals(stopped) = Intervals(dev) /\ Backoffs(stopped) = Backoffs(dev)
      BY DEF IInv, TypeOK, Devices, Event, Intervals, Backoffs
<1> HIDE DEF stopped
<1>4. d \in Devices /\ CountInv(d)
      BY <1>3, CountsAlike, Updated, UpdateCounts
<1> HIDE DEF d
<1>5. DoGrantDcfAccess(d, c) \in Devices /\ CountInv(DoGrantDcfAccess(d, c))
      BY <1>2, <1>4, AccessDecided, DecisionCounts
<1>6. QED BY <1>1, <1>5, TimerCounts

LEMMA RxStartCounts ==
  ASSUME IInv, CountInv(dev), NEW d \in RxTimes, RxStart(d)
  PROVE  CountInv(dev')
<1> DEFINE u == UpdateBackoff(dev)
           started == [u EXCEPT !.rxEnd = now + d, !.rxOk = TRUE]
           acked == [started EXCEPT !.due = now + d, !.ackEnd = now]
           cleared == [started EXCEPT !.due = now + d, !.ctsEnd = now]
<1>1. u \in Devices /\ CountInv(u)
      BY Updated, UpdateCounts DEF IInv, TypeOK
<1>2. now + d \in Int /\ now + d >= now /\ now \in Int /\ now + d \in Event
      BY EdcaConstants DEF now, Event
<1>3. \/ dev' = started
      \/ dev' = DoRestartAccessTimeoutIfNeeded(acked)
      \/ dev' = DoRestartAccessTimeoutIfNeeded(cleared)
      BY DEF RxStart, Becomes
<1> HIDE DEF u
<1>4. ASSUME NEW e, e = started \/ e = acked \/ e = cleared
      PROVE  e \in Devices /\ CountInv(e)
  <2>1. started \in Devices /\ Backoffs(started) = Backoffs(u) /\ started.rxEnd = now + d
        BY <1>1, <1>2 DEF Devices, Backoffs
  <2> HIDE DEF started
  <2>2. /\ acked \in Devices /\ Backoffs(acked) = Backoffs(u) /\ acked.rxEnd = now + d
        BY <1>2, <2>1 DEF Devices, Backoffs
  <2>3. /\ cleared \in Devices /\ Backoffs(cleared) = Backoffs(u) /\ cleared.rxEnd = now + d
        BY <1>2, <2>1 DEF Devices, Backoffs
  <2>4. e \in Devices /\ Backoffs(e) = Backoffs(u) /\ e.rxEnd = now + d
        BY <1>4, <2>1, <2>2, <2>3
  <2>5. Reported(u, e)
        BY <1>2, <2>4 DEF Reported, Ends
  <2>6. QED BY <1>1, <2>4, <2>5, SameCounts
<1> HIDE DEF started, acked, cleared
<1>5. QED BY <1>3, <1>4, TimerCounts

(* The answer has come, and the timeout has been reset.                    *)
LEMMA AckResetCounts ==
  ASSUME IInv, CountInv(dev), RxEnds, dev.phase = "ack"
  PROVE  LET reset == [dev EXCEPT !.ackEnd = now]
             d == DoRestartAccessTimeoutIfNeeded(reset)
         IN  /\ d \in Devices /\ DeviceInv(d, phy) /\ Underway(d) /\ CountInv(d)
             /\ reset \in Devices /\ Work(reset) = Work(dev) /\ reset.timer = dev.timer
             /\ reset.sleeping = dev.sleeping
<1> DEFINE reset == [dev EXCEPT !.ackEnd = now]
           d == DoRestartAccessTimeoutIfNeeded(reset)
<1>1. /\ dev \in Devices /\ phy \in Phys /\ DeviceInv(dev, phy)
      /\ ~ dev.sleeping /\ dev.rxEnd = now
      /\ Underway(dev) /\ dev.due = now
      BY ReceptionEnds DEF DeviceInv, OwnerInv
<1>2. /\ reset \in Devices /\ Exchange(reset) = Exchange(dev) /\ Work(reset) = Work(dev)
      /\ reset.timer = dev.timer /\ reset.rxEnd = dev.rxEnd /\ reset.rxOk = dev.rxOk
      /\ reset.txEnd = dev.txEnd /\ reset.switchEnd = dev.switchEnd
      /\ reset.sleeping = dev.sleeping /\ reset.ctsEnd = dev.ctsEnd /\ reset.ackEnd = now
      /\ Backoffs(reset) = Backoffs(dev)
      BY <1>1 DEF Devices, Exchange, Work, Backoffs, now
<1> HIDE DEF reset
<1>3. Reported(dev, reset)
      BY <1>2 DEF Reported, Ends, now
<1>4. CountInv(reset)
      BY <1>1, <1>2, <1>3, SameCounts
<1>5. /\ d \in Devices /\ Exchange(d) = Exchange(dev) /\ Work(d) = Work(dev)
      /\ (dev.timer # Never => d.timer # Never) /\ Intervals(d) = Intervals(reset)
      /\ CountInv(d)
      BY <1>2, <1>4, Restarted, TimerCounts
<1> HIDE DEF d
<1>6. /\ d.rxEnd = dev.rxEnd /\ d.rxOk = dev.rxOk /\ d.txEnd = dev.txEnd
      /\ d.switchEnd = dev.switchEnd
      /\ d.sleeping = dev.sleeping /\ d.ctsEnd = dev.ctsEnd /\ d.ackEnd = now
      BY <1>2, <1>5 DEF Intervals
<1>7. now \in Ends(d) /\ now >= now /\ dev.due =< Later(d.ackEnd, d.rxEnd)
      BY <1>1, <1>6 DEF Ends, now, Later
<1>8. DeviceInv(d, phy)
      BY <1>1, <1>5, <1>6, <1>7, IntervalStep DEF Step
<1>9. Underway(d)
      BY <1>1, <1>5 DEF Underway, Exchange
<1>10. QED BY <1>2, <1>5, <1>8, <1>9 DEF d, reset

LEMMA ReceiveAckCounts ==
  ASSUME IInv, CountInv(dev), NEW n \in 0 .. MaxFrames, NEW c \in Choices, ReceiveAck(n, c)
  PROVE  CountInv(dev')
<1> DEFINE d == DoRestartAccessTimeoutIfNeeded([dev EXCEPT !.ackEnd = now])
<1>1. /\ RxEnds /\ dev.phase = "ack" /\ dev' = ExchangeEnds(d, n, c)
      BY DEF ReceiveAck, Becomes
<1>2. d \in Devices /\ DeviceInv(d, phy) /\ Underway(d) /\ CountInv(d)
      BY <1>1, AckResetCounts
<1> HIDE DEF d
<1>3. phy \in Phys /\ n \in Nat
      BY Constants DEF IInv, TypeOK
<1>4. QED BY <1>1, <1>2, <1>3, EndedCounts

LEMMA ReceiveCtsCounts ==
  ASSUME IInv, CountInv(dev), dev' \in Devices, ReceiveCts
  PROVE  CountInv(dev')
<1> DEFINE reset == [dev EXCEPT !.ctsEnd = now]
           d == DoRestartAccessTimeoutIfNeeded(reset)
<1>1. dev' = [d EXCEPT !.phase = "sifs", !.due = now + Sifs]
      BY DEF ReceiveCts, Becomes
<1>2. /\ dev \in Devices /\ reset \in Devices /\ Backoffs(reset) = Backoffs(dev)
      /\ reset.ctsEnd = now
      BY DEF IInv, TypeOK, Devices, Backoffs, now
<1> HIDE DEF reset
<1>3. Reported(dev, reset)
      BY <1>2 DEF Reported, Ends, now
<1>4. CountInv(reset)
      BY <1>2, <1>3, SameCounts
<1>5. d \in Devices /\ CountInv(d)
      BY <1>2, <1>4, Restarted, TimerCounts
<1> HIDE DEF d
<1>6. Backoffs(dev') = Backoffs(d) /\ Intervals(dev') = Intervals(d)
      BY <1>1, <1>5 DEF Devices, Backoffs, Intervals
<1>7. QED BY <1>5, <1>6, CountsAlike

LEMMA ReceiveRequestCounts ==
  ASSUME IInv, CountInv(dev), dev' \in Devices, ReceiveRequest
  PROVE  CountInv(dev')
<1>1. dev' = [dev EXCEPT !.response = now + Sifs] /\ dev \in Devices
      BY DEF ReceiveRequest, Becomes, IInv, TypeOK
<1>2. Intervals(dev') = Intervals(dev) /\ Backoffs(dev') = Backoffs(dev)
      BY <1>1 DEF Devices, Intervals, Backoffs
<1>3. QED BY <1>1, <1>2, CountsAlike

LEMMA RxEndErrorCounts ==
  ASSUME IInv, CountInv(dev), dev' \in Devices, RxEndError
  PROVE  CountInv(dev')
<1>1. /\ dev \in Devices /\ dev' = [dev EXCEPT !.rxEnd = now, !.rxOk = FALSE]
      BY DEF RxEndError, IInv, TypeOK
<1>2. dev'.rxEnd = now /\ Backoffs(dev') = Backoffs(dev)
      BY <1>1 DEF Devices, Backoffs
<1>3. Reported(dev, dev')
      BY <1>2 DEF Reported, Ends, now
<1>4. QED BY <1>1, <1>2, <1>3, SameCounts

LEMMA NotifyNavCounts ==
  ASSUME IInv, CountInv(dev), dev' \in Devices,
         NEW d \in NavTimes, NEW rts \in BOOLEAN, NotifyNav(d, rts)
  PROVE  CountInv(dev')
<1> DEFINE u == UpdateBackoff(dev)
           nav == Later(u.navEnd, now + d)
<1>1. dev' = [u EXCEPT !.navEnd = nav]
      BY DEF NotifyNav, Becomes
<1>2. u \in Devices /\ CountInv(u)
      BY Updated, UpdateCounts DEF IInv, TypeOK
<1> HIDE DEF u
<1>3. nav >= now
      BY <1>2, EdcaConstants DEF Later, Devices, now
<1> HIDE DEF nav
<1>4. dev'.navEnd = nav /\ Backoffs(dev') = Backoffs(u)
      BY <1>1, <1>2 DEF Devices, Backoffs
<1>5. Reported(u, dev')
      BY <1>3, <1>4 DEF Reported, Ends
<1>6. QED BY <1>2, <1>4, <1>5, SameCounts

LEMMA DoNavResetNowCounts ==
  ASSUME IInv, CountInv(dev), DoNavResetNow
  PROVE  CountInv(dev')
<1> DEFINE u == UpdateBackoff(dev)
           reset == [u EXCEPT !.navEnd = now]
<1>1. dev' = DoRestartAccessTimeoutIfNeeded(reset)
      BY DEF DoNavResetNow, Becomes
<1>2. u \in Devices /\ CountInv(u)
      BY Updated, UpdateCounts DEF IInv, TypeOK
<1> HIDE DEF u
<1>3. reset \in Devices /\ reset.navEnd = now /\ Backoffs(reset) = Backoffs(u)
      BY <1>2 DEF Devices, Backoffs, now
<1> HIDE DEF reset
<1>4. Reported(u, reset)
      BY <1>3 DEF Reported, Ends, now
<1>5. CountInv(reset)
      BY <1>2, <1>3, <1>4, SameCounts
<1>6. QED BY <1>1, <1>3, <1>5, TimerCounts

LEMMA CcaBusyCounts ==
  ASSUME NEW d \in Devices, CountInv(d), NEW end \in Int, end >= now,
         NEW e \in Devices, e = [UpdateBackoff(d) EXCEPT !.busyEnd = end]
  PROVE  CountInv(e)
<1> DEFINE u == UpdateBackoff(d)
<1>1. e = [u EXCEPT !.busyEnd = end]
      OBVIOUS
<1>2. u \in Devices /\ CountInv(u)
      BY Updated, UpdateCounts
<1> HIDE DEF u
<1>3. e.busyEnd = end /\ Backoffs(e) = Backoffs(u)
      BY <1>1, <1>2 DEF Devices, Backoffs
<1>4. Reported(u, e)
      BY <1>3 DEF Reported, Ends
<1>5. QED BY <1>2, <1>3, <1>4, SameCounts

LEMMA NotifyMaybeCcaBusyStartCounts ==
  ASSUME IInv, CountInv(dev), dev' \in Devices, NEW d \in CcaTimes, NotifyMaybeCcaBusyStart(d)
  PROVE  CountInv(dev')
<1>1. dev' = [UpdateBackoff(dev) EXCEPT !.busyEnd = now + d] /\ dev \in Devices
      BY DEF NotifyMaybeCcaBusyStart, Becomes, IInv, TypeOK
<1>2. now + d \in Int /\ now + d >= now
      BY EdcaConstants DEF now
<1>3. QED BY <1>1, <1>2, CcaBusyCounts

LEMMA ExchangeTimeoutCounts ==
  ASSUME IInv, CountInv(dev), NEW n \in 0 .. MaxFrames, NEW c \in Choices, ExchangeTimeout(n, c)
  PROVE  CountInv(dev')
<1>1. /\ dev \in Devices /\ phy \in Phys /\ DeviceInv(dev, phy)
      /\ dev' = ExchangeEnds(dev, n, c) /\ dev.phase # "idle" /\ n \in Nat
      BY Constants DEF ExchangeTimeout, Becomes, IInv, TypeOK
<1>2. Underway(dev)
      BY <1>1 DEF DeviceInv, OwnerInv
<1>3. QED BY <1>1, <1>2, EndedCounts

LEMMA EndTxNoAckCounts ==
  ASSUME IInv, CountInv(dev), NEW c \in Choices, EndTxNoAck(c)
  PROVE  CountInv(dev')
<1>1. /\ dev \in Devices /\ phy \in Phys /\ DeviceInv(dev, phy)
      /\ dev' = ExchangeEnds(dev, dev.frames[dev.owner] - 1, c) /\ dev.phase # "idle"
      BY DEF EndTxNoAck, Becomes, IInv, TypeOK
<1>2. Underway(dev)
      BY <1>1 DEF DeviceInv, OwnerInv
<1>3. dev.frames[dev.owner] \in Nat /\ dev.frames[dev.owner] > 0
      BY <1>1, <1>2 DEF DeviceInv, OwnerInv, Underway, Devices
<1>4. dev.frames[dev.owner] - 1 \in Nat
      BY <1>3
<1>5. QED BY <1>1, <1>2, <1>4, EndedCounts

LEMMA SendDataAfterCtsCounts ==
  ASSUME IInv, CountInv(dev), NEW kind \in {"ack", "noack"}, SendDataAfterCts(kind)
  PROVE  CountInv(dev')
  BY SendCounts DEF SendDataAfterCts, Becomes, IInv, TypeOK

LEMMA SendResponseCounts ==
  ASSUME IInv, CountInv(dev), SendResponse
  PROVE  CountInv(dev')
<1> DEFINE sent == [dev EXCEPT !.response = Never]
<1>1. dev' = NotifyTxStartNow(sent) /\ dev \in Devices
      BY DEF SendResponse, Becomes, IInv, TypeOK
<1>2. sent \in Devices /\ Intervals(sent) = Intervals(dev) /\ Backoffs(sent) = Backoffs(dev)
      BY <1>1 DEF Devices, Event, Intervals, Backoffs
<1> HIDE DEF sent
<1>3. QED BY <1>1, <1>2, CountsAlike, TxStartCounts

LEMMA NotifySleepNowCounts ==
  ASSUME IInv, CountInv(dev), dev' \in Devices, NotifySleepNow
  PROVE  CountInv(dev')
<1> DEFINE d == CancelExchange(dev)
<1>1. dev' = [d EXCEPT !.sleeping = TRUE] /\ dev \in Devices /\ DeviceInv(dev, phy)
      BY DEF NotifySleepNow, Becomes, IInv, TypeOK
<1>2. d \in Devices /\ Intervals(d) = Intervals(dev) /\ Backoffs(d) = Backoffs(dev)
      BY <1>1, CancelledBackoffs
<1> HIDE DEF d
<1>3. Backoffs(dev') = Backoffs(d) /\ Ends(dev') = Ends(d)
      BY <1>1, <1>2 DEF Devices, Backoffs, Ends
<1>4. Ends(d) = Ends(dev)
      BY <1>2, SameLastEnd
<1>5. QED BY <1>1, <1>2, <1>3, <1>4, SameCounts DEF Reported

(* A channel switch ends every backoff.                                    *)
LEMMA NotifySwitchingStartNowCounts ==
  ASSUME IInv, CountInv(dev), dev' \in Devices,
         NEW left \in [Txops -> 0 .. MaxFrames], NotifySwitchingStartNow(left)
  PROVE  CountInv(dev')
<1> DEFINE cut(end) == IF end > now THEN now ELSE end
           d == CancelExchange(dev)
           start == [t \in Txops |-> IF dev.slots[t] > 0 THEN now ELSE d.start[t]]
           none == [t \in Txops |-> 0]
<1>1. /\ dev \in Devices /\ DeviceInv(dev, phy)
      /\ dev' = [d EXCEPT
           !.rxOk = TRUE, !.rxEnd = cut(@), !.navEnd = cut(@), !.busyEnd = cut(@),
           !.ackEnd = cut(@), !.ctsEnd = cut(@), !.switchEnd = now + SwitchTime,
           !.start = start, !.slots = none, !.earned = none,
           !.requested = [t \in Txops |-> FALSE], !.frames = left,
           !.stranded = {t \in Txops : left[t] > 0}]
      BY DEF NotifySwitchingStartNow, Becomes, IInv, TypeOK
<1>2. d \in Devices
      BY <1>1, CancelledBackoffs
<1>3. \A t \in Txops : none[t] = 0
      OBVIOUS
<1> HIDE DEF d, cut, start, none
<1>4. dev'.slots = none /\ dev'.earned = none /\ dev'.switchEnd = now + SwitchTime
      BY <1>1, <1>2 DEF Devices
<1>5. heard.busy \in Int /\ BusyIsKnown(dev', heard)
  <2>1. dev'.switchEnd >= now
        BY <1>4, Constants DEF now
  <2>2. Reported(dev, dev')
        BY <2>1 DEF Reported, Ends
  <2>3. QED BY <2>2, BusyStaysKnown DEF CountInv
<1>6. ASSUME NEW t \in Txops PROVE Counted(dev', t)
  <2>1. dev'.slots[t] = 0 /\ dev'.earned[t] = 0
        BY <1>3, <1>4
  <2>2. QED BY <2>1, Constants DEF Counted
<1>7. QED BY <1>5, <1>6 DEF CountInv

-----------------------------------------------------------------------------
(* The Txops are woken, and their backoffs are over.                       *)

LEMMA RestedCounts ==
  ASSUME NEW g \in Devices, NEW t \in Txops, NEW c \in Choices, CountInv(g)
  PROVE  LET h == RestartAccessIfNeeded(Rested(g, t), t, c) IN h \in Devices /\ CountInv(h)
<1> DEFINE start == [g.start EXCEPT ![t] = IF g.slots[t] > 0 THEN now ELSE @]
           slots == [g.slots EXCEPT ![t] = 0]
           earned == [g.earned EXCEPT ![t] = 0]
           requested == [g.requested EXCEPT ![t] = FALSE]
           r == Rested(g, t)
<1>1. /\ start \in [Txops -> Int] /\ slots \in [Txops -> Nat] /\ earned \in [Txops -> Nat]
      /\ requested \in [Txops -> BOOLEAN]
      /\ slots[t] = 0 /\ earned[t] = 0
      /\ \A u \in Txops \ {t} : /\ slots[u] = g.slots[u] /\ start[u] = g.start[u]
                                /\ earned[u] = g.earned[u]
      BY DEF Devices, now
<1>2. r = [g EXCEPT !.start = start, !.slots = slots, !.earned = earned,
                    !.requested = requested]
      BY DEF Rested
<1> HIDE DEF start, slots, earned, requested, r
<1>3. /\ r \in Devices /\ Intervals(r) = Intervals(g)
      /\ r.slots = slots /\ r.start = start /\ r.earned = earned
      BY <1>1, <1>2 DEF Devices, Intervals
<1>4. CountInv(r)
      BY <1>1, <1>3, NothingLeftCounts
<1>5. QED BY <1>3, <1>4, RestartedCounts DEF r

LEMMA AllAreCounted ==
  ASSUME IInv, CountInv(dev), NEW c \in Choices,
         NEW f, f = [t \in 0 .. NTxops |->
                       IF t = 0 THEN [dev EXCEPT !.sleeping = FALSE]
                       ELSE RestartAccessIfNeeded(Rested(f[t - 1], t), t, c)]
  PROVE  f[NTxops] \in Devices /\ CountInv(f[NTxops])
<1> DEFINE awake == [dev EXCEPT !.sleeping = FALSE]
           Fine(n) == f[n] \in Devices /\ CountInv(f[n])
           T == {n \in 0 .. NTxops : ~ Fine(n)}
<1>1. NTxops \in Nat
      BY EdcaConstants
<1>2. f[0] = awake
      BY <1>1
<1>3. \A t \in Txops : f[t] = RestartAccessIfNeeded(Rested(f[t - 1], t), t, c)
  <2>1. TAKE t \in Txops
  <2>2. t \in 0 .. NTxops /\ t # 0
        BY <1>1 DEF Txops
  <2>3. QED BY <2>2, Zenon
<1>4. Fine(0)
  <2>1. dev \in Devices
        BY DEF IInv, TypeOK
  <2>2. awake \in Devices /\ Ends(awake) = Ends(dev) /\ Backoffs(awake) = Backoffs(dev)
        BY <2>1 DEF Devices, Ends, Backoffs
  <2> HIDE DEF awake
  <2>3. CountInv(awake)
        BY <2>1, <2>2, SameCounts DEF Reported
  <2>4. QED BY <1>2, <2>2, <2>3
<1>5. ASSUME T # {} PROVE FALSE
  <2> HIDE DEF Fine
  <2>1. PICK n \in T : \A k \in T : n =< k
    <3>1. T \subseteq Nat
          BY <1>1
    <3> HIDE DEF T
    <3>2. QED BY <1>5, <3>1, LeastElement
  <2>2. n \in 0 .. NTxops /\ ~ Fine(n)
        OBVIOUS
  <2>3. n \in Txops /\ n - 1 \in 0 .. NTxops /\ ~ (n =< n - 1)
        BY <1>1, <1>4, <2>2 DEF Txops
  <2>4. n - 1 \notin T
    <3> HIDE DEF T
    <3>1. QED BY <2>1, <2>3, Zenon
  <2>5. Fine(n - 1)
        BY <2>3, <2>4
  <2>6. f[n] = RestartAccessIfNeeded(Rested(f[n - 1], n), n, c)
        BY <1>3, <2>3
  <2>7. f[n] \in Devices /\ CountInv(f[n])
        BY <2>3, <2>5, <2>6, RestedCounts, Zenon DEF Fine
  <2>8. QED BY <2>2, <2>7 DEF Fine
<1>6. NTxops \in 0 .. NTxops
      BY <1>1
<1>7. Fine(NTxops)
  <2> HIDE DEF Fine
  <2>1. QED BY <1>5, <1>6
<1>8. QED BY <1>7

LEMMA NotifyWakeupNowCounts ==
  ASSUME IInv, CountInv(dev), dev' \in Devices, NEW c \in Choices, NotifyWakeupNow(c)
  PROVE  CountInv(dev')
<1>1. PICK f : f = [t \in 0 .. NTxops |->
                      IF t = 0 THEN [dev EXCEPT !.sleeping = FALSE]
                      ELSE RestartAccessIfNeeded(Rested(f[t - 1], t), t, c)]
      BY WokenFunction
<1> DEFINE Woken(g) == g = [t \in 0 .. NTxops |->
                      IF t = 0 THEN [dev EXCEPT !.sleeping = FALSE]
                      ELSE RestartAccessIfNeeded(Rested(g[t - 1], t), t, c)]
           woken == CHOOSE g : Woken(g)
           awake == woken[NTxops]
<1>2. Woken(woken)
      BY <1>1, Zenon
<1>3. \E d \in {0} \cup CcaTimes :
        LET cca == Later(phy.cca, now + d)
        IN  /\ phy' = [phy EXCEPT !.cca = cca]
            /\ Becomes(IF cca > now THEN [UpdateBackoff(awake) EXCEPT !.busyEnd = cca]
                       ELSE awake)
      BY Zenon DEF NotifyWakeupNow, Rested
<1>4. awake \in Devices /\ CountInv(awake)
      BY <1>2, AllAreCounted, Zenon
<1> HIDE DEF awake, woken, Woken
<1>5. PICK d \in {0} \cup CcaTimes :
        dev' = IF Later(phy.cca, now + d) > now
               THEN [UpdateBackoff(awake) EXCEPT !.busyEnd = Later(phy.cca, now + d)]
               ELSE awake
      BY <1>3 DEF Becomes
<1> DEFINE cca == Later(phy.cca, now + d)
<1>6. cca \in Int
  <2>1. phy.cca \in Int
        BY DEF IInv, TypeOK, Phys
  <2>2. now + d \in Int
        BY EdcaConstants DEF now
  <2>3. QED BY <2>1, <2>2 DEF Later
<1> HIDE DEF cca
<1>7. CASE cca > now
  <2>1. dev' = [UpdateBackoff(awake) EXCEPT !.busyEnd = cca]
        BY <1>5, <1>7 DEF cca
  <2>2. cca >= now
        BY <1>6, <1>7 DEF now
  <2>3. QED BY <1>4, <1>6, <2>1, <2>2, CcaBusyCounts
<1>8. CASE ~ (cca > now)
      BY <1>4, <1>5, <1>8 DEF cca
<1>9. QED BY <1>7, <1>8

-----------------------------------------------------------------------------
(* An instant passes.                                                      *)

LEMMA WholeSlots ==
  ASSUME NEW k \in Nat
  PROVE  (k * Slot) % Slot = 0
  BY Constants

(* A boundary of the grid of t is counted when it passes.                  *)
LEMMA BoundaryPasses ==
  ASSUME dev \in Devices, heard.busy \in Int, NEW t \in Txops, ~ InUse,
         NEW k \in Nat, First(t) =< k, now + 1 = HeardStart(dev, t) + k * Slot
  PROVE  SlotPasses(t)
<1>1. /\ HeardStart(dev, t) \in Int
      /\ heard.busy + Sifs + Aifsn[t] * Slot =< HeardStart(dev, t)
      /\ Aifsn[t] * Slot \in Nat /\ Sifs \in Nat /\ Slot \in Nat /\ Slot > 0
      BY GridStarts, Aifs, Constants
<1>2. k * Slot \in Nat /\ (k > 0 => k * Slot > 0) /\ (k * Slot) % Slot = 0
      BY <1>1, WholeSlots
<1> DEFINE aifs == heard.busy + Sifs + Aifsn[t] * Slot
           from == Later(dev.start[t], aifs)
<1>3. from = HeardStart(dev, t)
      BY DEF HeardStart
<1>4. SlotPasses(t) <=> /\ ~ InUse
                        /\ now + 1 >= aifs /\ (now + 1 - from) % Slot = 0
                        /\ now + 1 > from \/ (t \in Edca /\ now + 1 = from)
      BY DEF SlotPasses
<1> HIDE DEF from
<1>5. now + 1 >= aifs
      BY <1>1, <1>2 DEF now
<1>6. (now + 1 - from) % Slot = 0
  <2>1. now + 1 - from = k * Slot
        BY <1>1, <1>2, <1>3 DEF now
  <2>2. QED BY <1>2, <2>1
<1>7. now + 1 > from \/ (t \in Edca /\ now + 1 = from)
  <2>1. CASE k > 0
    <3> DEFINE gone == k * Slot
    <3>1. gone \in Int /\ gone > 0 /\ now + 1 = HeardStart(dev, t) + gone
          BY <1>2, <2>1
    <3> HIDE DEF gone
    <3>2. now + 1 > HeardStart(dev, t)
          BY <1>1, <3>1 DEF now
    <3>3. QED BY <1>3, <3>2
  <2>2. CASE k = 0
    <3>1. t \in Edca
          BY <2>2 DEF First
    <3>2. QED BY <1>1, <1>3, <2>2, <3>1 DEF now
  <2>3. QED BY <2>1, <2>2
<1>8. QED BY <1>4, <1>5, <1>6, <1>7

(* Both grids keep their place while the medium is idle.                   *)
LEMMA GridsPass ==
  ASSUME NEW s \in Int, NEW b \in Int, NEW l \in Int, NEW m \in Int, NEW t \in Txops,
         m >= l - 1,
         LET aifs == Sifs + Aifsn[t] * Slot
         IN  /\ now < Later(s, b + aifs) + MaxDraw * Slot
             /\ Old(b) => b + aifs < s
             /\ Later(s, b + aifs) =< Later(s, l + aifs)
  PROVE  LET aifs == Sifs + Aifsn[t] * Slot
             later == Forget(s, b + aifs)
         IN  /\ Later(later, Older(b) + aifs) = Later(s, b + aifs) - 1
             /\ Later(later, m + aifs) >= Later(s, l + aifs) - 1
<1> DEFINE aifs == Sifs + Aifsn[t] * Slot
           H == Later(s, b + aifs)
           most == MaxDraw * Slot
           later == Forget(s, b + aifs)
<1>1. /\ Oldest \in Int /\ Oldest + Slot + aifs + most =< now
      /\ aifs \in Nat /\ most \in Nat /\ Slot \in Nat /\ Slot > 0
  <2>1. Aifsn[t] * Slot \in Nat /\ Sifs \in Nat /\ MaxDraw * Slot \in Nat
        BY Aifs, Constants
  <2>2. QED BY <2>1, LongestAgo, Constants DEF now
<1>2. /\ now < H + most /\ H =< Later(s, l + aifs)
      /\ Old(b) => b + aifs < s
      OBVIOUS
<1> HIDE DEF aifs, most, later
<1>3. H > Oldest + Slot /\ H \in Int
      BY <1>1, <1>2 DEF Later, now
<1>4. s >= b + aifs => later = s - 1
  <2>1. ASSUME s >= b + aifs PROVE later = s - 1
    <3>1. H = s
          BY <1>1, <2>1 DEF Later
    <3>2. later = Older(s)
          BY <1>1, <2>1 DEF Forget, later
    <3>3. QED BY <1>1, <1>3, <3>1, <3>2 DEF Older
  <2>2. QED BY <2>1
<1>5. s < b + aifs => later \in Int /\ later =< b + aifs - 1 /\ H = b + aifs
  <2>1. ASSUME s < b + aifs PROVE later \in Int /\ later =< b + aifs - 1 /\ H = b + aifs
    <3>1. H = b + aifs
          BY <1>1, <2>1 DEF Later
    <3>2. later = Oldest \/ later = s - 1 \/ later = Oldest - 1 + Slot
          BY <1>1 DEF Forget, Older, later
    <3>3. QED BY <1>1, <1>3, <2>1, <3>1, <3>2
  <2>2. QED BY <2>1
<1>6. /\ ~ Old(b) => Older(b) = b - 1
      /\ Old(b) => Older(b) \in Int /\ Older(b) < Oldest + Slot
      BY <1>1 DEF Old, Older
<1>7. Later(later, Older(b) + aifs) = H - 1
  <2>1. CASE Old(b)
    <3>1. H = s /\ later = s - 1
          BY <1>1, <1>2, <1>4, <2>1 DEF Later
    <3>2. Older(b) + aifs =< s - 1
          BY <1>1, <1>2, <1>6, <2>1, <3>1 DEF now
    <3>3. QED BY <1>1, <1>6, <2>1, <3>1, <3>2 DEF Later
  <2>2. CASE ~ Old(b)
    <3>1. CASE s >= b + aifs
          BY <1>1, <1>4, <1>6, <2>2, <3>1 DEF Later
    <3>2. CASE s < b + aifs
          BY <1>1, <1>5, <1>6, <2>2, <3>2 DEF Later
    <3>3. QED BY <1>1, <3>1, <3>2
  <2>3. QED BY <2>1, <2>2
<1>8. Later(later, m + aifs) >= Later(s, l + aifs) - 1
  <2>1. CASE s >= b + aifs
        BY <1>1, <1>4, <2>1 DEF Later
  <2>2. CASE s < b + aifs
    <3>1. Later(s, l + aifs) = l + aifs
          BY <1>1, <1>2, <1>5, <2>2 DEF Later
    <3>2. QED BY <1>1, <1>5, <2>2, <3>1 DEF Later
  <2>3. QED BY <1>1, <2>1, <2>2
<1>9. QED BY <1>7, <1>8 DEF aifs, later

LEMMA TickFacts ==
  ASSUME IInv, HeardInv, Tick, NEW t \in Txops
  PROVE  /\ dev' \in Devices /\ dev'.slots = dev.slots
         /\ dev'.start[t] = Forget(dev.start[t], heard.busy + Sifs + Aifsn[t] * Slot)
         /\ dev'.earned[t] = IF dev.earned[t] > 0 /\ SlotPasses(t) THEN dev.earned[t] - 1
                             ELSE dev.earned[t]
         /\ heard'.busy = IF InUse THEN now ELSE Older(heard.busy)
<1> DEFINE last == LastEnd(dev)
           rxEnd == IF dev.rxOk THEN Forget(dev.rxEnd, last) ELSE Older(dev.rxEnd)
           start == [u \in Txops |-> Forget(dev.start[u], heard.busy + Sifs + Aifsn[u] * Slot)]
           earned == [u \in Txops |-> IF dev.earned[u] > 0 /\ SlotPasses(u)
                                      THEN dev.earned[u] - 1 ELSE dev.earned[u]]
<1>1. dev' = [dev EXCEPT
           !.rxEnd = rxEnd,
           !.txEnd = Forget(@, last), !.busyEnd = Forget(@, last),
           !.navEnd = Forget(@, last), !.ackEnd = Forget(@, last),
           !.ctsEnd = Forget(@, last), !.switchEnd = Forget(@, last),
           !.start = start,
           !.timer = Nearer(@), !.due = Nearer(@), !.response = Nearer(@),
           !.earned = earned]
      BY DEF Tick
<1>2. /\ start[t] = Forget(dev.start[t], heard.busy + Sifs + Aifsn[t] * Slot)
      /\ earned[t] = IF dev.earned[t] > 0 /\ SlotPasses(t) THEN dev.earned[t] - 1
                     ELSE dev.earned[t]
      OBVIOUS
<1> HIDE DEF last, rxEnd, start, earned
<1>3. dev \in Devices /\ dev' \in Devices
      BY EndsPass DEF IInv, TypeOK
<1>4. dev'.slots = dev.slots /\ dev'.start = start /\ dev'.earned = earned
      BY <1>1, <1>3 DEF Devices
<1>5. heard'.busy = IF InUse THEN now ELSE Older(heard.busy)
      BY DEF Tick
<1>6. QED BY <1>2, <1>3, <1>4, <1>5

LEMMA TickCounts ==
  ASSUME IInv, HeardInv, CountInv(dev), Tick
  PROVE  CountInv(dev)'
<1>1. HeardInv' /\ heard'.busy \in Int
      BY TickKnows, InvariantStep DEF IInv, TypeOK, Next
<1>2. ASSUME NEW t \in Txops PROVE Counted(dev, t)'
  <2> DEFINE aifs == Sifs + Aifsn[t] * Slot
             e == dev.earned[t]
             H == Later(dev.start[t], heard.busy + aifs)
             K == Later(dev.start[t], LastEnd(dev) + aifs)
             Hn == Later(dev'.start[t], heard'.busy + aifs)
             Kn == Later(dev'.start[t], LastEnd(dev') + aifs)
             en == dev'.earned[t]
             F == First(t)
             ahead == dev.slots[t] - e
             gone == dev'.slots[t] - en
  <2>1. /\ dev \in Devices /\ dev' \in Devices /\ dev'.slots = dev.slots
        /\ dev'.start[t] = Forget(dev.start[t], heard.busy + Sifs + Aifsn[t] * Slot)
        /\ en = IF e > 0 /\ SlotPasses(t) THEN e - 1 ELSE e
        /\ heard'.busy = IF InUse THEN now ELSE Older(heard.busy)
        BY TickFacts DEF IInv, TypeOK
  <2>2. /\ LastEnd(dev) \in Int /\ LastEnd(dev') \in Int /\ LastEnd(dev') >= LastEnd(dev) - 1
        BY <2>1, EndsPass, LastEndIsLast
  <2>3. /\ dev.start[t] \in Int /\ dev'.start[t] \in Int /\ dev.slots[t] \in Nat
        /\ e \in Nat /\ en \in Nat /\ heard.busy \in Int
        /\ MaxDraw \in Nat /\ Sifs \in Nat /\ Slot \in Nat /\ Slot > 0 /\ F \in {0, 1}
        /\ Aifsn[t] * Slot \in Nat /\ Aifsn[t] * Slot >= Slot /\ aifs \in Nat /\ aifs > Slot
        BY <2>1, Constants, Aifs, Firsts DEF Devices, CountInv
  <2>4. /\ Counted(dev, t) /\ BusyIsKnown(dev, heard)
        BY DEF CountInv
  <2>5. /\ HeardStart(dev, t) = H /\ KnownStart(dev, t) = K
        BY <2>2, <2>3 DEF HeardStart, KnownStart, Later
  <2>6. Counted(dev, t)' <=>
          /\ dev'.slots[t] =< MaxDraw /\ en =< dev'.slots[t]
          /\ en > 0 => /\ now < Hn + (MaxDraw - en + 1) * Slot
                       /\ \E n \in Nat : /\ now < Hn + (n + F) * Slot
                                         /\ Hn + (n + F) * Slot =< Kn + (gone + F) * Slot
    <3>1. /\ heard'.busy + Sifs + Aifsn[t] * Slot = heard'.busy + aifs
          /\ LastEnd(dev') + Sifs + Aifsn[t] * Slot = LastEnd(dev') + aifs
          BY <1>1, <2>2, <2>3
    <3>2. HeardStart(dev, t)' = Hn /\ KnownStart(dev, t)' = Kn
          BY <3>1 DEF HeardStart, KnownStart, LastEnd, Later, now
    <3>3. QED BY <3>2 DEF Counted, Recent, NextIsCounted, now, First
  <2>7. dev'.slots[t] =< MaxDraw /\ en =< dev'.slots[t] /\ dev'.slots[t] = dev.slots[t]
        BY <2>1, <2>3, <2>4 DEF Counted
  <2>8. CASE ~ (en > 0)
        BY <2>6, <2>7, <2>8
  <2>9. CASE en > 0
    <3>1. e > 0 /\ e =< MaxDraw /\ Recent(dev, t) /\ NextIsCounted(dev, t) /\ e =< dev.slots[t]
          BY <2>1, <2>3, <2>4, <2>9 DEF Counted
    <3>2. /\ now < H + MaxDraw * Slot /\ H =< K
          /\ Old(heard.busy) => heard.busy + aifs < dev.start[t]
      <4>1. heard.busy + Sifs + Aifsn[t] * Slot = heard.busy + aifs
            BY <2>3
      <4>2. QED BY <2>1, <2>3, <2>4, <2>5, <3>1, <4>1, RecentStart
    <3> HIDE DEF aifs, H, K, Hn, Kn, e, en, F
    <3>3. gone \in Nat /\ ahead \in Nat
          BY <2>3, <2>7, <3>1 DEF e, en
    <3> HIDE DEF ahead, gone
    <3>4. CASE InUse
      <4>1. LastEnd(dev) > now /\ heard'.busy = now
            BY <2>1, <3>4, UseIsKnown DEF Tick
      <4>2. /\ Hn \in Int /\ Kn \in Int /\ Hn > now /\ Hn =< Kn /\ now + Slot =< Kn
            BY <2>2, <2>3, <4>1 DEF Hn, Kn, Later, now
      <4>3. now < Hn + (MaxDraw - en + 1) * Slot
        <5>1. MaxDraw - en + 1 \in Nat
              BY <2>3, <2>7
        <5>2. (MaxDraw - en + 1) * Slot \in Nat
              BY <2>3, <5>1
        <5>3. QED BY <4>2, <5>2 DEF now
      <4>4. \E n \in Nat : /\ now < Hn + (n + F) * Slot
                           /\ Hn + (n + F) * Slot =< Kn + (gone + F) * Slot
            BY <3>3, <4>2, SomeSlotIsNext DEF F
      <4>5. QED BY <2>6, <2>7, <4>3, <4>4
    <3>5. CASE ~ InUse
      <4>1. H \in Int /\ K \in Int /\ Hn \in Int /\ Kn \in Int
            BY <1>1, <2>2, <2>3 DEF H, K, Hn, Kn, Later
      <4>2. Hn = H - 1 /\ Kn >= K - 1
        <5>1. heard'.busy = Older(heard.busy)
              BY <2>1, <3>5
        <5>2. dev'.start[t] = Forget(dev.start[t], heard.busy + aifs)
          <6>1. heard.busy + Sifs + Aifsn[t] * Slot = heard.busy + aifs
                BY <2>3 DEF aifs
          <6>2. QED BY <2>1, <6>1
        <5>3. LET a == Sifs + Aifsn[t] * Slot
              IN  /\ now < Later(dev.start[t], heard.busy + a) + MaxDraw * Slot
                  /\ Old(heard.busy) => heard.busy + a < dev.start[t]
                  /\ Later(dev.start[t], heard.busy + a) =< Later(dev.start[t], LastEnd(dev) + a)
              BY <3>2 DEF H, K, aifs
        <5>4. LET a == Sifs + Aifsn[t] * Slot
                  later == Forget(dev.start[t], heard.busy + a)
              IN  /\ Later(later, Older(heard.busy) + a) = Later(dev.start[t], heard.busy + a) - 1
                  /\ Later(later, LastEnd(dev') + a) >= Later(dev.start[t], LastEnd(dev) + a) - 1
              BY <2>2, <2>3, <5>3, GridsPass
        <5>5. QED BY <5>1, <5>2, <5>4 DEF H, K, Hn, Kn, aifs
      <4>3. PICK n \in Nat : now < H + (n + F) * Slot /\ H + (n + F) * Slot =< K + (ahead + F) * Slot
            BY <2>5, <3>1 DEF NextIsCounted, F, ahead, e
      <4>4. now < H + (MaxDraw - e + 1) * Slot
            BY <2>5, <3>1 DEF Recent, e
      <4>5. \A k \in Nat : F =< k /\ now + 1 = H + k * Slot => SlotPasses(t)
            BY <2>1, <2>3, <2>5, <3>5, BoundaryPasses DEF F
      <4>6. /\ n + F \in Nat /\ ahead + F \in Nat /\ MaxDraw - e + 1 \in Nat
            /\ F =< n + F /\ F =< MaxDraw - e + 1
            BY <2>3, <3>1, <3>3
      <4>7. /\ (n + F) * Slot \in Nat /\ (ahead + F) * Slot \in Nat
            /\ (MaxDraw - e + 1) * Slot \in Nat
            BY <2>3, <4>6
      <4>8. CASE SlotPasses(t)
        <5>1. en = e - 1 /\ gone = ahead + 1
              BY <2>1, <2>3, <2>7, <3>1, <4>8 DEF e, en, gone, ahead
        <5>2. /\ MaxDraw - en + 1 = (MaxDraw - e + 1) + 1
              /\ n + 1 + F = (n + F) + 1 /\ gone + F = (ahead + F) + 1
              BY <2>3, <3>3, <5>1
        <5>3. \A k \in Nat : (k + 1) * Slot = k * Slot + Slot
              BY <2>3
        <5>4. /\ (MaxDraw - en + 1) * Slot = (MaxDraw - e + 1) * Slot + Slot
              /\ (n + 1 + F) * Slot = (n + F) * Slot + Slot
              /\ (gone + F) * Slot = (ahead + F) * Slot + Slot
              BY <4>6, <5>2, <5>3
        <5> DEFINE x == (n + F) * Slot  y == (ahead + F) * Slot  z == (MaxDraw - e + 1) * Slot
        <5> HIDE DEF x, y, z
        <5>5. /\ now < Hn + (z + Slot) /\ now < Hn + (x + Slot)
              /\ Hn + (x + Slot) =< Kn + (y + Slot)
              BY <2>3, <4>1, <4>2, <4>3, <4>4, <4>7 DEF x, y, z, now
        <5>6. QED BY <2>6, <2>7, <5>4, <5>5 DEF x, y, z
      <4>9. CASE ~ SlotPasses(t)
        <5>1. en = e /\ gone = ahead
              BY <2>1, <2>7, <4>9 DEF e, en, gone, ahead
        <5> DEFINE x == (n + F) * Slot  y == (ahead + F) * Slot  z == (MaxDraw - e + 1) * Slot
        <5>2. now + 1 # H + x /\ now + 1 # H + z
              BY <4>5, <4>6, <4>9
        <5> HIDE DEF x, y, z
        <5>3. /\ now < Hn + z /\ now < Hn + x /\ Hn + x =< Kn + y
              BY <4>1, <4>2, <4>3, <4>4, <4>7, <5>2 DEF x, y, z, now
        <5>4. QED BY <2>6, <2>7, <5>1, <5>3 DEF x, y, z
      <4>10. QED BY <4>8, <4>9
    <3>6. QED BY <3>4, <3>5
  <2>10. QED BY <2>8, <2>9
<1>3. QED BY <1>1, <1>2 DEF CountInv, HeardInv

(* Every step keeps it.                                                    *)
LEMMA HandlerCounts ==
  ASSUME IInv, CountInv(dev), Next, ~ Tick, ~ RxEndError
  PROVE  CountInv(dev')
<1>1. dev' \in Devices /\ dev.owner \in {Nobody} \cup Txops
      BY InvariantStep DEF IInv, TypeOK, Devices
<1>2. CASE \E t \in Txops : Queue(t) \/ Expire(t)
      BY <1>1, <1>2, QueueCounts, ExpireCounts
<1>3. CASE AccessTimeout
      BY <1>3, AccessTimeoutCounts
<1>4. CASE \E c \in DrawsOf[dev.owner] : Ending(c)
  <2>1. PICK c \in DrawsOf[dev.owner] : Ending(c)
        BY <1>4
  <2>2. c \in Choices
        BY <1>1, OpenChoices
  <2>3. CASE \E n \in 0 .. MaxFrames : ReceiveAck(n, c)
        BY <2>2, <2>3, ReceiveAckCounts
  <2>4. CASE \E n \in 0 .. MaxFrames : ExchangeTimeout(n, c)
        BY <2>2, <2>4, ExchangeTimeoutCounts
  <2>5. CASE EndTxNoAck(c)
        BY <2>2, <2>5, EndTxNoAckCounts
  <2>6. QED BY <2>1, <2>3, <2>4, <2>5 DEF Ending
<1>5. CASE Receiving
  <2>1. CASE \E d \in RxTimes : RxStart(d)
        BY <2>1, RxStartCounts
  <2>2. CASE ReceiveCts
        BY <1>1, <2>2, ReceiveCtsCounts
  <2>3. CASE ReceiveRequest
        BY <1>1, <2>3, ReceiveRequestCounts
  <2>4. CASE \E d \in NavTimes, rts \in BOOLEAN : NotifyNav(d, rts)
        BY <1>1, <2>4, NotifyNavCounts
  <2>5. CASE DoNavResetNow
        BY <2>5, DoNavResetNowCounts
  <2>6. CASE \E d \in CcaTimes : NotifyMaybeCcaBusyStart(d)
        BY <1>1, <2>6, NotifyMaybeCcaBusyStartCounts
  <2>7. QED BY <1>5, <2>1, <2>2, <2>3, <2>4, <2>5, <2>6 DEF Receiving
<1>6. CASE Sending
      BY <1>6, SendDataAfterCtsCounts, SendResponseCounts DEF Sending
<1>7. CASE NotifySleepNow
      BY <1>1, <1>7, NotifySleepNowCounts
<1>8. CASE \E c \in Choices : NotifyWakeupNow(c)
      BY <1>1, <1>8, NotifyWakeupNowCounts
<1>9. CASE \E left \in [Txops -> 0 .. MaxFrames] : NotifySwitchingStartNow(left)
      BY <1>1, <1>9, NotifySwitchingStartNowCounts
<1>10. QED BY <1>2, <1>3, <1>4, <1>5, <1>6, <1>7, <1>8, <1>9 DEF Next

LEMMA CountsAfter ==
  ASSUME CountInv(dev'), heard'.busy = heard.busy
  PROVE  CountInv(dev)'
<1>1. BusyIsKnown(dev', heard) /\ heard.busy \in Int
      BY DEF CountInv
<1>2. heard'.busy \in Int /\ BusyIsKnown(dev, heard)'
      BY <1>1 DEF BusyIsKnown, LastEnd, Old, now
<1>3. ASSUME NEW t \in Txops PROVE Counted(dev, t)'
  <2>1. Counted(dev', t)
        BY DEF CountInv
  <2>2. HeardStart(dev, t)' = HeardStart(dev', t) /\ KnownStart(dev, t)' = KnownStart(dev', t)
        BY DEF HeardStart, KnownStart, LastEnd, Later, now
  <2>3. QED BY <2>1, <2>2 DEF Counted, Recent, NextIsCounted, First, now
<1>4. QED BY <1>2, <1>3 DEF CountInv

LEMMA CountStep ==
  ASSUME IInv, HeardInv, CountInv(dev), [Next]_vars
  PROVE  CountInv(dev)'
<1>1. CASE UNCHANGED vars
      BY <1>1, CountsAfter DEF vars
<1>2. CASE Tick
      BY <1>2, TickCounts
<1>3. CASE RxEndError
  <2>1. dev' \in Devices
        BY InvariantStep DEF IInv, TypeOK
  <2>2. heard'.busy = heard.busy
        BY <1>3 DEF RxEndError, Heard, IInv, TypeOK
  <2>3. QED BY <1>3, <2>1, <2>2, RxEndErrorCounts, CountsAfter
<1>4. CASE Next /\ ~ Tick /\ ~ RxEndError
      BY <1>4, HandlerCounts, AnyHandler, CountsAfter
<1>5. QED BY <1>1, <1>2, <1>3, <1>4

LEMMA InitialCounts ==
  ASSUME Init
  PROVE  CountInv(dev)
<1>1. dev \in Devices /\ heard.busy = now
      BY InitialInvariant DEF IInv, TypeOK, Init
<1>2. heard.busy \in Int /\ BusyIsKnown(dev, heard)
      BY <1>1, InitialHeard DEF HeardInv, now
<1>3. Protected(dev, now)
  <2>1. dev.rxEnd = now
        BY DEF Init
  <2>2. now \in Ends(dev)
        BY <2>1 DEF Ends
  <2>3. QED BY <1>1, <2>2, LastEndIsLast, Constants DEF Protected, now
<1>4. PICK draw \in [Txops -> 0 .. MaxDraw] :
        /\ dev.slots = draw /\ dev.earned = draw /\ dev.start = [t \in Txops |-> now]
      BY DEF Init
<1>5. ASSUME NEW t \in Txops PROVE Counted(dev, t)
  <2>1. /\ dev.start[t] = now /\ dev.slots[t] =< MaxDraw /\ dev.earned[t] =< MaxDraw
        /\ dev.earned[t] =< dev.slots[t]
        BY <1>4, Constants
  <2>2. Recent(dev, t)
        BY <1>1, <1>2, <2>1, RecentAnew
  <2>3. QED BY <1>1, <1>2, <1>3, <2>1, <2>2, CountedAnew
<1>6. QED BY <1>2, <1>5 DEF CountInv

-----------------------------------------------------------------------------
(* UpdateBackoff is called at any time, long after the slots have passed,  *)
(* and after the intervals were cut short, extended and overwritten: it    *)
(* never takes more of a backoff than the slots that were counted while    *)
(* they passed, the medium reported idle for AIFS or more.                 *)
THEOREM IdleSlotsAreCounted == Spec => []BackoffCountsIdleSlots
<1>1. Init => CountInv(dev)
      BY InitialCounts
<1>2. IInv /\ HeardInv /\ CountInv(dev) /\ [Next]_vars => CountInv(dev)'
      BY CountStep
<1>3. IInv /\ CountInv(dev) => BackoffCountsIdleSlots
  <2>1. SUFFICES ASSUME IInv, CountInv(dev), NEW t \in Txops
        PROVE  dev.slots[t] >= dev.earned[t]
        BY DEF BackoffCountsIdleSlots
  <2>2. QED BY <2>1 DEF CountInv, Counted, IInv, TypeOK, Devices
<1>4. QED BY <1>1, <1>2, <1>3, ContentionInvariant, MediumIsKnown, PTL DEF Spec

-----------------------------------------------------------------------------
(* The timer.  A handler leaves it or sets it to an earlier time, if it    *)
(* leaves the requests, or it sets it anew for all of them.                *)

Sooner(d, e) ==
  /\ e.requested = d.requested /\ e.stranded = d.stranded /\ e.sleeping = d.sleeping
  /\ d.timer # Never => e.timer # Never /\ e.timer =< d.timer

InTime(e, t, latest) == e.timer # Never /\ e.timer =< latest + MaxDraw * Slot

Fresh(e) ==
  \A t \in Txops : e.requested[t] /\ t \notin e.stranded => InTime(e, t, LatestStart(e, t))

Kept(d, e) == Sooner(d, e) \/ Fresh(e) \/ e.sleeping

(* CCA is busy no less long than the manager was told.                     *)
CcaIsKnown(d, p) == d.busyEnd =< Later(now, p.cca)

TimerIsInTime(d, h) ==
  \A t \in Txops :
    d.requested[t] /\ ~ d.sleeping /\ t \notin d.stranded => InTime(d, t, h.until[t])

TimerInv == TimerIsInTime(dev, heard) /\ CcaIsKnown(dev, phy)

LEMMA SoonerAlike ==
  ASSUME NEW d \in Devices, NEW e, e.requested = d.requested, e.stranded = d.stranded,
         e.sleeping = d.sleeping, e.timer = d.timer
  PROVE  Sooner(d, e)
<1>1. d.timer \in Int
      BY DEF Devices, Event, Never
<1>2. QED BY <1>1 DEF Sooner

LEMMA SoonerStill ==
  ASSUME NEW d \in Devices, NEW e \in Devices, NEW g \in Devices, Sooner(d, e), Sooner(e, g)
  PROVE  Sooner(d, g)
<1>1. d.timer \in Int /\ e.timer \in Int /\ g.timer \in Int
      BY DEF Devices, Event, Never
<1>2. QED BY <1>1 DEF Sooner

LEMMA LatestAlike ==
  ASSUME NEW d, NEW e, Intervals(e) = Intervals(d), e.start = d.start, NEW t \in Txops
  PROVE  LatestStart(e, t) = LatestStart(d, t)
<1>1. LastEnd(e) = LastEnd(d)
      BY SameLastEnd
<1>2. e.rxOk = d.rxOk /\ e.rxEnd = d.rxEnd
      BY DEF Intervals
<1>3. QED BY <1>1, <1>2 DEF LatestStart

LEMMA TimerRestarted ==
  ASSUME NEW d \in Devices
  PROVE  LET e == DoRestartAccessTimeoutIfNeeded(d)
         IN  /\ Sooner(d, e)
             /\ \A t \in Txops :
                  d.requested[t] /\ GetBackoffEndFor(d, t) > now =>
                    e.timer # Never /\ e.timer =< GetBackoffEndFor(d, t)
<1> DEFINE ends == {GetBackoffEndFor(d, t) : t \in {u \in Txops : d.requested[u]}}
           later == {x \in ends : x > now}
           e == DoRestartAccessTimeoutIfNeeded(d)
<1>1. later \subseteq Nat
      BY BackoffTimes DEF now
<1>2. \A t \in Txops : d.requested[t] /\ GetBackoffEndFor(d, t) > now =>
        GetBackoffEndFor(d, t) \in later
      OBVIOUS
<1>3. later # {} => Least(later) \in later /\ \A x \in later : Least(later) =< x
      BY <1>1, LeastElement
<1>4. e = IF later = {} \/ (d.timer # Never /\ d.timer =< Least(later)) THEN d
          ELSE [d EXCEPT !.timer = Least(later)]
      BY DEF DoRestartAccessTimeoutIfNeeded
<1> HIDE DEF ends, later, e
<1>5. d.timer \in Event /\ \A x \in Event : x \in Int
      BY DEF Devices, Event, Never
<1>6. CASE later = {} \/ (d.timer # Never /\ d.timer =< Least(later))
  <2>1. e = d
        BY <1>4, <1>6
  <2>2. ASSUME NEW t \in Txops, d.requested[t], GetBackoffEndFor(d, t) > now
        PROVE  d.timer # Never /\ d.timer =< GetBackoffEndFor(d, t)
    <3>1. later # {} /\ GetBackoffEndFor(d, t) \in later
          BY <1>2, <2>2
    <3>2. /\ d.timer =< Least(later) /\ Least(later) =< GetBackoffEndFor(d, t)
          /\ Least(later) \in Nat /\ GetBackoffEndFor(d, t) \in Nat
          BY <1>1, <1>3, <1>6, <3>1
    <3>3. QED BY <1>5, <1>6, <3>1, <3>2
  <2>3. QED BY <2>1, <2>2, SoonerAlike DEF e
<1>7. CASE ~ (later = {} \/ (d.timer # Never /\ d.timer =< Least(later)))
  <2>1. Least(later) \in Nat /\ \A x \in Nat : x # Never
    <3>1. Least(later) \in Nat
          BY <1>1, <1>3, <1>7
    <3>2. \A x \in Nat : x # Never
          BY DEF Never
    <3>3. QED BY <3>1, <3>2
  <2>2. e.timer = Least(later)
        BY <1>4, <1>7 DEF Devices
  <2>3. e.requested = d.requested /\ e.stranded = d.stranded /\ e.sleeping = d.sleeping
        BY <1>4, <1>7 DEF Devices
  <2>4. d.timer # Never => e.timer =< d.timer
        BY <1>5, <1>7, <2>1, <2>2
  <2>5. QED BY <1>2, <1>3, <2>1, <2>2, <2>3, <2>4 DEF Sooner, e
<1>8. QED BY <1>6, <1>7

LEMMA EndsByLatest ==
  ASSUME NEW d \in Devices, NEW t \in Txops, d.slots[t] =< MaxDraw
  PROVE  /\ LatestStart(d, t) \in Int /\ MaxDraw * Slot \in Nat
         /\ GetBackoffEndFor(d, t) =< LatestStart(d, t) + MaxDraw * Slot
<1>1. d.slots[t] \in Nat /\ MaxDraw \in Nat
      BY Constants DEF Devices
<1>2. d.slots[t] * Slot =< MaxDraw * Slot /\ d.slots[t] * Slot \in Int /\ MaxDraw * Slot \in Nat
      BY <1>1, SlotsAdd, Constants
<1>3. /\ GetBackoffStartFor(d, t) \in Int /\ LatestStart(d, t) \in Int
      /\ GetBackoffStartFor(d, t) =< LatestStart(d, t)
      BY LatestStarts, BackoffTimes
<1>4. QED BY <1>2, <1>3 DEF GetBackoffEndFor

(* After a grant the timer is in time for everybody.                       *)
LEMMA GrantedInTime ==
  ASSUME NEW d \in Devices, CountInv(d), NEW c \in Choices
  PROVE  Fresh(DoRestartAccessTimeoutIfNeeded(DoGrantDcfAccess(d, c)))
<1> DEFINE h == DoGrantDcfAccess(d, c)
           g == DoRestartAccessTimeoutIfNeeded(h)
<1>1. h \in Devices /\ NotForgotten(h) /\ CountInv(h)
      BY AccessDecided, DecisionCounts
<1> HIDE DEF h
<1>2. g \in Devices /\ Intervals(g) = Intervals(h) /\ Work(g) = Work(h) /\ g.start = h.start
      BY <1>1, Restarted
<1>3. \A t \in Txops :
        h.requested[t] /\ GetBackoffEndFor(h, t) > now =>
          g.timer # Never /\ g.timer =< GetBackoffEndFor(h, t)
      BY <1>1, TimerRestarted
<1> HIDE DEF g
<1>4. SUFFICES ASSUME NEW t \in Txops, g.requested[t], t \notin g.stranded
               PROVE  InTime(g, t, LatestStart(g, t))
      BY DEF Fresh, g, h
<1>5. h.requested[t] /\ t \notin h.stranded
      BY <1>2, <1>4 DEF Work
<1>6. g.timer # Never /\ g.timer =< GetBackoffEndFor(h, t)
      BY <1>1, <1>3, <1>5 DEF NotForgotten
<1>7. /\ LatestStart(h, t) \in Int /\ MaxDraw * Slot \in Nat
      /\ GetBackoffEndFor(h, t) =< LatestStart(h, t) + MaxDraw * Slot
      BY <1>1, EndsByLatest DEF CountInv, Counted
<1>8. LatestStart(g, t) = LatestStart(h, t)
      BY <1>2, LatestAlike
<1>9. g.timer \in Int /\ GetBackoffEndFor(h, t) \in Int
      BY <1>1, <1>2, BackoffTimes DEF Devices, Event, Never
<1>10. QED BY <1>6, <1>7, <1>8, <1>9 DEF InTime

LEMMA RequestedInTime ==
  ASSUME NEW d \in Devices, CountInv(d), ~ d.sleeping, NEW t \in Txops, NEW c \in Choices
  PROVE  Fresh(RequestAccess(d, t, c))
<1>1. AccessRequested(d, t) \in Devices
      BY RequestMade
<1>2. CountInv(AccessRequested(d, t))
      BY AccessRequestedCounts
<1>3. QED BY <1>1, <1>2, GrantedInTime DEF RequestAccess

LEMMA RestartedInTime ==
  ASSUME NEW d \in Devices, CountInv(d), ~ d.sleeping, NEW t \in Txops, NEW c \in Choices
  PROVE  LET e == RestartAccessIfNeeded(d, t, c) IN e = d \/ Fresh(e)
BY RequestedInTime DEF RestartAccessIfNeeded

LEMMA UpdatedSooner ==
  ASSUME NEW d \in Devices
  PROVE  UpdateBackoff(d) \in Devices /\ Sooner(d, UpdateBackoff(d))
<1> DEFINE u == UpdateBackoff(d)
<1>1. /\ u \in Devices /\ Intervals(u) = Intervals(d) /\ Work(u) = Work(d)
      /\ u.timer = d.timer
      BY Updated
<1> HIDE DEF u
<1>2. u.requested = d.requested /\ u.stranded = d.stranded /\ u.sleeping = d.sleeping
      BY <1>1 DEF Intervals, Work
<1>3. QED BY <1>1, <1>2, SoonerAlike DEF u

LEMMA TimerSooner ==
  ASSUME NEW d \in Devices
  PROVE  /\ DoRestartAccessTimeoutIfNeeded(d) \in Devices
         /\ Sooner(d, DoRestartAccessTimeoutIfNeeded(d))
  BY Restarted, TimerRestarted

LEMMA TxStartSooner ==
  ASSUME NEW d \in Devices
  PROVE  NotifyTxStartNow(d) \in Devices /\ Sooner(d, NotifyTxStartNow(d))
<1> DEFINE e == NotifyTxStartNow(d)
<1>1. e \in Devices /\ Work(e) = Work(d) /\ e.timer = d.timer /\ e.sleeping = d.sleeping
      BY TxStarted
<1> HIDE DEF e
<1>2. e.requested = d.requested /\ e.stranded = d.stranded
      BY <1>1 DEF Work
<1>3. QED BY <1>1, <1>2, SoonerAlike DEF e

LEMMA SendSooner ==
  ASSUME NEW d \in Devices, NEW kind \in {"noack", "ack", "cts"}
  PROVE  SendAs(d, kind) \in Devices /\ Sooner(d, SendAs(d, kind))
<1> DEFINE e == SendAs(d, kind)
<1>1. e \in Devices /\ Work(e) = Work(d) /\ e.timer = d.timer /\ e.sleeping = d.sleeping
      BY Sends
<1> HIDE DEF e
<1>2. e.requested = d.requested /\ e.stranded = d.stranded
      BY <1>1 DEF Work
<1>3. QED BY <1>1, <1>2, SoonerAlike DEF e

LEMMA EndedInTime ==
  ASSUME NEW d \in Devices, NEW p \in Phys, DeviceInv(d, p), Underway(d), CountInv(d),
         NEW n \in Nat, NEW c \in Choices
  PROVE  Sooner(d, ExchangeEnds(d, n, c)) \/ Fresh(ExchangeEnds(d, n, c))
<1> DEFINE t == d.owner
           frames == [d.frames EXCEPT ![t] = n]
           over == [d EXCEPT !.owner = Nobody, !.phase = "idle", !.due = Never,
                             !.held = FALSE, !.frames = frames]
           b == GenerateBackoff(over, t, c)
<1>1. ExchangeEnds(d, n, c) = RestartAccessIfNeeded(b, t, c)
      BY DEF ExchangeEnds
<1>2. t \in Txops /\ ~ d.sleeping
      BY DEF Underway, Devices, DeviceInv, SleepInv
<1>3. frames \in [Txops -> Nat]
      BY <1>2 DEF Devices
<1> HIDE DEF t, frames
<1>4. /\ over \in Devices /\ Intervals(over) = Intervals(d) /\ Backoffs(over) = Backoffs(d)
      /\ over.requested = d.requested /\ over.stranded = d.stranded /\ over.timer = d.timer
      BY <1>3 DEF Devices, Event, Intervals, Backoffs
<1> HIDE DEF over
<1>5. CountInv(over) /\ Protected(over, now)
      BY <1>4, CountsAlike, DeviceIsProtected, SameProtected
<1>6. /\ b \in Devices /\ CountInv(b) /\ Intervals(b) = Intervals(d)
      /\ b.requested = d.requested /\ b.stranded = d.stranded /\ b.timer = d.timer
      BY <1>2, <1>4, <1>5, BackoffGenerated, DrawnCounts DEF Work
<1> HIDE DEF b
<1>7. b.sleeping = d.sleeping /\ Sooner(d, b)
      BY <1>6, SoonerAlike DEF Intervals
<1>8. QED BY <1>1, <1>2, <1>6, <1>7, RestartedInTime

-----------------------------------------------------------------------------
(* Every handler keeps the timer in time.                                  *)

LEMMA QueueInTime ==
  ASSUME IInv, CountInv(dev), NEW t \in Txops, Queue(t)
  PROVE  Kept(dev, dev')
<1> DEFINE queued(b) == [BackoffUponAccess(dev, t, b) EXCEPT !.frames[t] = @ + 1]
<1>1. dev \in Devices
      BY DEF IInv, TypeOK
<1>2. ASSUME NEW b \in Choices
      PROVE  queued(b) \in Devices /\ CountInv(queued(b)) /\ Sooner(dev, queued(b))
  <2>1. /\ queued(b) \in Devices /\ Intervals(queued(b)) = Intervals(dev)
        /\ queued(b).requested = dev.requested /\ queued(b).stranded = dev.stranded
        /\ queued(b).timer = dev.timer
        BY <1>1, PacketQueued
  <2>2. CountInv(queued(b))
        BY <1>1, QueuedCounts
  <2> HIDE DEF queued
  <2>3. queued(b).sleeping = dev.sleeping
        BY <2>1 DEF Intervals
  <2>4. QED BY <1>1, <2>1, <2>2, <2>3, SoonerAlike
<1> HIDE DEF queued
<1>3. DrawsOf[t] \subseteq Choices /\ \A b : Offers(AccessRequested(queued(b), t)) \subseteq Choices
      BY OpenChoices
<1>4. ASSUME NEW c \in Choices, dev' = queued(c) PROVE Kept(dev, dev')
      BY <1>2, <1>4 DEF Kept
<1>5. ASSUME NEW b \in Choices, NEW c \in Choices, dev' = RequestAccess(queued(b), t, c)
      PROVE  Kept(dev, dev')
  <2>1. CASE queued(b).sleeping
        BY <1>2, <1>5, <2>1 DEF RequestAccess, Kept
  <2>2. CASE ~ queued(b).sleeping
        BY <1>2, <1>5, <2>2, RequestedInTime DEF Kept
  <2>3. QED BY <2>1, <2>2
<1>6. QED BY <1>3, <1>4, <1>5 DEF Queue, Becomes, queued

LEMMA ExpireInTime ==
  ASSUME IInv, NEW t \in Txops, Expire(t)
  PROVE  Kept(dev, dev')
<1>1. dev' = [dev EXCEPT !.frames[t] = @ - 1] /\ dev \in Devices
      BY DEF Expire, Becomes, IInv, TypeOK
<1>2. /\ dev'.requested = dev.requested /\ dev'.stranded = dev.stranded
      /\ dev'.sleeping = dev.sleeping /\ dev'.timer = dev.timer
      BY <1>1 DEF Devices
<1>3. QED BY <1>1, <1>2, SoonerAlike DEF Kept

LEMMA AccessTimeoutInTime ==
  ASSUME IInv, CountInv(dev), AccessTimeout
  PROVE  Kept(dev, dev')
<1> DEFINE stopped == [dev EXCEPT !.timer = Never]
           d == UpdateBackoff(stopped)
<1>1. PICK c \in Offers(d) : dev' = DoRestartAccessTimeoutIfNeeded(DoGrantDcfAccess(d, c))
      BY DEF AccessTimeout, Becomes
<1>2. c \in Choices
      BY OpenChoices
<1>3. /\ dev \in Devices /\ stopped \in Devices
      /\ Intervals(stopped) = Intervals(dev) /\ Backoffs(stopped) = Backoffs(dev)
      BY DEF IInv, TypeOK, Devices, Event, Intervals, Backoffs
<1> HIDE DEF stopped
<1>4. d \in Devices /\ CountInv(d)
      BY <1>3, CountsAlike, Updated, UpdateCounts
<1> HIDE DEF d
<1>5. QED BY <1>1, <1>2, <1>4, GrantedInTime DEF Kept

LEMMA RxStartInTime ==
  ASSUME IInv, NEW d \in RxTimes, RxStart(d)
  PROVE  Kept(dev, dev')
<1> DEFINE u == UpdateBackoff(dev)
           started == [u EXCEPT !.rxEnd = now + d, !.rxOk = TRUE]
           acked == [started EXCEPT !.due = now + d, !.ackEnd = now]
           cleared == [started EXCEPT !.due = now + d, !.ctsEnd = now]
           Same(e) == /\ e.requested = u.requested /\ e.stranded = u.stranded
                      /\ e.sleeping = u.sleeping /\ e.timer = u.timer
<1>1. dev \in Devices /\ u \in Devices /\ Sooner(dev, u)
      BY UpdatedSooner DEF IInv, TypeOK
<1>2. \/ dev' = started
      \/ dev' = DoRestartAccessTimeoutIfNeeded(acked)
      \/ dev' = DoRestartAccessTimeoutIfNeeded(cleared)
      BY DEF RxStart, Becomes
<1>3. now + d \in Int /\ now \in Int /\ now + d \in Event
      BY EdcaConstants DEF now, Event
<1> HIDE DEF u
<1>4. ASSUME NEW e, e = started \/ e = acked \/ e = cleared
      PROVE  e \in Devices /\ Sooner(dev, e)
  <2>1. started \in Devices /\ Same(started)
        BY <1>1, <1>3 DEF Devices
  <2> HIDE DEF started
  <2>2. acked \in Devices /\ Same(acked)
        BY <1>3, <2>1 DEF Devices
  <2>3. cleared \in Devices /\ Same(cleared)
        BY <1>3, <2>1 DEF Devices
  <2>4. e \in Devices /\ Same(e)
        BY <1>4, <2>1, <2>2, <2>3
  <2>5. Sooner(u, e)
        BY <1>1, <2>4, SoonerAlike
  <2>6. QED BY <1>1, <2>4, <2>5, SoonerStill
<1> HIDE DEF started, acked, cleared
<1>5. ASSUME NEW e, e = acked \/ e = cleared
      PROVE  Sooner(dev, DoRestartAccessTimeoutIfNeeded(e))
      BY <1>1, <1>4, <1>5, TimerSooner, SoonerStill
<1>6. QED BY <1>2, <1>4, <1>5 DEF Kept

LEMMA ReceiveAckInTime ==
  ASSUME IInv, CountInv(dev), NEW n \in 0 .. MaxFrames, NEW c \in Choices, ReceiveAck(n, c)
  PROVE  Kept(dev, dev')
<1> DEFINE reset == [dev EXCEPT !.ackEnd = now]
           d == DoRestartAccessTimeoutIfNeeded(reset)
           g == ExchangeEnds(d, n, c)
<1>1. RxEnds /\ dev.phase = "ack" /\ dev' = g /\ dev \in Devices /\ phy \in Phys /\ n \in Nat
      BY Constants DEF ReceiveAck, Becomes, IInv, TypeOK
<1>2. /\ d \in Devices /\ DeviceInv(d, phy) /\ Underway(d) /\ CountInv(d)
      /\ reset \in Devices /\ Work(reset) = Work(dev) /\ reset.timer = dev.timer
      /\ reset.sleeping = dev.sleeping
      BY <1>1, AckResetCounts
<1>3. Sooner(dev, reset) /\ Sooner(reset, d)
      BY <1>1, <1>2, SoonerAlike, TimerSooner DEF Work
<1> HIDE DEF reset
<1>4. Sooner(dev, d)
      BY <1>1, <1>2, <1>3, SoonerStill
<1> HIDE DEF d
<1>5. ~ d.sleeping
      BY <1>2 DEF DeviceInv, SleepInv
<1>6. (Sooner(d, g) \/ Fresh(g)) /\ g \in Devices
      BY <1>1, <1>2, <1>5, EndedInTime, ExchangeEnded
<1> HIDE DEF g
<1>7. QED BY <1>1, <1>2, <1>4, <1>6, SoonerStill DEF Kept

LEMMA ReceiveCtsInTime ==
  ASSUME IInv, dev' \in Devices, ReceiveCts
  PROVE  Kept(dev, dev')
<1> DEFINE reset == [dev EXCEPT !.ctsEnd = now]
           d == DoRestartAccessTimeoutIfNeeded(reset)
<1>1. dev' = [d EXCEPT !.phase = "sifs", !.due = now + Sifs]
      BY DEF ReceiveCts, Becomes
<1>2. /\ dev \in Devices /\ reset \in Devices /\ reset.requested = dev.requested
      /\ reset.stranded = dev.stranded /\ reset.sleeping = dev.sleeping
      /\ reset.timer = dev.timer
      BY DEF IInv, TypeOK, Devices, now
<1> HIDE DEF reset
<1>3. d \in Devices /\ Sooner(dev, d)
      BY <1>2, SoonerAlike, TimerSooner, SoonerStill
<1> HIDE DEF d
<1>4. /\ dev'.requested = d.requested /\ dev'.stranded = d.stranded
      /\ dev'.sleeping = d.sleeping /\ dev'.timer = d.timer
      BY <1>1, <1>3 DEF Devices
<1>5. QED BY <1>2, <1>3, <1>4, SoonerAlike, SoonerStill DEF Kept

LEMMA ReceiveRequestInTime ==
  ASSUME IInv, ReceiveRequest
  PROVE  Kept(dev, dev')
<1>1. dev' = [dev EXCEPT !.response = now + Sifs] /\ dev \in Devices
      BY DEF ReceiveRequest, Becomes, IInv, TypeOK
<1>2. /\ dev'.requested = dev.requested /\ dev'.stranded = dev.stranded
      /\ dev'.sleeping = dev.sleeping /\ dev'.timer = dev.timer
      BY <1>1 DEF Devices
<1>3. QED BY <1>1, <1>2, SoonerAlike DEF Kept

LEMMA RxEndErrorInTime ==
  ASSUME IInv, RxEndError
  PROVE  Kept(dev, dev')
<1>1. dev' = [dev EXCEPT !.rxEnd = now, !.rxOk = FALSE] /\ dev \in Devices
      BY DEF RxEndError, IInv, TypeOK
<1>2. /\ dev'.requested = dev.requested /\ dev'.stranded = dev.stranded
      /\ dev'.sleeping = dev.sleeping /\ dev'.timer = dev.timer
      BY <1>1 DEF Devices
<1>3. QED BY <1>1, <1>2, SoonerAlike DEF Kept

(* One end is set after UpdateBackoff.                                     *)
LEMMA EndSetSooner ==
  ASSUME NEW d \in Devices, NEW end \in Int, NEW e,
         e = [UpdateBackoff(d) EXCEPT !.navEnd = end] \/ e = [UpdateBackoff(d) EXCEPT !.busyEnd = end]
  PROVE  e \in Devices /\ Sooner(d, e)
<1> DEFINE u == UpdateBackoff(d)
<1>1. u \in Devices /\ Sooner(d, u)
      BY UpdatedSooner
<1>2. e = [u EXCEPT !.navEnd = end] \/ e = [u EXCEPT !.busyEnd = end]
      OBVIOUS
<1> HIDE DEF u
<1>3. /\ e \in Devices /\ e.requested = u.requested /\ e.stranded = u.stranded
      /\ e.sleeping = u.sleeping /\ e.timer = u.timer
      BY <1>1, <1>2 DEF Devices
<1>4. QED BY <1>1, <1>3, SoonerAlike, SoonerStill

LEMMA NotifyNavInTime ==
  ASSUME IInv, NEW d \in NavTimes, NEW rts \in BOOLEAN, NotifyNav(d, rts)
  PROVE  Kept(dev, dev')
<1> DEFINE nav == Later(UpdateBackoff(dev).navEnd, now + d)
<1>1. dev' = [UpdateBackoff(dev) EXCEPT !.navEnd = nav] /\ dev \in Devices
      BY DEF NotifyNav, Becomes, IInv, TypeOK
<1>2. UpdateBackoff(dev).navEnd \in Int /\ now + d \in Int
      BY <1>1, Updated, EdcaConstants DEF Devices, now
<1>3. nav \in Int
      BY <1>2 DEF Later
<1> HIDE DEF nav
<1>4. QED BY <1>1, <1>3, EndSetSooner DEF Kept

LEMMA DoNavResetNowInTime ==
  ASSUME IInv, DoNavResetNow
  PROVE  Kept(dev, dev')
<1> DEFINE reset == [UpdateBackoff(dev) EXCEPT !.navEnd = now]
<1>1. dev' = DoRestartAccessTimeoutIfNeeded(reset) /\ dev \in Devices /\ now \in Int
      BY DEF DoNavResetNow, Becomes, IInv, TypeOK, now
<1>2. reset \in Devices /\ Sooner(dev, reset)
      BY <1>1, EndSetSooner
<1> HIDE DEF reset
<1>3. QED BY <1>1, <1>2, TimerSooner, SoonerStill DEF Kept

LEMMA NotifyMaybeCcaBusyStartInTime ==
  ASSUME IInv, NEW d \in CcaTimes, NotifyMaybeCcaBusyStart(d)
  PROVE  Kept(dev, dev')
<1>1. dev' = [UpdateBackoff(dev) EXCEPT !.busyEnd = now + d] /\ dev \in Devices
      BY DEF NotifyMaybeCcaBusyStart, Becomes, IInv, TypeOK
<1>2. now + d \in Int
      BY EdcaConstants DEF now
<1>3. QED BY <1>1, <1>2, EndSetSooner DEF Kept

LEMMA ExchangeTimeoutInTime ==
  ASSUME IInv, CountInv(dev), NEW n \in 0 .. MaxFrames, NEW c \in Choices, ExchangeTimeout(n, c)
  PROVE  Kept(dev, dev')
<1>1. /\ dev \in Devices /\ phy \in Phys /\ DeviceInv(dev, phy)
      /\ dev' = ExchangeEnds(dev, n, c) /\ dev.phase # "idle" /\ n \in Nat
      BY Constants DEF ExchangeTimeout, Becomes, IInv, TypeOK
<1>2. Underway(dev)
      BY <1>1 DEF DeviceInv, OwnerInv
<1>3. QED BY <1>1, <1>2, EndedInTime DEF Kept

LEMMA EndTxNoAckInTime ==
  ASSUME IInv, CountInv(dev), NEW c \in Choices, EndTxNoAck(c)
  PROVE  Kept(dev, dev')
<1>1. /\ dev \in Devices /\ phy \in Phys /\ DeviceInv(dev, phy)
      /\ dev' = ExchangeEnds(dev, dev.frames[dev.owner] - 1, c) /\ dev.phase # "idle"
      BY DEF EndTxNoAck, Becomes, IInv, TypeOK
<1>2. Underway(dev)
      BY <1>1 DEF DeviceInv, OwnerInv
<1>3. dev.frames[dev.owner] \in Nat /\ dev.frames[dev.owner] > 0
      BY <1>1, <1>2 DEF DeviceInv, OwnerInv, Underway, Devices
<1>4. dev.frames[dev.owner] - 1 \in Nat
      BY <1>3
<1>5. QED BY <1>1, <1>2, <1>4, EndedInTime DEF Kept

LEMMA SendDataAfterCtsInTime ==
  ASSUME IInv, NEW kind \in {"ack", "noack"}, SendDataAfterCts(kind)
  PROVE  Kept(dev, dev')
  BY SendSooner DEF SendDataAfterCts, Becomes, IInv, TypeOK, Kept

LEMMA SendResponseInTime ==
  ASSUME IInv, SendResponse
  PROVE  Kept(dev, dev')
<1> DEFINE sent == [dev EXCEPT !.response = Never]
<1>1. dev' = NotifyTxStartNow(sent) /\ dev \in Devices
      BY DEF SendResponse, Becomes, IInv, TypeOK
<1>2. /\ sent \in Devices /\ sent.requested = dev.requested /\ sent.stranded = dev.stranded
      /\ sent.sleeping = dev.sleeping /\ sent.timer = dev.timer
      BY <1>1 DEF Devices, Event
<1> HIDE DEF sent
<1>3. QED BY <1>1, <1>2, SoonerAlike, TxStartSooner, SoonerStill DEF Kept

LEMMA NotifySleepNowInTime ==
  ASSUME IInv, NotifySleepNow
  PROVE  Kept(dev, dev')
<1> DEFINE d == CancelExchange(dev)
<1>1. dev' = [d EXCEPT !.sleeping = TRUE] /\ dev \in Devices /\ DeviceInv(dev, phy)
      BY DEF NotifySleepNow, Becomes, IInv, TypeOK
<1>2. d \in Devices
      BY <1>1, CancelledBackoffs
<1> HIDE DEF d
<1>3. dev'.sleeping
      BY <1>1, <1>2 DEF Devices
<1>4. QED BY <1>3 DEF Kept

LEMMA NotifySwitchingStartNowInTime ==
  ASSUME IInv, NEW left \in [Txops -> 0 .. MaxFrames], NotifySwitchingStartNow(left)
  PROVE  Kept(dev, dev')
<1>1. /\ dev \in Devices /\ DeviceInv(dev, phy)
      BY DEF IInv, TypeOK
<1>2. CancelExchange(dev) \in Devices
      BY <1>1, CancelledBackoffs
<1>3. dev'.requested = [t \in Txops |-> FALSE]
      BY <1>2 DEF NotifySwitchingStartNow, Becomes, Devices
<1>4. QED BY <1>3 DEF Kept, Fresh

-----------------------------------------------------------------------------
(* CCA is known: but for a report, a channel switch and waking up, nothing *)
(* changes what the manager was told.                                      *)

CcaKept == dev'.busyEnd = dev.busyEnd /\ phy'.cca = phy.cca

LEMMA UpdateKeepsCca ==
  ASSUME NEW d \in Devices
  PROVE  /\ UpdateBackoff(d) \in Devices /\ UpdateBackoff(d).busyEnd = d.busyEnd
         /\ DoRestartAccessTimeoutIfNeeded(d).busyEnd = d.busyEnd
  BY Updated, Restarted DEF Intervals

LEMMA OutcomeKeepsCca ==
  ASSUME NEW d, NEW g, Outcome(d, g)
  PROVE  g.busyEnd = d.busyEnd
  BY DEF Outcome, Quiet, Begins, Intervals

LEMMA QueueKeepsCca ==
  ASSUME IInv, NEW t \in Txops, Queue(t)
  PROVE  CcaKept
<1> DEFINE queued(b) == [BackoffUponAccess(dev, t, b) EXCEPT !.frames[t] = @ + 1]
<1>1. dev \in Devices /\ phy' = phy
      BY DEF IInv, TypeOK, Queue
<1>2. ASSUME NEW b \in Choices
      PROVE  queued(b) \in Devices /\ queued(b).busyEnd = dev.busyEnd
      BY <1>1, PacketQueued DEF Intervals
<1> HIDE DEF queued
<1>3. DrawsOf[t] \subseteq Choices /\ \A b : Offers(AccessRequested(queued(b), t)) \subseteq Choices
      BY OpenChoices
<1>4. ASSUME NEW c \in Choices, dev' = queued(c) PROVE CcaKept
      BY <1>1, <1>2, <1>4 DEF CcaKept
<1>5. ASSUME NEW b \in Choices, NEW c \in Choices, dev' = RequestAccess(queued(b), t, c)
      PROVE  CcaKept
  <2>1. CASE queued(b).sleeping
        BY <1>1, <1>2, <1>5, <2>1 DEF RequestAccess, CcaKept
  <2>2. CASE ~ queued(b).sleeping
    <3>1. Outcome(queued(b), dev')
          BY <1>2, <1>5, <2>2, AccessIsRequested
    <3>2. QED BY <1>1, <1>2, <3>1, OutcomeKeepsCca DEF CcaKept
  <2>3. QED BY <2>1, <2>2
<1>6. QED BY <1>3, <1>4, <1>5 DEF Queue, Becomes, queued

LEMMA AccessTimeoutKeepsCca ==
  ASSUME IInv, AccessTimeout
  PROVE  CcaKept
<1> DEFINE stopped == [dev EXCEPT !.timer = Never]
           d == UpdateBackoff(stopped)
<1>1. PICK c \in Offers(d) : dev' = DoRestartAccessTimeoutIfNeeded(DoGrantDcfAccess(d, c))
      BY DEF AccessTimeout, Becomes
<1>2. c \in Choices /\ phy' = phy
      BY OpenChoices DEF AccessTimeout
<1>3. stopped \in Devices /\ stopped.busyEnd = dev.busyEnd
      BY DEF IInv, TypeOK, Devices, Event
<1> HIDE DEF stopped
<1>4. d \in Devices /\ d.busyEnd = dev.busyEnd
      BY <1>3, UpdateKeepsCca
<1> HIDE DEF d
<1>5. Outcome(d, dev')
      BY <1>1, <1>2, <1>4, GrantedAndTimed
<1>6. QED BY <1>2, <1>4, <1>5, OutcomeKeepsCca DEF CcaKept

LEMMA ReceptionKeepsCca ==
  ASSUME IInv,
         \/ \E d \in RxTimes : RxStart(d)
         \/ RxEndError \/ ReceiveCts \/ ReceiveRequest
         \/ \E d \in NavTimes, rts \in BOOLEAN : NotifyNav(d, rts)
         \/ DoNavResetNow
  PROVE  CcaKept
<1>1. dev \in Devices /\ phy \in Phys
      BY DEF IInv, TypeOK
<1>2. phy'.cca = phy.cca
      BY <1>1 DEF Phys, RxStart, RxEndError, ReceiveCts, ReceiveRequest, NotifyNav, DoNavResetNow,
                  RxEnds
<1>3. CASE \E d \in RxTimes : RxStart(d)
  <2>1. PICK d \in RxTimes : RxStart(d)
        BY <1>3
  <2> DEFINE u == UpdateBackoff(dev)
             started == [u EXCEPT !.rxEnd = now + d, !.rxOk = TRUE]
             acked == [started EXCEPT !.due = now + d, !.ackEnd = now]
             cleared == [started EXCEPT !.due = now + d, !.ctsEnd = now]
  <2>2. \/ dev' = started
        \/ dev' = DoRestartAccessTimeoutIfNeeded(acked)
        \/ dev' = DoRestartAccessTimeoutIfNeeded(cleared)
        BY <2>1 DEF RxStart, Becomes
  <2>3. u \in Devices /\ u.busyEnd = dev.busyEnd
        BY <1>1, UpdateKeepsCca
  <2> HIDE DEF u
  <2>4. now + d \in Int /\ now \in Int /\ now + d \in Event
        BY EdcaConstants DEF now, Event
  <2>5. started \in Devices /\ started.busyEnd = u.busyEnd
        BY <2>3, <2>4 DEF Devices
  <2> HIDE DEF started
  <2>6. acked \in Devices /\ acked.busyEnd = u.busyEnd
        BY <2>4, <2>5 DEF Devices
  <2>7. cleared \in Devices /\ cleared.busyEnd = u.busyEnd
        BY <2>4, <2>5 DEF Devices
  <2> HIDE DEF acked, cleared
  <2>8. QED BY <1>2, <2>2, <2>3, <2>5, <2>6, <2>7, UpdateKeepsCca DEF CcaKept
<1>4. CASE RxEndError
      BY <1>1, <1>2, <1>4 DEF RxEndError, Devices, CcaKept
<1>5. CASE ReceiveCts
  <2> DEFINE reset == [dev EXCEPT !.ctsEnd = now]
             d == DoRestartAccessTimeoutIfNeeded(reset)
  <2>1. dev' = [d EXCEPT !.phase = "sifs", !.due = now + Sifs]
        BY <1>5 DEF ReceiveCts, Becomes
  <2>2. reset \in Devices /\ reset.busyEnd = dev.busyEnd
        BY <1>1 DEF Devices, now
  <2> HIDE DEF reset
  <2>3. d \in Devices /\ d.busyEnd = dev.busyEnd
        BY <2>2, Restarted, UpdateKeepsCca
  <2> HIDE DEF d
  <2>4. QED BY <1>2, <2>1, <2>3 DEF Devices, CcaKept
<1>6. CASE ReceiveRequest
      BY <1>1, <1>2, <1>6 DEF ReceiveRequest, Becomes, Devices, CcaKept
<1>7. CASE \/ \E d \in NavTimes, rts \in BOOLEAN : NotifyNav(d, rts)
           \/ DoNavResetNow
  <2> DEFINE u == UpdateBackoff(dev)
             set(end) == [u EXCEPT !.navEnd = end]
  <2>1. u \in Devices /\ u.busyEnd = dev.busyEnd /\ u.navEnd \in Int
        BY <1>1, UpdateKeepsCca DEF Devices
  <2>2. \E end \in Int : dev' = set(end) \/ dev' = DoRestartAccessTimeoutIfNeeded(set(end))
    <3>1. ASSUME NEW d \in NavTimes, NEW rts \in BOOLEAN, NotifyNav(d, rts)
          PROVE  dev' = set(Later(u.navEnd, now + d)) /\ Later(u.navEnd, now + d) \in Int
      <4>1. dev' = set(Later(u.navEnd, now + d))
            BY <3>1 DEF NotifyNav, Becomes
      <4>2. now + d \in Int
            BY EdcaConstants DEF now
      <4> HIDE DEF u
      <4>3. QED BY <2>1, <4>1, <4>2 DEF Later
    <3>2. ASSUME DoNavResetNow
          PROVE  dev' = DoRestartAccessTimeoutIfNeeded(set(now)) /\ now \in Int
          BY <3>2 DEF DoNavResetNow, Becomes, now
    <3> HIDE DEF set, u
    <3>3. QED BY <1>7, <3>1, <3>2
  <2>3. PICK end \in Int : dev' = set(end) \/ dev' = DoRestartAccessTimeoutIfNeeded(set(end))
        BY <2>2
  <2> HIDE DEF u
  <2>4. set(end) \in Devices /\ set(end).busyEnd = u.busyEnd
        BY <2>1 DEF Devices
  <2> HIDE DEF set
  <2>5. QED BY <1>2, <2>1, <2>3, <2>4, UpdateKeepsCca DEF CcaKept
<1>8. QED BY <1>3, <1>4, <1>5, <1>6, <1>7

LEMMA EndingKeepsCca ==
  ASSUME IInv, CountInv(dev), NEW c \in Choices, Ending(c)
  PROVE  CcaKept
<1>1. dev \in Devices /\ phy \in Phys /\ DeviceInv(dev, phy)
      BY DEF IInv, TypeOK
<1>2. ASSUME NEW d \in Devices, DeviceInv(d, phy), Underway(d), NEW n \in Nat
      PROVE  ExchangeEnds(d, n, c).busyEnd = d.busyEnd
  <2>1. ~ d.sleeping
        BY <1>2 DEF DeviceInv, SleepInv
  <2>2. QED BY <1>1, <1>2, <2>1, ExchangeEnded DEF Intervals
<1>3. CASE \E n \in 0 .. MaxFrames : ReceiveAck(n, c)
  <2>1. PICK n \in 0 .. MaxFrames : ReceiveAck(n, c)
        BY <1>3
  <2> DEFINE reset == [dev EXCEPT !.ackEnd = now]
             d == DoRestartAccessTimeoutIfNeeded(reset)
  <2>2. /\ RxEnds /\ dev.phase = "ack" /\ dev' = ExchangeEnds(d, n, c) /\ n \in Nat
        /\ phy'.cca = phy.cca
        BY <1>1, <2>1, Constants DEF ReceiveAck, Becomes, Phys
  <2>3. d \in Devices /\ DeviceInv(d, phy) /\ Underway(d) /\ reset \in Devices
        BY <2>2, AckResetCounts
  <2>4. d.busyEnd = reset.busyEnd /\ reset.busyEnd = dev.busyEnd
        BY <1>1, <2>3, UpdateKeepsCca DEF Devices
  <2> HIDE DEF reset, d
  <2>5. QED BY <1>2, <2>2, <2>3, <2>4 DEF CcaKept
<1>4. CASE (\E n \in 0 .. MaxFrames : ExchangeTimeout(n, c)) \/ EndTxNoAck(c)
  <2>1. Underway(dev)
        BY <1>1, <1>4 DEF ExchangeTimeout, EndTxNoAck, DeviceInv, OwnerInv
  <2>2. dev.frames[dev.owner] \in Nat /\ dev.frames[dev.owner] > 0
        BY <1>1, <2>1 DEF DeviceInv, OwnerInv, Underway, Devices
  <2>3. dev.frames[dev.owner] - 1 \in Nat /\ 0 .. MaxFrames \subseteq Nat
        BY <2>2, Constants
  <2>4. phy' = phy /\ \E n \in Nat : dev' = ExchangeEnds(dev, n, c)
        BY <1>4, <2>3 DEF ExchangeTimeout, EndTxNoAck, Becomes
  <2>5. QED BY <1>1, <1>2, <2>1, <2>4 DEF CcaKept
<1>5. QED BY <1>3, <1>4 DEF Ending

LEMMA SendingKeepsCca ==
  ASSUME IInv, Sending
  PROVE  CcaKept
<1>1. dev \in Devices /\ phy \in Phys
      BY DEF IInv, TypeOK
<1>2. CASE \E kind \in {"ack", "noack"} : SendDataAfterCts(kind)
  <2>1. PICK kind \in {"ack", "noack"} : SendDataAfterCts(kind)
        BY <1>2
  <2>2. dev' = SendAs(dev, kind) /\ phy'.cca = phy.cca
        BY <1>1, <2>1 DEF SendDataAfterCts, Becomes, Phys
  <2>3. QED BY <1>1, <2>2, Sends DEF CcaKept
<1>3. CASE SendResponse
  <2> DEFINE sent == [dev EXCEPT !.response = Never]
  <2>1. dev' = NotifyTxStartNow(sent) /\ phy'.cca = phy.cca
        BY <1>1, <1>3 DEF SendResponse, Becomes, Phys
  <2>2. sent \in Devices /\ sent.busyEnd = dev.busyEnd
        BY <1>1 DEF Devices, Event
  <2> HIDE DEF sent
  <2>3. QED BY <2>1, <2>2, TxStarted DEF CcaKept
<1>4. QED BY <1>2, <1>3 DEF Sending

LEMMA NotifySleepNowKeepsCca ==
  ASSUME IInv, NotifySleepNow
  PROVE  CcaKept
<1> DEFINE d == CancelExchange(dev)
<1>1. dev' = [d EXCEPT !.sleeping = TRUE] /\ phy'.cca = phy.cca /\ DeviceInv(dev, phy)
      BY DEF NotifySleepNow, Becomes, IInv, TypeOK, Phys
<1>2. d \in Devices /\ d.busyEnd = dev.busyEnd
      BY <1>1, CancelledBackoffs DEF IInv, TypeOK, Intervals
<1> HIDE DEF d
<1>3. QED BY <1>1, <1>2 DEF Devices, CcaKept

LEMMA NotifyMaybeCcaBusyStartKnowsCca ==
  ASSUME IInv, CcaIsKnown(dev, phy), NEW d \in CcaTimes, NotifyMaybeCcaBusyStart(d)
  PROVE  CcaIsKnown(dev', phy')
<1>1. /\ dev \in Devices /\ phy \in Phys
      /\ dev' = [UpdateBackoff(dev) EXCEPT !.busyEnd = now + d]
      /\ phy' = [phy EXCEPT !.cca = Later(@, now + d)]
      BY DEF NotifyMaybeCcaBusyStart, Becomes, IInv, TypeOK
<1>2. UpdateBackoff(dev) \in Devices
      BY <1>1, UpdateKeepsCca
<1>3. dev'.busyEnd = now + d /\ phy'.cca = Later(phy.cca, now + d)
      BY <1>1, <1>2 DEF Devices, Phys
<1>4. phy.cca \in Int /\ now + d \in Int
      BY <1>1, EdcaConstants DEF Phys, now
<1>5. QED BY <1>3, <1>4 DEF CcaIsKnown, Later, now

LEMMA NotifySwitchingStartNowKnowsCca ==
  ASSUME IInv, CcaIsKnown(dev, phy),
         NEW left \in [Txops -> 0 .. MaxFrames], NotifySwitchingStartNow(left)
  PROVE  CcaIsKnown(dev', phy')
<1> DEFINE cut(end) == IF end > now THEN now ELSE end
<1>1. dev \in Devices /\ phy \in Phys /\ DeviceInv(dev, phy)
      BY DEF IInv, TypeOK
<1>2. CancelExchange(dev) \in Devices /\ CancelExchange(dev).busyEnd = dev.busyEnd
      BY <1>1, CancelledBackoffs DEF Intervals
<1>3. dev'.busyEnd = cut(dev.busyEnd)
      BY <1>2 DEF NotifySwitchingStartNow, Becomes, Devices
<1>4. dev.busyEnd \in Int
      BY <1>1 DEF Devices
<1>5. dev'.busyEnd =< now
      BY <1>3, <1>4 DEF now
<1>6. phy'.cca = cut(phy.cca) /\ phy.cca \in Int
      BY <1>1 DEF NotifySwitchingStartNow, Phys
<1>7. QED BY <1>3, <1>4, <1>5, <1>6 DEF CcaIsKnown, Later, now

LEMMA TickKnowsCca ==
  ASSUME IInv, CcaIsKnown(dev, phy), Tick
  PROVE  CcaIsKnown(dev', phy')
<1>1. dev \in Devices /\ phy \in Phys /\ dev.busyEnd \in Int /\ phy.cca \in Int
      /\ LastEnd(dev) \in Int
      BY LastEndIsLast DEF IInv, TypeOK, Devices, Phys
<1>2. dev'.busyEnd = Forget(dev.busyEnd, LastEnd(dev)) /\ phy'.cca = Forget(phy.cca, now + 1)
      BY <1>1 DEF Tick, Devices
<1>3. Oldest \in Int /\ Oldest + Slot < now /\ Slot \in Nat
      BY OldestTime, Constants
<1>4. dev'.busyEnd =< Later(now, phy'.cca)
      BY <1>1, <1>2, <1>3 DEF CcaIsKnown, Later, now, Forget, Older
<1>5. QED BY <1>4 DEF CcaIsKnown

-----------------------------------------------------------------------------
(* Waking up.  Who has been woken has a timer that is in time.             *)

InTimeUpTo(g, n) ==
  /\ g \in Devices /\ CountInv(g) /\ ~ g.sleeping
  /\ \A u \in Txops :
       u =< n /\ g.requested[u] /\ u \notin g.stranded => InTime(g, u, LatestStart(g, u))

LEMMA RestedInTime ==
  ASSUME NEW g, NEW t \in Txops, NEW c \in Choices, InTimeUpTo(g, t - 1)
  PROVE  InTimeUpTo(RestartAccessIfNeeded(Rested(g, t), t, c), t)
<1> DEFINE start == [g.start EXCEPT ![t] = IF g.slots[t] > 0 THEN now ELSE @]
           slots == [g.slots EXCEPT ![t] = 0]
           earned == [g.earned EXCEPT ![t] = 0]
           requested == [g.requested EXCEPT ![t] = FALSE]
           r == Rested(g, t)
           h == RestartAccessIfNeeded(r, t, c)
<1>1. g \in Devices /\ CountInv(g) /\ ~ g.sleeping
      BY DEF InTimeUpTo
<1>2. /\ start \in [Txops -> Int] /\ slots \in [Txops -> Nat] /\ earned \in [Txops -> Nat]
      /\ requested \in [Txops -> BOOLEAN] /\ requested[t] = FALSE
      /\ slots[t] = 0 /\ earned[t] = 0
      /\ \A u \in Txops \ {t} : /\ slots[u] = g.slots[u] /\ start[u] = g.start[u]
                                /\ earned[u] = g.earned[u] /\ requested[u] = g.requested[u]
      BY <1>1 DEF Devices, now
<1>3. r = [g EXCEPT !.start = start, !.slots = slots, !.earned = earned,
                    !.requested = requested]
      BY DEF Rested
<1>4. h \in Devices /\ CountInv(h)
      BY <1>1, RestedCounts
<1> HIDE DEF start, slots, earned, requested, r
<1>5. /\ r \in Devices /\ Intervals(r) = Intervals(g) /\ r.sleeping = g.sleeping
      /\ r.slots = slots /\ r.start = start /\ r.earned = earned /\ r.requested = requested
      /\ r.stranded = g.stranded /\ r.timer = g.timer
      BY <1>1, <1>2, <1>3 DEF Devices, Intervals
<1>6. CountInv(r)
      BY <1>1, <1>2, <1>5, NothingLeftCounts
<1>7. h = r \/ Fresh(h)
      BY <1>1, <1>5, <1>6, RestartedInTime
<1>8. ~ h.sleeping
      BY <1>1, <1>5, AccessIsRestarted DEF Outcome
<1> HIDE DEF h
<1>9. \A u \in Txops : u =< t => u = t \/ u =< t - 1
      BY Constants
<1>10. ASSUME NEW u \in Txops, u =< t, h.requested[u], u \notin h.stranded
       PROVE  InTime(h, u, LatestStart(h, u))
  <2>1. CASE Fresh(h)
        BY <1>10, <2>1 DEF Fresh
  <2>2. CASE h = r
    <3>1. u # t /\ u =< t - 1 /\ g.requested[u] /\ u \notin g.stranded
          BY <1>2, <1>5, <1>9, <1>10, <2>2
    <3>2. InTime(g, u, LatestStart(g, u))
          BY <3>1 DEF InTimeUpTo
    <3>3. LatestStart(r, u) = LatestStart(g, u)
      <4>1. LastEnd(r) = LastEnd(g)
            BY <1>5, SameLastEnd
      <4>2. r.rxOk = g.rxOk /\ r.rxEnd = g.rxEnd /\ r.start[u] = g.start[u]
            BY <1>2, <1>5, <3>1 DEF Intervals
      <4>3. QED BY <4>1, <4>2 DEF LatestStart
    <3>4. QED BY <1>5, <2>2, <3>2, <3>3 DEF InTime
  <2>3. QED BY <1>7, <2>1, <2>2
<1>11. QED BY <1>4, <1>8, <1>10 DEF InTimeUpTo, h, r

LEMMA AllAreInTime ==
  ASSUME IInv, CountInv(dev), NEW c \in Choices,
         NEW f, f = [t \in 0 .. NTxops |->
                       IF t = 0 THEN [dev EXCEPT !.sleeping = FALSE]
                       ELSE RestartAccessIfNeeded(Rested(f[t - 1], t), t, c)]
  PROVE  InTimeUpTo(f[NTxops], NTxops)
<1> DEFINE awake == [dev EXCEPT !.sleeping = FALSE]
           T == {n \in 0 .. NTxops : ~ InTimeUpTo(f[n], n)}
<1>1. NTxops \in Nat
      BY EdcaConstants
<1>2. f[0] = awake
      BY <1>1
<1>3. \A t \in Txops : f[t] = RestartAccessIfNeeded(Rested(f[t - 1], t), t, c)
  <2>1. TAKE t \in Txops
  <2>2. t \in 0 .. NTxops /\ t # 0
        BY <1>1 DEF Txops
  <2>3. QED BY <2>2, Zenon
<1>4. InTimeUpTo(f[0], 0)
  <2>1. dev \in Devices
        BY DEF IInv, TypeOK
  <2>2. /\ awake \in Devices /\ Ends(awake) = Ends(dev) /\ Backoffs(awake) = Backoffs(dev)
        /\ ~ awake.sleeping
        BY <2>1 DEF Devices, Ends, Backoffs
  <2> HIDE DEF awake
  <2>3. CountInv(awake)
        BY <2>1, <2>2, SameCounts DEF Reported
  <2>4. \A u \in Txops : ~ (u =< 0)
        BY <1>1 DEF Txops
  <2>5. QED BY <1>2, <2>2, <2>3, <2>4 DEF InTimeUpTo
<1>5. ASSUME T # {} PROVE FALSE
  <2>1. PICK n \in T : \A k \in T : n =< k
    <3>1. T \subseteq Nat
          BY <1>1
    <3> HIDE DEF T
    <3>2. QED BY <1>5, <3>1, LeastElement
  <2>2. n \in 0 .. NTxops /\ ~ InTimeUpTo(f[n], n)
        OBVIOUS
  <2>3. n \in Txops /\ n - 1 \in 0 .. NTxops /\ ~ (n =< n - 1)
        BY <1>1, <1>4, <2>2 DEF Txops
  <2>4. n - 1 \notin T
    <3> HIDE DEF T
    <3>1. QED BY <2>1, <2>3, Zenon
  <2>5. InTimeUpTo(f[n - 1], n - 1)
        BY <2>3, <2>4
  <2>6. f[n] = RestartAccessIfNeeded(Rested(f[n - 1], n), n, c)
        BY <1>3, <2>3
  <2>7. InTimeUpTo(RestartAccessIfNeeded(Rested(f[n - 1], n), n, c), n)
        BY <2>3, <2>5, RestedInTime, Zenon
  <2>8. QED BY <2>2, <2>6, <2>7, Zenon
<1>6. NTxops \in 0 .. NTxops
      BY <1>1
<1>7. QED BY <1>5, <1>6

(* CCA, reported busy for longer than the manager knew, puts off nothing   *)
(* that is not in time.                                                    *)
LEMMA LaterBusyInTime ==
  ASSUME NEW d \in Devices, Fresh(d), NEW end \in Int, d.busyEnd =< end,
         NEW e \in Devices, e = [UpdateBackoff(d) EXCEPT !.busyEnd = end]
  PROVE  Fresh(e)
<1> DEFINE u == UpdateBackoff(d)
<1>1. /\ u \in Devices /\ Intervals(u) = Intervals(d) /\ Work(u) = Work(d) /\ u.timer = d.timer
      BY Updated
<1>2. \A t \in Txops : u.start[t] = IF GetBackoffStartFor(d, t) > now THEN d.start[t]
                        ELSE GetBackoffStartFor(d, t) + Passed(d, t) * Slot
      BY UpdatedBackoffs
<1>3. e = [u EXCEPT !.busyEnd = end]
      OBVIOUS
<1> HIDE DEF u
<1>4. /\ e.requested = d.requested /\ e.stranded = d.stranded /\ e.timer = d.timer
      /\ e.rxOk = d.rxOk /\ e.rxEnd = d.rxEnd /\ e.txEnd = d.txEnd /\ e.navEnd = d.navEnd
      /\ e.ackEnd = d.ackEnd /\ e.ctsEnd = d.ctsEnd /\ e.switchEnd = d.switchEnd
      /\ e.busyEnd = end /\ e.start = u.start
      BY <1>1, <1>3 DEF Devices, Intervals, Work
<1>5. /\ LastEnd(d) \in Ends(d) /\ LastEnd(d) \in Int /\ LastEnd(e) \in Int
      /\ \A x \in Ends(e) : x \in Int /\ x =< LastEnd(e)
      BY LastEndIsLast
<1>6. LastEnd(d) =< LastEnd(e)
  <2>1. LastEnd(d) \in Ends(e) \/ LastEnd(d) = d.busyEnd
        BY <1>4, <1>5 DEF Ends
  <2>2. end \in Ends(e)
        BY <1>4 DEF Ends
  <2>3. QED BY <1>5, <2>1, <2>2
<1>7. SUFFICES ASSUME NEW t \in Txops, e.requested[t], t \notin e.stranded
               PROVE  InTime(e, t, LatestStart(e, t))
      BY DEF Fresh
<1>8. d.start[t] =< e.start[t] /\ d.start[t] \in Int /\ e.start[t] \in Int
  <2>1. d.start[t] \in Int /\ e.start[t] \in Int
        BY DEF Devices
  <2>2. GetBackoffStartFor(d, t) \in Int /\ GetBackoffStartFor(d, t) >= d.start[t]
    <3>1. GetAccessGrantStart(d) + Aifsn[t] * Slot \in Int
          BY AccessGrantStart, Aifs
    <3>2. QED BY <2>1, <3>1 DEF GetBackoffStartFor, Later
  <2>3. Passed(d, t) * Slot \in Nat
        BY PassedSlots, Constants
  <2>4. QED BY <1>2, <1>4, <2>1, <2>2, <2>3
<1>9. LatestStart(d, t) =< LatestStart(e, t)
  <2> DEFINE aifs == Aifsn[t] * Slot
  <2>1. d.rxEnd \in Int /\ EifsNoDifs \in Int /\ Sifs \in Int /\ aifs \in Int
        BY Aifs, Constants DEF Devices
  <2> HIDE DEF aifs
  <2>2. QED BY <1>4, <1>5, <1>6, <1>8, <2>1 DEF LatestStart, Later, aifs
<1>10. InTime(d, t, LatestStart(d, t))
       BY <1>4, <1>7 DEF Fresh
<1>11. /\ LatestStart(d, t) \in Int /\ LatestStart(e, t) \in Int /\ MaxDraw * Slot \in Int
       /\ d.timer \in Int
       BY LatestStarts, Constants DEF Devices, Event, Never
<1>12. QED BY <1>4, <1>9, <1>10, <1>11 DEF InTime

LEMMA NotifyWakeupNowInTime ==
  ASSUME IInv, CountInv(dev), CcaIsKnown(dev, phy), dev' \in Devices,
         NEW c \in Choices, NotifyWakeupNow(c)
  PROVE  Fresh(dev') /\ CcaIsKnown(dev', phy')
<1>1. PICK f : f = [t \in 0 .. NTxops |->
                      IF t = 0 THEN [dev EXCEPT !.sleeping = FALSE]
                      ELSE RestartAccessIfNeeded(Rested(f[t - 1], t), t, c)]
      BY WokenFunction
<1> DEFINE Woken(g) == g = [t \in 0 .. NTxops |->
                      IF t = 0 THEN [dev EXCEPT !.sleeping = FALSE]
                      ELSE RestartAccessIfNeeded(Rested(g[t - 1], t), t, c)]
           woken == CHOOSE g : Woken(g)
           awake == woken[NTxops]
<1>2. Woken(woken) /\ dev.sleeping
      BY <1>1, Zenon DEF NotifyWakeupNow
<1>3. \E d \in {0} \cup CcaTimes :
        LET cca == Later(phy.cca, now + d)
        IN  /\ phy' = [phy EXCEPT !.cca = cca]
            /\ Becomes(IF cca > now THEN [UpdateBackoff(awake) EXCEPT !.busyEnd = cca]
                       ELSE awake)
      BY Zenon DEF NotifyWakeupNow, Rested
<1>4. AwakeUpTo(awake, NTxops) /\ InTimeUpTo(awake, NTxops)
      BY <1>2, AllAreWoken, AllAreInTime, Zenon
<1> HIDE DEF awake, woken, Woken
<1>5. PICK d \in {0} \cup CcaTimes :
        /\ phy' = [phy EXCEPT !.cca = Later(phy.cca, now + d)]
        /\ dev' = IF Later(phy.cca, now + d) > now
                  THEN [UpdateBackoff(awake) EXCEPT !.busyEnd = Later(phy.cca, now + d)]
                  ELSE awake
      BY <1>3 DEF Becomes
<1>6. awake \in Devices /\ Fresh(awake)
  <2>1. \A t \in Txops : t =< NTxops
        BY EdcaConstants DEF Txops
  <2>2. QED BY <1>4, <2>1 DEF InTimeUpTo, Fresh
<1>7. awake.busyEnd = dev.busyEnd /\ dev.busyEnd \in Int
      BY <1>4 DEF AwakeUpTo, MayHaveBegun, Medium, IInv, TypeOK, Devices
<1> DEFINE cca == Later(phy.cca, now + d)
<1>8. cca \in Int /\ phy.cca \in Int /\ phy.cca =< cca /\ phy'.cca = cca
  <2>1. phy.cca \in Int /\ phy'.cca = cca
        BY <1>5 DEF IInv, TypeOK, Phys
  <2>2. now + d \in Int
        BY EdcaConstants DEF now
  <2>3. QED BY <2>1, <2>2 DEF Later
<1> HIDE DEF cca
<1>9. CASE cca > now
  <2>1. dev' = [UpdateBackoff(awake) EXCEPT !.busyEnd = cca]
        BY <1>5, <1>9 DEF cca
  <2>2. awake.busyEnd =< cca
        BY <1>7, <1>8, <1>9 DEF CcaIsKnown, Later, now
  <2>3. UpdateBackoff(awake) \in Devices
        BY <1>6, UpdateKeepsCca
  <2>4. dev'.busyEnd = cca
        BY <2>1, <2>3 DEF Devices
  <2>5. CcaIsKnown(dev', phy')
        BY <1>8, <2>4 DEF CcaIsKnown, Later, now
  <2>6. QED BY <1>6, <1>8, <2>1, <2>2, <2>5, LaterBusyInTime
<1>10. CASE ~ (cca > now)
  <2>1. dev' = awake
        BY <1>5, <1>10 DEF cca
  <2>2. CcaIsKnown(dev', phy')
        BY <1>7, <1>8, <2>1 DEF CcaIsKnown, Later, now
  <2>3. QED BY <1>6, <2>1, <2>2
<1>11. QED BY <1>9, <1>10

-----------------------------------------------------------------------------
(* Every step.                                                             *)

LEMMA HandlerInTime ==
  ASSUME IInv, CountInv(dev), CcaIsKnown(dev, phy), Next, ~ Tick
  PROVE  Kept(dev, dev') /\ CcaIsKnown(dev', phy')
<1>1. dev' \in Devices /\ dev.owner \in {Nobody} \cup Txops
      BY InvariantStep DEF IInv, TypeOK, Devices
<1>2. CcaKept => CcaIsKnown(dev', phy')
      BY DEF CcaKept, CcaIsKnown, Later, now
<1>3. ASSUME NEW t \in Txops, Expire(t) PROVE CcaKept
      BY <1>3 DEF Expire, Becomes, CcaKept, IInv, TypeOK, Devices
<1>4. CASE \E t \in Txops : Queue(t) \/ Expire(t)
      BY <1>2, <1>3, <1>4, QueueInTime, ExpireInTime, QueueKeepsCca
<1>5. CASE AccessTimeout
      BY <1>2, <1>5, AccessTimeoutInTime, AccessTimeoutKeepsCca
<1>6. CASE \E c \in DrawsOf[dev.owner] : Ending(c)
  <2>1. PICK c \in DrawsOf[dev.owner] : Ending(c)
        BY <1>6
  <2>2. c \in Choices
        BY <1>1, OpenChoices
  <2>3. CcaKept
        BY <2>1, <2>2, EndingKeepsCca
  <2>4. CASE \E n \in 0 .. MaxFrames : ReceiveAck(n, c)
        BY <1>2, <2>2, <2>3, <2>4, ReceiveAckInTime
  <2>5. CASE \E n \in 0 .. MaxFrames : ExchangeTimeout(n, c)
        BY <1>2, <2>2, <2>3, <2>5, ExchangeTimeoutInTime
  <2>6. CASE EndTxNoAck(c)
        BY <1>2, <2>2, <2>3, <2>6, EndTxNoAckInTime
  <2>7. QED BY <2>1, <2>4, <2>5, <2>6 DEF Ending
<1>7. CASE Receiving
  <2>1. CASE \E d \in RxTimes : RxStart(d)
        BY <1>2, <2>1, RxStartInTime, ReceptionKeepsCca
  <2>2. CASE RxEndError
        BY <1>2, <2>2, RxEndErrorInTime, ReceptionKeepsCca
  <2>3. CASE ReceiveCts
        BY <1>1, <1>2, <2>3, ReceiveCtsInTime, ReceptionKeepsCca
  <2>4. CASE ReceiveRequest
        BY <1>2, <2>4, ReceiveRequestInTime, ReceptionKeepsCca
  <2>5. CASE \E d \in NavTimes, rts \in BOOLEAN : NotifyNav(d, rts)
        BY <1>2, <2>5, NotifyNavInTime, ReceptionKeepsCca
  <2>6. CASE DoNavResetNow
        BY <1>2, <2>6, DoNavResetNowInTime, ReceptionKeepsCca
  <2>7. CASE \E d \in CcaTimes : NotifyMaybeCcaBusyStart(d)
        BY <2>7, NotifyMaybeCcaBusyStartInTime, NotifyMaybeCcaBusyStartKnowsCca
  <2>8. QED BY <1>7, <2>1, <2>2, <2>3, <2>4, <2>5, <2>6, <2>7 DEF Receiving
<1>8. CASE Sending
      BY <1>2, <1>8, SendDataAfterCtsInTime, SendResponseInTime, SendingKeepsCca DEF Sending
<1>9. CASE NotifySleepNow
      BY <1>2, <1>9, NotifySleepNowInTime, NotifySleepNowKeepsCca
<1>10. CASE \E c \in Choices : NotifyWakeupNow(c)
       BY <1>1, <1>10, NotifyWakeupNowInTime DEF Kept
<1>11. CASE \E left \in [Txops -> 0 .. MaxFrames] : NotifySwitchingStartNow(left)
       BY <1>11, NotifySwitchingStartNowInTime, NotifySwitchingStartNowKnowsCca
<1>12. QED BY <1>4, <1>5, <1>6, <1>7, <1>8, <1>9, <1>10, <1>11 DEF Next

(* What the history remembers of the latest starts.                        *)
LEMMA LatestIsHeard ==
  ASSUME IInv, Next, ~ Tick, NEW t \in Txops
  PROVE  heard'.until[t] = Later(heard.until[t], LatestStart(dev', t))
<1>1. heard \in [busy : Int, bad : Int, until : [Txops -> Int]]
      BY DEF IInv, TypeOK
<1>2. Heard(dev').until[t] = Later(heard.until[t], LatestStart(dev', t))
      BY <1>1 DEF Heard
<1>3. ASSUME NEW d, Becomes(d) PROVE heard'.until = Heard(dev').until
      BY <1>3 DEF Becomes
<1>4. CASE RxEndError
  <2>1. heard' = [Heard(dev') EXCEPT !.bad = now + EifsNoDifs]
        BY <1>4 DEF RxEndError
  <2>2. heard'.until = Heard(dev').until
        BY <1>1, <2>1 DEF Heard
  <2>3. QED BY <1>2, <2>2
<1>5. CASE (\E t2 \in Txops : Queue(t2) \/ Expire(t2)) \/ AccessTimeout
      BY <1>2, <1>3, <1>5 DEF Queue, Expire, AccessTimeout
<1>6. CASE \E c \in DrawsOf[dev.owner] : Ending(c)
      BY <1>2, <1>3, <1>6 DEF Ending, ReceiveAck, ExchangeTimeout, EndTxNoAck
<1>7. CASE Receiving /\ ~ RxEndError
      BY <1>2, <1>3, <1>7
         DEF Receiving, RxStart, ReceiveCts, ReceiveRequest, NotifyNav, DoNavResetNow,
             NotifyMaybeCcaBusyStart
<1>8. CASE Sending
      BY <1>2, <1>3, <1>8 DEF Sending, SendDataAfterCts, SendResponse
<1>9. CASE NotifySleepNow
      BY <1>2, <1>3, <1>9 DEF NotifySleepNow
<1>10. CASE \E c \in Choices : NotifyWakeupNow(c)
       BY <1>2, <1>3, <1>10 DEF NotifyWakeupNow
<1>11. CASE \E left \in [Txops -> 0 .. MaxFrames] : NotifySwitchingStartNow(left)
       BY <1>2, <1>3, <1>11 DEF NotifySwitchingStartNow
<1>12. QED BY <1>4, <1>5, <1>6, <1>7, <1>8, <1>9, <1>10, <1>11 DEF Next

LEMMA KeptInTime ==
  ASSUME IInv, TimerIsInTime(dev, heard), dev' \in Devices, Kept(dev, dev'),
         \A t \in Txops : heard'.until[t] = Later(heard.until[t], LatestStart(dev', t))
  PROVE  TimerIsInTime(dev', heard')
<1>1. SUFFICES ASSUME NEW t \in Txops, dev'.requested[t], ~ dev'.sleeping, t \notin dev'.stranded
               PROVE  InTime(dev', t, heard'.until[t])
      BY DEF TimerIsInTime
<1>2. /\ dev.timer \in Int /\ dev'.timer \in Int
      /\ heard.until[t] \in Int /\ LatestStart(dev', t) \in Int /\ MaxDraw * Slot \in Int
      BY LatestStarts, Constants DEF IInv, TypeOK, Devices, Event, Never
<1>3. /\ heard.until[t] =< heard'.until[t] /\ LatestStart(dev', t) =< heard'.until[t]
      /\ heard'.until[t] \in Int
      BY <1>2 DEF Later
<1>4. CASE Sooner(dev, dev')
  <2>1. InTime(dev, t, heard.until[t])
        BY <1>1, <1>4 DEF Sooner, TimerIsInTime
  <2>2. QED BY <1>2, <1>3, <1>4, <2>1 DEF Sooner, InTime
<1>5. CASE Fresh(dev')
  <2>1. InTime(dev', t, LatestStart(dev', t))
        BY <1>1, <1>5 DEF Fresh
  <2>2. QED BY <1>2, <1>3, <2>1 DEF InTime
<1>6. QED BY <1>1, <1>4, <1>5 DEF Kept

LEMMA TickInTime ==
  ASSUME IInv, TimerIsInTime(dev, heard), Tick
  PROVE  TimerIsInTime(dev', heard')
<1>1. /\ dev \in Devices /\ dev.timer \in Event
      /\ dev'.requested = dev.requested /\ dev'.sleeping = dev.sleeping
      /\ dev'.stranded = dev.stranded /\ dev'.timer = Nearer(dev.timer)
      BY DEF Tick, IInv, TypeOK, Devices
<1>2. SUFFICES ASSUME NEW t \in Txops, dev.requested[t], ~ dev.sleeping, t \notin dev.stranded
               PROVE  InTime(dev', t, heard'.until[t])
      BY <1>1 DEF TimerIsInTime
<1>3. InTime(dev, t, heard.until[t])
      BY <1>2 DEF TimerIsInTime
<1>4. dev.timer \in Nat /\ dev.timer > now
      BY <1>1, <1>3 DEF InTime, Event, Tick, Scheduled
<1>5. dev'.timer = dev.timer - 1 /\ dev'.timer # Never
      BY <1>1, <1>4 DEF Nearer, Never, now
<1>6. heard'.until[t] = Older(heard.until[t]) /\ heard.until[t] \in Int
      BY <1>2 DEF Tick, IInv, TypeOK
<1>7. heard'.until[t] \in Int /\ heard'.until[t] >= heard.until[t] - 1
      BY <1>6, Constants DEF Older
<1>8. MaxDraw * Slot \in Int
      BY Constants
<1>9. QED BY <1>3, <1>4, <1>5, <1>6, <1>7, <1>8 DEF InTime

LEMMA TimerStep ==
  ASSUME IInv, CountInv(dev), TimerInv, [Next]_vars
  PROVE  TimerInv'
<1>1. dev' \in Devices
      BY InvariantStep DEF IInv, TypeOK
<1>2. CASE UNCHANGED vars
      BY <1>2 DEF vars, TimerInv, TimerIsInTime, InTime, CcaIsKnown, Later, now
<1>3. TimerIsInTime(dev', heard') /\ CcaIsKnown(dev', phy') => TimerInv'
      BY DEF TimerInv, TimerIsInTime, InTime, CcaIsKnown, Later, now
<1>4. CASE Tick
      BY <1>3, <1>4, TickInTime, TickKnowsCca DEF TimerInv
<1>5. CASE Next /\ ~ Tick
      BY <1>1, <1>3, <1>5, HandlerInTime, LatestIsHeard, KeptInTime DEF TimerInv
<1>6. QED BY <1>2, <1>4, <1>5

LEMMA InitialTimer ==
  ASSUME Init
  PROVE  TimerInv
<1>1. phy.cca = now /\ dev.busyEnd = now /\ \A t \in Txops : ~ dev.requested[t]
      BY DEF Init
<1>2. QED BY <1>1 DEF TimerInv, TimerIsInTime, CcaIsKnown, Later, now

-----------------------------------------------------------------------------
(* However intervals begin, are cut short or overwritten while a Txop      *)
(* waits, DoRestartAccessTimeoutIfNeeded keeps the one timer of the        *)
(* manager such that no Txop still waits when the longest backoff has      *)
(* passed since the latest instant from which its backoff could be         *)
(* counted.                                                                *)
THEOREM AccessComesInTime == Spec => []AccessIsBounded
<1>1. Init => CountInv(dev) /\ TimerInv
      BY InitialCounts, InitialTimer
<1>2. IInv /\ HeardInv /\ CountInv(dev) /\ TimerInv /\ [Next]_vars =>
        CountInv(dev)' /\ TimerInv'
      BY CountStep, TimerStep
<1>3. IInv /\ TimerInv => AccessIsBounded
  <2>1. SUFFICES ASSUME IInv, TimerInv, NEW t \in Txops,
                        dev.requested[t], ~ dev.sleeping, t \notin dev.stranded
        PROVE  now =< heard.until[t] + MaxDraw * Slot
        BY DEF AccessIsBounded
  <2>2. InTime(dev, t, heard.until[t])
        BY <2>1 DEF TimerInv, TimerIsInTime
  <2>3. /\ dev.timer \in Event /\ heard.until[t] \in Int /\ MaxDraw * Slot \in Int
        BY <2>1, Constants DEF IInv, TypeOK, Devices
  <2>4. QED BY <2>2, <2>3 DEF InTime, Event, now
<1>4. QED BY <1>1, <1>2, <1>3, ContentionInvariant, MediumIsKnown, PTL DEF Spec

=============================================================================
