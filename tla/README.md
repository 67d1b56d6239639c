# Verification of dynamic time multiplexing between Wi-Fi and LTE-LAA

The repository is a copy of ns-3.32 with a research program on top of it:
`src/ns-3.32/src/wifi/examples/test-uvigo.cc` simulates one 802.11ac BSS that
shares an unlicensed channel with LTE-LAA by *dynamic time multiplexing* (DTM).
An orchestrator tells the access point (AP) when its window starts; the AP must
stop in time, reserve the medium for LAA with a CTS, and stay quiet. The
functions that make it do so were added to `MacLow` in
`src/ns-3.32/src/wifi/model/mac-low.cc`. This directory holds TLA+ models of that
coordination, of the parts of the ns-3 Wi-Fi MAC that it leans on, and of the
program that runs the tests, TLC runs that check them on small instances, and
TLAPS proofs about them. Source paths
below are relative to `src/ns-3.32/src/` unless they start with `src/`.

## 1. Inventory

| component | state | operations | interacts with |
|---|---|---|---|
| Orchestrator (`wifi/examples/test-uvigo.cc`) | next start time | `StartNotificationApp`, `NotifyWifiAps` | sends UDP notifications to the AP; reads nothing back |
| DTM functions of the AP (`test-uvigo.cc`, `wifi/model/mac-low.cc`) | `endOfTransmissionWindow`, scheduled `ReserveMedium` events | `NotificationReceivedByWifiAp`, `setEndOfTransmissionWindow`, `ReserveMedium`, `IsWithinSizeAndTimeLimits` | the MAC's transmissions, the PHY, the NAV |
| `MacLow` (`mac-low.cc`) | current packet and Txop, timeouts, scheduled responses, NAV, recipient block ack state | `StartTransmission`, `ReceiveOk`, `CtsTimeout`, `SendDataAfterCts`, ... | PHY (callbacks), Txop (callbacks), channel access managers |
| `QosTxop` / `Txop` (`qos-txop.cc`, `txop.cc`) | queue, current packet, access request, contention window, backoff | `Queue`, `NotifyAccessGranted`, `GotAck`, `MissedAck`, ... | channel access manager, `MacLow`, block ack manager |
| `ChannelAccessManager` | last busy, Rx, Tx, NAV, switching and timeout intervals | `RequestAccess`, `AccessTimeout`, notifications | every Txop of the device, PHY listener |
| `BlockAckManager` (originator) | agreements, outstanding and retransmission queues, BARs | `NotifyGotBlockAck`, `NotifyMissedBlockAck`, ... | `QosTxop` |
| Recipient block ack (`mac-low.cc`, `block-ack-cache.cc`) | reorder buffer, bitmap, window | `StoreMpduIfNeeded`, `RxCompleteBufferedPackets...` | upper MAC |
| `WifiMacQueue` | queued MPDUs with time stamps | `Enqueue`, `Dequeue...`, expiry | Txop |
| PHY (`wifi-phy.cc`, `wifi-phy-state-helper.cc`) | state, current event | `Send`, reception, sleep, off, switching | `MacLow`, listeners |
| Association (`sta-wifi-mac.cc`, `ap-wifi-mac.cc`) | association state, beacon timers | probe, associate, beacon watchdog | Txop |
| Event simulator (`core/model/default-simulator-impl.cc`) | event list, clock | `Schedule`, `Run` | everything |
| Test runner (`src/ns-3.32/test.py`) | two queues, worker threads, jobs, counters, XML report | `run_tests`, `worker_thread.run`, `run_job_synchronously`, `sigint_hook` | the processes of the suites and examples |
| Analytical model (`src/analytical model/*.py`) | none | numeric throughput formulas | nothing |

Hard behaviour. The simulator runs in one thread on simulated time, so there are
no data races; what is hard is the order of events that are due at nearly the same
time. The window is one time for the whole AP, absent before the first
notification and stale between cycles; a notification can arrive while a PPDU
that was checked against the old value is on the air; the station knows nothing
of the window; the reservation is pushed into a MAC that may be in the middle of
a frame exchange. Below that, the channel access manager reconstructs from the
last interval of every kind what it could have counted while it happened; the
two ends of a block ack agreement keep four windows modulo 4096 in step over a
channel that loses frames and answers. `test.py` is the one concurrent program:
threads, queues, SIGINT and exceptions. `PROJECT.json` lists the hazards with their source lines.

What makes each component correct:

- DTM: a QoS data exchange ends with the window; nothing of it touches the slot
  left to LAA; every cycle's reservation goes out promptly; the AP is quiet
  afterwards; the PHY is free whenever the MAC uses it.
- `QosTxop`: no frame is lost or sent after it was given up; as long as there is
  something to send, access to the channel is requested or an exchange is under way.
- `ChannelAccessManager`: no grant while the medium is busy or before the
  arbitration time; the highest priority wins; a backoff counts idle slots only.
- Block ack: the upper layer gets every frame at most once and in order; both
  windows move together although frames and answers are lost.
- `test.py`: every test gets one verdict, success is reported only if all of them
  earned it, the run ends.
- `WifiMacQueue`: bounded, first come first served per receiver and TID, nothing
  expired is handed out.

## 2. Plan

Modules in the order in which they were written.

1. `DtmCoordination` with its abstract promise `MediumSharing`, `MCDtm`,
   `DtmProofs`: the coordination itself.
2. `QosTxopAccess`, `MCTxop`, `TxopProofs`: one EDCA function, the
   life of a frame through queue, current packet, block ack set-up and
   retransmission, with and without the window.
3. `EdcaContention`, `MCEdca`, `EdcaProofs`, `EdcaTimeProofs`, `EdcaBackoffProofs`: the
   channel access manager with several Txops, and what drives it in `MacLow` and the PHY.
4. `TestRunner` with its abstract promise `TestCampaign`, `MCRunner`,
   `RunnerProofs`: the test runner.
5. `BlockAckSession` with its abstract promise `OrderedDelivery`, `MCBlockAck`,
   `BlockAckLemmas`, `BlockAckProofs`: the two ends of a block ack agreement.

Left, in this order: the lookups of `WifiMacQueue` with their iterators; the TXOP
limit (`StartNextPacket`); association.

## 3. What is modelled

### DtmCoordination

State and code: `now` is `Simulator::Now`; `nextStart` the pending
`StartNotificationApp` event; `notifications` the UDP packets under way;
`windowEnd` is `MacLow::endOfTransmissionWindow`; `reservations` the pending
`ReserveMedium` events (`due` the time the handler scheduled, `at` the next poll);
`apFrame`, `staFrame` what each PHY transmits; `apResponse`, `staResponse` the
pending `m_sendDataEvent`, `m_sendAckEvent`, `m_sendCtsEvent`; `apNavEnd`,
`staNavEnd` are `m_lastNavStart + m_lastNavDuration`; `assertFailed` is set when
`WifiPhy::Send` would assert.

| action | code |
|---|---|
| `StartNotificationApp` | `test-uvigo.cc` 53-62 |
| `NotificationReceivedByWifiAp` | `test-uvigo.cc` 63-78 |
| `StartQosData`, `StartGroupQosData`, `StartOther` | `MacLow::StartTransmission`, `QosTxop::NotifyAccessGranted`, on an access grant |
| `ReserveMedium` | `MacLow::ReserveMedium` |
| `ApRespond`, `StaRespond` | `SendDataAfterCts`, `SendAckAfterData`, `SendCtsAfterRts` |
| `ApFrameEnds`, `StaFrameEnds` | `MacLow::ReceiveOk` of the other side |
| `StaUplink` | an access grant of the station |
| `Tick` | the clock of the simulator, which never passes a due event |

Abstractions. A PPDU is its kind and its time on air; whether it is received
depends only on collisions. A channel access is possible whenever the medium was
idle for `Ifs > Sifs` and the own NAV is over; backoff only delays it, so every
schedule of the program is a schedule of the model. Events of one instant happen
in any order. TXOP limits are zero, the default of AC_BE. One tick stands for
about 18 microseconds, and for the nanosecond at which `ReserveMedium` polls.

`Next` stops when an assertion has failed: the program is gone then. Nothing
else can stop it but the bound on the clock, so the runs disable TLC's deadlock
check.

### MediumSharing

The abstract promise: the medium belongs to Wi-Fi, then to nobody (while the
reservation is sent), then to LAA, and a QoS data exchange lies within one turn
of Wi-Fi. `DtmCoordination!SharesTheMedium` instantiates it with `owner` computed
from the clock and the start of the next cycle, and `exchange` from the frames on
the air and the answers that are due.

### QosTxopAccess

One EDCA function of the AP, one station, one TID, and group addressed frames.
State and code: `queue` is `m_queue`; `current` is `m_currentPacket` with its
header; `accessRequested` is `m_accessRequested`; `retries` the station
manager's `m_ssrc` of the access category; `expired` the frames whose time stamp
is older than `MaxDelay`; `ba` what the block ack manager holds: the frames that
have a sequence number in that order, the retransmit queue, the outstanding
MPDUs, and a BAR that is scheduled (`"skip"`: only if data follows). `agreement`,
`blocked`, `addBaTimer` and `resetTimer` are the state of the ADDBA handshake,
`exchange` is what `MacLow` is doing for this Txop.

| action | code |
|---|---|
| `Queue`, `QueueOverflow` | `Txop::Queue`, `WifiMacQueue::Insert`, then `QosTxop::StartAccessIfNeeded` |
| `Expire` | time passing `MaxDelay` of a frame |
| `NotifyAccessGranted`: `SendHeld`, `SendBar`, `NothingToSend`, `SendAddBaRequest`, `SendData`, `SendGroup` | `QosTxop::NotifyAccessGranted` with `MacLow::StartTransmission`, by what there is to send |
| `CtsReceived`, `NotifyMissedCts` | `SendDataAfterCts`, `CtsTimeout` |
| `GotAck`, `MissedAck`, `GotBlockAck`, `MissedBlockAck`, `EndTxNoAck` | the handlers of the same names, with `TerminateTxop` and `RestartAccessIfNeeded` |
| `AddBaResponseTimeout`, `ResetBa`, `GotAddBaResponse`, `ResponseIsLost` | the ADDBA handshake and its timers |
| `NotifyInternalCollision` | the handler of that name |

Every handler ends with its call of `RestartAccessIfNeeded` or
`StartAccessIfNeeded`, and these include the clean-up of expired frames that
`HasPackets` and `IsEmpty` perform.

Abstractions. Sequence numbers are the order of unfinished frames; the transmit
window of the block ack agreement is never the limit. Sizes and airtimes are the
number of MPDUs that fit when access is granted, zero only where the window of
the program is in use. Backoff, contention window and rates are left out. The
TXOP limit is zero (AC_BE), so `StartNextPacket` does not occur; there is no
fragmentation, no A-MSDU, no DELBA and no inactivity timeout (test-uvigo.cc sets
none of them). A name of an MSDU may be used again when the MSDU has left.

An ADDBA response is handled between two exchanges of the AP or, with
`ResponsesOverlap`, while the AP waits for an answer: a station that missed what the
AP sent may send its response then, and `RxStartIndication` (mac-low.cc 609-660) puts
the timeout off until just after that reception. The response takes a data frame
that is on the air from QosTxop, and the timeout that follows finds no packet
(`txop_response`, see findings). The program has asserted then, so no handler of the
model goes on from a missing packet. A second response, under an agreement that is
established, does another harm that the model shows: an MPDU may be both outstanding
and to be sent again. The other runs therefore keep to `ResponsesOverlap = FALSE`,
and section 5 says which theorems need that.

### EdcaContention

One device: the channel access manager, its Txops by priority, `MacLow` as the
manager and the Txops see it, and the reports of the PHY. `dev` holds the `m_last...`
intervals (by their ends), `m_accessTimeout` (`timer`), `m_accessRequested`,
`m_backoffSlots` and `m_backoffStart` of each Txop, the number of frames it has
(queue, current packet and retransmit queue together), and the exchange of
`MacLow` (`owner`, `phase`, `due`, `response`); `phy` the reception under way, the
end of CCA busy, and the NAV with its reset event. A handler that calls others is
a composition of functions on `dev`, so that a grant inside `RequestAccess`, say,
is one step as in the program.

| action | code |
|---|---|
| `Tick` | the clock, which never passes a due event |
| `Queue`, `Expire` | `Txop::Queue` with `NeedBackoffUponAccess` and `RequestAccess`; a lifetime |
| `AccessTimeout` | `ChannelAccessManager::AccessTimeout` with `DoGrantDcfAccess`, `NotifyAccessGranted`, `NotifyInternalCollision`, `StartTransmission` |
| `ReceiveAck`, `ExchangeTimeout`, `EndTxNoAck` | the ends of an exchange, with the backoff drawn and `RestartAccessIfNeeded` |
| `RxStart`, `RxEndError`, `ReceiveCts`, `ReceiveRequest`, `NotifyNav`, `DoNavResetNow`, `NotifyMaybeCcaBusyStart` | what the PHY and `MacLow` report |
| `SendDataAfterCts`, `SendResponse` | `MacLow`'s events a SIFS after a reception |
| `NotifySleepNow`, `NotifyWakeupNow`, `NotifySwitchingStartNow` | the handlers of those names with `CancelAllEvents` |

Abstractions. Times are relative to the present, and forgotten when they cannot
matter any more, so the clock has no bound. A reception ends when it was announced
to end, since `SwitchFromRxEndError` asserts it (wifi-phy-state-helper.cc 495) and a
reception that is given up is reported by `NotifyRxEndOk` (589-611): the branch of
`NotifyRxEndErrorNow` for an earlier end (channel-access-manager.cc 569-573) is not
reached. The contention window is the bound
`MaxDraw` on every draw: it does not grow, and any draw may be any number of
slots. Frames are a number; whether a frame fits into the Wi-Fi window, whether
it is answered and how many are left after a BlockAck is open. `heard`, `earned`
and `stranded` are history. `MacLow` hears of a
frame after its PHY header, which is longer than a SIFS (`FramesAreLong`): a timeout
that is due when a frame starts is not put off by it (`Awaits`). Left out:
`NotifyOffNow` and `NotifyOnNow`, PCF, CTS-to-self, fragments, TXOP limits, CCA reports during a preamble, and a second
NAV reset event (the code overwrites the handle of one that was not cancelled).

`stranded` marks two cases in which the code waits for some later event. A loser of
an internal collision that draws zero slots, to a winner that sends nothing, gets
no timer, since `DoRestartAccessTimeoutIfNeeded` looks at backoffs that end in the
future only; and a channel switch flushes the queues and the requests but not the
retransmit queues. `RequestIsTimed` and `WorkIsRequested` exclude these by name.

### TestRunner

`main` is the place of the main thread in `run_tests`; `input` and `output` are the
two queues, `worker` and `holds` the threads and their jobs, `thread_exit` the flag
that `sigint_hook` sets; `isBreak`, `returncode` and `file` what a worker leaves in
a job, `ran` how its process really ended; `collected`, `count` and `report` what
the result loop keeps. A job is its number; suites come before examples.

| action | code (`test.py`) |
|---|---|
| `ListSuites`, `Dispatch`, `DispatchRaises`, `DispatchBreaks` | `run_tests` up to the break jobs |
| `Stop`, `HandBack`, `Skip`, `Launch`, `Finish`, `WorkerDies` | `worker_thread.run`, `run_job_synchronously` |
| `Interrupt` | `sigint_hook` |
| `CollectBreak`, `CollectResult`, `Return`, `ExitAfterException` | the result loop, the joins and the outcome |

`TestCampaign` is its promise without threads and queues: every test that is asked
for gets one verdict that never changes, and success means that every one of them
is good. An XML file is whole, a part, or none. Left out: options, building, the
choice of tests, and the translation of the report to text and HTML.

Read beside the code, and kept as the code has it: the comment at 1829-1833
promises a `VALGR` entry for a suite with a valgrind error, but the code at 1844
appends the suite's own file alone, which shows a pass (the exit code is right);
output that cannot be decoded replaces the exit code by 1 (813-824), so that a
crashed suite with such output has its truncated file appended, which the comment
at 1825 excludes (`runner_report`); the exit code of the process
that lists the suites is not looked at (1346), so that if it crashes there are
no suites to run; a `Popen` that raises loses its job and an example condition
that raises sends no break jobs, and either run hangs.

### BlockAckSession

The two ends of an established agreement for one TID. `orig` is the originator's:
`m_txWindow` (its start and the marks), the outstanding frames and the retransmit
queue of `BlockAckManager`, and the BAR of `m_bars`; `heldBar` a BAR that is
`m_currentPacket`. `rcpt` is the recipient's: starting sequence number and buffer of
`m_bAckAgreements`, window and bitmap of `BlockAckCache`, and the latest MSDUs that
were passed up. An MSDU is its place in the queue and its number that place modulo
`SeqSpace`; the code sees the number, the properties the place.

| action | code |
|---|---|
| `Queue`, `Expire` | `Txop::Queue` with its look-ups; a lifetime |
| `SendHeldBar`, `SendBar`, `SendData` | `NotifyAccessGranted` with `PeekNextFrame`, `GetNextAmpdu`, `UpdateTxParams`, `SendDataPacket`, `CompleteMpduTx` |
| `ReceiveData` | `DeaggregateAmpduAndReceive`, `ReceiveOk`, `ReceiveMpdu`, `SendBlockAckAfterAmpdu`, for any part of the MPDUs |
| `ReceiveBar`, `BarIsLost` | `ReceiveOk` of a BAR, `SendBlockAckAfterBlockAckRequest` |
| `GotAck`, `GotBlockAck`, `EndTxNoAck`, `MissedAck`, `MissedBlockAck` | the handlers of these names in `QosTxop` and `BlockAckManager`, with `RestartAccessIfNeeded` |

Any answer may be lost, since `MissedAck` and `MissedBlockAck` are possible
whenever one is awaited. Every end of an exchange and every arrival includes the
look-ups of `HasPackets`, which remove what has expired, move the window and
schedule BARs. `OrderedDelivery` is the promise: MSDUs are passed up in the order
of their numbers, none twice.

Abstractions. Retries are not counted: any missed Ack may be the last. Frames
expire in the order of their arrival. The recipient's delivered MSDUs are kept as
far back as confusion is possible. The attributes of the acknowledgement policy
may change from frame to frame; `UseExplicitBarAfterMissedBlockAck` is true, the
default. Left out: RTS/CTS, set-up
(it is in `QosTxopAccess`), tear-down, inactivity, fragments, A-MSDU. The
assumption `4 * WinSize < SeqSpace` holds for the buffer sizes of the standard, 64
and 256 of 4096.

## 4. Runs

### DtmCoordination

These runs use `MCDtm`: cycles of 10 ticks of Wi-Fi, 2 for the reservation, 7 of
LAA, a first start at 2, deliveries delayed by up to 2 ticks, PPDUs of 2 and 5
ticks (one that fits almost always, one that takes half the window), beacons of
3, and a clock up to 44: two whole cycles and the start of a third, after which
the state repeats with shifted times. `dtm_overrun` has a window of 19, of which
9 are kept for the reservation, so that the overrun of 8 is seen to matter.

| run | question | result |
|---|---|---|
| `dtm_downlink` | default scenario, no uplink frames, no RTS | everything holds, also that reservations are due at the right time, that the PHY is free, and the refinement |
| `dtm_overrun` | `--useRts`, frames that the station sends on its own, and an answer longer than the 36 us kept for it | data outlives the window by at most that much, and stays out of LAA's slot because that is less than the time kept for the reservation; the AP is quiet after its reservation |
| `dtm_phy_assert` | is the PHY free when the MAC sends? | violated: see findings |

The properties: `TypeOK`; `QosDataEndsInTime` (a QoS exchange is over at the end
of the window plus the documented overrun); `QosDataClearOfLaa` (an overrun shorter
than the time kept for the reservation leaves LAA's slot alone);
`ReservationsAreDue` (a notification, however delayed, arrives before the
reservation it asks for is due, so that `Schedule` gets no negative delay; what it
schedules is due when the Wi-Fi window of its cycle ends, and is neither tried before
that nor passed over);
`ReservationIsTimely` (late by at most the one frame in the way, never
cumulatively); `QuietAfterReservation` (nothing but answers until the last
`CtsDuration` of the slot: the NAV counts from the start of the CTS, the slot
from its nominal end); `PhyIsFreeWhenSending`; `SharesTheMedium`. No liveness is
claimed for this module: time is explicit, and lateness is bounded by safety
properties instead. No fairness is assumed.

### QosTxopAccess

These runs use `MCTxop`: two MSDUs for the station (three in `txop_adverse`) and
one group frame, a queue of two, A-MPDUs of up to two (three) MPDUs, one or two
retries. Two MSDUs are enough for an A-MPDU of which one part is acknowledged and
the other is not, for a queue that is full, and for a frame that overtakes
another; more retries repeat the same steps.

| run | question | result |
|---|---|---|
| `txop_plain` | lost frames and answers, RTS, ADDBA failures, group frames | all properties hold, with liveness |
| `txop_adverse` | PPDUs that do not fit the window, internal collisions | no frame is in two places or nowhere; a new agreement takes over held data |
| `txop_stall` | is a held frame that does not fit tried again? | violated: see findings |
| `txop_blocked` | does the blocking of a station end, with internal collisions? | violated: see findings |
| `txop_response` | does an answer, or its timeout, find the packet it is about, when a response comes in between? | violated: see findings |

The properties: `InOnePlace` (a frame is in exactly one of queue, current packet,
retransmit queue, or on the way); `WorkIsScheduled` (an idle MAC with something
to send has asked for access); `OutstandingIsCovered` (between exchanges a BAR
will ask about every outstanding MPDU); `PendingIsResolved` (a pending agreement
has a request or a timer that will settle it); `HeldIsNotUnderAgreement` (the
assertion at qos-txop.cc 519); `AnswerFindsPacket` (the handler of an answer or a
timeout uses a packet that is there); `NothingIsForgotten` (a frame
disappears only when it expires or after it was handed to `MacLow`);
`EveryMsduLeaves` and `BlockingEnds` (liveness).

Fairness: an access that is requested is granted, an exchange ends, scheduled
timers fire, a response is received or lost, and lifetimes end. All are events
that the simulator has in its list, or time itself. Nothing is assumed about the
radio link: every frame and every answer may be lost every time.
`SaturatedSpec`, used by the run that shows a stall, also lets MSDUs arrive
again and again and some grants find room for an A-MPDU, so that neither a silent
source nor an unlucky phase of the window can be blamed.

`txop_adverse` disables the deadlock check, because QosTxop really may stop (see
the first finding below). `WorkIsScheduled` is not claimed there: when a frame
does not fit, `StartTransmission` returns and access is next requested by the
arrival of an MSDU. `OutstandingIsCovered` and the liveness properties are not
claimed with internal collisions, since those may discard a BAR or an ADDBA
request; outstanding MPDUs are then repaired by the BAR that follows the next
data frame.

### EdcaContention

`edca` has a plain DCF of high priority and one EDCA function, with different
AIFSN, an EIFS that is two slots longer than AIFS, draws of 0 or 1 slot, up to two frames each, and three events from outside
(packets, lifetimes, receptions, CCA reports, sleep, switch); frames that arrive
while an answer is awaited are not counted. Three events are enough for two
intervals that overlap, are cut short or extended while a request waits; the theorems
of section 5 hold for any number.

The properties: `GrantsWait` (an exchange starts only when the medium was idle for
AIFS, or AIFS after EIFS); `NoInterruption` (no step sends over the device's own
frame, and an exchange or a due answer ends by its own events, sleep or a switch
only); `BackoffCountsIdleSlots` (no more slots are taken off a backoff than passed
with the medium idle for AIFS or more); `RequestIsTimed`, `AccessIsBounded` (a request has
its timer, and is granted, or loses a collision, within the longest backoff of the latest
instant from which, since it was made, its backoff could be counted: `LatestStart`, AIFS
after the last end of an interval or the EIFS of a bad frame, or the start of the backoff
if that is later);
`WorkIsRequested`. Time is explicit, so liveness is stated as bounds and no
fairness is assumed. The absence of deadlock says that the clock is never held up by
an event that is due and cannot happen.

`GrantsWait` is about the medium as it was reported: a CCA report that ends before
an earlier one overwrites it (channel-access-manager.cc 603), so a grant may come
while the PHY is still busy; and time asleep counts as idle.

`BackoffCountsIdleSlots` asks for AIFS only, since slots within the EIFS of a bad
frame may be counted (see findings).

### TestRunner

`test_runner` has two suites, two examples of which one is skipped, two workers,
SIGINT at any time and one exception: two workers are enough for jobs that come
back in another order, and for one that dies or leaves while the other works.
`JobsInOnePlace`, `SuccessIsEarned`, `Terminates` (unless an
exception ended a worker or the dispatching) and the refinement
`OneVerdictEach`. Fairness: the main thread and each worker go on when they can,
which the operating system provides; this includes that every process ends. TLC
does not check for deadlock, since a finished run stops.

`runner_report` asks for what the comment at 1825 says: a suite whose return code is
0, 1 or 2 has left a whole file (`ReportIsWhole`). It is violated (see findings); two
suites and no exceptions are enough.

### BlockAckSession

`block_ack` has 10 sequence numbers, windows of 2, and 12 MSDUs, two of them queued
at a time. Twelve, since the numbers must come round and go on for a window:
only then do bits of the last lap matter. Windows of 2 give A-MPDUs with any part
lost, a frame that overtakes another, and a window that closes. The policy wants a
response for every frame (`BaThreshold` 0) or from half a window on, and asks for it
in the A-MPDU or by a BAR. The bound on
MSDUs stops the run, hence no deadlock check; no liveness is claimed.

The properties: `DeliversInOrder` (it implements `OrderedDelivery`);
`AckedIsReceived` (no frame leaves the originator as acknowledged without having
been received); `RecipientIsNotAhead` (a frame the originator still keeps is never
old for a recipient that has not got it); `GapIsAttended` (each frame the reorder
buffer waits for is still kept by the originator, or a BAR is due).

Not covered, and worth knowing: without `UseExplicitBarAfterMissedBlockAck`
(wifi-test.cc 2361 switches it off) unacknowledged frames are sent again at once,
and `StoreMpduIfNeeded` (mac-low.cc 2098-2123) stores a second copy, since it looks
for no duplicate. With a positive `BaThreshold` a frame is sent without asking for a
response because another frame is queued; if that one expires first, nothing asks
about the outstanding one until more data comes. And `CreateBlockAckAgreement` (mac-low.cc 2146) inserts into a
map, so a recipient whose ADDBA response was lost keeps the starting sequence
number of the first request.

### Findings

`ReserveMedium` (mac-low.cc 1908) looks at the PHY's state but not at the MAC's
pending SIFS response. When the station's frame ends less than a SIFS before the
reservation, the Ack finds the PHY transmitting the CTS, and the assertion of
`WifiPhy::Send` (wifi-phy.cc 2672) fails. Downlink-only UDP traffic never meets
this (`dtm_downlink` checks it); TCP or ARP from the station can.

A frame sent before a block ack agreement exists is held by QosTxop and sent
again. If it does not fit into the Wi-Fi window when access is granted,
`StartTransmission` (mac-low.cc 493-501) returns with the remark that QosTxop
will retransmit it, but no access is requested and none is ever requested again:
`StartAccessIfNeeded` asks only while there is no current packet (`txop_stall`).
The same happens to a group frame that does not fit (qos-txop.cc 578-582), which
is then in the queue and the current packet at once. With the windows of
test-uvigo.cc a frame that does not fit is an everyday event; that the first
exchange fails and is retried at that moment is not.

`NotifyInternalCollision` (qos-txop.cc 630) drops an ADDBA request whose retries
are used up without telling the block ack manager; its timer starts only with
its Ack. The station stays blocked for ever (`txop_blocked`).

`GotAddBaResponse` (qos-txop.cc 1463) takes it that data which is the current packet
waits for retransmission, moves it to the retransmit queue and clears
`m_currentPacket`, also when `MacLow` is waiting for its Ack. The timeout then has
`NeedRetransmission` call `GetSize` on a null pointer
(wifi-remote-station-manager.cc 860), which asserts (core/model/ptr.h 630) or, without
assertions, crashes (`txop_response`). It takes an ADDBA request whose response is late,
and a station that misses the data sent in the meantime.

A suite that crashes after output that is not UTF-8 gets the return code 1 (test.py
813-824), so that `run_tests` opens and appends the file that the crash has cut short,
or raises where there is none (`runner_report`).

Two more disagreements came up; no run is kept for them. When the frame that collided
comes from the retransmit queue, `NotifyInternalCollision` (qos-txop.cc 701) drops the
head of the EDCA queue, another frame than the one its comment at 634 calls the frame
involved. And `ChannelAccessManager::NotifyTxStartNow` (channel-access-manager.cc 582)
forgets that the last frame was bad before it calls `UpdateBackoff` (line 593): when a
Txop is granted access after its EIFS, those with a larger AIFSN are still within
theirs, and lose slots that by wifi-design.rst 652-660 are no slot boundaries of
theirs. `GrantsWait` is not affected: the frame just started makes the medium busy.

## 5. Proofs

`DtmProofs` proves, for all durations, airtimes and delays that satisfy the named
assumptions of `DtmCoordination`:

- `TypeCorrect`: `Spec => []TypeOK`.
- `ReservationsDue`: `Spec => []ReservationsAreDue`.
- `EndsInTime`: `Spec => []QosDataEndsInTime`.
- `ClearOfLaa`: `Spec => []QosDataClearOfLaa`.
- `ImplementsSharing`: if there is no overrun, `Spec => SharesTheMedium`.

Assumptions: `DurationsAreNat` (types, and `Sifs < Ifs`); `FirstWindowIsLongEnough`
(the longest PPDU, its answer and the delivery delay fit into one window; needed
because nothing limits a PPDU that starts before the first notification arrives,
and because a longer delay makes the reservation's delay negative);
`LaaFitsDurationField` (not used by a proof; it keeps the model out of states in
which the program would have asserted).

Argument. The invariant `IInv` is `TypeOK` with three parts. `WindowInv`: the
window the AP knows never ends later than `AckDuration` before the end of the
orchestrator's current window, and it is missing only before the first
notification or while one is under way. `PunctualInv`: nothing is overdue, and
an answer comes within a SIFS of the last transmission, so that no channel
access (which needs a longer idle time) replaces the current packet in the
middle of an RTS/CTS exchange. `ExchangeInv`: at each stage of an exchange, what
is left of it fits. The properties alone are not inductive: that the data which
follows a CTS fits depends on what was checked before the RTS. The refinement
then needs no look at single actions: the owner of the medium changes only with
the clock or with a new cycle, and an exchange is never under way outside a turn
of Wi-Fi.

The same module proves about the reservation:

- `ReservationInvariant`: `Spec => []RInv`, the invariant the others share.
- `QuietWhileReserved`: `Spec => []QuietAfterReservation`, if a CTS lasts longer than
  a SIFS.
- `PhyIsFree`: `Spec => []PhyIsFreeWhenSending`, if there is no RTS and the station
  sends nothing of its own. `dtm_phy_assert` shows that this is needed.
- `TimelyReservation`: `Spec => []ReservationIsTimely`, if there are finitely many
  airtimes (so that there is a longest) and the longest frame and a CTS fit into a
  cycle. If they do not, one reservation meets the next.

Argument. `RInv` adds to `IInv` that a frame is intact only while the other side is
silent, that an answer of the AP comes one SIFS after a transmission, that a
reservation is tried at its time and not before, and that there is one for each
cycle. `QuietInv` says what is left of an exchange when the reservation goes out:
the CTS of the station meets the reservation, and the data after it finds the PHY
busy and the NAV set. `PollingInv` says that while `ReserveMedium` polls, the frame
on the air started before the reservation was due, so that no second frame can
slip in: a channel access needs an idle time that the poll, a nanosecond later, does
not leave.

`TxopProofs` proves about `QosTxopAccess`, for any sets of MSDUs, queue size,
A-MPDU size and retry limit (the assumption `TxopConstants` gives only types):

- `OnlyAResponseTakesThePacket`: the one step that leaves `MacLow` waiting for an
  answer without a packet is an ADDBA response during the wait; no retry, expiry,
  timer or arrival does it.
- `AgreementTakesHeldData`: `Spec => []HeldIsNotUnderAgreement`.
- `PendingResolved`: if `InternalCollisions` is false,
  `Spec => []PendingIsResolved`. `txop_blocked` shows that the condition is needed.

These three hold with `ResponsesOverlap` or without.

Argument. `ExchangeInv` ties the exchange of `MacLow` to the kind of the current
packet: only data is preceded by RTS, only data and requests are answered by an
Ack, and so on. It is what excludes, say, that a BlockAck clears a current packet
that is the ADDBA request. `AgreementInv` says that the station is blocked while
the agreement is pending, and that the reset timer runs only when a set-up has
failed or was overtaken by a late response: otherwise `ResetBa` would turn a
pending agreement into a reset one and leave the station blocked. `HeldInv` is
`HeldIsNotUnderAgreement` without the condition that access was requested, since
a request may come at any time. None of the three needs the contents of the
queues, so the theorems hold for queues of any length.

It goes on with the frames, under the same assumption and with `ResponsesOverlap`
false:

- `FramesInvariant`: `Spec => []FramesInv`; with it `TypeCorrect` (`[]TypeOK`) and
  `OnePlaceOnly` (`[]InOnePlace`), with window and internal collisions or not.
- `NoneIsForgotten`: `Spec => NothingIsForgotten`, and `OutstandingCovered`:
  `Spec => []OutstandingIsCovered`, if `InternalCollisions` is false.
- `WorkScheduled`: `Spec => []WorkIsScheduled`, if `WindowMayClose` is false.

The conditions are the cases in which the code does drop a frame, a BAR or a
request (`txop_stall`, `txop_blocked`), or loses its packet (`txop_response`).

Argument. `InOnePlace` alone is not inductive: between the grant and the CTS only
`MacLow` knows the MPDUs of a PPDU, afterwards the block ack manager has them.
`BeforeInv` says what the exchange may hold at each of its phases, `PlacesInv` that
the places are disjoint, a name occurs once in a sequence, and what is outstanding
or in the retransmit queue has a sequence number. `CoveredInv` extends
`OutstandingIsCovered` to exchanges that are under way: what they carry, or the BAR
that follows, asks about every outstanding MPDU. The lemmas on `Only` (the elements
of a sequence that are in a set) take the place of induction over queues; `Only` is
a recursive function so that they can be proved, by the least length at which they
would fail.

`EdcaProofs` proves about `EdcaContention`, for any number of Txops, any AIFSN,
largest draw, durations and number of events (assumptions `EdcaConstants`, types and
`AnswerTime > Sifs`, and `FramesAreLong`):

- `ContentionInvariant`: `Spec => []IInv`; `TypeCorrect`: `Spec => []TypeOK`.
- `ExchangesAreNotInterrupted`: `Spec => NoInterruption`.
- `RequestsAreTimed`: `Spec => []RequestIsTimed`.
- `WorkIsAlwaysRequested`: `Spec => []WorkIsRequested`.

Argument. Nothing in the code asks whether an exchange is under way before access
is granted; the manager relies on its intervals. `IInv` says that this is enough:
until the event of `MacLow` is due, or the response, or the end of a reception, the
last end of an interval lies less than a SIFS back (`Protected`), and then nobody is
ready, since AIFS is longer than a SIFS (`NobodyIsReady`). The cases that need care are
those where an interval is cut short while something is pending: a timeout reset by a
reception, a NAV reset, the receiver cut off by the own transmission, an answer
that arrives before its timeout. For the requests, `Outcome`, `Keeps` and `Timed` sum
up what any composition of grant, collision and timer makes of a device; each handler
uses them once, and the wake-up, which wakes the Txops one after the other, once for
each (`AwakeUpTo`). `FramesAreLong` was found by a failed proof: if a frame could start
and be heard of at the instant a timeout is due, the response to one frame and the
timeout of the exchange could fall on one instant.

`EdcaTimeProofs` adds, under the same assumptions:

- `AccessIsGrantedAfterAifs`: `Spec => GrantsWait`, from `MediumIsKnown`: `Spec =>
  []HeardInv`.

Argument. `heard` records what the PHY and `MacLow` reported instant by instant, and
the manager keeps the last end of each kind only. `HeardInv` says that what it keeps
is enough: the medium was busy no later than the last end (`BusyIsKnown`), and the
EIFS after a bad frame is still waited for, unless a reception, a transmission or a
switch has begun since (`BadIsKnown`), or it is so long ago that `Oldest` stands for
the time. A handler either leaves the ends or reports one that is not in the past
(`Reports`), and whoever it makes the owner of the exchange had waited in the
intervals that it started from (`StartsAfterAifs`); each handler is shown to do both,
the wake-up as the composition of the Txops that are woken. The instant that passes
and the end of a bad frame, which change the history itself, are on their own.

`EdcaBackoffProofs` adds, under the same assumptions:

- `IdleSlotsAreCounted`: `Spec => []BackoffCountsIdleSlots`.

Argument. Two grids of slots run side by side. The history counts the slots of a Txop
on a grid that begins with the end of AIFS after the medium was last reported busy
(`HeardStart`); `UpdateBackoff` divides by the slot time what has passed on a grid that
begins with the last end the manager keeps (`KnownStart`). The two need not be aligned,
and either may be moved by a report while slots are pending, so that comparing the
counters is not inductive. `NextIsCounted` says instead that the next boundary of the
first grid, slot `n` of it, ends before the second one yields more slots than were
counted; `Recent` that a Txop with slots left has not waited longer than a backoff can
last, so that no time on which the grids depend is too old to be known. A handler that
reports an end at the present or later starts the second grid anew, and any slot may
be the next (`CountedAnew`); one that does not leaves both grids (`SameCounts`).
`PassedAreCounted` is the division in `UpdateBackoff`, which may take a slot less than
was counted but not more; `AlignedCounts` is the shift in `AlignBackoffStart`; `GridsPass`
and `BoundaryPasses` are an instant that passes.

- `AccessComesInTime`: `Spec => []AccessIsBounded`.

Argument. There is one timer for all who wait, `DoRestartAccessTimeoutIfNeeded` moves it
only to an earlier time, and only some handlers call it; the ends from which
`GetBackoffEndFor` is worked out may be cut short (a NAV that is reset, a timeout that is
answered, a transmission that ends a reception) or put off while the timer is left as it
is. So the timer has no fixed relation to the present value of `GetBackoffEndFor`.
`TimerInv` compares it with the history instead: `heard.until[t]` is the latest start of
the backoff of `t` since it asked for access, and the timer is set for no later than the
longest backoff after that. Each handler leaves the requests and at most moves the timer
to an earlier time (`Sooner`), or sets it anew after a grant for all who wait (`Fresh`:
`GrantedInTime`, since by `NotForgotten` who still waits after a grant is not ready, and
by `Counted` no backoff is longer than `MaxDraw`), or puts the device to sleep. Waking up
is the hard one: the Txops are woken one after the other, the requests of those that are
not woken yet are stale, and CCA then overwrites the end of the busy interval
(`InTimeUpTo`, `LaterBusyInTime`); that the new end is never before the old one is
`CcaIsKnown`, the other conjunct of `TimerInv`. An attempt to prove an earlier form of
the property, with the latest start of the present instead of that since the request,
failed at `RequestAccess`: a second packet makes `UpdateBackoff` move the start of a
backoff while the timer stays as it was. TLC has the counterexample with five events and
not with three, and the property was restated.

`RunnerProofs` proves about `TestRunner`, for any number of suites, examples,
skipped tests, workers (at least one) and exceptions:

- `TypeCorrect`, `NoJobIsLost` (`JobsInOnePlace`), `TrueSummary` (the counters are
  the cardinalities of the sets of jobs they stand for) and `EarnedSuccess`
  (`SuccessIsEarned`).
- `WorkersLeaveLast`: no worker ends while a test is on the queue.
- `ImplementsCampaign`: `Spec => OneVerdictEach`.

Argument. `SuccessIsEarned` compares two numbers, passed and skipped jobs against
dispatched ones, and concludes something about each job. That needs the whole
invariant `IInv`: `JobsInOnePlace`, so that a collected job is counted once;
`CountsAreTrue`, so that the numbers are cardinalities; `ResultInv`, so that a
return code of 0 is how the process ended; `WorkerInv`, so that nothing is held
when the run ends. A subset of a finite set with the same cardinality is that
set. `BreakInv` (break jobs are at the end of the queue, and there are none while
tests are dispatched) carries `WorkersLeaveLast`. The refinement shows one step
of `TestCampaign` for every step that changes what it sees: `Dispatch`,
`CollectBreak` and `CollectResult`, `Return`, `ExitAfterException`.

`BlockAckProofs`, on the lemmas of `BlockAckLemmas`, proves about `BlockAckSession`,
for every sequence space, window, set of thresholds and number of MSDUs that satisfy
`SessionConstants` (types, an even `SeqSpace`, and `4 * WinSize < SeqSpace`):

- `SessionInvariant`: `Spec => []SessionInv`, the invariant the others share.
- `TypeCorrect`: `Spec => []TypeOK`.
- `WindowsStayClose`: `Spec => []RecipientIsNotAhead`.
- `GapsAreAttended`: `Spec => []GapIsAttended`.
- `NoFalseAck`: `Spec => AckedIsReceived`.
- `ImplementsDelivery`: `Spec => DeliversInOrder`, the refinement of `OrderedDelivery`.

Argument. The code compares numbers modulo the sequence space, with a different
formula in each function; what it means are MSDUs. `SessionInv` says that there are
three MSDUs, `O`, `R` and `V`, at which the transmit window, the reorder window and the
score start: the code keeps their numbers, and every formula compares as the MSDUs do
as long as they lie within half a space of each other (`OldOrNot`, `Shift`, `SpanOf`).
That they do is part of what is proved:

- `Windows` is each end by itself. The originator keeps only frames from `O` on, no
  further than a window, and every number from `O` on belongs to a frame that is
  outstanding, to be sent again, or marked as acknowledged (`Starts`, `Keeps`, `Covers`).
  The buffer ascends and lies beyond `R`, `R` is at most a window beyond `V`, a bit of
  the score stands for a frame that is below `R` or buffered, what is buffered has its
  bit, and what was passed up ascends and is below `R` (`Score`).
- `Follows` ties the ends. `V` is never beyond `O`; what `R` has passed and `O` has not
  was passed up; a mark stands for a frame that was received; a frame that is to be
  sent again is not in the buffer. If no BAR is due, `O` is not beyond `R`: only a frame
  that was given up lets the transmit window overtake, and then there is a BAR. A BAR
  that is held may be late, but it is no more than a window behind and not before `V`.
- `Frames` is the exchange under way. Its frames are not in the buffer until they are
  received; of what is still kept, a BlockAck reports nothing that was not received and
  everything that waits in the buffer; and when it answers a BAR and no other is due,
  `R` has come up to `O`.

None of the five properties is inductive without these. `AckedIsReceived`, say, needs
that a bit of the score is cleared before its number comes round, for which the score
must not fall behind, for which the transmit window must wait for the frames it covers.
Each property follows from the three starts and `Got` (below `R`, or buffered).

Lists of frames that a handler works through (`InTurn`) are functions on `0 .. Len`, so
that a lemma about the list is proved from the least index at which it fails
(`Iterates`, `Turns`, `Reaches`), one for each handler: `AllGivenUp`, `AllPassed`,
`AllStored`, `AllSettled`, `AllHeard`. A lemma for each look-up follows (`CleanedIs`,
`GetBarIs`, `HasPacketsIs`), and each action uses these. Frames that expire do so oldest
first (`OldestFirst`), which is what makes the look-ups, that remove expired frames from
two lists at different times, agree. The refinement compares the latest MSDUs that were
passed up before and after a step: a step appends an ascending list that starts after
the last one (`PassesOn`).

Only model-checked: the liveness properties (`EveryMsduLeaves`, `BlockingEnds`,
`Terminates`), since liveness under fairness and `ENABLED` are out of the prover's
reach; and that the five properties the runs expect to fail do fail. Every invariant,
action property and refinement that a passing run checks is a theorem above, under the
condition stated with it.

## 6. Not modelled

The analytical model (numeric, no state); rate control (constant rate, airtimes
are constants); interference and preamble detection (physics); association (it
completes before the orchestrator starts); LAA itself, which the program
represents only by the silence of Wi-Fi; the Internet stack and all other vendored
code. Section 3 names what is left out of each modelled part, section 2 what is
planned, and `PROJECT.json` every component with its status.

The repository is nearly all vendored: the Python lines, some 789,000, are
generated bindings of ns-3 but for a few thousand, and the program proper is one
example of some 300 lines with its changes to the Wi-Fi model. A map of the
code that decides anything is therefore a small share of the repository by lines.
