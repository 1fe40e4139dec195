# A verification of the rtl8723bu driver in TLA+

The repository is Realtek's Linux driver for the RTL8723BU USB Wi-Fi chip (the
Wi-Fi half of a Wi-Fi/Bluetooth combination). Most of its 160,000 lines of C are
register sequences, radio tables, generated images and wireless-extension glue.
What makes it hard is the rest: one command thread, a dozen timers, tasklets, USB
completion callbacks, the callers of cfg80211 and the power management core all
act on the same few queues, flags and state bits, and very little is written down
about which of them may meet.

This directory holds models of those parts, the configurations TLC checks them
with, and proofs for TLAPS. Six components are modelled so far: the command
thread; receive reordering; the connection of a client from cfg80211 down to the
802.11 handshake; inactive power saving with suspend and resume; the transmit path
from the network stack to the URBs; and the frames an access point holds for
sleeping stations. The rest is in the inventory and the plan.

## The configuration that is modelled

The models follow the code compiled under `Makefile` and `include/autoconf.h`:
two virtual interfaces (CONFIG_CONCURRENT_MODE; the primary one owns the command
thread), cfg80211, Bluetooth coexistence, station, AP and P2P modes, 802.11n with
receive reordering, IPS and LPS power saving, acknowledged transmit (XMIT_ACK),
layer-2 roaming, USB transmit aggregation, retry of control transfers. Not compiled
and so not modelled: threads for transmit, receive and events, LPS in 32 kHz mode
(LPS_LCLK), wake on WLAN, autosuspend, TDLS, silent reset, mass production test
mode, 802.11ac.

## Inventory

For each component: its state, its operations and who calls them, what is hard,
and what would make it correct.

**Command thread** (`core/rtw_cmd.c`; started and stopped in `os_dep/os_intfs.c`).
State: `cmd_queue`, the semaphores `cmd_queue_sema` and `terminate_cmdthread_sema`,
`cmdthd_running`, `stop_req`, and the `submit_ctx` a waiting submitter keeps on its
stack. Anyone enqueues, in process or softirq context; one kernel thread dequeues,
runs the handler and the callback; suspend and remove stop it, open and resume
start it again. Hard: a lost wake-up, the 2 s timeout of a waiter against the
completion, exit against enqueue, a second thread beside one that is still
leaving. Correct: each command object is in one place and freed once; the
completion never writes a dead stack frame; stopping waits for the thread and ends.

**Receive reordering** (`core/rtw_recv.c`). State per station and traffic
identifier: `indicate_seq`, `enable`, the sorted pending queue, its lock, its
50 ms timer. The receive tasklet inserts and drains; the timer drains what a lost
frame holds up; ADDBA and DELBA switch it on and off; `rtw_free_stainfo` dismantles
it. Hard: arithmetic modulo 4096, the timer against arrivals, the unlocked resets,
`del_timer_sync` under the lock. Correct: frames go up in order, once, and none
stays behind.

**Client connection** (`core/rtw_mlme.c`, `core/rtw_mlme_ext.c`,
`os_dep/ioctl_cfg80211.c`, `core/rtw_ioctl_set.c`). State: `fw_state` bits,
`to_join`, `to_roam`, `scanned_queue`, `assoc_timer`, `scan_to_timer`, the state of
the survey and of the handshake with `link_timer`, `not_indic_disco`,
`scan_request`. Operations: connect, disconnect and scan of the host; the survey,
join and disconnect commands; frames of the access point; five timers. Hard: a
timeout racing the answer, a scan against a join, roaming that goes through all of
them, a disconnect that runs outside the lock. Correct: no flag outlives what is to
clear it, a linked station is nothing else, the host hears the end of every scan.

**Power saving** (`core/rtw_pwrctrl.c`, `os_dep/os_intfs.c`). State:
`rf_pwrstate`, `bpower_saving`, `ps_processing`, `ps_deny`, `ips_deny_time`,
`bInSuspend`, `hw_init_completed`, the check timer, and for leisure power saving
`pwr_mode`, `bFwCurrentInPSMode`. A 2 s timer asks for power saving through the
command thread; every ioctl first calls `rtw_pwr_wakeup`; suspend and resume go
through it as well. Hard: the decision is taken outside the lock that guards it,
and the wait in `rtw_pwr_wakeup` gives up after 3 s. Correct: no use of the chip
while it is down, a suspend meets no power-down, an idle radio is switched off.

**Transmit path** (`core/rtw_xmit.c`, `hal/rtl8723bu_xmit.c`,
`os_dep/xmit_linux.c`, `os_dep/usb_ops_linux.c`). State: free lists of `xmit_frame`
and `xmit_buf` with their counts, per-station and per-category queues, `hwxmits`,
stopped host queues, `ack_tx_ops`. `ndo_start_xmit` takes frames, a tasklet packs
them into buffers, the URB completion gives buffers back and schedules the tasklet.
Hard: nothing polls, so whoever queues a frame relies on somebody else to come for
it; exhausted pools; a subqueue stopped after the last packet came back; a station
freed between two sections of a sender; one acknowledgement context for all
management frames. Correct: nothing is lost, a queued frame has somebody who comes
for it, a stopped subqueue is woken.

**Station table** (`core/rtw_sta_mgt.c`). State: free list, hash lists,
`asoc_sta_count`, AID map. Everybody looks stations up without a reference;
`rtw_free_stainfo` empties their queues and cancels their timers. Correct: an entry
is on one list, and nothing uses it once it is on the free list.

**Access point and sleeping stations** (`core/rtw_ap.c`, with parts of
`rtw_xmit.c`, `rtw_recv.c`, `rtw_cmd.c`, `rtw_mlme_ext.c`, `rtw_sta_mgt.c`). State:
`tim_bitmap`, `sta_dz_bitmap`, the beacon's TIM element, sleep queues with
`sleepq_len` and `sleepq_ac_len`, association list, expiry. Transmit puts frames to
sleep; PS-Poll, triggers, the power bit and the command after the beacon release
them; `expire_timeout_chk` calls and removes the silent. Hard: two lengths kept by
six functions, tests outside the lock, the broadcast entry that depends on every
station. Correct: the lengths agree with the queues, a sleeper is told of what it
has to fetch, multicast frames leave.

**USB access** (`os_dep/usb_ops_linux.c`, `hal/usb_ops.c`, `core/rtw_io.c`).
State: `usb_vendor_req_mutex`, `continual_io_error`, `bSurpriseRemoved`,
`bDriverStopped`. Control transfers are retried up to ten times; five errors in a
row, of all callers together, declare the device gone; bulk completions do so at
the first error of most kinds. Correct: a device that answers is never declared
gone, one that is gone is noticed.

**Device life cycle** (`os_dep/os_intfs.c`, `os_dep/usb_intf.c`). State: `bup`,
`net_closed`, `bInSuspend`, the two flags above, URBs and tasklets. Probe, open,
close, suspend, resume and remove for two interfaces over one device. Correct: every
source of events is stopped before what it uses is freed.

**Firmware mailboxes** (`hal/rtl8723b_cmd.c`). Four H2C boxes used in turn under a
mutex (`LastHMEBoxNum`), and C2H reports. Hard: a box the firmware has not emptied.

**Key table, block acknowledgement, channel plan** (`core/rtw_wlan_util.c`,
`core/rtw_rf.c`); **peer to peer** (`core/rtw_p2p.c`); **security**
(`core/rtw_security.c`): small tables, roles and counters next to much data
handling.

**Radio control** (`hal/odm*.c`, `hal/HalPhyRf*.c`), **hardware initialisation**
(`hal/*hal_init.c`, `hal/*phycfg.c`), **Bluetooth coexistence**
(`hal/HalBtc8723b*.c`), **LED**, **efuse**, **bridge extension**, **frame parsing**,
**proc files**, **platform files**, **tables and images**, and **code that is not
compiled** have no concurrency of their own; see the last section.

How they meet: the host and the timers put commands on the command thread's queue;
its handlers drive the handshake and the survey and write registers through USB
access; the receive tasklet feeds frames to the handshake, the station table and
the reorder windows; results go back as events, which are commands again; power
saving must be left before any of this touches the chip; and two flags,
`bDriverStopped` and `bSurpriseRemoved`, set by a USB completion at any moment, end
it all.

## Plan

| step | modules | composed of | runs | theorems |
|---|---|---|---|---|
| 1, done | `CmdThread`, `CmdThreadProofs` | - | two threads with errors; patient and fair; a command left behind | ownership, wake-up, submit_ctx, one thread, stop and start wait for it |
| 2, done | `RecvReorder`, `RecvReorderProofs` | - | window on two CPUs; liveness with DELBA; order after DELBA | type, stuck frame, freed entry, order, window, drops |
| 3, done | `Link`, `Mlme`, `Station`, `StationProofs` | `Station` extends `Link` and `Mlme` | connect/disconnect/roam; connect/scan; a stale scan | type, join timer, linked alone, survey ends, attempt goes on |
| 4, done | `PwrCtrl`, `PwrCtrlProofs` | - | host, timer and suspend against the idle check | type, radio in use, woken host, suspend, chain |
| 5, done | `TxContract`, `Xmit`, `SumLemmas`, `XmitProofs` | `Xmit` implements `TxContract` | pools at their limit, failures, surveys, disconnect | type, contract, stopped subqueues, frames and buffers, queued frames |
| 6, done | `ApSleep`, `ApSleepProofs` | - | two sleepers and multicast | type, lengths, TIM bits, multicast |
| 7 | an ordered channel; a host's view of the connection | `RecvReorder`, `Station` implement them | as properties of their runs | each step maps to a step or a stutter |
| 8 | `UsbIo`, `H2C`, `Lifecycle`, `StaMgt` | `Lifecycle` over the stop flags of `UsbIo` | retries against removal; open/suspend/remove of two interfaces | order of stop and free |

Abstract specifications: `TxContract`, what the driver owes the network stack, is
stated and checked. Worth stating: an ordered, lossy, duplicate-free channel that
`RecvReorder` implements within a session, and a host's view of the connection
(idle, connecting, connected, with one answer for each request) that `Station`
implements where no hazard of the list prevents it.

## Command thread

`CmdThread` is the whole component: each action is one handler or the part of one
between two points where another context can get in.

| state | code |
|---|---|
| `cmd_queue`, `cmd_queue_sema`, `terminate_sema`, `cmdthd_running`, `stop_req` | the members of `cmd_priv` of those names |
| `bDriverStopped`, `bSurpriseRemoved`, `hw_init_completed` | the members of the adapter |
| `tpc[t]`, `cur[t]` | where the t-th thread created is in `rtw_cmd_thread`, and its `pcmd` |
| `obj`, `code`, `res`, `sctxptr` | per command object: its life, `cmdcode`, `res`, whether `sctx` is set |
| `sctx`, `spc` | the `submit_ctx` on the submitter's stack, and where the submitter is |
| `ctl`, `via`, `starts` | where the one open/suspend/remove path is, why, and how many threads were created |

`EnqueueFilter`, `EnqueueInsert` and `EnqueueUp` are the three parts of
`rtw_enqueue_cmd`; `SctxWait` and `DetachSctx` the end of `rtw_startbss_cmd`;
`Thread*` the statements of `rtw_cmd_thread`; `Stop*`, `Poll` and `Deinit`
`rtw_stop_cmd_thread` and `rtw_dev_unload`. Command codes are reduced to the three
the control tells apart: `_CreateBss` with its `submit_ctx`, `_DisConnect`, whose
callback does not free a command that failed, and `_SetChannelPlan`, which passes
the filter while the hardware is down. A handler succeeds or fails.

Runs (instances in `MCCmdThread`):

- `cmd_hostile` (`CmdThread_hostile.cfg`): URB errors, signals that interrupt
  `down_interruptible`, and a poll of `rtw_dev_unload` that runs out, at any time,
  so that two threads may exist. `CmdOwnership`, `NoLostWakeup`, `SctxNoDangling`,
  `SctxAnsweredOnce` and `LateAckOnlyAfterDrain` hold even then.
- `cmd_live` (`CmdThread_live.cfg`): none of that, and fair scheduling.
  `OneThread` and `ControlWaitsForThread` hold, unloading completes, and every
  queued command is taken.
- `cmd_exit` (`CmdThread_exit.cfg`, a violation): a submitter passes
  `rtw_cmd_filter`, the thread frees its queue and leaves, then the command is
  inserted. It stays in the queue of a driver that is down, although the exit loop
  is there to "free all cmd_obj resources" (`core/rtw_cmd.c:582`); a submitter with
  a `submit_ctx` waits out its 2 s.

The properties of `cmd_live` need its assumptions: when a URB error makes the
thread leave by itself, its `up` of `terminate_cmdthread_sema` is consumed by nobody
and the next start or stop does not wait. That is recorded under the hazards.

Bounds: `MaxStarts = 2` creates the thread, stops it and creates it again, which is
what it takes for two threads to meet. `MaxSema = 1` stops new submissions while an
up is pending; the stop path ups beyond it. The runs have one command object, which
is used again after each of its lives and meets two threads, its submitter's timeout
and the exit loop; `cmd_live` also passes with two, in a million states instead of
20 thousand, and the theorems hold for any number. No deadlock check: once the
device is removed nothing is left to do.

Fairness: kernel threads and callers are scheduled (`WF` on the thread, on each
submitter, on starting and stopping). Nothing is assumed about submitting, opening,
suspending or unplugging. The timeout of `rtw_sctx_wait` may come at any moment,
before the answer or after.

Proved in `CmdThreadProofs` for any number of command objects and any bounds: the
type invariant; `CmdInv`, the inductive invariant behind ownership and the
`submit_ctx`; and `WakeupInv`. `CmdInv` adds to the properties that an object being
enqueued is in nobody else's hands (`EnqueueInv`), that a working thread has an
object (`HeldInv`), and that a `submit_ctx` without an answer is attached to its
command as long as that exists (`AttachedInv`); without them a step of the thread
says nothing about the submitter. `WakeupInv` says of every moment, and not only
while a thread sleeps, that a queue with something in it has a count of the
semaphore, a submitter about to up it, or a thread that will still look.
Theorems: `TypeCorrect`, `OwnershipCorrect`, `SubmitCtxAlive`,
`SubmitCtxAnsweredOnce`, `LateAckCorrect`, `WakeupCorrect`.

`OneThreadAlive` and `ControlWaits` need the assumptions of `cmd_live`, as
`Patient`: no URB error, no signal, and a poll of `rtw_dev_unload` that does not run
out. Without each of them the statement is false (the thread leaves on its own, or
the stop path goes on without it). Their invariant is `LifeInv`: all threads but the
last created have exited and `cmdthd_running` tells of the last (`LastInv`); and for
each place of the control path, where that thread can be and what
`terminate_cmdthread_sema` counts (`PlaceInv`). The semaphore serves both ends of the
thread's life, so the proof is an account of whose answer is in it. Only
model-checked: that unloading completes and that a queued command is taken.

## Receive reordering

`RecvReorder` models the window of one traffic identifier of one peer.

| state | code |
|---|---|
| `enable`, `indicate`, `pending`, `timer`, `lock` | `recv_reorder_ctrl`: `enable`, `indicate_seq`, the pending queue, its timer and its lock |
| `tidseq` | `rxcache.tid_rxseq[tid]`, the duplicate filter |
| `rx`, `inbuf` | where the tasklet is in `recv_indicatepkt_reorder`, and `bPktInBuf` |
| `handler` | where `rtw_reordering_ctrl_timeout_handler` is |
| `delba`, `sta`, `stopped` | `send_delba` between its two stores, `rtw_free_stainfo`, the stop flags |
| `base`, `agg`, `sess` | the peer (external): oldest frame it repeats, whether it believes in a session, ADDBA requests |
| `up`, `dropped`, `skip`, `top` | history: frames handed up or discarded, what the driver gave up, the newest received |

The peer numbers its frames from `First` to `Last`; the driver sees the number
modulo `M`. The peer repeats and loses what it likes inside its window, and never
runs half a sequence space ahead, where `SN_LESS` stops meaning anything (a hazard
without a property). An A-MSDU is a frame like any other; `check_indicate_seq`, the
enqueue and each turn of the drain loop are steps under the lock.

With `Smp = FALSE` the tasklet and the timer handler run to completion, as softirqs
of one CPU do; with `Smp = TRUE` they interleave at every step. The difference
matters: `recv_indicatepkt_reorder` calls `del_timer_sync` with the lock held that
the handler waits for, so on two CPUs both can wait for ever. TLC reaches that state;
it is `Deadlocked`.

Runs (instances in `MCRecvReorder`):

- `reorder_window`: one session on two CPUs, fair, with the frames 29..34 of a space of 32
  and a window of 4: the wrap, a frame past the window's end, which moves it, and
  two holes, so that the timer has to be armed again. `TypeOK`, `WindowInv` (the queue is sorted and inside the
  window), `NoStuckFrame` (buffered frames have a timer), `InOrder`, and
  `DropJustified`: what is discarded as old was handed up, is buffered, or is older
  than where the driver started the window. `RxReturns`: a tasklet that enters the
  reorder code leaves it, or ends in `Deadlocked`; there is no other lock kept, and no
  other wait.
- `reorder_live`: fair, DELBA from both sides, a device that stops and a station
  that is freed at any point. Buffered frames go up, nothing of a freed entry is in
  use.
- `reorder_order` (a violation): a DELBA leaves the queue behind, the next frames
  pass directly, and the buffered ones come up to 50 ms later behind them, although
  the code inserts frames there "to maintain its ordering"
  (`core/rtw_recv.c:3231`).

Bounds: `M` of 16 or 32 stands for 4096 with windows of 2 to 4 for 64. What the
arithmetic depends on is `W <= M / 4` and a wrap in the middle of the frames, and
both are kept; the proofs cover 4096. `MaxUp` ends a behaviour. The runs have one
session, with the DELBA that ends it; two were checked once (below). No deadlock check: the peer has only so many frames.

Fairness: the tasklet and the handler go on, an armed timer fires (the handler
re-arms it as long as something is buffered), process context goes on. The peer is
free to fall silent.

Proved in `RecvReorderProofs`, with `M` one of 16, 32 and 4096 and any window up to
a quarter of it:

- `ReorderTypeCorrect` and `ReorderNoStuckFrame`, for any number of sessions and
  CPUs, from `BaseInv`;
- `ReorderFreedIsQuiet`, on one CPU, from `FreeInv`;
- `ReorderInOrder` and `ReorderWindow`, for at most one ADDBA and no DELBA, on any number of
  CPUs. The invariant is `SessionInv`. The code has only numbers modulo `M`, so the
  invariant names the true frame number of the window's start (`WindowAt(a)`: the
  `a` with `indicate = Sn(a)`, everything buffered within the window from `a`,
  everything handed up below `a`) and bounds it against what the peer may still send
  (`PeerInv`). The lemmas on `Sn`, `SnLess` and `ShiftTo` then turn modular
  comparisons into plain ones. `OrderInv` orders the queue behind what was handed
  up, `ModeInv` and `FreshInv` say what is empty and idle before the session and
  before its first frame, and `StartInv` that some `WindowAt(a)` holds from then on.
- `ReorderDropJustified`, under the same condition. What was discarded says nothing
  about the next frame to be discarded, so `DropInv` speaks of the frames still to
  come: any frame the peer may yet repeat, or the tasklet carries, that
  `check_indicate_seq` would call old is already handed up, buffered or before the
  window's first start (`CoverInv`); and so is the last frame that passed
  `recv_decache`, unless it is on its way (`LastInv`). Each turn of the drain loop,
  which moves the window past one number, has to keep `CoverInv`; that no frame is
  passed over without being taken is `DrainCovers`.

With two sessions on several CPUs `InOrder` is false (the ADDBA resets
`indicate_seq` without the lock). On one CPU a configuration with two sessions
(frames 14..18 of 16, window of 3, a DELBA of the peer, 1.5 million states) found
`InOrder` and `DropJustified` unbroken; it is not among the runs.
Only model-checked as well: the liveness properties.

## Client connection

`Link` is the handshake (`mlmeext_info.state`, `reauth_count`, `reassoc_count`,
`link_timer`), each frame or timer handler an operator over the report it makes.
`Mlme` is what `core/rtw_mlme.c` decides under `pmlmepriv->lock`, as operators on a
record: `rtw_do_join`, `rtw_select_and_join_from_scanned_queue`, the events, the
join timeout, `rtw_indicate_connect` and `rtw_indicate_disconnect`, and what
cfg80211 believes. `Station` puts them together: the command thread, one caller of
cfg80211 at a time, the timers and the receive tasklet.

| state | code |
|---|---|
| `link` | `mlmeext_info.state`, its retry counters, `link_timer` |
| `mlme.fw` | `_FW_UNDER_SURVEY`, `_FW_UNDER_LINKING`, `_FW_LINKED` of `fw_state` |
| `mlme.to_join`, `.to_roam`, `.disco` | `to_join`, `to_roam`, `not_indic_disco` |
| `mlme.bss` | the access point is in `scanned_queue` |
| `mlme.assoc_timer`, `.scan_timer` | `assoc_timer`, `scan_to_timer` |
| `mlme.q` | the commands and events queued, in order |
| `mlme.sme`, `.scan` | cfg80211's state of the connection, and `scan_request` |
| `sc` | `sitesurvey_res.state`, channels left, `survey_timer`, `scan_abort` |
| `thr`, `user` | the command thread and the caller: what they do and where they are |

The granularity follows the locks. Everything under `pmlmepriv->lock` is one step;
writes outside it, and every point where a lock is given up, are steps of their own:
`rtw_surveydone_event_callback` is four, `cfg80211_rtw_disconnect` six. Timers and the
tasklet run to completion: one CPU.

Assumed: one interface, in station mode, one access point, the device up;
allocations and `rtw_enqueue_cmd` succeed; timers are untimed, so any armed timer
may fire at any moment; what cfg80211 is told takes effect at once, a successful
`cfg80211_connect_result` makes the host connected, `cfg80211_roamed` changes
nothing for it; the host may ask to connect again while it is connecting, as
cfg80211 permits. Refusals that depend on what is not modelled (TKIP
countermeasures, busy traffic, denied scans) are outcomes that are always possible,
and so is the absence of a candidate. Power saving and P2P commands in the same
functions are left out; active roaming is off, as in the default configuration.
`LeaveLink` merges two writes of the command thread between which nothing that can
run tells the difference (the comment there says why).

Runs (instances in `MCStation`):

- `station_safe`: connects and disconnects of the host, links that expire and roam
  with two attempts. `AttemptGoesOn`, `JoinHasTimer`, `LinkedAlone`: whatever is pending has something that will take it on, and a linked
  station is nothing else.
- `station_scan`: connects against scans, fair. `SurveyEnds` and `ScanEnds`: the
  survey flag has somebody who will clear it, and each scan of the host is answered.
- `station_stale` (a violation): a scan refused with `-EBUSY` because a join is
  running stays in `scan_request`, cfg80211 frees it, and the end of the next survey
  is reported for it, which the code elsewhere takes care to avoid
  (`os_dep/ioctl_cfg80211.c:1874`).

Neither of the passing runs can deadlock, and TLC checks that.

Bounds: `ReauthLimit = ReassocLimit = 0` replaces four repetitions of a frame by
none; the branch that gives up and the one that repeats differ only in the counter,
and the proofs cover any limit. `MaxCh = 1` is one channel; the survey still goes
through the command thread twice and can be aborted in between. `MaxQ = 1` holds
back only the environment (frames of the access point, requests): the driver's own
commands queue beyond it. `MaxRoam = 2` gives the three branches of the countdown;
in `station_scan` roaming is off, since scans and two roaming attempts together are
more than TLC finishes, and requests are split over two runs for the same reason.

Fairness of `FairSpec`: the command thread serves its queue (the properties of the
first component), a system call goes on, an armed timer fires. Nothing is assumed of
the host or the access point.

Proved in `StationProofs`, for any limits, channels and roaming attempts:
`StationTypeCorrect`, `StationJoinHasTimer` and `StationLinkedAlone`. The invariant
is `StationInv`: the types of the handshake (`LinkInv`), of the places of the two
contexts (`PlaceTypes`), and `Sound(mlme)`, which is the type of the record with
`Timed` (linking implies `assoc_timer`) and `Alone` (linked implies not linking, not
roaming, network known). `Alone` needs `Timed` and the types for `to_roam - 1`. Since
the decisions are operators on the record, the proof has a lemma for each operator
(a `Sound` record gives only `Sound` records) and the actions cite them.

`StationSurveyEnds` and `StationAttemptGoesOn` follow a survey through the queue, the
command thread and the timer. Neither property is inductive: a `survey_timer` whose
survey is off, and a callback past the step that clears the flag, would count as
coming. `Ahead` leaves these out, and `AheadInv` says that the survey flag has
`Ahead`, that a join that waits has `Ahead` or a callback that has not reached it yet,
and that a station that roams has `assoc_timer` or such a join (`Going`). One lemma for
each operator of `Mlme` says what it may do to these (`Moves`: nothing leaves the queue,
the flag is set only with a command); the actions of the thread and the timers are
then a few lines each. `ScanEnds` stays with TLC.

Hazards the model exposes but no property states, because nothing in the repository
says what should happen: a join command that runs after the host disconnected still
associates, so that the access point has a station `fw_state` knows nothing of;
`not_indic_disco` hides a failure from a host that is connecting, which then gets no
answer; a disconnect cancels the `link_timer` of a join that has just begun, which
then waits for `assoc_timer`.

## Power saving

`PwrCtrl` is inactive power saving (IPS): the radio nobody uses is switched off by
the command thread and on by the host's next operation, and both meet suspend and
resume.

| state | code |
|---|---|
| `pwr.rf`, `.saving`, `.ps`, `.insusp`, `.lock` | `rf_pwrstate`, `bpower_saving`, `ps_processing`, `bInSuspend`, the mutex of `pwrctrl_priv` |
| `pwr.deny`, `.until` | `ps_deny` as a set of reasons; `ips_deny_time` before, at or after the clock |
| `nic` | `hw_init_completed`, `bup`, the check timer; what uses the radio: surveys, joins, links, frames in URBs |
| `thr` | the command thread: running, calls of `rtw_ps_processor` queued, where it is in one; `missed` is history: this call missed a wake-up |
| `host`, `pm` | the host's operation and where it is in it; the system's suspend and resume |

Each read of a flag outside the lock, each section under it, and each register
sequence (`rtw_ips_pwr_down`, `ips_leave`) is a step. The run `power` has scan, join
and transmit, which set their bit of `ps_deny`, and a change of interface type,
which only calls `rtw_pwr_wakeup`. `BusyIsAwake` and `WokenIsAwake` say that the
radio is not switched off under a user of it or under an operation that denied it,
but for `missed` (below);
`SuspendAlone` that a suspend takes the device down with nobody else inside;
`ChainAlive` that the chain of timer, command and handler is never broken, and
`IdlePowersDown` what it is for. The exception `PowerUpFailed` is a hardware that
did not come up, which `ips_leave` reports. Nothing in it can deadlock.

`missed` names the two ways in which the code does take the radio away, and TLC reaches
both; without either disjunct the two properties are violated. `rtw_ps_processor`
reads `ps_deny` under the lock, releases it (`rtw_pwrctrl.c:284`) and then has only
`ips_deny_time` (`:190`) to see an operation by. The clock runs freely, so in between
the deferral can expire, or `rtw_indicate_scan_done` can take it back and a jiffy pass
(`Tick`): the operation has been woken and the radio goes down. And
`_rtw_pwr_wakeup` waits for `ps_processing` 3 s at most, then goes on under a power-down
that still runs (`WakeTimeout`). The properties, and the theorems, say that there is no
third way. `missed` belongs to one call of the handler and is reset at the next.

Assumed: The 2 s timer does not fire between `_netdev_open` and the
end of a resume. User processes are frozen during a suspend, and `rtnl_lock`
serialises the host's operations. `ips_mode_req` is not `IPS_NONE`. `MaxPs = 2`
bounds queued calls; the chain has one, a caller of `rtw_ps_cmd` adds another.

What the model shows beside the properties: a device suspended while in IPS comes
out of the resume with the hardware initialised and `rf_pwrstate` off, so IPS does
not switch it off again until the host's next operation; and the message
`"### ERROR #### driver in IPS"` (`os_dep/os_intfs.c:3180`) is printed for any device
that is suspended while idle.

Fairness (all of it weak): the command thread, the check timer, the clock and a system
call go on; the host and the suspend are free to begin or not.

Proved in `PwrCtrlProofs`, for any operations and any `MaxPs`: `PwrTypeCorrect`,
`PwrBusyIsAwake`, `PwrWokenIsAwake`, `PwrSuspendAlone`, `PwrChainAlive`, from
`PwrInv`. To the properties it adds who holds the mutex and `ps_processing`
(`LockInv`), when there is a thread and that host and suspend exclude each other
(`PmInv`), and in `DenyInv` the argument the code rests on: once the host has set its
bit, the handler is either still before the lock, or will find `ips_deny_time` ahead
of the clock, or is done before the wait ends, or has missed the wake-up.
`IdlePowersDown` is model-checked.

## Transmit path

`TxContract` says what a driver owes the network stack for the packets it takes:
each is given back once, a subqueue is stopped only while a packet of it is owed,
and returning one that was not refused wakes it. `Xmit` is the path of a client's
data frames, and implements it: `KeepsContract` is `TxContract`'s specification
under the refinement that counts, per category, the packets held by its sender, its
queue and the tasklet (`Owed`).

| state | code |
|---|---|
| `host[a]` | where the sender of category `a` is in `_rtw_xmit_entry`, and whether it read a low count |
| `pool` | `free_xmitframe_cnt`, `free_xmitbuf_cnt`, buffers in URBs, a completion between giving its buffer back and scheduling |
| `servq[a]` | `sta_pending`, `qcnt`, `accnt`, whether `tx_pending` is linked into the `hw_xmit` |
| `net[a]` | the subqueue is stopped |
| `task` | `xmit_tasklet`: scheduled, its place, the category of its first frame |
| `env` | the station's entry while it is freed, a survey or join of either interface, `rtw_os_xmit_schedule` due, the device stopped or gone |

Steps are the sections under `pxmitpriv->lock` and the accesses between them; where
the lock is taken by `rtw_free_stainfo` the flush of each queue is a step. The run
`xmit` has two categories, each with its sender, two frames, two buffers, every kind
of failure, and surveys that end or time out. `PoolAccounted` accounts for
each frame and buffer at each step; `KickDue` says that queued frames are linked and
have a tasklet, a completion, a sender about to submit or the end of a survey that
comes for them; `Drains` that when no more is begun every packet is given back and
every subqueue open.

Two exceptions are recorded by the model and named in the properties. `env.late`:
frames were queued and a code path that was to come for them schedules nothing. There
are two, TLC reaches both, and `KickDue` says there is no third: a survey or join
that times out (`rtw_scan_timeout_handler`, `core/rtw_mlme.c:2473`) clears the state
that held frames back; and a sender whose URB cannot be submitted gives its buffer
back (`os_dep/usb_ops_linux.c:609`) when that was the last one out (`Strands`), and
those who queued a frame because it had the buffer are left. The frames wait for the
next completion. `net.refused`: a packet refused after it had
stopped its subqueue wakes nothing; with no other packet owed the subqueue stays
stopped until the interface is opened again.

Bounds: `Senders = 2` with `NBuf = 2` has as many buffers as senders, like the code
with four of each, so that a sender may find none while the others hold them all.
`NFrames = 2` with `StopAt = 1` has a pool at
its limit in nearly every state. Completions of one host controller run one after
another. `Busies` is the survey of this interface, which holds back senders and tasklet;
the other kind holds back senders only, and the theorems cover it. No deadlock check:
a dead device stops.

Fairness: as long as a sender, the tasklet, a completion, a survey or a begun
disconnect can go on, one of them does (`GoesOn`, one weak fairness for all; how they
share the processors is left open). Nothing is assumed of the stack, of the link or of a device that fails.

Proved in `XmitProofs`, for any categories, frames, buffers and senders and any
failures. `XmitTypeCorrect` and `XmitKeepsContract` rest on `XmitInv`: types, the three
counts of a queue agree and a queue with frames is linked (`QueueInv`), the tasklet
knows the category of the frame it holds (`TaskInv`), and the queues of a station that
was freed stay empty until the next join (`FlushedInv`, without which `Join` could
revive frames nobody comes for). For the contract each action is mapped to the step of
`TxContract` it does, through one lemma per kind of step (`MapsToTake`, `MapsToStop`,
`MapsToGiveBack`, `MapsToRefuse`, `QuietIsStutter`); `XmitStoppedIsOwed` then follows
from the contract alone: a stopped subqueue has a packet whose return wakes it, or was
stopped for a refused one. `XmitBuffersAccounted` counts the buffers (`BufInv`: free, in
URBs, with senders, with the tasklet; and at most `Senders` senders are inside), and
`XmitKickDue` needs it: with two buffers or more (`SeveralBuffers`; the code has four)
and any number of senders, who finds no buffer can rely on a completion or on a
sender that has one (`SomebodyHasOne`), and a sender that fails either leaves another
such behind or strands the queue (`StrandsOrComes`). `XmitPoolAccounted` adds the frames
(`FrameInv`): free, with the tasklet, and a sum over the categories of those queued and
with senders, which `SumLemmas` handles. Only `Drains` stays with TLC.

## Sleeping stations

`ApSleep` is what the driver as an access point does for stations that sleep:
frames into sleep queues, bits into the beacon, frames out for PS-Polls, U-APSD
triggers, stations that wake, and the broadcast entry after the beacon.

| state | code |
|---|---|
| `sta[s]` | `_FW_LINKED`, `WIFI_SLEEP_STATE`, `WIFI_STA_ALIVE_CHK_STATE` |
| `q[d]` | per destination and category the frames of `sleep_q` and of the pending queues; `sleepq_len`, `sleepq_ac_len` |
| `bits` | `sta_dz_bitmap`, `tim_bitmap`, the aids the TIM element of the beacon names |
| `tx`, `rx` | the sender and the receive tasklet between their sections under the lock |
| `cmd` | `tx_beacon`, `chk_bmc_sleepq` and `chk_hi_queue` queued, where the command thread is, and whether a beacon has failed with multicast frames held and none has been held since (`failed`, history) |

`pxmitpriv->lock` and `sta_hash_lock` count as one lock: a handler finds its station
and takes the lock in one step. (In the code they are two, taken in opposite orders
by `rtw_xmit`, which looks its station up under the first, and `rtw_free_stainfo`,
which runs under the second: the deadlock in the list of hazards.) A frame handed
over for a station that is no longer linked is freed.

The run `apsleep` has a station with one legacy and one delivery-enabled category
that comes, goes and falls silent, one with both delivery-enabled and an aid above
7, which sleeps and wakes but has no frames of its own, and multicast frames. `SleepAccounted`: `sleepq_len` is the length of the queue
and `sleepq_ac_len` never short of what it counts, so neither wraps, and a freed
station leaves no bit and no frame. `TimTold`: a frame a sleeper must be told of has
its bit, and the beacon's element has it or the thread or tasklet about to write it
(the element in the driver's memory: a `send_beacon` that fails does not bring it to
the device).
`BmcServed` and `BmcLeaves`: multicast frames held for sleepers have their bit and a
command that sends them, and are sent.

What the model excepts, by name: `bits.raced`, destinations whose bit or length was
cleared without the lock behind a frame queued meanwhile (`rtw_chk_hi_queue_hdl`, and
`rtw_free_stainfo` of a station that never associated, whose aid 0 is the bit of
multicast); the next multicast frame heals it. `cmd.failed`: `send_beacon` gave up,
after 100 attempts on a live device, and `tx_beacon_hdl` returned without
`chk_bmc_sleepq_hdl` (`core/rtw_mlme_ext.c:12646`, action `CmdBeaconFails`): the command is
spent, and held multicast frames keep their bit and wait, for another `tx_beacon` or for
the next multicast frame, which asks for `chk_bmc_sleepq`. That frame ends the exception,
so `BmcServed` and `BmcLeaves` check that it does help. Aids of 8 and above alone, which
`update_BCNTIM` puts in the wrong byte (`core/rtw_ap.c:165`). With
`PollRace = TRUE` other contexts run between the two steps of a PS-Poll that finds
nothing: a frame queued there loses its bit and its count, and its destination is in
`raced` as well. That length then wraps when the frame leaves. The run keeps this off,
for with `BmcLeaves` the state space is then too large for a run of minutes; the
invariants hold either way (proved).

Bounds: `NFrames = 2` frames in the driver at a time; `OverMax = 1` is how far PS-Polls,
which take frames of any category without counting `sleepq_ac_len` down, may put it
off (without bound in the code); `Movers` and `Traffic` choose one station to move
and frames for it and for all. Aids stay below 16, the width of the bitmaps, though
the code hands out up to 32. A hardware queue that is not yet empty makes
`rtw_chk_hi_queue_hdl` ask again, a step that changes nothing. Peers send data only
while associated, and a reassociation of a sleeping station is left out, as is a
command that cannot be queued for want of memory. No deadlock
check: a quiet network stops.

Fairness: the command thread serves its queue in order, so each command queued again
and again is served (`SF`; `tx_beacon` with either outcome, a download that works is
not assumed), and it comes back from a command it has begun.

Proved in `ApSleepProofs`, for any stations, categories, delivery-enabled sets,
identifiers below 16 and numbers of frames, and for both values of `PollRace`:
`ApTypeCorrect`, `ApSleepAccounted`, `ApTimTold`, `ApBmcServed`. Their invariant `ApInv`
adds to the properties

- `AccInv`: both lengths agree also while the station is away, and those of multicast
  whatever happens to its bit (the bit may be raced, the length is only zeroed for
  stations);
- `ApartInv` and `AwakeInv`: who is gone has nothing, and who is awake has no frame
  held, so that falling asleep begins with an empty queue;
- `BitInv` and `ToldInv`, the two halves of `TimTold`: a frame that has to be told of
  has its bit, and any bit that is set is in the beacon's element, or a handler will
  put it there. The second is about all bits: the element is written from the whole
  of `tim_bitmap`, whoever the frame was for.

Falling asleep, waking, a trigger and a poll have lemmas of their own on what they leave
in a queue.
`BmcLeaves` stays with TLC.

## Not modelled

Planned: USB access, life cycle, mailboxes, the station table. After them, as far as
worth it: P2P negotiation, the CAM table, LED, bridge extension, firmware download,
the counters of security. Left out of modelled components: leisure power saving;
management frames, their buffers, the one `ack_tx_ops` all acknowledged ones share,
and fragmentation in the transmit path; authentication, association and the rest of
the beacon on the access point's side; defragmentation and decryption on receive. Not planned:
radio control and hardware initialisation, whose meaning is in the chip and not in
the repository; Bluetooth coexistence beyond its choice of mechanism; cryptography;
parsers of frames; wireless extensions and private ioctls, which copy parameters and
call what is modelled; proc files; generated tables; code that is not compiled.
`PROJECT.json` lists each with its files.

## What TLC shows and what is proved

TLC explores each instance completely, within the bounds above. The theorems hold
for every value of the constants that satisfies the named assumptions of the
modules, and for the hypotheses they state: `Patient` for the life of the command
thread, `OneSession` for the order of received frames, one CPU for `FreedIsQuiet`,
`SeveralBuffers` for `KickDue`. Every invariant of a passing run is stated by a theorem,
and so is the refinement of `TxContract`.

Left to TLC: the properties that say something happens in the end
(`UnloadCompletes`, `QueuedIsTaken`, `RxReturns`, `BufferedIsIndicated`, `ScanEnds`,
`IdlePowersDown`, `Drains`, `BmcLeaves`), for liveness under fairness is
beyond the proof system; and the violations.

Sums over a finite set (`SumFunctionOnSet`) are folds, whose value for every set would
need an induction the installed provers cannot instantiate. `SumLemmas` goes round it:
if a claim fails for some subset of a finite set, it fails for a minimal one (the strict
subset order is well founded, `FiniteSetTheorems`), and removing an element from that
contradicts it. What the sum does when one summand changes, and that it is 0 exactly
when all are, then follows for any set of categories. The modules avoid recursive
operators so that all of them can be reasoned about.

To repeat: `tlc -config <cfg> MC<module>.tla` for a run (`PROJECT.json` lists
them), `tlapm <module>Proofs.tla` for the proofs.
