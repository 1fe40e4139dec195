-------------------------------- MODULE Xmit --------------------------------
(* The transmit path of a client: core/rtw_xmit.c, hal/rtl8723bu_xmit.c,      *)
(* hal/usb_ops.c, os_dep/xmit_linux.c and os_dep/usb_ops_linux.c.  One access *)
(* category has one sender (the stack serialises ndo_start_xmit per           *)
(* subqueue), one tx_servq of the AP's sta_info and one hw_xmit; a frame is   *)
(* counted where it lies.                                                     *)
(*   host   where the sender of each category is in _rtw_xmit_entry           *)
(*   pool   free_xmitframe_cnt, free_xmitbuf_cnt, the buffers in an URB       *)
(*          (air), whether a completion gave its buffer back and has not yet  *)
(*          scheduled the tasklet (back; completions run one after another)   *)
(*   servq  sta_pending, qcnt, accnt, and whether tx_pending is linked into   *)
(*          the hw_xmit's list                                                *)
(*   net    the subqueue is stopped; refused: it was stopped for a packet     *)
(*          that was then refused, and no packet was given back since         *)
(*   task   xmit_tasklet: scheduled, where it is, the category of its first   *)
(*          frame                                                             *)
(*   env    the AP's sta_info (linked; leaving: _FW_LINKED cleared; flushing: *)
(*          rtw_free_stainfo holds pxmitpriv->lock), a survey or join of this *)
(*          interface or its buddy, whether rtw_os_xmit_schedule is due,      *)
(*          bDriverStopped or bSurpriseRemoved; late (history): frames were   *)
(*          left to a code path that schedules nothing, and the tasklet has   *)
(*          not run since: a survey or join timed out, or the last buffer     *)
(*          that was out came back from a sender without an URB               *)
(* Steps are the sections under pxmitpriv->lock and the accesses between      *)
(* them.  Aggregation takes any number of frames that fit.                    *)
EXTENDS Naturals, FiniteSetsExt

CONSTANTS Acs,        \* access categories
          Before,     \* Before[a]: those rtw_dequeue_xframe serves before a
          NFrames,    \* NR_XMITFRAME
          StopAt,     \* _rtw_xmit_entry stops the subqueue at this many free
          NBuf,       \* NR_XMITBUFF
          Senders,    \* bound: senders inside _rtw_xmit_entry at a time
          Busies,     \* among survey (of this interface), other (its join, the buddy's)
          CanFail     \* among attrib, coalesce, submit, urb

ASSUME XmitAssumption ==
    /\ IsFiniteSet(Acs) /\ Before \in [Acs -> SUBSET Acs]
    /\ NFrames \in Nat /\ StopAt \in Nat /\ NBuf \in Nat
    /\ Senders \in Nat
    /\ Busies \subseteq {"survey", "other"}
    /\ CanFail \subseteq {"attrib", "coalesce", "submit", "urb"}

VARIABLES host, pool, servq, net, task, env
vars == <<host, pool, servq, net, task, env>>

HostPcs == {"idle", "check", "alloc", "attrib", "pre", "direct", "sent"}
TaskPcs == {"idle", "top", "first", "release", "coalesce", "agg", "submit"}
HostStates == [pc : HostPcs, low : BOOLEAN]
PoolStates == [frames : Nat, bufs : Nat, air : Nat, back : BOOLEAN]
ServqStates == [len : Nat, qcnt : Nat, accnt : Nat, listed : BOOLEAN]
NetStates == [stopped : BOOLEAN, refused : BOOLEAN]
TaskStates == [sched : BOOLEAN, pc : TaskPcs, ac : Acs \cup {"none"}]
EnvStates == [sta : {"gone", "linked", "leaving", "flushing", "flushed"},
              busy : {"none", "survey", "other"}, due : BOOLEAN, late : BOOLEAN,
              dead : BOOLEAN]
TypeOK ==
    /\ host \in [Acs -> HostStates] /\ pool \in PoolStates
    /\ servq \in [Acs -> ServqStates] /\ net \in [Acs -> NetStates]
    /\ task \in TaskStates /\ env \in EnvStates

Init ==
    /\ host = [a \in Acs |-> [pc |-> "idle", low |-> FALSE]]
    /\ pool = [frames |-> NFrames, bufs |-> NBuf, air |-> 0, back |-> FALSE]
    /\ servq = [a \in Acs |-> [len |-> 0, qcnt |-> 0, accnt |-> 0, listed |-> FALSE]]
    /\ net = [a \in Acs |-> [stopped |-> FALSE, refused |-> FALSE]]
    /\ task = [sched |-> FALSE, pc |-> "idle", ac |-> "none"]
    /\ env = [sta |-> "gone", busy |-> "none", due |-> FALSE, late |-> FALSE,
              dead |-> FALSE]

HostAt(a, pc) == host' = [host EXCEPT ![a] = [pc |-> pc, low |-> FALSE]]
TaskAt(pc) == task' = [task EXCEPT !.pc = pc]
TaskLets(pc) == task' = [task EXCEPT !.pc = pc, !.ac = "none"]
Schedule == task' = [task EXCEPT !.sched = TRUE]
MayFail(what) == what \in CanFail

\* rtw_os_pkt_complete wakes the packet's subqueue if it is stopped.
PktComplete(a) == net' = [net EXCEPT ![a] = [stopped |-> FALSE, refused |-> FALSE]]

\* rtw_skb_free on the drop_packet path of _rtw_xmit_entry wakes nothing.
PktRefused(a) == net' = [net EXCEPT ![a].refused = @ \/ net[a].stopped]

\* pxmitpriv->lock is free: rtw_free_stainfo keeps it while it flushes.
LockFree == env.sta # "flushing"

\* rtw_xmit_classifier and rtw_dequeue_xframe on the tx_servq of a.
Enqueued(a) ==
    [len |-> servq[a].len + 1, qcnt |-> servq[a].qcnt + 1,
     accnt |-> servq[a].accnt + 1, listed |-> TRUE]
Shortened_Unlinks(a, n) ==    \* mutant: tx_pending unlinked whatever is left
    [len |-> servq[a].len - n, qcnt |-> servq[a].qcnt - n,
     accnt |-> servq[a].accnt - n, listed |-> FALSE]
Shortened(a, n) ==
    [len |-> servq[a].len - n, qcnt |-> servq[a].qcnt - n,
     accnt |-> servq[a].accnt - n,
     listed |-> servq[a].listed /\ servq[a].len # n]

-----------------------------------------------------------------------------
(* The sender: _rtw_xmit_entry, rtw_xmit, pre_xmitframe.                     *)

\* rtw_if_up lets the packet in; rtw_check_xmit_resource reads the counter and
\* then stops the subqueue.
Entry(a) ==
    /\ host[a].pc = "idle" /\ ~net[a].stopped
    /\ Cardinality({b \in Acs : host[b].pc # "idle"}) < Senders
    /\ env.sta # "gone" /\ ~env.dead
    /\ host' = [host EXCEPT ![a] = [pc |-> "check", low |-> pool.frames <= StopAt]]
    /\ UNCHANGED <<pool, servq, net, task, env>>

CheckResource(a) ==
    /\ host[a].pc = "check"
    /\ HostAt(a, "alloc")
    /\ net' = [net EXCEPT ![a].stopped = @ \/ host[a].low]
    /\ UNCHANGED <<pool, servq, task, env>>

\* rtw_alloc_xmitframe; a packet without a frame is refused.
AllocFrame(a) ==
    /\ host[a].pc = "alloc"
    /\ \/ /\ pool.frames > 0
          /\ pool' = [pool EXCEPT !.frames = @ - 1]
          /\ HostAt(a, "attrib") /\ UNCHANGED net
       \/ /\ pool.frames = 0
          /\ HostAt(a, "idle") /\ PktRefused(a) /\ UNCHANGED pool
    /\ UNCHANGED <<servq, task, env>>

\* update_attrib fails without a linked station, or on its security state.
UpdateAttrib(a) ==
    /\ host[a].pc = "attrib"
    /\ \/ /\ env.sta = "linked"
          /\ HostAt(a, "pre") /\ UNCHANGED <<pool, net>>
       \/ /\ env.sta # "linked" \/ MayFail("attrib")
          /\ pool' = [pool EXCEPT !.frames = @ + 1]
          /\ HostAt(a, "idle") /\ PktRefused(a)
    /\ UNCHANGED <<servq, task, env>>

MustEnqueue_NoBuf(a) ==    \* mutant: the buffer is not tested for NULL
    \/ env.sta = "linked" /\ servq[a].qcnt > 0
    \/ env.busy # "none"
\* pre_xmitframe enqueues behind frames of the same tx_servq, during a survey or
\* a join, and without a buffer.  rtw_txframes_sta_ac_pending answers 0 for a
\* station that is not linked.
MustEnqueue(a) ==
    \/ env.sta = "linked" /\ servq[a].qcnt > 0
    \/ env.busy # "none"
    \/ pool.bufs = 0

PreEnqueue(a) ==
    /\ host[a].pc = "pre" /\ LockFree /\ MustEnqueue(a)
    /\ HostAt(a, "idle")
    /\ \/ /\ env.sta = "linked"
          /\ servq' = [servq EXCEPT ![a] = Enqueued(a)]
          /\ UNCHANGED <<pool, net>>
       \/ /\ env.sta # "linked"
          /\ pool' = [pool EXCEPT !.frames = @ + 1]
          /\ PktComplete(a) /\ UNCHANGED servq
    /\ UNCHANGED <<task, env>>

PreDirect(a) ==
    /\ host[a].pc = "pre" /\ LockFree /\ ~MustEnqueue(a)
    /\ pool' = [pool EXCEPT !.bufs = @ - 1]
    /\ HostAt(a, "direct")
    /\ UNCHANGED <<servq, net, task, env>>

Queued == \E a \in Acs : servq[a].len > 0

\* When the sender of a gives its buffer back without an URB, frames queued for want
\* of a buffer are left alone: no other buffer is on an URB, with a sender, or with a
\* tasklet that will look at the queues again.
Strands(a) ==
    /\ Queued /\ pool.air = 0 /\ task.pc \in {"idle", "release"}
    /\ \A b \in Acs \ {a} : host[b].pc # "direct"

\* usb_write_port of a buffer, which frees n frames as well: a dead device denies
\* it, usb_submit_urb may fail, and for -ENODEV stops the driver; both give the
\* buffer back and schedule nothing.
WritePort(n, strands) ==
    \/ /\ ~env.dead
       /\ pool' = [pool EXCEPT !.air = @ + 1, !.frames = @ + n]
       /\ UNCHANGED env
    \/ /\ env.dead \/ MayFail("submit")
       /\ pool' = [pool EXCEPT !.bufs = @ + 1, !.frames = @ + n]
       /\ \E dead \in BOOLEAN :
             env' = [env EXCEPT !.dead = @ \/ dead, !.late = @ \/ strands]

\* xmitframe_direct: rtw_dump_xframe after rtw_xmitframe_coalesce.
XmitDirect(a) ==
    /\ host[a].pc = "direct"
    /\ WritePort(0, Strands(a)) /\ HostAt(a, "sent")
    /\ UNCHANGED <<servq, net, task>>

XmitDirectFails(a) ==
    /\ host[a].pc = "direct" /\ (MayFail("coalesce") \/ env.sta # "linked")
    /\ pool' = [pool EXCEPT !.bufs = @ + 1, !.frames = @ + 1]
    /\ PktComplete(a) /\ HostAt(a, "idle")
    /\ env' = [env EXCEPT !.late = @ \/ Strands(a)]
    /\ UNCHANGED <<servq, task>>

XmitSent(a) ==
    /\ host[a].pc = "sent"
    /\ pool' = [pool EXCEPT !.frames = @ + 1]
    /\ PktComplete(a) /\ HostAt(a, "idle")
    /\ UNCHANGED <<servq, task, env>>

-----------------------------------------------------------------------------
(* rtl8723bu_xmit_tasklet and rtl8723bu_xmitframe_complete.                  *)

TaskRun ==
    /\ task.sched /\ task.pc = "idle"
    /\ task' = [task EXCEPT !.sched = FALSE,
                            !.pc = IF env.busy = "survey" THEN "idle" ELSE "top"]
    /\ env' = [env EXCEPT !.late = @ /\ env.busy = "survey"]
    /\ UNCHANGED <<host, pool, servq, net>>

TaskTop ==
    /\ task.pc = "top"
    /\ IF env.dead \/ pool.bufs = 0
       THEN TaskAt("idle") /\ UNCHANGED pool
       ELSE TaskAt("first") /\ pool' = [pool EXCEPT !.bufs = @ - 1]
    /\ UNCHANGED <<host, servq, net, env>>

\* rtw_dequeue_xframe walks the hw_xmits in order and each one's list.
IsFirst(a) ==
    /\ servq[a].listed /\ servq[a].len > 0
    /\ \A b \in Before[a] : ~(servq[b].listed /\ servq[b].len > 0)

TaskFirst(a) ==
    /\ task.pc = "first" /\ LockFree /\ IsFirst(a)
    /\ servq' = [servq EXCEPT ![a] = Shortened(a, 1)]
    /\ task' = [task EXCEPT !.pc = "coalesce", !.ac = a]
    /\ UNCHANGED <<host, pool, net, env>>

TaskNone ==
    /\ task.pc = "first" /\ LockFree
    /\ \A a \in Acs : ~(servq[a].listed /\ servq[a].len > 0)
    /\ TaskAt("release")
    /\ UNCHANGED <<host, pool, servq, net, env>>

TaskRelease ==
    /\ task.pc = "release"
    /\ pool' = [pool EXCEPT !.bufs = @ + 1]
    /\ TaskAt("idle")
    /\ UNCHANGED <<host, servq, net, env>>

\* The packet of the first frame goes back as soon as it is copied.
TaskCoalesce ==
    /\ task.pc = "coalesce"
    /\ PktComplete(task.ac) /\ TaskAt("agg")
    /\ UNCHANGED <<host, pool, servq, env>>

TaskCoalesceFails_Leaks ==    \* mutant: the frame is not freed before the next
    /\ task.pc = "coalesce" /\ (MayFail("coalesce") \/ env.sta # "linked")
    /\ PktComplete(task.ac) /\ TaskLets("first")
    /\ UNCHANGED <<host, pool, servq, env>>
TaskCoalesceFails ==
    /\ task.pc = "coalesce" /\ (MayFail("coalesce") \/ env.sta # "linked")
    /\ pool' = [pool EXCEPT !.frames = @ + 1]
    /\ PktComplete(task.ac) /\ TaskLets("first")
    /\ UNCHANGED <<host, servq, env>>

\* Frames of the same tx_servq that fit go into the buffer; each gives its packet
\* and itself back.
TaskAggregate ==
    /\ task.pc = "agg" /\ LockFree
    /\ \E n \in 0 .. servq[task.ac].len :
         /\ servq' = [servq EXCEPT ![task.ac] = Shortened(task.ac, n)]
         /\ pool' = [pool EXCEPT !.frames = @ + n]
         /\ IF n > 0 THEN PktComplete(task.ac) ELSE UNCHANGED net
    /\ TaskAt("submit")
    /\ UNCHANGED <<host, env>>

TaskSubmit ==
    /\ task.pc = "submit"
    /\ WritePort(1, FALSE) /\ TaskLets("top")
    /\ UNCHANGED <<host, servq, net>>

-----------------------------------------------------------------------------
(* usb_write_port_complete: the buffer first, the tasklet after it.  An      *)
(* error of the URB stops the driver or declares the device removed.         *)

UrbDone ==
    /\ pool.air > 0 /\ ~pool.back
    /\ pool' = [pool EXCEPT !.air = @ - 1, !.bufs = @ + 1, !.back = TRUE]
    /\ \E dead \in BOOLEAN :
         /\ dead => env.dead \/ MayFail("urb")
         /\ env' = [env EXCEPT !.dead = @ \/ dead]
    /\ UNCHANGED <<host, servq, net, task>>

UrbSchedules ==
    /\ pool.back
    /\ pool' = [pool EXCEPT !.back = FALSE]
    /\ Schedule
    /\ UNCHANGED <<host, servq, net, env>>

-----------------------------------------------------------------------------
(* The link, and the surveys and joins of this interface and its buddy.      *)

\* A survey of this interface keeps its tasklet away, anything else only senders.
BusyBegin ==
    /\ env.busy = "none" /\ ~env.dead
    /\ \E kind \in Busies : env' = [env EXCEPT !.busy = kind]
    /\ UNCHANGED <<host, pool, servq, net, task>>

BusyEnd_Silent ==    \* mutant: the end of a survey schedules nothing
    /\ env.busy # "none"
    /\ env' = [env EXCEPT !.busy = "none"]
    /\ UNCHANGED <<host, pool, servq, net, task>>
\* rtw_surveydone_event_callback and rtw_joinbss_event_callback schedule both
\* interfaces' tasklets after the state is cleared.
BusyEnd ==
    /\ env.busy # "none"
    /\ env' = [env EXCEPT !.busy = "none", !.due = TRUE]
    /\ UNCHANGED <<host, pool, servq, net, task>>

\* rtw_scan_timeout_handler and _rtw_join_timeout_handler clear the same state.
BusyTimesOut ==
    /\ env.busy # "none"
    /\ env' = [env EXCEPT !.busy = "none", !.late = @ \/ Queued]
    /\ UNCHANGED <<host, pool, servq, net, task>>

XmitSchedule ==
    /\ env.due /\ LockFree
    /\ env' = [env EXCEPT !.due = FALSE]
    /\ IF \E a \in Acs : servq[a].listed THEN Schedule ELSE UNCHANGED task
    /\ UNCHANGED <<host, pool, servq, net>>

Join ==
    /\ env.sta = "gone" /\ ~env.dead
    /\ env' = [env EXCEPT !.sta = "linked"]
    /\ UNCHANGED <<host, pool, servq, net, task>>

\* rtw_free_stainfo: _FW_LINKED is cleared before the lock is taken, the lock is
\* held while the four queues are flushed.
LeaveUnlink ==
    /\ env.sta = "linked"
    /\ env' = [env EXCEPT !.sta = "leaving"]
    /\ UNCHANGED <<host, pool, servq, net, task>>

LeaveLock ==
    /\ env.sta = "leaving"
    /\ env' = [env EXCEPT !.sta = "flushing"]
    /\ UNCHANGED <<host, pool, servq, net, task>>

FlushQueue_NoWake(a) ==    \* mutant: the packets of a flushed queue wake nothing
    /\ env.sta = "flushing" /\ servq[a] # [len |-> 0, qcnt |-> 0, accnt |-> 0, listed |-> FALSE]
    /\ servq' = [servq EXCEPT ![a] = [len |-> 0, qcnt |-> 0,
                    accnt |-> servq[a].accnt - servq[a].qcnt, listed |-> FALSE]]
    /\ pool' = [pool EXCEPT !.frames = @ + servq[a].len]
    /\ UNCHANGED <<host, net, task, env>>
FlushQueue(a) ==
    /\ env.sta = "flushing" /\ servq[a] # [len |-> 0, qcnt |-> 0, accnt |-> 0, listed |-> FALSE]
    /\ servq' = [servq EXCEPT ![a] = [len |-> 0, qcnt |-> 0,
                    accnt |-> servq[a].accnt - servq[a].qcnt, listed |-> FALSE]]
    /\ pool' = [pool EXCEPT !.frames = @ + servq[a].len]
    /\ IF servq[a].len > 0 THEN PktComplete(a) ELSE UNCHANGED net
    /\ UNCHANGED <<host, task, env>>

LeaveUnlock ==
    /\ env.sta = "flushing"
    /\ \A a \in Acs : servq[a].len = 0 /\ ~servq[a].listed
    /\ env' = [env EXCEPT !.sta = "flushed"]
    /\ UNCHANGED <<host, pool, servq, net, task>>

\* rtw_indicate_disconnect clears the interface's _FW_LINKED.
LeaveIndicate ==
    /\ env.sta = "flushed"
    /\ env' = [env EXCEPT !.sta = "gone"]
    /\ UNCHANGED <<host, pool, servq, net, task>>

-----------------------------------------------------------------------------
Sender(a) ==
    \/ CheckResource(a) \/ AllocFrame(a) \/ UpdateAttrib(a)
    \/ PreEnqueue(a) \/ PreDirect(a)
    \/ XmitDirect(a) \/ XmitDirectFails(a) \/ XmitSent(a)
Tasklet ==
    \/ TaskRun \/ TaskTop \/ TaskNone \/ TaskRelease
    \/ \E a \in Acs : TaskFirst(a)
    \/ TaskCoalesce \/ TaskCoalesceFails \/ TaskAggregate \/ TaskSubmit
Flush ==
    \/ LeaveLock \/ LeaveUnlock \/ LeaveIndicate
    \/ \E a \in Acs : FlushQueue(a)
Next ==
    \/ \E a \in Acs : Entry(a) \/ Sender(a)
    \/ Tasklet
    \/ UrbDone \/ UrbSchedules
    \/ BusyBegin \/ BusyEnd \/ BusyTimesOut \/ XmitSchedule
    \/ Join \/ LeaveUnlink \/ Flush

Spec == Init /\ [][Next]_vars

\* What has begun goes on: a sender that entered, a scheduled tasklet, an URB, a
\* survey, a join, a disconnect; and a device that fails is disconnected.  Nothing is
\* asked of how these share the processors.
GoesOn ==
    \/ \E a \in Acs : Sender(a)
    \/ Tasklet \/ UrbDone \/ UrbSchedules
    \/ BusyEnd \/ BusyTimesOut \/ XmitSchedule
    \/ Flush \/ (env.dead /\ LeaveUnlink)
FairSpec == Spec /\ WF_vars(GoesOn)

-----------------------------------------------------------------------------
(* Properties.                                                               *)

Total(f) == SumFunctionOnSet(f, Acs)
InTask == task.pc \in {"coalesce", "agg", "submit"}

\* The frames of a category that lie in its queue or are with its sender.
FramesOf(a) ==
    servq[a].len + (IF host[a].pc \in {"attrib", "pre", "direct", "sent"} THEN 1 ELSE 0)

\* No frame and no buffer is lost or counted twice, whoever has it: the senders,
\* the queues, the tasklet, the URBs or the free lists; and the three counts of a
\* queue (sta_pending, qcnt, accnt) agree.
PoolAccounted ==
    /\ pool.frames + Total([a \in Acs |-> FramesOf(a)])
         + (IF InTask THEN 1 ELSE 0) = NFrames
    /\ pool.bufs + pool.air
         + Total([a \in Acs |-> IF host[a].pc = "direct" THEN 1 ELSE 0])
         + (IF InTask \/ task.pc \in {"first", "release"} THEN 1 ELSE 0) = NBuf
    /\ \A a \in Acs : servq[a].qcnt = servq[a].len /\ servq[a].accnt = servq[a].len

\* Frames that lie in a queue of a linked station are on the hw_xmit's list and
\* have somebody who will come for them: the tasklet, a completion that
\* schedules it, a sender on the way to its URB, or the end of the survey or join
\* they wait for.  Nothing polls.  Two code paths leave frames to the next completion
\* (late): a survey or join that times out, and a sender that gives back the last
\* buffer without an URB.
KickDue ==
    \A a \in Acs : servq[a].len > 0 =>
        \/ env.dead \/ env.sta # "linked"
        \/ /\ servq[a].listed
           /\ \/ task.sched \/ task.pc = "top" \/ task.pc = "first" \/ InTask
              \/ pool.air > 0 \/ pool.back \/ \E b \in Acs : host[b].pc = "direct"
              \/ env.busy # "none" \/ env.due \/ env.late

\* The packets of a subqueue the driver has taken and not given back.
Owed(a) ==
    servq[a].len + (IF host[a].pc # "idle" THEN 1 ELSE 0)
                 + (IF task.pc = "coalesce" /\ task.ac = a THEN 1 ELSE 0)

\* The driver keeps the contract of TxContract with the network stack: it takes
\* packets only from subqueues it has not stopped, gives each back once, and wakes
\* the subqueue when it gives one back that it has not refused.
Contract ==
    INSTANCE TxContract WITH owed <- [a \in Acs |-> Owed(a)],
                             stopped <- [a \in Acs |-> net[a].stopped],
                             refused <- [a \in Acs |-> net[a].refused]
KeepsContract == Contract!Spec

\* The stack sends no more, no survey or join runs, and no disconnect.
NoMore ==
    /\ env.busy = "none" /\ env.sta \in {"gone", "linked"}
    /\ \A a \in Acs : host[a].pc # "check"

\* When no more is begun, every packet taken is given back in the end, also by a
\* device that fails, and every subqueue is open again but for one stopped for a
\* refused packet.  Packets left to a code path that schedules nothing (late) may lie
\* there until something else is sent.
Drains ==
    <>[]NoMore => <>[](\/ env.late
             \/ \A a \in Acs : Owed(a) = 0 /\ (net[a].stopped => net[a].refused))
=============================================================================
