------------------------------- MODULE PwrCtrl -------------------------------
(* Inactive power saving (IPS) of core/rtw_pwrctrl.c: a radio nobody uses is *)
(* switched off by the command thread, and switched on by the host's next    *)
(* operation.  Around it: the suspend and resume of os_dep/os_intfs.c, the   *)
(* 2 s check timer, and the surveys, joins and frames that need the radio.   *)
(*   pwr    pwrctrl_priv: rf_pwrstate, bpower_saving, ps_processing,         *)
(*          bInSuspend, the holder of its mutex, ps_deny as a set of         *)
(*          reasons, and ips_deny_time against the clock                     *)
(*   nic    hw_init_completed, bup, pwr_state_check_timer, and what uses the *)
(*          radio: fw_state's surveys, joins and links, and frames in URBs   *)
(*   thr    the command thread: running, the queued calls of                 *)
(*          rtw_ps_processor, where it is in one, and whether this one       *)
(*          missed a wake-up (missed, a history variable)                    *)
(*   host   the operation of the host, one at a time under rtnl_lock         *)
(*   pm     the system's suspend and resume.  User processes are frozen      *)
(*          first, so an operation of the host and a suspend exclude each    *)
(*          other; timers and the command thread go on.                      *)
(* ips_mode_req is not IPS_NONE.  Leisure power saving is left out.          *)
EXTENDS Naturals

CONSTANTS MaxPs,     \* rtw_ps_cmd is not called with more calls in the queue
          Denying,   \* operations that set their ps_deny bit: scan, join, tx
          Calling    \* operations that only call rtw_pwr_wakeup: iface

ASSUME PwrAssumption ==
    /\ MaxPs \in Nat
    /\ Denying \subseteq {"scan", "join", "tx"} /\ Calling \subseteq {"iface"}

VARIABLES pwr, nic, thr, host, pm
vars == <<pwr, nic, thr, host, pm>>

Uses == {"survey", "linking", "linked", "tx"}
ThrPcs == {"idle", "deny", "checked", "idlecheck", "enter", "down", "off", "exit"}
HostPcs == {"idle", "deny", "defer", "wait", "rf", "leave", "up", "done", "woken",
            "cancel"}
PmPcs == {"on", "begin", "deny", "cancel", "stop", "unload", "off", "resumed"}

PwrStates ==
    [rf : {"on", "off"}, saving : BOOLEAN, ps : BOOLEAN, insusp : BOOLEAN,
     lock : {"free", "thr", "host"}, deny : SUBSET (Denying \cup {"suspend"}),
     until : {"past", "now", "future"}]
NicStates == [hw : BOOLEAN, up : BOOLEAN, timer : BOOLEAN, use : SUBSET Uses]
ThrStates == [run : BOOLEAN, q : 0 .. MaxPs, pc : ThrPcs, missed : BOOLEAN]
HostStates == [pc : HostPcs, op : Denying \cup Calling \cup {"none"}]
TypeOK ==
    /\ pwr \in PwrStates /\ nic \in NicStates /\ thr \in ThrStates
    /\ host \in HostStates /\ pm \in PmPcs

\* The driver is probed and its interface not yet open.
Init ==
    /\ pwr = [rf |-> "on", saving |-> FALSE, ps |-> FALSE, insusp |-> FALSE,
              lock |-> "free", deny |-> {}, until |-> "past"]
    /\ nic = [hw |-> FALSE, up |-> FALSE, timer |-> FALSE, use |-> {}]
    /\ thr = [run |-> FALSE, q |-> 0, pc |-> "idle", missed |-> FALSE]
    /\ host = [pc |-> "idle", op |-> "none"]
    /\ pm = "on"

ThrAt(pc) == thr' = [thr EXCEPT !.pc = pc]
HostAt(pc) == host' = [host EXCEPT !.pc = pc]
Active == nic.use # {}

\* A call of rtw_ps_processor misses the wake-up of an operation that set its ps_deny
\* bit.  The handler read ps_deny before, and has only ips_deny_time left to see the
\* operation by; and the operation has only ps_processing to see the handler by.
Waking == host.op \in Denying /\ host.pc \in {"wait", "rf", "leave", "up", "done", "woken"}
PastDeny == thr.pc \in {"checked", "idlecheck"}

-----------------------------------------------------------------------------
(* The clock and the timers.                                                 *)

\* ips_deny_time comes to lie behind the clock, at any time: also while the handler
\* is between its look at ps_deny and its look at ips_deny_time.
Tick ==
    /\ pwr.until # "past"
    /\ pwr' = [pwr EXCEPT !.until = "past"]
    /\ thr' = [thr EXCEPT !.missed = @ \/ (PastDeny /\ Waking)]
    /\ UNCHANGED <<nic, host, pm>>

\* pwr_state_check_handler, rtw_ps_cmd: rtw_enqueue_cmd refuses the command when
\* the hardware is down or there is no thread.  The 2 s timer does not fire
\* between _netdev_open and the end of the resume.
CheckTimer ==
    /\ nic.timer /\ pm # "resumed"
    /\ nic' = [nic EXCEPT !.timer = FALSE]
    /\ IF nic.hw /\ thr.run THEN thr.q < MaxPs /\ thr' = [thr EXCEPT !.q = @ + 1]
                            ELSE UNCHANGED thr
    /\ UNCHANGED <<pwr, host, pm>>

-----------------------------------------------------------------------------
(* rtw_ps_processor, in the command thread.                                  *)

TakePs_Empty ==    \* mutant: the queue may be empty
    /\ thr.run /\ thr.pc = "idle"
    /\ thr' = [thr EXCEPT !.q = @ - 1, !.pc = IF nic.hw THEN "deny" ELSE "idle",
                          !.missed = @ /\ ~nic.hw]
    /\ UNCHANGED <<pwr, nic, host, pm>>
\* The thread drops the command when the hardware went down meanwhile.
TakePs ==
    /\ thr.run /\ thr.pc = "idle" /\ thr.q > 0
    /\ thr' = [thr EXCEPT !.q = @ - 1, !.pc = IF nic.hw THEN "deny" ELSE "idle",
                          !.missed = @ /\ ~nic.hw]
    /\ UNCHANGED <<pwr, nic, host, pm>>

PsDeny ==
    /\ thr.pc = "deny" /\ pwr.lock = "free"
    /\ ThrAt(IF pwr.deny = {} THEN "checked" ELSE "exit")
    /\ UNCHANGED <<pwr, nic, host, pm>>

\* During a suspend it returns without setting its timer again.
PsBegin ==
    /\ thr.pc = "checked"
    /\ ThrAt(IF pwr.insusp THEN "idle" ELSE "idlecheck")
    /\ pwr' = [pwr EXCEPT !.ps = ~pwr.insusp]
    /\ UNCHANGED <<nic, host, pm>>

\* rtw_pwr_unassociated_idle, then rf_pwrstate.
UnassociatedIdle == ~pwr.saving /\ pwr.until = "past" /\ ~Active
PsIdle ==
    /\ thr.pc = "idlecheck"
    /\ ThrAt(IF UnassociatedIdle /\ pwr.rf = "on" THEN "enter" ELSE "exit")
    /\ UNCHANGED <<pwr, nic, host, pm>>

\* ips_enter.
IpsEnter ==
    /\ thr.pc = "enter" /\ pwr.lock = "free" /\ ThrAt("down")
    /\ pwr' = [pwr EXCEPT !.lock = "thr", !.saving = TRUE]
    /\ UNCHANGED <<nic, host, pm>>
\* rtw_ips_pwr_down: rtw_hal_deinit, and the URBs of frames are stopped.
IpsDown ==
    /\ thr.pc = "down" /\ ThrAt("off")
    /\ nic' = [nic EXCEPT !.hw = FALSE, !.use = @ \ {"tx"}]
    /\ UNCHANGED <<pwr, host, pm>>
IpsOff ==
    /\ thr.pc = "off" /\ ThrAt("exit")
    /\ pwr' = [pwr EXCEPT !.rf = "off", !.lock = "free"]
    /\ UNCHANGED <<nic, host, pm>>

PsExit ==
    /\ thr.pc = "exit" /\ ThrAt("idle")
    /\ nic' = [nic EXCEPT !.timer = TRUE]
    /\ pwr' = [pwr EXCEPT !.ps = FALSE]
    /\ UNCHANGED <<host, pm>>

PsProcessor == TakePs \/ PsDeny \/ PsBegin \/ PsIdle \/ IpsEnter \/ IpsDown \/ IpsOff
               \/ PsExit

-----------------------------------------------------------------------------
(* The host's operations, with rtw_ps_deny, _rtw_pwr_wakeup and              *)
(* rtw_ps_deny_cancel around them.                                           *)

HostBegin(op) ==
    /\ pm = "on" /\ host.pc = "idle"
    /\ host' = [pc |-> IF op \in Denying THEN "deny" ELSE "defer", op |-> op]
    /\ UNCHANGED <<pwr, nic, thr, pm>>

HostDeny_Forgotten ==    \* mutant: the wake-up is not covered by ps_deny
    /\ host.pc = "deny" /\ pwr.lock = "free" /\ HostAt("defer")
    /\ UNCHANGED <<pwr, nic, thr, pm>>
HostDeny ==
    /\ host.pc = "deny" /\ pwr.lock = "free" /\ HostAt("defer")
    /\ pwr' = [pwr EXCEPT !.deny = @ \cup {host.op}]
    /\ UNCHANGED <<nic, thr, pm>>

WakeDefer ==
    /\ host.pc = "defer" /\ HostAt("wait")
    /\ pwr' = [pwr EXCEPT !.until = "future"]
    /\ UNCHANGED <<nic, thr, pm>>

WakeWait_Blind ==    \* mutant: a power-down under way is not waited for
    /\ host.pc = "wait" /\ HostAt(IF pwr.insusp THEN "cancel" ELSE "rf")
    /\ UNCHANGED <<pwr, nic, thr, pm>>
\* The wait for ps_processing, and for the end of a suspend.
WakeWait ==
    /\ host.pc = "wait" /\ ~pwr.ps
    /\ HostAt(IF pwr.insusp THEN "cancel" ELSE "rf")
    /\ UNCHANGED <<pwr, nic, thr, pm>>
\* After 3 s it goes on while the handler still runs.
WakeTimeout ==
    /\ host.pc = "wait" /\ pwr.ps
    /\ HostAt(IF pwr.insusp THEN "cancel" ELSE "rf")
    /\ thr' = [thr EXCEPT !.missed = @ \/ (Waking /\ thr.pc \in {"enter", "down", "off"})]
    /\ UNCHANGED <<pwr, nic, pm>>

\* A linked station is awake.  Both ways out defer IPS again.
WakeRf ==
    /\ host.pc = "rf"
    /\ IF "linked" \in nic.use
       THEN HostAt("woken") /\ pwr' = [pwr EXCEPT !.until = "future"]
       ELSE HostAt(IF pwr.rf = "off" THEN "leave" ELSE "done") /\ UNCHANGED pwr
    /\ UNCHANGED <<nic, thr, pm>>

\* ips_leave: rtw_reset_drv_sw and rtw_hal_init under the lock.
IpsLeave ==
    /\ host.pc = "leave" /\ pwr.lock = "free"
    /\ IF pwr.rf = "off" THEN HostAt("up") /\ pwr' = [pwr EXCEPT !.lock = "host"]
                         ELSE HostAt("done") /\ UNCHANGED pwr
    /\ UNCHANGED <<nic, thr, pm>>
IpsUp_NoTimer ==    \* mutant: the check timer is not set again
    /\ host.pc = "up" /\ HostAt("done")
    /\ pwr' = [pwr EXCEPT !.rf = "on", !.saving = FALSE, !.lock = "free"]
    /\ nic' = [nic EXCEPT !.hw = TRUE, !.use = @ \ {"survey", "linking"}]
    /\ UNCHANGED <<thr, pm>>
IpsUp ==
    /\ host.pc = "up" /\ HostAt("done")
    /\ pwr' = [pwr EXCEPT !.rf = "on", !.saving = FALSE, !.lock = "free"]
    /\ nic' = [nic EXCEPT !.hw = TRUE, !.timer = TRUE, !.use = @ \ {"survey", "linking"}]
    /\ UNCHANGED <<thr, pm>>
IpsUpFails ==
    /\ host.pc = "up" /\ HostAt("cancel")
    /\ pwr' = [pwr EXCEPT !.saving = FALSE, !.lock = "free", !.until = "future"]
    /\ nic' = [nic EXCEPT !.hw = FALSE, !.use = @ \ {"survey", "linking"}]
    /\ UNCHANGED <<thr, pm>>

WakeDone ==
    /\ host.pc = "done"
    /\ HostAt(IF nic.up /\ nic.hw THEN "woken" ELSE "cancel")
    /\ pwr' = [pwr EXCEPT !.until = "future"]
    /\ UNCHANGED <<nic, thr, pm>>

\* The operation itself, or one of its refusals: rtw_sitesurvey_cmd,
\* rtw_joinbss_cmd (or the survey before it), dump_mgntframe.
HostUse ==
    /\ host.pc = "woken" /\ HostAt("cancel")
    /\ \E use \in CASE host.op = "scan" -> {{}, {"survey"}}
                    [] host.op = "join" -> {{}, {"survey"}, {"linking"}}
                    [] host.op = "tx" -> {{}, {"tx"}}
                    [] OTHER -> {{}} :
           nic' = [nic EXCEPT !.use = @ \cup use]
    /\ UNCHANGED <<pwr, thr, pm>>

HostCancel_FailKeeps ==    \* mutant: a frame that was not sent keeps its ps_deny bit
    /\ host.pc = "cancel"
    /\ host.op \in Denying => pwr.lock = "free"
    /\ pwr' = IF host.op = "tx" /\ "tx" \notin nic.use THEN pwr
              ELSE [pwr EXCEPT !.deny = @ \ {host.op}]
    /\ host' = [pc |-> "idle", op |-> "none"]
    /\ UNCHANGED <<nic, thr, pm>>
HostCancel ==
    /\ host.pc = "cancel"
    /\ host.op \in Denying => pwr.lock = "free"
    /\ pwr' = [pwr EXCEPT !.deny = @ \ {host.op}]
    /\ host' = [pc |-> "idle", op |-> "none"]
    /\ UNCHANGED <<nic, thr, pm>>

\* _netdev_open, with rtw_hal_init and rtw_start_drv_threads; an interface that is
\* up only has its timers set.
Opened(ok, n) == IF n.up THEN [n EXCEPT !.timer = TRUE]
                 ELSE [n EXCEPT !.hw = ok, !.up = ok, !.timer = @ \/ ok]
Open(ok) ==
    /\ pm = "on" /\ host.pc = "idle"
    /\ nic' = Opened(ok, nic)
    /\ thr' = [thr EXCEPT !.run = @ \/ ok]
    /\ UNCHANGED <<pwr, host, pm>>

HostStep == HostDeny \/ WakeDefer \/ WakeWait \/ WakeTimeout \/ WakeRf \/ IpsLeave \/ IpsUp
            \/ IpsUpFails \/ WakeDone \/ HostUse \/ HostCancel

-----------------------------------------------------------------------------
(* What uses the radio comes to its end: events in the command thread, or    *)
(* timers of their own, which a suspend cancels.                             *)

InThread == thr.run /\ thr.pc = "idle"
ByTimer == pm \in {"on", "begin", "deny", "cancel", "resumed"}

\* rtw_indicate_scan_done: IPS may follow at once, unless there is a link or a join.
ScanDone(use) ==
    LET soon == ~pwr.insusp /\ use \cap {"linked", "linking"} = {}
    IN  /\ nic' = [nic EXCEPT !.use = use, !.timer = @ \/ soon]
        /\ pwr' = IF soon THEN [pwr EXCEPT !.until = "now"] ELSE pwr
        /\ UNCHANGED <<thr, host, pm>>
\* rtw_surveydone_event_callback, perhaps with the join that waited for it.
SurveyDone == "survey" \in nic.use /\ InThread /\ \E j \in {{}, {"linking"}} :
                  ScanDone((nic.use \ {"survey"}) \cup j)
\* rtw_scan_timeout_handler.
ScanTimeout == "survey" \in nic.use /\ ByTimer /\ ScanDone(nic.use \ {"survey"})

\* rtw_indicate_disconnect defers IPS for 3 s.
Disconnected(use) ==
    /\ nic' = [nic EXCEPT !.use = use]
    /\ pwr' = [pwr EXCEPT !.until = "future"]
    /\ UNCHANGED <<thr, host, pm>>
JoinSucceeds ==
    /\ "linking" \in nic.use /\ InThread
    /\ nic' = [nic EXCEPT !.use = (@ \ {"linking"}) \cup {"linked"}]
    /\ UNCHANGED <<pwr, thr, host, pm>>
JoinFails == "linking" \in nic.use /\ (InThread \/ ByTimer)
             /\ Disconnected(nic.use \ {"linking"})
\* The link ends, and rtw_roaming may survey or join at once.
LinkLost == "linked" \in nic.use /\ (InThread \/ pm = "on")
            /\ \E roam \in {{}, {"survey"}, {"linking"}} :
                   Disconnected((nic.use \ {"linked"}) \cup roam)
TxDone ==
    /\ "tx" \in nic.use
    /\ nic' = [nic EXCEPT !.use = @ \ {"tx"}]
    /\ UNCHANGED <<pwr, thr, host, pm>>

UseEnds == SurveyDone \/ ScanTimeout \/ JoinSucceeds \/ JoinFails \/ LinkLost \/ TxDone

-----------------------------------------------------------------------------
(* rtw_suspend_common and rtw_resume_common.                                 *)

PmStep(from, to) == pm = from /\ pm' = to

SuspendBegin ==
    /\ host.pc = "idle" /\ PmStep("on", "begin")
    /\ pwr' = [pwr EXCEPT !.insusp = TRUE]
    /\ UNCHANGED <<nic, thr, host>>
\* The wait for bips_processing; a device that is not up needs nothing.
SuspendWait ==
    /\ pwr.lock = "free" /\ PmStep("begin", IF nic.up THEN "deny" ELSE "off")
    /\ UNCHANGED <<pwr, nic, thr, host>>
SuspendDeny ==
    /\ pwr.lock = "free" /\ PmStep("deny", "cancel")
    /\ pwr' = [pwr EXCEPT !.deny = @ \cup {"suspend"}]
    /\ UNCHANGED <<nic, thr, host>>
\* rtw_cancel_all_timer.
SuspendCancel ==
    /\ PmStep("cancel", "stop")
    /\ nic' = [nic EXCEPT !.timer = FALSE]
    /\ UNCHANGED <<pwr, thr, host>>
SuspendStop_NoWait ==    \* mutant: the thread is not waited for
    /\ PmStep("stop", "unload")
    /\ thr' = [thr EXCEPT !.run = FALSE, !.q = 0]
    /\ UNCHANGED <<pwr, nic, host>>
\* rtw_stop_cmd_thread, which waits for the end of the thread.
SuspendStop ==
    /\ thr.pc = "idle" /\ PmStep("stop", "unload")
    /\ thr' = [thr EXCEPT !.run = FALSE, !.q = 0]
    /\ UNCHANGED <<pwr, nic, host>>
\* rtw_ps_deny_cancel, rtw_suspend_normal with rtw_suspend_free_assoc_resource and
\* rtw_dev_unload.  rf_pwrstate and bpower_saving stay as they are.
SuspendUnload ==
    /\ PmStep("unload", "off")
    /\ pwr' = [pwr EXCEPT !.deny = @ \ {"suspend"},
                  !.until = IF nic.use \cap {"linked", "linking"} = {} THEN @ ELSE "future"]
    /\ nic' = [nic EXCEPT !.hw = FALSE, !.up = FALSE, !.use = {}]
    /\ UNCHANGED <<thr, host>>
\* rtw_resume_process_normal: _netdev_open, then the station may roam.
Resume(ok) ==
    /\ PmStep("off", "resumed")
    /\ \E roam \in {{}, {"survey"}, {"linking"}} :
           nic' = [Opened(ok, nic) EXCEPT !.use = IF ok THEN roam ELSE {}]
    /\ thr' = [thr EXCEPT !.run = ok]
    /\ UNCHANGED <<pwr, host>>
ResumeEnd ==
    /\ PmStep("resumed", "on")
    /\ pwr' = [pwr EXCEPT !.insusp = FALSE]
    /\ UNCHANGED <<nic, thr, host>>

Suspend == SuspendBegin \/ SuspendWait \/ SuspendDeny \/ SuspendCancel \/ SuspendStop
           \/ SuspendUnload

Next ==
    \/ Tick \/ CheckTimer \/ PsProcessor
    \/ \E op \in Denying \cup Calling : HostBegin(op)
    \/ HostStep \/ UseEnds
    \/ \E ok \in BOOLEAN : Open(ok) \/ Resume(ok)
    \/ Suspend \/ ResumeEnd

Spec == Init /\ [][Next]_vars

\* Timers expire, the thread and the host get the processor, and the clock runs.
FairSpec == Spec /\ WF_vars(Tick) /\ WF_vars(CheckTimer) /\ WF_vars(PsProcessor)
            /\ WF_vars(HostStep)

-----------------------------------------------------------------------------
(* Properties.                                                               *)

\* rtw_hal_init failed in the last ips_leave; the host was told.
PowerUpFailed == pwr.rf = "off" /\ ~pwr.saving

\* The radio is never switched off under a survey, a join, a link or a frame,
\* although rtw_pwr_unassociated_idle and ips_enter are steps of a thread that
\* runs beside the host, the timers and the suspend.  What the code has against it
\* is ps_deny, ips_deny_time and ps_processing, and it fails in two ways only, which
\* "missed" names: ips_deny_time expires, or rtw_indicate_scan_done takes it back,
\* while the handler is past its test of ps_deny; or the wait of 3 s ends first.
BusyIsAwake == Active /\ ~nic.hw => PowerUpFailed \/ thr.missed

\* An operation that set its ps_deny bit and was woken has the hardware until it
\* cancels the bit, but for the same two cases.
WokenIsAwake ==
    host.pc = "woken" /\ host.op \in Denying /\ ~nic.hw => PowerUpFailed \/ thr.missed

\* The suspend takes the device down when no power-down or power-up is under
\* way: nobody holds the lock, and the thread that calls rtw_ps_processor ended.
SuspendAlone == pm \in {"unload", "off"} =>
                    pwr.lock = "free" /\ thr.pc = "idle" /\ (pm = "unload" => ~thr.run)

\* While the radio is on and nothing is about to change that, the next look at
\* whether it is idle is under way: the chain of timer, command and handler
\* does not break.
ChainAlive ==
    nic.hw /\ nic.up /\ pm = "on" /\ host.pc # "up"
        => nic.timer \/ thr.q > 0 \/ thr.pc \notin {"idle"}

\* A radio nobody uses is switched off in the end.  (After a suspend in IPS it is
\* not: the resume initialises the hardware and leaves rf_pwrstate rf_off.)
IdlePowersDown ==
    []<>(~nic.hw \/ ~nic.up \/ Active \/ host.pc # "idle" \/ pm # "on" \/ pwr.rf = "off")
=============================================================================
