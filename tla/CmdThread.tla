------------------------------ MODULE CmdThread ------------------------------
(***************************************************************************)
(* The command queue of core/rtw_cmd.c, the kernel thread that serves it,   *)
(* the callers of rtw_enqueue_cmd, the acknowledged command of              *)
(* rtw_startbss_cmd and the open / suspend / remove paths of                *)
(* os_dep/os_intfs.c that start and stop the thread.                        *)
(*                                                                          *)
(* A command object is an element of Cmds.  It stands for one allocation    *)
(* and for the kernel context that submits it: an element is used again     *)
(* only when its object is freed and its submitter has returned.            *)
(***************************************************************************)
EXTENDS Naturals, Sequences

CONSTANTS Cmds,        \* command objects that exist at the same time
          NoCmd,       \* a NULL pcmd
          MaxSema,     \* bound: nobody submits while cmd_queue_sema is that high
          MaxStarts,   \* bound: how often the thread is created (open, resume)
          UrbErrors,   \* URB completions may report the device gone at any time
          Signals,     \* SIGTERM / a user's signal may interrupt down_interruptible
          PollExpires  \* the 60 ms poll of rtw_dev_unload may run out

ASSUME CmdThreadAssumption ==
    /\ NoCmd \notin Cmds
    /\ MaxSema \in Nat
    /\ MaxStarts \in Nat
    /\ UrbErrors \in BOOLEAN
    /\ Signals \in BOOLEAN
    /\ PollExpires \in BOOLEAN

Threads == 1 .. MaxStarts

\* Command codes the control distinguishes: _CreateBss carries the submit_ctx,
\* _DisConnect has a callback that keeps the object when the command failed,
\* _SetChannelPlan passes the filter while the hardware is down.  Every other
\* command behaves like a _CreateBss that nobody waits for.
Codes == {"CreateBss", "DisConnect", "SetChannelPlan"}

Results == {"none", "success", "fail", "dropped"}

VARIABLES
    cmd_queue,         \* cmd_priv.cmd_queue
    cmd_queue_sema,    \* cmd_priv.cmd_queue_sema
    terminate_sema,    \* cmd_priv.terminate_cmdthread_sema
    cmdthd_running,    \* cmd_priv.cmdthd_running
    stop_req,          \* cmd_priv.stop_req
    bDriverStopped, bSurpriseRemoved, hw_init_completed,  \* of the _adapter
    tpc, cur,          \* per thread: its place in rtw_cmd_thread, and pcmd
    obj, code, res,    \* per command: life of the cmd_obj, cmdcode, res
    sctxptr,           \* per command: pcmd->sctx # NULL
    sctx,              \* per command: status of the submit_ctx on the caller's stack
    spc,               \* per command: place of its submitter
    ctl, via, starts   \* the open / suspend / remove path, why, threads created

cmdvars == <<obj, code, res, sctxptr, sctx, spc>>
flags == <<bDriverStopped, bSurpriseRemoved, hw_init_completed>>
ctlvars == <<ctl, via, starts>>
vars == <<cmd_queue, cmd_queue_sema, terminate_sema, cmdthd_running, stop_req,
          flags, tpc, cur, cmdvars, ctlvars>>

Stopped == bDriverStopped \/ bSurpriseRemoved

-----------------------------------------------------------------------------
(* _rtw_init_cmd_priv, and the adapter before its first open.               *)
Init ==
    /\ cmd_queue = <<>>
    /\ cmd_queue_sema = 0
    /\ terminate_sema = 0
    /\ cmdthd_running = FALSE
    /\ stop_req = FALSE
    /\ bDriverStopped = TRUE
    /\ bSurpriseRemoved = FALSE
    /\ hw_init_completed = FALSE
    /\ tpc = [t \in Threads |-> "none"]
    /\ cur = [t \in Threads |-> NoCmd]
    /\ obj = [c \in Cmds |-> "freed"]
    /\ code = [c \in Cmds |-> "CreateBss"]
    /\ res = [c \in Cmds |-> "none"]
    /\ sctxptr = [c \in Cmds |-> FALSE]
    /\ sctx = [c \in Cmds |-> "none"]
    /\ spc = [c \in Cmds |-> "idle"]
    /\ ctl = "closed"
    /\ via = "none"
    /\ starts = 0

-----------------------------------------------------------------------------
(* Submitters: rtw_enqueue_cmd and the waiting part of rtw_startbss_cmd.    *)

\* rtw_cmd_filter(): the command is let through.
CmdFilter(c) ==
    /\ hw_init_completed \/ code[c] = "SetChannelPlan"
    /\ cmdthd_running

\* A caller allocates and fills a cmd_obj.  Only rtw_startbss_cmd with
\* RTW_CMDF_WAIT_ACK attaches a submit_ctx (rtw_sctx_init).
Submit(c, k, ack) ==
    /\ ctl # "gone"
    /\ spc[c] = "idle" /\ obj[c] \in {"freed", "dropped"} /\ cmd_queue_sema < MaxSema
    /\ ack => k = "CreateBss"
    /\ obj' = [obj EXCEPT ![c] = "alloc"]
    /\ code' = [code EXCEPT ![c] = k]
    /\ res' = [res EXCEPT ![c] = "none"]
    /\ sctxptr' = [sctxptr EXCEPT ![c] = ack]
    /\ sctx' = [sctx EXCEPT ![c] = IF ack THEN "submitted" ELSE "none"]
    /\ spc' = [spc EXCEPT ![c] = "filter"]
    /\ UNCHANGED <<cmd_queue, cmd_queue_sema, terminate_sema, cmdthd_running,
                   stop_req, flags, tpc, cur, ctlvars>>

\* rtw_free_cmd_obj, and the two other ends of an object's life: the fields go
\* with the object.
Release(c, how) ==
    /\ obj' = [obj EXCEPT ![c] = how]
    /\ code' = [code EXCEPT ![c] = "CreateBss"]
    /\ res' = [res EXCEPT ![c] = "none"]
    /\ sctxptr' = [sctxptr EXCEPT ![c] = FALSE]

\* rtw_enqueue_cmd: a refused command is freed and _FAIL returned, so the
\* caller does not wait.
EnqueueFilter(c) ==
    /\ spc[c] = "filter"
    /\ IF CmdFilter(c)
         THEN /\ spc' = [spc EXCEPT ![c] = "insert"]
              /\ UNCHANGED <<obj, code, res, sctxptr, sctx>>
         ELSE /\ Release(c, "freed")
              /\ sctx' = [sctx EXCEPT ![c] = "none"]
              /\ spc' = [spc EXCEPT ![c] = "idle"]
    /\ UNCHANGED <<cmd_queue, cmd_queue_sema, terminate_sema, cmdthd_running,
                   stop_req, flags, tpc, cur, ctlvars>>

\* _rtw_enqueue_cmd, under the queue's spinlock.
EnqueueInsert(c) ==
    /\ spc[c] = "insert"
    /\ cmd_queue' = Append(cmd_queue, c)
    /\ obj' = [obj EXCEPT ![c] = "queued"]
    /\ spc' = [spc EXCEPT ![c] = "up"]
    /\ UNCHANGED <<cmd_queue_sema, terminate_sema, cmdthd_running, stop_req,
                   flags, tpc, cur, code, res, sctxptr, sctx, ctlvars>>

\* Mutant of EnqueueUp: the semaphore is not upped.
EnqueueUp_NoUp(c) ==
    /\ spc[c] = "up"
    /\ spc' = [spc EXCEPT ![c] = IF sctx[c] = "none" THEN "idle" ELSE "wait"]
    /\ UNCHANGED <<cmd_queue, cmd_queue_sema, terminate_sema, cmdthd_running,
                   stop_req, flags, tpc, cur, obj, code, res, sctxptr, sctx,
                   ctlvars>>

\* _rtw_up_sema(&cmd_queue_sema); an acknowledged command then waits.
EnqueueUp(c) ==
    /\ spc[c] = "up"
    /\ cmd_queue_sema' = cmd_queue_sema + 1
    /\ spc' = [spc EXCEPT ![c] = IF sctx[c] = "none" THEN "idle" ELSE "wait"]
    /\ UNCHANGED <<cmd_queue, terminate_sema, cmdthd_running, stop_req, flags,
                   tpc, cur, obj, code, res, sctxptr, sctx, ctlvars>>

\* rtw_sctx_wait returns: the completion was signalled, or its 2000 ms passed.
SctxWait(c) ==
    /\ spc[c] = "wait"
    /\ spc' = [spc EXCEPT ![c] = "lock"]
    /\ UNCHANGED <<cmd_queue, cmd_queue_sema, terminate_sema, cmdthd_running,
                   stop_req, flags, tpc, cur, obj, code, res, sctxptr, sctx, ctlvars>>

\* Mutant of DetachSctx: after a timeout pcmd->sctx is left as it is.
DetachSctx_Keep(c) ==
    /\ spc[c] = "lock"
    /\ sctx' = [sctx EXCEPT ![c] = "none"]
    /\ spc' = [spc EXCEPT ![c] = "idle"]
    /\ UNCHANGED <<cmd_queue, cmd_queue_sema, terminate_sema, cmdthd_running,
                   stop_req, flags, tpc, cur, obj, code, res, sctxptr, ctlvars>>

\* rtw_startbss_cmd takes sctx_mutex, detaches a submit_ctx that is still
\* submitted, and returns: its stack frame, and the submit_ctx, are gone.
DetachSctx(c) ==
    /\ spc[c] = "lock"
    /\ sctxptr' = [sctxptr EXCEPT ![c] = @ /\ sctx[c] # "submitted"]
    /\ sctx' = [sctx EXCEPT ![c] = "none"]
    /\ spc' = [spc EXCEPT ![c] = "idle"]
    /\ UNCHANGED <<cmd_queue, cmd_queue_sema, terminate_sema, cmdthd_running,
                   stop_req, flags, tpc, cur, obj, code, res, ctlvars>>

-----------------------------------------------------------------------------
(* rtw_cmd_thread.                                                          *)

Goto(t, l) == tpc' = [tpc EXCEPT ![t] = l]

ThreadClearStop(t) ==
    /\ tpc[t] = "start"
    /\ stop_req' = FALSE
    /\ Goto(t, "setrun")
    /\ UNCHANGED <<cmd_queue, cmd_queue_sema, terminate_sema, cmdthd_running,
                   flags, cur, cmdvars, ctlvars>>

ThreadSetRunning(t) ==
    /\ tpc[t] = "setrun"
    /\ cmdthd_running' = TRUE
    /\ Goto(t, "ready")
    /\ UNCHANGED <<cmd_queue, cmd_queue_sema, terminate_sema, stop_req, flags,
                   cur, cmdvars, ctlvars>>

ThreadReady(t) ==
    /\ tpc[t] = "ready"
    /\ terminate_sema' = terminate_sema + 1
    /\ Goto(t, "wait")
    /\ UNCHANGED <<cmd_queue, cmd_queue_sema, cmdthd_running, stop_req, flags,
                   cur, cmdvars, ctlvars>>

\* Mutant of ThreadDown: the thread does not sleep on the semaphore.
ThreadDown_NoSleep(t) ==
    /\ tpc[t] = "wait"
    /\ cmd_queue_sema' = cmd_queue_sema - 1
    /\ Goto(t, "check")
    /\ UNCHANGED <<cmd_queue, terminate_sema, cmdthd_running, stop_req, flags,
                   cur, cmdvars, ctlvars>>

ThreadDown(t) ==
    /\ tpc[t] = "wait"
    /\ cmd_queue_sema > 0
    /\ cmd_queue_sema' = cmd_queue_sema - 1
    /\ Goto(t, "check")
    /\ UNCHANGED <<cmd_queue, terminate_sema, cmdthd_running, stop_req, flags,
                   cur, cmdvars, ctlvars>>

\* down_interruptible fails: the thread leaves its loop.
ThreadSignalled(t) ==
    /\ Signals
    /\ tpc[t] = "wait"
    /\ Goto(t, "drain")
    /\ UNCHANGED <<cmd_queue, cmd_queue_sema, terminate_sema, cmdthd_running,
                   stop_req, flags, cur, cmdvars, ctlvars>>

\* The three tests after the wake-up, in their order.
ThreadCheck(t) ==
    /\ tpc[t] = "check"
    /\ Goto(t, IF Stopped \/ stop_req THEN "drain"
               ELSE IF cmd_queue = <<>> THEN "wait" ELSE "next")
    /\ UNCHANGED <<cmd_queue, cmd_queue_sema, terminate_sema, cmdthd_running,
                   stop_req, flags, cur, cmdvars, ctlvars>>

\* _next: stop_req is not looked at here, only the adapter's two flags.
ThreadNext(t) ==
    /\ tpc[t] = "next"
    /\ Goto(t, IF Stopped THEN "drain" ELSE "deq")
    /\ UNCHANGED <<cmd_queue, cmd_queue_sema, terminate_sema, cmdthd_running,
                   stop_req, flags, cur, cmdvars, ctlvars>>

\* Mutant of ThreadDequeue: the object is not deleted from the list.
ThreadDequeue_NoDelete(t) ==
    /\ tpc[t] = "deq"
    /\ IF cmd_queue = <<>>
         THEN Goto(t, "wait") /\ UNCHANGED <<cur, obj>>
         ELSE /\ cur' = [cur EXCEPT ![t] = Head(cmd_queue)]
              /\ obj' = [obj EXCEPT ![Head(cmd_queue)] = "held"]
              /\ Goto(t, "filter")
    /\ UNCHANGED <<cmd_queue, cmd_queue_sema, terminate_sema, cmdthd_running,
                   stop_req, flags, code, res, sctxptr, sctx, spc, ctlvars>>

\* rtw_dequeue_cmd
ThreadDequeue(t) ==
    /\ tpc[t] = "deq"
    /\ IF cmd_queue = <<>>
         THEN Goto(t, "wait") /\ UNCHANGED <<cmd_queue, cur, obj>>
         ELSE /\ cmd_queue' = Tail(cmd_queue)
              /\ cur' = [cur EXCEPT ![t] = Head(cmd_queue)]
              /\ obj' = [obj EXCEPT ![Head(cmd_queue)] = "held"]
              /\ Goto(t, "filter")
    /\ UNCHANGED <<cmd_queue_sema, terminate_sema, cmdthd_running, stop_req,
                   flags, code, res, sctxptr, sctx, spc, ctlvars>>

\* rtw_cmd_filter again: conditions may have changed since the enqueue.
ThreadFilter(t) ==
    /\ tpc[t] = "filter"
    /\ IF CmdFilter(cur[t])
         THEN Goto(t, "handler") /\ UNCHANGED res
         ELSE /\ Goto(t, "post")
              /\ res' = [res EXCEPT ![cur[t]] = "dropped"]
    /\ UNCHANGED <<cmd_queue, cmd_queue_sema, terminate_sema, cmdthd_running,
                   stop_req, flags, cur, obj, code, sctxptr, sctx, spc, ctlvars>>

\* wlancmds[cmdcode].h2cfuns
ThreadHandler(t) ==
    /\ tpc[t] = "handler"
    /\ \E r \in {"success", "fail"} : res' = [res EXCEPT ![cur[t]] = r]
    /\ Goto(t, "post")
    /\ UNCHANGED <<cmd_queue, cmd_queue_sema, terminate_sema, cmdthd_running,
                   stop_req, flags, cur, obj, code, sctxptr, sctx, spc, ctlvars>>

\* Mutant of ThreadPost: rtw_sctx_done_err does not clear *sctx.
ThreadPost_KeepPtr(t) ==
    /\ tpc[t] = "post"
    /\ LET c == cur[t] IN
         sctx' = IF sctxptr[c]
                   THEN [sctx EXCEPT ![c] = IF res[c] = "success"
                                            THEN "success" ELSE "cmd_error"]
                   ELSE sctx
    /\ Goto(t, "callback")
    /\ UNCHANGED <<cmd_queue, cmd_queue_sema, terminate_sema, cmdthd_running,
                   stop_req, flags, cur, obj, code, res, sctxptr, spc, ctlvars>>

\* Mutant of ThreadPost: a command that failed does not complete its submit_ctx.
ThreadPost_OnlySuccess(t) ==
    /\ tpc[t] = "post"
    /\ LET c == cur[t] IN
         IF sctxptr[c] /\ res[c] = "success"
           THEN /\ sctx' = [sctx EXCEPT ![c] = "success"]
                /\ sctxptr' = [sctxptr EXCEPT ![c] = FALSE]
           ELSE UNCHANGED <<sctx, sctxptr>>
    /\ Goto(t, "callback")
    /\ UNCHANGED <<cmd_queue, cmd_queue_sema, terminate_sema, cmdthd_running,
                   stop_req, flags, cur, obj, code, res, spc, ctlvars>>

\* post_process: under sctx_mutex, rtw_sctx_done or rtw_sctx_done_err writes
\* the waiter's submit_ctx through pcmd->sctx and clears the pointer.
ThreadPost(t) ==
    /\ tpc[t] = "post"
    /\ LET c == cur[t] IN
         /\ sctx' = IF sctxptr[c]
                      THEN [sctx EXCEPT ![c] = IF res[c] = "success"
                                               THEN "success" ELSE "cmd_error"]
                      ELSE sctx
         /\ sctxptr' = [sctxptr EXCEPT ![c] = FALSE]
    /\ Goto(t, "callback")
    /\ UNCHANGED <<cmd_queue, cmd_queue_sema, terminate_sema, cmdthd_running,
                   stop_req, flags, cur, obj, code, res, spc, ctlvars>>

\* rtw_cmd_callback[cmdcode].callback, or rtw_free_cmd_obj when there is none.
\* rtw_disassoc_cmd_callback returns early, without freeing, on a failure.
ThreadCallback(t) ==
    /\ tpc[t] = "callback"
    /\ LET c == cur[t] IN
         Release(c, IF code[c] = "DisConnect" /\ res[c] # "success"
                      THEN "leaked" ELSE "freed")
    /\ cur' = [cur EXCEPT ![t] = NoCmd]
    /\ Goto(t, "next")
    /\ UNCHANGED <<cmd_queue, cmd_queue_sema, terminate_sema, cmdthd_running,
                   stop_req, flags, sctx, spc, ctlvars>>

\* The exit loop: every command still queued is freed; a submit_ctx attached
\* to it is not completed.
ThreadDrain(t) ==
    /\ tpc[t] = "drain"
    /\ IF cmd_queue = <<>>
         THEN Goto(t, "exitup") /\ UNCHANGED <<cmd_queue, obj, code, res, sctxptr>>
         ELSE /\ cmd_queue' = Tail(cmd_queue)
              /\ Release(Head(cmd_queue), "dropped")
              /\ UNCHANGED tpc
    /\ UNCHANGED <<cmd_queue_sema, terminate_sema, cmdthd_running, stop_req,
                   flags, cur, sctx, spc, ctlvars>>

ThreadExitUp(t) ==
    /\ tpc[t] = "exitup"
    /\ terminate_sema' = terminate_sema + 1
    /\ Goto(t, "exitclear")
    /\ UNCHANGED <<cmd_queue, cmd_queue_sema, cmdthd_running, stop_req, flags,
                   cur, cmdvars, ctlvars>>

ThreadExitClear(t) ==
    /\ tpc[t] = "exitclear"
    /\ cmdthd_running' = FALSE
    /\ Goto(t, "exited")
    /\ UNCHANGED <<cmd_queue, cmd_queue_sema, terminate_sema, stop_req, flags,
                   cur, cmdvars, ctlvars>>

ThreadStep(t) ==
    \/ ThreadClearStop(t) \/ ThreadSetRunning(t) \/ ThreadReady(t)
    \/ ThreadDown(t) \/ ThreadCheck(t) \/ ThreadNext(t) \/ ThreadDequeue(t)
    \/ ThreadFilter(t) \/ ThreadHandler(t) \/ ThreadPost(t) \/ ThreadCallback(t)
    \/ ThreadDrain(t) \/ ThreadExitUp(t) \/ ThreadExitClear(t)

-----------------------------------------------------------------------------
(* Open, IPS, suspend, remove.  rtnl and the PM core serialise them, so one *)
(* program counter, ctl, is enough.                                         *)

cmdthd == <<tpc, cur>>
queue == <<cmd_queue, cmd_queue_sema>>

\* _netdev_open with bup FALSE (ndo_open, and pm_netdev_open on resume):
\* clear the flags, rtw_hal_init, kthread_run(rtw_cmd_thread).
Open ==
    /\ ctl = "closed" /\ starts < MaxStarts
    /\ bDriverStopped' = FALSE /\ bSurpriseRemoved' = FALSE
    /\ hw_init_completed' = TRUE
    /\ starts' = starts + 1
    /\ tpc' = [tpc EXCEPT ![starts + 1] = "start"]
    /\ ctl' = "startwait"
    /\ UNCHANGED <<queue, terminate_sema, cmdthd_running, stop_req, cur,
                   cmdvars, via>>

\* netdev_open_error: rtw_hal_init failed, or the thread could not be created.
OpenFails ==
    /\ ctl = "closed"
    /\ bDriverStopped' = FALSE /\ bSurpriseRemoved' = FALSE
    /\ hw_init_completed' \in BOOLEAN
    /\ UNCHANGED <<queue, terminate_sema, cmdthd_running, stop_req, cmdthd,
                   cmdvars, ctlvars>>

\* Mutant of StartWait: the open does not wait for the thread.
StartWait_NoWait ==
    /\ ctl = "startwait"
    /\ ctl' = "up"
    /\ UNCHANGED <<queue, terminate_sema, cmdthd_running, stop_req, flags,
                   cmdthd, cmdvars, via, starts>>

\* rtw_start_drv_threads: "wait for cmd_thread to run"; bup becomes TRUE.
StartWait ==
    /\ ctl = "startwait"
    /\ \/ terminate_sema > 0 /\ terminate_sema' = terminate_sema - 1
       \/ Signals /\ UNCHANGED terminate_sema
    /\ ctl' = "up"
    /\ UNCHANGED <<queue, cmdthd_running, stop_req, flags, cmdthd, cmdvars,
                   via, starts>>

\* rtw_ips_pwr_down: rtw_hal_deinit while the device was not reported gone.
IpsEnter ==
    /\ ctl = "up" /\ hw_init_completed /\ ~bSurpriseRemoved
    /\ hw_init_completed' = FALSE
    /\ UNCHANGED <<queue, terminate_sema, cmdthd_running, stop_req,
                   bDriverStopped, bSurpriseRemoved, cmdthd, cmdvars, ctlvars>>

\* rtw_ips_pwr_up: ips_netdrv_open clears bDriverStopped and runs rtw_hal_init.
IpsLeave ==
    /\ ctl = "up" /\ ~hw_init_completed
    /\ bDriverStopped' = FALSE
    /\ hw_init_completed' \in BOOLEAN
    /\ UNCHANGED <<queue, terminate_sema, cmdthd_running, stop_req,
                   bSurpriseRemoved, cmdthd, cmdvars, ctlvars>>

\* A bulk or control transfer completes with an error: -ESHUTDOWN of a bulk
\* URB sets bDriverStopped; the others, a control transfer that finds the
\* device gone and too many errors in a row, set bSurpriseRemoved.
UrbError ==
    /\ UrbErrors /\ ctl \notin {"closed", "gone"}
    /\ \/ bDriverStopped' = TRUE /\ UNCHANGED bSurpriseRemoved
       \/ bSurpriseRemoved' = TRUE /\ UNCHANGED bDriverStopped
    /\ UNCHANGED <<queue, terminate_sema, cmdthd_running, stop_req,
                   hw_init_completed, cmdthd, cmdvars, ctlvars>>

\* rtw_suspend_common: refused once the driver is stopped; leaves power save
\* and calls rtw_stop_cmd_thread before anything is torn down.
Suspend ==
    /\ ctl = "up" /\ ~Stopped
    /\ hw_init_completed' = TRUE
    /\ ctl' = "stop" /\ via' = "suspend"
    /\ UNCHANGED <<queue, terminate_sema, cmdthd_running, stop_req,
                   bDriverStopped, bSurpriseRemoved, cmdthd, cmdvars, starts>>

\* rtw_dev_remove of an adapter that is up: unplugged (bSurpriseRemoved), or
\* rmmod, which first leaves power save.
Remove ==
    /\ ctl = "up"
    /\ \/ bSurpriseRemoved' = TRUE /\ UNCHANGED hw_init_completed
       \/ UNCHANGED bSurpriseRemoved
          /\ hw_init_completed' = (hw_init_completed \/ ~bSurpriseRemoved)
    /\ ctl' = "unload" /\ via' = "remove"
    /\ UNCHANGED <<queue, terminate_sema, cmdthd_running, stop_req,
                   bDriverStopped, cmdthd, cmdvars, starts>>

\* rtw_dev_remove of an adapter that is down: rtw_dev_unload does nothing.
RemoveClosed ==
    /\ ctl = "closed"
    /\ ctl' = "gone" /\ via' = "remove"
    /\ UNCHANGED <<queue, terminate_sema, cmdthd_running, stop_req, flags,
                   cmdthd, cmdvars, starts>>

\* rtw_dev_unload up to rtw_stop_drv_threads.
Unload ==
    /\ ctl = "unload"
    /\ bDriverStopped' = TRUE
    /\ ctl' = "stop"
    /\ UNCHANGED <<queue, terminate_sema, cmdthd_running, stop_req,
                   bSurpriseRemoved, hw_init_completed, cmdthd, cmdvars, via,
                   starts>>

\* Where the caller of rtw_stop_cmd_thread goes on: rtw_suspend_common calls
\* rtw_dev_unload, rtw_dev_unload starts to poll.
AfterStop ==
    IF via = "suspend" THEN ctl' = "unload" /\ via' = "resume"
                       ELSE ctl' = "poll" /\ UNCHANGED via

\* rtw_stop_cmd_thread: the condition.
StopCheck ==
    /\ ctl = "stop"
    /\ IF cmdthd_running /\ ~stop_req
         THEN ctl' = "stopset" /\ UNCHANGED via
         ELSE AfterStop
    /\ UNCHANGED <<queue, terminate_sema, cmdthd_running, stop_req, flags,
                   cmdthd, cmdvars, starts>>

StopSet ==
    /\ ctl = "stopset"
    /\ stop_req' = TRUE
    /\ ctl' = "stopup"
    /\ UNCHANGED <<queue, terminate_sema, cmdthd_running, flags, cmdthd,
                   cmdvars, via, starts>>

\* Mutant of StopUp: rtw_stop_cmd_thread does not wake the thread.
StopUp_NoUp ==
    /\ ctl = "stopup"
    /\ ctl' = "stopwait"
    /\ UNCHANGED <<queue, terminate_sema, cmdthd_running, stop_req, flags,
                   cmdthd, cmdvars, via, starts>>

StopUp ==
    /\ ctl = "stopup"
    /\ cmd_queue_sema' = cmd_queue_sema + 1
    /\ ctl' = "stopwait"
    /\ UNCHANGED <<cmd_queue, terminate_sema, cmdthd_running, stop_req, flags,
                   cmdthd, cmdvars, via, starts>>

\* Mutant of StopWait: rtw_stop_cmd_thread does not wait for the thread.
StopWait_NoDown ==
    /\ ctl = "stopwait"
    /\ AfterStop
    /\ UNCHANGED <<queue, terminate_sema, cmdthd_running, stop_req, flags,
                   cmdthd, cmdvars, starts>>

StopWait ==
    /\ ctl = "stopwait"
    /\ \/ terminate_sema > 0 /\ terminate_sema' = terminate_sema - 1
       \/ Signals /\ UNCHANGED terminate_sema
    /\ AfterStop
    /\ UNCHANGED <<queue, cmdthd_running, stop_req, flags, cmdthd, cmdvars,
                   starts>>

\* rtw_dev_unload polls cmdthd_running six times, 10 ms apart; then
\* "stop cmdthd timeout".
Poll ==
    /\ ctl = "poll"
    /\ ~cmdthd_running \/ PollExpires
    /\ ctl' = "deinit"
    /\ UNCHANGED <<queue, terminate_sema, cmdthd_running, stop_req, flags,
                   cmdthd, cmdvars, via, starts>>

\* The rest of rtw_dev_unload; bup becomes FALSE.  A removed adapter is freed.
Deinit ==
    /\ ctl = "deinit"
    /\ hw_init_completed' = (hw_init_completed /\ bSurpriseRemoved)
    /\ bSurpriseRemoved' = TRUE
    /\ ctl' = IF via = "remove" THEN "gone" ELSE "closed"
    /\ via' = "none"
    /\ UNCHANGED <<queue, terminate_sema, cmdthd_running, stop_req,
                   bDriverStopped, cmdthd, cmdvars, starts>>

-----------------------------------------------------------------------------
SubmitterStep(c) ==
    \/ EnqueueFilter(c) \/ EnqueueInsert(c) \/ EnqueueUp(c)
    \/ SctxWait(c) \/ DetachSctx(c)

StopStep == Unload \/ StopCheck \/ StopSet \/ StopUp \/ StopWait \/ Poll \/ Deinit

Environment ==
    \/ Open \/ OpenFails \/ IpsEnter \/ IpsLeave \/ UrbError
    \/ Suspend \/ Remove \/ RemoveClosed

Next ==
    \/ \E c \in Cmds, k \in Codes, ack \in BOOLEAN : Submit(c, k, ack)
    \/ \E c \in Cmds : SubmitterStep(c)
    \/ \E t \in Threads : ThreadStep(t) \/ ThreadSignalled(t)
    \/ StartWait \/ StopStep \/ Environment

\* Kernel threads and callers are scheduled; a handler returns; callers of
\* rtw_stop_cmd_thread go on.  Nothing says when somebody submits, opens,
\* suspends or unplugs.
Fairness ==
    /\ \A t \in Threads : WF_vars(ThreadStep(t))
    /\ \A c \in Cmds : WF_vars(SubmitterStep(c))
    /\ WF_vars(StartWait) /\ WF_vars(StopStep)

Spec == Init /\ [][Next]_vars
FairSpec == Spec /\ Fairness

-----------------------------------------------------------------------------
TypeOK ==
    /\ cmd_queue \in Seq(Cmds)
    /\ cmd_queue_sema \in Nat
    /\ terminate_sema \in Nat
    /\ cmdthd_running \in BOOLEAN
    /\ stop_req \in BOOLEAN
    /\ bDriverStopped \in BOOLEAN
    /\ bSurpriseRemoved \in BOOLEAN
    /\ hw_init_completed \in BOOLEAN
    /\ tpc \in [Threads -> {"none", "start", "setrun", "ready", "wait", "check",
                            "next", "deq", "filter", "handler", "post",
                            "callback", "drain", "exitup", "exitclear", "exited"}]
    /\ cur \in [Threads -> Cmds \cup {NoCmd}]
    /\ obj \in [Cmds -> {"alloc", "queued", "held", "freed", "dropped", "leaked"}]
    /\ code \in [Cmds -> Codes]
    /\ res \in [Cmds -> Results]
    /\ sctxptr \in [Cmds -> BOOLEAN]
    /\ sctx \in [Cmds -> {"none", "submitted", "success", "cmd_error"}]
    /\ spc \in [Cmds -> {"idle", "filter", "insert", "up", "wait", "lock"}]
    /\ ctl \in {"closed", "startwait", "up", "unload", "stop", "stopset",
                "stopup", "stopwait", "poll", "deinit", "gone"}
    /\ via \in {"none", "suspend", "resume", "remove"}
    /\ starts \in 0 .. MaxStarts

\* The waiter of rtw_startbss_cmd keeps its submit_ctx on its stack.  While a
\* command that points to it is queued or in the thread's hands, the waiter is
\* still inside rtw_startbss_cmd: a completion that comes after the 2000 ms
\* timeout never writes a dead stack frame.
SctxNoDangling ==
    \A c \in Cmds : sctxptr[c] => spc[c] # "idle" /\ obj[c] \in {"alloc", "queued", "held"}

\* A completed submit_ctx was completed by the command it belongs to, exactly
\* when the pointer was cleared: a waiter that is still attached is unanswered.
SctxAnsweredOnce ==
    \A c \in Cmds : sctxptr[c] => sctx[c] = "submitted"

\* A waiter that found no answer writes pcmd->sctx; the object it writes to is
\* gone only if the exit loop of rtw_cmd_thread dropped the command.
LateAckOnlyAfterDrain ==
    \A c \in Cmds :
        spc[c] \in {"wait", "lock"} /\ sctx[c] = "submitted"
            => obj[c] \in {"queued", "held", "dropped"}

Working(t) == tpc[t] \in {"filter", "handler", "post", "callback"}

\* A command object is in one place: in the queue once, or in the hands of one
\* thread, and never in either after it was freed.
CmdOwnership ==
    /\ \A i, j \in 1 .. Len(cmd_queue) : cmd_queue[i] = cmd_queue[j] => i = j
    /\ \A i \in 1 .. Len(cmd_queue) : obj[cmd_queue[i]] = "queued"
    /\ \A t \in Threads : Working(t) => obj[cur[t]] = "held"
    /\ \A t, u \in Threads : Working(t) /\ Working(u) /\ cur[t] = cur[u] => t = u

\* The up after the insert is never lost: when the command thread sleeps on
\* an empty semaphore, a queued command has a submitter about to up it.
NoLostWakeup ==
    \A t \in Threads :
        tpc[t] = "wait" /\ cmd_queue_sema = 0 /\ cmd_queue # <<>>
            => \/ \E c \in Cmds : spc[c] = "up"
               \/ \E u \in Threads :
                     tpc[u] \notin {"none", "start", "setrun", "ready", "wait",
                                    "exitup", "exitclear", "exited"}

Alive(t) == tpc[t] \notin {"none", "exited"}

\* When nothing makes the thread leave on its own and the poll is patient, at
\* most one command thread exists: a resume never starts a second one beside a
\* thread that rtw_dev_unload left behind.
OneThread ==
    \A t, u \in Threads : Alive(t) /\ Alive(u) => t = u

\* ... and terminate_cmdthread_sema, which serves both, makes stop and start wait
\* for it: when rtw_dev_unload polls, the thread has freed the queue and does
\* nothing but leave; when the open, which downs the semaphore to "wait for
\* cmd_thread to run" (os_intfs.c:873), goes on, the thread is past the assignments
\* of stop_req and cmdthd_running.
ControlWaitsForThread ==
    /\ ctl \in {"poll", "deinit", "closed", "gone"} =>
           \A t \in Threads : tpc[t] \in {"none", "exitclear", "exited"}
    /\ ctl = "up" => tpc[starts] \notin {"start", "setrun"}

\* The exit loop is there to "free all cmd_obj resources" (rtw_cmd.c:582): when
\* the driver is down and every thread has left, no command is still queued.
ExitFreesQueue ==
    ctl = "closed" /\ (\A t \in Threads : ~Alive(t)) => cmd_queue = <<>>

\* rtw_dev_unload returns: the sleeping thread is woken, leaves, and the
\* semaphore and the poll let the caller go on.
UnloadCompletes ==
    ctl = "unload" ~> ctl \in {"closed", "gone"}

\* A queued command is taken from the queue, to be run or dropped, unless the
\* thread has left.
QueuedIsTaken ==
    \A c \in Cmds : obj[c] = "queued" ~> obj[c] # "queued" \/ ~cmdthd_running
=============================================================================
