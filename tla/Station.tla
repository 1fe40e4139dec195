------------------------------- MODULE Station -------------------------------
(* One interface in station mode, from the requests of cfg80211 down to the  *)
(* handshake: the command thread (handlers of core/rtw_mlme_ext.c and the    *)
(* events of core/rtw_mlme.c), a caller of cfg80211 (os_dep/ioctl_cfg80211.c,*)
(* one at a time under RTNL), the timers and the receive tasklet.  Timers    *)
(* and the tasklet run to completion; the two process contexts are           *)
(* interleaved at every unlock and before every write outside the lock.      *)
EXTENDS Mlme, Link, SequencesExt

CONSTANTS MaxCh,       \* channels of a survey
          Requests     \* what the host asks for

ASSUME StationAssumption ==
    MaxCh \in Nat /\ Requests \subseteq {"connect", "disconnect", "scan"}

VARIABLES
  sc,      \* mlmeext_priv: sitesurvey_res.state, channels left, survey_timer, scan_abort
  thr,     \* the command thread: the command it holds and its next step
  user     \* the caller: its request and its next step

vars == <<link, mlme, sc, thr, user>>

Init ==
    /\ LinkInit /\ MlmeInit
    /\ sc = [st |-> "off", left |-> 0, timer |-> FALSE, abort |-> FALSE]
    /\ thr = [cmd |-> "none", pc |-> 0]
    /\ user = [op |-> "none", pc |-> 0]

TypeOK ==
    /\ LinkTypeOK /\ MlmeTypeOK
    /\ sc \in [st : {"off", "txnull", "process"}, left : 0 .. MaxCh,
               timer : BOOLEAN, abort : BOOLEAN]
    /\ thr \in [cmd : Cmds \cup {"none", "expire"}, pc : 0 .. 3]
    /\ user \in [op : {"none", "connect", "disconnect", "scan"}, pc : 0 .. 5]

associated == link.state = "associated"

\* What a report of the handshake does: report_join_res runs the prehandler at
\* once, report_del_sta_event is queued.
Report(report) ==
    mlme' = CASE report = "none" -> mlme
              [] report = "aid" -> JoinSucceeds(mlme)
              [] report = "delsta" -> Enq(mlme, "delsta")
              [] OTHER -> JoinFails(mlme)

-----------------------------------------------------------------------------
(* The receive tasklet and the timers.                                       *)

\* A frame of the access point.  During a survey beacons only feed the scan
\* results.
Frame ==
    /\ Len(mlme.q) < MaxQ
    /\ \E report \in Reports :
           /\ LinkFrame(report)
           /\ link.state = "authNull" /\ link'.state = "auth" => sc.st # "process"
           /\ Report(report)
    /\ UNCHANGED <<sc, thr, user>>

\* report_survey_event: the access point enters scanned_queue.
Heard ==
    /\ sc.st = "process" /\ ~mlme.bss
    /\ mlme' = [mlme EXCEPT !.bss = TRUE]
    /\ UNCHANGED <<link, sc, thr, user>>

HandshakeTimer ==
    /\ \E report \in Reports : LinkTimer(report) /\ Report(report)
    /\ UNCHANGED <<sc, thr, user>>

AssocTimer ==
    /\ mlme.assoc_timer
    /\ mlme' \in JoinTimeout([mlme EXCEPT !.assoc_timer = FALSE])
    /\ UNCHANGED <<link, sc, thr, user>>

ScanTimer ==
    /\ mlme.scan_timer
    /\ mlme' = ScanTimeout(mlme)
    /\ UNCHANGED <<link, sc, thr, user>>

SurveyTimer_AbortDrops ==    \* mutant: an aborted survey is dropped where it stands
    /\ sc.timer
    /\ sc' = [sc EXCEPT !.timer = FALSE, !.abort = FALSE,
                       !.left = IF sc.st = "process" /\ @ > 0 THEN @ - 1 ELSE @]
    /\ mlme' = IF sc.abort THEN mlme ELSE Enq(mlme, "survey")
    /\ UNCHANGED <<link, thr, user>>
\* survey_timer_hdl: next channel, or none of the rest after an abort.
SurveyTimer ==
    /\ sc.timer
    /\ IF sc.st = "off"
       THEN sc' = [sc EXCEPT !.timer = FALSE] /\ UNCHANGED mlme
       ELSE /\ sc' = [sc EXCEPT !.timer = FALSE, !.abort = FALSE,
                          !.left = IF sc.abort \/ @ = 0 THEN 0
                                   ELSE IF sc.st = "process" THEN @ - 1 ELSE @]
            /\ mlme' = Enq(mlme, "survey")
    /\ UNCHANGED <<link, thr, user>>

-----------------------------------------------------------------------------
(* The command thread.                                                       *)

Go(n) == thr' = [thr EXCEPT !.pc = n]
Done == thr' = [cmd |-> "none", pc |-> 0]

Take ==
    /\ thr.cmd = "none" /\ mlme.q # <<>>
    /\ thr' = [cmd |-> Head(mlme.q), pc |-> 0]
    /\ mlme' = [mlme EXCEPT !.q = Tail(@)]
    /\ UNCHANGED <<link, sc, user>>

\* sitesurvey_cmd_hdl and site_survey: 50 ms for the null frame of a station
\* that is associated, then a channel at a time; rtw_surveydone_event at the end.
CmdSurvey ==
    /\ thr.cmd = "survey"
    /\ LET left == IF sc.st = "off" THEN MaxCh ELSE sc.left IN
       CASE sc.st = "off" /\ associated ->
              /\ sc' = [sc EXCEPT !.st = "txnull", !.left = left, !.timer = TRUE]
              /\ UNCHANGED mlme
         [] ~(sc.st = "off" /\ associated) /\ left > 0 ->
              /\ sc' = [sc EXCEPT !.st = "process", !.left = left, !.timer = TRUE]
              /\ UNCHANGED mlme
         [] OTHER ->
              /\ sc' = [sc EXCEPT !.st = "off", !.left = 0]
              /\ mlme' = Enq(mlme, "surveydone")
    /\ Done
    /\ UNCHANGED <<link, user>>

CmdSurveyDone_Silent ==    \* mutant: the scan is not reported once its timer is gone
    /\ thr.cmd = "surveydone"
    /\ \/ thr.pc = 0 /\ Go(1) /\ mlme' = Clear(mlme, {"survey"})
       \/ thr.pc = 1 /\ Go(2) /\ mlme' = [mlme EXCEPT !.scan_timer = FALSE]
       \/ thr.pc = 2 /\ Done /\ mlme' \in SurveyJoin(mlme)
    /\ UNCHANGED <<link, sc, user>>
\* rtw_surveydone_event_callback: clear the flag under the lock, cancel the
\* timer outside it, join under the lock, report.
CmdSurveyDone ==
    /\ thr.cmd = "surveydone"
    /\ \/ /\ thr.pc = 0
          /\ Go(IF "survey" \in mlme.fw THEN 1 ELSE 2)
          /\ mlme' = Clear(mlme, {"survey"})
       \/ thr.pc = 1 /\ Go(2) /\ mlme' = [mlme EXCEPT !.scan_timer = FALSE]
       \/ thr.pc = 2 /\ Go(3) /\ mlme' \in SurveyJoin(mlme)
       \/ thr.pc = 3 /\ Done /\ mlme' = ScanDone(mlme)
    /\ UNCHANGED <<link, sc, user>>

\* join_cmd_hdl and start_clnt_join
CmdJoin ==
    /\ thr.cmd = "join"
    /\ \/ thr.pc = 0 /\ LeaveFirst /\ Go(1) /\ UNCHANGED mlme
       \/ thr.pc = 1 /\ ArmLinkTimer /\ Go(2)
          /\ mlme' = [mlme EXCEPT !.assoc_timer = TRUE]
       \/ thr.pc = 2 /\ EnterAuthNull /\ Done /\ UNCHANGED mlme
    /\ UNCHANGED <<sc, user>>

\* disconnect_hdl
CmdDisc ==
    /\ thr.cmd = "disc"
    /\ LeaveLink /\ Done
    /\ UNCHANGED <<mlme, sc, user>>

\* rtw_stadel_event_callback, with mlmeext_sta_del_event_callback before the lock
CmdStaDel ==
    /\ thr.cmd \in {"delsta", "delstaRoam"}
    /\ \/ thr.pc = 0 /\ Go(1) /\ UNCHANGED mlme /\ LeaveFirst
       \/ thr.pc = 1 /\ Done /\ UNCHANGED link
          /\ mlme' \in StaDel(mlme, thr.cmd = "delstaRoam")
    /\ UNCHANGED <<sc, user>>

\* linked_status_chk, every two seconds: the access point is silent, and
\* receive_disconnect.
Expire ==
    /\ thr.cmd = "none" /\ mlme.q = <<>> /\ associated
    /\ thr' = [cmd |-> "expire", pc |-> 0]
    /\ UNCHANGED <<link, mlme, sc, user>>
CmdExpire ==
    /\ thr.cmd = "expire"
    /\ LinkDown /\ mlme' = Enq(mlme, "delstaRoam") /\ Done
    /\ UNCHANGED <<sc, user>>

CmdThread ==
    \/ Take \/ CmdSurvey \/ CmdSurveyDone \/ CmdJoin \/ CmdDisc \/ CmdStaDel
    \/ CmdExpire

-----------------------------------------------------------------------------
(* The requests of cfg80211.                                                 *)

Next1(n) == user' = [user EXCEPT !.pc = n]
Return == user' = [op |-> "none", pc |-> 0]
Begin(op) ==
    /\ op \in Requests /\ user.op = "none" /\ Len(mlme.q) < MaxQ
    /\ user' = [op |-> op, pc |-> 1]

\* rtw_scan_abort: ask the survey to end and wait 200 ms for it; if it is
\* still there, the host is told that its scan is done.
AbortScan(from, to) ==
    /\ user.pc = from /\ Next1(to)
    /\ sc' = [sc EXCEPT !.abort = TRUE] /\ UNCHANGED <<link, mlme>>
AbortWait(from, to) ==
    /\ user.pc = from /\ Next1(to)
    /\ mlme' = IF "survey" \in mlme.fw THEN ScanDone(mlme) ELSE mlme
    /\ sc' = [sc EXCEPT !.abort = FALSE] /\ UNCHANGED link

\* cfg80211_rtw_connect: the host connects, changes its association or tries again.
Connect ==
    /\ Begin("connect")
    /\ mlme' = [mlme EXCEPT !.disco = TRUE,
                            !.sme = IF @ = "idle" THEN "connecting" ELSE @]
    /\ UNCHANGED <<link, sc, thr>>
ConnectStep ==
    /\ user.op = "connect"
    /\ \/ /\ user.pc = 1 /\ UNCHANGED <<link, mlme, sc>>
          /\ Next1(IF "linking" \in mlme.fw THEN 5 ELSE IF "survey" \in mlme.fw THEN 2
                   ELSE 4)
       \/ AbortScan(2, 3)
       \/ AbortWait(3, 4)
       \/ user.pc = 4 /\ UNCHANGED <<link, sc>>
          /\ \E r \in SetConnect(mlme) :
                 /\ mlme' = r.m
                 /\ Next1(IF r.ok THEN 0 ELSE 5)
       \* the end of the function: pc 0 with success, 5 with an error
       \/ user.pc \in {0, 5} /\ Return /\ UNCHANGED <<link, sc>>
          /\ mlme' = [mlme EXCEPT !.disco = FALSE,
                          !.sme = IF user.pc = 5 /\ @ = "connecting" THEN "idle" ELSE @]
    /\ UNCHANGED thr

\* cfg80211_rtw_disconnect: outside the lock throughout.
Disconnect ==
    /\ Begin("disconnect") /\ mlme.sme # "idle"
    /\ mlme' = SetToRoam(mlme, 0)
    /\ UNCHANGED <<link, sc, thr>>
DisconnectStep ==
    /\ user.op = "disconnect"
    /\ \/ AbortScan(1, 2)
       \/ AbortWait(2, 3)
       \/ user.pc = 3 /\ LinkDown /\ Next1(4) /\ UNCHANGED <<mlme, sc>>
       \/ user.pc = 4 /\ CancelLinkTimer /\ Next1(5) /\ UNCHANGED <<mlme, sc>>
       \/ user.pc = 5 /\ Next1(0) /\ UNCHANGED <<link, sc>>
          /\ mlme' = Clear(mlme, {"linking"})
       \/ user.pc = 0 /\ Return /\ UNCHANGED <<link, sc>>
          /\ mlme' = [IndicateDisconnect(mlme) EXCEPT
                          !.sme = IF @ = "connecting" THEN "idle" ELSE @]
    /\ UNCHANGED thr

\* cfg80211_rtw_scan.  The host has no other scan under way.
Scan ==
    /\ Begin("scan") /\ mlme.scan # "live"
    /\ mlme' = [mlme EXCEPT !.scan = "live"]
    /\ UNCHANGED <<link, sc, thr>>
ScanStep ==
    /\ user.op = "scan"
    /\ \/ /\ user.pc = 1
          /\ \/ Next1(2) /\ mlme.fw \cap {"survey", "linking"} = {} /\ UNCHANGED mlme
             \/ Return /\ "survey" \notin mlme.fw /\ "linking" \in mlme.fw
                /\ mlme' = [mlme EXCEPT !.scan = "stale"]      \* -EBUSY
             \* under survey, or traffic, or scans are denied for now
             \/ Return /\ ("survey" \in mlme.fw \/ "linking" \notin mlme.fw)
                /\ mlme' = ScanDone(mlme)
       \/ user.pc = 2 /\ Return /\ mlme' \in SiteSurvey(mlme)
    /\ UNCHANGED <<link, sc, thr>>

UserStep == ConnectStep \/ DisconnectStep \/ ScanStep

-----------------------------------------------------------------------------
Softirq == Frame \/ Heard \/ HandshakeTimer \/ AssocTimer \/ ScanTimer \/ SurveyTimer

Next == Softirq \/ CmdThread \/ Expire \/ UserStep \/ Connect \/ Disconnect \/ Scan

Spec == Init /\ [][Next]_vars

(* The command thread and a caller of cfg80211 get on with what they do, and *)
(* a timer that is armed fires; nothing obliges the host to ask or the       *)
(* access point to answer.                                                   *)
FairSpec ==
    /\ Spec
    /\ WF_vars(CmdThread) /\ WF_vars(UserStep)
    /\ WF_vars(HandshakeTimer) /\ WF_vars(AssocTimer)
    /\ WF_vars(ScanTimer) /\ WF_vars(SurveyTimer)

-----------------------------------------------------------------------------
\* the survey under way will get to rtw_surveydone_event_callback, or is there
SurveyComing ==
    sc.timer \/ {"survey", "surveydone"} \cap ({thr.cmd} \cup ToSet(mlme.q)) # {}

(* _FW_UNDER_SURVEY is never left behind: while it is set, and every scan    *)
(* and every connect of the host is turned away or postponed because of it,  *)
(* a command, an event or survey_timer is on its way to clear it, also when  *)
(* scan_to_timer and a second survey have got in between.                    *)
SurveyEnds == "survey" \in mlme.fw => SurveyComing

(* _FW_UNDER_LINKING is only set under assoc_timer: a handshake that is cut  *)
(* short, by a disconnect that cancels link_timer behind its back for        *)
(* instance, does not leave the station linking for ever.                    *)
JoinHasTimer == "linking" \in mlme.fw => mlme.assoc_timer

(* An attempt to connect goes on until it has an outcome.  A join postponed    *)
(* for a survey (to_join) has a survey ahead that ends in                     *)
(* rtw_surveydone_event_callback, which takes it up: no abort, scan_to_timer  *)
(* or other survey's end loses it.  A station that roams, which the host      *)
(* still takes for connected, is not linked and has an attempt under way:     *)
(* to_roam left positive would hide the next disconnect from the host.        *)
AttemptGoesOn ==
    /\ mlme.to_join => SurveyComing
    /\ mlme.to_roam > 0 =>
           "linked" \notin mlme.fw /\ (mlme.assoc_timer \/ mlme.to_join)

(* A station that is linked is neither linking nor roaming, and the entry of *)
(* its network is in scanned_queue, where the end of the link looks for it.  *)
LinkedAlone ==
    "linked" \in mlme.fw =>
        "linking" \notin mlme.fw /\ mlme.to_roam = 0 /\ mlme.bss

(* cfg80211 is told that a scan it asked for has ended, whatever joins,      *)
(* aborts and timeouts happen while it runs.                                 *)
ScanEnds == mlme.scan = "live" ~> mlme.scan # "live"

(* os_dep/ioctl_cfg80211.c:1874 "avoid WARN_ON(request !=                    *)
(* wiphy_to_dev(request->wiphy)->scan_req)": the request for which the end   *)
(* of a survey is reported is one that cfg80211 still waits for.             *)
ScanDoneMatches == thr.cmd = "surveydone" /\ thr.pc = 3 => mlme.scan # "stale"
=============================================================================
