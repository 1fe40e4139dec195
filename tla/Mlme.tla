-------------------------------- MODULE Mlme --------------------------------
(* The connection state a station keeps for the host, mlme_priv of           *)
(* core/rtw_mlme.c, and what the host is told through cfg80211.  The         *)
(* functions of the driver that run under pmlmepriv->lock are operators on   *)
(* the record m of that state:                                               *)
(*   fw           fw_state: the subset of _FW_UNDER_SURVEY, _FW_UNDER_LINKING *)
(*                and _FW_LINKED that is set                                 *)
(*   to_join      a survey is to be followed by a join                       *)
(*   to_roam      attempts left to get back to the network                   *)
(*   bss          the access point is in scanned_queue                       *)
(*   assoc_timer, scan_timer    pending timers                               *)
(*   disco        not_indic_disco: connect is running in cfg80211            *)
(*   q            the commands of the command queue this model follows       *)
(*   sme          what cfg80211 believes: idle, connecting, connected        *)
(*   scan         scan_request: none, live, or stale once cfg80211 was told  *)
(*                by an error that the request failed and has freed it       *)
(* There is one access point.  Allocations and rtw_enqueue_cmd succeed.      *)
EXTENDS Naturals, Sequences

CONSTANTS MaxRoam,   \* registrypriv.max_roaming_times, 2 by default
          MaxQ       \* the environment adds no command to a queue this long

ASSUME MlmeAssumption == MaxRoam \in Nat /\ MaxQ \in Nat

VARIABLE mlme

Cmds == {"survey", "surveydone", "join", "disc", "delsta", "delstaRoam"}

MlmeInit ==
    mlme = [fw |-> {}, to_join |-> FALSE, to_roam |-> 0, bss |-> FALSE,
            assoc_timer |-> FALSE, scan_timer |-> FALSE, disco |-> FALSE,
            q |-> <<>>, sme |-> "idle", scan |-> "none"]

MlmeStates ==
    [fw : SUBSET {"survey", "linking", "linked"}, to_join : BOOLEAN,
     to_roam : 0 .. MaxRoam, bss : BOOLEAN, assoc_timer : BOOLEAN,
     scan_timer : BOOLEAN, disco : BOOLEAN, q : Seq(Cmds),
     sme : {"idle", "connecting", "connected"}, scan : {"none", "live", "stale"}]
MlmeTypeOK == mlme \in MlmeStates

Set(m, bits) == [m EXCEPT !.fw = @ \cup bits]
Clear(m, bits) == [m EXCEPT !.fw = @ \ bits]
Enq(m, cmd) == [m EXCEPT !.q = Append(@, cmd)]

\* rtw_set_to_roam: giving up also forgets the pending join.
SetToRoam(m, n) == [m EXCEPT !.to_roam = n, !.to_join = @ /\ n # 0]

-----------------------------------------------------------------------------
(* What the host is told.                                                    *)

\* rtw_cfg80211_indicate_disconnect: cfg80211_disconnected, or a failed
\* cfg80211_connect_result; nothing while connect runs.
CfgDisconnect(m) == IF m.disco THEN m ELSE [m EXCEPT !.sme = "idle"]

\* rtw_indicate_disconnect.  A station that roams is not disconnected for the host.
IndicateDisconnect(m) ==
    LET n == Clear(m, {"linking"}) IN
    IF m.to_roam > 0 THEN Clear(n, {"linked"})
                     ELSE Clear(CfgDisconnect(n), {"linked"})

\* rtw_indicate_connect: cfg80211_roamed changes nothing for the host, which
\* drops it unless it is connected; cfg80211_connect_result does.
IndicateConnect(m) ==
    LET told == "linked" \notin m.fw /\ m.to_roam = 0
    IN  SetToRoam(Set([m EXCEPT !.to_join = FALSE,
                                !.sme = IF told THEN "connected" ELSE @],
                      {"linked"}), 0)

\* rtw_indicate_scan_done: cfg80211_scan_done for the scan_request there is.
ScanDone(m) == [m EXCEPT !.scan = "none"]

-----------------------------------------------------------------------------
(* Surveys and joins.  An operator that returns a set leaves open what the   *)
(* air, the age of an entry or the traffic decides.                          *)

\* rtw_sitesurvey_cmd: entries of scanned_queue that are old are dropped.
SiteSurvey(m) ==
    {Enq([Set(m, {"survey"}) EXCEPT !.bss = b, !.scan_timer = TRUE], "survey") :
         b \in {m.bss, m.bss /\ "linked" \in m.fw}}

Joins_NoLeave(m) ==    \* mutant: the link stays up
    IF m.bss THEN {Enq(Set(m, {"linking"}), "join")} ELSE {}
\* rtw_select_and_join_from_scanned_queue when it finds a candidate: a station
\* that is linked leaves first; rtw_joinbss_cmd.
Joins(m) ==
    LET left == IF "linked" \in m.fw THEN IndicateDisconnect(Enq(m, "disc")) ELSE m
    IN  IF m.bss THEN {Enq(Set(left, {"linking"}), "join")} ELSE {}

\* The other outcome, no candidate, is always possible: the entry may be of
\* another network, too old, or of the wrong security.

\* rtw_do_join.  Without a candidate it surveys first, unless there is traffic.
Arm(m) == [m EXCEPT !.to_join = FALSE, !.assoc_timer = TRUE]
DoJoin(m) ==
    LET want == [m EXCEPT !.to_join = TRUE]
        none == Clear(want, {"linking"})
    IN  {[ok |-> TRUE, m |-> Arm(n)] : n \in Joins(Set(want, {"linking"}))}
        \cup {[ok |-> TRUE, m |-> n] : n \in SiteSurvey(none)}
        \cup IF m.to_roam > 0 THEN {}
             ELSE {[ok |-> FALSE, m |-> [none EXCEPT !.to_join = FALSE]]}

-----------------------------------------------------------------------------
(* The events.                                                               *)

\* rtw_joinbss_event_prehandle for a positive join_res; it is ignored unless a
\* join is under way and its network still known.  rtw_joinbss_update_network
\* overwrites fw_state.
JoinSucceeds(m) ==
    IF "linking" \in m.fw /\ m.bss
    THEN [IndicateConnect([m EXCEPT !.fw = {}]) EXCEPT !.assoc_timer = FALSE]
    ELSE m

\* The same for -4 and for the other negative results: assoc_timer is set to 1 ms.
JoinFails(m) == Clear([m EXCEPT !.assoc_timer = TRUE], {"linking"})

\* _rtw_join_timeout_handler.  rtw_do_join cannot fail while to_roam is positive,
\* so the loop of the code runs once.
JoinTimeout(m) ==
    LET dec == [m EXCEPT !.to_roam = @ - 1]
        end == [IndicateDisconnect(m) EXCEPT !.bss = FALSE]
    IN  CASE m.to_roam = 0 -> {CfgDisconnect(end)}
          [] m.to_roam = 1 -> {IndicateDisconnect(dec)}
          [] OTHER -> {r.m : r \in DoJoin(dec)}

SurveyJoin_NoTimer(m) ==    \* mutant: no assoc_timer for the join
    LET try == Set([m EXCEPT !.to_join = FALSE], {"linking"})
    IN  IF m.to_join THEN Joins(try) \cup {Clear(IndicateDisconnect(try), {"linking"})}
                     ELSE {m}
SurveyJoin_Once(m) ==    \* mutant: the next survey of a roam has no join to follow
    LET try == Set([m EXCEPT !.to_join = FALSE], {"linking"})
        dec == [try EXCEPT !.to_roam = @ - 1]
        fail == CASE m.to_roam = 0 -> {IndicateDisconnect(try)}
                  [] m.to_roam = 1 -> {IndicateDisconnect(SetToRoam(dec, 0))}
                  [] OTHER -> SiteSurvey(dec)
    IN  IF m.to_join THEN {[n EXCEPT !.assoc_timer = TRUE] : n \in Joins(try)}
                          \cup {Clear(n, {"linking"}) : n \in fail}
                     ELSE {m}
\* rtw_surveydone_event_callback, its second critical section
SurveyJoin(m) ==
    LET try == Set([m EXCEPT !.to_join = FALSE], {"linking"})
        dec == [try EXCEPT !.to_roam = @ - 1]
        fail == CASE m.to_roam = 0 -> {IndicateDisconnect(try)}
                  [] m.to_roam = 1 -> {IndicateDisconnect(SetToRoam(dec, 0))}
                  [] OTHER -> {[n EXCEPT !.to_join = TRUE] : n \in SiteSurvey(dec)}
    IN  IF m.to_join THEN {[n EXCEPT !.assoc_timer = TRUE] : n \in Joins(try)}
                          \cup {Clear(n, {"linking"}) : n \in fail}
                     ELSE {m}

StaDel_DecZero(m, roam) ==    \* mutant: to_roam is counted down from 0
    LET n == IF roam THEN [m EXCEPT !.to_roam = @ - 1] ELSE SetToRoam(m, 0)
        down == [IndicateDisconnect(n) EXCEPT !.bss = FALSE]
    IN  IF n.to_roam > 0 THEN {r.m : r \in DoJoin(down)} ELSE {down}
\* rtw_stadel_event_callback, its critical section, and _rtw_roaming: a link
\* that expired is looked for again.
StaDel(m, roam) ==
    LET n == CASE ~roam -> SetToRoam(m, 0)
               [] roam /\ m.to_roam > 0 -> [m EXCEPT !.to_roam = @ - 1]
               [] OTHER -> SetToRoam(m, MaxRoam)
        down == [IndicateDisconnect(n) EXCEPT !.bss = FALSE]
    IN  IF n.to_roam > 0 THEN {r.m : r \in DoJoin(down)} ELSE {down}

\* rtw_scan_timeout_handler
ScanTimeout(m) == ScanDone(Clear([m EXCEPT !.scan_timer = FALSE], {"survey"}))

\* rtw_set_802_11_connect, its critical section.  It may refuse, for TKIP
\* countermeasures; while a join is under way it reports success and does nothing.
SetConnect(m) ==
    IF "linking" \in m.fw /\ "survey" \notin m.fw THEN {[ok |-> TRUE, m |-> m]}
    ELSE {[ok |-> FALSE, m |-> m]}
         \cup IF "survey" \in m.fw THEN {[ok |-> TRUE, m |-> [m EXCEPT !.to_join = TRUE]]}
                                   ELSE DoJoin(m)
=============================================================================
