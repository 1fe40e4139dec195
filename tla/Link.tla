-------------------------------- MODULE Link --------------------------------
(* The client's half of the 802.11 handshake with one access point:         *)
(* mlmeext_info.state, the retry counters and link_timer of                  *)
(* core/rtw_mlme_ext.c.  Each handler of a received frame or of the timer    *)
(* is an operator over the report it makes (report_join_res,                 *)
(* report_del_sta_event), which the module that extends this one interprets. *)
EXTENDS Naturals

CONSTANTS
  ReauthLimit,  \* REAUTH_LIMIT, 4 in the driver
  ReassocLimit  \* REASSOC_LIMIT, 4 in the driver

ASSUME LinkAssumption == ReauthLimit \in Nat /\ ReassocLimit \in Nat

VARIABLE link   \* [state, reauth, reassoc, timer]

\* WIFI_FW_NULL_STATE, AUTH_NULL, AUTH_STATE, AUTH_SUCCESS | ASSOC_STATE,
\* AUTH_SUCCESS | ASSOC_SUCCESS
LinkStates == {"null", "authNull", "auth", "assoc", "associated"}
Linking == {"authNull", "auth", "assoc"}      \* WIFI_FW_LINKING_STATE
\* what a handler reports: nothing, the res of report_join_res (an AID, -4, or
\* -1, -2, -3), or a report_del_sta_event
Reports == {"none", "aid", "reject", "fail", "delsta"}

LinkInit == link = [state |-> "null", reauth |-> 0, reassoc |-> 0, timer |-> FALSE]

LinkTypeOK ==
    link \in [state : LinkStates, reauth : 0 .. ReauthLimit + 1,
              reassoc : 0 .. ReassocLimit + 1, timer : BOOLEAN]

-----------------------------------------------------------------------------
(* Received frames of the access point (in the rx tasklet).                  *)

\* OnBeacon in AUTH_NULL calls start_clnt_auth.
OnBeacon(report) ==
    /\ link.state = "authNull"
    /\ link' = [state |-> "auth", reauth |-> 0, reassoc |-> 0, timer |-> TRUE]
    /\ report = "none"

\* OnAuthClient: the exchange is complete and start_clnt_assoc runs; or there
\* is a third frame to send; or the peer refused and the timer is set to 1 ms.
OnAuthClient(report) ==
    /\ link.state = "auth"
    /\ \E complete \in BOOLEAN :
           link' = [link EXCEPT !.state = IF complete THEN "assoc" ELSE @,
                                !.timer = TRUE]
    /\ report = "none"

\* OnAssocRsp
OnAssocRsp(report) ==
    /\ link.state = "assoc"
    /\ \/ report = "aid"
          /\ link' = [link EXCEPT !.state = "associated", !.timer = FALSE]
       \/ report = "reject"
          /\ link' = [link EXCEPT !.state = "null", !.timer = FALSE]

\* receive_disconnect, from OnDeAuth, OnDisassoc, or OnBeacon when the beacon
\* of the access point has changed.  Two reason codes are ignored while the
\* handshake runs.
OnDisconnect(report) ==
    /\ \/ link.state = "associated" /\ report = "delsta"
       \/ link.state \in Linking /\ report = "fail"
    /\ link' = [link EXCEPT !.state = "null"]

LinkFrame(report) ==
    \/ OnBeacon(report) \/ OnAuthClient(report) \/ OnAssocRsp(report)
    \/ OnDisconnect(report)

-----------------------------------------------------------------------------
(* link_timer_hdl: no beacon, no answer to authentication or association.    *)
LinkTimer(report) ==
    /\ link.timer
    /\ \/ /\ link.state = "authNull"
          /\ link' = [link EXCEPT !.state = "null", !.timer = FALSE]
          /\ report = "fail"
       \/ /\ link.state = "auth"
          /\ IF link.reauth + 1 > ReauthLimit
             THEN /\ report = "fail"
                  /\ link' = [link EXCEPT !.reauth = @ + 1, !.state = "null",
                                          !.timer = FALSE]
             ELSE report = "none" /\ link' = [link EXCEPT !.reauth = @ + 1]
       \/ /\ link.state = "assoc"
          /\ IF link.reassoc + 1 > ReassocLimit
             THEN /\ report = "fail"
                  /\ link' = [link EXCEPT !.reassoc = @ + 1, !.state = "null",
                                          !.timer = FALSE]
             ELSE report = "none" /\ link' = [link EXCEPT !.reassoc = @ + 1]
       \/ /\ link.state \in {"null", "associated"}
          /\ link' = [link EXCEPT !.timer = FALSE]
          /\ report = "none"

-----------------------------------------------------------------------------
(* Process context.                                                          *)

\* join_cmd_hdl: a station that is associated leaves first.
LeaveFirst ==
    link' = IF link.state = "associated"
            THEN [link EXCEPT !.state = "null", !.timer = FALSE] ELSE link
\* ... cancel link_timer; start_clnt_join arms it for the beacon,
ArmLinkTimer == link' = [link EXCEPT !.timer = TRUE]
\* ... and enters AUTH_NULL.
EnterAuthNull == link' = [link EXCEPT !.state = "authNull"]

\* rtw_mlmeext_disconnect: the state first, the timer some register writes later.
\* In the command thread the two are one step, since only that thread arms the
\* timer and its handler does nothing in the null state.
LeaveLink == link' = [link EXCEPT !.state = "null", !.timer = FALSE]
LinkDown == link' = [link EXCEPT !.state = "null"]
CancelLinkTimer == link' = [link EXCEPT !.timer = FALSE]
=============================================================================
