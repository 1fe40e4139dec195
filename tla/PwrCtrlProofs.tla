---------------------------- MODULE PwrCtrlProofs ----------------------------
(***************************************************************************)
(* The invariants of PwrCtrl, for any length of the command queue and any   *)
(* choice of the host's operations: the radio is not switched off under     *)
(* somebody who uses it, the suspend has the device for itself, and the     *)
(* chain that looks for an idle radio does not break.                       *)
(***************************************************************************)
EXTENDS PwrCtrl, TLAPS

\* rtw_ps_processor between its test and the end of the power-down
GoingDown == thr.pc \in {"enter", "down", "off"}
\* _rtw_pwr_wakeup after the wait for ps_processing
Awake == host.pc \in {"rf", "leave", "up", "done", "woken"}
Deferred == Awake \/ host.pc = "wait"

\* Who holds the lock, and who shows ps_processing.
LockInv ==
    /\ pwr.lock = "thr" <=> thr.pc \in {"down", "off"}
    /\ pwr.lock = "host" <=> host.pc = "up"
    /\ GoingDown \/ thr.pc = "idlecheck" => pwr.ps
    /\ pwr.ps => GoingDown \/ thr.pc \in {"idlecheck", "exit"}

\* The host and the suspend exclude each other; when there is a thread.
PmInv ==
    /\ pm # "on" => host.pc = "idle"
    /\ pwr.insusp <=> pm # "on"
    /\ ~nic.up => ~thr.run
    /\ nic.up /\ pm # "unload" => thr.run
    /\ ~thr.run => thr.pc = "idle"
    /\ pm = "unload" => ~thr.run
    /\ pm = "off" => ~nic.up

\* An operation that denies power saving, against the handler: the handler is
\* in front of the lock, or finds the deferral, or is done before the wait ends;
\* else it missed the wake-up.
DenyInv ==
    /\ host.pc = "deny" => host.op \in Denying
    /\ host.op \in Denying /\ (Deferred \/ host.pc = "defer") => host.op \in pwr.deny
    /\ host.op \in Denying /\ Deferred /\ thr.pc \in {"checked", "idlecheck"}
           => pwr.until # "past" \/ thr.missed
    /\ host.op \in Denying /\ Awake => ~GoingDown \/ thr.missed

\* The radio and rf_pwrstate.
RadioInv ==
    /\ Active \/ host.pc = "woken" => nic.up
    /\ GoingDown => pwr.rf = "on" /\ (~Active \/ thr.missed)
    /\ host.pc = "up" => pwr.rf = "off"
    /\ Active /\ ~nic.hw => PowerUpFailed \/ thr.missed
    /\ host.pc = "woken" /\ host.op \in Denying /\ ~nic.hw => PowerUpFailed \/ thr.missed

\* The chain of timer, command and handler.
ChainInv ==
    /\ nic.hw /\ nic.up /\ pm = "on" /\ host.pc # "up"
           => nic.timer \/ thr.q > 0 \/ thr.pc # "idle"
    /\ pm = "resumed" /\ nic.up => nic.timer

PwrInv == TypeOK /\ LockInv /\ PmInv /\ DenyInv /\ RadioInv /\ ChainInv

LEMMA OpenedType ==
    ASSUME NEW ok \in BOOLEAN, nic \in NicStates
    PROVE  Opened(ok, nic) \in NicStates
  BY DEF Opened, NicStates

\* Every variable keeps its type.
LEMMA TypeOKStep == TypeOK /\ DenyInv /\ [Next]_vars => TypeOK'
<1> SUFFICES ASSUME TypeOK, DenyInv, [Next]_vars
             PROVE  TypeOK'
  OBVIOUS
<1> USE PwrAssumption DEF TypeOK, DenyInv, ThrAt, HostAt
<1>1. CASE Tick
  BY <1>1 DEF Tick, PwrStates, ThrStates
<1>2. CASE CheckTimer
  <2>1. nic' \in NicStates
    BY <1>2 DEF CheckTimer, NicStates, Uses
  <2>2. thr' \in ThrStates
    BY <1>2 DEF CheckTimer, ThrStates, ThrPcs
  <2> QED
    BY <1>2, <2>1, <2>2 DEF CheckTimer
<1>3. CASE TakePs
  <2>a. thr.q - 1 \in 0 .. MaxPs
    BY <1>3 DEF TakePs, ThrStates
  <2>1. thr' \in ThrStates
    BY <1>3, <2>a DEF TakePs, ThrStates, ThrPcs
  <2> QED
    BY <1>3, <2>1 DEF TakePs
<1>4. CASE PsDeny
  BY <1>4 DEF PsDeny, ThrStates, ThrPcs
<1>5. CASE PsBegin
  <2>1. pwr' \in PwrStates
    BY <1>5 DEF PsBegin, PwrStates
  <2>2. thr' \in ThrStates
    BY <1>5 DEF PsBegin, ThrStates, ThrPcs
  <2> QED
    BY <1>5, <2>1, <2>2 DEF PsBegin
<1>6. CASE PsIdle
  BY <1>6 DEF PsIdle, UnassociatedIdle, ThrStates, ThrPcs
<1>7. CASE IpsEnter
  BY <1>7 DEF IpsEnter, PwrStates, ThrStates, ThrPcs
<1>8. CASE IpsDown
  <2>1. nic' \in NicStates
    BY <1>8 DEF IpsDown, NicStates, Uses
  <2>2. thr' \in ThrStates
    BY <1>8 DEF IpsDown, ThrStates, ThrPcs
  <2> QED
    BY <1>8, <2>1, <2>2 DEF IpsDown
<1>9. CASE IpsOff
  <2>1. pwr' \in PwrStates
    BY <1>9 DEF IpsOff, PwrStates
  <2>2. thr' \in ThrStates
    BY <1>9 DEF IpsOff, ThrStates, ThrPcs
  <2> QED
    BY <1>9, <2>1, <2>2 DEF IpsOff
<1>10. CASE PsExit
  BY <1>10 DEF PsExit, PwrStates, NicStates, Uses, ThrStates, ThrPcs
<1>11. CASE \E op \in Denying \cup Calling : HostBegin(op)
  BY <1>11 DEF HostBegin, HostStates, HostPcs
<1>12. CASE HostDeny
  BY <1>12 DEF HostDeny, PwrStates, HostStates, HostPcs
<1>13. CASE WakeDefer
  BY <1>13 DEF WakeDefer, PwrStates, HostStates, HostPcs
<1>14. CASE WakeWait
  BY <1>14 DEF WakeWait, HostStates, HostPcs
<1>15. CASE WakeTimeout
  BY <1>15 DEF WakeTimeout, HostStates, HostPcs, ThrStates
<1>16. CASE WakeRf
  BY <1>16 DEF WakeRf, PwrStates, HostStates, HostPcs
<1>17. CASE IpsLeave
  BY <1>17 DEF IpsLeave, PwrStates, HostStates, HostPcs
<1>18. CASE IpsUp
  BY <1>18 DEF IpsUp, PwrStates, NicStates, Uses, HostStates, HostPcs
<1>19. CASE IpsUpFails
  BY <1>19 DEF IpsUpFails, PwrStates, NicStates, Uses, HostStates, HostPcs
<1>20. CASE WakeDone
  BY <1>20 DEF WakeDone, PwrStates, HostStates, HostPcs
<1>21. CASE HostUse
  BY <1>21 DEF HostUse, NicStates, Uses, HostStates, HostPcs
<1>22. CASE HostCancel
  BY <1>22 DEF HostCancel, PwrStates, HostStates, HostPcs
<1>23. CASE SurveyDone
  <2>a. PICK j \in {{}, {"linking"}} : ScanDone((nic.use \ {"survey"}) \cup j)
    BY <1>23 DEF SurveyDone
  <2>1. pwr' \in PwrStates
    BY <1>23 DEF SurveyDone, ScanDone, InThread, PwrStates
  <2>2. nic' \in NicStates
    BY <1>23, <2>a DEF SurveyDone, ScanDone, InThread, NicStates, Uses
  <2> QED
    BY <1>23, <2>1, <2>2 DEF SurveyDone, ScanDone, InThread
<1>24. CASE ScanTimeout
  <2>1. pwr' \in PwrStates
    BY <1>24 DEF ScanTimeout, ScanDone, PwrStates
  <2>2. nic' \in NicStates
    BY <1>24 DEF ScanTimeout, ScanDone, NicStates, Uses
  <2> QED
    BY <1>24, <2>1, <2>2 DEF ScanTimeout, ScanDone
<1>25. CASE JoinSucceeds
  BY <1>25 DEF JoinSucceeds, InThread, NicStates, Uses
<1>26. CASE JoinFails
  BY <1>26 DEF JoinFails, Disconnected, PwrStates, NicStates, Uses
<1>27. CASE LinkLost
  BY <1>27 DEF LinkLost, Disconnected, PwrStates, NicStates, Uses
<1>28. CASE TxDone
  BY <1>28 DEF TxDone, NicStates, Uses
<1>29. CASE \E ok \in BOOLEAN : Open(ok)
  <2>1. nic' \in NicStates
    BY <1>29, OpenedType DEF Open
  <2>2. thr' \in ThrStates
    BY <1>29 DEF Open, Opened, ThrStates, ThrPcs
  <2> QED
    BY <1>29, <2>1, <2>2 DEF Open, Opened
<1>30. CASE \E ok \in BOOLEAN : Resume(ok)
  <2>1. nic' \in NicStates
    <3>1. PICK ok \in BOOLEAN : Resume(ok)
      BY <1>30
    <3>2. Opened(ok, nic) \in NicStates
      BY OpenedType
    <3>3. PICK roam \in {{}, {"survey"}, {"linking"}} :
              nic' = [Opened(ok, nic) EXCEPT !.use = IF ok THEN roam ELSE {}]
      BY <3>1 DEF Resume
    <3> QED
      BY <3>2, <3>3 DEF NicStates, Uses
  <2>2. thr' \in ThrStates
    BY <1>30 DEF Resume, Opened, PmStep, ThrStates, ThrPcs
  <2>3. pm' \in PmPcs
    BY <1>30 DEF Resume, Opened, PmStep, PmPcs
  <2> QED
    BY <1>30, <2>1, <2>2, <2>3 DEF Resume, Opened, PmStep
<1>31. CASE SuspendBegin
  BY <1>31 DEF SuspendBegin, PmStep, PwrStates, PmPcs
<1>32. CASE SuspendWait
  BY <1>32 DEF SuspendWait, PmStep, PmPcs
<1>33. CASE SuspendDeny
  BY <1>33 DEF SuspendDeny, PmStep, PwrStates, PmPcs
<1>34. CASE SuspendCancel
  <2>1. nic' \in NicStates
    BY <1>34 DEF SuspendCancel, PmStep, NicStates, Uses
  <2>2. pm' \in PmPcs
    BY <1>34 DEF SuspendCancel, PmStep, PmPcs
  <2> QED
    BY <1>34, <2>1, <2>2 DEF SuspendCancel, PmStep
<1>35. CASE SuspendStop
  <2>a. 0 \in 0 .. MaxPs
    OBVIOUS
  <2>1. thr' \in ThrStates
    BY <1>35, <2>a DEF SuspendStop, PmStep, ThrStates, ThrPcs
  <2>2. pm' \in PmPcs
    BY <1>35 DEF SuspendStop, PmStep, PmPcs
  <2> QED
    BY <1>35, <2>1, <2>2 DEF SuspendStop, PmStep
<1>36. CASE SuspendUnload
  <2>1. pwr' \in PwrStates
    BY <1>36 DEF SuspendUnload, PmStep, PwrStates
  <2>2. nic' \in NicStates
    BY <1>36 DEF SuspendUnload, PmStep, NicStates, Uses
  <2>3. pm' \in PmPcs
    BY <1>36 DEF SuspendUnload, PmStep, PmPcs
  <2> QED
    BY <1>36, <2>1, <2>2, <2>3 DEF SuspendUnload, PmStep
<1>37. CASE ResumeEnd
  <2>1. pwr' \in PwrStates
    BY <1>37 DEF ResumeEnd, PmStep, PwrStates
  <2>2. pm' \in PmPcs
    BY <1>37 DEF ResumeEnd, PmStep, PmPcs
  <2> QED
    BY <1>37, <2>1, <2>2 DEF ResumeEnd, PmStep
<1>38. CASE UNCHANGED vars
  BY <1>38 DEF vars
<1> QED
  BY <1>1, <1>2, <1>3, <1>4, <1>5, <1>6, <1>7, <1>8, <1>9, <1>10, <1>11, <1>12, <1>13, <1>14, <1>16, <1>17, <1>18, <1>19, <1>20, <1>21, <1>22, <1>23, <1>24, <1>25, <1>26, <1>27, <1>28, <1>29, <1>30, <1>31, <1>32, <1>33, <1>34, <1>35, <1>36, <1>37, <1>38, <1>15 DEF Next, PsProcessor, HostStep, UseEnds, Suspend

\* The lock and ps_processing.
LEMMA LockInvStep == TypeOK /\ LockInv /\ [Next]_vars => LockInv'
<1> SUFFICES ASSUME TypeOK, LockInv, [Next]_vars
             PROVE  LockInv'
  OBVIOUS
<1> USE PwrAssumption DEF TypeOK, LockInv, GoingDown, PwrStates, NicStates, ThrStates, HostStates, ThrAt, HostAt
<1>1. CASE Tick
  BY <1>1 DEF Tick
<1>2. CASE CheckTimer
  BY <1>2 DEF CheckTimer
<1>3. CASE TakePs
  BY <1>3 DEF TakePs
<1>4. CASE PsDeny
  BY <1>4 DEF PsDeny
<1>5. CASE PsBegin
  BY <1>5 DEF PsBegin
<1>6. CASE PsIdle
  BY <1>6 DEF PsIdle, UnassociatedIdle
<1>7. CASE IpsEnter
  BY <1>7 DEF IpsEnter
<1>8. CASE IpsDown
  BY <1>8 DEF IpsDown
<1>9. CASE IpsOff
  BY <1>9 DEF IpsOff
<1>10. CASE PsExit
  BY <1>10 DEF PsExit
<1>11. CASE \E op \in Denying \cup Calling : HostBegin(op)
  BY <1>11 DEF HostBegin
<1>12. CASE HostDeny
  BY <1>12 DEF HostDeny
<1>13. CASE WakeDefer
  BY <1>13 DEF WakeDefer
<1>14. CASE WakeWait
  BY <1>14 DEF WakeWait
<1>15. CASE WakeTimeout
  BY <1>15 DEF WakeTimeout, Waking
<1>16. CASE WakeRf
  BY <1>16 DEF WakeRf
<1>17. CASE IpsLeave
  BY <1>17 DEF IpsLeave
<1>18. CASE IpsUp
  BY <1>18 DEF IpsUp
<1>19. CASE IpsUpFails
  BY <1>19 DEF IpsUpFails
<1>20. CASE WakeDone
  BY <1>20 DEF WakeDone
<1>21. CASE HostUse
  BY <1>21 DEF HostUse
<1>22. CASE HostCancel
  BY <1>22 DEF HostCancel
<1>23. CASE SurveyDone
  BY <1>23 DEF SurveyDone, ScanDone, InThread
<1>24. CASE ScanTimeout
  BY <1>24 DEF ScanTimeout, ScanDone
<1>25. CASE JoinSucceeds
  BY <1>25 DEF JoinSucceeds, InThread
<1>26. CASE JoinFails
  BY <1>26 DEF JoinFails, Disconnected
<1>27. CASE LinkLost
  BY <1>27 DEF LinkLost, Disconnected
<1>28. CASE TxDone
  BY <1>28 DEF TxDone
<1>29. CASE \E ok \in BOOLEAN : Open(ok)
  BY <1>29 DEF Open, Opened
<1>30. CASE \E ok \in BOOLEAN : Resume(ok)
  BY <1>30 DEF Resume, Opened, PmStep
<1>31. CASE SuspendBegin
  BY <1>31 DEF SuspendBegin, PmStep
<1>32. CASE SuspendWait
  BY <1>32 DEF SuspendWait, PmStep
<1>33. CASE SuspendDeny
  BY <1>33 DEF SuspendDeny, PmStep
<1>34. CASE SuspendCancel
  BY <1>34 DEF SuspendCancel, PmStep
<1>35. CASE SuspendStop
  BY <1>35 DEF SuspendStop, PmStep
<1>36. CASE SuspendUnload
  BY <1>36 DEF SuspendUnload, PmStep
<1>37. CASE ResumeEnd
  BY <1>37 DEF ResumeEnd, PmStep
<1>38. CASE UNCHANGED vars
  BY <1>38 DEF vars
<1> QED
  BY <1>1, <1>2, <1>3, <1>4, <1>5, <1>6, <1>7, <1>8, <1>9, <1>10, <1>11, <1>12, <1>13, <1>14, <1>16, <1>17, <1>18, <1>19, <1>20, <1>21, <1>22, <1>23, <1>24, <1>25, <1>26, <1>27, <1>28, <1>29, <1>30, <1>31, <1>32, <1>33, <1>34, <1>35, <1>36, <1>37, <1>38, <1>15 DEF Next, PsProcessor, HostStep, UseEnds, Suspend

\* The suspend, the host and the thread.
LEMMA PmInvStep == TypeOK /\ LockInv /\ PmInv /\ [Next]_vars => PmInv'
<1> SUFFICES ASSUME TypeOK, LockInv, PmInv, [Next]_vars
             PROVE  PmInv'
  OBVIOUS
<1> USE PwrAssumption DEF TypeOK, LockInv, PmInv, PwrStates, NicStates, ThrStates, HostStates, ThrAt, HostAt
<1>1. CASE Tick
  BY <1>1 DEF Tick
<1>2. CASE CheckTimer
  BY <1>2 DEF CheckTimer
<1>3. CASE TakePs
  BY <1>3 DEF TakePs
<1>4. CASE PsDeny
  BY <1>4 DEF PsDeny
<1>5. CASE PsBegin
  BY <1>5 DEF PsBegin
<1>6. CASE PsIdle
  BY <1>6 DEF PsIdle, UnassociatedIdle
<1>7. CASE IpsEnter
  BY <1>7 DEF IpsEnter
<1>8. CASE IpsDown
  BY <1>8 DEF IpsDown
<1>9. CASE IpsOff
  BY <1>9 DEF IpsOff
<1>10. CASE PsExit
  BY <1>10 DEF PsExit
<1>11. CASE \E op \in Denying \cup Calling : HostBegin(op)
  BY <1>11 DEF HostBegin
<1>12. CASE HostDeny
  BY <1>12 DEF HostDeny
<1>13. CASE WakeDefer
  BY <1>13 DEF WakeDefer
<1>14. CASE WakeWait
  BY <1>14 DEF WakeWait
<1>15. CASE WakeTimeout
  BY <1>15 DEF WakeTimeout, Waking
<1>16. CASE WakeRf
  BY <1>16 DEF WakeRf
<1>17. CASE IpsLeave
  BY <1>17 DEF IpsLeave
<1>18. CASE IpsUp
  BY <1>18 DEF IpsUp
<1>19. CASE IpsUpFails
  BY <1>19 DEF IpsUpFails
<1>20. CASE WakeDone
  BY <1>20 DEF WakeDone
<1>21. CASE HostUse
  BY <1>21 DEF HostUse
<1>22. CASE HostCancel
  BY <1>22 DEF HostCancel
<1>23. CASE SurveyDone
  BY <1>23 DEF SurveyDone, ScanDone, InThread
<1>24. CASE ScanTimeout
  BY <1>24 DEF ScanTimeout, ScanDone
<1>25. CASE JoinSucceeds
  BY <1>25 DEF JoinSucceeds, InThread
<1>26. CASE JoinFails
  BY <1>26 DEF JoinFails, Disconnected
<1>27. CASE LinkLost
  BY <1>27 DEF LinkLost, Disconnected
<1>28. CASE TxDone
  BY <1>28 DEF TxDone
<1>29. CASE \E ok \in BOOLEAN : Open(ok)
  BY <1>29 DEF Open, Opened
<1>30. CASE \E ok \in BOOLEAN : Resume(ok)
  BY <1>30 DEF Resume, Opened, PmStep
<1>31. CASE SuspendBegin
  BY <1>31 DEF SuspendBegin, PmStep
<1>32. CASE SuspendWait
  BY <1>32 DEF SuspendWait, PmStep
<1>33. CASE SuspendDeny
  BY <1>33 DEF SuspendDeny, PmStep
<1>34. CASE SuspendCancel
  BY <1>34 DEF SuspendCancel, PmStep
<1>35. CASE SuspendStop
  BY <1>35 DEF SuspendStop, PmStep
<1>36. CASE SuspendUnload
  BY <1>36 DEF SuspendUnload, PmStep
<1>37. CASE ResumeEnd
  BY <1>37 DEF ResumeEnd, PmStep
<1>38. CASE UNCHANGED vars
  BY <1>38 DEF vars
<1> QED
  BY <1>1, <1>2, <1>3, <1>4, <1>5, <1>6, <1>7, <1>8, <1>9, <1>10, <1>11, <1>12, <1>13, <1>14, <1>16, <1>17, <1>18, <1>19, <1>20, <1>21, <1>22, <1>23, <1>24, <1>25, <1>26, <1>27, <1>28, <1>29, <1>30, <1>31, <1>32, <1>33, <1>34, <1>35, <1>36, <1>37, <1>38, <1>15 DEF Next, PsProcessor, HostStep, UseEnds, Suspend

\* The race of a wake-up with the handler: Tick and WakeTimeout are where one may be
\* missed.
LEMMA DenyInvStep == TypeOK /\ LockInv /\ PmInv /\ DenyInv /\ [Next]_vars => DenyInv'
<1> SUFFICES ASSUME TypeOK, LockInv, PmInv, DenyInv, [Next]_vars
             PROVE  DenyInv'
  OBVIOUS
<1> USE PwrAssumption DEF TypeOK, LockInv, PmInv, DenyInv, GoingDown, Awake, Deferred, Waking, PastDeny, PwrStates, NicStates, ThrStates, HostStates, ThrAt, HostAt
<1>1. CASE Tick
  BY <1>1 DEF Tick
<1>2. CASE CheckTimer
  BY <1>2 DEF CheckTimer
<1>3. CASE TakePs
  BY <1>3 DEF TakePs
<1>4. CASE PsDeny
  BY <1>4 DEF PsDeny
<1>5. CASE PsBegin
  BY <1>5 DEF PsBegin
<1>6. CASE PsIdle
  BY <1>6 DEF PsIdle, UnassociatedIdle
<1>7. CASE IpsEnter
  BY <1>7 DEF IpsEnter
<1>8. CASE IpsDown
  BY <1>8 DEF IpsDown
<1>9. CASE IpsOff
  BY <1>9 DEF IpsOff
<1>10. CASE PsExit
  BY <1>10 DEF PsExit
<1>11. CASE \E op \in Denying \cup Calling : HostBegin(op)
  BY <1>11 DEF HostBegin
<1>12. CASE HostDeny
  BY <1>12 DEF HostDeny
<1>13. CASE WakeDefer
  BY <1>13 DEF WakeDefer
<1>14. CASE WakeWait
  BY <1>14 DEF WakeWait
<1>15. CASE WakeTimeout
  BY <1>15 DEF WakeTimeout, Waking
<1>16. CASE WakeRf
  BY <1>16 DEF WakeRf
<1>17. CASE IpsLeave
  BY <1>17 DEF IpsLeave
<1>18. CASE IpsUp
  BY <1>18 DEF IpsUp
<1>19. CASE IpsUpFails
  BY <1>19 DEF IpsUpFails
<1>20. CASE WakeDone
  BY <1>20 DEF WakeDone
<1>21. CASE HostUse
  BY <1>21 DEF HostUse
<1>22. CASE HostCancel
  BY <1>22 DEF HostCancel
<1>23. CASE SurveyDone
  BY <1>23 DEF SurveyDone, ScanDone, InThread
<1>24. CASE ScanTimeout
  BY <1>24 DEF ScanTimeout, ScanDone
<1>25. CASE JoinSucceeds
  BY <1>25 DEF JoinSucceeds, InThread
<1>26. CASE JoinFails
  BY <1>26 DEF JoinFails, Disconnected
<1>27. CASE LinkLost
  BY <1>27 DEF LinkLost, Disconnected
<1>28. CASE TxDone
  BY <1>28 DEF TxDone
<1>29. CASE \E ok \in BOOLEAN : Open(ok)
  BY <1>29 DEF Open, Opened
<1>30. CASE \E ok \in BOOLEAN : Resume(ok)
  BY <1>30 DEF Resume, Opened, PmStep
<1>31. CASE SuspendBegin
  BY <1>31 DEF SuspendBegin, PmStep
<1>32. CASE SuspendWait
  BY <1>32 DEF SuspendWait, PmStep
<1>33. CASE SuspendDeny
  BY <1>33 DEF SuspendDeny, PmStep
<1>34. CASE SuspendCancel
  BY <1>34 DEF SuspendCancel, PmStep
<1>35. CASE SuspendStop
  BY <1>35 DEF SuspendStop, PmStep
<1>36. CASE SuspendUnload
  BY <1>36 DEF SuspendUnload, PmStep
<1>37. CASE ResumeEnd
  BY <1>37 DEF ResumeEnd, PmStep
<1>38. CASE UNCHANGED vars
  BY <1>38 DEF vars
<1> QED
  BY <1>1, <1>2, <1>3, <1>4, <1>5, <1>6, <1>7, <1>8, <1>9, <1>10, <1>11, <1>12, <1>13, <1>14, <1>16, <1>17, <1>18, <1>19, <1>20, <1>21, <1>22, <1>23, <1>24, <1>25, <1>26, <1>27, <1>28, <1>29, <1>30, <1>31, <1>32, <1>33, <1>34, <1>35, <1>36, <1>37, <1>38, <1>15 DEF Next, PsProcessor, HostStep, UseEnds, Suspend

\* The radio.
LEMMA RadioInvStep == TypeOK /\ LockInv /\ PmInv /\ DenyInv /\ RadioInv /\ [Next]_vars => RadioInv'
<1> SUFFICES ASSUME TypeOK, LockInv, PmInv, DenyInv, RadioInv, [Next]_vars
             PROVE  RadioInv'
  OBVIOUS
<1> USE PwrAssumption DEF TypeOK, LockInv, PmInv, DenyInv, RadioInv, GoingDown, Awake, Deferred, Active, Waking, PastDeny, PowerUpFailed, PwrStates, NicStates, ThrStates, HostStates, ThrAt, HostAt
<1>1. CASE Tick
  BY <1>1 DEF Tick
<1>2. CASE CheckTimer
  BY <1>2 DEF CheckTimer
<1>3. CASE TakePs
  BY <1>3 DEF TakePs
<1>4. CASE PsDeny
  BY <1>4 DEF PsDeny
<1>5. CASE PsBegin
  BY <1>5 DEF PsBegin
<1>6. CASE PsIdle
  BY <1>6 DEF PsIdle, UnassociatedIdle
<1>7. CASE IpsEnter
  BY <1>7 DEF IpsEnter
<1>8. CASE IpsDown
  BY <1>8 DEF IpsDown
<1>9. CASE IpsOff
  BY <1>9 DEF IpsOff
<1>10. CASE PsExit
  BY <1>10 DEF PsExit
<1>11. CASE \E op \in Denying \cup Calling : HostBegin(op)
  BY <1>11 DEF HostBegin
<1>12. CASE HostDeny
  BY <1>12 DEF HostDeny
<1>13. CASE WakeDefer
  BY <1>13 DEF WakeDefer
<1>14. CASE WakeWait
  BY <1>14 DEF WakeWait
<1>15. CASE WakeTimeout
  BY <1>15 DEF WakeTimeout, Waking
<1>16. CASE WakeRf
  BY <1>16 DEF WakeRf
<1>17. CASE IpsLeave
  BY <1>17 DEF IpsLeave
<1>18. CASE IpsUp
  BY <1>18 DEF IpsUp
<1>19. CASE IpsUpFails
  BY <1>19 DEF IpsUpFails
<1>20. CASE WakeDone
  BY <1>20 DEF WakeDone
<1>21. CASE HostUse
  BY <1>21 DEF HostUse
<1>22. CASE HostCancel
  BY <1>22 DEF HostCancel
<1>23. CASE SurveyDone
  BY <1>23 DEF SurveyDone, ScanDone, InThread
<1>24. CASE ScanTimeout
  BY <1>24 DEF ScanTimeout, ScanDone
<1>25. CASE JoinSucceeds
  BY <1>25 DEF JoinSucceeds, InThread
<1>26. CASE JoinFails
  BY <1>26 DEF JoinFails, Disconnected
<1>27. CASE LinkLost
  BY <1>27 DEF LinkLost, Disconnected
<1>28. CASE TxDone
  BY <1>28 DEF TxDone
<1>29. CASE \E ok \in BOOLEAN : Open(ok)
  BY <1>29 DEF Open, Opened
<1>30. CASE \E ok \in BOOLEAN : Resume(ok)
  BY <1>30 DEF Resume, Opened, PmStep
<1>31. CASE SuspendBegin
  BY <1>31 DEF SuspendBegin, PmStep
<1>32. CASE SuspendWait
  BY <1>32 DEF SuspendWait, PmStep
<1>33. CASE SuspendDeny
  BY <1>33 DEF SuspendDeny, PmStep
<1>34. CASE SuspendCancel
  BY <1>34 DEF SuspendCancel, PmStep
<1>35. CASE SuspendStop
  BY <1>35 DEF SuspendStop, PmStep
<1>36. CASE SuspendUnload
  BY <1>36 DEF SuspendUnload, PmStep
<1>37. CASE ResumeEnd
  BY <1>37 DEF ResumeEnd, PmStep
<1>38. CASE UNCHANGED vars
  BY <1>38 DEF vars
<1> QED
  BY <1>1, <1>2, <1>3, <1>4, <1>5, <1>6, <1>7, <1>8, <1>9, <1>10, <1>11, <1>12, <1>13, <1>14, <1>16, <1>17, <1>18, <1>19, <1>20, <1>21, <1>22, <1>23, <1>24, <1>25, <1>26, <1>27, <1>28, <1>29, <1>30, <1>31, <1>32, <1>33, <1>34, <1>35, <1>36, <1>37, <1>38, <1>15 DEF Next, PsProcessor, HostStep, UseEnds, Suspend

\* The chain.
LEMMA ChainInvStep == TypeOK /\ PmInv /\ ChainInv /\ [Next]_vars => ChainInv'
<1> SUFFICES ASSUME TypeOK, PmInv, ChainInv, [Next]_vars
             PROVE  ChainInv'
  OBVIOUS
<1> USE PwrAssumption DEF TypeOK, PmInv, ChainInv, PwrStates, NicStates, ThrStates, HostStates, ThrAt, HostAt
<1>1. CASE Tick
  BY <1>1 DEF Tick
<1>2. CASE CheckTimer
  BY <1>2 DEF CheckTimer
<1>3. CASE TakePs
  BY <1>3 DEF TakePs
<1>4. CASE PsDeny
  BY <1>4 DEF PsDeny
<1>5. CASE PsBegin
  BY <1>5 DEF PsBegin
<1>6. CASE PsIdle
  BY <1>6 DEF PsIdle, UnassociatedIdle
<1>7. CASE IpsEnter
  BY <1>7 DEF IpsEnter
<1>8. CASE IpsDown
  BY <1>8 DEF IpsDown
<1>9. CASE IpsOff
  BY <1>9 DEF IpsOff
<1>10. CASE PsExit
  BY <1>10 DEF PsExit
<1>11. CASE \E op \in Denying \cup Calling : HostBegin(op)
  BY <1>11 DEF HostBegin
<1>12. CASE HostDeny
  BY <1>12 DEF HostDeny
<1>13. CASE WakeDefer
  BY <1>13 DEF WakeDefer
<1>14. CASE WakeWait
  BY <1>14 DEF WakeWait
<1>15. CASE WakeTimeout
  BY <1>15 DEF WakeTimeout, Waking
<1>16. CASE WakeRf
  BY <1>16 DEF WakeRf
<1>17. CASE IpsLeave
  BY <1>17 DEF IpsLeave
<1>18. CASE IpsUp
  BY <1>18 DEF IpsUp
<1>19. CASE IpsUpFails
  BY <1>19 DEF IpsUpFails
<1>20. CASE WakeDone
  BY <1>20 DEF WakeDone
<1>21. CASE HostUse
  BY <1>21 DEF HostUse
<1>22. CASE HostCancel
  BY <1>22 DEF HostCancel
<1>23. CASE SurveyDone
  BY <1>23 DEF SurveyDone, ScanDone, InThread
<1>24. CASE ScanTimeout
  BY <1>24 DEF ScanTimeout, ScanDone
<1>25. CASE JoinSucceeds
  BY <1>25 DEF JoinSucceeds, InThread
<1>26. CASE JoinFails
  BY <1>26 DEF JoinFails, Disconnected
<1>27. CASE LinkLost
  BY <1>27 DEF LinkLost, Disconnected
<1>28. CASE TxDone
  BY <1>28 DEF TxDone
<1>29. CASE \E ok \in BOOLEAN : Open(ok)
  BY <1>29 DEF Open, Opened
<1>30. CASE \E ok \in BOOLEAN : Resume(ok)
  BY <1>30 DEF Resume, Opened, PmStep
<1>31. CASE SuspendBegin
  BY <1>31 DEF SuspendBegin, PmStep
<1>32. CASE SuspendWait
  BY <1>32 DEF SuspendWait, PmStep
<1>33. CASE SuspendDeny
  BY <1>33 DEF SuspendDeny, PmStep
<1>34. CASE SuspendCancel
  BY <1>34 DEF SuspendCancel, PmStep
<1>35. CASE SuspendStop
  BY <1>35 DEF SuspendStop, PmStep
<1>36. CASE SuspendUnload
  BY <1>36 DEF SuspendUnload, PmStep
<1>37. CASE ResumeEnd
  BY <1>37 DEF ResumeEnd, PmStep
<1>38. CASE UNCHANGED vars
  BY <1>38 DEF vars
<1> QED
  BY <1>1, <1>2, <1>3, <1>4, <1>5, <1>6, <1>7, <1>8, <1>9, <1>10, <1>11, <1>12, <1>13, <1>14, <1>16, <1>17, <1>18, <1>19, <1>20, <1>21, <1>22, <1>23, <1>24, <1>25, <1>26, <1>27, <1>28, <1>29, <1>30, <1>31, <1>32, <1>33, <1>34, <1>35, <1>36, <1>37, <1>38, <1>15 DEF Next, PsProcessor, HostStep, UseEnds, Suspend

LEMMA PwrInit == Init => PwrInv
  BY PwrAssumption
  DEF Init, PwrInv, TypeOK, LockInv, PmInv, DenyInv, RadioInv, ChainInv, GoingDown, Awake,
      Deferred, Active, PwrStates, NicStates, ThrStates, HostStates, Uses, ThrPcs, HostPcs,
      PmPcs

LEMMA PwrStep == PwrInv /\ [Next]_vars => PwrInv'
  BY TypeOKStep, LockInvStep, PmInvStep, DenyInvStep, RadioInvStep, ChainInvStep DEF PwrInv

LEMMA PwrAlways == Spec => []PwrInv
  BY PwrInit, PwrStep, PTL DEF Spec

-----------------------------------------------------------------------------
(* The theorems.                                                             *)

\* Every variable has its type: the queue of rtw_ps_cmd is never counted below
\* empty, the lock has one holder, and only the host's reasons and the suspend's
\* are ever in ps_deny.
THEOREM PwrTypeCorrect == Spec => []TypeOK
<1>1. PwrInv => TypeOK
  BY DEF PwrInv
<1> QED
  BY <1>1, PwrAlways, PTL

\* IPS never switches the radio off under a survey, a join, a link or a frame, unless
\* rtw_ps_processor missed the wake-up before it: ips_deny_time came to lie behind
\* the clock after its test of ps_deny, or the caller's wait of 3 s ended first.
THEOREM PwrBusyIsAwake == Spec => []BusyIsAwake
<1>1. PwrInv => BusyIsAwake
  BY DEF PwrInv, RadioInv, BusyIsAwake
<1> QED
  BY <1>1, PwrAlways, PTL

\* An operation of the host that set its ps_deny bit before it called
\* rtw_pwr_wakeup has the hardware until it cancels the bit, with the same exception.
THEOREM PwrWokenIsAwake == Spec => []WokenIsAwake
<1>1. PwrInv => WokenIsAwake
  BY DEF PwrInv, RadioInv, WokenIsAwake
<1> QED
  BY <1>1, PwrAlways, PTL

\* The power-down of a suspend never meets the one of rtw_ps_processor or the
\* power-up of ips_leave.
THEOREM PwrSuspendAlone == Spec => []SuspendAlone
<1>1. PwrInv => SuspendAlone
  BY DEF PwrInv, TypeOK, PwrStates, LockInv, PmInv, SuspendAlone
<1> QED
  BY <1>1, PwrAlways, PTL

\* While the radio is on, the timer is set, or rtw_ps_cmd's command is queued,
\* or rtw_ps_processor runs and will set the timer again.
THEOREM PwrChainAlive == Spec => []ChainAlive
<1>1. PwrInv => ChainAlive
  BY DEF PwrInv, ChainInv, ChainAlive
<1> QED
  BY <1>1, PwrAlways, PTL
=============================================================================
