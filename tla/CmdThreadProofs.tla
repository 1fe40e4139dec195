--------------------------- MODULE CmdThreadProofs ---------------------------
(***************************************************************************)
(* Safety of the command queue for any number of commands, any number of    *)
(* starts of the thread, and whatever the environment does: the objects'    *)
(* ownership and the submit_ctx protocol between rtw_startbss_cmd and       *)
(* rtw_cmd_thread.  At the end, the life of the thread itself, when nothing *)
(* but rtw_stop_cmd_thread or an unplug makes it leave: where it is while   *)
(* the control that opens, suspends and removes is at each of its places.   *)
(***************************************************************************)
EXTENDS CmdThread, TLAPS

\* A command that is being enqueued is in nobody else's hands.
EnqueueInv ==
    \A c \in Cmds : spc[c] \in {"filter", "insert"} => obj[c] = "alloc"

\* The thread handles the object it dequeued.
HeldInv ==
    \A t \in Threads : Working(t) => cur[t] \in Cmds

\* A submit_ctx that is waiting for its answer is attached to its command, as
\* long as the command exists; the callback runs after the answer.
AttachedInv ==
    /\ \A c \in Cmds : sctx[c] = "submitted" /\ obj[c] \in {"alloc", "queued", "held"}
                           => sctxptr[c]
    /\ \A t \in Threads : tpc[t] = "callback" => ~sctxptr[cur[t]]
    /\ \A c \in Cmds : spc[c] = "up" /\ sctx[c] = "submitted"
                           => obj[c] \in {"queued", "held", "dropped"}

-----------------------------------------------------------------------------
\* What _rtw_dequeue_cmd leaves in the queue: a shorter queue of the same
\* commands, each one place further to the front.
LEMMA TailFacts ==
    ASSUME NEW S, NEW q \in Seq(S), q # <<>>
    PROVE  /\ Head(q) \in S /\ Head(q) = q[1]
           /\ Tail(q) \in Seq(S)
           /\ Len(q) \in Nat \ {0} /\ Len(Tail(q)) = Len(q) - 1
           /\ \A i \in 1 .. Len(Tail(q)) : Tail(q)[i] = q[i + 1] /\ i + 1 \in 1 .. Len(q)
  OBVIOUS

\* What _rtw_enqueue_cmd does to the queue.
LEMMA AppendFacts ==
    ASSUME NEW S, NEW q \in Seq(S), NEW e \in S
    PROVE  /\ Append(q, e) \in Seq(S)
           /\ Len(q) \in Nat /\ Len(Append(q, e)) = Len(q) + 1
           /\ \A i \in 1 .. Len(q) : Append(q, e)[i] = q[i]
           /\ Append(q, e)[Len(q) + 1] = e
  OBVIOUS

\* A released object and its fields have their types.
LEMMA ReleaseType ==
    ASSUME TypeOK, NEW c, NEW how \in {"freed", "dropped", "leaked"}, Release(c, how)
    PROVE  /\ obj' \in [Cmds -> {"alloc", "queued", "held", "freed", "dropped", "leaked"}]
           /\ code' \in [Cmds -> Codes]
           /\ res' \in [Cmds -> Results]
           /\ sctxptr' \in [Cmds -> BOOLEAN]
<1>1. code' \in [Cmds -> Codes]
  BY DEF TypeOK, Release, Codes
<1>2. res' \in [Cmds -> Results]
  BY DEF TypeOK, Release, Results
<1> QED
  BY <1>1, <1>2 DEF TypeOK, Release

-----------------------------------------------------------------------------
\* The state variables have their types: the semaphores never go below zero.
THEOREM TypeCorrect == Spec => []TypeOK
<1>1. Init => TypeOK
  <2> SUFFICES ASSUME Init PROVE TypeOK
    OBVIOUS
  <2>1. cmd_queue \in Seq(Cmds) /\ starts \in 0 .. MaxStarts
    BY CmdThreadAssumption DEF Init
  <2>2. /\ tpc \in [Threads -> {"none"}]
        /\ cur \in [Threads -> {NoCmd}]
    BY DEF Init
  <2>3. /\ obj \in [Cmds -> {"freed"}]
        /\ code \in [Cmds -> Codes]
        /\ res \in [Cmds -> Results]
        /\ sctxptr \in [Cmds -> BOOLEAN]
        /\ sctx \in [Cmds -> {"none"}]
        /\ spc \in [Cmds -> {"idle"}]
    BY DEF Init, Codes, Results
  <2> QED
    BY <2>1, <2>2, <2>3 DEF Init, TypeOK
<1>2. ASSUME TypeOK, [Next]_vars PROVE TypeOK'
<2> USE <1>2 DEF flags, cmdvars, ctlvars, queue, cmdthd
<2>1. ASSUME NEW c \in Cmds, NEW k \in Codes, NEW ack \in BOOLEAN,
            Submit(c, k, ack) PROVE TypeOK'
  <3>1. code' \in [Cmds -> Codes] /\ res' \in [Cmds -> Results]
    BY <2>1 DEF Submit, TypeOK, Codes, Results
  <3> QED
    BY <2>1, <3>1 DEF Submit, TypeOK
<2>2. ASSUME NEW c \in Cmds, EnqueueFilter(c) PROVE TypeOK'
  <3>1. CASE CmdFilter(c)
    BY <2>2, <3>1 DEF EnqueueFilter, TypeOK
  <3>2. CASE ~CmdFilter(c)
    <4>1. Release(c, "freed")
      BY <2>2, <3>2 DEF EnqueueFilter
    <4> QED
      BY <2>2, <3>2, <4>1, ReleaseType DEF EnqueueFilter, TypeOK
  <3> QED
    BY <3>1, <3>2
<2>3. ASSUME NEW c \in Cmds, EnqueueInsert(c) PROVE TypeOK'
  BY <2>3, SMTT(30) DEF EnqueueInsert, TypeOK
<2>4. ASSUME NEW c \in Cmds, EnqueueUp(c) PROVE TypeOK'
  BY <2>4, SMTT(30) DEF EnqueueUp, TypeOK
<2>5. ASSUME NEW c \in Cmds, SctxWait(c) PROVE TypeOK'
  BY <2>5, SMTT(30) DEF SctxWait, TypeOK
<2>6. ASSUME NEW c \in Cmds, DetachSctx(c) PROVE TypeOK'
  BY <2>6, SMTT(30) DEF DetachSctx, TypeOK
<2>7. ASSUME NEW t \in Threads, ThreadClearStop(t) PROVE TypeOK'
  BY <2>7, ZenonT(40) DEF ThreadClearStop, Goto, TypeOK
<2>8. ASSUME NEW t \in Threads, ThreadSetRunning(t) PROVE TypeOK'
  BY <2>8, SMTT(30) DEF ThreadSetRunning, Goto, TypeOK
<2>9. ASSUME NEW t \in Threads, ThreadReady(t) PROVE TypeOK'
  BY <2>9, SMTT(30) DEF ThreadReady, Goto, TypeOK
<2>10. ASSUME NEW t \in Threads, ThreadDown(t) PROVE TypeOK'
  BY <2>10, SMTT(30) DEF ThreadDown, Goto, TypeOK
<2>11. ASSUME NEW t \in Threads, ThreadCheck(t) PROVE TypeOK'
  BY <2>11, SMTT(30) DEF ThreadCheck, Goto, TypeOK
<2>12. ASSUME NEW t \in Threads, ThreadNext(t) PROVE TypeOK'
  BY <2>12, SMTT(30) DEF ThreadNext, Goto, TypeOK
<2>13. ASSUME NEW t \in Threads, ThreadDequeue(t) PROVE TypeOK'
  <3>1. CASE cmd_queue = <<>>
    BY <2>13, <3>1 DEF ThreadDequeue, Goto, TypeOK
  <3>2. CASE cmd_queue # <<>>
    <4>1. Head(cmd_queue) \in Cmds /\ Tail(cmd_queue) \in Seq(Cmds)
      BY <3>2, TailFacts DEF TypeOK
    <4>2. PICK c \in Cmds : c = Head(cmd_queue)
      BY <4>1
    <4>3. /\ cmd_queue' = Tail(cmd_queue)
          /\ cur' = [cur EXCEPT ![t] = c]
          /\ obj' = [obj EXCEPT ![c] = "held"]
          /\ tpc' = [tpc EXCEPT ![t] = "filter"]
          /\ UNCHANGED <<cmd_queue_sema, terminate_sema, cmdthd_running, stop_req,
                         flags, code, res, sctxptr, sctx, spc, ctlvars>>
      BY <2>13, <3>2, <4>2 DEF ThreadDequeue, Goto
    <4> QED
      BY <4>1, <4>3 DEF TypeOK
  <3> QED
    BY <3>1, <3>2
<2>14. ASSUME NEW t \in Threads, ThreadFilter(t) PROVE TypeOK'
  <3>1. res' \in [Cmds -> Results]
    BY <2>14 DEF ThreadFilter, TypeOK, Results
  <3> QED
    BY <2>14, <3>1 DEF ThreadFilter, Goto, TypeOK
<2>15. ASSUME NEW t \in Threads, ThreadHandler(t) PROVE TypeOK'
  <3>1. res' \in [Cmds -> Results]
    BY <2>15 DEF ThreadHandler, TypeOK, Results
  <3> QED
    BY <2>15, <3>1 DEF ThreadHandler, Goto, TypeOK
<2>16. ASSUME NEW t \in Threads, ThreadPost(t) PROVE TypeOK'
  <3>1. tpc' \in [Threads -> {"none", "start", "setrun", "ready", "wait", "check",
                          "next", "deq", "filter", "handler", "post",
                          "callback", "drain", "exitup", "exitclear", "exited"}]
    BY <2>16 DEF ThreadPost, Goto, TypeOK
  <3>2. /\ sctx' \in [Cmds -> {"none", "submitted", "success", "cmd_error"}]
        /\ sctxptr' \in [Cmds -> BOOLEAN]
    BY <2>16 DEF ThreadPost, TypeOK
  <3>3. UNCHANGED <<cmd_queue, cmd_queue_sema, terminate_sema, cmdthd_running,
                    stop_req, flags, cur, obj, code, res, spc, ctlvars>>
    BY <2>16 DEF ThreadPost
  <3> QED
    BY <3>1, <3>2, <3>3 DEF TypeOK
<2>17. ASSUME NEW t \in Threads, ThreadCallback(t) PROVE TypeOK'
  <3>1. PICK how \in {"freed", "leaked"} : Release(cur[t], how)
    BY <2>17 DEF ThreadCallback
  <3> QED
    BY <2>17, <3>1, ReleaseType DEF ThreadCallback, Goto, TypeOK
<2>18. ASSUME NEW t \in Threads, ThreadDrain(t) PROVE TypeOK'
  <3>1. CASE cmd_queue = <<>>
    BY <2>18, <3>1 DEF ThreadDrain, Goto, TypeOK
  <3>2. CASE cmd_queue # <<>>
    <4>1. Tail(cmd_queue) \in Seq(Cmds)
      BY <3>2, TailFacts DEF TypeOK
    <4>2. Release(Head(cmd_queue), "dropped")
      BY <2>18, <3>2 DEF ThreadDrain
    <4>3. /\ obj' \in [Cmds -> {"alloc", "queued", "held", "freed", "dropped", "leaked"}]
          /\ code' \in [Cmds -> Codes]
          /\ res' \in [Cmds -> Results]
          /\ sctxptr' \in [Cmds -> BOOLEAN]
      BY <4>2, ReleaseType
    <4>4. /\ cmd_queue' = Tail(cmd_queue)
          /\ UNCHANGED <<tpc, cmd_queue_sema, terminate_sema, cmdthd_running,
                         stop_req, flags, cur, sctx, spc, ctlvars>>
      BY <2>18, <3>2 DEF ThreadDrain
    <4> QED
      BY <4>1, <4>3, <4>4 DEF TypeOK
  <3> QED
    BY <3>1, <3>2
<2>19. ASSUME NEW t \in Threads, ThreadExitUp(t) PROVE TypeOK'
  BY <2>19, SMTT(30) DEF ThreadExitUp, Goto, TypeOK
<2>20. ASSUME NEW t \in Threads, ThreadExitClear(t) PROVE TypeOK'
  BY <2>20, ZenonT(40) DEF ThreadExitClear, Goto, TypeOK
<2>21. ASSUME NEW t \in Threads, ThreadSignalled(t) PROVE TypeOK'
  BY <2>21, SMTT(30) DEF ThreadSignalled, Goto, TypeOK
<2>22. ASSUME StartWait PROVE TypeOK'
  BY <2>22, SMTT(30) DEF StartWait, TypeOK
<2>23. ASSUME Unload PROVE TypeOK'
  BY <2>23, SMTT(30) DEF Unload, TypeOK
<2>24. ASSUME StopCheck PROVE TypeOK'
  BY <2>24, SMTT(30) DEF StopCheck, AfterStop, TypeOK
<2>25. ASSUME StopSet PROVE TypeOK'
  BY <2>25, SMTT(30) DEF StopSet, TypeOK
<2>26. ASSUME StopUp PROVE TypeOK'
  BY <2>26, SMTT(30) DEF StopUp, TypeOK
<2>27. ASSUME StopWait PROVE TypeOK'
  BY <2>27, SMTT(30) DEF StopWait, AfterStop, TypeOK
<2>28. ASSUME Poll PROVE TypeOK'
  BY <2>28, SMTT(30) DEF Poll, TypeOK
<2>29. ASSUME Deinit PROVE TypeOK'
  BY <2>29, SMTT(30) DEF Deinit, TypeOK
<2>30. ASSUME Open PROVE TypeOK'
  <3>1. starts' \in 0 .. MaxStarts
    BY <2>30, CmdThreadAssumption DEF Open, TypeOK
  <3> QED
    BY <2>30, <3>1 DEF Open, TypeOK
<2>31. ASSUME OpenFails PROVE TypeOK'
  BY <2>31, ZenonT(40) DEF OpenFails, TypeOK
<2>32. ASSUME IpsEnter PROVE TypeOK'
  BY <2>32, ZenonT(40) DEF IpsEnter, TypeOK
<2>33. ASSUME IpsLeave PROVE TypeOK'
  BY <2>33, ZenonT(40) DEF IpsLeave, TypeOK
<2>34. ASSUME UrbError PROVE TypeOK'
  BY <2>34, ZenonT(40) DEF UrbError, TypeOK
<2>35. ASSUME Suspend PROVE TypeOK'
  BY <2>35, SMTT(30) DEF Suspend, TypeOK
<2>36. ASSUME Remove PROVE TypeOK'
  BY <2>36, ZenonT(40) DEF Remove, TypeOK
<2>37. ASSUME RemoveClosed PROVE TypeOK'
  BY <2>37, SMTT(30) DEF RemoveClosed, TypeOK
<2>38. ASSUME UNCHANGED vars PROVE TypeOK'
  BY <2>38, SMTT(30) DEF vars, TypeOK
<2> QED
  BY <2>1, <2>2, <2>3, <2>4, <2>5, <2>6, <2>7, <2>8, <2>9, <2>10, <2>11, <2>12, <2>13, <2>14, <2>15, <2>16, <2>17, <2>18, <2>19, <2>20, <2>21, <2>22, <2>23, <2>24, <2>25, <2>26, <2>27, <2>28, <2>29, <2>30, <2>31, <2>32, <2>33, <2>34, <2>35, <2>36, <2>37, <2>38
     DEF Next, SubmitterStep, ThreadStep, StopStep, Environment
<1> QED BY <1>1, <1>2, PTL DEF Spec

-----------------------------------------------------------------------------
\* What the queue's lists, the thread's pointer and the submit_ctx agree on.
CmdInv ==
    /\ EnqueueInv /\ HeldInv /\ CmdOwnership
    /\ SctxNoDangling /\ SctxAnsweredOnce /\ AttachedInv /\ LateAckOnlyAfterDrain

\* Every step keeps it.
LEMMA CmdInvStep == TypeOK /\ TypeOK' /\ CmdInv /\ [Next]_vars => CmdInv'
<1> SUFFICES ASSUME TypeOK, TypeOK', CmdInv, [Next]_vars PROVE CmdInv'
  OBVIOUS
<1> USE DEF flags, cmdvars, ctlvars, queue, cmdthd
<1>1. ASSUME NEW c \in Cmds, NEW k \in Codes, NEW ack \in BOOLEAN,
            Submit(c, k, ack) PROVE CmdInv'
  BY <1>1 DEF Submit, CmdInv, TypeOK, Working,
        EnqueueInv, HeldInv, CmdOwnership, SctxNoDangling, SctxAnsweredOnce,
        AttachedInv, LateAckOnlyAfterDrain
<1>2. ASSUME NEW c \in Cmds, EnqueueFilter(c) PROVE CmdInv'
  BY <1>2 DEF EnqueueFilter, CmdFilter, Release, CmdInv, TypeOK, Working,
        EnqueueInv, HeldInv, CmdOwnership, SctxNoDangling, SctxAnsweredOnce,
        AttachedInv, LateAckOnlyAfterDrain
<1>3. ASSUME NEW c \in Cmds, EnqueueInsert(c) PROVE CmdInv'
  BY <1>3 DEF EnqueueInsert, CmdInv, TypeOK, Working,
        EnqueueInv, HeldInv, CmdOwnership, SctxNoDangling, SctxAnsweredOnce,
        AttachedInv, LateAckOnlyAfterDrain
<1>4. ASSUME NEW c \in Cmds, EnqueueUp(c) PROVE CmdInv'
  BY <1>4 DEF EnqueueUp, CmdInv, TypeOK, Working,
        EnqueueInv, HeldInv, CmdOwnership, SctxNoDangling, SctxAnsweredOnce,
        AttachedInv, LateAckOnlyAfterDrain
<1>5. ASSUME NEW c \in Cmds, SctxWait(c) PROVE CmdInv'
  BY <1>5 DEF SctxWait, CmdInv, TypeOK, Working,
        EnqueueInv, HeldInv, CmdOwnership, SctxNoDangling, SctxAnsweredOnce,
        AttachedInv, LateAckOnlyAfterDrain
<1>6. ASSUME NEW c \in Cmds, DetachSctx(c) PROVE CmdInv'
  <2>1. sctxptr' = [sctxptr EXCEPT ![c] = FALSE]
    BY <1>6 DEF DetachSctx, TypeOK, CmdInv, SctxAnsweredOnce
  <2>2. /\ sctx' = [sctx EXCEPT ![c] = "none"]
        /\ spc' = [spc EXCEPT ![c] = "idle"]
        /\ UNCHANGED <<cmd_queue, tpc, cur, obj>>
    BY <1>6 DEF DetachSctx
  <2> QED
    BY <2>1, <2>2 DEF CmdInv, TypeOK, Working,
         EnqueueInv, HeldInv, CmdOwnership, SctxNoDangling, SctxAnsweredOnce,
         AttachedInv, LateAckOnlyAfterDrain
<1>7. ASSUME NEW t \in Threads, ThreadClearStop(t) PROVE CmdInv'
  BY <1>7 DEF ThreadClearStop, Goto, CmdInv, TypeOK, Working,
        EnqueueInv, HeldInv, CmdOwnership, SctxNoDangling, SctxAnsweredOnce,
        AttachedInv, LateAckOnlyAfterDrain
<1>8. ASSUME NEW t \in Threads, ThreadSetRunning(t) PROVE CmdInv'
  BY <1>8 DEF ThreadSetRunning, Goto, CmdInv, TypeOK, Working,
        EnqueueInv, HeldInv, CmdOwnership, SctxNoDangling, SctxAnsweredOnce,
        AttachedInv, LateAckOnlyAfterDrain
<1>9. ASSUME NEW t \in Threads, ThreadReady(t) PROVE CmdInv'
  BY <1>9 DEF ThreadReady, Goto, CmdInv, TypeOK, Working,
        EnqueueInv, HeldInv, CmdOwnership, SctxNoDangling, SctxAnsweredOnce,
        AttachedInv, LateAckOnlyAfterDrain
<1>10. ASSUME NEW t \in Threads, ThreadDown(t) PROVE CmdInv'
  BY <1>10 DEF ThreadDown, Goto, CmdInv, TypeOK, Working,
        EnqueueInv, HeldInv, CmdOwnership, SctxNoDangling, SctxAnsweredOnce,
        AttachedInv, LateAckOnlyAfterDrain
<1>11. ASSUME NEW t \in Threads, ThreadCheck(t) PROVE CmdInv'
  BY <1>11 DEF ThreadCheck, Goto, CmdInv, TypeOK, Working,
        EnqueueInv, HeldInv, CmdOwnership, SctxNoDangling, SctxAnsweredOnce,
        AttachedInv, LateAckOnlyAfterDrain
<1>12. ASSUME NEW t \in Threads, ThreadNext(t) PROVE CmdInv'
  BY <1>12 DEF ThreadNext, Goto, CmdInv, TypeOK, Working,
        EnqueueInv, HeldInv, CmdOwnership, SctxNoDangling, SctxAnsweredOnce,
        AttachedInv, LateAckOnlyAfterDrain
<1>13. ASSUME NEW t \in Threads, ThreadDequeue(t) PROVE CmdInv'
  <2>1. CASE cmd_queue = <<>>
    BY <1>13, <2>1 DEF ThreadDequeue, Goto, CmdInv, TypeOK, Working,
         EnqueueInv, HeldInv, CmdOwnership, SctxNoDangling, SctxAnsweredOnce,
         AttachedInv, LateAckOnlyAfterDrain
  <2>2. CASE cmd_queue # <<>>
    <3>1. PICK c \in Cmds : c = Head(cmd_queue) /\ c = cmd_queue[1]
      BY <2>2, TailFacts DEF TypeOK
    <3>2. /\ tpc[t] = "deq"
          /\ cmd_queue' = Tail(cmd_queue)
          /\ cur' = [cur EXCEPT ![t] = c]
          /\ obj' = [obj EXCEPT ![c] = "held"]
          /\ tpc' = [tpc EXCEPT ![t] = "filter"]
          /\ UNCHANGED <<res, sctxptr, sctx, spc>>
      BY <1>13, <2>2, <3>1 DEF ThreadDequeue, Goto
    <3>3. obj[c] = "queued"
      BY <2>2, <3>1, TailFacts DEF TypeOK, CmdInv, CmdOwnership
    <3>4. /\ \A i, j \in 1 .. Len(cmd_queue') : cmd_queue'[i] = cmd_queue'[j] => i = j
          /\ \A i \in 1 .. Len(cmd_queue') : cmd_queue'[i] # c /\ obj[cmd_queue'[i]] = "queued"
                                           /\ cmd_queue'[i] \in Cmds
      <4>1. /\ Len(cmd_queue) \in Nat \ {0} /\ Len(cmd_queue') = Len(cmd_queue) - 1
            /\ \A i \in 1 .. Len(cmd_queue') :
                  cmd_queue'[i] = cmd_queue[i + 1] /\ i + 1 \in 1 .. Len(cmd_queue)
        BY <2>2, <3>2, TailFacts DEF TypeOK
      <4>2. 1 \in 1 .. Len(cmd_queue)
        BY <4>1
      <4>3. \A i \in 1 .. Len(cmd_queue) : cmd_queue[i] \in Cmds
        BY DEF TypeOK
      <4> QED
        BY <3>1, <4>1, <4>2, <4>3 DEF CmdInv, CmdOwnership
    <3>5. \A i \in 1 .. Len(cmd_queue') : obj'[cmd_queue'[i]] = "queued"
      BY <3>2, <3>4 DEF TypeOK
    <3>6. /\ \A u \in Threads : Working(u)' => cur'[u] \in Cmds /\ obj'[cur'[u]] = "held"
          /\ \A u, v \in Threads : Working(u)' /\ Working(v)' /\ cur'[u] = cur'[v] => u = v
      BY <3>1, <3>2, <3>3 DEF TypeOK, CmdInv, CmdOwnership, HeldInv, Working
    <3>7. EnqueueInv' /\ SctxNoDangling' /\ SctxAnsweredOnce' /\ AttachedInv'
          /\ LateAckOnlyAfterDrain'
      BY <3>1, <3>2, <3>3, <3>6 DEF TypeOK, CmdInv, EnqueueInv, SctxNoDangling,
         SctxAnsweredOnce, AttachedInv, LateAckOnlyAfterDrain, Working
    <3> QED
      BY <3>4, <3>5, <3>6, <3>7 DEF CmdInv, HeldInv, CmdOwnership
  <2> QED
    BY <2>1, <2>2
<1>14. ASSUME NEW t \in Threads, ThreadFilter(t) PROVE CmdInv'
  BY <1>14 DEF ThreadFilter, CmdFilter, Goto, CmdInv, TypeOK, Working,
        EnqueueInv, HeldInv, CmdOwnership, SctxNoDangling, SctxAnsweredOnce,
        AttachedInv, LateAckOnlyAfterDrain
<1>15. ASSUME NEW t \in Threads, ThreadHandler(t) PROVE CmdInv'
  BY <1>15 DEF ThreadHandler, Goto, CmdInv, TypeOK, Working,
        EnqueueInv, HeldInv, CmdOwnership, SctxNoDangling, SctxAnsweredOnce,
        AttachedInv, LateAckOnlyAfterDrain
<1>16. ASSUME NEW t \in Threads, ThreadPost(t) PROVE CmdInv'
  BY <1>16 DEF ThreadPost, Goto, CmdInv, TypeOK, Working,
        EnqueueInv, HeldInv, CmdOwnership, SctxNoDangling, SctxAnsweredOnce,
        AttachedInv, LateAckOnlyAfterDrain
<1>17. ASSUME NEW t \in Threads, ThreadCallback(t) PROVE CmdInv'
  BY <1>17 DEF ThreadCallback, Release, Goto, CmdInv, TypeOK, Working,
        EnqueueInv, HeldInv, CmdOwnership, SctxNoDangling, SctxAnsweredOnce,
        AttachedInv, LateAckOnlyAfterDrain
<1>18. ASSUME NEW t \in Threads, ThreadDrain(t) PROVE CmdInv'
  <2>1. CASE cmd_queue = <<>>
    BY <1>18, <2>1 DEF ThreadDrain, Goto, Release, CmdInv, TypeOK, Working,
         EnqueueInv, HeldInv, CmdOwnership, SctxNoDangling, SctxAnsweredOnce,
         AttachedInv, LateAckOnlyAfterDrain
  <2>2. CASE cmd_queue # <<>>
    <3>1. PICK c \in Cmds : c = Head(cmd_queue) /\ c = cmd_queue[1]
      BY <2>2, TailFacts DEF TypeOK
    <3>2. /\ cmd_queue' = Tail(cmd_queue)
          /\ obj' = [obj EXCEPT ![c] = "dropped"]
          /\ sctxptr' = [sctxptr EXCEPT ![c] = FALSE]
          /\ UNCHANGED <<tpc, cur, sctx, spc>>
      BY <1>18, <2>2, <3>1 DEF ThreadDrain, Goto, Release
    <3>3. obj[c] = "queued"
      BY <2>2, <3>1, TailFacts DEF TypeOK, CmdInv, CmdOwnership
    <3>4. /\ \A i, j \in 1 .. Len(cmd_queue') : cmd_queue'[i] = cmd_queue'[j] => i = j
          /\ \A i \in 1 .. Len(cmd_queue') : cmd_queue'[i] # c /\ obj[cmd_queue'[i]] = "queued"
                                           /\ cmd_queue'[i] \in Cmds
      <4>1. /\ Len(cmd_queue) \in Nat \ {0} /\ Len(cmd_queue') = Len(cmd_queue) - 1
            /\ \A i \in 1 .. Len(cmd_queue') :
                  cmd_queue'[i] = cmd_queue[i + 1] /\ i + 1 \in 1 .. Len(cmd_queue)
        BY <2>2, <3>2, TailFacts DEF TypeOK
      <4>2. 1 \in 1 .. Len(cmd_queue)
        BY <4>1
      <4>3. \A i \in 1 .. Len(cmd_queue) : cmd_queue[i] \in Cmds
        BY DEF TypeOK
      <4> QED
        BY <3>1, <4>1, <4>2, <4>3 DEF CmdInv, CmdOwnership
    <3>5. \A i \in 1 .. Len(cmd_queue') : obj'[cmd_queue'[i]] = "queued"
      BY <3>2, <3>4 DEF TypeOK
    <3>6. /\ \A u \in Threads : Working(u)' => cur'[u] \in Cmds /\ obj'[cur'[u]] = "held"
          /\ \A u, v \in Threads : Working(u)' /\ Working(v)' /\ cur'[u] = cur'[v] => u = v
      BY <3>1, <3>2, <3>3 DEF TypeOK, CmdInv, CmdOwnership, HeldInv, Working
    <3>7. EnqueueInv' /\ SctxNoDangling' /\ SctxAnsweredOnce' /\ AttachedInv'
          /\ LateAckOnlyAfterDrain'
      BY <3>1, <3>2, <3>3, <3>6 DEF TypeOK, CmdInv, EnqueueInv, SctxNoDangling,
         SctxAnsweredOnce, AttachedInv, LateAckOnlyAfterDrain, Working
    <3> QED
      BY <3>4, <3>5, <3>6, <3>7 DEF CmdInv, HeldInv, CmdOwnership
  <2> QED
    BY <2>1, <2>2
<1>19. ASSUME NEW t \in Threads, ThreadExitUp(t) PROVE CmdInv'
  BY <1>19 DEF ThreadExitUp, Goto, CmdInv, TypeOK, Working,
        EnqueueInv, HeldInv, CmdOwnership, SctxNoDangling, SctxAnsweredOnce,
        AttachedInv, LateAckOnlyAfterDrain
<1>20. ASSUME NEW t \in Threads, ThreadExitClear(t) PROVE CmdInv'
  BY <1>20 DEF ThreadExitClear, Goto, CmdInv, TypeOK, Working,
        EnqueueInv, HeldInv, CmdOwnership, SctxNoDangling, SctxAnsweredOnce,
        AttachedInv, LateAckOnlyAfterDrain
<1>21. ASSUME NEW t \in Threads, ThreadSignalled(t) PROVE CmdInv'
  BY <1>21 DEF ThreadSignalled, Goto, CmdInv, TypeOK, Working,
        EnqueueInv, HeldInv, CmdOwnership, SctxNoDangling, SctxAnsweredOnce,
        AttachedInv, LateAckOnlyAfterDrain
<1>22. ASSUME StartWait PROVE CmdInv'
  BY <1>22 DEF StartWait, CmdInv, TypeOK, Working,
        EnqueueInv, HeldInv, CmdOwnership, SctxNoDangling, SctxAnsweredOnce,
        AttachedInv, LateAckOnlyAfterDrain
<1>23. ASSUME Unload PROVE CmdInv'
  BY <1>23 DEF Unload, CmdInv, TypeOK, Working,
        EnqueueInv, HeldInv, CmdOwnership, SctxNoDangling, SctxAnsweredOnce,
        AttachedInv, LateAckOnlyAfterDrain
<1>24. ASSUME StopCheck PROVE CmdInv'
  BY <1>24 DEF StopCheck, AfterStop, CmdInv, TypeOK, Working,
        EnqueueInv, HeldInv, CmdOwnership, SctxNoDangling, SctxAnsweredOnce,
        AttachedInv, LateAckOnlyAfterDrain
<1>25. ASSUME StopSet PROVE CmdInv'
  BY <1>25 DEF StopSet, CmdInv, TypeOK, Working,
        EnqueueInv, HeldInv, CmdOwnership, SctxNoDangling, SctxAnsweredOnce,
        AttachedInv, LateAckOnlyAfterDrain
<1>26. ASSUME StopUp PROVE CmdInv'
  BY <1>26 DEF StopUp, CmdInv, TypeOK, Working,
        EnqueueInv, HeldInv, CmdOwnership, SctxNoDangling, SctxAnsweredOnce,
        AttachedInv, LateAckOnlyAfterDrain
<1>27. ASSUME StopWait PROVE CmdInv'
  BY <1>27 DEF StopWait, AfterStop, CmdInv, TypeOK, Working,
        EnqueueInv, HeldInv, CmdOwnership, SctxNoDangling, SctxAnsweredOnce,
        AttachedInv, LateAckOnlyAfterDrain
<1>28. ASSUME Poll PROVE CmdInv'
  BY <1>28 DEF Poll, CmdInv, TypeOK, Working,
        EnqueueInv, HeldInv, CmdOwnership, SctxNoDangling, SctxAnsweredOnce,
        AttachedInv, LateAckOnlyAfterDrain
<1>29. ASSUME Deinit PROVE CmdInv'
  BY <1>29 DEF Deinit, CmdInv, TypeOK, Working,
        EnqueueInv, HeldInv, CmdOwnership, SctxNoDangling, SctxAnsweredOnce,
        AttachedInv, LateAckOnlyAfterDrain
<1>30. ASSUME Open PROVE CmdInv'
  BY <1>30 DEF Open, CmdInv, TypeOK, Working,
        EnqueueInv, HeldInv, CmdOwnership, SctxNoDangling, SctxAnsweredOnce,
        AttachedInv, LateAckOnlyAfterDrain
<1>31. ASSUME OpenFails PROVE CmdInv'
  BY <1>31 DEF OpenFails, CmdInv, TypeOK, Working,
        EnqueueInv, HeldInv, CmdOwnership, SctxNoDangling, SctxAnsweredOnce,
        AttachedInv, LateAckOnlyAfterDrain
<1>32. ASSUME IpsEnter PROVE CmdInv'
  BY <1>32 DEF IpsEnter, CmdInv, TypeOK, Working,
        EnqueueInv, HeldInv, CmdOwnership, SctxNoDangling, SctxAnsweredOnce,
        AttachedInv, LateAckOnlyAfterDrain
<1>33. ASSUME IpsLeave PROVE CmdInv'
  BY <1>33 DEF IpsLeave, CmdInv, TypeOK, Working,
        EnqueueInv, HeldInv, CmdOwnership, SctxNoDangling, SctxAnsweredOnce,
        AttachedInv, LateAckOnlyAfterDrain
<1>34. ASSUME UrbError PROVE CmdInv'
  BY <1>34 DEF UrbError, CmdInv, TypeOK, Working,
        EnqueueInv, HeldInv, CmdOwnership, SctxNoDangling, SctxAnsweredOnce,
        AttachedInv, LateAckOnlyAfterDrain
<1>35. ASSUME Suspend PROVE CmdInv'
  BY <1>35 DEF Suspend, CmdInv, TypeOK, Working,
        EnqueueInv, HeldInv, CmdOwnership, SctxNoDangling, SctxAnsweredOnce,
        AttachedInv, LateAckOnlyAfterDrain
<1>36. ASSUME Remove PROVE CmdInv'
  BY <1>36 DEF Remove, CmdInv, TypeOK, Working,
        EnqueueInv, HeldInv, CmdOwnership, SctxNoDangling, SctxAnsweredOnce,
        AttachedInv, LateAckOnlyAfterDrain
<1>37. ASSUME RemoveClosed PROVE CmdInv'
  BY <1>37 DEF RemoveClosed, CmdInv, TypeOK, Working,
        EnqueueInv, HeldInv, CmdOwnership, SctxNoDangling, SctxAnsweredOnce,
        AttachedInv, LateAckOnlyAfterDrain
<1>38. ASSUME UNCHANGED vars PROVE CmdInv'
  BY <1>38 DEF vars, CmdInv, TypeOK, Working,
        EnqueueInv, HeldInv, CmdOwnership, SctxNoDangling, SctxAnsweredOnce,
        AttachedInv, LateAckOnlyAfterDrain
<1> QED
  BY <1>1, <1>2, <1>3, <1>4, <1>5, <1>6, <1>7, <1>8, <1>9, <1>10, <1>11, <1>12, <1>13, <1>14, <1>15, <1>16, <1>17, <1>18, <1>19, <1>20, <1>21, <1>22, <1>23, <1>24, <1>25, <1>26, <1>27, <1>28, <1>29, <1>30, <1>31, <1>32, <1>33, <1>34, <1>35, <1>36, <1>37, <1>38
     DEF Next, SubmitterStep, ThreadStep, StopStep, Environment

\* The commands' invariant holds at the start: nothing is queued or submitted.
LEMMA CmdInvInit == Init => CmdInv
  BY DEF Init, CmdInv, Working, EnqueueInv, HeldInv, CmdOwnership,
     SctxNoDangling, SctxAnsweredOnce, AttachedInv, LateAckOnlyAfterDrain

\* Everything the commands' part of the model promises, for every number of
\* commands and starts and every behaviour of the environment.
THEOREM CommandsCorrect == Spec => []CmdInv
<1>1. Init => CmdInv
  BY CmdInvInit
<1>2. TypeOK /\ TypeOK' /\ CmdInv /\ [Next]_vars => CmdInv'
  BY CmdInvStep
<1> QED
  BY <1>1, <1>2, TypeCorrect, PTL DEF Spec

\* A completion never writes the submit_ctx of a caller of rtw_startbss_cmd
\* that has returned.
THEOREM SubmitCtxAlive == Spec => []SctxNoDangling
<1>1. CmdInv => SctxNoDangling
  BY DEF CmdInv
<1> QED
  BY <1>1, CommandsCorrect, PTL

\* rtw_sctx_done and rtw_sctx_done_err answer a caller at most once.
THEOREM SubmitCtxAnsweredOnce == Spec => []SctxAnsweredOnce
<1>1. CmdInv => SctxAnsweredOnce
  BY DEF CmdInv
<1> QED
  BY <1>1, CommandsCorrect, PTL

\* rtw_enqueue_cmd, rtw_cmd_thread and its exit loop hand every object on to
\* one owner, and nobody frees an object that another still holds.
THEOREM OwnershipCorrect == Spec => []CmdOwnership
<1>1. CmdInv => CmdOwnership
  BY DEF CmdInv
<1> QED
  BY <1>1, CommandsCorrect, PTL

\* A caller that found no answer writes a freed object only after the exit loop
\* of rtw_cmd_thread dropped its command.
THEOREM LateAckCorrect == Spec => []LateAckOnlyAfterDrain
<1>1. CmdInv => LateAckOnlyAfterDrain
  BY DEF CmdInv
<1> QED
  BY <1>1, CommandsCorrect, PTL

-----------------------------------------------------------------------------
\* A non-empty queue has a count of the semaphore, a submitter about to up it,
\* or a thread that will look at the queue before it sleeps or leaves; and a
\* thread that was not created yet does nothing.
WakeupInv ==
    /\ cmd_queue # <<>> =>
          \/ cmd_queue_sema > 0
          \/ \E c \in Cmds : spc[c] = "up"
          \/ \E u \in Threads :
                tpc[u] \notin {"none", "start", "setrun", "ready", "wait",
                               "exitup", "exitclear", "exited"}
    /\ \A t \in Threads : t > starts => tpc[t] = "none"

\* Every step keeps it.
LEMMA WakeupStep == TypeOK /\ WakeupInv /\ [Next]_vars => WakeupInv'
<1> SUFFICES ASSUME TypeOK, WakeupInv, [Next]_vars PROVE WakeupInv'
  OBVIOUS
<1> USE DEF flags, cmdvars, ctlvars, queue, cmdthd
<1>1. ASSUME NEW c \in Cmds, NEW k \in Codes, NEW ack \in BOOLEAN,
            Submit(c, k, ack) PROVE WakeupInv'
  BY <1>1, SMTT(30) DEF Submit, WakeupInv, TypeOK
<1>2. ASSUME NEW c \in Cmds, EnqueueFilter(c) PROVE WakeupInv'
  BY <1>2, SMTT(30) DEF EnqueueFilter, CmdFilter, Release, WakeupInv, TypeOK
<1>3. ASSUME NEW c \in Cmds, EnqueueInsert(c) PROVE WakeupInv'
  BY <1>3, SMTT(30) DEF EnqueueInsert, WakeupInv, TypeOK
<1>4. ASSUME NEW c \in Cmds, EnqueueUp(c) PROVE WakeupInv'
  BY <1>4, SMTT(30) DEF EnqueueUp, WakeupInv, TypeOK
<1>5. ASSUME NEW c \in Cmds, SctxWait(c) PROVE WakeupInv'
  BY <1>5, SMTT(30) DEF SctxWait, WakeupInv, TypeOK
<1>6. ASSUME NEW c \in Cmds, DetachSctx(c) PROVE WakeupInv'
  BY <1>6, SMTT(30) DEF DetachSctx, WakeupInv, TypeOK
<1>7. ASSUME NEW t \in Threads, ThreadClearStop(t) PROVE WakeupInv'
  BY <1>7, SMTT(30) DEF ThreadClearStop, Goto, WakeupInv, TypeOK
<1>8. ASSUME NEW t \in Threads, ThreadSetRunning(t) PROVE WakeupInv'
  BY <1>8, SMTT(30) DEF ThreadSetRunning, Goto, WakeupInv, TypeOK
<1>9. ASSUME NEW t \in Threads, ThreadReady(t) PROVE WakeupInv'
  BY <1>9, SMTT(30) DEF ThreadReady, Goto, WakeupInv, TypeOK
<1>10. ASSUME NEW t \in Threads, ThreadDown(t) PROVE WakeupInv'
  BY <1>10, SMTT(30) DEF ThreadDown, Goto, WakeupInv, TypeOK
<1>11. ASSUME NEW t \in Threads, ThreadCheck(t) PROVE WakeupInv'
  BY <1>11, SMTT(30) DEF ThreadCheck, Goto, WakeupInv, TypeOK
<1>12. ASSUME NEW t \in Threads, ThreadNext(t) PROVE WakeupInv'
  BY <1>12, SMTT(30) DEF ThreadNext, Goto, WakeupInv, TypeOK
<1>13. ASSUME NEW t \in Threads, ThreadDequeue(t) PROVE WakeupInv'
  BY <1>13, ZenonT(40) DEF ThreadDequeue, Goto, WakeupInv, TypeOK
<1>14. ASSUME NEW t \in Threads, ThreadFilter(t) PROVE WakeupInv'
  BY <1>14, SMTT(30) DEF ThreadFilter, CmdFilter, Goto, WakeupInv, TypeOK
<1>15. ASSUME NEW t \in Threads, ThreadHandler(t) PROVE WakeupInv'
  BY <1>15, SMTT(30) DEF ThreadHandler, Goto, WakeupInv, TypeOK
<1>16. ASSUME NEW t \in Threads, ThreadPost(t) PROVE WakeupInv'
  BY <1>16, SMTT(30) DEF ThreadPost, Goto, WakeupInv, TypeOK
<1>17. ASSUME NEW t \in Threads, ThreadCallback(t) PROVE WakeupInv'
  BY <1>17, SMTT(30) DEF ThreadCallback, Release, Goto, WakeupInv, TypeOK
<1>18. ASSUME NEW t \in Threads, ThreadDrain(t) PROVE WakeupInv'
  BY <1>18, SMTT(30) DEF ThreadDrain, Release, Goto, WakeupInv, TypeOK
<1>19. ASSUME NEW t \in Threads, ThreadExitUp(t) PROVE WakeupInv'
  BY <1>19, SMTT(30) DEF ThreadExitUp, Goto, WakeupInv, TypeOK
<1>20. ASSUME NEW t \in Threads, ThreadExitClear(t) PROVE WakeupInv'
  BY <1>20, SMTT(30) DEF ThreadExitClear, Goto, WakeupInv, TypeOK
<1>21. ASSUME NEW t \in Threads, ThreadSignalled(t) PROVE WakeupInv'
  BY <1>21, SMTT(30) DEF ThreadSignalled, Goto, WakeupInv, TypeOK
<1>22. ASSUME StartWait PROVE WakeupInv'
  BY <1>22, SMTT(30) DEF StartWait, WakeupInv, TypeOK
<1>23. ASSUME Unload PROVE WakeupInv'
  BY <1>23, SMTT(30) DEF Unload, WakeupInv, TypeOK
<1>24. ASSUME StopCheck PROVE WakeupInv'
  BY <1>24, SMTT(30) DEF StopCheck, AfterStop, WakeupInv, TypeOK
<1>25. ASSUME StopSet PROVE WakeupInv'
  BY <1>25, SMTT(30) DEF StopSet, WakeupInv, TypeOK
<1>26. ASSUME StopUp PROVE WakeupInv'
  BY <1>26, SMTT(30) DEF StopUp, WakeupInv, TypeOK
<1>27. ASSUME StopWait PROVE WakeupInv'
  BY <1>27, SMTT(30) DEF StopWait, AfterStop, WakeupInv, TypeOK
<1>28. ASSUME Poll PROVE WakeupInv'
  BY <1>28, SMTT(30) DEF Poll, WakeupInv, TypeOK
<1>29. ASSUME Deinit PROVE WakeupInv'
  BY <1>29, SMTT(30) DEF Deinit, WakeupInv, TypeOK
<1>30. ASSUME Open PROVE WakeupInv'
  <2>1. starts + 1 \in Threads /\ tpc[starts + 1] = "none"
    BY <1>30, CmdThreadAssumption DEF Open, TypeOK, WakeupInv, Threads
  <2> QED
    BY <1>30, <2>1 DEF Open, WakeupInv, TypeOK, Threads
<1>31. ASSUME OpenFails PROVE WakeupInv'
  BY <1>31, SMTT(30) DEF OpenFails, WakeupInv, TypeOK
<1>32. ASSUME IpsEnter PROVE WakeupInv'
  BY <1>32, SMTT(30) DEF IpsEnter, WakeupInv, TypeOK
<1>33. ASSUME IpsLeave PROVE WakeupInv'
  BY <1>33, SMTT(30) DEF IpsLeave, WakeupInv, TypeOK
<1>34. ASSUME UrbError PROVE WakeupInv'
  BY <1>34, SMTT(30) DEF UrbError, WakeupInv, TypeOK
<1>35. ASSUME Suspend PROVE WakeupInv'
  BY <1>35, SMTT(30) DEF Suspend, WakeupInv, TypeOK
<1>36. ASSUME Remove PROVE WakeupInv'
  BY <1>36, SMTT(30) DEF Remove, WakeupInv, TypeOK
<1>37. ASSUME RemoveClosed PROVE WakeupInv'
  BY <1>37, SMTT(30) DEF RemoveClosed, WakeupInv, TypeOK
<1>38. ASSUME UNCHANGED vars PROVE WakeupInv'
  BY <1>38, SMTT(30) DEF vars, WakeupInv, TypeOK
<1> QED
  BY <1>1, <1>2, <1>3, <1>4, <1>5, <1>6, <1>7, <1>8, <1>9, <1>10, <1>11, <1>12, <1>13, <1>14, <1>15, <1>16, <1>17, <1>18, <1>19, <1>20, <1>21, <1>22, <1>23, <1>24, <1>25, <1>26, <1>27, <1>28, <1>29, <1>30, <1>31, <1>32, <1>33, <1>34, <1>35, <1>36, <1>37, <1>38
     DEF Next, SubmitterStep, ThreadStep, StopStep, Environment

\* rtw_enqueue_cmd's up is never lost on a sleeping command thread.
THEOREM WakeupCorrect == Spec => []NoLostWakeup
<1>1. Init => WakeupInv
  BY DEF Init, WakeupInv
<1>2. TypeOK /\ WakeupInv /\ [Next]_vars => WakeupInv'
  BY WakeupStep
<1>3. TypeOK /\ WakeupInv => NoLostWakeup
  BY DEF WakeupInv, NoLostWakeup, TypeOK
<1> QED
  BY <1>1, <1>2, <1>3, TypeCorrect, PTL DEF Spec

-----------------------------------------------------------------------------
(* The life of the thread, when it leaves only because it was told to.       *)

\* No URB reports the device gone, nobody signals the thread or its control, and
\* rtw_dev_unload polls until the thread has left.
Patient == ~UrbErrors /\ ~Signals /\ ~PollExpires

Starting == {"start", "setrun", "ready"}
Loop == {"wait", "check", "next", "deq", "filter", "handler", "post", "callback"}
Leaving == {"drain", "exitup", "exitclear", "exited"}
Answered == {"exitclear", "exited"}

\* The place of the thread that was created last.
Last == tpc[starts]

\* Only the last thread may be alive; cmdthd_running tells of it.
LastInv ==
    /\ \A t \in Threads : (t > starts => tpc[t] = "none") /\ (t < starts => tpc[t] = "exited")
    /\ ctl \notin {"closed", "gone"} => starts \in Threads
    /\ cmdthd_running <=> starts \in Threads /\ Last \in {"ready"} \cup Loop \cup (Leaving \ {"exited"})

\* The semaphore counts the thread's last answer, at the end, until it is taken.
EndAnswer == terminate_sema = IF Last \in Answered THEN 1 ELSE 0

\* Where the thread is while the control is at each of its places.
PlaceInv ==
    /\ ctl \in {"closed", "gone"} /\ starts \in Threads => Last = "exited"
    /\ ctl = "closed" => terminate_sema = 0 /\ via = "none"
    /\ ctl = "startwait" =>
         /\ via = "none" /\ ~Stopped
         /\ Last \in Starting \cup Loop
         /\ terminate_sema = IF Last \in Loop THEN 1 ELSE 0
         /\ Last # "start" => ~stop_req
    /\ ctl = "up" => via = "none"
    /\ ctl = "up" \/ (ctl \in {"stop", "stopset"} /\ via = "suspend") =>
         Last \in Loop /\ terminate_sema = 0 /\ ~stop_req /\ ~Stopped
    /\ ctl \in {"unload", "stop", "stopset"} /\ via = "remove" =>
         Last \in Loop \cup Leaving /\ EndAnswer /\ ~stop_req
    /\ ctl = "unload" => via \in {"remove", "resume"}
    /\ ctl = "stop" => via \in {"suspend", "remove", "resume"}
    /\ ctl = "stopset" => via \in {"suspend", "remove"}
    /\ ctl \in {"stopup", "stopwait"} =>
         via \in {"suspend", "remove"} /\ Last \in Loop \cup Leaving /\ EndAnswer /\ stop_req
    /\ via = "resume" =>
         ctl \in {"unload", "stop", "poll", "deinit"} /\ Last \in Answered /\ stop_req /\ terminate_sema = 0
    /\ ctl = "poll" => via \in {"remove", "resume"} /\ Last \in Answered
    /\ ctl = "deinit" => via \in {"remove", "resume"} /\ Last = "exited"

LifeInv == LastInv /\ PlaceInv

\* Nothing of the thread's life changes.
LEMMA LifeKept ==
    ASSUME LifeInv,
           UNCHANGED <<tpc, ctl, via, starts, terminate_sema, cmdthd_running, stop_req,
                       bDriverStopped, bSurpriseRemoved>>
    PROVE  LifeInv'
BY DEF LifeInv, LastInv, PlaceInv, Last, EndAnswer, Stopped

\* Whoever is alive is the last thread.
LEMMA LastMoves ==
    ASSUME TypeOK, LifeInv, NEW t \in Threads, tpc[t] \notin {"none", "exited"},
           NEW l, Goto(t, l), UNCHANGED starts
    PROVE  /\ t = starts /\ starts \in Threads /\ Last = tpc[t] /\ Last' = l
           /\ \A u \in Threads : u # starts => tpc'[u] = tpc[u]
<1>1. starts \in Nat /\ t \in Nat
  BY CmdThreadAssumption DEF TypeOK, Threads
<1>2. t = starts
  BY <1>1 DEF LifeInv, LastInv
<1> QED
  BY <1>2 DEF TypeOK, Goto, Last

\* The thread moves within its loop, or on in its way out.
LEMMA LoopMoves ==
    ASSUME TypeOK, LifeInv, NEW t \in Threads, NEW l, Goto(t, l),
           \/ tpc[t] \in Loop /\ l \in Loop
           \/ tpc[t] \in Loop /\ l = "drain" /\ (Stopped \/ stop_req)
           \/ tpc[t] = "drain" /\ l \in {"drain", "exitup"},
           UNCHANGED <<ctl, via, starts, terminate_sema, cmdthd_running, stop_req,
                       bDriverStopped, bSurpriseRemoved>>
    PROVE  LifeInv'
<1>1. /\ t = starts /\ starts \in Threads /\ Last = tpc[t] /\ Last' = l
      /\ \A u \in Threads : u # starts => tpc'[u] = tpc[u]
  BY LastMoves DEF Loop
<1>2. LastInv'
  BY <1>1 DEF LifeInv, LastInv, Loop, Leaving
<1>3. PlaceInv'
  <2>1. CASE Last \in Loop /\ Last' \in Loop
    BY <1>1, <2>1 DEF LifeInv, PlaceInv, Starting, Loop, Leaving, Answered, EndAnswer, Stopped
  <2>2. CASE Last \in Loop /\ Last' = "drain" /\ (Stopped \/ stop_req)
    BY <1>1, <2>2 DEF LifeInv, PlaceInv, Starting, Loop, Leaving, Answered, EndAnswer, Stopped
  <2>3. CASE Last = "drain" /\ Last' \in {"drain", "exitup"}
    BY <1>1, <2>3 DEF LifeInv, PlaceInv, Starting, Loop, Leaving, Answered, EndAnswer, Stopped
  <2> QED
    BY <1>1, <2>1, <2>2, <2>3
<1> QED
  BY <1>2, <1>3 DEF LifeInv

LEMMA LifeStep ==
    ASSUME Patient PROVE TypeOK /\ LifeInv /\ [Next]_vars => LifeInv'
<1> SUFFICES ASSUME TypeOK, LifeInv, [Next]_vars PROVE LifeInv'
  OBVIOUS
<1> USE DEF flags, cmdvars, ctlvars, queue, cmdthd
<1>s. starts \in Nat /\ \A t \in Threads : t \in Nat
  BY CmdThreadAssumption DEF TypeOK, Threads
<1>1. CASE \E c \in Cmds, k \in Codes, ack \in BOOLEAN : Submit(c, k, ack)
  BY <1>1, LifeKept DEF Submit
<1>2. CASE \E c \in Cmds : EnqueueFilter(c)
  BY <1>2, LifeKept DEF EnqueueFilter
<1>3. CASE \E c \in Cmds : EnqueueInsert(c)
  BY <1>3, LifeKept DEF EnqueueInsert
<1>4. CASE \E c \in Cmds : EnqueueUp(c)
  BY <1>4, LifeKept DEF EnqueueUp
<1>5. CASE \E c \in Cmds : SctxWait(c)
  BY <1>5, LifeKept DEF SctxWait
<1>6. CASE \E c \in Cmds : DetachSctx(c)
  BY <1>6, LifeKept DEF DetachSctx
<1>7. ASSUME NEW t \in Threads, ThreadClearStop(t) PROVE LifeInv'
  <2>0. Goto(t, "setrun") /\ UNCHANGED starts /\ tpc[t] = "start"
    BY <1>7 DEF ThreadClearStop
  <2>1. /\ t = starts /\ starts \in Threads /\ Last = "start" /\ Last' = "setrun"
        /\ \A u \in Threads : u # starts => tpc'[u] = tpc[u]
    BY <2>0, LastMoves
  <2>2. LastInv'
    BY <1>7, <2>1 DEF ThreadClearStop, LifeInv, LastInv, Loop, Leaving
  <2>3. PlaceInv'
    BY <1>7, <2>1 DEF ThreadClearStop, LifeInv, PlaceInv, Starting, Loop, Leaving, Answered, EndAnswer, Stopped
  <2> QED
    BY <2>2, <2>3 DEF LifeInv
<1>8. ASSUME NEW t \in Threads, ThreadSetRunning(t) PROVE LifeInv'
  <2>0. Goto(t, "ready") /\ UNCHANGED starts /\ tpc[t] = "setrun"
    BY <1>8 DEF ThreadSetRunning
  <2>1. /\ t = starts /\ starts \in Threads /\ Last = "setrun" /\ Last' = "ready"
        /\ \A u \in Threads : u # starts => tpc'[u] = tpc[u]
    BY <2>0, LastMoves
  <2>2. LastInv'
    BY <1>8, <2>1 DEF ThreadSetRunning, LifeInv, LastInv, Loop, Leaving
  <2>3. PlaceInv'
    BY <1>8, <2>1 DEF ThreadSetRunning, LifeInv, PlaceInv, Starting, Loop, Leaving, Answered, EndAnswer, Stopped
  <2> QED
    BY <2>2, <2>3 DEF LifeInv
<1>9. ASSUME NEW t \in Threads, ThreadReady(t) PROVE LifeInv'
  <2>0. Goto(t, "wait") /\ UNCHANGED starts /\ tpc[t] = "ready"
    BY <1>9 DEF ThreadReady
  <2>1. /\ t = starts /\ starts \in Threads /\ Last = "ready" /\ Last' = "wait"
        /\ \A u \in Threads : u # starts => tpc'[u] = tpc[u]
    BY <2>0, LastMoves
  <2>2. LastInv'
    BY <1>9, <2>1 DEF ThreadReady, LifeInv, LastInv, Loop, Leaving
  <2>3. PlaceInv'
    BY <1>9, <2>1 DEF ThreadReady, LifeInv, PlaceInv, Starting, Loop, Leaving, Answered, EndAnswer, Stopped
  <2> QED
    BY <2>2, <2>3 DEF LifeInv
<1>10. ASSUME NEW t \in Threads, ThreadDown(t) PROVE LifeInv'
  BY <1>10, LoopMoves DEF ThreadDown, Loop
<1>11. ASSUME NEW t \in Threads, ThreadCheck(t) PROVE LifeInv'
  <2>1. PICK l : Goto(t, l) /\ (l \in Loop \/ (l = "drain" /\ (Stopped \/ stop_req)))
    BY <1>11 DEF ThreadCheck, Loop
  <2> QED
    BY <1>11, <2>1, LoopMoves DEF ThreadCheck, Loop
<1>12. ASSUME NEW t \in Threads, ThreadNext(t) PROVE LifeInv'
  <2>1. PICK l : Goto(t, l) /\ (l \in Loop \/ (l = "drain" /\ (Stopped \/ stop_req)))
    BY <1>12 DEF ThreadNext, Loop
  <2> QED
    BY <1>12, <2>1, LoopMoves DEF ThreadNext, Loop
<1>13. ASSUME NEW t \in Threads, ThreadDequeue(t) PROVE LifeInv'
  <2>1. PICK l \in Loop : Goto(t, l)
    BY <1>13 DEF ThreadDequeue, Loop
  <2> QED
    BY <1>13, <2>1, LoopMoves DEF ThreadDequeue, Loop
<1>14. ASSUME NEW t \in Threads, ThreadFilter(t) PROVE LifeInv'
  <2>1. PICK l \in Loop : Goto(t, l)
    BY <1>14 DEF ThreadFilter, Loop
  <2> QED
    BY <1>14, <2>1, LoopMoves DEF ThreadFilter, Loop
<1>15. ASSUME NEW t \in Threads, ThreadHandler(t) PROVE LifeInv'
  BY <1>15, LoopMoves DEF ThreadHandler, Loop
<1>16. ASSUME NEW t \in Threads, ThreadPost(t) PROVE LifeInv'
  BY <1>16, LoopMoves DEF ThreadPost, Loop
<1>17. ASSUME NEW t \in Threads, ThreadCallback(t) PROVE LifeInv'
  BY <1>17, LoopMoves DEF ThreadCallback, Loop
<1>18. ASSUME NEW t \in Threads, ThreadDrain(t) PROVE LifeInv'
  <2>1. PICK l \in {"drain", "exitup"} : Goto(t, l)
    <3>1. CASE cmd_queue = <<>>
      BY <1>18, <3>1 DEF ThreadDrain
    <3>2. CASE cmd_queue # <<>>
      <4>1. tpc' = tpc /\ tpc[t] = "drain"
        BY <1>18, <3>2 DEF ThreadDrain
      <4>2. Goto(t, "drain")
        BY <4>1 DEF Goto, TypeOK
      <4> QED
        BY <4>2
    <3> QED
      BY <3>1, <3>2
  <2> QED
    BY <1>18, <2>1, LoopMoves DEF ThreadDrain, Loop
<1>19. ASSUME NEW t \in Threads, ThreadExitUp(t) PROVE LifeInv'
  <2>0. Goto(t, "exitclear") /\ UNCHANGED starts /\ tpc[t] = "exitup"
    BY <1>19 DEF ThreadExitUp
  <2>1. /\ t = starts /\ starts \in Threads /\ Last = "exitup" /\ Last' = "exitclear"
        /\ \A u \in Threads : u # starts => tpc'[u] = tpc[u]
    BY <2>0, LastMoves
  <2>2. LastInv'
    BY <1>19, <2>1 DEF ThreadExitUp, LifeInv, LastInv, Loop, Leaving
  <2>3. PlaceInv'
    BY <1>19, <2>1 DEF ThreadExitUp, LifeInv, PlaceInv, Starting, Loop, Leaving, Answered, EndAnswer, Stopped
  <2> QED
    BY <2>2, <2>3 DEF LifeInv
<1>20. ASSUME NEW t \in Threads, ThreadExitClear(t) PROVE LifeInv'
  <2>0. Goto(t, "exited") /\ UNCHANGED starts /\ tpc[t] = "exitclear"
    BY <1>20 DEF ThreadExitClear
  <2>1. /\ t = starts /\ starts \in Threads /\ Last = "exitclear" /\ Last' = "exited"
        /\ \A u \in Threads : u # starts => tpc'[u] = tpc[u]
    BY <2>0, LastMoves
  <2>2. LastInv'
    BY <1>20, <2>1 DEF ThreadExitClear, LifeInv, LastInv, Loop, Leaving
  <2>3. PlaceInv'
    BY <1>20, <2>1 DEF ThreadExitClear, LifeInv, PlaceInv, Starting, Loop, Leaving, Answered, EndAnswer, Stopped
  <2> QED
    BY <2>2, <2>3 DEF LifeInv
<1>21. CASE \E t \in Threads : ThreadSignalled(t)
  BY <1>21 DEF ThreadSignalled, Patient
<1>22. CASE StartWait
  <2>1. Last' = Last
    BY <1>22 DEF StartWait, Last
  <2>2. LastInv'
    BY <1>22, <2>1 DEF StartWait, LifeInv, LastInv, PlaceInv
  <2>3. PlaceInv'
    BY <1>22, <2>1 DEF StartWait, Patient, LifeInv, LastInv, PlaceInv, TypeOK, Starting, Loop, Leaving, Answered, EndAnswer, Stopped
  <2> QED
    BY <2>2, <2>3 DEF LifeInv
<1>23. CASE Unload
  <2>1. Last' = Last
    BY <1>23 DEF Unload, Last
  <2>2. LastInv'
    BY <1>23, <2>1 DEF Unload, LifeInv, LastInv, PlaceInv
  <2>3. PlaceInv'
    BY <1>23, <2>1 DEF Unload, LifeInv, LastInv, PlaceInv, TypeOK, Starting, Loop, Leaving, Answered, EndAnswer, Stopped
  <2> QED
    BY <2>2, <2>3 DEF LifeInv
<1>24. CASE StopCheck
  <2>1. Last' = Last
    BY <1>24 DEF StopCheck, Last
  <2>2. LastInv'
    BY <1>24, <2>1 DEF StopCheck, AfterStop, LifeInv, LastInv, PlaceInv
  <2>3. PlaceInv'
    BY <1>24, <2>1 DEF StopCheck, AfterStop, LifeInv, LastInv, PlaceInv, TypeOK, Starting, Loop, Leaving, Answered, EndAnswer, Stopped
  <2> QED
    BY <2>2, <2>3 DEF LifeInv
<1>25. CASE StopSet
  <2>1. Last' = Last
    BY <1>25 DEF StopSet, Last
  <2>2. LastInv'
    BY <1>25, <2>1 DEF StopSet, LifeInv, LastInv, PlaceInv
  <2>3. PlaceInv'
    BY <1>25, <2>1 DEF StopSet, LifeInv, LastInv, PlaceInv, TypeOK, Starting, Loop, Leaving, Answered, EndAnswer, Stopped
  <2> QED
    BY <2>2, <2>3 DEF LifeInv
<1>26. CASE StopUp
  <2>1. Last' = Last
    BY <1>26 DEF StopUp, Last
  <2>2. LastInv'
    BY <1>26, <2>1 DEF StopUp, LifeInv, LastInv, PlaceInv
  <2>3. PlaceInv'
    BY <1>26, <2>1 DEF StopUp, LifeInv, LastInv, PlaceInv, TypeOK, Starting, Loop, Leaving, Answered, EndAnswer, Stopped
  <2> QED
    BY <2>2, <2>3 DEF LifeInv
<1>27. CASE StopWait
  <2>1. Last' = Last
    BY <1>27 DEF StopWait, Last
  <2>2. LastInv'
    BY <1>27, <2>1 DEF StopWait, AfterStop, LifeInv, LastInv, PlaceInv
  <2>3. PlaceInv'
    BY <1>27, <2>1 DEF StopWait, AfterStop, Patient, LifeInv, LastInv, PlaceInv, TypeOK, Starting, Loop, Leaving, Answered, EndAnswer, Stopped
  <2> QED
    BY <2>2, <2>3 DEF LifeInv
<1>28. CASE Poll
  <2>1. Last' = Last
    BY <1>28 DEF Poll, Last
  <2>2. LastInv'
    BY <1>28, <2>1 DEF Poll, LifeInv, LastInv, PlaceInv
  <2>3. PlaceInv'
    BY <1>28, <2>1 DEF Poll, Patient, LifeInv, LastInv, PlaceInv, TypeOK, Starting, Loop, Leaving, Answered, EndAnswer, Stopped
  <2> QED
    BY <2>2, <2>3 DEF LifeInv
<1>29. CASE Deinit
  <2>1. Last' = Last
    BY <1>29 DEF Deinit, Last
  <2>2. LastInv'
    BY <1>29, <2>1 DEF Deinit, LifeInv, LastInv, PlaceInv
  <2>3. PlaceInv'
    BY <1>29, <2>1 DEF Deinit, LifeInv, LastInv, PlaceInv, TypeOK, Starting, Loop, Leaving, Answered, EndAnswer, Stopped
  <2> QED
    BY <2>2, <2>3 DEF LifeInv
<1>30. CASE Open
  <2>1. /\ starts' = starts + 1 /\ starts' \in Threads /\ Last' = "start"
        /\ \A u \in Threads : u # starts' => tpc'[u] = tpc[u]
    BY <1>30, <1>s, CmdThreadAssumption DEF Open, TypeOK, Threads, Last
  <2>2. starts \in Threads => Last = "exited"
    BY <1>30 DEF Open, LifeInv, PlaceInv
  <2>3. LastInv'
    <3>1. cmdthd_running = FALSE
      BY <1>30, <2>2 DEF LifeInv, LastInv, Loop, Leaving, TypeOK
    <3>2. \A u \in Threads : (u > starts' => tpc'[u] = "none") /\ (u < starts' => tpc'[u] = "exited")
      BY <1>30, <1>s, <2>1, <2>2 DEF LifeInv, LastInv, Last
    <3> QED
      BY <1>30, <2>1, <3>1, <3>2 DEF Open, LastInv, Loop, Leaving
  <2>4. PlaceInv'
    BY <1>30, <2>1 DEF Open, LifeInv, PlaceInv, Starting, Loop, Leaving, Answered, EndAnswer, Stopped
  <2> QED
    BY <2>3, <2>4 DEF LifeInv
<1>31. CASE OpenFails
  <2>1. Last' = Last
    BY <1>31 DEF OpenFails, Last
  <2>2. LastInv'
    BY <1>31, <2>1 DEF OpenFails, LifeInv, LastInv, PlaceInv
  <2>3. PlaceInv'
    BY <1>31, <2>1 DEF OpenFails, LifeInv, LastInv, PlaceInv, TypeOK, Starting, Loop, Leaving, Answered, EndAnswer, Stopped
  <2> QED
    BY <2>2, <2>3 DEF LifeInv
<1>32. CASE IpsEnter
  BY <1>32, LifeKept DEF IpsEnter
<1>33. CASE IpsLeave
  <2>1. Last' = Last
    BY <1>33 DEF IpsLeave, Last
  <2>2. LastInv'
    BY <1>33, <2>1 DEF IpsLeave, LifeInv, LastInv, PlaceInv
  <2>3. PlaceInv'
    BY <1>33, <2>1 DEF IpsLeave, LifeInv, LastInv, PlaceInv, TypeOK, Starting, Loop, Leaving, Answered, EndAnswer, Stopped
  <2> QED
    BY <2>2, <2>3 DEF LifeInv
<1>34. CASE UrbError
  BY <1>34 DEF UrbError, Patient
<1>35. CASE Suspend
  <2>1. Last' = Last
    BY <1>35 DEF Suspend, Last
  <2>2. LastInv'
    BY <1>35, <2>1 DEF Suspend, LifeInv, LastInv, PlaceInv
  <2>3. PlaceInv'
    BY <1>35, <2>1 DEF Suspend, LifeInv, LastInv, PlaceInv, TypeOK, Starting, Loop, Leaving, Answered, EndAnswer, Stopped
  <2> QED
    BY <2>2, <2>3 DEF LifeInv
<1>36. CASE Remove
  <2>1. Last' = Last
    BY <1>36 DEF Remove, Last
  <2>2. LastInv'
    BY <1>36, <2>1 DEF Remove, LifeInv, LastInv, PlaceInv
  <2>3. PlaceInv'
    BY <1>36, <2>1 DEF Remove, LifeInv, LastInv, PlaceInv, TypeOK, Starting, Loop, Leaving, Answered, EndAnswer, Stopped
  <2> QED
    BY <2>2, <2>3 DEF LifeInv
<1>37. CASE RemoveClosed
  <2>1. Last' = Last
    BY <1>37 DEF RemoveClosed, Last
  <2>2. LastInv'
    BY <1>37, <2>1 DEF RemoveClosed, LifeInv, LastInv, PlaceInv
  <2>3. PlaceInv'
    BY <1>37, <2>1 DEF RemoveClosed, LifeInv, LastInv, PlaceInv, TypeOK, Starting, Loop, Leaving, Answered, EndAnswer, Stopped
  <2> QED
    BY <2>2, <2>3 DEF LifeInv
<1>38. CASE UNCHANGED vars
  BY <1>38, LifeKept DEF vars
<1> QED
  BY <1>1, <1>2, <1>3, <1>4, <1>5, <1>6, <1>7, <1>8, <1>9, <1>10, <1>11, <1>12, <1>13, <1>14, <1>15, <1>16, <1>17, <1>18, <1>19, <1>20, <1>21, <1>22, <1>23, <1>24, <1>25, <1>26, <1>27, <1>28, <1>29, <1>30, <1>31, <1>32, <1>33, <1>34, <1>35, <1>36, <1>37, <1>38
     DEF Next, SubmitterStep, ThreadStep, StopStep, Environment

LEMMA LifeAlways == ASSUME Patient PROVE Spec => []LifeInv
<1>1. Init => LifeInv
  BY CmdThreadAssumption DEF Init, LifeInv, LastInv, PlaceInv, Threads, Last, EndAnswer
<1> QED
  BY <1>1, LifeStep, TypeCorrect, PTL DEF Spec

\* When nothing makes the thread leave on its own and the poll is patient, the driver
\* never has two command threads, however often it is opened and suspended.
THEOREM OneThreadAlive == ASSUME Patient PROVE Spec => []OneThread
<1>1. TypeOK /\ LifeInv => OneThread
  <2> SUFFICES ASSUME TypeOK, LifeInv, NEW t \in Threads, NEW u \in Threads, Alive(t), Alive(u)
               PROVE  t = u
    BY DEF OneThread
  <2>1. starts \in Nat /\ t \in Nat /\ u \in Nat
    BY CmdThreadAssumption DEF TypeOK, Threads
  <2> QED
    BY <2>1 DEF LifeInv, LastInv, Alive
<1> QED
  BY <1>1, LifeAlways, TypeCorrect, PTL

\* ... and rtw_dev_unload polls only when the thread has freed the queue, and the open
\* goes on only when the thread is past its assignments.
THEOREM ControlWaits == ASSUME Patient PROVE Spec => []ControlWaitsForThread
<1>1. TypeOK /\ LifeInv => ControlWaitsForThread
  <2> SUFFICES ASSUME TypeOK, LifeInv PROVE ControlWaitsForThread
    OBVIOUS
  <2>1. starts \in Nat /\ \A t \in Threads : t \in Nat
    BY CmdThreadAssumption DEF TypeOK, Threads
  <2>2. ASSUME ctl \in {"poll", "deinit", "closed", "gone"}, NEW t \in Threads
        PROVE  tpc[t] \in {"none", "exitclear", "exited"}
    <3>1. CASE t = starts
      BY <2>2, <3>1 DEF LifeInv, PlaceInv, Last, Answered
    <3>2. CASE t # starts
      BY <2>1, <3>2 DEF LifeInv, LastInv
    <3> QED
      BY <3>1, <3>2
  <2>3. ctl = "up" => tpc[starts] \notin {"start", "setrun"}
    BY DEF LifeInv, PlaceInv, Last, Loop
  <2> QED
    BY <2>2, <2>3 DEF ControlWaitsForThread
<1> QED
  BY <1>1, LifeAlways, TypeCorrect, PTL

===============================================================================
