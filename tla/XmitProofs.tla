------------------------------ MODULE XmitProofs ------------------------------
(* Proofs about the transmit path, for any categories, any numbers of frames   *)
(* and buffers, any failures: types, the queue's counters, the contract with   *)
(* the network stack, and, when there are more buffers than senders, that a    *)
(* queued frame always has somebody who comes for it.                          *)
EXTENDS Xmit, SumLemmas

\* The counts of a queue agree, and a queue with frames is on its hw_xmit's list.
QueueInv ==
    \A a \in Acs :
        /\ servq[a].qcnt = servq[a].len /\ servq[a].accnt = servq[a].len
        /\ servq[a].len > 0 => servq[a].listed

\* The tasklet knows the category of the frame it holds.
TaskInv == InTask => task.ac \in Acs

\* rtw_free_stainfo leaves nothing in the queues, and nothing is put into them
\* until the next join.
FlushedInv == env.sta \in {"gone", "flushed"} => \A a \in Acs : servq[a].len = 0

LEMMA WritePortType ==
    ASSUME NEW n \in Nat, NEW strands, pool \in PoolStates, WritePort(n, strands)
    PROVE  (pool \in PoolStates)'
<1>0. pool.air + 1 \in Nat /\ pool.bufs + 1 \in Nat /\ pool.frames + n \in Nat
  BY DEF PoolStates
<1>1. CASE pool' = [pool EXCEPT !.air = pool.air + 1, !.frames = pool.frames + n]
  BY <1>0, <1>1 DEF PoolStates
<1>2. CASE pool' = [pool EXCEPT !.bufs = pool.bufs + 1, !.frames = pool.frames + n]
  BY <1>0, <1>2 DEF PoolStates
<1> QED
  BY <1>1, <1>2 DEF WritePort

\* Every variable keeps its type.
LEMMA TypeOKStep == TypeOK /\ QueueInv /\ TaskInv /\ [Next]_vars => TypeOK'
<1> SUFFICES ASSUME TypeOK, QueueInv, TaskInv, [Next]_vars
             PROVE  TypeOK'
  OBVIOUS
<1>host. host \in [Acs -> HostStates]
  BY DEF TypeOK
<1>pool. pool \in PoolStates
  BY DEF TypeOK
<1>servq. servq \in [Acs -> ServqStates]
  BY DEF TypeOK
<1>net. net \in [Acs -> NetStates]
  BY DEF TypeOK
<1>task. task \in TaskStates
  BY DEF TypeOK
<1>env. env \in EnvStates
  BY DEF TypeOK
<1>1. CASE \E a \in Acs : Entry(a)
  <2>0. PICK a \in Acs : Entry(a)
    BY <1>1
  <2>1. (host \in [Acs -> HostStates])'
    BY <2>0, <1>host DEF Entry, HostStates, HostPcs
  <2> QED
    BY <2>0, <1>pool, <1>servq, <1>net, <1>task, <1>env, <2>1 DEF TypeOK, Entry
<1>2. CASE \E a \in Acs : CheckResource(a)
  <2>0. PICK a \in Acs : CheckResource(a)
    BY <1>2
  <2>1. (host \in [Acs -> HostStates])'
    BY <2>0, <1>host DEF CheckResource, HostAt, HostStates, HostPcs
  <2>2. (net \in [Acs -> NetStates])'
    BY <2>0, <1>net DEF CheckResource, NetStates
  <2> QED
    BY <2>0, <1>pool, <1>servq, <1>task, <1>env, <2>1, <2>2 DEF TypeOK, CheckResource
<1>3. CASE \E a \in Acs : AllocFrame(a)
  <2>0. PICK a \in Acs : AllocFrame(a)
    BY <1>3
  <2>1. (host \in [Acs -> HostStates])'
    <3>1. CASE HostAt(a, "attrib")
      BY <2>0, <3>1, <1>host DEF HostAt, HostStates, HostPcs
    <3>2. CASE HostAt(a, "idle")
      BY <2>0, <3>2, <1>host DEF HostAt, HostStates, HostPcs
    <3> QED
      BY <2>0, <3>1, <3>2 DEF AllocFrame
  <2>2. (pool \in PoolStates)'
    BY <2>0, <1>pool DEF AllocFrame, PoolStates
  <2>3. (net \in [Acs -> NetStates])'
    BY <2>0, <1>net, <1>net DEF AllocFrame, PktRefused, NetStates
  <2> QED
    BY <2>0, <1>servq, <1>task, <1>env, <2>1, <2>2, <2>3 DEF TypeOK, AllocFrame
<1>4. CASE \E a \in Acs : UpdateAttrib(a)
  <2>0. PICK a \in Acs : UpdateAttrib(a)
    BY <1>4
  <2>1. (host \in [Acs -> HostStates])'
    <3>1. CASE HostAt(a, "pre")
      BY <2>0, <3>1, <1>host DEF HostAt, HostStates, HostPcs
    <3>2. CASE HostAt(a, "idle")
      BY <2>0, <3>2, <1>host DEF HostAt, HostStates, HostPcs
    <3> QED
      BY <2>0, <3>1, <3>2 DEF UpdateAttrib
  <2>2. (pool \in PoolStates)'
    BY <2>0, <1>pool DEF UpdateAttrib, PoolStates
  <2>3. (net \in [Acs -> NetStates])'
    BY <2>0, <1>net DEF UpdateAttrib, PktRefused, NetStates
  <2> QED
    BY <2>0, <1>servq, <1>task, <1>env, <2>1, <2>2, <2>3 DEF TypeOK, UpdateAttrib
<1>5. CASE \E a \in Acs : PreEnqueue(a)
  <2>0. PICK a \in Acs : PreEnqueue(a)
    BY <1>5
  <2>1. (host \in [Acs -> HostStates])'
    BY <2>0, <1>host DEF PreEnqueue, HostAt, HostStates, HostPcs
  <2>2. (pool \in PoolStates)'
    BY <2>0, <1>pool DEF PreEnqueue, MustEnqueue, PoolStates
  <2>3. (servq \in [Acs -> ServqStates])'
    <3>1. CASE servq' = [servq EXCEPT ![a] = Enqueued(a)]
      BY <2>0, <3>1, <1>servq DEF Enqueued, ServqStates
    <3>2. CASE servq' = servq
      BY <2>0, <3>2, <1>servq DEF Enqueued, ServqStates
    <3> QED
      BY <2>0, <3>1, <3>2 DEF PreEnqueue
  <2>4. (net \in [Acs -> NetStates])'
    <3>1. CASE PktComplete(a)
      BY <2>0, <3>1, <1>net DEF PktComplete, NetStates
    <3>2. CASE net' = net
      BY <2>0, <3>2, <1>net DEF PktComplete, NetStates
    <3> QED
      BY <2>0, <3>1, <3>2 DEF PreEnqueue
  <2> QED
    BY <2>0, <1>task, <1>env, <2>1, <2>2, <2>3, <2>4 DEF TypeOK, PreEnqueue
<1>6. CASE \E a \in Acs : PreDirect(a)
  <2>0. PICK a \in Acs : PreDirect(a)
    BY <1>6
  <2>1. (host \in [Acs -> HostStates])'
    BY <2>0, <1>host DEF PreDirect, HostAt, HostStates, HostPcs
  <2>2. (pool \in PoolStates)'
    BY <2>0, <1>pool DEF PreDirect, MustEnqueue, PoolStates
  <2> QED
    BY <2>0, <1>servq, <1>net, <1>task, <1>env, <2>1, <2>2 DEF TypeOK, PreDirect
<1>7. CASE \E a \in Acs : XmitDirect(a)
  <2>0. PICK a \in Acs : XmitDirect(a)
    BY <1>7
  <2>1. (host \in [Acs -> HostStates])'
    BY <2>0, <1>host DEF XmitDirect, HostAt, WritePort, HostStates, HostPcs
  <2>2. (pool \in PoolStates)'
    BY <2>0, <1>pool, WritePortType DEF XmitDirect
  <2>3. (env \in EnvStates)'
    BY <2>0, <1>env DEF XmitDirect, WritePort, EnvStates
  <2> QED
    BY <2>0, <1>servq, <1>net, <1>task, <2>1, <2>2, <2>3 DEF TypeOK, XmitDirect
<1>8. CASE \E a \in Acs : XmitDirectFails(a)
  <2>0. PICK a \in Acs : XmitDirectFails(a)
    BY <1>8
  <2>1. (host \in [Acs -> HostStates])'
    BY <2>0, <1>host DEF XmitDirectFails, HostAt, HostStates, HostPcs
  <2>2. (pool \in PoolStates)'
    <3>1. pool' = [pool EXCEPT !.bufs = pool.bufs + 1, !.frames = pool.frames + 1]
      BY <2>0 DEF XmitDirectFails
    <3>2. pool.bufs + 1 \in Nat /\ pool.frames + 1 \in Nat
      BY <1>pool DEF PoolStates
    <3> QED
      BY <3>1, <3>2, <1>pool DEF PoolStates
  <2>3. (net \in [Acs -> NetStates])'
    BY <2>0, <1>net DEF XmitDirectFails, PktComplete, NetStates
  <2>4. (env \in EnvStates)'
    BY <2>0, <1>env DEF XmitDirectFails, EnvStates
  <2> QED
    BY <2>0, <1>servq, <1>task, <2>1, <2>2, <2>3, <2>4 DEF TypeOK, XmitDirectFails
<1>9. CASE \E a \in Acs : XmitSent(a)
  <2>0. PICK a \in Acs : XmitSent(a)
    BY <1>9
  <2>1. (host \in [Acs -> HostStates])'
    BY <2>0, <1>host DEF XmitSent, HostAt, HostStates, HostPcs
  <2>2. (pool \in PoolStates)'
    BY <2>0, <1>pool DEF XmitSent, PoolStates
  <2>3. (net \in [Acs -> NetStates])'
    BY <2>0, <1>net DEF XmitSent, PktComplete, NetStates
  <2> QED
    BY <2>0, <1>servq, <1>task, <1>env, <2>1, <2>2, <2>3 DEF TypeOK, XmitSent
<1>10. CASE TaskRun
  <2>1. (task \in TaskStates)'
    BY <1>10, <1>task DEF TaskRun, TaskStates, TaskPcs
  <2>2. (env \in EnvStates)'
    BY <1>10, <1>env DEF TaskRun, EnvStates
  <2> QED
    BY <1>10, <1>host, <1>pool, <1>servq, <1>net, <2>1, <2>2 DEF TypeOK, TaskRun
<1>11. CASE TaskTop
  <2>1. (pool \in PoolStates)'
    BY <1>11, <1>pool DEF TaskTop, PoolStates
  <2>2. (task \in TaskStates)'
    BY <1>11, <1>task DEF TaskTop, TaskAt, TaskStates, TaskPcs
  <2> QED
    BY <1>11, <1>host, <1>servq, <1>net, <1>env, <2>1, <2>2 DEF TypeOK, TaskTop
<1>12. CASE TaskNone
  <2>1. (task \in TaskStates)'
    BY <1>12, <1>task DEF TaskNone, TaskAt, TaskStates, TaskPcs
  <2> QED
    BY <1>12, <1>host, <1>pool, <1>servq, <1>net, <1>env, <2>1 DEF TypeOK, TaskNone
<1>13. CASE TaskRelease
  <2>1. (pool \in PoolStates)'
    BY <1>13, <1>pool DEF TaskRelease, PoolStates
  <2>2. (task \in TaskStates)'
    BY <1>13, <1>task DEF TaskRelease, TaskAt, TaskStates, TaskPcs
  <2> QED
    BY <1>13, <1>host, <1>servq, <1>net, <1>env, <2>1, <2>2 DEF TypeOK, TaskRelease
<1>14. CASE \E a \in Acs : TaskFirst(a)
  <2>0. PICK a \in Acs : TaskFirst(a)
    BY <1>14
  <2>1. (servq \in [Acs -> ServqStates])'
    BY <2>0, <1>servq, QueueInv DEF TaskFirst, Shortened, IsFirst, QueueInv, ServqStates
  <2>2. (task \in TaskStates)'
    BY <2>0, <1>task DEF TaskFirst, IsFirst, TaskStates, TaskPcs
  <2> QED
    BY <2>0, <1>host, <1>pool, <1>net, <1>env, <2>1, <2>2 DEF TypeOK, TaskFirst
<1>15. CASE TaskCoalesce
  <2>0. task.ac \in Acs
    BY <1>15, TaskInv DEF TaskCoalesce, TaskInv, InTask
  <2>1. (net \in [Acs -> NetStates])'
    BY <1>15, <1>net, <2>0 DEF TaskCoalesce, PktComplete, NetStates
  <2>2. (task \in TaskStates)'
    BY <1>15, <1>task DEF TaskCoalesce, TaskAt, TaskStates, TaskPcs
  <2> QED
    BY <1>15, <1>host, <1>pool, <1>servq, <1>env, <2>1, <2>2 DEF TypeOK, TaskCoalesce
<1>16. CASE TaskCoalesceFails
  <2>0. task.ac \in Acs
    BY <1>16, TaskInv DEF TaskCoalesceFails, TaskInv, InTask
  <2>1. (pool \in PoolStates)'
    BY <1>16, <1>pool DEF TaskCoalesceFails, PoolStates
  <2>2. (net \in [Acs -> NetStates])'
    BY <1>16, <1>net, <2>0 DEF TaskCoalesceFails, PktComplete, NetStates
  <2>3. (task \in TaskStates)'
    BY <1>16, <1>task DEF TaskCoalesceFails, TaskLets, TaskStates, TaskPcs
  <2> QED
    BY <1>16, <1>host, <1>servq, <1>env, <2>1, <2>2, <2>3 DEF TypeOK, TaskCoalesceFails
<1>17. CASE TaskAggregate
  <2>0. task.ac \in Acs
    BY <1>17, TaskInv DEF TaskAggregate, TaskInv, InTask
  <2>a. PICK n \in 0 .. servq[task.ac].len :
          /\ servq' = [servq EXCEPT ![task.ac] = Shortened(task.ac, n)]
          /\ pool' = [pool EXCEPT !.frames = @ + n]
          /\ IF n > 0 THEN PktComplete(task.ac) ELSE UNCHANGED net
    BY <1>17 DEF TaskAggregate
  <2>b. n \in Nat
    BY <2>0, <1>servq DEF ServqStates
  <2>1. (pool \in PoolStates)'
    BY <2>a, <2>b, <1>pool DEF PoolStates
  <2>2. (servq \in [Acs -> ServqStates])'
    BY <2>a, <2>b, <2>0, <1>servq, QueueInv DEF Shortened, ServqStates, QueueInv
  <2>3. (net \in [Acs -> NetStates])'
    <3>1. CASE PktComplete(task.ac)
      BY <2>0, <3>1, <1>net DEF PktComplete, NetStates
    <3>2. CASE net' = net
      BY <2>0, <3>2, <1>net DEF PktComplete, NetStates
    <3> QED
      BY <2>a, <3>1, <3>2
  <2>4. (task \in TaskStates)'
    BY <1>17, <1>task DEF TaskAggregate, TaskAt, TaskStates, TaskPcs
  <2> QED
    BY <1>17, <1>host, <1>env, <2>1, <2>2, <2>3, <2>4 DEF TypeOK, TaskAggregate
<1>18. CASE TaskSubmit
  <2>1. (pool \in PoolStates)'
    BY <1>18, <1>pool, WritePortType DEF TaskSubmit
  <2>2. (task \in TaskStates)'
    BY <1>18, <1>task DEF TaskSubmit, TaskLets, WritePort, TaskStates, TaskPcs
  <2>3. (env \in EnvStates)'
    BY <1>18, <1>env DEF TaskSubmit, WritePort, EnvStates
  <2> QED
    BY <1>18, <1>host, <1>servq, <1>net, <2>1, <2>2, <2>3 DEF TypeOK, TaskSubmit
<1>19. CASE UrbDone
  <2>1. (pool \in PoolStates)'
    <3>1. pool' = [pool EXCEPT !.air = pool.air - 1, !.bufs = pool.bufs + 1, !.back = TRUE]
      BY <1>19 DEF UrbDone
    <3>2. pool.air - 1 \in Nat /\ pool.bufs + 1 \in Nat
      BY <1>19, <1>pool DEF UrbDone, PoolStates
    <3> QED
      BY <3>1, <3>2, <1>pool DEF PoolStates
  <2>2. (env \in EnvStates)'
    BY <1>19, <1>env DEF UrbDone, EnvStates
  <2> QED
    BY <1>19, <1>host, <1>servq, <1>net, <1>task, <2>1, <2>2 DEF TypeOK, UrbDone
<1>20. CASE UrbSchedules
  <2>1. (pool \in PoolStates)'
    BY <1>20, <1>pool DEF UrbSchedules, PoolStates
  <2>2. (task \in TaskStates)'
    BY <1>20, <1>task DEF UrbSchedules, Schedule, TaskStates, TaskPcs
  <2> QED
    BY <1>20, <1>host, <1>servq, <1>net, <1>env, <2>1, <2>2 DEF TypeOK, UrbSchedules
<1>21. CASE BusyBegin
  <2>1. (env \in EnvStates)'
    BY <1>21, <1>env, XmitAssumption DEF BusyBegin, EnvStates
  <2> QED
    BY <1>21, <1>host, <1>pool, <1>servq, <1>net, <1>task, <2>1 DEF TypeOK, BusyBegin
<1>22. CASE BusyEnd
  <2>1. (env \in EnvStates)'
    BY <1>22, <1>env DEF BusyEnd, EnvStates
  <2> QED
    BY <1>22, <1>host, <1>pool, <1>servq, <1>net, <1>task, <2>1 DEF TypeOK, BusyEnd
<1>23. CASE BusyTimesOut
  <2>1. (env \in EnvStates)'
    BY <1>23, <1>env DEF BusyTimesOut, EnvStates
  <2> QED
    BY <1>23, <1>host, <1>pool, <1>servq, <1>net, <1>task, <2>1 DEF TypeOK, BusyTimesOut
<1>24. CASE XmitSchedule
  <2>1. (task \in TaskStates)'
    BY <1>24, <1>task DEF XmitSchedule, Schedule, TaskStates, TaskPcs
  <2>2. (env \in EnvStates)'
    BY <1>24, <1>env DEF XmitSchedule, EnvStates
  <2> QED
    BY <1>24, <1>host, <1>pool, <1>servq, <1>net, <2>1, <2>2 DEF TypeOK, XmitSchedule
<1>25. CASE Join
  <2>1. (env \in EnvStates)'
    BY <1>25, <1>env DEF Join, EnvStates
  <2> QED
    BY <1>25, <1>host, <1>pool, <1>servq, <1>net, <1>task, <2>1 DEF TypeOK, Join
<1>26. CASE LeaveUnlink
  <2>1. (env \in EnvStates)'
    BY <1>26, <1>env DEF LeaveUnlink, EnvStates
  <2> QED
    BY <1>26, <1>host, <1>pool, <1>servq, <1>net, <1>task, <2>1 DEF TypeOK, LeaveUnlink
<1>27. CASE LeaveLock
  <2>1. (env \in EnvStates)'
    BY <1>27, <1>env DEF LeaveLock, EnvStates
  <2> QED
    BY <1>27, <1>host, <1>pool, <1>servq, <1>net, <1>task, <2>1 DEF TypeOK, LeaveLock
<1>28. CASE LeaveUnlock
  <2>1. (env \in EnvStates)'
    BY <1>28, <1>env DEF LeaveUnlock, EnvStates
  <2> QED
    BY <1>28, <1>host, <1>pool, <1>servq, <1>net, <1>task, <2>1 DEF TypeOK, LeaveUnlock
<1>29. CASE LeaveIndicate
  <2>1. (env \in EnvStates)'
    BY <1>29, <1>env DEF LeaveIndicate, EnvStates
  <2> QED
    BY <1>29, <1>host, <1>pool, <1>servq, <1>net, <1>task, <2>1 DEF TypeOK, LeaveIndicate
<1>30. CASE \E a \in Acs : FlushQueue(a)
  <2>0. PICK a \in Acs : FlushQueue(a)
    BY <1>30
  <2>1. (pool \in PoolStates)'
    BY <2>0, <1>pool, <1>servq DEF FlushQueue, ServqStates, PoolStates
  <2>2. (servq \in [Acs -> ServqStates])'
    BY <2>0, <1>servq, QueueInv DEF FlushQueue, QueueInv, ServqStates
  <2>3. (net \in [Acs -> NetStates])'
    <3>1. CASE PktComplete(a)
      BY <2>0, <3>1, <1>net DEF PktComplete, NetStates
    <3>2. CASE net' = net
      BY <2>0, <3>2, <1>net DEF PktComplete, NetStates
    <3> QED
      BY <2>0, <3>1, <3>2 DEF FlushQueue
  <2> QED
    BY <2>0, <1>host, <1>task, <1>env, <2>1, <2>2, <2>3 DEF TypeOK, FlushQueue
<1>31. CASE UNCHANGED vars
  BY <1>31 DEF TypeOK, vars
<1> QED
  BY <1>1, <1>2, <1>3, <1>4, <1>5, <1>6, <1>7, <1>8, <1>9, <1>10, <1>11, <1>12, <1>13, <1>14, <1>15, <1>16, <1>17, <1>18, <1>19, <1>20, <1>21, <1>22, <1>23, <1>24, <1>25, <1>26, <1>27, <1>28, <1>29, <1>30, <1>31 DEF Next, Sender, Tasklet, Flush

\* The counters of a queue.
LEMMA QueueInvStep == TypeOK /\ TaskInv /\ QueueInv /\ [Next]_vars => QueueInv'
<1> SUFFICES ASSUME TypeOK, TaskInv, QueueInv, [Next]_vars
             PROVE  QueueInv'
  OBVIOUS
<1> USE XmitAssumption DEF TypeOK, TaskInv, QueueInv, InTask, HostStates, PoolStates, ServqStates, NetStates, TaskStates, EnvStates
<1>1. CASE \E a \in Acs : Entry(a)
  BY <1>1 DEF Entry
<1>2. CASE \E a \in Acs : CheckResource(a)
  BY <1>2 DEF CheckResource, HostAt
<1>3. CASE \E a \in Acs : AllocFrame(a)
  BY <1>3 DEF AllocFrame, HostAt, PktRefused
<1>4. CASE \E a \in Acs : UpdateAttrib(a)
  BY <1>4 DEF UpdateAttrib, HostAt, PktRefused
<1>5. CASE \E a \in Acs : PreEnqueue(a)
  <2>0. PICK a \in Acs : PreEnqueue(a)
    BY <1>5
  <2>1. CASE servq' = [servq EXCEPT ![a] = Enqueued(a)]
    BY <2>0, <2>1 DEF Enqueued
  <2>2. CASE servq' = servq
    BY <2>0, <2>2
  <2> QED
    BY <2>0, <2>1, <2>2 DEF PreEnqueue
<1>6. CASE \E a \in Acs : PreDirect(a)
  BY <1>6 DEF PreDirect, HostAt, MustEnqueue
<1>7. CASE \E a \in Acs : XmitDirect(a)
  BY <1>7 DEF XmitDirect
<1>8. CASE \E a \in Acs : XmitDirectFails(a)
  BY <1>8 DEF XmitDirectFails, HostAt, PktComplete
<1>9. CASE \E a \in Acs : XmitSent(a)
  BY <1>9 DEF XmitSent, HostAt, PktComplete
<1>10. CASE TaskRun
  BY <1>10 DEF TaskRun
<1>11. CASE TaskTop
  BY <1>11 DEF TaskTop, TaskAt
<1>12. CASE TaskNone
  BY <1>12 DEF TaskNone, TaskAt
<1>13. CASE TaskRelease
  BY <1>13 DEF TaskRelease, TaskAt
<1>14. CASE \E a \in Acs : TaskFirst(a)
  BY <1>14 DEF TaskFirst, Shortened, IsFirst
<1>15. CASE TaskCoalesce
  BY <1>15 DEF TaskCoalesce, TaskAt, PktComplete
<1>16. CASE TaskCoalesceFails
  BY <1>16 DEF TaskCoalesceFails, TaskLets, PktComplete
<1>17. CASE TaskAggregate
  BY <1>17 DEF TaskAggregate, TaskAt, PktComplete, Shortened
<1>18. CASE TaskSubmit
  BY <1>18 DEF TaskSubmit, TaskLets, WritePort
<1>19. CASE UrbDone
  BY <1>19 DEF UrbDone
<1>20. CASE UrbSchedules
  BY <1>20 DEF UrbSchedules, Schedule
<1>21. CASE BusyBegin
  BY <1>21 DEF BusyBegin
<1>22. CASE BusyEnd
  BY <1>22 DEF BusyEnd
<1>23. CASE BusyTimesOut
  BY <1>23 DEF BusyTimesOut
<1>24. CASE XmitSchedule
  BY <1>24 DEF XmitSchedule, Schedule
<1>25. CASE Join
  BY <1>25 DEF Join
<1>26. CASE LeaveUnlink
  BY <1>26 DEF LeaveUnlink
<1>27. CASE LeaveLock
  BY <1>27 DEF LeaveLock
<1>28. CASE LeaveUnlock
  BY <1>28 DEF LeaveUnlock
<1>29. CASE LeaveIndicate
  BY <1>29 DEF LeaveIndicate
<1>30. CASE \E a \in Acs : FlushQueue(a)
  BY <1>30 DEF FlushQueue, PktComplete
<1>31. CASE UNCHANGED vars
  BY <1>31 DEF vars
<1> QED
  BY <1>1, <1>2, <1>3, <1>4, <1>5, <1>6, <1>7, <1>8, <1>9, <1>10, <1>11, <1>12, <1>13, <1>14, <1>15, <1>16, <1>17, <1>18, <1>19, <1>20, <1>21, <1>22, <1>23, <1>24, <1>25, <1>26, <1>27, <1>28, <1>29, <1>30, <1>31 DEF Next, Sender, Tasklet, Flush

\* The tasklet's category.
LEMMA TaskInvStep == TypeOK /\ TaskInv /\ [Next]_vars => TaskInv'
<1> SUFFICES ASSUME TypeOK, TaskInv, [Next]_vars
             PROVE  TaskInv'
  OBVIOUS
<1> USE XmitAssumption DEF TypeOK, TaskInv, InTask, HostStates, PoolStates, ServqStates, NetStates, TaskStates, EnvStates
<1>1. CASE \E a \in Acs : Entry(a)
  BY <1>1 DEF Entry
<1>2. CASE \E a \in Acs : CheckResource(a)
  BY <1>2 DEF CheckResource, HostAt
<1>3. CASE \E a \in Acs : AllocFrame(a)
  BY <1>3 DEF AllocFrame, HostAt, PktRefused
<1>4. CASE \E a \in Acs : UpdateAttrib(a)
  BY <1>4 DEF UpdateAttrib, HostAt, PktRefused
<1>5. CASE \E a \in Acs : PreEnqueue(a)
  BY <1>5 DEF PreEnqueue, HostAt, PktComplete, Enqueued, MustEnqueue
<1>6. CASE \E a \in Acs : PreDirect(a)
  BY <1>6 DEF PreDirect, HostAt, MustEnqueue
<1>7. CASE \E a \in Acs : XmitDirect(a)
  BY <1>7 DEF XmitDirect, HostAt, WritePort
<1>8. CASE \E a \in Acs : XmitDirectFails(a)
  BY <1>8 DEF XmitDirectFails, HostAt, PktComplete
<1>9. CASE \E a \in Acs : XmitSent(a)
  BY <1>9 DEF XmitSent, HostAt, PktComplete
<1>10. CASE TaskRun
  BY <1>10 DEF TaskRun
<1>11. CASE TaskTop
  BY <1>11 DEF TaskTop, TaskAt
<1>12. CASE TaskNone
  BY <1>12 DEF TaskNone, TaskAt
<1>13. CASE TaskRelease
  BY <1>13 DEF TaskRelease, TaskAt
<1>14. CASE \E a \in Acs : TaskFirst(a)
  BY <1>14 DEF TaskFirst, Shortened, IsFirst
<1>15. CASE TaskCoalesce
  BY <1>15 DEF TaskCoalesce, TaskAt, PktComplete
<1>16. CASE TaskCoalesceFails
  BY <1>16 DEF TaskCoalesceFails, TaskLets, PktComplete
<1>17. CASE TaskAggregate
  BY <1>17 DEF TaskAggregate, TaskAt, PktComplete, Shortened
<1>18. CASE TaskSubmit
  BY <1>18 DEF TaskSubmit, TaskLets, WritePort
<1>19. CASE UrbDone
  BY <1>19 DEF UrbDone
<1>20. CASE UrbSchedules
  BY <1>20 DEF UrbSchedules, Schedule
<1>21. CASE BusyBegin
  BY <1>21 DEF BusyBegin
<1>22. CASE BusyEnd
  BY <1>22 DEF BusyEnd
<1>23. CASE BusyTimesOut
  BY <1>23 DEF BusyTimesOut
<1>24. CASE XmitSchedule
  BY <1>24 DEF XmitSchedule, Schedule
<1>25. CASE Join
  BY <1>25 DEF Join
<1>26. CASE LeaveUnlink
  BY <1>26 DEF LeaveUnlink
<1>27. CASE LeaveLock
  BY <1>27 DEF LeaveLock
<1>28. CASE LeaveUnlock
  BY <1>28 DEF LeaveUnlock
<1>29. CASE LeaveIndicate
  BY <1>29 DEF LeaveIndicate
<1>30. CASE \E a \in Acs : FlushQueue(a)
  BY <1>30 DEF FlushQueue, PktComplete
<1>31. CASE UNCHANGED vars
  BY <1>31 DEF vars
<1> QED
  BY <1>1, <1>2, <1>3, <1>4, <1>5, <1>6, <1>7, <1>8, <1>9, <1>10, <1>11, <1>12, <1>13, <1>14, <1>15, <1>16, <1>17, <1>18, <1>19, <1>20, <1>21, <1>22, <1>23, <1>24, <1>25, <1>26, <1>27, <1>28, <1>29, <1>30, <1>31 DEF Next, Sender, Tasklet, Flush

\* Empty queues of a station that is gone.
LEMMA FlushedInvStep == TypeOK /\ TaskInv /\ FlushedInv /\ [Next]_vars => FlushedInv'
<1> SUFFICES ASSUME TypeOK, TaskInv, FlushedInv, [Next]_vars
             PROVE  FlushedInv'
  OBVIOUS
<1> USE XmitAssumption DEF TypeOK, TaskInv, FlushedInv, InTask, HostStates, PoolStates, ServqStates, NetStates, TaskStates, EnvStates
<1>1. CASE \E a \in Acs : Entry(a)
  BY <1>1 DEF Entry
<1>2. CASE \E a \in Acs : CheckResource(a)
  BY <1>2 DEF CheckResource, HostAt
<1>3. CASE \E a \in Acs : AllocFrame(a)
  BY <1>3 DEF AllocFrame, HostAt, PktRefused
<1>4. CASE \E a \in Acs : UpdateAttrib(a)
  BY <1>4 DEF UpdateAttrib, HostAt, PktRefused
<1>5. CASE \E a \in Acs : PreEnqueue(a)
  BY <1>5 DEF PreEnqueue, HostAt, PktComplete, Enqueued, MustEnqueue
<1>6. CASE \E a \in Acs : PreDirect(a)
  BY <1>6 DEF PreDirect, HostAt, MustEnqueue
<1>7. CASE \E a \in Acs : XmitDirect(a)
  BY <1>7 DEF XmitDirect, HostAt, WritePort
<1>8. CASE \E a \in Acs : XmitDirectFails(a)
  BY <1>8 DEF XmitDirectFails, HostAt, PktComplete
<1>9. CASE \E a \in Acs : XmitSent(a)
  BY <1>9 DEF XmitSent, HostAt, PktComplete
<1>10. CASE TaskRun
  BY <1>10 DEF TaskRun
<1>11. CASE TaskTop
  BY <1>11 DEF TaskTop, TaskAt
<1>12. CASE TaskNone
  BY <1>12 DEF TaskNone, TaskAt
<1>13. CASE TaskRelease
  BY <1>13 DEF TaskRelease, TaskAt
<1>14. CASE \E a \in Acs : TaskFirst(a)
  BY <1>14 DEF TaskFirst, Shortened, IsFirst
<1>15. CASE TaskCoalesce
  BY <1>15 DEF TaskCoalesce, TaskAt, PktComplete
<1>16. CASE TaskCoalesceFails
  BY <1>16 DEF TaskCoalesceFails, TaskLets, PktComplete
<1>17. CASE TaskAggregate
  BY <1>17 DEF TaskAggregate, TaskAt, PktComplete, Shortened
<1>18. CASE TaskSubmit
  BY <1>18 DEF TaskSubmit, TaskLets, WritePort
<1>19. CASE UrbDone
  BY <1>19 DEF UrbDone
<1>20. CASE UrbSchedules
  BY <1>20 DEF UrbSchedules, Schedule
<1>21. CASE BusyBegin
  BY <1>21 DEF BusyBegin
<1>22. CASE BusyEnd
  BY <1>22 DEF BusyEnd
<1>23. CASE BusyTimesOut
  BY <1>23 DEF BusyTimesOut
<1>24. CASE XmitSchedule
  BY <1>24 DEF XmitSchedule, Schedule
<1>25. CASE Join
  BY <1>25 DEF Join
<1>26. CASE LeaveUnlink
  BY <1>26 DEF LeaveUnlink
<1>27. CASE LeaveLock
  BY <1>27 DEF LeaveLock
<1>28. CASE LeaveUnlock
  BY <1>28 DEF LeaveUnlock
<1>29. CASE LeaveIndicate
  BY <1>29 DEF LeaveIndicate
<1>30. CASE \E a \in Acs : FlushQueue(a)
  BY <1>30 DEF FlushQueue, PktComplete
<1>31. CASE UNCHANGED vars
  BY <1>31 DEF vars
<1> QED
  BY <1>1, <1>2, <1>3, <1>4, <1>5, <1>6, <1>7, <1>8, <1>9, <1>10, <1>11, <1>12, <1>13, <1>14, <1>15, <1>16, <1>17, <1>18, <1>19, <1>20, <1>21, <1>22, <1>23, <1>24, <1>25, <1>26, <1>27, <1>28, <1>29, <1>30, <1>31 DEF Next, Sender, Tasklet, Flush

-----------------------------------------------------------------------------
(* Types, and the contract.                                                  *)

XmitInv == TypeOK /\ QueueInv /\ TaskInv /\ FlushedInv

LEMMA XmitInit == Init => XmitInv
  BY XmitAssumption
  DEF Init, XmitInv, TypeOK, QueueInv, TaskInv, FlushedInv, InTask, HostStates, HostPcs,
      PoolStates, ServqStates, NetStates, TaskStates, TaskPcs, EnvStates

LEMMA XmitStep == XmitInv /\ [Next]_vars => XmitInv'
  BY TypeOKStep, QueueInvStep, TaskInvStep, FlushedInvStep DEF XmitInv

LEMMA XmitAlways == Spec => []XmitInv
  BY XmitInit, XmitStep, PTL DEF Spec

\* Every variable has its type: no free list, no queue and no count of URBs ever
\* falls below empty.
THEOREM XmitTypeCorrect == Spec => []TypeOK
<1>1. XmitInv => TypeOK
  BY DEF XmitInv
<1> QED
  BY <1>1, XmitAlways, PTL

-----------------------------------------------------------------------------
(* The contract: how the actions change what is owed and what is stopped.    *)

\* Nothing the contract speaks of changes.
Quiet == (\A b \in Acs : Owed(b)' = Owed(b)) /\ net' = net
OwedOf(a, o) == Owed(a)' = o /\ \A b \in Acs \ {a} : Owed(b)' = Owed(b)

LEMMA OwedType == ASSUME TypeOK, NEW a \in Acs PROVE Owed(a) \in Nat
  BY DEF TypeOK, ServqStates, Owed

LEMMA QuietIsStutter == Quiet => UNCHANGED Contract!vars
  BY DEF Quiet, Contract!vars

LEMMA MapsToTake ==
    ASSUME TypeOK, NEW a \in Acs, ~net[a].stopped, net' = net, OwedOf(a, Owed(a) + 1)
    PROVE  Contract!Take(a)
  BY DEF OwedOf, Contract!Take

LEMMA MapsToStop ==
    ASSUME TypeOK, NEW a \in Acs, Owed(a) > 0, OwedOf(a, Owed(a)),
           net' = [net EXCEPT ![a].stopped = TRUE]
    PROVE  Contract!Stop(a)
  BY DEF OwedOf, Contract!Stop, TypeOK, NetStates

LEMMA MapsToGiveBack ==
    ASSUME TypeOK, NEW a \in Acs, NEW n \in Nat \ {0}, n \leq Owed(a),
           OwedOf(a, Owed(a) - n), PktComplete(a)
    PROVE  Contract!GiveBack(a)
<1>1. n \in 1 .. Owed(a)
  BY OwedType
<1>2. [b \in Acs |-> Owed(b)]' = [[b \in Acs |-> Owed(b)] EXCEPT ![a] = @ - n]
  BY DEF OwedOf
<1>3. [b \in Acs |-> net[b].stopped]' = [[b \in Acs |-> net[b].stopped] EXCEPT ![a] = FALSE]
  BY DEF PktComplete, TypeOK, NetStates
<1>4. [b \in Acs |-> net[b].refused]' = [[b \in Acs |-> net[b].refused] EXCEPT ![a] = FALSE]
  BY DEF PktComplete, TypeOK, NetStates
<1> QED
  BY <1>1, <1>2, <1>3, <1>4 DEF Contract!GiveBack

LEMMA MapsToRefuse ==
    ASSUME TypeOK, NEW a \in Acs, Owed(a) > 0, OwedOf(a, Owed(a) - 1), PktRefused(a)
    PROVE  Contract!Refuse(a)
<1>1. [b \in Acs |-> Owed(b)]' = [[b \in Acs |-> Owed(b)] EXCEPT ![a] = @ - 1]
  BY DEF OwedOf
<1>2. [b \in Acs |-> net[b].stopped]' = [b \in Acs |-> net[b].stopped]
  BY DEF PktRefused, TypeOK, NetStates
<1>3. [b \in Acs |-> net[b].refused]'
        = [[b \in Acs |-> net[b].refused] EXCEPT ![a] = @ \/ net[a].stopped]
  BY DEF PktRefused, TypeOK, NetStates
<1> QED
  BY <1>1, <1>2, <1>3 DEF Contract!Refuse

\* Each action does one step of the contract, or none it speaks of.
LEMMA ContractStep ==
    TypeOK /\ TaskInv /\ [Next]_vars => [Contract!Next]_(Contract!vars)
<1> SUFFICES ASSUME TypeOK, TaskInv, [Next]_vars
             PROVE  Contract!Next \/ UNCHANGED Contract!vars
  OBVIOUS
<1>1. CASE \E a \in Acs : Entry(a)
  <2>0. PICK a \in Acs : Entry(a)
    BY <1>1
  <2>1. OwedOf(a, Owed(a) + 1)
    BY <2>0 DEF Entry, OwedOf, Owed, TypeOK, InTask, HostStates, ServqStates, TaskStates
  <2>2. Contract!Take(a)
    BY <2>0, <2>1, MapsToTake DEF Entry
  <2> QED
    BY <2>2 DEF Contract!Next
<1>2. CASE \E a \in Acs : CheckResource(a)
  <2>0. PICK a \in Acs : CheckResource(a)
    BY <1>2
  <2>1. OwedOf(a, Owed(a)) /\ Owed(a) > 0
    BY <2>0 DEF CheckResource, HostAt, OwedOf, Owed, TypeOK, InTask, HostStates, ServqStates, TaskStates
  <2>2. CASE host[a].low
    <3>1. net' = [net EXCEPT ![a].stopped = TRUE]
      BY <2>0, <2>2 DEF CheckResource, TypeOK, HostStates, NetStates
    <3>2. Contract!Stop(a)
      BY <2>1, <3>1, MapsToStop
    <3> QED
      BY <3>2 DEF Contract!Next
  <2>3. CASE ~host[a].low
    <3>1. net' = net
      BY <2>0, <2>3 DEF CheckResource, TypeOK, HostStates, NetStates
    <3> QED
      BY <2>1, <3>1, QuietIsStutter DEF Quiet, OwedOf
  <2> QED
    BY <2>2, <2>3
<1>3. CASE \E a \in Acs : AllocFrame(a)
  <2>0. PICK a \in Acs : AllocFrame(a)
    BY <1>3
  <2>1. CASE HostAt(a, "attrib") /\ net' = net
    <3>1. Quiet
      BY <2>0, <2>1 DEF AllocFrame, HostAt, Quiet, Owed, TypeOK, InTask, HostStates, ServqStates, TaskStates
    <3> QED
      BY <3>1, QuietIsStutter
  <2>2. CASE HostAt(a, "idle") /\ PktRefused(a)
    <3>1. OwedOf(a, Owed(a) - 1) /\ Owed(a) > 0
      BY <2>0, <2>2 DEF AllocFrame, HostAt, OwedOf, Owed, TypeOK, InTask, HostStates, ServqStates, TaskStates
    <3>2. Contract!Refuse(a)
      BY <2>2, <3>1, MapsToRefuse
    <3> QED
      BY <3>2 DEF Contract!Next
  <2> QED
    BY <2>0, <2>1, <2>2 DEF AllocFrame
<1>4. CASE \E a \in Acs : UpdateAttrib(a)
  <2>0. PICK a \in Acs : UpdateAttrib(a)
    BY <1>4
  <2>1. CASE HostAt(a, "pre") /\ net' = net
    <3>1. Quiet
      BY <2>0, <2>1 DEF UpdateAttrib, HostAt, Quiet, Owed, TypeOK, InTask, HostStates, ServqStates, TaskStates
    <3> QED
      BY <3>1, QuietIsStutter
  <2>2. CASE HostAt(a, "idle") /\ PktRefused(a)
    <3>1. OwedOf(a, Owed(a) - 1) /\ Owed(a) > 0
      BY <2>0, <2>2 DEF UpdateAttrib, HostAt, OwedOf, Owed, TypeOK, InTask, HostStates, ServqStates, TaskStates
    <3>2. Contract!Refuse(a)
      BY <2>2, <3>1, MapsToRefuse
    <3> QED
      BY <3>2 DEF Contract!Next
  <2> QED
    BY <2>0, <2>1, <2>2 DEF UpdateAttrib
<1>5. CASE \E a \in Acs : PreEnqueue(a)
  <2>0. PICK a \in Acs : PreEnqueue(a)
    BY <1>5
  <2>1. CASE env.sta = "linked" /\ servq' = [servq EXCEPT ![a] = Enqueued(a)] /\ net' = net
    <3>1. Quiet
      BY <2>0, <2>1 DEF PreEnqueue, HostAt, Enqueued, Quiet, Owed, TypeOK, InTask, HostStates, ServqStates, TaskStates
    <3> QED
      BY <3>1, QuietIsStutter
  <2>2. CASE PktComplete(a) /\ servq' = servq
    <3>1. OwedOf(a, Owed(a) - 1) /\ 1 \leq Owed(a)
      BY <2>0, <2>2 DEF PreEnqueue, HostAt, OwedOf, Owed, TypeOK, InTask, HostStates, ServqStates, TaskStates
    <3>2. Contract!GiveBack(a)
      BY <2>2, <3>1, MapsToGiveBack
    <3> QED
      BY <3>2 DEF Contract!Next
  <2> QED
    BY <2>0, <2>1, <2>2 DEF PreEnqueue
<1>6. CASE \E a \in Acs : PreDirect(a)
  <2>1. Quiet
    BY <1>6 DEF PreDirect, HostAt, Quiet, Owed, TypeOK, InTask, HostStates, ServqStates, TaskStates
  <2> QED
    BY <2>1, QuietIsStutter
<1>7. CASE \E a \in Acs : XmitDirect(a)
  <2>1. Quiet
    BY <1>7 DEF XmitDirect, HostAt, Quiet, Owed, TypeOK, InTask, HostStates, ServqStates, TaskStates
  <2> QED
    BY <2>1, QuietIsStutter
<1>8. CASE \E a \in Acs : XmitDirectFails(a)
  <2>0. PICK a \in Acs : XmitDirectFails(a)
    BY <1>8
  <2>1. OwedOf(a, Owed(a) - 1) /\ 1 \leq Owed(a)
    BY <2>0 DEF XmitDirectFails, HostAt, OwedOf, Owed, TypeOK, InTask, HostStates, ServqStates, TaskStates
  <2>2. Contract!GiveBack(a)
    BY <2>0, <2>1, MapsToGiveBack DEF XmitDirectFails
  <2> QED
    BY <2>2 DEF Contract!Next
<1>9. CASE \E a \in Acs : XmitSent(a)
  <2>0. PICK a \in Acs : XmitSent(a)
    BY <1>9
  <2>1. OwedOf(a, Owed(a) - 1) /\ 1 \leq Owed(a)
    BY <2>0 DEF XmitSent, HostAt, OwedOf, Owed, TypeOK, InTask, HostStates, ServqStates, TaskStates
  <2>2. Contract!GiveBack(a)
    BY <2>0, <2>1, MapsToGiveBack DEF XmitSent
  <2> QED
    BY <2>2 DEF Contract!Next
<1>10. CASE TaskRun
  <2>1. Quiet
    BY <1>10 DEF TaskRun, Quiet, Owed, TypeOK, InTask, HostStates, ServqStates, TaskStates
  <2> QED
    BY <2>1, QuietIsStutter
<1>11. CASE TaskTop
  <2>1. Quiet
    BY <1>11 DEF TaskTop, TaskAt, Quiet, Owed, TypeOK, InTask, HostStates, ServqStates, TaskStates
  <2> QED
    BY <2>1, QuietIsStutter
<1>12. CASE TaskNone
  <2>1. Quiet
    BY <1>12 DEF TaskNone, TaskAt, Quiet, Owed, TypeOK, InTask, HostStates, ServqStates, TaskStates
  <2> QED
    BY <2>1, QuietIsStutter
<1>13. CASE TaskRelease
  <2>1. Quiet
    BY <1>13 DEF TaskRelease, TaskAt, Quiet, Owed, TypeOK, InTask, HostStates, ServqStates, TaskStates
  <2> QED
    BY <2>1, QuietIsStutter
<1>14. CASE \E a \in Acs : TaskFirst(a)
  <2>1. Quiet
    BY <1>14 DEF TaskFirst, Shortened, Quiet, Owed, TypeOK, InTask, HostStates, ServqStates, TaskStates
  <2> QED
    BY <2>1, QuietIsStutter
<1>15. CASE TaskCoalesce
  <2>0. PICK a \in Acs : a = task.ac
    BY <1>15 DEF TaskCoalesce, TaskInv, InTask
  <2>a. task.pc = "coalesce" /\ task'.pc # "coalesce" /\ host' = host /\ servq' = servq
    BY <1>15 DEF TaskCoalesce, TaskAt, TypeOK, TaskStates
  <2>b. servq[a].len \in Nat
    BY DEF TypeOK, ServqStates
  <2>1. OwedOf(a, Owed(a) - 1) /\ 1 \leq Owed(a)
    BY <2>0, <2>a, <2>b DEF OwedOf, Owed
  <2>2. PktComplete(a)
    BY <1>15, <2>0 DEF TaskCoalesce, PktComplete
  <2>3. Contract!GiveBack(a)
    BY <2>1, <2>2, MapsToGiveBack
  <2> QED
    BY <2>3 DEF Contract!Next
<1>16. CASE TaskCoalesceFails
  <2>0. PICK a \in Acs : a = task.ac
    BY <1>16 DEF TaskCoalesceFails, TaskInv, InTask
  <2>a. task.pc = "coalesce" /\ task'.pc # "coalesce" /\ host' = host /\ servq' = servq
    BY <1>16 DEF TaskCoalesceFails, TaskLets, TypeOK, TaskStates
  <2>b. servq[a].len \in Nat
    BY DEF TypeOK, ServqStates
  <2>1. OwedOf(a, Owed(a) - 1) /\ 1 \leq Owed(a)
    BY <2>0, <2>a, <2>b DEF OwedOf, Owed
  <2>2. PktComplete(a)
    BY <1>16, <2>0 DEF TaskCoalesceFails, PktComplete
  <2>3. Contract!GiveBack(a)
    BY <2>1, <2>2, MapsToGiveBack
  <2> QED
    BY <2>3 DEF Contract!Next
<1>17. CASE TaskAggregate
  <2>0. PICK a \in Acs : a = task.ac
    BY <1>17 DEF TaskAggregate, TaskInv, InTask
  <2>1. PICK n \in 0 .. servq[a].len :
          /\ servq' = [servq EXCEPT ![a] = Shortened(a, n)]
          /\ IF n > 0 THEN PktComplete(a) ELSE UNCHANGED net
    BY <1>17, <2>0 DEF TaskAggregate, PktComplete, Shortened
  <2>2. OwedOf(a, Owed(a) - n) /\ n \leq Owed(a) /\ n \in Nat
    BY <1>17, <2>0, <2>1 DEF TaskAggregate, TaskAt, Shortened, OwedOf, Owed, TypeOK, InTask, HostStates, ServqStates, TaskStates
  <2>3. CASE n > 0
    <3>1. PktComplete(a) /\ n \in Nat \ {0}
      BY <2>1, <2>2, <2>3
    <3>2. Contract!GiveBack(a)
      BY <2>2, <3>1, MapsToGiveBack
    <3> QED
      BY <3>2 DEF Contract!Next
  <2>4. CASE n = 0
    <3>1. Quiet
      BY <2>1, <2>2, <2>4, OwedType DEF Quiet, OwedOf
    <3> QED
      BY <3>1, QuietIsStutter
  <2> QED
    BY <2>2, <2>3, <2>4
<1>18. CASE TaskSubmit
  <2>1. Quiet
    BY <1>18 DEF TaskSubmit, TaskLets, Quiet, Owed, TypeOK, InTask, HostStates, ServqStates, TaskStates
  <2> QED
    BY <2>1, QuietIsStutter
<1>19. CASE UrbDone
  <2>1. Quiet
    BY <1>19 DEF UrbDone, Quiet, Owed
  <2> QED
    BY <2>1, QuietIsStutter
<1>20. CASE UrbSchedules
  <2>1. Quiet
    BY <1>20 DEF UrbSchedules, Schedule, Quiet, Owed, TypeOK, InTask, HostStates, ServqStates, TaskStates
  <2> QED
    BY <2>1, QuietIsStutter
<1>21. CASE BusyBegin
  <2>1. Quiet
    BY <1>21 DEF BusyBegin, Quiet, Owed
  <2> QED
    BY <2>1, QuietIsStutter
<1>22. CASE BusyEnd
  <2>1. Quiet
    BY <1>22 DEF BusyEnd, Quiet, Owed
  <2> QED
    BY <2>1, QuietIsStutter
<1>23. CASE BusyTimesOut
  <2>1. Quiet
    BY <1>23 DEF BusyTimesOut, Quiet, Owed
  <2> QED
    BY <2>1, QuietIsStutter
<1>24. CASE XmitSchedule
  <2>1. Quiet
    BY <1>24 DEF XmitSchedule, Schedule, Quiet, Owed, TypeOK, InTask, HostStates, ServqStates, TaskStates
  <2> QED
    BY <2>1, QuietIsStutter
<1>25. CASE Join
  <2>1. Quiet
    BY <1>25 DEF Join, Quiet, Owed
  <2> QED
    BY <2>1, QuietIsStutter
<1>26. CASE LeaveUnlink
  <2>1. Quiet
    BY <1>26 DEF LeaveUnlink, Quiet, Owed
  <2> QED
    BY <2>1, QuietIsStutter
<1>27. CASE LeaveLock
  <2>1. Quiet
    BY <1>27 DEF LeaveLock, Quiet, Owed
  <2> QED
    BY <2>1, QuietIsStutter
<1>28. CASE LeaveUnlock
  <2>1. Quiet
    BY <1>28 DEF LeaveUnlock, Quiet, Owed
  <2> QED
    BY <2>1, QuietIsStutter
<1>29. CASE LeaveIndicate
  <2>1. Quiet
    BY <1>29 DEF LeaveIndicate, Quiet, Owed
  <2> QED
    BY <2>1, QuietIsStutter
<1>30. CASE \E a \in Acs : FlushQueue(a)
  <2>0. PICK a \in Acs : FlushQueue(a)
    BY <1>30
  <2>1. OwedOf(a, Owed(a) - servq[a].len) /\ servq[a].len \leq Owed(a) /\ servq[a].len \in Nat
    BY <2>0 DEF FlushQueue, OwedOf, Owed, TypeOK, InTask, HostStates, ServqStates, TaskStates
  <2>2. CASE servq[a].len > 0
    <3>1. Contract!GiveBack(a)
      BY <2>0, <2>1, <2>2, MapsToGiveBack DEF FlushQueue
    <3> QED
      BY <3>1 DEF Contract!Next
  <2>3. CASE ~(servq[a].len > 0)
    <3>1. Quiet
      BY <2>0, <2>1, <2>3, OwedType DEF FlushQueue, Quiet, OwedOf
    <3> QED
      BY <3>1, QuietIsStutter
  <2> QED
    BY <2>2, <2>3
<1>31. CASE UNCHANGED vars
  BY <1>31 DEF vars, Contract!vars, Owed
<1> QED
  BY <1>1, <1>2, <1>3, <1>4, <1>5, <1>6, <1>7, <1>8, <1>9, <1>10, <1>11, <1>12, <1>13, <1>14, <1>15, <1>16, <1>17, <1>18, <1>19, <1>20, <1>21, <1>22, <1>23, <1>24, <1>25, <1>26, <1>27, <1>28, <1>29, <1>30, <1>31 DEF Next, Sender, Tasklet, Flush

\* The transmit path implements TxContract, for any number of frames, buffers and
\* senders and whatever fails: it takes packets only from open subqueues, stops
\* one only while it owes a packet of it, and gives each packet back once.
THEOREM XmitKeepsContract == Spec => KeepsContract
<1>1. Init => Contract!Init
  BY DEF Init, Contract!Init, Owed
<1>2. XmitInv /\ [Next]_vars => [Contract!Next]_(Contract!vars)
  BY ContractStep DEF XmitInv
<1> QED
  BY <1>1, <1>2, XmitAlways, PTL DEF Spec, KeepsContract, Contract!Spec

LEMMA StoppedIsOwedStep ==
    TypeOK /\ Contract!StoppedIsOwed /\ [Contract!Next]_(Contract!vars)
        => Contract!StoppedIsOwed'
<1> SUFFICES ASSUME TypeOK, Contract!StoppedIsOwed, [Contract!Next]_(Contract!vars),
                    NEW b \in Acs,
                    [a \in Acs |-> net[a].stopped]'[b], ~[a \in Acs |-> net[a].refused]'[b]
             PROVE  [a \in Acs |-> Owed(a)]'[b] > 0
  BY DEF Contract!StoppedIsOwed
<1> DEFINE owed == [a \in Acs |-> Owed(a)]
           stopped == [a \in Acs |-> net[a].stopped]
           refused == [a \in Acs |-> net[a].refused]
<1>o. owed[b] \in Nat /\ (stopped[b] /\ ~refused[b] => owed[b] > 0)
  BY OwedType DEF Contract!StoppedIsOwed
<1>1. CASE \E a \in Acs : Contract!Take(a)
  BY <1>o, <1>1 DEF Contract!Take
<1>2. CASE \E a \in Acs : Contract!Stop(a)
  BY <1>o, <1>2 DEF Contract!Stop
<1>3. CASE \E a \in Acs : Contract!GiveBack(a)
  BY <1>o, <1>3 DEF Contract!GiveBack
<1>4. CASE \E a \in Acs : Contract!Refuse(a)
  BY <1>o, <1>4 DEF Contract!Refuse
<1>5. CASE UNCHANGED Contract!vars
  BY <1>o, <1>5 DEF Contract!vars
<1> QED
  BY <1>1, <1>2, <1>3, <1>4, <1>5 DEF Contract!Next

\* A subqueue is never left stopped with nobody to wake it, but for one stopped for
\* a packet that was refused: the driver owes a packet whose return wakes it.
THEOREM XmitStoppedIsOwed == Spec => []Contract!StoppedIsOwed
<1>1. Init => Contract!StoppedIsOwed
  BY DEF Init, Contract!StoppedIsOwed
<1>2. XmitInv /\ Contract!StoppedIsOwed /\ [Next]_vars => Contract!StoppedIsOwed'
  BY ContractStep, StoppedIsOwedStep DEF XmitInv
<1> QED
  BY <1>1, <1>2, XmitAlways, PTL DEF Spec

-----------------------------------------------------------------------------
(* The buffers: who has each of them.                                        *)

Inside == {a \in Acs : host[a].pc # "idle"}
Direct == {a \in Acs : host[a].pc = "direct"}
Held == IF InTask \/ task.pc \in {"first", "release"} THEN 1 ELSE 0

\* Every buffer is free, in an URB, with a sender or with the tasklet.
BufInv ==
    /\ pool.bufs + pool.air + Cardinality(Direct) + Held = NBuf
    /\ Cardinality(Inside) \leq Senders

LEMMA AcsSubset ==
    ASSUME NEW S \in SUBSET Acs
    PROVE  IsFiniteSet(S) /\ Cardinality(S) \in Nat
  BY XmitAssumption, FS_Subset, FS_CardinalityType

LEMMA AcsAdd ==
    ASSUME NEW S \in SUBSET Acs, NEW a \in Acs, a \notin S
    PROVE  Cardinality(S \cup {a}) = Cardinality(S) + 1
  BY AcsSubset, FS_AddElement

LEMMA AcsRemove ==
    ASSUME NEW S \in SUBSET Acs, NEW a \in S
    PROVE  Cardinality(S \ {a}) = Cardinality(S) - 1
  BY AcsSubset, FS_RemoveElement

\* A step that moves no sender keeps both sets.
LEMMA SendersStay == host' = host => Direct' = Direct /\ Inside' = Inside
  BY DEF Direct, Inside

\* A sender that goes on without taking or giving a buffer.
LEMMA SenderGoesOn ==
    ASSUME TypeOK, NEW a \in Acs, NEW pc, HostAt(a, pc), pc # "direct",
           host[a].pc # "direct", host[a].pc # "idle", Cardinality(Inside) \leq Senders
    PROVE  Direct' = Direct /\ Cardinality(Inside') \leq Senders
<1>1. Direct' = Direct
  BY DEF TypeOK, Direct, HostAt
<1>2. Inside' = IF pc = "idle" THEN Inside \ {a} ELSE Inside
  BY DEF TypeOK, Inside, HostAt
<1>3. a \in Inside /\ Inside \in SUBSET Acs
  BY DEF Inside
<1>4. Cardinality(Inside') \leq Cardinality(Inside)
  BY <1>2, <1>3, AcsRemove, AcsSubset
<1>5. Cardinality(Inside) \in Nat /\ Cardinality(Inside') \in Nat
  BY <1>2, <1>3, AcsSubset
<1> QED
  BY <1>1, <1>4, <1>5, XmitAssumption

\* A sender that gives up its buffer.
LEMMA SenderLetsGo ==
    ASSUME TypeOK, NEW a \in Acs, NEW pc, HostAt(a, pc), pc # "direct",
           host[a].pc = "direct", Cardinality(Inside) \leq Senders
    PROVE  /\ Cardinality(Direct') = Cardinality(Direct) - 1
           /\ Cardinality(Inside') \leq Senders
<1>1. Direct' = Direct \ {a}
  BY DEF TypeOK, Direct, HostAt
<1>2. Inside' = IF pc = "idle" THEN Inside \ {a} ELSE Inside
  BY DEF TypeOK, Inside, HostAt
<1>3. a \in Inside /\ Inside \in SUBSET Acs /\ a \in Direct /\ Direct \in SUBSET Acs
  BY DEF Inside, Direct
<1>4. Cardinality(Inside') \leq Cardinality(Inside)
  BY <1>2, <1>3, AcsRemove, AcsSubset
<1>5. Cardinality(Inside) \in Nat /\ Cardinality(Inside') \in Nat
  BY <1>2, <1>3, AcsSubset
<1>6. Cardinality(Direct') = Cardinality(Direct) - 1
  BY <1>1, <1>3, AcsRemove
<1> QED
  BY <1>4, <1>5, <1>6, XmitAssumption

\* usb_write_port passes the buffer on or gives it back.
LEMMA WritePortBuffer ==
    ASSUME TypeOK, NEW n \in Nat, NEW strands, WritePort(n, strands)
    PROVE  /\ pool'.bufs + pool'.air = pool.bufs + pool.air + 1
           /\ pool'.bufs \in Nat /\ pool'.air \in Nat
           /\ pool'.air \geq pool.air /\ pool'.back = pool.back
<1>0. pool \in PoolStates /\ pool.bufs \in Nat /\ pool.air \in Nat
  BY DEF TypeOK, PoolStates
<1>1. CASE pool' = [pool EXCEPT !.air = @ + 1, !.frames = @ + n]
  <2>1. pool'.air = pool.air + 1 /\ pool'.bufs = pool.bufs /\ pool'.back = pool.back
    BY <1>0, <1>1 DEF PoolStates
  <2> QED
    BY <1>0, <2>1
<1>2. CASE pool' = [pool EXCEPT !.bufs = @ + 1, !.frames = @ + n]
  <2>1. pool'.air = pool.air /\ pool'.bufs = pool.bufs + 1 /\ pool'.back = pool.back
    BY <1>0, <1>2 DEF PoolStates
  <2> QED
    BY <1>0, <2>1
<1> QED
  BY <1>1, <1>2 DEF WritePort

LEMMA BufInvStep == TypeOK /\ TaskInv /\ BufInv /\ [Next]_vars => BufInv'
<1> SUFFICES ASSUME TypeOK, TaskInv, BufInv, [Next]_vars
             PROVE  BufInv'
  OBVIOUS
<1> DEFINE N == Cardinality(Direct)
<1>pool. pool.bufs \in Nat /\ pool.air \in Nat /\ pool \in PoolStates
  BY DEF TypeOK, PoolStates
<1>task. task \in TaskStates
  BY DEF TypeOK
<1>n. N \in Nat
  BY AcsSubset DEF Direct
<1>b. pool.bufs + pool.air + N + Held = NBuf /\ Cardinality(Inside) \leq Senders
  BY DEF BufInv
<1>1. CASE \E a \in Acs : Entry(a)
  <2>0. PICK a \in Acs : Entry(a)
    BY <1>1
  <2>1. Direct' = Direct /\ Inside' = Inside \cup {a} /\ a \notin Inside
    BY <2>0 DEF Entry, Direct, Inside, TypeOK
  <2>2. Inside \in SUBSET Acs
    BY DEF Inside
  <2>3. Cardinality(Inside') = Cardinality(Inside) + 1 /\ Cardinality(Inside) \in Nat
    BY <2>1, <2>2, AcsAdd, AcsSubset
  <2>4. Cardinality(Inside) < Senders
    BY <2>0 DEF Entry, Inside
  <2> QED
    BY <2>0, <2>1, <2>3, <2>4, XmitAssumption DEF Entry, BufInv, Held, InTask
<1>2. CASE \E a \in Acs : CheckResource(a)
  <2>0. PICK a \in Acs : CheckResource(a)
    BY <1>2
  <2>1. host[a].pc \notin {"direct", "idle"}
    BY <2>0 DEF CheckResource
  <2>2. PICK pc \in {"alloc"} : HostAt(a, pc)
    BY <2>0 DEF CheckResource
  <2>3. Direct' = Direct /\ Cardinality(Inside') \leq Senders
    BY <2>1, <2>2, <1>b, SenderGoesOn
  <2>4. pool'.bufs = pool.bufs /\ pool'.air = pool.air /\ task' = task
    BY <2>0, <1>pool DEF CheckResource, PoolStates
  <2> QED
    BY <2>3, <2>4, <1>b DEF BufInv, Held, InTask
<1>3. CASE \E a \in Acs : AllocFrame(a)
  <2>0. PICK a \in Acs : AllocFrame(a)
    BY <1>3
  <2>1. host[a].pc \notin {"direct", "idle"}
    BY <2>0 DEF AllocFrame
  <2>2. PICK pc \in {"attrib", "idle"} : HostAt(a, pc)
    BY <2>0 DEF AllocFrame
  <2>3. Direct' = Direct /\ Cardinality(Inside') \leq Senders
    BY <2>1, <2>2, <1>b, SenderGoesOn
  <2>4. pool'.bufs = pool.bufs /\ pool'.air = pool.air /\ task' = task
    BY <2>0, <1>pool DEF AllocFrame, PoolStates
  <2> QED
    BY <2>3, <2>4, <1>b DEF BufInv, Held, InTask
<1>4. CASE \E a \in Acs : UpdateAttrib(a)
  <2>0. PICK a \in Acs : UpdateAttrib(a)
    BY <1>4
  <2>1. host[a].pc \notin {"direct", "idle"}
    BY <2>0 DEF UpdateAttrib
  <2>2. PICK pc \in {"pre", "idle"} : HostAt(a, pc)
    BY <2>0 DEF UpdateAttrib
  <2>3. Direct' = Direct /\ Cardinality(Inside') \leq Senders
    BY <2>1, <2>2, <1>b, SenderGoesOn
  <2>4. pool'.bufs = pool.bufs /\ pool'.air = pool.air /\ task' = task
    BY <2>0, <1>pool DEF UpdateAttrib, PoolStates
  <2> QED
    BY <2>3, <2>4, <1>b DEF BufInv, Held, InTask
<1>5. CASE \E a \in Acs : PreEnqueue(a)
  <2>0. PICK a \in Acs : PreEnqueue(a)
    BY <1>5
  <2>1. host[a].pc \notin {"direct", "idle"}
    BY <2>0 DEF PreEnqueue
  <2>2. PICK pc \in {"idle"} : HostAt(a, pc)
    BY <2>0 DEF PreEnqueue
  <2>3. Direct' = Direct /\ Cardinality(Inside') \leq Senders
    BY <2>1, <2>2, <1>b, SenderGoesOn
  <2>4. pool'.bufs = pool.bufs /\ pool'.air = pool.air /\ task' = task
    BY <2>0, <1>pool DEF PreEnqueue, PoolStates
  <2> QED
    BY <2>3, <2>4, <1>b DEF BufInv, Held, InTask
<1>6. CASE \E a \in Acs : PreDirect(a)
  <2>0. PICK a \in Acs : PreDirect(a)
    BY <1>6
  <2>1. Direct' = Direct \cup {a} /\ a \notin Direct /\ Inside' = Inside
    BY <2>0 DEF PreDirect, HostAt, Direct, Inside, TypeOK
  <2>2. Direct \in SUBSET Acs
    BY DEF Direct
  <2>3. Cardinality(Direct') = N + 1
    BY <2>1, <2>2, AcsAdd
  <2>4. pool'.bufs = pool.bufs - 1 /\ pool'.air = pool.air /\ task' = task
    BY <2>0, <1>pool DEF PreDirect, PoolStates
  <2> QED
    BY <2>1, <2>3, <2>4, <1>b, <1>n, <1>pool DEF BufInv, Held, InTask
<1>7. CASE \E a \in Acs : XmitDirect(a)
  <2>0. PICK a \in Acs : XmitDirect(a)
    BY <1>7
  <2>1. host[a].pc = "direct" /\ HostAt(a, "sent") /\ task' = task
    BY <2>0 DEF XmitDirect
  <2>2. Cardinality(Direct') = N - 1 /\ Cardinality(Inside') \leq Senders
    BY <2>1, <1>b, SenderLetsGo
  <2>3. pool'.bufs + pool'.air = pool.bufs + pool.air + 1 /\ pool'.bufs \in Nat /\ pool'.air \in Nat
    BY <2>0, WritePortBuffer DEF XmitDirect
  <2> QED
    BY <2>1, <2>2, <2>3, <1>b, <1>n, <1>pool DEF BufInv, Held, InTask
<1>8. CASE \E a \in Acs : XmitDirectFails(a)
  <2>0. PICK a \in Acs : XmitDirectFails(a)
    BY <1>8
  <2>1. host[a].pc = "direct" /\ HostAt(a, "idle") /\ task' = task
    BY <2>0 DEF XmitDirectFails
  <2>2. Cardinality(Direct') = N - 1 /\ Cardinality(Inside') \leq Senders
    BY <2>1, <1>b, SenderLetsGo
  <2>3. pool'.bufs + pool'.air = pool.bufs + pool.air + 1 /\ pool'.bufs \in Nat /\ pool'.air \in Nat
    BY <2>0, <1>pool DEF XmitDirectFails, WritePort, PoolStates
  <2> QED
    BY <2>1, <2>2, <2>3, <1>b, <1>n, <1>pool DEF BufInv, Held, InTask
<1>9. CASE \E a \in Acs : XmitSent(a)
  <2>0. PICK a \in Acs : XmitSent(a)
    BY <1>9
  <2>1. host[a].pc \notin {"direct", "idle"}
    BY <2>0 DEF XmitSent
  <2>2. PICK pc \in {"idle"} : HostAt(a, pc)
    BY <2>0 DEF XmitSent
  <2>3. Direct' = Direct /\ Cardinality(Inside') \leq Senders
    BY <2>1, <2>2, <1>b, SenderGoesOn
  <2>4. pool'.bufs = pool.bufs /\ pool'.air = pool.air /\ task' = task
    BY <2>0, <1>pool DEF XmitSent, PoolStates
  <2> QED
    BY <2>3, <2>4, <1>b DEF BufInv, Held, InTask
<1>10. CASE TaskRun
  <2>1. Direct' = Direct /\ Inside' = Inside
    BY <1>10, SendersStay DEF TaskRun
  <2>2. pool'.bufs + pool'.air + Held' = pool.bufs + pool.air + Held /\ pool'.bufs \in Nat /\ pool'.air \in Nat
    BY <1>10, <1>pool, <1>task DEF TaskRun, PoolStates, TaskStates, Held, InTask
  <2> QED
    BY <2>1, <2>2, <1>b, <1>n, <1>pool DEF BufInv, Held, InTask
<1>11. CASE TaskTop
  <2>1. Direct' = Direct /\ Inside' = Inside
    BY <1>11, SendersStay DEF TaskTop
  <2>2. pool'.bufs + pool'.air + Held' = pool.bufs + pool.air + Held /\ pool'.bufs \in Nat /\ pool'.air \in Nat
    BY <1>11, <1>pool, <1>task DEF TaskTop, TaskAt, PoolStates, TaskStates, Held, InTask
  <2> QED
    BY <2>1, <2>2, <1>b, <1>n, <1>pool DEF BufInv, Held, InTask
<1>12. CASE TaskNone
  <2>1. Direct' = Direct /\ Inside' = Inside
    BY <1>12, SendersStay DEF TaskNone
  <2>2. pool'.bufs + pool'.air + Held' = pool.bufs + pool.air + Held /\ pool'.bufs \in Nat /\ pool'.air \in Nat
    BY <1>12, <1>pool, <1>task DEF TaskNone, TaskAt, PoolStates, TaskStates, Held, InTask
  <2> QED
    BY <2>1, <2>2, <1>b, <1>n, <1>pool DEF BufInv, Held, InTask
<1>13. CASE TaskRelease
  <2>1. Direct' = Direct /\ Inside' = Inside
    BY <1>13, SendersStay DEF TaskRelease
  <2>2. pool'.bufs + pool'.air + Held' = pool.bufs + pool.air + Held /\ pool'.bufs \in Nat /\ pool'.air \in Nat
    BY <1>13, <1>pool, <1>task DEF TaskRelease, TaskAt, PoolStates, TaskStates, Held, InTask
  <2> QED
    BY <2>1, <2>2, <1>b, <1>n, <1>pool DEF BufInv, Held, InTask
<1>14. CASE \E a \in Acs : TaskFirst(a)
  <2>1. Direct' = Direct /\ Inside' = Inside
    BY <1>14, SendersStay DEF TaskFirst
  <2>2. pool'.bufs + pool'.air + Held' = pool.bufs + pool.air + Held /\ pool'.bufs \in Nat /\ pool'.air \in Nat
    BY <1>14, <1>pool, <1>task DEF TaskFirst, PoolStates, TaskStates, Held, InTask
  <2> QED
    BY <2>1, <2>2, <1>b, <1>n, <1>pool DEF BufInv, Held, InTask
<1>15. CASE TaskCoalesce
  <2>1. Direct' = Direct /\ Inside' = Inside
    BY <1>15, SendersStay DEF TaskCoalesce
  <2>2. pool'.bufs + pool'.air + Held' = pool.bufs + pool.air + Held /\ pool'.bufs \in Nat /\ pool'.air \in Nat
    BY <1>15, <1>pool, <1>task DEF TaskCoalesce, TaskAt, PoolStates, TaskStates, Held, InTask
  <2> QED
    BY <2>1, <2>2, <1>b, <1>n, <1>pool DEF BufInv, Held, InTask
<1>16. CASE TaskCoalesceFails
  <2>1. Direct' = Direct /\ Inside' = Inside
    BY <1>16, SendersStay DEF TaskCoalesceFails
  <2>2. pool'.bufs + pool'.air + Held' = pool.bufs + pool.air + Held /\ pool'.bufs \in Nat /\ pool'.air \in Nat
    BY <1>16, <1>pool, <1>task DEF TaskCoalesceFails, TaskLets, PoolStates, TaskStates, Held, InTask
  <2> QED
    BY <2>1, <2>2, <1>b, <1>n, <1>pool DEF BufInv, Held, InTask
<1>17. CASE TaskAggregate
  <2>1. Direct' = Direct /\ Inside' = Inside
    BY <1>17, SendersStay DEF TaskAggregate
  <2>2. pool'.bufs + pool'.air + Held' = pool.bufs + pool.air + Held /\ pool'.bufs \in Nat /\ pool'.air \in Nat
    BY <1>17, <1>pool, <1>task DEF TaskAggregate, TaskAt, PoolStates, TaskStates, Held, InTask
  <2> QED
    BY <2>1, <2>2, <1>b, <1>n, <1>pool DEF BufInv, Held, InTask
<1>18. CASE TaskSubmit
  <2>1. Direct' = Direct /\ Inside' = Inside
    BY <1>18, SendersStay DEF TaskSubmit
  <2>2. pool'.bufs + pool'.air = pool.bufs + pool.air + 1 /\ pool'.bufs \in Nat /\ pool'.air \in Nat
    BY <1>18, WritePortBuffer DEF TaskSubmit
  <2>3. Held = 1 /\ Held' = 0
    BY <1>18, <1>task DEF TaskSubmit, TaskLets, TaskStates, Held, InTask
  <2> QED
    BY <2>1, <2>2, <2>3, <1>b, <1>n, <1>pool DEF BufInv
<1>19. CASE UrbDone
  <2>1. Direct' = Direct /\ Inside' = Inside
    BY <1>19, SendersStay DEF UrbDone
  <2>2. pool'.bufs + pool'.air + Held' = pool.bufs + pool.air + Held /\ pool'.bufs \in Nat /\ pool'.air \in Nat
    BY <1>19, <1>pool, <1>task DEF UrbDone, PoolStates, TaskStates, Held, InTask
  <2> QED
    BY <2>1, <2>2, <1>b, <1>n, <1>pool DEF BufInv, Held, InTask
<1>20. CASE UrbSchedules
  <2>1. Direct' = Direct /\ Inside' = Inside
    BY <1>20, SendersStay DEF UrbSchedules
  <2>2. pool'.bufs + pool'.air + Held' = pool.bufs + pool.air + Held /\ pool'.bufs \in Nat /\ pool'.air \in Nat
    BY <1>20, <1>pool, <1>task DEF UrbSchedules, Schedule, PoolStates, TaskStates, Held, InTask
  <2> QED
    BY <2>1, <2>2, <1>b, <1>n, <1>pool DEF BufInv, Held, InTask
<1>21. CASE BusyBegin
  <2>1. Direct' = Direct /\ Inside' = Inside
    BY <1>21, SendersStay DEF BusyBegin
  <2>2. pool' = pool /\ task' = task
    BY <1>21 DEF BusyBegin
  <2> QED
    BY <2>1, <2>2, <1>b, <1>n, <1>pool DEF BufInv, Held, InTask
<1>22. CASE BusyEnd
  <2>1. Direct' = Direct /\ Inside' = Inside
    BY <1>22, SendersStay DEF BusyEnd
  <2>2. pool' = pool /\ task' = task
    BY <1>22 DEF BusyEnd
  <2> QED
    BY <2>1, <2>2, <1>b, <1>n, <1>pool DEF BufInv, Held, InTask
<1>23. CASE BusyTimesOut
  <2>1. Direct' = Direct /\ Inside' = Inside
    BY <1>23, SendersStay DEF BusyTimesOut
  <2>2. pool' = pool /\ task' = task
    BY <1>23 DEF BusyTimesOut
  <2> QED
    BY <2>1, <2>2, <1>b, <1>n, <1>pool DEF BufInv, Held, InTask
<1>24. CASE XmitSchedule
  <2>1. Direct' = Direct /\ Inside' = Inside
    BY <1>24, SendersStay DEF XmitSchedule
  <2>2. pool'.bufs + pool'.air + Held' = pool.bufs + pool.air + Held /\ pool'.bufs \in Nat /\ pool'.air \in Nat
    BY <1>24, <1>pool, <1>task DEF XmitSchedule, Schedule, PoolStates, TaskStates, Held, InTask
  <2> QED
    BY <2>1, <2>2, <1>b, <1>n, <1>pool DEF BufInv, Held, InTask
<1>25. CASE Join
  <2>1. Direct' = Direct /\ Inside' = Inside
    BY <1>25, SendersStay DEF Join
  <2>2. pool' = pool /\ task' = task
    BY <1>25 DEF Join
  <2> QED
    BY <2>1, <2>2, <1>b, <1>n, <1>pool DEF BufInv, Held, InTask
<1>26. CASE LeaveUnlink
  <2>1. Direct' = Direct /\ Inside' = Inside
    BY <1>26, SendersStay DEF LeaveUnlink
  <2>2. pool' = pool /\ task' = task
    BY <1>26 DEF LeaveUnlink
  <2> QED
    BY <2>1, <2>2, <1>b, <1>n, <1>pool DEF BufInv, Held, InTask
<1>27. CASE LeaveLock
  <2>1. Direct' = Direct /\ Inside' = Inside
    BY <1>27, SendersStay DEF LeaveLock
  <2>2. pool' = pool /\ task' = task
    BY <1>27 DEF LeaveLock
  <2> QED
    BY <2>1, <2>2, <1>b, <1>n, <1>pool DEF BufInv, Held, InTask
<1>28. CASE LeaveUnlock
  <2>1. Direct' = Direct /\ Inside' = Inside
    BY <1>28, SendersStay DEF LeaveUnlock
  <2>2. pool' = pool /\ task' = task
    BY <1>28 DEF LeaveUnlock
  <2> QED
    BY <2>1, <2>2, <1>b, <1>n, <1>pool DEF BufInv, Held, InTask
<1>29. CASE LeaveIndicate
  <2>1. Direct' = Direct /\ Inside' = Inside
    BY <1>29, SendersStay DEF LeaveIndicate
  <2>2. pool' = pool /\ task' = task
    BY <1>29 DEF LeaveIndicate
  <2> QED
    BY <2>1, <2>2, <1>b, <1>n, <1>pool DEF BufInv, Held, InTask
<1>30. CASE \E a \in Acs : FlushQueue(a)
  <2>1. Direct' = Direct /\ Inside' = Inside
    BY <1>30, SendersStay DEF FlushQueue
  <2>2. pool'.bufs + pool'.air + Held' = pool.bufs + pool.air + Held /\ pool'.bufs \in Nat /\ pool'.air \in Nat
    BY <1>30, <1>pool, <1>task DEF FlushQueue, PoolStates, TaskStates, Held, InTask
  <2> QED
    BY <2>1, <2>2, <1>b, <1>n, <1>pool DEF BufInv, Held, InTask
<1>31. CASE UNCHANGED vars
  BY <1>31, <1>b, SendersStay DEF vars, BufInv, Held, InTask
<1> QED
  BY <1>1, <1>2, <1>3, <1>4, <1>5, <1>6, <1>7, <1>8, <1>9, <1>10, <1>11, <1>12, <1>13, <1>14, <1>15, <1>16, <1>17, <1>18, <1>19, <1>20, <1>21, <1>22, <1>23, <1>24, <1>25, <1>26, <1>27, <1>28, <1>29, <1>30, <1>31 DEF Next, Sender, Tasklet, Flush

-----------------------------------------------------------------------------
(* A queued frame has somebody who comes for it.                             *)

\* The driver has NR_XMITBUFF = 4 buffers.  One is enough for the tasklet to take it
\* while a sender looks for one; with two, whoever finds none knows of another who
\* has one.
SeveralBuffers == NBuf \in Nat /\ NBuf \geq 2

\* Whoever finds no buffer can rely on a completion, or on a sender about to
\* submit its own.
LEMMA SomebodyHasOne ==
    ASSUME TypeOK, BufInv, SeveralBuffers, pool.bufs = 0
    PROVE  pool.air > 0 \/ Direct # {}
<1>1. pool.air \in Nat /\ Held \in {0, 1}
  BY DEF TypeOK, PoolStates, Held
<1>2. Cardinality({}) = 0
  BY FS_EmptySet
<1> QED
  BY <1>1, <1>2 DEF BufInv, SeveralBuffers

\* A sender that gives its buffer back without an URB strands the queued frames, or
\* somebody else has a buffer and comes for them.
LEMMA StrandsOrComes ==
    ASSUME TypeOK, NEW a \in Acs, NEW pc, HostAt(a, pc), Queued, ~Strands(a)
    PROVE  \/ pool.air > 0 \/ Direct' # {}
           \/ task.pc \in {"top", "first"} \/ InTask
<1>1. CASE pool.air # 0
  BY <1>1 DEF TypeOK, PoolStates
<1>2. CASE task.pc \notin {"idle", "release"}
  BY <1>2 DEF TypeOK, TaskStates, TaskPcs, InTask
<1>3. CASE \E b \in Acs \ {a} : host[b].pc = "direct"
  BY <1>3 DEF TypeOK, HostAt, Direct
<1> QED
  BY <1>1, <1>2, <1>3 DEF Strands

LEMMA KickDueStep ==
    XmitInv /\ BufInv /\ KickDue /\ SeveralBuffers /\ [Next]_vars => KickDue'
<1> SUFFICES ASSUME XmitInv, BufInv, KickDue, SeveralBuffers, [Next]_vars
             PROVE  KickDue'
  OBVIOUS
<1> USE DEF XmitInv, TypeOK, QueueInv, KickDue, InTask, PoolStates, ServqStates, TaskStates, EnvStates
<1>d. ((\E b \in Acs : host[b].pc = "direct") <=> Direct # {})
      /\ ((\E b \in Acs : host[b].pc = "direct") <=> Direct # {})'
  BY DEF Direct
<1>b. Cardinality(Inside) \leq Senders
  BY DEF BufInv
<1>s. ASSUME NEW a \in Acs, NEW pc, HostAt(a, pc), ~Strands(a),
             NEW b \in Acs, servq[b].len > 0
      PROVE  \/ pool.air > 0 \/ Direct' # {}
             \/ task.pc \in {"top", "first"} \/ InTask
  BY <1>s, StrandsOrComes DEF Queued
<1>1. CASE \E a \in Acs : Entry(a)
  <2>1. Direct' = Direct
    BY <1>1 DEF Entry, Direct
  <2> QED
    BY <1>1, <1>d, <2>1 DEF Entry
<1>2. CASE \E a \in Acs : CheckResource(a)
  <2>1. Direct' = Direct
    BY <1>2, <1>b, SenderGoesOn DEF CheckResource
  <2> QED
    BY <1>2, <1>d, <2>1 DEF CheckResource
<1>3. CASE \E a \in Acs : AllocFrame(a)
  <2>1. Direct' = Direct
    BY <1>3, <1>b, SenderGoesOn DEF AllocFrame
  <2> QED
    BY <1>3, <1>d, <2>1 DEF AllocFrame
<1>4. CASE \E a \in Acs : UpdateAttrib(a)
  <2>1. Direct' = Direct
    BY <1>4, <1>b, SenderGoesOn DEF UpdateAttrib
  <2> QED
    BY <1>4, <1>d, <2>1 DEF UpdateAttrib
<1>5. CASE \E a \in Acs : PreEnqueue(a)
  <2>0. PICK a \in Acs : PreEnqueue(a)
    BY <1>5
  <2>3. Direct' = Direct
    BY <2>0, <1>b, SenderGoesOn DEF PreEnqueue
  <2>1. CASE env.sta # "linked"
    BY <2>0, <2>1 DEF PreEnqueue
  <2>2. CASE env.sta = "linked"
    <3>1. servq' = [servq EXCEPT ![a] = Enqueued(a)] /\ pool' = pool /\ UNCHANGED <<task, env>>
      BY <2>0, <2>2 DEF PreEnqueue
    <3>2. \/ servq[a].len > 0
          \/ env.busy # "none"
          \/ pool.air > 0 \/ Direct # {}
      BY <2>0, SomebodyHasOne DEF PreEnqueue, MustEnqueue
    <3> QED
      BY <3>1, <3>2, <2>3, <1>d DEF Enqueued
  <2> QED
    BY <2>1, <2>2
<1>6. CASE \E a \in Acs : PreDirect(a)
  <2>1. Direct' # {}
    BY <1>6 DEF PreDirect, HostAt, Direct
  <2> QED
    BY <1>6, <1>d, <2>1 DEF PreDirect
<1>7. CASE \E a \in Acs : XmitDirect(a)
  <2>0. PICK a \in Acs : XmitDirect(a)
    BY <1>7
  <2>1. servq' = servq /\ task' = task /\ HostAt(a, "sent")
    BY <2>0 DEF XmitDirect
  <2>2. CASE pool' = [pool EXCEPT !.air = @ + 1, !.frames = @ + 0] /\ env' = env
    BY <2>1, <2>2
  <2>3. CASE \E dead \in BOOLEAN :
                 /\ pool' = [pool EXCEPT !.bufs = @ + 1, !.frames = @ + 0]
                 /\ env' = [env EXCEPT !.dead = @ \/ dead, !.late = @ \/ Strands(a)]
    <3>1. pool'.air = pool.air /\ pool'.back = pool.back
      BY <2>3
    <3>2. /\ env'.sta = env.sta /\ env'.busy = env.busy /\ env'.due = env.due
          /\ (env.dead => env'.dead) /\ (env.late => env'.late)
          /\ (Strands(a) => env'.late)
      BY <2>3
    <3> QED
      BY <3>1, <3>2, <2>1, <1>d, <1>s
  <2> QED
    BY <2>0, <2>2, <2>3 DEF XmitDirect, WritePort
<1>8. CASE \E a \in Acs : XmitDirectFails(a)
  <2>0. PICK a \in Acs : XmitDirectFails(a)
    BY <1>8
  <2>1. servq' = servq /\ task' = task /\ HostAt(a, "idle")
    BY <2>0 DEF XmitDirectFails
  <2>2. pool'.air = pool.air /\ pool'.back = pool.back
    BY <2>0 DEF XmitDirectFails
  <2>3. /\ env'.sta = env.sta /\ env'.busy = env.busy /\ env'.due = env.due
        /\ (env.dead => env'.dead) /\ (env.late => env'.late)
        /\ (Strands(a) => env'.late)
    BY <2>0 DEF XmitDirectFails
  <2> QED
    BY <2>1, <2>2, <2>3, <1>d, <1>s
<1>9. CASE \E a \in Acs : XmitSent(a)
  <2>1. Direct' = Direct
    BY <1>9, <1>b, SenderGoesOn DEF XmitSent
  <2> QED
    BY <1>9, <1>d, <2>1 DEF XmitSent
<1>10. CASE TaskRun
  BY <1>10, <1>d, SendersStay DEF TaskRun
<1>11. CASE TaskTop
  <2>1. CASE env.dead \/ pool.bufs = 0
    BY <1>11, <1>d, SendersStay, <2>1, SomebodyHasOne DEF TaskTop, TaskAt
  <2>2. CASE ~(env.dead \/ pool.bufs = 0)
    BY <1>11, <1>d, SendersStay, <2>2 DEF TaskTop, TaskAt
  <2> QED
    BY <2>1, <2>2
<1>12. CASE TaskNone
  BY <1>12, <1>d, SendersStay DEF TaskNone, TaskAt
<1>13. CASE TaskRelease
  BY <1>13, <1>d, SendersStay DEF TaskRelease, TaskAt
<1>14. CASE \E a \in Acs : TaskFirst(a)
  BY <1>14, <1>d, SendersStay DEF TaskFirst, Shortened, IsFirst
<1>15. CASE TaskCoalesce
  BY <1>15, <1>d, SendersStay DEF TaskCoalesce, TaskAt
<1>16. CASE TaskCoalesceFails
  BY <1>16, <1>d, SendersStay DEF TaskCoalesceFails, TaskLets
<1>17. CASE TaskAggregate
  BY <1>17, <1>d, SendersStay DEF TaskAggregate, TaskAt, Shortened
<1>18. CASE TaskSubmit
  BY <1>18, <1>d, SendersStay DEF TaskSubmit, TaskLets, WritePort
<1>19. CASE UrbDone
  BY <1>19, <1>d, SendersStay DEF UrbDone
<1>20. CASE UrbSchedules
  BY <1>20, <1>d, SendersStay DEF UrbSchedules, Schedule
<1>21. CASE BusyBegin
  BY <1>21, <1>d, SendersStay DEF BusyBegin
<1>22. CASE BusyEnd
  BY <1>22, <1>d, SendersStay DEF BusyEnd
<1>23. CASE BusyTimesOut
  <2>1. /\ servq' = servq /\ task' = task /\ pool' = pool /\ Direct' = Direct
        /\ env'.sta = env.sta /\ env'.dead = env.dead /\ env'.due = env.due
        /\ (Queued => env'.late)
    BY <1>23, SendersStay DEF BusyTimesOut
  <2> QED
    BY <2>1, <1>d DEF Queued
<1>24. CASE XmitSchedule
  BY <1>24, <1>d, SendersStay DEF XmitSchedule, Schedule
<1>25. CASE Join
  BY <1>25, <1>d, SendersStay DEF Join, FlushedInv
<1>26. CASE LeaveUnlink
  BY <1>26, <1>d, SendersStay DEF LeaveUnlink
<1>27. CASE LeaveLock
  BY <1>27, <1>d, SendersStay DEF LeaveLock
<1>28. CASE LeaveUnlock
  BY <1>28, <1>d, SendersStay DEF LeaveUnlock
<1>29. CASE LeaveIndicate
  BY <1>29, <1>d, SendersStay DEF LeaveIndicate
<1>30. CASE \E a \in Acs : FlushQueue(a)
  BY <1>30, <1>d, SendersStay DEF FlushQueue
<1>31. CASE UNCHANGED vars
  BY <1>31, <1>d, SendersStay DEF vars
<1> QED
  BY <1>1, <1>2, <1>3, <1>4, <1>5, <1>6, <1>7, <1>8, <1>9, <1>10, <1>11, <1>12, <1>13, <1>14, <1>15, <1>16, <1>17, <1>18, <1>19, <1>20, <1>21, <1>22, <1>23, <1>24, <1>25, <1>26, <1>27, <1>28, <1>29, <1>30, <1>31 DEF Next, Sender, Tasklet, Flush

\* No buffer is lost or counted twice: each is free, in an URB, with a sender inside
\* xmitframe_direct, or with the tasklet.
THEOREM XmitBuffersAccounted == Spec => []BufInv
<1>1. Init => BufInv
  <2> SUFFICES ASSUME Init PROVE BufInv
    OBVIOUS
  <2>1. Direct = {} /\ Inside = {}
    BY DEF Init, Direct, Inside
  <2>2. Cardinality({}) = 0
    BY FS_EmptySet
  <2> QED
    BY <2>1, <2>2, XmitAssumption DEF Init, BufInv, Held, InTask
<1>2. XmitInv /\ BufInv /\ [Next]_vars => BufInv'
  BY BufInvStep DEF XmitInv
<1> QED
  BY <1>1, <1>2, XmitAlways, PTL DEF Spec

\* With two buffers or more, and any number of senders, a frame queued for a linked
\* station is not forgotten: the tasklet is due or running, a completion or a
\* sender's URB will schedule it, or a survey or join that holds it back has yet to
\* end.  Only the two paths that schedule nothing (late) leave it where it is.
THEOREM XmitKickDue ==
    ASSUME SeveralBuffers
    PROVE  Spec => []KickDue
<1>1. Init => KickDue
  BY DEF Init, KickDue
<1>2. XmitInv /\ BufInv /\ KickDue /\ [Next]_vars => KickDue'
  BY KickDueStep
<1> QED
  BY <1>1, <1>2, XmitAlways, XmitBuffersAccounted, PTL DEF Spec

-----------------------------------------------------------------------------
(* The frames.                                                               *)

FrameTotal == Total([a \in Acs |-> FramesOf(a)])
Holding == IF InTask THEN 1 ELSE 0

\* Every frame is free, in a queue, with a sender or with the tasklet.
FrameInv == pool.frames + FrameTotal + Holding = NFrames

LEMMA FramesType ==
    ASSUME TypeOK
    PROVE  /\ \A a \in Acs : FramesOf(a) \in Nat
           /\ FrameTotal \in Nat /\ pool.frames \in Nat /\ Holding \in Nat
<1>1. \A a \in Acs : FramesOf(a) \in Nat
  BY DEF TypeOK, ServqStates, FramesOf
<1>2. FrameTotal \in Nat
  BY <1>1, XmitAssumption, SumNat DEF FrameTotal, Total
<1> QED
  BY <1>1, <1>2 DEF TypeOK, PoolStates, Holding

\* Frames of one category change hands.
LEMMA FramesMove ==
    ASSUME TypeOK, TypeOK', FrameInv, NEW a \in Acs,
           \A b \in Acs \ {a} : FramesOf(b)' = FramesOf(b),
           pool'.frames + FramesOf(a)' + Holding' = pool.frames + FramesOf(a) + Holding
    PROVE  FrameInv'
<1> DEFINE f == [b \in Acs |-> FramesOf(b)]
           g == [b \in Acs |-> FramesOf(b)']
<1>1. /\ \A b \in Acs : f[b] \in Nat /\ g[b] \in Nat
      /\ pool.frames \in Nat /\ pool'.frames \in Nat /\ Holding \in Nat /\ Holding' \in Nat
  <2>1. \A b \in Acs : FramesOf(b) \in Nat /\ FramesOf(b)' \in Nat
    BY DEF TypeOK, ServqStates, FramesOf
  <2> QED
    BY <2>1 DEF TypeOK, PoolStates, Holding
<1>2. f[a] = FramesOf(a) /\ g[a] = FramesOf(a)' /\ \A b \in Acs \ {a} : f[b] = g[b]
  OBVIOUS
<1>3. FrameTotal = SumFunctionOnSet(f, Acs) /\ FrameTotal' = SumFunctionOnSet(g, Acs)
  BY DEF FrameTotal, Total
<1> HIDE DEF f, g
<1>4. SumFunctionOnSet(g, Acs) = SumFunctionOnSet(f, Acs) - f[a] + g[a]
  <2>1. \A b \in Acs : f[b] \in Int /\ g[b] \in Int
    BY <1>1
  <2>2. \A b \in Acs \ {a} : f[b] = g[b]
    BY <1>2
  <2>3. IsFiniteSet(Acs)
    BY XmitAssumption
  <2> QED
    BY <2>1, <2>2, <2>3, SumChange
<1>5. SumFunctionOnSet(f, Acs) \in Nat
  BY <1>1, XmitAssumption, SumNat
<1> QED
  BY <1>1, <1>2, <1>3, <1>4, <1>5 DEF FrameInv

LEMMA FramesRest ==
    ASSUME FrameInv, \A a \in Acs : FramesOf(a)' = FramesOf(a),
           pool'.frames + Holding' = pool.frames + Holding, TypeOK, TypeOK'
    PROVE  FrameInv'
<1>1. FrameTotal' = FrameTotal
  BY DEF FrameTotal
<1>2. pool.frames \in Nat /\ pool'.frames \in Nat /\ Holding \in Nat /\ Holding' \in Nat
  BY DEF TypeOK, PoolStates, Holding
<1>3. FrameTotal \in Nat
  BY FramesType
<1> QED
  BY <1>1, <1>2, <1>3 DEF FrameInv

LEMMA WritePortFrames ==
    ASSUME TypeOK, NEW n \in Nat, NEW strands, WritePort(n, strands)
    PROVE  pool'.frames = pool.frames + n
<1>1. CASE pool' = [pool EXCEPT !.air = @ + 1, !.frames = @ + n]
  BY <1>1 DEF TypeOK, PoolStates
<1>2. CASE pool' = [pool EXCEPT !.bufs = @ + 1, !.frames = @ + n]
  BY <1>2 DEF TypeOK, PoolStates
<1> QED
  BY <1>1, <1>2 DEF WritePort

LEMMA FrameInvStep == TypeOK /\ TypeOK' /\ TaskInv /\ FrameInv /\ [Next]_vars => FrameInv'
<1> SUFFICES ASSUME TypeOK, TypeOK', TaskInv, FrameInv, [Next]_vars
             PROVE  FrameInv'
  OBVIOUS
<1>pool. pool \in PoolStates /\ pool.frames \in Nat
  BY DEF TypeOK, PoolStates
<1>task. task \in TaskStates
  BY DEF TypeOK
<1>1. CASE \E a \in Acs : Entry(a)
  <2>1. \A b \in Acs : FramesOf(b)' = FramesOf(b)
    BY <1>1 DEF Entry, FramesOf, TypeOK, HostStates, ServqStates
  <2>2. pool'.frames + Holding' = pool.frames + Holding
    BY <1>1, <1>pool, <1>task DEF Entry, PoolStates, TaskStates, Holding, InTask
  <2> QED
    BY <2>1, <2>2, FramesRest
<1>2. CASE \E a \in Acs : CheckResource(a)
  <2>1. \A b \in Acs : FramesOf(b)' = FramesOf(b)
    BY <1>2 DEF CheckResource, HostAt, FramesOf, TypeOK, HostStates, ServqStates
  <2>2. pool'.frames + Holding' = pool.frames + Holding
    BY <1>2, <1>pool, <1>task DEF CheckResource, HostAt, PoolStates, TaskStates, Holding, InTask
  <2> QED
    BY <2>1, <2>2, FramesRest
<1>3. CASE \E a \in Acs : AllocFrame(a)
  <2>0. PICK a \in Acs : AllocFrame(a)
    BY <1>3
  <2>1. CASE pool' = [pool EXCEPT !.frames = @ - 1] /\ HostAt(a, "attrib")
    <3>1. FramesOf(a)' = FramesOf(a) + 1 /\ \A b \in Acs \ {a} : FramesOf(b)' = FramesOf(b)
      BY <2>0, <2>1 DEF AllocFrame, HostAt, FramesOf, TypeOK, HostStates, ServqStates
    <3>2. pool'.frames = pool.frames - 1 /\ Holding' = Holding
      BY <2>0, <2>1, <1>pool DEF AllocFrame, PoolStates, Holding, InTask
    <3> QED
      BY <3>1, <3>2, <1>pool, FramesType, FramesMove
  <2>2. CASE pool' = pool /\ HostAt(a, "idle")
    <3>1. \A b \in Acs : FramesOf(b)' = FramesOf(b)
      BY <2>0, <2>2 DEF AllocFrame, HostAt, Enqueued, FramesOf, TypeOK, HostStates, ServqStates
    <3>2. pool'.frames = pool.frames /\ Holding' = Holding
      BY <2>0, <2>2 DEF AllocFrame, Holding, InTask
    <3> QED
      BY <3>1, <3>2, FramesRest
  <2> QED
    BY <2>0, <2>1, <2>2 DEF AllocFrame
<1>4. CASE \E a \in Acs : UpdateAttrib(a)
  <2>0. PICK a \in Acs : UpdateAttrib(a)
    BY <1>4
  <2>1. CASE pool' = pool /\ HostAt(a, "pre")
    <3>1. \A b \in Acs : FramesOf(b)' = FramesOf(b)
      BY <2>0, <2>1 DEF UpdateAttrib, HostAt, Enqueued, FramesOf, TypeOK, HostStates, ServqStates
    <3>2. pool'.frames = pool.frames /\ Holding' = Holding
      BY <2>0, <2>1 DEF UpdateAttrib, Holding, InTask
    <3> QED
      BY <3>1, <3>2, FramesRest
  <2>2. CASE pool' = [pool EXCEPT !.frames = @ + 1] /\ HostAt(a, "idle")
    <3>1. FramesOf(a)' = FramesOf(a) - 1 /\ \A b \in Acs \ {a} : FramesOf(b)' = FramesOf(b)
      BY <2>0, <2>2 DEF UpdateAttrib, HostAt, FramesOf, TypeOK, HostStates, ServqStates
    <3>2. pool'.frames = pool.frames + 1 /\ Holding' = Holding
      BY <2>0, <2>2, <1>pool DEF UpdateAttrib, PoolStates, Holding, InTask
    <3> QED
      BY <3>1, <3>2, <1>pool, FramesType, FramesMove
  <2> QED
    BY <2>0, <2>1, <2>2 DEF UpdateAttrib
<1>5. CASE \E a \in Acs : PreEnqueue(a)
  <2>0. PICK a \in Acs : PreEnqueue(a)
    BY <1>5
  <2>1. CASE pool' = pool /\ servq' = [servq EXCEPT ![a] = Enqueued(a)]
    <3>1. \A b \in Acs : FramesOf(b)' = FramesOf(b)
      BY <2>0, <2>1 DEF PreEnqueue, HostAt, Enqueued, FramesOf, TypeOK, HostStates, ServqStates
    <3>2. pool'.frames = pool.frames /\ Holding' = Holding
      BY <2>0, <2>1 DEF PreEnqueue, Holding, InTask
    <3> QED
      BY <3>1, <3>2, FramesRest
  <2>2. CASE pool' = [pool EXCEPT !.frames = @ + 1] /\ servq' = servq
    <3>1. FramesOf(a)' = FramesOf(a) - 1 /\ \A b \in Acs \ {a} : FramesOf(b)' = FramesOf(b)
      BY <2>0, <2>2 DEF PreEnqueue, HostAt, FramesOf, TypeOK, HostStates, ServqStates
    <3>2. pool'.frames = pool.frames + 1 /\ Holding' = Holding
      BY <2>0, <2>2, <1>pool DEF PreEnqueue, PoolStates, Holding, InTask
    <3> QED
      BY <3>1, <3>2, <1>pool, FramesType, FramesMove
  <2> QED
    BY <2>0, <2>1, <2>2 DEF PreEnqueue
<1>6. CASE \E a \in Acs : PreDirect(a)
  <2>1. \A b \in Acs : FramesOf(b)' = FramesOf(b)
    BY <1>6 DEF PreDirect, HostAt, FramesOf, TypeOK, HostStates, ServqStates
  <2>2. pool'.frames + Holding' = pool.frames + Holding
    BY <1>6, <1>pool, <1>task DEF PreDirect, HostAt, PoolStates, TaskStates, Holding, InTask
  <2> QED
    BY <2>1, <2>2, FramesRest
<1>7. CASE \E a \in Acs : XmitDirect(a)
  <2>0. PICK a \in Acs : XmitDirect(a)
    BY <1>7
  <2>1. \A b \in Acs : FramesOf(b)' = FramesOf(b)
    BY <2>0 DEF XmitDirect, HostAt, FramesOf, TypeOK, HostStates, ServqStates
  <2>2. pool'.frames = pool.frames + 0 /\ Holding' = Holding
    BY <2>0, WritePortFrames DEF XmitDirect, Holding, InTask
  <2> QED
    BY <2>1, <2>2, <1>pool, FramesRest
<1>8. CASE \E a \in Acs : XmitDirectFails(a)
  <2>0. PICK a \in Acs : XmitDirectFails(a)
    BY <1>8
  <2>1. FramesOf(a)' = FramesOf(a) - 1 /\ \A b \in Acs \ {a} : FramesOf(b)' = FramesOf(b)
    BY <2>0 DEF XmitDirectFails, HostAt, FramesOf, TypeOK, HostStates, ServqStates
  <2>2. pool'.frames = pool.frames + 1 /\ Holding' = Holding
    BY <2>0, <1>pool DEF XmitDirectFails, PoolStates, Holding, InTask
  <2> QED
    BY <2>1, <2>2, <1>pool, FramesType, FramesMove
<1>9. CASE \E a \in Acs : XmitSent(a)
  <2>0. PICK a \in Acs : XmitSent(a)
    BY <1>9
  <2>1. FramesOf(a)' = FramesOf(a) - 1 /\ \A b \in Acs \ {a} : FramesOf(b)' = FramesOf(b)
    BY <2>0 DEF XmitSent, HostAt, FramesOf, TypeOK, HostStates, ServqStates
  <2>2. pool'.frames = pool.frames + 1 /\ Holding' = Holding
    BY <2>0, <1>pool DEF XmitSent, PoolStates, Holding, InTask
  <2> QED
    BY <2>1, <2>2, <1>pool, FramesType, FramesMove
<1>10. CASE TaskRun
  <2>1. \A b \in Acs : FramesOf(b)' = FramesOf(b)
    BY <1>10 DEF TaskRun, FramesOf
  <2>2. pool'.frames + Holding' = pool.frames + Holding
    BY <1>10, <1>pool, <1>task DEF TaskRun, PoolStates, TaskStates, Holding, InTask
  <2> QED
    BY <2>1, <2>2, FramesRest
<1>11. CASE TaskTop
  <2>1. \A b \in Acs : FramesOf(b)' = FramesOf(b)
    BY <1>11 DEF TaskTop, TaskAt, FramesOf
  <2>2. pool'.frames + Holding' = pool.frames + Holding
    BY <1>11, <1>pool, <1>task DEF TaskTop, TaskAt, PoolStates, TaskStates, Holding, InTask
  <2> QED
    BY <2>1, <2>2, FramesRest
<1>12. CASE TaskNone
  <2>1. \A b \in Acs : FramesOf(b)' = FramesOf(b)
    BY <1>12 DEF TaskNone, TaskAt, FramesOf
  <2>2. pool'.frames + Holding' = pool.frames + Holding
    BY <1>12, <1>pool, <1>task DEF TaskNone, TaskAt, PoolStates, TaskStates, Holding, InTask
  <2> QED
    BY <2>1, <2>2, FramesRest
<1>13. CASE TaskRelease
  <2>1. \A b \in Acs : FramesOf(b)' = FramesOf(b)
    BY <1>13 DEF TaskRelease, TaskAt, FramesOf
  <2>2. pool'.frames + Holding' = pool.frames + Holding
    BY <1>13, <1>pool, <1>task DEF TaskRelease, TaskAt, PoolStates, TaskStates, Holding, InTask
  <2> QED
    BY <2>1, <2>2, FramesRest
<1>14. CASE \E a \in Acs : TaskFirst(a)
  <2>0. PICK a \in Acs : TaskFirst(a)
    BY <1>14
  <2>1. FramesOf(a)' = FramesOf(a) - 1 /\ \A b \in Acs \ {a} : FramesOf(b)' = FramesOf(b)
    BY <2>0 DEF TaskFirst, Shortened, FramesOf, TypeOK, HostStates, ServqStates
  <2>2. pool' = pool /\ Holding = 0 /\ Holding' = 1
    BY <2>0, <1>task DEF TaskFirst, TaskStates, Holding, InTask
  <2> QED
    BY <2>1, <2>2, <1>pool, FramesType, FramesMove
<1>15. CASE TaskCoalesce
  <2>1. \A b \in Acs : FramesOf(b)' = FramesOf(b)
    BY <1>15 DEF TaskCoalesce, TaskAt, FramesOf
  <2>2. pool'.frames + Holding' = pool.frames + Holding
    BY <1>15, <1>pool, <1>task DEF TaskCoalesce, TaskAt, PoolStates, TaskStates, Holding, InTask
  <2> QED
    BY <2>1, <2>2, FramesRest
<1>16. CASE TaskCoalesceFails
  <2>1. \A b \in Acs : FramesOf(b)' = FramesOf(b)
    BY <1>16 DEF TaskCoalesceFails, TaskLets, FramesOf
  <2>2. pool'.frames + Holding' = pool.frames + Holding
    BY <1>16, <1>pool, <1>task DEF TaskCoalesceFails, TaskLets, PoolStates, TaskStates, Holding, InTask
  <2> QED
    BY <2>1, <2>2, FramesRest
<1>17. CASE TaskAggregate
  <2>0. PICK a \in Acs : a = task.ac
    BY <1>17 DEF TaskAggregate, TaskInv, InTask
  <2>1. PICK n \in 0 .. servq[a].len :
          /\ servq' = [servq EXCEPT ![a] = Shortened(a, n)]
          /\ pool' = [pool EXCEPT !.frames = @ + n]
    BY <1>17, <2>0 DEF TaskAggregate, Shortened
  <2>2. n \in Nat
    BY DEF TypeOK, ServqStates
  <2>3. FramesOf(a)' = FramesOf(a) - n /\ \A b \in Acs \ {a} : FramesOf(b)' = FramesOf(b)
    BY <1>17, <2>1, <2>2 DEF TaskAggregate, Shortened, FramesOf, TypeOK, HostStates, ServqStates
  <2>4. pool'.frames = pool.frames + n /\ Holding' = Holding
    BY <1>17, <2>1, <1>pool, <1>task DEF TaskAggregate, TaskAt, PoolStates, TaskStates, Holding, InTask
  <2> QED
    BY <2>2, <2>3, <2>4, <1>pool, FramesType, FramesMove
<1>18. CASE TaskSubmit
  <2>1. \A b \in Acs : FramesOf(b)' = FramesOf(b)
    BY <1>18 DEF TaskSubmit, FramesOf
  <2>2. pool'.frames = pool.frames + 1 /\ Holding = 1 /\ Holding' = 0
    BY <1>18, <1>task, WritePortFrames DEF TaskSubmit, TaskLets, TaskStates, Holding, InTask
  <2> QED
    BY <2>1, <2>2, <1>pool, FramesRest
<1>19. CASE UrbDone
  <2>1. \A b \in Acs : FramesOf(b)' = FramesOf(b)
    BY <1>19 DEF UrbDone, FramesOf
  <2>2. pool'.frames + Holding' = pool.frames + Holding
    BY <1>19, <1>pool, <1>task DEF UrbDone, PoolStates, TaskStates, Holding, InTask
  <2> QED
    BY <2>1, <2>2, FramesRest
<1>20. CASE UrbSchedules
  <2>1. \A b \in Acs : FramesOf(b)' = FramesOf(b)
    BY <1>20 DEF UrbSchedules, Schedule, FramesOf
  <2>2. pool'.frames + Holding' = pool.frames + Holding
    BY <1>20, <1>pool, <1>task DEF UrbSchedules, Schedule, PoolStates, TaskStates, Holding, InTask
  <2> QED
    BY <2>1, <2>2, FramesRest
<1>21. CASE BusyBegin
  <2>1. \A b \in Acs : FramesOf(b)' = FramesOf(b)
    BY <1>21 DEF BusyBegin, FramesOf
  <2>2. pool'.frames + Holding' = pool.frames + Holding
    BY <1>21, <1>pool, <1>task DEF BusyBegin, PoolStates, TaskStates, Holding, InTask
  <2> QED
    BY <2>1, <2>2, FramesRest
<1>22. CASE BusyEnd
  <2>1. \A b \in Acs : FramesOf(b)' = FramesOf(b)
    BY <1>22 DEF BusyEnd, FramesOf
  <2>2. pool'.frames + Holding' = pool.frames + Holding
    BY <1>22, <1>pool, <1>task DEF BusyEnd, PoolStates, TaskStates, Holding, InTask
  <2> QED
    BY <2>1, <2>2, FramesRest
<1>23. CASE BusyTimesOut
  <2>1. \A b \in Acs : FramesOf(b)' = FramesOf(b)
    BY <1>23 DEF BusyTimesOut, FramesOf
  <2>2. pool'.frames + Holding' = pool.frames + Holding
    BY <1>23, <1>pool, <1>task DEF BusyTimesOut, PoolStates, TaskStates, Holding, InTask
  <2> QED
    BY <2>1, <2>2, FramesRest
<1>24. CASE XmitSchedule
  <2>1. \A b \in Acs : FramesOf(b)' = FramesOf(b)
    BY <1>24 DEF XmitSchedule, Schedule, FramesOf
  <2>2. pool'.frames + Holding' = pool.frames + Holding
    BY <1>24, <1>pool, <1>task DEF XmitSchedule, Schedule, PoolStates, TaskStates, Holding, InTask
  <2> QED
    BY <2>1, <2>2, FramesRest
<1>25. CASE Join
  <2>1. \A b \in Acs : FramesOf(b)' = FramesOf(b)
    BY <1>25 DEF Join, FramesOf
  <2>2. pool'.frames + Holding' = pool.frames + Holding
    BY <1>25, <1>pool, <1>task DEF Join, PoolStates, TaskStates, Holding, InTask
  <2> QED
    BY <2>1, <2>2, FramesRest
<1>26. CASE LeaveUnlink
  <2>1. \A b \in Acs : FramesOf(b)' = FramesOf(b)
    BY <1>26 DEF LeaveUnlink, FramesOf
  <2>2. pool'.frames + Holding' = pool.frames + Holding
    BY <1>26, <1>pool, <1>task DEF LeaveUnlink, PoolStates, TaskStates, Holding, InTask
  <2> QED
    BY <2>1, <2>2, FramesRest
<1>27. CASE LeaveLock
  <2>1. \A b \in Acs : FramesOf(b)' = FramesOf(b)
    BY <1>27 DEF LeaveLock, FramesOf
  <2>2. pool'.frames + Holding' = pool.frames + Holding
    BY <1>27, <1>pool, <1>task DEF LeaveLock, PoolStates, TaskStates, Holding, InTask
  <2> QED
    BY <2>1, <2>2, FramesRest
<1>28. CASE LeaveUnlock
  <2>1. \A b \in Acs : FramesOf(b)' = FramesOf(b)
    BY <1>28 DEF LeaveUnlock, FramesOf
  <2>2. pool'.frames + Holding' = pool.frames + Holding
    BY <1>28, <1>pool, <1>task DEF LeaveUnlock, PoolStates, TaskStates, Holding, InTask
  <2> QED
    BY <2>1, <2>2, FramesRest
<1>29. CASE LeaveIndicate
  <2>1. \A b \in Acs : FramesOf(b)' = FramesOf(b)
    BY <1>29 DEF LeaveIndicate, FramesOf
  <2>2. pool'.frames + Holding' = pool.frames + Holding
    BY <1>29, <1>pool, <1>task DEF LeaveIndicate, PoolStates, TaskStates, Holding, InTask
  <2> QED
    BY <2>1, <2>2, FramesRest
<1>30. CASE \E a \in Acs : FlushQueue(a)
  <2>0. PICK a \in Acs : FlushQueue(a)
    BY <1>30
  <2>1. FramesOf(a)' = FramesOf(a) - servq[a].len /\ \A b \in Acs \ {a} : FramesOf(b)' = FramesOf(b)
    BY <2>0 DEF FlushQueue, FramesOf, TypeOK, HostStates, ServqStates
  <2>2. pool'.frames = pool.frames + servq[a].len /\ Holding' = Holding /\ servq[a].len \in Nat
    BY <2>0, <1>pool DEF FlushQueue, PoolStates, Holding, InTask, TypeOK, ServqStates
  <2> QED
    BY <2>1, <2>2, <1>pool, FramesType, FramesMove
<1>31. CASE UNCHANGED vars
  <2>1. \A b \in Acs : FramesOf(b)' = FramesOf(b)
    BY <1>31 DEF vars, FramesOf
  <2>2. pool'.frames + Holding' = pool.frames + Holding
    BY <1>31, <1>pool, <1>task DEF vars, PoolStates, TaskStates, Holding, InTask
  <2> QED
    BY <2>1, <2>2, FramesRest
<1> QED
  BY <1>1, <1>2, <1>3, <1>4, <1>5, <1>6, <1>7, <1>8, <1>9, <1>10, <1>11, <1>12, <1>13, <1>14, <1>15, <1>16, <1>17, <1>18, <1>19, <1>20, <1>21, <1>22, <1>23, <1>24, <1>25, <1>26, <1>27, <1>28, <1>29, <1>30, <1>31 DEF Next, Sender, Tasklet, Flush

\* No frame and no buffer is lost or counted twice, and the three counts of a queue
\* agree, whatever fails.
THEOREM XmitPoolAccounted == Spec => []PoolAccounted
<1>1. Init => FrameInv
  <2> SUFFICES ASSUME Init PROVE FrameInv
    OBVIOUS
  <2> DEFINE f == [a \in Acs |-> FramesOf(a)]
  <2>1. \A a \in Acs : f[a] = 0
    BY DEF Init, FramesOf
  <2>2. FrameTotal = SumFunctionOnSet(f, Acs)
    BY DEF FrameTotal, Total
  <2> HIDE DEF f
  <2>3. FrameTotal = 0
    BY <2>1, <2>2, XmitAssumption, SumZero
  <2> QED
    BY <2>3, XmitAssumption DEF Init, FrameInv, Holding, InTask
<1>2. XmitInv /\ XmitInv' /\ FrameInv /\ [Next]_vars => FrameInv'
  BY FrameInvStep DEF XmitInv
<1>3. XmitInv /\ FrameInv /\ BufInv => PoolAccounted
  <2> SUFFICES ASSUME XmitInv, FrameInv, BufInv PROVE PoolAccounted
    OBVIOUS
  <2> DEFINE f == [a \in Acs |-> IF host[a].pc = "direct" THEN 1 ELSE 0]
  <2>1. \A a \in Acs : f[a] = IF a \in Direct THEN 1 ELSE 0
    BY DEF Direct
  <2>2. Acs \cap Direct = Direct
    BY DEF Direct
  <2>3. SumFunctionOnSet(f, Acs) = Cardinality(Acs \cap Direct)
    <3> HIDE DEF f
    <3> QED
      BY <2>1, XmitAssumption, SumCount
  <2>4. Total(f) = Cardinality(Direct)
    BY <2>2, <2>3 DEF Total
  <2>5. pool.bufs + pool.air + Total(f) + Held = NBuf
    BY <2>4 DEF BufInv
  <2>6. \A a \in Acs : servq[a].qcnt = servq[a].len /\ servq[a].accnt = servq[a].len
    BY DEF XmitInv, QueueInv
  <2> QED
    BY <2>5, <2>6 DEF FrameInv, PoolAccounted, FrameTotal, Holding, Held
<1> QED
  BY <1>1, <1>2, <1>3, XmitAlways, XmitBuffersAccounted, PTL DEF Spec
=============================================================================
