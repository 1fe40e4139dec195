------------------------------ MODULE TxContract ------------------------------
(* What a driver owes the network stack for the packets it takes, one         *)
(* subqueue per access category: every packet is given back exactly once, and *)
(* giving one back that was sent, or dropped after it had been accepted, wakes *)
(* the subqueue.  A packet refused at once wakes nothing.                     *)
(*   owed      packets of the subqueue taken and not given back               *)
(*   stopped   netif_stop_subqueue was called, netif_wake_subqueue not since  *)
(*   refused   a packet was refused while the subqueue was stopped, and none  *)
(*             given back since                                               *)
EXTENDS Naturals

CONSTANTS Acs
VARIABLES owed, stopped, refused
vars == <<owed, stopped, refused>>

Init ==
    /\ owed = [a \in Acs |-> 0]
    /\ stopped = [a \in Acs |-> FALSE] /\ refused = [a \in Acs |-> FALSE]

\* The stack does not call a driver for a stopped subqueue.
Take(a) ==
    /\ ~stopped[a]
    /\ owed' = [owed EXCEPT ![a] = @ + 1]
    /\ UNCHANGED <<stopped, refused>>

\* A subqueue is stopped only while a packet of it is owed: nothing else can
\* wake it.
Stop(a) ==
    /\ owed[a] > 0
    /\ stopped' = [stopped EXCEPT ![a] = TRUE]
    /\ UNCHANGED <<owed, refused>>

GiveBack(a) ==
    \E n \in 1 .. owed[a] :
        /\ owed' = [owed EXCEPT ![a] = @ - n]
        /\ stopped' = [stopped EXCEPT ![a] = FALSE]
        /\ refused' = [refused EXCEPT ![a] = FALSE]

Refuse(a) ==
    /\ owed[a] > 0
    /\ owed' = [owed EXCEPT ![a] = @ - 1]
    /\ refused' = [refused EXCEPT ![a] = @ \/ stopped[a]]
    /\ UNCHANGED stopped

Next == \E a \in Acs : Take(a) \/ Stop(a) \/ GiveBack(a) \/ Refuse(a)
Spec == Init /\ [][Next]_vars

\* A subqueue that is stopped has a packet whose return will wake it, or was left
\* stopped by a refused packet.
StoppedIsOwed ==
    \A a \in Acs : stopped[a] /\ ~refused[a] => owed[a] > 0
=============================================================================
