------------------------------- MODULE ApSleep -------------------------------
(* Frames of an access point for sleeping stations: core/rtw_xmit.c,          *)
(* core/rtw_recv.c, core/rtw_ap.c, core/rtw_cmd.c, core/rtw_mlme_ext.c and     *)
(* core/rtw_sta_mgt.c.  Frames are counted per destination and category; a    *)
(* destination is a station or Bmc, the broadcast sta_info.                   *)
(*   sta    the entry of a station: linked (_FW_LINKED) or leaving (cleared,  *)
(*          not yet freed), sleep (WIFI_SLEEP_STATE), chk (ALIVE_CHK)         *)
(*   q      sleep_q and the pending queues, sleepq_len, sleepq_ac_len         *)
(*   bits   sta_dz_bitmap, tim_bitmap, the aids the beacon's TIM element      *)
(*          names (ie); raced: destinations whose bit or length was cleared   *)
(*          outside the lock after a frame was queued behind the test         *)
(*   tx     the sender and its frame between its sections under the lock      *)
(*   rx     the receive tasklet after a section under the lock                *)
(*   cmd    the commands queued (tx_beacon, chk_bmc_sleepq, chk_hi_queue) and *)
(*          where the command thread is; failed: a beacon could not be put    *)
(*          into the device while multicast frames were held, and nothing has *)
(*          asked for them since (history)                                    *)
(* pxmitpriv->lock and sta_hash_lock count as one lock: a handler finds its   *)
(* station and takes the lock in one step.                                    *)
EXTENDS Integers, FiniteSetsExt, Functions

CONSTANTS Stas, Bmc,   \* associated stations, the broadcast entry
          Acs, Be,     \* access categories, the one of priority 0
          Uapsd,       \* Uapsd[s]: its delivery-enabled categories
          Aid,         \* Aid[s]: its association identifier
          NFrames,     \* NR_XMITFRAME
          Movers,      \* bound: stations that come, go and fall silent
          Traffic,     \* bound: destinations the stack has frames for
          PollRace,    \* whether others run between the steps of an empty PS-Poll
          OverMax      \* bound: how far sleepq_ac_len may exceed the frames it counts

ASSUME ApSleepAssumption ==
    /\ IsFiniteSet(Stas) /\ Bmc \notin Stas
    /\ IsFiniteSet(Acs) /\ Be \in Acs
    /\ Uapsd \in [Stas -> SUBSET Acs]
    /\ Aid \in [Stas -> 1 .. 15] /\ \A s, t \in Stas : Aid[s] = Aid[t] => s = t
    /\ NFrames \in Nat /\ OverMax \in Nat
    /\ PollRace \in BOOLEAN
    /\ Movers \subseteq Stas /\ Traffic \subseteq Stas \cup {Bmc}

VARIABLES sta, q, bits, tx, rx, cmd
vars == <<sta, q, bits, tx, rx, cmd>>

Dests == Stas \cup {Bmc}
Counts == [Acs -> Nat]
None == [a \in Acs |-> 0]
StaStates == [pc : {"gone", "linked", "leaving"}, sleep : BOOLEAN, chk : BOOLEAN]
QueueStates == [slp : Counts, pend : Counts, len : Int, aclen : Int]
BitStates == [dz : SUBSET (0 .. 15), tim : SUBSET (0 .. 15), ie : SUBSET (0 .. 15),
              raced : SUBSET Dests]
TxStates == [pc : {"idle", "queue", "pre"}, to : Dests, ac : Acs]
RxStates == [pc : {"idle", "tell", "poll"}, sta : Dests]
CmdStates == [bcn : BOOLEAN, chk : BOOLEAN, hiq : BOOLEAN, failed : BOOLEAN,
              pc : {"idle", "bmc", "hiq", "tell"}]
TypeOK ==
    /\ sta \in [Stas -> StaStates] /\ q \in [Dests -> QueueStates]
    /\ bits \in BitStates
    /\ tx \in TxStates /\ rx \in RxStates /\ cmd \in CmdStates

Gone == [pc |-> "gone", sleep |-> FALSE, chk |-> FALSE]
Empty == [slp |-> None, pend |-> None, len |-> 0, aclen |-> 0]
TxIdle == [pc |-> "idle", to |-> Bmc, ac |-> Be]
RxIdle == [pc |-> "idle", sta |-> Bmc]
Init ==
    /\ sta = [s \in Stas |-> IF s \in Movers THEN Gone ELSE [Gone EXCEPT !.pc = "linked"]]
    /\ q = [d \in Dests |-> Empty]
    /\ bits = [dz |-> {}, tim |-> {}, ie |-> {}, raced |-> {}]
    /\ tx = TxIdle /\ rx = RxIdle
    /\ cmd = [bcn |-> FALSE, chk |-> FALSE, hiq |-> FALSE, failed |-> FALSE, pc |-> "idle"]

Linked(d) == IF d = Bmc THEN TRUE ELSE sta[d].pc = "linked"
Found(s) == sta[s].pc # "gone"
AidOf(d) == IF d = Bmc THEN 0 ELSE IF Found(d) THEN Aid[d] ELSE 0
HasLegacy(s) == Uapsd[s] # Acs
PollDone(d) == PollRace \/ ~(rx.pc = "poll" /\ rx.sta = d)
Sum(f) == SumFunctionOnSet(f, Acs)
SumOver(f, as) == SumFunctionOnSet(f, as)
DeliveryEnabled(d) == IF d = Bmc THEN {} ELSE Uapsd[d]
Plus(f, g) == [a \in Acs |-> f[a] + g[a]]
Only(a, n) == [None EXCEPT ![a] = n]
Free == NFrames - (IF tx.pc = "idle" THEN 0 ELSE 1)
        - SumFunctionOnSet([d \in Dests |-> Sum(q[d].slp) + Sum(q[d].pend)], Dests)

\* update_BCNTIM: a partial bitmap of one byte holds the high half of tim_bitmap
\* when that is not empty, at the place of the low half.
TimIe(tim) ==
    LET high == {i \in tim : i >= 8}
    IN  IF high # {} /\ tim \cap (1 .. 7) = {}
        THEN ({i - 8 : i \in high} \ {0}) \cup (tim \cap {0})
        ELSE tim

\* rtw_hal_xmitframe_enqueue: a frame of a station that is not linked is freed.
Sent(d, f) == IF Linked(d) THEN Plus(q[d].pend, f) ELSE q[d].pend

\* A frame sets the bit if polls fetch it, or if every category is delivery-enabled.
SetsTim(d, a) == d = Bmc \/ (HasLegacy(d) <=> a \notin Uapsd[d])

\* The queue of d after frames f are put into its sleep_q.
Put(d, f) ==
    [q[d] EXCEPT !.slp = Plus(@, f), !.len = @ + Sum(f),
                 !.aclen = @ + SumOver(f, DeliveryEnabled(d))]

\* tim_bitmap becomes tim; with tell, update_beacon follows in the same step.
Beacon(tim, tell) == IF tell THEN TimIe(tim) ELSE bits.ie

-----------------------------------------------------------------------------
(* The sender: rtw_xmit and xmitframe_enqueue_for_sleeping_sta.              *)

Send(d, a) ==
    /\ tx.pc = "idle" /\ Free > 0 /\ d \in Traffic /\ Linked(d) /\ (d = Bmc => a = Be)
    /\ tx' = [pc |-> "queue", to |-> d, ac |-> a]
    /\ UNCHANGED <<sta, q, bits, rx, cmd>>

Buffers(d) ==
    IF d = Bmc THEN bits.dz # {}
    ELSE Linked(d) /\ sta[d].sleep /\ Aid[d] \in bits.dz

EnqueueForSleepingSta_NoCheck ==    \* mutant: no command for the later frames
    /\ tx.pc = "queue" /\ Buffers(tx.to) /\ PollDone(tx.to)
    /\ LET d == tx.to
           own == IF SetsTim(d, tx.ac) THEN {AidOf(d)} ELSE {}
           fresh == own \ bits.tim # {}
       IN  /\ q' = [q EXCEPT ![d] = Put(d, Only(tx.ac, 1))]
           /\ bits' = [bits EXCEPT !.tim = @ \cup own,
                                   !.dz = IF d = Bmc THEN @ \cup {0} ELSE @,
                                   !.ie = Beacon(bits.tim \cup own, fresh),
                                   !.raced = IF d = Bmc /\ fresh THEN @ \ {Bmc} ELSE @]
           /\ cmd' = [cmd EXCEPT !.bcn = @ \/ fresh]
    /\ tx' = TxIdle
    /\ UNCHANGED <<sta, rx>>
\* Into sleep_q: the beacon is updated when the bit is new, and later multicast
\* frames ask for chk_bmc_sleepq instead.
EnqueueForSleepingSta ==
    /\ tx.pc = "queue" /\ Buffers(tx.to) /\ PollDone(tx.to)
    /\ LET d == tx.to
           own == IF SetsTim(d, tx.ac) THEN {AidOf(d)} ELSE {}
           fresh == own \ bits.tim # {}
       IN  /\ q' = [q EXCEPT ![d] = Put(d, Only(tx.ac, 1))]
           /\ bits' = [bits EXCEPT !.tim = @ \cup own,
                                   !.dz = IF d = Bmc THEN @ \cup {0} ELSE @,
                                   !.ie = Beacon(bits.tim \cup own, fresh),
                                   !.raced = IF d = Bmc /\ fresh THEN @ \ {Bmc} ELSE @]
           /\ cmd' = [cmd EXCEPT !.bcn = @ \/ fresh, !.chk = @ \/ (d = Bmc /\ ~fresh),
                                 !.failed = @ /\ d # Bmc]
    /\ tx' = TxIdle
    /\ UNCHANGED <<sta, rx>>

NotForSleepingSta ==
    /\ tx.pc = "queue" /\ ~Buffers(tx.to)
    /\ tx' = [tx EXCEPT !.pc = "pre"]
    /\ UNCHANGED <<sta, q, bits, rx, cmd>>

\* pre_xmitframe, under the lock again.
PreXmit ==
    /\ tx.pc = "pre"
    /\ q' = [q EXCEPT ![tx.to].pend = Sent(tx.to, Only(tx.ac, 1))]
    /\ tx' = TxIdle
    /\ UNCHANGED <<sta, bits, rx, cmd>>

\* The transmit tasklet takes a pending frame.
Transmit(d, a) ==
    /\ q[d].pend[a] > 0
    /\ q' = [q EXCEPT ![d].pend[a] = @ - 1]
    /\ UNCHANGED <<sta, bits, tx, rx, cmd>>

-----------------------------------------------------------------------------
(* The receive tasklet.  Peers send data only when they are associated.      *)

\* process_pwrbit_data with the power bit: stop_sta_xmit moves what is pending,
\* and the pending multicast frames, into the sleep queues.
Doze(s) ==
    /\ rx.pc = "idle" /\ Found(s) /\ ~sta[s].sleep
    /\ sta' = [sta EXCEPT ![s].sleep = TRUE]
    /\ LET mine == IF Linked(s) THEN q[s].pend ELSE None
           group == q[Bmc].pend
           own == IF \E a \in Acs : mine[a] > 0 /\ SetsTim(s, a) THEN {Aid[s]} ELSE {}
           all == IF Sum(group) > 0 THEN {0} ELSE {}
           tim == bits.tim \cup own \cup all
       IN  /\ q' = [q EXCEPT
                      ![s] = [Put(s, mine) EXCEPT !.pend = IF Linked(s) THEN None ELSE @],
                      ![Bmc] = [Put(Bmc, group) EXCEPT !.pend = None]]
           /\ bits' = [bits EXCEPT !.dz = @ \cup {Aid[s]} \cup all, !.tim = tim,
                                   !.ie = Beacon(tim, tim # bits.tim),
                                   !.raced = IF all \subseteq bits.tim THEN @ ELSE @ \ {Bmc}]
           /\ cmd' = [cmd EXCEPT !.bcn = @ \/ tim # bits.tim,
                                 !.chk = @ \/ (all # {} /\ (0 \in bits.tim \/ Sum(group) > 1)),
                                 !.failed = @ /\ all = {}]
    /\ UNCHANGED <<tx, rx>>

\* wakeup_sta_to_xmit up to the unlock: the queue is drained; when sleepq_len is 0
\* the bits and states are cleared; when no station sleeps, Bmc is drained too.
\* The bits it leaves: Awake(s).tim, .dz; whether Bmc is drained: Awake(s).all.
Awake(s) ==
    LET woken == q[s].len = Sum(q[s].slp)
        own == IF woken THEN {AidOf(s)} ELSE {}
        all == bits.dz \ own \subseteq {0}
        group == IF all THEN {0} ELSE {}
    IN  [woken |-> woken, all |-> all,
         dz |-> bits.dz \ (own \cup group), tim |-> bits.tim \ (own \cup group)]

Drained(d) ==
    [slp |-> None, pend |-> Sent(d, q[d].slp), len |-> q[d].len - Sum(q[d].slp),
     aclen |-> q[d].aclen - SumOver(q[d].slp, DeliveryEnabled(d))]

WakeupStaToXmit(s) ==
    /\ sta' = IF Awake(s).woken THEN [sta EXCEPT ![s].sleep = FALSE, ![s].chk = FALSE]
              ELSE sta
    /\ q' = [q EXCEPT ![s] = Drained(s), ![Bmc] = IF Awake(s).all THEN Drained(Bmc) ELSE @]
    /\ bits' = [bits EXCEPT !.dz = Awake(s).dz, !.tim = Awake(s).tim,
                            !.raced = IF Awake(s).all THEN @ \ {Bmc} ELSE @]

Wake(s) ==
    /\ rx.pc = "idle" /\ Found(s) /\ sta[s].sleep
    /\ WakeupStaToXmit(s)
    /\ rx' = IF Awake(s).tim # bits.tim THEN [RxIdle EXCEPT !.pc = "tell"] ELSE RxIdle
    /\ UNCHANGED <<tx, cmd>>

\* update_beacon after the unlock.
WakeTells ==
    /\ rx.pc = "tell"
    /\ bits' = [bits EXCEPT !.ie = TimIe(bits.tim)]
    /\ cmd' = [cmd EXCEPT !.bcn = TRUE]
    /\ rx' = RxIdle
    /\ UNCHANGED <<sta, q, tx>>

\* process_wmmps_data: a trigger fetches every delivery-enabled frame.
Trigger(s) ==
    /\ rx.pc = "idle" /\ Found(s) /\ sta[s].sleep /\ Uapsd[s] # {}
    /\ LET out == [a \in Acs |-> IF a \in Uapsd[s] THEN q[s].slp[a] ELSE 0]
           clear == Sum(out) > 0 /\ q[s].aclen = Sum(out) /\ ~HasLegacy(s)
           tim == IF clear THEN bits.tim \ {Aid[s]} ELSE bits.tim
       IN  IF q[s].aclen > 0
           THEN /\ q' = [q EXCEPT ![s] =
                           [slp |-> [a \in Acs |-> q[s].slp[a] - out[a]],
                            pend |-> Sent(s, out), len |-> q[s].len - Sum(out),
                            aclen |-> q[s].aclen - Sum(out)]]
                /\ bits' = [bits EXCEPT !.tim = tim, !.ie = Beacon(tim, clear)]
                /\ cmd' = [cmd EXCEPT !.bcn = @ \/ clear]
           ELSE UNCHANGED <<q, bits, cmd>>
    /\ UNCHANGED <<sta, tx, rx>>

Over(s) == q[s].aclen - SumOver(q[s].slp, Uapsd[s])
PollAnswered(s) == Found(s) /\ Be \notin Uapsd[s]
Polled(s) == sta' = [sta EXCEPT ![s].chk = FALSE]

PollFetch_Clears(s) ==    \* mutant: the bit goes with the first frame
    /\ rx.pc = "idle" /\ PollAnswered(s) /\ Polled(s)
    /\ sta[s].sleep /\ Aid[s] \in bits.dz
    /\ \E a \in Acs :
         /\ q[s].slp[a] > 0 /\ (a \in Uapsd[s] => Over(s) < OverMax)
         /\ q' = [q EXCEPT ![s] =
                     [slp |-> [q[s].slp EXCEPT ![a] = @ - 1], len |-> q[s].len - 1,
                      pend |-> Sent(s, Only(a, 1)), aclen |-> q[s].aclen]]
    /\ bits' = [bits EXCEPT !.tim = @ \ {Aid[s]}, !.ie = TimIe(bits.tim \ {Aid[s]})]
    /\ cmd' = [cmd EXCEPT !.bcn = TRUE]
    /\ UNCHANGED <<tx, rx>>
PollFetch_NoTest(s) ==    \* mutant: an empty queue is not tested for
    /\ rx.pc = "idle" /\ PollAnswered(s) /\ Polled(s)
    /\ sta[s].sleep /\ Aid[s] \in bits.dz
    /\ \E a \in Acs :
         /\ (a \in Uapsd[s] => Over(s) < OverMax)
         /\ q' = [q EXCEPT ![s] =
                     [slp |-> [q[s].slp EXCEPT ![a] = @ - 1], len |-> q[s].len - 1,
                      pend |-> Sent(s, Only(a, 1)), aclen |-> q[s].aclen]]
    /\ LET clear == q[s].len = 1
           tim == IF clear THEN bits.tim \ {Aid[s]} ELSE bits.tim
       IN  /\ bits' = [bits EXCEPT !.tim = tim, !.ie = Beacon(tim, clear)]
           /\ cmd' = [cmd EXCEPT !.bcn = @ \/ clear]
    /\ UNCHANGED <<tx, rx>>
\* validate_recv_ctrl_frame: a PS-Poll fetches the head of sleep_q, whatever its
\* category; the last one clears the bit.
PollFetch(s) ==
    /\ rx.pc = "idle" /\ PollAnswered(s) /\ Polled(s)
    /\ sta[s].sleep /\ Aid[s] \in bits.dz
    /\ \E a \in Acs :
         /\ q[s].slp[a] > 0 /\ (a \in Uapsd[s] => Over(s) < OverMax)
         /\ q' = [q EXCEPT ![s] =
                     [slp |-> [q[s].slp EXCEPT ![a] = @ - 1], len |-> q[s].len - 1,
                      pend |-> Sent(s, Only(a, 1)), aclen |-> q[s].aclen]]
    /\ LET clear == q[s].len = 1
           tim == IF clear THEN bits.tim \ {Aid[s]} ELSE bits.tim
       IN  /\ bits' = [bits EXCEPT !.tim = tim, !.ie = Beacon(tim, clear)]
           /\ cmd' = [cmd EXCEPT !.bcn = @ \/ clear]
    /\ UNCHANGED <<tx, rx>>

PollFindsNone(s) ==
    /\ rx.pc = "idle" /\ PollAnswered(s) /\ Polled(s)
    /\ sta[s].sleep /\ Aid[s] \in bits.dz /\ q[s].slp = None
    /\ rx' = [pc |-> "poll", sta |-> s]
    /\ UNCHANGED <<q, bits, tx, cmd>>

\* After the unlock: a set bit is cleared, and a length that is not 0 is zeroed.
PollEmpty ==
    /\ rx.pc = "poll"
    /\ LET s == rx.sta
           tim == bits.tim \ {AidOf(s)}
           hit == AidOf(s) \in bits.tim
       IN  /\ q' = IF hit THEN [q EXCEPT ![s].len = 0] ELSE q
           /\ bits' = [bits EXCEPT
                !.tim = tim, !.ie = Beacon(tim, hit),
                !.raced = @ \cup (IF hit /\ q[s].slp # None THEN {s} ELSE {})
                            \cup (IF hit /\ AidOf(s) = 0 THEN {Bmc} ELSE {})]
           /\ cmd' = [cmd EXCEPT !.bcn = @ \/ hit]
    /\ rx' = RxIdle
    /\ UNCHANGED <<sta, tx>>

-----------------------------------------------------------------------------
(* The command thread.                                                       *)

\* tx_beacon_hdl puts the beacon into the device and then does chk_bmc_sleepq_hdl.
CmdBeacon ==
    /\ cmd.pc = "idle" /\ cmd.bcn
    /\ cmd' = [cmd EXCEPT !.bcn = FALSE, !.failed = FALSE,
                          !.pc = IF 0 \in bits.tim /\ q[Bmc].len > 0 THEN "bmc" ELSE @]
    /\ UNCHANGED <<sta, q, bits, tx, rx>>

\* send_beacon gives up, after 100 attempts on a live device or at once on a stopped
\* one: tx_beacon_hdl returns without chk_bmc_sleepq_hdl, and the command is spent.
CmdBeaconFails ==
    /\ cmd.pc = "idle" /\ cmd.bcn
    /\ cmd' = [cmd EXCEPT !.bcn = FALSE, !.failed = @ \/ q[Bmc].len > 0]
    /\ UNCHANGED <<sta, q, bits, tx, rx>>

CmdBmcSleepq ==
    /\ cmd.pc = "idle" /\ cmd.chk
    /\ cmd' = [cmd EXCEPT !.chk = FALSE, !.failed = FALSE,
                          !.pc = IF 0 \in bits.tim /\ q[Bmc].len > 0 THEN "bmc" ELSE @]
    /\ UNCHANGED <<sta, q, bits, tx, rx>>

CmdBmcMoves_One ==    \* mutant: one frame for each command
    /\ cmd.pc = "bmc"
    /\ q' = IF q[Bmc].slp[Be] = 0 THEN q
            ELSE [q EXCEPT ![Bmc].slp[Be] = @ - 1, ![Bmc].len = @ - 1, ![Bmc].pend[Be] = @ + 1]
    /\ cmd' = [cmd EXCEPT !.pc = "idle", !.hiq = TRUE]
    /\ UNCHANGED <<sta, bits, tx, rx>>
\* 10 ms later, under the lock.
CmdBmcMoves ==
    /\ cmd.pc = "bmc"
    /\ q' = [q EXCEPT ![Bmc] = Drained(Bmc)]
    /\ cmd' = [cmd EXCEPT !.pc = "idle", !.hiq = TRUE]
    /\ UNCHANGED <<sta, bits, tx, rx>>

\* rtw_chk_hi_queue_hdl, once the hardware's queue is empty: without a lock the
\* length is tested, and then the bits are cleared.
CmdHiQueue ==
    /\ cmd.pc = "idle" /\ cmd.hiq
    /\ cmd' = [cmd EXCEPT !.hiq = FALSE, !.pc = IF q[Bmc].len = 0 THEN "hiq" ELSE @]
    /\ UNCHANGED <<sta, q, bits, tx, rx>>

ClearsGroupBit ==
    bits' = [bits EXCEPT !.dz = @ \ {0}, !.tim = @ \ {0},
                         !.raced = IF q[Bmc].len > 0 THEN @ \cup {Bmc} ELSE @]

CmdHiQueueClears ==
    /\ cmd.pc = "hiq"
    /\ LET hit == 0 \in bits.tim
       IN  /\ bits' = [bits EXCEPT
                !.dz = @ \ {0}, !.tim = @ \ {0}, !.ie = Beacon(bits.tim \ {0}, hit),
                !.raced = IF q[Bmc].len > 0 THEN @ \cup {Bmc} ELSE @]
           /\ cmd' = [cmd EXCEPT !.pc = "idle", !.bcn = @ \/ hit]
    /\ UNCHANGED <<sta, q, tx, rx>>

\* expire_timeout_chk: a sleeping station whose expire_to ran out is called by
\* the TIM element.  It is then probed, and freed if it answers none (Leave).
CmdExpires(s) ==
    /\ cmd.pc = "idle" /\ s \in Movers /\ Linked(s) /\ sta[s].sleep /\ ~sta[s].chk
    /\ LET tim == bits.tim \cup {Aid[s]}
       IN  bits' = [bits EXCEPT !.tim = tim, !.ie = TimIe(tim)]
    /\ sta' = [sta EXCEPT ![s].chk = TRUE]
    /\ cmd' = [cmd EXCEPT !.bcn = TRUE]
    /\ UNCHANGED <<q, tx, rx>>

\* A station that holds more than its share of a pool that runs low is drained;
\* here, any that holds a frame may be.
CmdDigest(s) ==
    /\ cmd.pc = "idle" /\ Linked(s) /\ q[s].len > 0
    /\ WakeupStaToXmit(s)
    /\ cmd' = IF Awake(s).tim # bits.tim THEN [cmd EXCEPT !.pc = "tell"] ELSE cmd
    /\ UNCHANGED <<tx, rx>>

CmdTells ==
    /\ cmd.pc = "tell"
    /\ bits' = [bits EXCEPT !.ie = TimIe(bits.tim)]
    /\ cmd' = [cmd EXCEPT !.pc = "idle", !.bcn = TRUE]
    /\ UNCHANGED <<sta, q, tx, rx>>

-----------------------------------------------------------------------------
(* Stations come and go.                                                     *)

Assoc(s) ==
    /\ sta[s].pc = "gone"
    /\ sta' = [sta EXCEPT ![s] = [Gone EXCEPT !.pc = "linked"]]
    /\ UNCHANGED <<q, bits, tx, rx, cmd>>

\* ap_free_sta: the host's wish, the peer's, or a station that answers no probe.
Leave(s) ==
    /\ sta[s].pc = "linked" /\ s \in Movers
    /\ sta' = [sta EXCEPT ![s].pc = "leaving"]
    /\ UNCHANGED <<q, bits, tx, rx, cmd>>

FreeSta_KeepsBits(s) ==    \* mutant: the sleeping bit is not cleared
    /\ sta[s].pc = "leaving" /\ PollDone(s)
    /\ sta' = [sta EXCEPT ![s] = Gone]
    /\ q' = [q EXCEPT ![s] = Empty]
    /\ bits' = [bits EXCEPT !.tim = @ \ {Aid[s]}, !.raced = @ \ {s}]
    /\ UNCHANGED <<tx, rx, cmd>>
\* rtw_free_stainfo: the queues are flushed and the bits cleared.
FreeSta(s) ==
    /\ sta[s].pc = "leaving" /\ PollDone(s)
    /\ sta' = [sta EXCEPT ![s] = Gone]
    /\ q' = [q EXCEPT ![s] = Empty]
    /\ bits' = [bits EXCEPT !.dz = @ \ {Aid[s]}, !.tim = @ \ {Aid[s]}, !.raced = @ \ {s}]
    /\ UNCHANGED <<tx, rx, cmd>>

\* rtw_free_stainfo of a station that only authenticated: its aid is 0.
AuthExpires ==
    /\ 0 \in bits.dz \cup bits.tim
    /\ ClearsGroupBit
    /\ UNCHANGED <<sta, q, tx, rx, cmd>>

-----------------------------------------------------------------------------
Sender == EnqueueForSleepingSta \/ NotForSleepingSta \/ PreXmit
Rx(s) == Doze(s) \/ Wake(s) \/ Trigger(s) \/ PollFetch(s) \/ PollFindsNone(s)
RxEnds == WakeTells \/ PollEmpty
CmdEnds == CmdBmcMoves \/ CmdHiQueueClears \/ CmdTells
Next ==
    \/ \E d \in Dests, a \in Acs : Send(d, a) \/ Transmit(d, a)
    \/ Sender \/ RxEnds \/ AuthExpires
    \/ CmdBeacon \/ CmdBeaconFails \/ CmdBmcSleepq \/ CmdHiQueue \/ CmdEnds
    \/ \E s \in Stas : \/ Rx(s) \/ CmdExpires(s) \/ CmdDigest(s)
                       \/ Assoc(s) \/ Leave(s) \/ FreeSta(s)

Spec == Init /\ [][Next]_vars

\* The command thread serves its queue in order and comes back from each command.
FairSpec ==
    /\ Spec
    /\ SF_vars(CmdBeacon \/ CmdBeaconFails) /\ SF_vars(CmdBmcSleepq) /\ WF_vars(CmdEnds)

-----------------------------------------------------------------------------
(* Properties.                                                               *)

\* sleepq_len counts the sleep queue and sleepq_ac_len is never short of the
\* delivery-enabled frames in it, so that neither wraps below 0 and keeps its
\* station asleep; and a station that is gone has no frame and no bit.
SleepAccounted ==
    /\ \A d \in Dests \ bits.raced :
         /\ q[d].len = Sum(q[d].slp)
         /\ q[d].aclen >= SumOver(q[d].slp, DeliveryEnabled(d))
    /\ \A s \in Stas : ~Found(s) => q[s] = Empty /\ Aid[s] \notin bits.dz

\* A frame a sleeping station has to be told of has its bit in tim_bitmap, and the
\* beacon's element names it or is about to: but for a bitmap with only aids
\* above 7, which update_BCNTIM puts in the wrong place.
TimTold ==
    \A s \in Stas \ bits.raced, a \in Acs :
        Linked(s) /\ sta[s].sleep /\ q[s].slp[a] > 0 /\ (a \notin Uapsd[s] \/ ~HasLegacy(s)) =>
            /\ Aid[s] \in bits.tim
            /\ \/ Aid[s] \in bits.ie
               \/ rx.pc = "tell" \/ cmd.pc = "tell"
               \/ Aid[s] >= 8 /\ bits.tim \cap (1 .. 7) = {}

\* Multicast frames held for sleepers have their bit and a command that will send
\* them, unless a beacon could not be put into the device and no multicast frame has
\* been held since, which asks for them again.
BmcServed ==
    q[Bmc].len > 0 /\ Bmc \notin bits.raced =>
        /\ 0 \in bits.tim
        /\ cmd.bcn \/ cmd.chk \/ cmd.pc = "bmc" \/ cmd.failed

\* Multicast frames held for sleepers are sent in the end, or their bit was cleared
\* behind them, or a beacon could not be put into the device.
BmcLeaves == q[Bmc].len > 0 ~> q[Bmc].len = 0 \/ Bmc \in bits.raced \/ cmd.failed
=============================================================================
