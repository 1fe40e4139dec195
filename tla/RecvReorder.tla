---------------------------- MODULE RecvReorder ----------------------------
(* The receive reorder window of one traffic identifier of one peer:         *)
(* struct recv_reorder_ctrl (include/rtw_recv.h) and the code that uses it   *)
(* in core/rtw_recv.c, with ADDBA/DELBA (rtw_wlan_util.c, rtw_mlme_ext.c)    *)
(* and rtw_free_stainfo (rtw_sta_mgt.c).                                     *)
(*                                                                           *)
(* Three contexts run: the rx tasklet, the reordering timer and process      *)
(* context.  On one CPU the tasklet and the timer handler are softirqs and   *)
(* run to completion; with Smp they interleave.  The peer numbers its frames *)
(* First..Last; the driver sees only the number modulo M.                    *)
EXTENDS Integers, Sequences, FiniteSets

CONSTANTS
  M,          \* size of the sequence space, 4096 in the driver (12 bits)
  W,          \* wsize_b, the block-ack window, 64 in the driver
  First, Last,\* the frames the peer sends
  Sessions,   \* bound: ADDBA requests
  MaxUp,      \* bound: nothing is sent once so many frames were handed up
  DelBaFrom,  \* who may tear the session down: "peer" and/or "own"
  Smp,        \* tasklet, timer and process context on different CPUs
  Down        \* the device may be stopped and the station freed

ASSUME ReorderAssumption ==
  /\ M \in {16, 32, 4096}
  /\ W \in 2 .. M \div 4
  /\ First \in Nat \ {0} /\ Last \in Nat /\ First <= Last
  /\ Sessions \in Nat /\ MaxUp \in Nat
  /\ DelBaFrom \subseteq {"peer", "own"}
  /\ Smp \in BOOLEAN /\ Down \in BOOLEAN

VARIABLES
  enable,     \* preorder_ctrl->enable
  indicate,   \* preorder_ctrl->indicate_seq, Unset = 0xffff
  pending,    \* pending_recvframe_queue
  timer,      \* reordering_ctrl_timer is armed
  lock,       \* who holds pending_recvframe_queue.lock
  inbuf,      \* bPktInBuf of the one drain loop that runs
  tidseq,     \* rxcache.tid_rxseq[tid]
  rx,         \* the tasklet: where it is and the frame it carries
  handler,    \* rtw_reordering_ctrl_timeout_handler
  delba,      \* send_delba is between its two stores
  sta,        \* the station entry: in use, unhashed, freed
  stopped,    \* bDriverStopped or bSurpriseRemoved
  \* the peer
  base,       \* oldest frame it still sends
  agg,        \* it believes a block-ack session is up
  sess,       \* ADDBA requests so far
  \* history
  up,         \* frames handed to the stack: frame and session (0: none)
  dropped,    \* frames discarded as old or duplicate
  skip,       \* the driver gave up what is older
  top         \* newest frame received

code == <<enable, indicate, pending, timer, lock, inbuf, tidseq, rx, handler,
          delba, sta, stopped>>
peer == <<base, agg, sess>>
hist == <<up, dropped, skip, top>>
vars == <<code, peer, hist>>

Frames == First..Last
Sn(f) == f % M                        \* attrib->seq_num
Unset == 16 * M - 1                   \* 0xffff
\* SN_LESS: the top bit of the M-wide difference
SnLess(a, b) == (a - b) % M >= M \div 2

Larger(a, b) == IF a > b THEN a ELSE b
UpFrames == {up[i].f : i \in DOMAIN up}
Pending == {pending[i] : i \in DOMAIN pending}
Quiet == [pc |-> "idle", f |-> First]

\* Which softirq may run: on one CPU it runs to completion, and it interrupts
\* process context, which holds pending_recvframe_queue.lock with BH disabled.
RxTurn == Smp \/ handler = "idle"
HandlerTurn == Smp \/ rx.pc = "idle"
ProcessTurn == Smp \/ (rx.pc = "idle" /\ handler = "idle")

Init ==
    /\ enable = FALSE /\ indicate = Unset /\ pending = <<>>
    /\ timer = FALSE /\ lock = "free" /\ inbuf = FALSE /\ tidseq = Unset
    /\ rx = Quiet /\ handler = "idle" /\ delba = "idle"
    /\ sta = "up" /\ stopped = FALSE
    /\ base = First /\ agg = FALSE /\ sess = 0
    /\ up = <<>> /\ dropped = {} /\ skip = 0 /\ top = 0

-----------------------------------------------------------------------------
(* The peer (external).  It sends any frame of its window any number of      *)
(* times and loses any; without a session the window is one frame.  It never *)
(* runs so far ahead of the driver that sequence numbers become ambiguous.   *)
Window == base .. (IF agg THEN base + W - 1 ELSE base)
Advance ==
    /\ base < Last
    /\ base + 2 * W < Larger(top, First) + M \div 2
    /\ base' = base + 1
    /\ UNCHANGED <<code, agg, sess, hist>>
HearDelBa ==              \* the DELBA of send_delba arrives
    /\ agg /\ ~enable
    /\ agg' = FALSE
    /\ UNCHANGED <<code, base, sess, hist>>

-----------------------------------------------------------------------------
(* The tasklet.  A frame passes recv_decache with its station looked up.     *)
RxFrame(f) ==
    /\ RxTurn /\ rx.pc = "idle" /\ sta = "up" /\ Len(up) < MaxUp
    /\ f \in Window \cap Frames
    /\ IF Sn(f) = tidseq
       THEN /\ dropped' = dropped \union {f}
            /\ UNCHANGED <<tidseq, rx, top>>
       ELSE /\ tidseq' = Sn(f)
            /\ rx' = [pc |-> "post", f |-> f]
            /\ top' = Larger(top, f)
            /\ UNCHANGED dropped
    /\ UNCHANGED <<enable, indicate, pending, timer, lock, inbuf, handler,
                   delba, sta, stopped, peer, up, skip>>

HandUp(f) == up' = IF stopped THEN up
                   ELSE Append(up, [f |-> f, s |-> IF enable THEN sess ELSE 0])

\* No session: three statements of recv_indicatepkt_reorder without the lock.
RxDirect ==
    /\ RxTurn /\ rx.pc = "post" /\ ~enable
    /\ indicate' = Sn(rx.f)
    /\ rx' = [rx EXCEPT !.pc = "direct"]
    /\ UNCHANGED <<enable, pending, timer, lock, inbuf, tidseq, handler, delba,
                   sta, stopped, peer, hist>>
RxDirectUp ==
    /\ RxTurn /\ rx.pc = "direct"
    /\ HandUp(rx.f)
    /\ rx' = [rx EXCEPT !.pc = "directUp"]
    /\ UNCHANGED <<enable, indicate, pending, timer, lock, inbuf, tidseq,
                   handler, delba, sta, stopped, peer, dropped, skip, top>>
RxDirectInc_NoWrap ==     \* mutant: the sum is not reduced modulo 4096
    /\ RxTurn /\ rx.pc = "directUp"
    /\ indicate' = indicate + 1
    /\ rx' = Quiet
    /\ UNCHANGED <<enable, pending, timer, lock, inbuf, tidseq, handler, delba,
                   sta, stopped, peer, hist>>
RxDirectInc ==
    /\ RxTurn /\ rx.pc = "directUp"
    /\ indicate' = (indicate + 1) % M
    /\ rx' = Quiet
    /\ UNCHANGED <<enable, pending, timer, lock, inbuf, tidseq, handler, delba,
                   sta, stopped, peer, hist>>

RxEnabled ==              \* enable is read before the lock is taken
    /\ RxTurn /\ rx.pc = "post" /\ enable
    /\ rx' = [rx EXCEPT !.pc = "lock"]
    /\ UNCHANGED <<enable, indicate, pending, timer, lock, inbuf, tidseq,
                   handler, delba, sta, stopped, peer, hist>>

\* check_indicate_seq: the window start once frame number s has arrived.
\* wend is taken from indicate_seq before a fresh window is started.
Start(s) == IF indicate = Unset THEN s ELSE indicate
WindowEnd == (indicate + W - 1) % M
ShiftTo_Wide(s) ==        \* mutant: off by one, the window is W + 1 wide
    IF s >= W THEN s - W ELSE M - (W - s)
ShiftTo_Newest(s) ==      \* mutant: the window starts at the new frame
    s
ShiftTo(s) == IF s >= W - 1 THEN s + 1 - W ELSE (M - 1) - (W - (s + 1)) + 1
CheckIndicateSeq(s) ==
    IF s = Start(s) THEN (Start(s) + 1) % M
    ELSE IF SnLess(WindowEnd, s) THEN ShiftTo(s) ELSE Start(s)

\* enqueue_reorder_recvframe: the frame goes in front of the first one that
\* is not SN_LESS than it.
IsPlace_Tail(k, f) ==     \* mutant: always at the tail of the queue
    k = Len(pending) + 1
IsPlace(k, f) ==
    /\ \A j \in 1..k-1 : SnLess(Sn(pending[j]), Sn(f))
    /\ k <= Len(pending) => ~SnLess(Sn(pending[k]), Sn(f))
InsertAt(q, k, f) ==
    [i \in 1..Len(q)+1 |-> IF i < k THEN q[i] ELSE IF i = k THEN f ELSE q[i-1]]
Enqueue_KeepLock(f) == \E k \in 1..Len(pending)+1 :
    \* mutant: the duplicate returns without the unlock
    /\ IsPlace(k, f)
    /\ IF k <= Len(pending) /\ Sn(pending[k]) = Sn(f)
       THEN /\ dropped' = dropped \union {f} /\ rx' = Quiet /\ lock' = "rx"
            /\ UNCHANGED pending
       ELSE /\ pending' = InsertAt(pending, k, f)
            /\ rx' = [rx EXCEPT !.pc = "drain"] /\ lock' = "rx"
            /\ UNCHANGED dropped
Enqueue(f) == \E k \in 1..Len(pending)+1 :
    /\ IsPlace(k, f)
    /\ IF k <= Len(pending) /\ Sn(pending[k]) = Sn(f)
       THEN /\ dropped' = dropped \union {f} /\ rx' = Quiet /\ lock' = "free"
            /\ UNCHANGED pending
       ELSE /\ pending' = InsertAt(pending, k, f)
            /\ rx' = [rx EXCEPT !.pc = "drain"] /\ lock' = "rx"
            /\ UNCHANGED dropped

RxAdmit ==
    /\ RxTurn /\ rx.pc = "lock" /\ lock = "free"
    /\ inbuf' = FALSE
    /\ skip' = IF indicate = Unset THEN Larger(skip, rx.f) ELSE skip
    /\ IF SnLess(Sn(rx.f), Start(Sn(rx.f)))
       THEN /\ dropped' = dropped \union {rx.f} /\ rx' = Quiet
            /\ UNCHANGED <<indicate, pending, lock>>
       ELSE /\ indicate' = CheckIndicateSeq(Sn(rx.f))
            /\ Enqueue(rx.f)
    /\ UNCHANGED <<enable, timer, tidseq, handler, delba, sta, stopped, peer,
                   up, top>>

-----------------------------------------------------------------------------
(* The loop of recv_indicatepkts_in_order, one frame per step, run by the    *)
(* tasklet or by the timer handler, whoever holds the lock.                  *)
Ready == pending # <<>> /\ ~SnLess(indicate, Sn(Head(pending)))
Indicate ==
    /\ Ready
    /\ pending' = Tail(pending)
    /\ indicate' = IF indicate = Sn(Head(pending)) THEN (indicate + 1) % M
                   ELSE indicate
    /\ HandUp(Head(pending))
    /\ inbuf' = FALSE
DrainEnds ==
    /\ ~Ready
    /\ inbuf' = (pending # <<>>)
    /\ UNCHANGED <<pending, indicate, up>>
Drain == Indicate \/ DrainEnds

RxDrain ==
    /\ RxTurn /\ rx.pc = "drain"
    /\ Drain
    /\ rx' = [rx EXCEPT !.pc = IF Ready THEN "drain" ELSE "finish"]
    /\ UNCHANGED <<enable, timer, lock, tidseq, handler, delba, sta, stopped,
                   peer, dropped, skip, top>>
RxArm_NoTimer ==          \* mutant: the timer is not armed
    /\ RxTurn /\ rx.pc = "finish" /\ inbuf
    /\ lock' = "free" /\ rx' = Quiet
    /\ UNCHANGED <<enable, indicate, pending, timer, inbuf, tidseq, handler,
                   delba, sta, stopped, peer, hist>>
RxArm ==
    /\ RxTurn /\ rx.pc = "finish" /\ inbuf
    /\ timer' = TRUE /\ lock' = "free" /\ rx' = Quiet
    /\ UNCHANGED <<enable, indicate, pending, inbuf, tidseq, handler, delba,
                   sta, stopped, peer, hist>>
\* del_timer_sync waits until the handler has returned, with the lock held.
RxCancel ==
    /\ RxTurn /\ rx.pc = "finish" /\ ~inbuf /\ handler = "idle"
    /\ timer' = FALSE /\ lock' = "free" /\ rx' = Quiet
    /\ UNCHANGED <<enable, indicate, pending, inbuf, tidseq, handler, delba,
                   sta, stopped, peer, hist>>

-----------------------------------------------------------------------------
(* rtw_reordering_ctrl_timeout_handler                                       *)
Expire ==
    /\ HandlerTurn /\ timer /\ handler = "idle"
    /\ timer' = FALSE
    /\ handler' = IF stopped THEN "idle" ELSE "lock"
    /\ UNCHANGED <<enable, indicate, pending, lock, inbuf, tidseq, rx, delba,
                   sta, stopped, peer, hist>>
ForceIndicate ==
    /\ HandlerTurn /\ handler = "lock" /\ lock = "free"
    /\ IF pending = <<>>
       THEN /\ timer' = TRUE /\ handler' = "idle"
            /\ UNCHANGED <<indicate, lock, inbuf, skip>>
       ELSE /\ indicate' = Sn(Head(pending))
            /\ skip' = Larger(skip, Head(pending))
            /\ inbuf' = FALSE /\ lock' = "timer" /\ handler' = "drain"
            /\ UNCHANGED timer
    /\ UNCHANGED <<enable, pending, tidseq, rx, delba, sta, stopped, peer, up,
                   dropped, top>>
HandlerDrain ==
    /\ HandlerTurn /\ handler = "drain"
    /\ Drain
    /\ handler' = IF Ready THEN "drain" ELSE "finish"
    /\ UNCHANGED <<enable, timer, lock, tidseq, rx, delba, sta, stopped, peer,
                   dropped, skip, top>>
HandlerReturn_NoArm ==    \* mutant: the timeout does not arm the timer again
    /\ HandlerTurn /\ handler = "finish"
    /\ lock' = "free" /\ handler' = "idle"
    /\ UNCHANGED <<enable, indicate, pending, timer, inbuf, tidseq, rx, delba,
                   sta, stopped, peer, hist>>
HandlerReturn ==
    /\ HandlerTurn /\ handler = "finish"
    /\ timer' = IF inbuf THEN TRUE ELSE timer
    /\ lock' = "free" /\ handler' = "idle"
    /\ UNCHANGED <<enable, indicate, pending, inbuf, tidseq, rx, delba, sta,
                   stopped, peer, hist>>

-----------------------------------------------------------------------------
(* ADDBA and DELBA.  The peer's arrive in the tasklet; send_delba runs in    *)
(* process context.  None takes the lock or touches the pending queue.       *)
AddBa ==
    /\ RxTurn /\ rx.pc = "idle" /\ sta = "up" /\ sess < Sessions
    /\ indicate' = Unset
    /\ \E accept \in BOOLEAN : enable' = accept /\ agg' = accept
    /\ sess' = sess + 1
    /\ UNCHANGED <<pending, timer, lock, inbuf, tidseq, rx, handler, delba, sta,
                   stopped, base, hist>>
DelBa ==
    /\ RxTurn /\ rx.pc = "idle" /\ sta = "up" /\ agg /\ "peer" \in DelBaFrom
    /\ enable' = FALSE /\ indicate' = Unset /\ agg' = FALSE
    /\ UNCHANGED <<pending, timer, lock, inbuf, tidseq, rx, handler, delba, sta,
                   stopped, base, sess, hist>>
SendDelBa ==
    /\ ProcessTurn /\ delba = "idle" /\ sta = "up" /\ enable /\ "own" \in DelBaFrom
    /\ enable' = FALSE
    /\ delba' = "unset"
    /\ UNCHANGED <<indicate, pending, timer, lock, inbuf, tidseq, rx, handler,
                   sta, stopped, peer, hist>>
SendDelBaUnset ==
    /\ ProcessTurn /\ delba = "unset"
    /\ indicate' = Unset
    /\ delba' = "idle"
    /\ UNCHANGED <<enable, pending, timer, lock, inbuf, tidseq, rx, handler,
                   sta, stopped, peer, hist>>

-----------------------------------------------------------------------------
(* bDriverStopped / bSurpriseRemoved, and rtw_free_stainfo                   *)
Stop ==
    /\ Down /\ ~stopped
    /\ stopped' = TRUE
    /\ UNCHANGED <<enable, indicate, pending, timer, lock, inbuf, tidseq, rx,
                   handler, delba, sta, peer, hist>>
FreeUnhash ==
    /\ ProcessTurn /\ Down /\ sta = "up" /\ delba = "idle"
    /\ sta' = "unhashed"
    /\ UNCHANGED <<enable, indicate, pending, timer, lock, inbuf, tidseq, rx,
                   handler, delba, stopped, peer, hist>>
FreeCancel_NoCancel ==    \* mutant: the timer stays armed
    /\ ProcessTurn /\ sta = "unhashed"
    /\ sta' = "cancelled"
    /\ UNCHANGED <<enable, indicate, pending, timer, lock, inbuf, tidseq, rx,
                   handler, delba, stopped, peer, hist>>
FreeCancel ==
    /\ ProcessTurn /\ sta = "unhashed" /\ handler = "idle"
    /\ timer' = FALSE
    /\ sta' = "cancelled"
    /\ UNCHANGED <<enable, indicate, pending, lock, inbuf, tidseq, rx, handler,
                   delba, stopped, peer, hist>>
FreeFlush ==
    /\ ProcessTurn /\ sta = "cancelled" /\ lock = "free"
    /\ pending' = <<>>
    /\ sta' = "free"
    /\ UNCHANGED <<enable, indicate, timer, lock, inbuf, tidseq, rx, handler,
                   delba, stopped, peer, hist>>

Rx == \/ \E f \in Frames : RxFrame(f)
      \/ RxDirect \/ RxDirectUp \/ RxDirectInc \/ RxEnabled \/ RxAdmit
      \/ RxDrain \/ RxArm \/ RxCancel
Timer == Expire \/ ForceIndicate \/ HandlerDrain \/ HandlerReturn
Process == SendDelBa \/ SendDelBaUnset \/ Stop \/ FreeUnhash \/ FreeCancel
           \/ FreeFlush
Next == Rx \/ Timer \/ Process \/ Advance \/ HearDelBa \/ AddBa \/ DelBa

Spec == Init /\ [][Next]_vars

(* A softirq runs to its end, and the timer softirq and a process waiting in *)
(* rtw_free_stainfo get their turn between two frames however many arrive:   *)
(* strong fairness, since every frame disables them for a moment on one CPU. *)
(* Nothing obliges the peer to send.                                         *)
Fairness ==
    /\ WF_vars(RxDirect \/ RxDirectUp \/ RxDirectInc \/ RxEnabled \/ RxAdmit
               \/ RxDrain \/ RxArm \/ RxCancel)
    /\ SF_vars(Timer)
    /\ SF_vars(SendDelBaUnset \/ FreeCancel \/ FreeFlush)
FairSpec == Spec /\ Fairness

-----------------------------------------------------------------------------
FlagTypes ==
    /\ enable \in BOOLEAN /\ inbuf \in BOOLEAN /\ timer \in BOOLEAN
    /\ stopped \in BOOLEAN /\ agg \in BOOLEAN
QueueTypes ==
    /\ indicate \in (0 .. M - 1) \union {Unset}
    /\ tidseq \in (0 .. M - 1) \union {Unset}
    /\ pending \in Seq(Frames)
    /\ up \in Seq([f : Frames, s : 0 .. Sessions])
    /\ dropped \subseteq Frames
    /\ base \in Frames /\ sess \in 0 .. Sessions /\ skip \in Nat /\ top \in Nat
PlaceTypes ==
    /\ rx \in [pc : {"idle", "post", "direct", "directUp", "lock", "drain",
                     "finish"}, f : Frames]
    /\ handler \in {"idle", "lock", "drain", "finish"}
    /\ delba \in {"idle", "unset"}
    /\ sta \in {"up", "unhashed", "cancelled", "free"}
LockOwner ==
    /\ lock \in {"free", "rx", "timer"}
    /\ lock = "rx" <=> rx.pc \in {"drain", "finish"}
    /\ lock = "timer" <=> handler \in {"drain", "finish"}

(* Every variable keeps its type, and the lock is held by the context that   *)
(* runs the drain loop and by nobody else.                                   *)
TypeOK == FlagTypes /\ QueueTypes /\ PlaceTypes /\ LockOwner

(* Between two frames the queue is sorted and every frame in it lies inside  *)
(* the window that starts at indicate_seq, across the wrap at 4096 as well:  *)
(* what check_indicate_seq and the drain loop maintain together.             *)
WindowInv ==
    lock = "free" =>
        /\ \A i, j \in DOMAIN pending : i < j => pending[i] < pending[j]
        /\ \A i \in DOMAIN pending :
               (Sn(pending[i]) - indicate) % M \in 1 .. W - 1

(* Within one block-ack session the stack gets the frames in the order the   *)
(* peer sent them and none twice, whatever the air and the timer do.         *)
InOrder ==
    \A i, j \in DOMAIN up :
        i < j /\ up[i].s = up[j].s /\ up[i].s # 0 => up[i].f < up[j].f

(* A frame is discarded as old or duplicate only if it was handed up, is     *)
(* buffered, or is older than a frame at which the driver (re)started the    *)
(* window: the first of a session or the head of a forced indication.        *)
DropJustified ==
    sta = "up" /\ ~stopped =>
        \A f \in dropped : f < skip \/ f \in UpFrames \union Pending

(* A buffered frame is never left without a timer that will release it.      *)
NoStuckFrame ==
    lock = "free" /\ pending # <<>> /\ sta = "up" /\ ~stopped =>
        timer \/ handler # "idle"

(* After rtw_free_stainfo neither the timer nor the queue of the entry is in *)
(* use: sta_mgt.c:492 "cancel reordering_ctrl_timer".                        *)
FreedIsQuiet ==
    sta = "free" => ~timer /\ handler = "idle" /\ pending = <<>>

(* rtw_recv.c:3231 "Insert all packet into Reorder Queue to maintain its     *)
(* ordering": no frame waits in the queue while the stack has a newer one.   *)
KeepsOrdering ==
    lock = "free" => \A p \in Pending, u \in UpFrames : u < p

(* A buffered frame is handed up in the end, unless the device stops or the  *)
(* station goes: the hole in front of it may never be filled.                *)
BufferedIsIndicated ==
    \A f \in Frames : f \in Pending ~> f \in UpFrames \/ stopped \/ sta # "up"

(* del_timer_sync, called with the lock held, waits for the handler that     *)
(* waits for the lock: neither comes back.                                   *)
Deadlocked == rx.pc = "finish" /\ lock = "rx" /\ ~inbuf /\ handler = "lock"

(* The tasklet comes back from every frame, beside a handler on another CPU  *)
(* that takes the same lock, or stands in that one deadlock, which it can    *)
(* reach only with a frame that empties the queue.                           *)
RxReturns == rx.pc # "idle" ~> rx.pc = "idle" \/ Deadlocked
=============================================================================
