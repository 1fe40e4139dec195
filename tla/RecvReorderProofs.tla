-------------------------- MODULE RecvReorderProofs --------------------------
(* Proofs about RecvReorder for every sequence space of the assumption, the  *)
(* driver's 4096 among them, every window and every number of frames.        *)
EXTENDS RecvReorder, TLAPS

-----------------------------------------------------------------------------
(* The invariants of the proofs.                                             *)

\* bPktInBuf of a finished loop tells whether the queue is empty.
FinishInv ==
    rx.pc = "finish" \/ handler = "finish" => inbuf = (pending # <<>>)

\* On one CPU: once the station is unhashed the tasklet has left it, once the
\* timer is cancelled nothing runs for it.
FreeInv ==
    /\ sta # "up" => rx.pc = "idle"
    /\ sta \in {"cancelled", "free"} => ~timer /\ handler = "idle"
    /\ sta = "free" => pending = <<>>

\* The peer's window and the newest frame.
PeerInv ==
    /\ base + 2 * W <= Larger(top, First) + M \div 2
    /\ top <= base + W - 1
    /\ rx.pc \in {"post", "lock"} => rx.f <= top /\ top <= rx.f + W - 1

Sorted(q) == \A i, j \in DOMAIN q : i < j => q[i] < q[j]

\* Frame a stands at the start of the window.
WindowAt(a) ==
    /\ indicate = Sn(a)
    /\ First <= top /\ a <= top + 1
    /\ IF rx.pc \in {"post", "lock"}
       THEN rx.f < a + M \div 2 /\ (top = rx.f \/ top <= a + W - 1)
       ELSE top <= a + W - 1
    /\ \A i \in DOMAIN pending :
          /\ pending[i] <= top /\ pending[i] <= a + W - 1
          /\ IF rx.pc = "drain" \/ handler = "drain"
             THEN a < pending[i] + M \div 2 ELSE a < pending[i]
    /\ \A i \in DOMAIN up : up[i].s # 0 => up[i].f < a

\* One session: before it, before its first frame, and while it runs.
OrderInv ==
    /\ Sorted(pending)
    /\ InOrder
    /\ \A i \in DOMAIN up, j \in DOMAIN pending :
          up[i].s # 0 => up[i].f < pending[j]
ModeInv ==
    /\ enable => sess = 1 /\ rx.pc \notin {"direct", "directUp"}
    /\ ~enable => rx.pc \in {"idle", "post", "direct", "directUp"}
    /\ delba = "idle"
FreshInv ==
    ~enable \/ indicate = Unset =>
        /\ pending = <<>> /\ ~timer /\ handler = "idle"
        /\ rx.pc \notin {"drain", "finish"}
        /\ \A i \in DOMAIN up : up[i].s = 0
StartInv == enable /\ indicate # Unset => \E a \in Nat : WindowAt(a)
SessionInv == PeerInv /\ OrderInv /\ ModeInv /\ FreshInv /\ StartInv


-----------------------------------------------------------------------------
(* Sequence numbers.  The assumption leaves three sizes; in each the         *)
(* arithmetic is linear.                                                     *)

(* A sum taken modulo 4096, and a number itself, is a 12-bit number.         *)
LEMMA ModType ==
  ASSUME NEW x \in Int
  PROVE  x % M \in 0 .. M - 1
<1>1. CASE M = 16 BY <1>1
<1>2. CASE M = 32 BY <1>2
<1>3. CASE M = 4096 BY <1>3
<1> QED BY <1>1, <1>2, <1>3, ReorderAssumption

(* The constants as numbers.                                                 *)
LEMMA Consts ==
  /\ M \in Nat /\ M > 0 /\ M \div 2 \in Nat /\ 2 * (M \div 2) = M
  /\ W \in Nat /\ W >= 2 /\ 2 * W <= M \div 2
  /\ First \in Nat /\ First > 0 /\ Last \in Nat /\ Sessions \in Nat
  /\ Unset \in Nat /\ Unset >= M
<1>1. CASE M = 16 BY <1>1, ReorderAssumption DEF Unset
<1>2. CASE M = 32 BY <1>2, ReorderAssumption DEF Unset
<1>3. CASE M = 4096 BY <1>3, ReorderAssumption DEF Unset
<1> QED BY <1>1, <1>2, <1>3, ReorderAssumption

(* SN_LESS compares frames less than half the space apart as the peer does.  *)
LEMMA SnLessIff ==
  ASSUME NEW a \in Nat, NEW b \in Nat, a < b + M \div 2, b < a + M \div 2
  PROVE  SnLess(Sn(a), Sn(b)) <=> a < b
<1>1. CASE M = 16 BY <1>1 DEF SnLess, Sn
<1>2. CASE M = 32 BY <1>2 DEF SnLess, Sn
<1>3. CASE M = 4096 BY <1>3 DEF SnLess, Sn
<1> QED BY <1>1, <1>2, <1>3, ReorderAssumption

(* SN_EQUAL identifies frames that are that close.                           *)
LEMMA SnEqual ==
  ASSUME NEW a \in Nat, NEW b \in Nat, a < b + M \div 2, b < a + M \div 2
  PROVE  Sn(a) = Sn(b) <=> a = b
<1>1. CASE M = 16 BY <1>1 DEF Sn
<1>2. CASE M = 32 BY <1>2 DEF Sn
<1>3. CASE M = 4096 BY <1>3 DEF Sn
<1> QED BY <1>1, <1>2, <1>3, ReorderAssumption

(* Adding to a sequence number is adding to the frame.                       *)
LEMMA SnPlus ==
  ASSUME NEW a \in Nat, NEW d \in Nat
  PROVE  (Sn(a) + d) % M = Sn(a + d)
<1>1. CASE M = 16 BY <1>1 DEF Sn
<1>2. CASE M = 32 BY <1>2 DEF Sn
<1>3. CASE M = 4096 BY <1>3 DEF Sn
<1> QED BY <1>1, <1>2, <1>3, ReorderAssumption

(* The distance of two frames in the sequence space.                         *)
LEMMA SnDistance ==
  ASSUME NEW a \in Nat, NEW b \in Nat, a <= b, b < a + M
  PROVE  (Sn(b) - Sn(a)) % M = b - a
<1>1. CASE M = 16 BY <1>1 DEF Sn
<1>2. CASE M = 32 BY <1>2 DEF Sn
<1>3. CASE M = 4096 BY <1>3 DEF Sn
<1> QED BY <1>1, <1>2, <1>3, ReorderAssumption

(* Both branches of the window shift put its start W - 1 below the frame.    *)
LEMMA ShiftToStart ==
  ASSUME NEW f \in Nat, W <= f + 1
  PROVE  ShiftTo(Sn(f)) = Sn(f + 1 - W)
<1>1. CASE M = 16 BY <1>1, ReorderAssumption DEF Sn, ShiftTo
<1>2. CASE M = 32 BY <1>2, ReorderAssumption DEF Sn, ShiftTo
<1>3. CASE M = 4096 BY <1>3, ReorderAssumption DEF Sn, ShiftTo
<1> QED BY <1>1, <1>2, <1>3, ReorderAssumption

(* Frame numbers are 12-bit numbers and never the 0xffff of a fresh window.   *)
LEMMA SnType ==
  /\ \A f \in Nat : Sn(f) \in 0 .. M - 1 /\ Sn(f) # Unset
  /\ \A s \in 0 .. M - 1 : ShiftTo(s) \in 0 .. M - 1
  /\ \A s \in 0 .. M - 1 : ~SnLess(s, s)
<1> USE ReorderAssumption
<1>1. \A f \in Nat : Sn(f) \in 0 .. M - 1 /\ Sn(f) # Unset
  BY ModType DEF Sn, Unset
<1>2. ASSUME NEW s \in 0 .. M - 1 PROVE ShiftTo(s) \in 0 .. M - 1
  BY DEF ShiftTo
<1>3. ASSUME NEW s \in 0 .. M - 1 PROVE ~SnLess(s, s)
  <2>1. s - s = 0 OBVIOUS
  <2>2. 0 % M = 0
    <3>1. CASE M = 16 BY <3>1
    <3>2. CASE M = 32 BY <3>2
    <3>3. CASE M = 4096 BY <3>3
    <3> QED BY <3>1, <3>2, <3>3
  <2> QED BY <2>1, <2>2 DEF SnLess
<1> QED BY <1>1, <1>2, <1>3

(* check_indicate_seq leaves a 12-bit number behind.                         *)
LEMMA CheckType ==
  ASSUME indicate \in (0 .. M - 1) \union {Unset}, NEW s \in 0 .. M - 1
  PROVE  CheckIndicateSeq(s) \in 0 .. M - 1
<1>1. Start(s) \in 0 .. M - 1 BY DEF Start
<1>2. (Start(s) + 1) % M \in 0 .. M - 1 BY <1>1, ModType, ReorderAssumption
<1> QED BY <1>1, <1>2, SnType DEF CheckIndicateSeq

-----------------------------------------------------------------------------
(* The queue as a sequence.                                                  *)

(* Taking the head: the rest moves down one place.                           *)
LEMMA TailFacts ==
  ASSUME NEW S, NEW q \in Seq(S), q # <<>>
  PROVE  /\ Len(q) \in Nat \ {0} /\ Head(q) = q[1] /\ Head(q) \in S
         /\ Tail(q) \in Seq(S) /\ Len(Tail(q)) = Len(q) - 1
         /\ DOMAIN Tail(q) = 1 .. Len(q) - 1 /\ DOMAIN q = 1 .. Len(q)
         /\ \A i \in 1 .. Len(q) - 1 : Tail(q)[i] = q[i + 1]
OBVIOUS

(* Inserting: the tail from place k on moves up one place.                   *)
LEMMA InsertFacts ==
  ASSUME NEW q \in Seq(Frames), NEW k \in 1 .. Len(q) + 1, NEW f \in Frames
  PROVE  /\ InsertAt(q, k, f) \in Seq(Frames)
         /\ DOMAIN InsertAt(q, k, f) = 1 .. Len(q) + 1
         /\ \A i \in 1 .. Len(q) + 1 : InsertAt(q, k, f)[i] =
               IF i < k THEN q[i] ELSE IF i = k THEN f ELSE q[i - 1]
<1> DEFINE r == InsertAt(q, k, f)
<1>1. ASSUME NEW i \in 1 .. Len(q) + 1
      PROVE  r[i] \in Frames
  BY DEF InsertAt
<1>2. r \in [1 .. Len(q) + 1 -> Frames] BY <1>1 DEF InsertAt
<1> QED BY <1>2 DEF InsertAt

(* Handing up appends at most one entry and changes none.                    *)
LEMMA HandUpFacts ==
  ASSUME TypeOK, NEW f \in Frames, HandUp(f)
  PROVE  /\ up' \in Seq([f : Frames, s : 0 .. Sessions])
         /\ \/ up' = up
            \/ /\ DOMAIN up' = 1 .. Len(up) + 1 /\ Len(up) \in Nat
               /\ \A i \in 1 .. Len(up) : up'[i] = up[i]
               /\ up'[Len(up) + 1] = [f |-> f, s |-> IF enable THEN sess ELSE 0]
<1>1. CASE stopped BY <1>1 DEF TypeOK, QueueTypes, HandUp
<1>2. CASE ~stopped
  <2> DEFINE e == [f |-> f, s |-> IF enable THEN sess ELSE 0]
  <2>1. e \in [f : Frames, s : 0 .. Sessions] BY Consts DEF TypeOK, QueueTypes, FlagTypes
  <2>2. up' = Append(up, e) BY <1>2 DEF HandUp
  <2> HIDE DEF e
  <2>3. up' \in Seq([f : Frames, s : 0 .. Sessions]) BY <2>1, <2>2 DEF TypeOK, QueueTypes
  <2>4. DOMAIN up' = 1 .. Len(up) + 1 /\ Len(up) \in Nat BY <2>1, <2>2 DEF TypeOK, QueueTypes
  <2>5. \A i \in 1 .. Len(up) : up'[i] = up[i] BY <2>1, <2>2 DEF TypeOK, QueueTypes
  <2>6. up'[Len(up) + 1] = e BY <2>1, <2>2 DEF TypeOK, QueueTypes
  <2> QED BY <2>3, <2>4, <2>5, <2>6 DEF e
<1> QED BY <1>1, <1>2

(* A drain step shortens the queue by its head or leaves everything alone.   *)
LEMMA DrainFacts ==
  ASSUME TypeOK, Drain
  PROVE  /\ pending' \in Seq(Frames)
         /\ up' \in Seq([f : Frames, s : 0 .. Sessions])
         /\ indicate' \in (0 .. M - 1) \union {Unset}
         /\ inbuf' \in BOOLEAN
         /\ ~Ready => pending' = pending /\ inbuf' = (pending # <<>>)
<1>1. CASE Indicate
  <2>1. Head(pending) \in Frames /\ Tail(pending) \in Seq(Frames)
    BY <1>1, TailFacts DEF Indicate, Ready, TypeOK, QueueTypes
  <2>2. up' \in Seq([f : Frames, s : 0 .. Sessions])
    BY <1>1, <2>1, HandUpFacts DEF Indicate
  <2>3. (indicate + 1) % M \in 0 .. M - 1
    BY ModType, Consts DEF TypeOK, QueueTypes
  <2> QED BY <1>1, <2>1, <2>2, <2>3 DEF Indicate, TypeOK, QueueTypes
<1>2. CASE DrainEnds BY <1>2 DEF DrainEnds, TypeOK, QueueTypes, FlagTypes
<1> QED BY <1>1, <1>2 DEF Drain

-----------------------------------------------------------------------------
(* Types, the lock and the timer: for any number of sessions and CPUs.       *)

BaseInv == TypeOK /\ FinishInv /\ NoStuckFrame

LEMMA BaseInit == Init => BaseInv
<1> SUFFICES ASSUME Init PROVE BaseInv OBVIOUS
<1> USE DEF Init
<1>1. Quiet \in [pc : {"idle", "post", "direct", "directUp", "lock", "drain",
                       "finish"}, f : Frames] /\ Quiet.pc = "idle"
  BY ReorderAssumption DEF Quiet, Frames
<1>2. FlagTypes BY DEF FlagTypes
<1>5. PlaceTypes BY <1>1 DEF PlaceTypes
<1>6. LockOwner BY <1>1 DEF LockOwner
<1>4. QueueTypes BY Consts, ReorderAssumption DEF QueueTypes, Frames
<1>3. FinishInv /\ NoStuckFrame
  BY DEF FinishInv, NoStuckFrame, Quiet
<1> QED BY <1>2, <1>3, <1>4, <1>5, <1>6 DEF BaseInv, TypeOK

LEMMA BaseStep == BaseInv /\ [Next]_vars => BaseInv'
<1> SUFFICES ASSUME BaseInv, [Next]_vars PROVE BaseInv' OBVIOUS
<1> USE DEF BaseInv, TypeOK
<1>0. Quiet \in [pc : {"idle", "post", "direct", "directUp", "lock", "drain",
                       "finish"}, f : Frames] /\ Quiet.pc = "idle"
  BY Consts, ReorderAssumption DEF Quiet, Frames
<1>1. ASSUME NEW f \in Frames, RxFrame(f) PROVE BaseInv'
  <2>0. Sn(f) \in 0 .. M - 1 /\ f \in Nat BY SnType, Consts DEF Frames
  <2>1. Larger(top, f) \in Nat BY <2>0 DEF Larger, QueueTypes
  <2>3. FlagTypes' BY <1>1, <2>0, <2>1 DEF RxFrame, peer, FlagTypes
  <2>4. QueueTypes' BY <1>1, <2>0, <2>1 DEF RxFrame, peer, QueueTypes
  <2>5. PlaceTypes' BY <1>1, <2>0, <2>1 DEF RxFrame, peer, PlaceTypes
  <2>6. LockOwner' BY <1>1, <2>0, <2>1 DEF RxFrame, peer, LockOwner, PlaceTypes
  <2>7. FinishInv' BY <1>1, <2>0, <2>1 DEF RxFrame, peer, FinishInv, LockOwner, PlaceTypes
  <2>8. NoStuckFrame' BY <1>1, <2>0, <2>1 DEF RxFrame, peer, NoStuckFrame, FinishInv, LockOwner, PlaceTypes
  <2> QED BY <2>3, <2>4, <2>5, <2>6, <2>7, <2>8
<1>2. ASSUME RxDirect PROVE BaseInv'
  <2>0. Sn(rx.f) \in 0 .. M - 1 BY SnType, Consts DEF PlaceTypes, Frames
  <2>3. FlagTypes' BY <1>2, <2>0 DEF RxDirect, peer, hist, FlagTypes
  <2>4. QueueTypes' BY <1>2, <2>0 DEF RxDirect, peer, hist, QueueTypes
  <2>5. PlaceTypes' BY <1>2, <2>0 DEF RxDirect, peer, hist, PlaceTypes
  <2>6. LockOwner' BY <1>2, <2>0 DEF RxDirect, peer, hist, LockOwner, PlaceTypes
  <2>7. FinishInv' BY <1>2, <2>0 DEF RxDirect, peer, hist, FinishInv, LockOwner, PlaceTypes
  <2>8. NoStuckFrame' BY <1>2, <2>0 DEF RxDirect, peer, hist, NoStuckFrame, FinishInv, LockOwner, PlaceTypes
  <2> QED BY <2>3, <2>4, <2>5, <2>6, <2>7, <2>8
<1>3. ASSUME RxDirectUp PROVE BaseInv'
  <2>0. up' \in Seq([f : Frames, s : 0 .. Sessions])
    BY <1>3, HandUpFacts DEF RxDirectUp, PlaceTypes
  <2>3. FlagTypes' BY <1>3, <2>0 DEF RxDirectUp, peer, FlagTypes
  <2>4. QueueTypes' BY <1>3, <2>0 DEF RxDirectUp, peer, QueueTypes
  <2>5. PlaceTypes' BY <1>3, <2>0 DEF RxDirectUp, peer, PlaceTypes
  <2>6. LockOwner' BY <1>3, <2>0 DEF RxDirectUp, peer, LockOwner, PlaceTypes
  <2>7. FinishInv' BY <1>3, <2>0 DEF RxDirectUp, peer, FinishInv, LockOwner, PlaceTypes
  <2>8. NoStuckFrame' BY <1>3, <2>0 DEF RxDirectUp, peer, NoStuckFrame, FinishInv, LockOwner, PlaceTypes
  <2> QED BY <2>3, <2>4, <2>5, <2>6, <2>7, <2>8
<1>4. ASSUME RxDirectInc PROVE BaseInv'
  <2>0. (indicate + 1) % M \in 0 .. M - 1 BY ModType, Consts DEF QueueTypes
  <2>3. FlagTypes' BY <1>4, <2>0, <1>0 DEF RxDirectInc, peer, hist, FlagTypes
  <2>4. QueueTypes' BY <1>4, <2>0, <1>0 DEF RxDirectInc, peer, hist, QueueTypes
  <2>5. PlaceTypes' BY <1>4, <2>0, <1>0 DEF RxDirectInc, peer, hist, PlaceTypes
  <2>6. LockOwner' BY <1>4, <2>0, <1>0 DEF RxDirectInc, peer, hist, LockOwner, PlaceTypes
  <2>7. FinishInv' BY <1>4, <2>0, <1>0 DEF RxDirectInc, peer, hist, FinishInv, LockOwner, PlaceTypes
  <2>8. NoStuckFrame' BY <1>4, <2>0, <1>0 DEF RxDirectInc, peer, hist, NoStuckFrame, FinishInv, LockOwner, PlaceTypes
  <2> QED BY <2>3, <2>4, <2>5, <2>6, <2>7, <2>8
<1>5. ASSUME RxEnabled PROVE BaseInv'
  <2>3. FlagTypes' BY <1>5 DEF RxEnabled, peer, hist, FlagTypes
  <2>4. QueueTypes' BY <1>5 DEF RxEnabled, peer, hist, QueueTypes
  <2>5. PlaceTypes' BY <1>5 DEF RxEnabled, peer, hist, PlaceTypes
  <2>6. LockOwner' BY <1>5 DEF RxEnabled, peer, hist, LockOwner, PlaceTypes
  <2>7. FinishInv' BY <1>5 DEF RxEnabled, peer, hist, FinishInv, LockOwner, PlaceTypes
  <2>8. NoStuckFrame' BY <1>5 DEF RxEnabled, peer, hist, NoStuckFrame, FinishInv, LockOwner, PlaceTypes
  <2> QED BY <2>3, <2>4, <2>5, <2>6, <2>7, <2>8
<1>6. ASSUME RxAdmit PROVE BaseInv'
  <2>f. rx.f \in Frames /\ rx.f \in Nat /\ Sn(rx.f) \in 0 .. M - 1
    BY SnType, Consts DEF PlaceTypes, Frames
  <2>a. CheckIndicateSeq(Sn(rx.f)) \in 0 .. M - 1 BY <2>f, CheckType DEF QueueTypes
  <2>b. skip' \in Nat BY <1>6, <2>f DEF RxAdmit, Larger, QueueTypes
  <2>c. indicate' \in (0 .. M - 1) \union {Unset}
    BY <1>6, <2>a DEF RxAdmit, QueueTypes
  <2>d. \/ /\ pending' = pending /\ lock' = "free" /\ rx' = Quiet
           /\ dropped' = dropped \union {rx.f}
        \/ /\ pending' \in Seq(Frames) /\ lock' = "rx" /\ dropped' = dropped
           /\ rx' = [rx EXCEPT !.pc = "drain"]
    <3>1. CASE SnLess(Sn(rx.f), Start(Sn(rx.f))) BY <1>6, <3>1 DEF RxAdmit
    <3>2. CASE ~SnLess(Sn(rx.f), Start(Sn(rx.f)))
      <4>1. Enqueue(rx.f) BY <1>6, <3>2 DEF RxAdmit
      <4>2. PICK k \in 1 .. Len(pending) + 1 :
               \/ /\ dropped' = dropped \union {rx.f} /\ rx' = Quiet
                  /\ lock' = "free" /\ pending' = pending
               \/ /\ pending' = InsertAt(pending, k, rx.f)
                  /\ rx' = [rx EXCEPT !.pc = "drain"] /\ lock' = "rx"
                  /\ dropped' = dropped
        BY <4>1 DEF Enqueue
      <4>3. InsertAt(pending, k, rx.f) \in Seq(Frames)
        BY <2>f, InsertFacts DEF QueueTypes
      <4> QED BY <4>2, <4>3
    <3> QED BY <3>1, <3>2
  <2>e. /\ lock = "free" /\ rx.pc = "lock"
        /\ UNCHANGED <<enable, timer, tidseq, handler, delba, sta, stopped,
                       base, agg, sess, up, top>>
        /\ inbuf' = FALSE
    BY <1>6 DEF RxAdmit, peer
  <2>3. FlagTypes' BY <2>f, <2>b, <2>c, <2>d, <2>e, <1>0 DEF FlagTypes
  <2>4. QueueTypes' BY <2>f, <2>b, <2>c, <2>d, <2>e, <1>0 DEF QueueTypes
  <2>5. PlaceTypes' BY <2>f, <2>b, <2>c, <2>d, <2>e, <1>0 DEF PlaceTypes
  <2>6. LockOwner' BY <2>f, <2>b, <2>c, <2>d, <2>e, <1>0 DEF LockOwner, PlaceTypes
  <2>7. FinishInv' BY <2>f, <2>b, <2>c, <2>d, <2>e, <1>0 DEF FinishInv, LockOwner, PlaceTypes
  <2>8. NoStuckFrame' BY <2>f, <2>b, <2>c, <2>d, <2>e, <1>0 DEF NoStuckFrame, FinishInv, LockOwner, PlaceTypes
  <2> QED BY <2>3, <2>4, <2>5, <2>6, <2>7, <2>8
<1>7. ASSUME RxDrain PROVE BaseInv'
  <2>0. /\ pending' \in Seq(Frames)
        /\ up' \in Seq([f : Frames, s : 0 .. Sessions])
        /\ indicate' \in (0 .. M - 1) \union {Unset}
        /\ inbuf' \in BOOLEAN
        /\ ~Ready => pending' = pending /\ inbuf' = (pending # <<>>)
    BY <1>7, DrainFacts DEF RxDrain
  <2>3. FlagTypes' BY <1>7, <2>0 DEF RxDrain, peer, FlagTypes
  <2>4. QueueTypes' BY <1>7, <2>0 DEF RxDrain, peer, QueueTypes
  <2>5. PlaceTypes' BY <1>7, <2>0 DEF RxDrain, peer, PlaceTypes
  <2>6. LockOwner' BY <1>7, <2>0 DEF RxDrain, peer, LockOwner, PlaceTypes
  <2>7. FinishInv' BY <1>7, <2>0 DEF RxDrain, peer, FinishInv, LockOwner, PlaceTypes
  <2>8. NoStuckFrame' BY <1>7, <2>0 DEF RxDrain, peer, NoStuckFrame, FinishInv, LockOwner, PlaceTypes
  <2> QED BY <2>3, <2>4, <2>5, <2>6, <2>7, <2>8
<1>8. ASSUME RxArm PROVE BaseInv'
  <2>3. FlagTypes' BY <1>8, <1>0 DEF RxArm, peer, hist, FlagTypes
  <2>4. QueueTypes' BY <1>8, <1>0 DEF RxArm, peer, hist, QueueTypes
  <2>5. PlaceTypes' BY <1>8, <1>0 DEF RxArm, peer, hist, PlaceTypes
  <2>6. LockOwner' BY <1>8, <1>0 DEF RxArm, peer, hist, LockOwner, PlaceTypes
  <2>7. FinishInv' BY <1>8, <1>0 DEF RxArm, peer, hist, FinishInv, LockOwner, PlaceTypes
  <2>8. NoStuckFrame' BY <1>8, <1>0 DEF RxArm, peer, hist, NoStuckFrame, FinishInv, LockOwner, PlaceTypes
  <2> QED BY <2>3, <2>4, <2>5, <2>6, <2>7, <2>8
<1>9. ASSUME RxCancel PROVE BaseInv'
  <2>3. FlagTypes' BY <1>9, <1>0 DEF RxCancel, peer, hist, FlagTypes
  <2>4. QueueTypes' BY <1>9, <1>0 DEF RxCancel, peer, hist, QueueTypes
  <2>5. PlaceTypes' BY <1>9, <1>0 DEF RxCancel, peer, hist, PlaceTypes
  <2>6. LockOwner' BY <1>9, <1>0 DEF RxCancel, peer, hist, LockOwner, PlaceTypes
  <2>7. FinishInv' BY <1>9, <1>0 DEF RxCancel, peer, hist, FinishInv, LockOwner, PlaceTypes
  <2>8. NoStuckFrame' BY <1>9, <1>0 DEF RxCancel, peer, hist, NoStuckFrame, FinishInv, LockOwner, PlaceTypes
  <2> QED BY <2>3, <2>4, <2>5, <2>6, <2>7, <2>8
<1>10. ASSUME Expire PROVE BaseInv'
  <2>3. FlagTypes' BY <1>10 DEF Expire, peer, hist, FlagTypes
  <2>4. QueueTypes' BY <1>10 DEF Expire, peer, hist, QueueTypes
  <2>5. PlaceTypes' BY <1>10 DEF Expire, peer, hist, PlaceTypes
  <2>6. LockOwner' BY <1>10 DEF Expire, peer, hist, LockOwner, PlaceTypes
  <2>7. FinishInv' BY <1>10 DEF Expire, peer, hist, FinishInv, LockOwner, PlaceTypes
  <2>8. NoStuckFrame' BY <1>10 DEF Expire, peer, hist, NoStuckFrame, FinishInv, LockOwner, PlaceTypes
  <2> QED BY <2>3, <2>4, <2>5, <2>6, <2>7, <2>8
<1>11. ASSUME ForceIndicate PROVE BaseInv'
  <2>0. ASSUME pending # <<>>
        PROVE  /\ Sn(Head(pending)) \in 0 .. M - 1
               /\ Larger(skip, Head(pending)) \in Nat
    <3>1. Head(pending) \in Frames BY <2>0, TailFacts DEF QueueTypes
    <3>2. Head(pending) \in Nat BY <3>1, Consts DEF Frames
    <3> QED BY <3>2, SnType DEF Larger, QueueTypes
  <2>3. FlagTypes' BY <1>11, <2>0 DEF ForceIndicate, peer, FlagTypes
  <2>4. QueueTypes' BY <1>11, <2>0 DEF ForceIndicate, peer, QueueTypes
  <2>5. PlaceTypes' BY <1>11, <2>0 DEF ForceIndicate, peer, PlaceTypes
  <2>6. LockOwner' BY <1>11, <2>0 DEF ForceIndicate, peer, LockOwner, PlaceTypes
  <2>7. FinishInv' BY <1>11, <2>0 DEF ForceIndicate, peer, FinishInv, LockOwner, PlaceTypes
  <2>8. NoStuckFrame' BY <1>11, <2>0 DEF ForceIndicate, peer, NoStuckFrame, FinishInv, LockOwner, PlaceTypes
  <2> QED BY <2>3, <2>4, <2>5, <2>6, <2>7, <2>8
<1>12. ASSUME HandlerDrain PROVE BaseInv'
  <2>0. /\ pending' \in Seq(Frames)
        /\ up' \in Seq([f : Frames, s : 0 .. Sessions])
        /\ indicate' \in (0 .. M - 1) \union {Unset}
        /\ inbuf' \in BOOLEAN
        /\ ~Ready => pending' = pending /\ inbuf' = (pending # <<>>)
    BY <1>12, DrainFacts DEF HandlerDrain
  <2>3. FlagTypes' BY <1>12, <2>0 DEF HandlerDrain, peer, FlagTypes
  <2>4. QueueTypes' BY <1>12, <2>0 DEF HandlerDrain, peer, QueueTypes
  <2>5. PlaceTypes' BY <1>12, <2>0 DEF HandlerDrain, peer, PlaceTypes
  <2>6. LockOwner' BY <1>12, <2>0 DEF HandlerDrain, peer, LockOwner, PlaceTypes
  <2>7. FinishInv' BY <1>12, <2>0 DEF HandlerDrain, peer, FinishInv, LockOwner, PlaceTypes
  <2>8. NoStuckFrame' BY <1>12, <2>0 DEF HandlerDrain, peer, NoStuckFrame, FinishInv, LockOwner, PlaceTypes
  <2> QED BY <2>3, <2>4, <2>5, <2>6, <2>7, <2>8
<1>13. ASSUME HandlerReturn PROVE BaseInv'
  <2>3. FlagTypes' BY <1>13 DEF HandlerReturn, peer, hist, FlagTypes
  <2>4. QueueTypes' BY <1>13 DEF HandlerReturn, peer, hist, QueueTypes
  <2>5. PlaceTypes' BY <1>13 DEF HandlerReturn, peer, hist, PlaceTypes
  <2>6. LockOwner' BY <1>13 DEF HandlerReturn, peer, hist, LockOwner, PlaceTypes
  <2>7. FinishInv' BY <1>13 DEF HandlerReturn, peer, hist, FinishInv, LockOwner, PlaceTypes
  <2>8. NoStuckFrame' BY <1>13 DEF HandlerReturn, peer, hist, NoStuckFrame, FinishInv, LockOwner, PlaceTypes
  <2> QED BY <2>3, <2>4, <2>5, <2>6, <2>7, <2>8
<1>14. ASSUME SendDelBa PROVE BaseInv'
  <2>3. FlagTypes' BY <1>14 DEF SendDelBa, peer, hist, FlagTypes
  <2>4. QueueTypes' BY <1>14 DEF SendDelBa, peer, hist, QueueTypes
  <2>5. PlaceTypes' BY <1>14 DEF SendDelBa, peer, hist, PlaceTypes
  <2>6. LockOwner' BY <1>14 DEF SendDelBa, peer, hist, LockOwner, PlaceTypes
  <2>7. FinishInv' BY <1>14 DEF SendDelBa, peer, hist, FinishInv, LockOwner, PlaceTypes
  <2>8. NoStuckFrame' BY <1>14 DEF SendDelBa, peer, hist, NoStuckFrame, FinishInv, LockOwner, PlaceTypes
  <2> QED BY <2>3, <2>4, <2>5, <2>6, <2>7, <2>8
<1>15. ASSUME SendDelBaUnset PROVE BaseInv'
  <2>3. FlagTypes' BY <1>15 DEF SendDelBaUnset, peer, hist, FlagTypes
  <2>4. QueueTypes' BY <1>15 DEF SendDelBaUnset, peer, hist, QueueTypes
  <2>5. PlaceTypes' BY <1>15 DEF SendDelBaUnset, peer, hist, PlaceTypes
  <2>6. LockOwner' BY <1>15 DEF SendDelBaUnset, peer, hist, LockOwner, PlaceTypes
  <2>7. FinishInv' BY <1>15 DEF SendDelBaUnset, peer, hist, FinishInv, LockOwner, PlaceTypes
  <2>8. NoStuckFrame' BY <1>15 DEF SendDelBaUnset, peer, hist, NoStuckFrame, FinishInv, LockOwner, PlaceTypes
  <2> QED BY <2>3, <2>4, <2>5, <2>6, <2>7, <2>8
<1>16. ASSUME Stop PROVE BaseInv'
  <2>3. FlagTypes' BY <1>16 DEF Stop, peer, hist, FlagTypes
  <2>4. QueueTypes' BY <1>16 DEF Stop, peer, hist, QueueTypes
  <2>5. PlaceTypes' BY <1>16 DEF Stop, peer, hist, PlaceTypes
  <2>6. LockOwner' BY <1>16 DEF Stop, peer, hist, LockOwner, PlaceTypes
  <2>7. FinishInv' BY <1>16 DEF Stop, peer, hist, FinishInv, LockOwner, PlaceTypes
  <2>8. NoStuckFrame' BY <1>16 DEF Stop, peer, hist, NoStuckFrame, FinishInv, LockOwner, PlaceTypes
  <2> QED BY <2>3, <2>4, <2>5, <2>6, <2>7, <2>8
<1>17. ASSUME FreeUnhash PROVE BaseInv'
  <2>3. FlagTypes' BY <1>17 DEF FreeUnhash, peer, hist, FlagTypes
  <2>4. QueueTypes' BY <1>17 DEF FreeUnhash, peer, hist, QueueTypes
  <2>5. PlaceTypes' BY <1>17 DEF FreeUnhash, peer, hist, PlaceTypes
  <2>6. LockOwner' BY <1>17 DEF FreeUnhash, peer, hist, LockOwner, PlaceTypes
  <2>7. FinishInv' BY <1>17 DEF FreeUnhash, peer, hist, FinishInv, LockOwner, PlaceTypes
  <2>8. NoStuckFrame' BY <1>17 DEF FreeUnhash, peer, hist, NoStuckFrame, FinishInv, LockOwner, PlaceTypes
  <2> QED BY <2>3, <2>4, <2>5, <2>6, <2>7, <2>8
<1>18. ASSUME FreeCancel PROVE BaseInv'
  <2>3. FlagTypes' BY <1>18 DEF FreeCancel, peer, hist, FlagTypes
  <2>4. QueueTypes' BY <1>18 DEF FreeCancel, peer, hist, QueueTypes
  <2>5. PlaceTypes' BY <1>18 DEF FreeCancel, peer, hist, PlaceTypes
  <2>6. LockOwner' BY <1>18 DEF FreeCancel, peer, hist, LockOwner, PlaceTypes
  <2>7. FinishInv' BY <1>18 DEF FreeCancel, peer, hist, FinishInv, LockOwner, PlaceTypes
  <2>8. NoStuckFrame' BY <1>18 DEF FreeCancel, peer, hist, NoStuckFrame, FinishInv, LockOwner, PlaceTypes
  <2> QED BY <2>3, <2>4, <2>5, <2>6, <2>7, <2>8
<1>19. ASSUME FreeFlush PROVE BaseInv'
  <2>3. FlagTypes' BY <1>19 DEF FreeFlush, peer, hist, FlagTypes
  <2>4. QueueTypes' BY <1>19 DEF FreeFlush, peer, hist, QueueTypes
  <2>5. PlaceTypes' BY <1>19 DEF FreeFlush, peer, hist, PlaceTypes
  <2>6. LockOwner' BY <1>19 DEF FreeFlush, peer, hist, LockOwner, PlaceTypes
  <2>7. FinishInv' BY <1>19 DEF FreeFlush, peer, hist, FinishInv, LockOwner, PlaceTypes
  <2>8. NoStuckFrame' BY <1>19 DEF FreeFlush, peer, hist, NoStuckFrame, FinishInv, LockOwner, PlaceTypes
  <2> QED BY <2>3, <2>4, <2>5, <2>6, <2>7, <2>8
<1>20. ASSUME Advance PROVE BaseInv'
  <2>3. FlagTypes' BY <1>20, Consts DEF Advance, code, hist, FlagTypes
  <2>4. QueueTypes' BY <1>20, Consts DEF Advance, code, hist, QueueTypes, Frames
  <2>5. PlaceTypes' BY <1>20, Consts DEF Advance, code, hist, PlaceTypes
  <2>6. LockOwner' BY <1>20, Consts DEF Advance, code, hist, LockOwner, PlaceTypes
  <2>7. FinishInv' BY <1>20, Consts DEF Advance, code, hist, FinishInv, LockOwner, PlaceTypes
  <2>8. NoStuckFrame' BY <1>20, Consts DEF Advance, code, hist, NoStuckFrame, FinishInv, LockOwner, PlaceTypes
  <2> QED BY <2>3, <2>4, <2>5, <2>6, <2>7, <2>8
<1>21. ASSUME HearDelBa PROVE BaseInv'
  <2>3. FlagTypes' BY <1>21 DEF HearDelBa, code, hist, FlagTypes
  <2>4. QueueTypes' BY <1>21 DEF HearDelBa, code, hist, QueueTypes
  <2>5. PlaceTypes' BY <1>21 DEF HearDelBa, code, hist, PlaceTypes
  <2>6. LockOwner' BY <1>21 DEF HearDelBa, code, hist, LockOwner, PlaceTypes
  <2>7. FinishInv' BY <1>21 DEF HearDelBa, code, hist, FinishInv, LockOwner, PlaceTypes
  <2>8. NoStuckFrame' BY <1>21 DEF HearDelBa, code, hist, NoStuckFrame, FinishInv, LockOwner, PlaceTypes
  <2> QED BY <2>3, <2>4, <2>5, <2>6, <2>7, <2>8
<1>22. ASSUME AddBa PROVE BaseInv'
  <2>3. FlagTypes' BY <1>22, Consts DEF AddBa, hist, FlagTypes
  <2>4. QueueTypes' BY <1>22, Consts DEF AddBa, hist, QueueTypes
  <2>5. PlaceTypes' BY <1>22, Consts DEF AddBa, hist, PlaceTypes
  <2>6. LockOwner' BY <1>22, Consts DEF AddBa, hist, LockOwner, PlaceTypes
  <2>7. FinishInv' BY <1>22, Consts DEF AddBa, hist, FinishInv, LockOwner, PlaceTypes
  <2>8. NoStuckFrame' BY <1>22, Consts DEF AddBa, hist, NoStuckFrame, FinishInv, LockOwner, PlaceTypes
  <2> QED BY <2>3, <2>4, <2>5, <2>6, <2>7, <2>8
<1>23. ASSUME DelBa PROVE BaseInv'
  <2>3. FlagTypes' BY <1>23 DEF DelBa, peer, hist, FlagTypes
  <2>4. QueueTypes' BY <1>23 DEF DelBa, peer, hist, QueueTypes
  <2>5. PlaceTypes' BY <1>23 DEF DelBa, peer, hist, PlaceTypes
  <2>6. LockOwner' BY <1>23 DEF DelBa, peer, hist, LockOwner, PlaceTypes
  <2>7. FinishInv' BY <1>23 DEF DelBa, peer, hist, FinishInv, LockOwner, PlaceTypes
  <2>8. NoStuckFrame' BY <1>23 DEF DelBa, peer, hist, NoStuckFrame, FinishInv, LockOwner, PlaceTypes
  <2> QED BY <2>3, <2>4, <2>5, <2>6, <2>7, <2>8
<1>24. CASE UNCHANGED vars
  BY <1>24 DEF vars, code, peer, hist, FlagTypes, QueueTypes, PlaceTypes, LockOwner,
     FinishInv, NoStuckFrame
<1> QED BY <1>1, <1>2, <1>3, <1>4, <1>5, <1>6, <1>7, <1>8, <1>9, <1>10, <1>11, <1>12, <1>13, <1>14, <1>15, <1>16, <1>17, <1>18, <1>19, <1>20, <1>21, <1>22, <1>23, <1>24 DEF Next, Rx, Timer, Process

(* Every variable of RecvReorder keeps its type; the lock is held by the     *)
(* context inside the drain loop and by nobody else.                         *)
THEOREM ReorderTypeCorrect == Spec => []TypeOK
<1>1. BaseInv => TypeOK BY DEF BaseInv
<1> QED BY <1>1, BaseInit, BaseStep, PTL DEF Spec

(* A frame that stays in the queue always has a timer or a running handler   *)
(* that will come for it: recv_indicatepkt_reorder cancels the timer only    *)
(* when the loop emptied the queue.                                          *)
THEOREM ReorderNoStuckFrame == Spec => []NoStuckFrame
<1>1. BaseInv => NoStuckFrame BY DEF BaseInv
<1> QED BY <1>1, BaseInit, BaseStep, PTL DEF Spec

-----------------------------------------------------------------------------
(* Freeing the station on one CPU.                                           *)

LEMMA FreeStep ==
  ASSUME Smp = FALSE, BaseInv, FreeInv, [Next]_vars
  PROVE  FreeInv'
<1> USE DEF BaseInv, TypeOK, FreeInv, RxTurn, HandlerTurn, ProcessTurn
<1>0. Quiet.pc = "idle" BY DEF Quiet
<1>1. ASSUME NEW f \in Frames, RxFrame(f) PROVE FreeInv'
  BY <1>1 DEF RxFrame
<1>2. ASSUME RxDirect PROVE FreeInv'
  BY <1>2 DEF RxDirect
<1>3. ASSUME RxDirectUp PROVE FreeInv'
  BY <1>3 DEF RxDirectUp
<1>4. ASSUME RxDirectInc PROVE FreeInv'
  BY <1>0, <1>4 DEF RxDirectInc
<1>5. ASSUME RxEnabled PROVE FreeInv'
  BY <1>5 DEF RxEnabled
<1>6. ASSUME RxAdmit PROVE FreeInv'
  BY <1>0, <1>6 DEF RxAdmit, PlaceTypes
<1>7. ASSUME RxDrain PROVE FreeInv'
  BY <1>7 DEF RxDrain, PlaceTypes
<1>8. ASSUME RxArm PROVE FreeInv'
  BY <1>0, <1>8 DEF RxArm
<1>9. ASSUME RxCancel PROVE FreeInv'
  BY <1>0, <1>9 DEF RxCancel
<1>10. ASSUME Expire PROVE FreeInv'
  BY <1>10 DEF Expire
<1>11. ASSUME ForceIndicate PROVE FreeInv'
  BY <1>11 DEF ForceIndicate
<1>12. ASSUME HandlerDrain PROVE FreeInv'
  BY <1>12 DEF HandlerDrain, PlaceTypes
<1>13. ASSUME HandlerReturn PROVE FreeInv'
  BY <1>13 DEF HandlerReturn
<1>14. ASSUME SendDelBa PROVE FreeInv'
  BY <1>14 DEF SendDelBa
<1>15. ASSUME SendDelBaUnset PROVE FreeInv'
  BY <1>15 DEF SendDelBaUnset
<1>16. ASSUME Stop PROVE FreeInv'
  BY <1>16 DEF Stop
<1>17. ASSUME FreeUnhash PROVE FreeInv'
  BY <1>17 DEF FreeUnhash
<1>18. ASSUME FreeCancel PROVE FreeInv'
  BY <1>18 DEF FreeCancel
<1>19. ASSUME FreeFlush PROVE FreeInv'
  BY <1>19 DEF FreeFlush
<1>20. ASSUME Advance PROVE FreeInv'
  BY <1>20 DEF Advance, code
<1>21. ASSUME HearDelBa PROVE FreeInv'
  BY <1>21 DEF HearDelBa, code
<1>22. ASSUME AddBa PROVE FreeInv'
  BY <1>22 DEF AddBa
<1>23. ASSUME DelBa PROVE FreeInv'
  BY <1>23 DEF DelBa
<1>24. CASE UNCHANGED vars BY <1>24 DEF vars, code
<1> QED BY <1>1, <1>2, <1>3, <1>4, <1>5, <1>6, <1>7, <1>8, <1>9, <1>10, <1>11, <1>12, <1>13, <1>14, <1>15, <1>16, <1>17, <1>18, <1>19, <1>20, <1>21, <1>22, <1>23, <1>24 DEF Next, Rx, Timer, Process

(* On one CPU nothing of a freed station is in use: rtw_free_stainfo takes   *)
(* the entry out of the hash, cancels the timer and flushes the queue in an  *)
(* order that neither softirq can undo.                                      *)
THEOREM ReorderFreedIsQuiet == Smp = FALSE => (Spec => []FreedIsQuiet)
<1> SUFFICES ASSUME Smp = FALSE PROVE Spec => []FreedIsQuiet OBVIOUS
<1>1. Init => FreeInv BY DEF Init, FreeInv, Quiet
<1>2. BaseInv /\ FreeInv /\ [Next]_vars => FreeInv' BY FreeStep
<1>3. FreeInv => FreedIsQuiet BY DEF FreeInv, FreedIsQuiet
<1> QED BY <1>1, <1>2, <1>3, BaseInit, BaseStep, PTL DEF Spec

-----------------------------------------------------------------------------
(* One block-ack session: the window and the order of the frames.            *)

OneSession == DelBaFrom = {} /\ Sessions <= 1

LEMMA SeqElement ==
  ASSUME NEW S, NEW q \in Seq(S)
  PROVE  \A i \in DOMAIN q : q[i] \in S
OBVIOUS

LEMMA Numbers ==
  ASSUME TypeOK
  PROVE  /\ base \in Nat /\ top \in Nat /\ rx.f \in Nat /\ rx.f \in Frames
         /\ First <= base /\ First <= rx.f /\ sess \in Nat
         /\ DOMAIN pending = 1 .. Len(pending) /\ Len(pending) \in Nat
         /\ \A i \in DOMAIN pending : pending[i] \in Nat
         /\ DOMAIN up = 1 .. Len(up) /\ Len(up) \in Nat
         /\ \A i \in DOMAIN up : up[i].f \in Nat /\ up[i].s \in Nat
<1> USE DEF TypeOK, QueueTypes, PlaceTypes
<1>1. \A f \in Frames : f \in Nat /\ First <= f BY Consts DEF Frames
<1>2. base \in Frames /\ rx.f \in Frames OBVIOUS
<1>3. \A i \in DOMAIN pending : pending[i] \in Frames OBVIOUS
<1>4. \A i \in DOMAIN up : up[i] \in [f : Frames, s : 0 .. Sessions]
  BY SeqElement
<1>5. \A i \in DOMAIN up : up[i].f \in Frames /\ up[i].s \in Nat
  BY <1>4, Consts
<1>6. sess \in Nat BY Consts
<1>7. DOMAIN pending = 1 .. Len(pending) /\ Len(pending) \in Nat OBVIOUS
<1>8. DOMAIN up = 1 .. Len(up) /\ Len(up) \in Nat OBVIOUS
<1> QED BY <1>1, <1>2, <1>3, <1>5, <1>6, <1>7, <1>8

(* The loop of recv_indicatepkts_in_order hands up frames that are older     *)
(* than everything left in the queue and keeps the window in place.          *)
LEMMA DrainOrder ==
  ASSUME TypeOK, OrderInv, Drain, NEW a \in Nat, indicate = Sn(a),
         enable, sess = 1,
         \A i \in DOMAIN pending : /\ pending[i] <= a + W - 1
                                   /\ a < pending[i] + M \div 2,
         \A i \in DOMAIN up : up[i].s # 0 => up[i].f < a
  PROVE  /\ OrderInv'
         /\ \E b \in Nat :
               /\ indicate' = Sn(b) /\ (b = a \/ (b = a + 1 /\ pending # <<>> /\ Head(pending) = a))
               /\ \A i \in DOMAIN up' : up'[i].s # 0 => up'[i].f < b
               /\ \A i \in DOMAIN pending' : \E j \in DOMAIN pending :
                     pending'[i] = pending[j] /\ b < pending'[i] + M \div 2
               /\ ~Ready => \A i \in DOMAIN pending' : b < pending'[i]
<1>n. /\ DOMAIN pending = 1 .. Len(pending) /\ Len(pending) \in Nat
      /\ DOMAIN up = 1 .. Len(up) /\ Len(up) \in Nat
  BY Numbers
<1>q. \A i \in DOMAIN pending : pending[i] \in Nat BY Numbers
<1>u. \A i \in DOMAIN up : up[i].f \in Nat BY Numbers
<1>m. M \div 2 \in Nat /\ W \in Nat /\ 2 * W <= M \div 2 BY Consts
<1>1. CASE Indicate
  <2> DEFINE h == Head(pending)
  <2>1. pending # <<>> /\ ~SnLess(indicate, Sn(h)) /\ pending' = Tail(pending)
    BY <1>1 DEF Indicate, Ready
  <2>2. h = pending[1] /\ h \in Frames /\ 1 \in DOMAIN pending
        /\ DOMAIN pending' = 1 .. Len(pending) - 1
        /\ \A i \in 1 .. Len(pending) - 1 : pending'[i] = pending[i + 1]
    BY <2>1, TailFacts DEF TypeOK, QueueTypes
  <2>3. h \in Nat BY <2>2, <1>q
  <2>4. h <= a + W - 1 /\ a < h + M \div 2 BY <2>2
  <2>a. h < a + M \div 2 BY <2>3, <2>4, <1>m
  <2> HIDE DEF h
  <2>5. h <= a
    <3>1. ~SnLess(Sn(a), Sn(h)) BY <2>1
    <3>2. SnLess(Sn(a), Sn(h)) <=> a < h BY <2>3, <2>4, <2>a, SnLessIff
    <3> QED BY <3>1, <3>2, <2>3
  <2>6. indicate = Sn(h) <=> h = a
    <3>1. Sn(a) = Sn(h) <=> a = h BY <2>3, <2>4, <2>a, SnEqual
    <3> QED BY <3>1
  <2>7. PICK b \in Nat : /\ b = IF h = a THEN a + 1 ELSE a
                         /\ indicate' = Sn(b)
    <3>1. CASE h = a
      <4>1. (indicate + 1) % M = Sn(a + 1) BY SnPlus
      <4> QED BY <3>1, <4>1, <2>6, <1>1 DEF Indicate, h
    <3>2. CASE h # a BY <3>2, <2>6, <1>1 DEF Indicate, h
    <3> QED BY <3>1, <3>2
  <2>8. ASSUME NEW i \in DOMAIN pending'
        PROVE  i + 1 \in DOMAIN pending /\ pending'[i] = pending[i + 1] /\ 1 < i + 1
    BY <2>2, <1>n
  <2>b. ASSUME NEW i \in DOMAIN pending' PROVE h < pending'[i]
    <3>1. pending[1] < pending[i + 1] BY <2>2, <2>8 DEF OrderInv, Sorted
    <3> QED BY <3>1, <2>2, <2>8
  <2>9. \A i \in DOMAIN up : up[i].s # 0 => up[i].f < h
    BY <2>2 DEF OrderInv
  <2>10. \/ up' = up
         \/ /\ DOMAIN up' = 1 .. Len(up) + 1
            /\ \A i \in 1 .. Len(up) : up'[i] = up[i]
            /\ up'[Len(up) + 1] = [f |-> h, s |-> 1]
    <3>1. HandUp(h) BY <1>1 DEF Indicate, h
    <3> QED BY <3>1, <2>2, HandUpFacts
  <2>11. Sorted(pending')
    <3> SUFFICES ASSUME NEW i \in DOMAIN pending', NEW j \in DOMAIN pending', i < j
                 PROVE  pending'[i] < pending'[j] BY DEF Sorted
    <3>1. i + 1 < j + 1 BY <2>2
    <3>2. pending[i + 1] < pending[j + 1] BY <3>1, <2>8 DEF OrderInv, Sorted
    <3> QED BY <3>2, <2>8
  <2>c. ASSUME NEW i \in DOMAIN up'
        PROVE \/ i \in DOMAIN up /\ up'[i] = up[i]
              \/ i = Len(up) + 1 /\ up'[i].f = h /\ up'[i].s = 1
    BY <2>10, <1>n
  <2>12. InOrder'
    <3> SUFFICES ASSUME NEW i \in DOMAIN up', NEW j \in DOMAIN up', i < j,
                        up'[i].s = up'[j].s, up'[i].s # 0
                 PROVE  up'[i].f < up'[j].f BY DEF InOrder
    <3>1. CASE j \in DOMAIN up /\ up'[j] = up[j]
      <4>1. i \in DOMAIN up /\ up'[i] = up[i] BY <3>1, <2>c, <1>n
      <4> QED BY <3>1, <4>1 DEF OrderInv, InOrder
    <3>2. CASE j = Len(up) + 1 /\ up'[j].f = h /\ up'[j].s = 1
      <4>1. i \in DOMAIN up /\ up'[i] = up[i] BY <3>2, <2>c, <1>n
      <4> QED BY <3>2, <4>1, <2>9
    <3> QED BY <3>1, <3>2, <2>c
  <2>13. ASSUME NEW i \in DOMAIN up', NEW j \in DOMAIN pending', up'[i].s # 0
         PROVE  up'[i].f < pending'[j]
    <3>1. h < pending'[j] /\ pending'[j] \in Nat BY <2>b, <2>8, <1>q
    <3>2. CASE i \in DOMAIN up /\ up'[i] = up[i]
      <4>1. up[i].f < h /\ up[i].f \in Nat BY <3>2, <2>9, <2>13, <1>u
      <4> QED BY <3>1, <3>2, <4>1, <2>3
    <3>3. CASE i = Len(up) + 1 /\ up'[i].f = h BY <3>1, <3>3
    <3> QED BY <3>2, <3>3, <2>c
  <2>14. ASSUME NEW i \in DOMAIN up', up'[i].s # 0 PROVE up'[i].f < b
    <3>1. CASE i \in DOMAIN up /\ up'[i] = up[i]
      <4>1. up[i].f < a /\ up[i].f \in Nat BY <3>1, <2>14, <1>u
      <4> QED BY <3>1, <4>1, <2>7
    <3>2. CASE i = Len(up) + 1 /\ up'[i].f = h BY <3>2, <2>3, <2>5, <2>7
    <3> QED BY <3>1, <3>2, <2>c
  <2>15. ASSUME NEW i \in DOMAIN pending'
         PROVE  \E j \in DOMAIN pending :
                   pending'[i] = pending[j] /\ b < pending'[i] + M \div 2
    <3>1. h < pending'[i] /\ pending'[i] \in Nat BY <2>b, <2>8, <1>q
    <3>2. b < pending'[i] + M \div 2 BY <3>1, <2>3, <2>4, <2>5, <2>7, <1>m
    <3> QED BY <3>2, <2>8
  <2>16. Ready BY <1>1 DEF Indicate
  <2>17. b = a \/ (b = a + 1 /\ pending # <<>> /\ Head(pending) = a)
    BY <2>1, <2>7 DEF h
  <2>18. OrderInv' BY <2>11, <2>12, <2>13 DEF OrderInv
  <2> QED BY <2>7, <2>14, <2>15, <2>16, <2>17, <2>18
<1>2. CASE DrainEnds
  <2>1. UNCHANGED <<pending, indicate, up>> BY <1>2 DEF DrainEnds
  <2>2. OrderInv' BY <2>1 DEF OrderInv, InOrder, Sorted
  <2>3. ASSUME NEW i \in DOMAIN pending PROVE a < pending[i]
    <3>1. pending # <<>> /\ 1 \in DOMAIN pending BY <1>n
    <3>2. Head(pending) = pending[1] BY <3>1, TailFacts DEF TypeOK, QueueTypes
    <3>3. SnLess(Sn(a), Sn(pending[1])) BY <1>2, <3>1, <3>2 DEF DrainEnds, Ready
    <3>4. /\ pending[1] \in Nat /\ a < pending[1] + M \div 2
          /\ pending[1] <= a + W - 1
      BY <3>1, <1>q
    <3>5. pending[1] < a + M \div 2 BY <3>4, <1>m
    <3>6. a < pending[1] BY <3>3, <3>4, <3>5, SnLessIff
    <3>7. i = 1 \/ pending[1] < pending[i] BY <3>1, <1>n DEF OrderInv, Sorted
    <3> QED BY <3>4, <3>6, <3>7, <1>q
  <2> QED BY <2>1, <2>2, <2>3
<1> QED BY <1>1, <1>2 DEF Drain

(* check_indicate_seq and enqueue_reorder_recvframe together: whatever frame *)
(* is admitted, the queue stays sorted and the window contains it.           *)
LEMMA AdmitOrder ==
  ASSUME TypeOK, PeerInv, OrderInv, ModeInv, FreshInv, StartInv, RxAdmit
  PROVE  OrderInv' /\ \E b \in Nat : WindowAt(b)'
<1> DEFINE f == rx.f
<1>n. /\ DOMAIN pending = 1 .. Len(pending) /\ Len(pending) \in Nat
      /\ f \in Nat /\ f \in Frames /\ top \in Nat /\ First <= f
  BY Numbers
<1>q. \A i \in DOMAIN pending : pending[i] \in Nat BY Numbers
<1>u. \A i \in DOMAIN up : up[i].f \in Nat BY Numbers
<1>m. M \div 2 \in Nat /\ W \in Nat /\ W >= 2 /\ 2 * W <= M \div 2 /\ First \in Nat
  BY Consts
<1>r. /\ rx.pc = "lock" /\ lock = "free" /\ up' = up /\ top' = top
      /\ handler' = handler
  BY DEF RxAdmit
<1>h. handler \notin {"drain", "finish"}
  BY <1>r DEF TypeOK, LockOwner
<1>e. enable BY <1>r DEF ModeInv
<1>p. f <= top /\ top <= f + W - 1 BY <1>r DEF PeerInv
<1>x. Quiet.pc = "idle" BY DEF Quiet
<1>1. PICK a \in Nat :
        /\ Start(Sn(f)) = Sn(a)
        /\ indicate # Unset => indicate = Sn(a)
        /\ indicate = Unset => a = f
        /\ First <= top /\ a <= top + 1 /\ f < a + M \div 2
        /\ top = f \/ top <= a + W - 1
        /\ \A i \in DOMAIN pending :
              a < pending[i] /\ pending[i] <= top /\ pending[i] <= a + W - 1
        /\ \A i \in DOMAIN up : up[i].s # 0 => up[i].f < a
  <2>1. CASE indicate = Unset
    <3>1. pending = <<>> /\ \A i \in DOMAIN up : up[i].s = 0
      BY <2>1 DEF FreshInv
    <3>2. DOMAIN pending = {} BY <3>1
    <3> QED BY <2>1, <3>1, <3>2, <1>n, <1>m, <1>p DEF Start
  <2>2. CASE indicate # Unset
    <3>1. PICK a \in Nat : WindowAt(a) BY <2>2, <1>e DEF StartInv
    <3> WITNESS a \in Nat
    <3>2. indicate = Sn(a) /\ First <= top /\ a <= top + 1
      BY <3>1 DEF WindowAt
    <3>3. f < a + M \div 2 /\ (top = f \/ top <= a + W - 1)
      BY <3>1, <1>r DEF WindowAt
    <3>4. \A i \in DOMAIN pending :
              a < pending[i] /\ pending[i] <= top /\ pending[i] <= a + W - 1
      BY <3>1, <1>r, <1>h DEF WindowAt
    <3>5. \A i \in DOMAIN up : up[i].s # 0 => up[i].f < a BY <3>1 DEF WindowAt
    <3> QED BY <2>2, <3>2, <3>3, <3>4, <3>5 DEF Start
  <2> QED BY <2>1, <2>2
<1>2. a < f + M \div 2 BY <1>1, <1>n, <1>m, <1>p
<1>3. SnLess(Sn(f), Sn(a)) <=> f < a BY <1>1, <1>2, <1>n, SnLessIff
<1>4. CASE f < a
  <2>1. SnLess(Sn(f), Start(Sn(f))) BY <1>1, <1>3, <1>4
  <2>2. indicate # Unset BY <1>1, <1>4, <1>n
  <2>3. UNCHANGED <<indicate, pending>> /\ rx' = Quiet BY <2>1 DEF RxAdmit
  <2>4. OrderInv' BY <2>3, <1>r DEF OrderInv, InOrder, Sorted
  <2>5. top <= a + W - 1 BY <1>1, <1>4, <1>n, <1>m
  <2>6. WindowAt(a)'
    BY <2>2, <2>3, <2>5, <1>1, <1>r, <1>h, <1>x DEF WindowAt
  <2> QED BY <2>4, <2>6
<1>5. CASE a <= f
  <2>1. ~SnLess(Sn(f), Start(Sn(f))) BY <1>1, <1>3, <1>5, <1>n
  <2>2. Enqueue(f) /\ indicate' = CheckIndicateSeq(Sn(f)) BY <2>1 DEF RxAdmit
  <2>3. Sn(f) = Sn(a) <=> f = a BY <1>1, <1>2, <1>n, SnEqual
  <2>4. PICK b \in Nat :
          /\ b = IF f = a THEN a + 1 ELSE IF a + W - 1 < f THEN f + 1 - W ELSE a
          /\ indicate' = Sn(b)
    <3>1. CASE f = a
      <4>1. (Sn(a) + 1) % M = Sn(a + 1) BY SnPlus
      <4>2. CheckIndicateSeq(Sn(f)) = Sn(a + 1)
        BY <3>1, <4>1, <1>1 DEF CheckIndicateSeq
      <4> QED BY <3>1, <4>2, <2>2
    <3>2. CASE f # a
      <4>1. indicate = Sn(a) /\ Start(Sn(f)) = Sn(a) BY <3>2, <1>1
      <4>2. a + W - 1 \in Nat /\ (Sn(a) + (W - 1)) % M = Sn(a + (W - 1))
        BY <1>m, SnPlus
      <4>3. WindowEnd = Sn(a + W - 1)
        <5>1. Sn(a) \in Nat BY SnType, Consts
        <5>2. Sn(a) + W - 1 = Sn(a) + (W - 1) /\ a + W - 1 = a + (W - 1)
          BY <5>1, <1>m
        <5> QED BY <4>1, <4>2, <5>2 DEF WindowEnd
      <4>4. f < (a + W - 1) + M \div 2 /\ a + W - 1 < f + M \div 2
        BY <1>1, <1>5, <1>n, <1>m
      <4>5. SnLess(WindowEnd, Sn(f)) <=> a + W - 1 < f
        BY <4>2, <4>3, <4>4, <1>n, SnLessIff
      <4>6. CASE a + W - 1 < f
        <5>1. W <= f + 1 BY <4>6, <1>n, <1>m
        <5>2. ShiftTo(Sn(f)) = Sn(f + 1 - W) BY <5>1, <1>n, ShiftToStart
        <5>3. f + 1 - W \in Nat BY <5>1, <1>n, <1>m
        <5>4. Sn(f) # Start(Sn(f)) BY <3>2, <4>1, <2>3
        <5>5. indicate' = Sn(f + 1 - W)
          BY <5>2, <5>4, <4>5, <4>6, <2>2 DEF CheckIndicateSeq
        <5> QED BY <3>2, <4>6, <5>3, <5>5
      <4>7. CASE ~(a + W - 1 < f)
        <5>1. Sn(f) # Start(Sn(f)) BY <3>2, <4>1, <2>3
        <5>2. indicate' = Sn(a) BY <4>1, <4>5, <4>7, <5>1, <2>2 DEF CheckIndicateSeq
        <5> QED BY <3>2, <4>7, <5>2
      <4> QED BY <4>6, <4>7
    <3> QED BY <3>1, <3>2
  <2>5. /\ a <= b /\ f < b + M \div 2 /\ b <= f + 1 /\ f <= b + W - 1
        /\ b < a + M \div 2
    <3>0. f < a + M \div 2 BY <1>1
    <3> HIDE DEF f
    <3>1. CASE f = a BY <3>1, <2>4, <1>n, <1>m
    <3>2. CASE f # a /\ a + W - 1 < f BY <3>0, <3>2, <2>4, <1>5, <1>n, <1>m
    <3>3. CASE f # a /\ ~(a + W - 1 < f) BY <3>0, <3>3, <2>4, <1>5, <1>n, <1>m
    <3> QED BY <3>1, <3>2, <3>3
  <2>6. top <= b + W - 1 /\ b <= top + 1 BY SMTT(30), <2>5, <1>1, <1>n, <1>m, <1>p
  <2>7. ASSUME NEW i \in DOMAIN pending
        PROVE  /\ pending[i] \in Nat /\ a < pending[i] /\ pending[i] <= a + W - 1
               /\ SnLess(Sn(pending[i]), Sn(f)) <=> pending[i] < f
               /\ Sn(pending[i]) = Sn(f) <=> pending[i] = f
    <3>1. pending[i] \in Nat /\ a < pending[i] /\ pending[i] <= a + W - 1
      BY <1>1, <1>q
    <3>2. pending[i] < f + M \div 2 /\ f < pending[i] + M \div 2
      BY <3>1, <1>1, <1>5, <1>n, <1>m
    <3> QED BY <3>1, <3>2, <1>n, SnLessIff, SnEqual
  <2>8. PICK k \in 1 .. Len(pending) + 1 :
          /\ IsPlace(k, f)
          /\ IF k <= Len(pending) /\ Sn(pending[k]) = Sn(f)
             THEN rx' = Quiet /\ pending' = pending
             ELSE /\ pending' = InsertAt(pending, k, f)
                  /\ rx' = [rx EXCEPT !.pc = "drain"]
    BY <2>2 DEF Enqueue
  <2>9. CASE k <= Len(pending) /\ Sn(pending[k]) = Sn(f)
    <3>1. k \in DOMAIN pending /\ pending[k] = f BY <2>9, <2>7, <1>n
    <3>2. b = a
      <4>1. a < f /\ f <= a + W - 1 BY <3>1, <2>7
      <4> QED BY <4>1, <2>4, <1>n, <1>m
    <3>3. pending' = pending /\ rx' = Quiet BY <2>8, <2>9
    <3>4. OrderInv' BY <3>3, <1>r DEF OrderInv, InOrder, Sorted
    <3>5. WindowAt(a)'
      BY <3>2, <3>3, <2>4, <2>6, <1>1, <1>r, <1>h, <1>x DEF WindowAt
    <3> QED BY <3>4, <3>5
  <2>10. CASE ~(k <= Len(pending) /\ Sn(pending[k]) = Sn(f))
    <3>1. /\ DOMAIN pending' = 1 .. Len(pending) + 1
          /\ \A i \in 1 .. Len(pending) + 1 : pending'[i] =
                IF i < k THEN pending[i] ELSE IF i = k THEN f ELSE pending[i - 1]
      <4>1. pending \in Seq(Frames) /\ f \in Frames
        BY <1>n DEF TypeOK, QueueTypes
      <4>2. pending' = InsertAt(pending, k, f) BY <2>8, <2>10
      <4> HIDE DEF f
      <4>3. /\ DOMAIN InsertAt(pending, k, f) = 1 .. Len(pending) + 1
            /\ \A i \in 1 .. Len(pending) + 1 : InsertAt(pending, k, f)[i] =
                  IF i < k THEN pending[i] ELSE IF i = k THEN f
                                           ELSE pending[i - 1]
        BY <4>1, InsertFacts
      <4> QED BY <4>2, <4>3
    <3>2. rx'.pc = "drain" BY <2>8, <2>10 DEF TypeOK, PlaceTypes
    <3>3. ASSUME NEW i \in DOMAIN pending, i < k PROVE pending[i] < f
      BY <3>3, <2>7, <2>8, <1>n DEF IsPlace
    <3>4. k \in DOMAIN pending => f < pending[k]
      <4> SUFFICES ASSUME k \in DOMAIN pending PROVE f < pending[k] OBVIOUS
      <4>1. ~(pending[k] < f) /\ pending[k] # f /\ pending[k] \in Nat
        BY <2>7, <2>8, <2>10, <1>n DEF IsPlace
      <4> QED BY <4>1, <1>n
    <3>5. ASSUME NEW i \in DOMAIN pending, k <= i PROVE f < pending[i]
      <4>1. k \in DOMAIN pending BY <3>5, <1>n
      <4>2. k = i \/ pending[k] < pending[i]
        BY <4>1, <3>5, <1>n DEF OrderInv, Sorted
      <4> QED BY <4>1, <4>2, <3>4, <1>n, <1>q
    <3>6. ASSUME NEW i \in DOMAIN pending'
          PROVE  \/ i < k /\ i \in DOMAIN pending /\ pending'[i] = pending[i]
                 \/ i = k /\ pending'[i] = f
                 \/ k < i /\ i - 1 \in DOMAIN pending /\ k <= i - 1
                    /\ pending'[i] = pending[i - 1]
      BY <3>1, <1>n
    <3>7. Sorted(pending')
      <4> SUFFICES ASSUME NEW i \in DOMAIN pending', NEW j \in DOMAIN pending', i < j
                   PROVE  pending'[i] < pending'[j] BY DEF Sorted
      <4>0. i \in Nat /\ j \in Nat /\ k \in Nat BY <3>1, <1>n
      <4>1. CASE i < k /\ j < k
        BY <4>0, <4>1, <3>6 DEF OrderInv, Sorted
      <4>2. CASE i < k /\ j = k BY <4>0, <4>2, <3>6, <3>3
      <4>3. CASE i < k /\ k < j
        <5>1. pending[i] < pending[j - 1]
          BY <4>0, <4>3, <3>6 DEF OrderInv, Sorted
        <5> QED BY <5>1, <4>0, <4>3, <3>6
      <4>4. CASE i = k BY <4>0, <4>4, <3>6, <3>5
      <4>5. CASE k < i
        <5>1. i - 1 < j - 1 BY <4>0
        <5>2. pending[i - 1] < pending[j - 1]
          BY <5>1, <4>0, <4>5, <3>6 DEF OrderInv, Sorted
        <5> QED BY <5>2, <4>0, <4>5, <3>6
      <4> QED BY <4>0, <4>1, <4>2, <4>3, <4>4, <4>5
    <3>8. ASSUME NEW i \in DOMAIN pending'
          PROVE  /\ pending'[i] \in Nat /\ a <= pending'[i]
                 /\ pending'[i] <= top /\ pending'[i] <= b + W - 1
      <4>1. CASE pending'[i] = f BY <4>1, <2>5, <1>5, <1>n, <1>p
      <4>2. ASSUME NEW j \in DOMAIN pending, pending'[i] = pending[j]
            PROVE  /\ pending'[i] \in Nat /\ a <= pending'[i]
                   /\ pending'[i] <= top /\ pending'[i] <= b + W - 1
        <5>1. /\ pending[j] \in Nat /\ a < pending[j] /\ pending[j] <= top
              /\ pending[j] <= a + W - 1
          BY <2>7, <1>1
        <5> QED BY <5>1, <4>2, <2>5, <1>m
      <4> QED BY <4>1, <4>2, <3>6
    <3>9. \A i \in DOMAIN up, j \in DOMAIN pending' :
             up[i].s # 0 => up[i].f < pending'[j]
      BY <3>8, <1>1, <1>u
    <3>10. OrderInv' BY <3>7, <3>9, <1>r DEF OrderInv, InOrder
    <3>11. \A i \in DOMAIN up : up[i].s # 0 => up[i].f < b BY <1>1, <1>u, <2>5
    <3>12. \A i \in DOMAIN pending' : b < pending'[i] + M \div 2
      BY <3>8, <2>5, <1>m
    <3>13. WindowAt(b)'
      BY <3>2, <3>8, <3>11, <3>12, <2>4, <2>6, <1>1, <1>r DEF WindowAt
    <3> QED BY <3>10, <3>13
  <2> QED BY <2>9, <2>10
<1> QED BY <1>4, <1>5, <1>n

(* The peer numbers its frames with a lead that the sequence space can tell  *)
(* apart; nothing but the peer and the newest frame moves that lead.         *)
LEMMA PeerStep ==
  ASSUME TypeOK, PeerInv, [Next]_vars
  PROVE  PeerInv'
<1>n. base \in Nat /\ top \in Nat /\ First <= base BY Numbers
<1>m. M \div 2 \in Nat /\ W \in Nat /\ W >= 2 /\ First \in Nat BY Consts
<1>x. Quiet.pc = "idle" BY DEF Quiet
<1>1. ASSUME NEW f \in Frames, RxFrame(f) PROVE PeerInv'
  <2>1. base' = base BY <1>1 DEF RxFrame, peer
  <2>2. f \in Nat /\ base <= f /\ f <= base + W - 1
    BY <1>1, <1>n, <1>m, Consts DEF RxFrame, Window, Frames
  <2>3. CASE Sn(f) = tidseq
    BY <1>1, <2>1, <2>3 DEF RxFrame, PeerInv
  <2>4. CASE Sn(f) # tidseq
    <3>1. top' = Larger(top, f) /\ rx' = [pc |-> "post", f |-> f]
      BY <1>1, <2>4 DEF RxFrame
    <3>2. top' \in Nat /\ top <= top' /\ f <= top' /\ top' <= base + W - 1
      BY <3>1, <2>2, <1>n, <1>m DEF Larger, PeerInv
    <3>3. Larger(top, First) <= Larger(top', First)
          /\ Larger(top, First) \in Nat /\ Larger(top', First) \in Nat
      BY <3>2, <1>n, <1>m DEF Larger
    <3>4. base + 2 * W <= Larger(top', First) + M \div 2
      BY <3>3, <1>n, <1>m DEF PeerInv
    <3> QED BY <3>1, <3>2, <3>4, <2>1, <2>2, <1>n, <1>m DEF PeerInv
  <2> QED BY <2>3, <2>4
<1>2. ASSUME Advance PROVE PeerInv'
  <2>1. Larger(top, First) \in Nat BY <1>n, <1>m DEF Larger
  <2>2. /\ base' = base + 1 /\ top' = top /\ rx' = rx
        /\ base + 2 * W < Larger(top, First) + M \div 2
    BY <1>2 DEF Advance, code, hist
  <2> QED BY <2>1, <2>2, <1>n, <1>m DEF PeerInv
<1>3. ASSUME UNCHANGED <<base, top>>,
             rx'.pc \in {"post", "lock"} =>
                rx.pc \in {"post", "lock"} /\ rx'.f = rx.f
      PROVE  PeerInv'
  BY <1>3 DEF PeerInv
<1>4. ASSUME RxDirect PROVE PeerInv'
  BY <1>3, <1>4 DEF RxDirect, peer, hist, TypeOK, PlaceTypes
<1>5. ASSUME RxDirectUp PROVE PeerInv'
  BY <1>3, <1>5 DEF RxDirectUp, peer, TypeOK, PlaceTypes
<1>6. ASSUME RxDirectInc PROVE PeerInv'
  BY <1>x, <1>3, <1>6 DEF RxDirectInc, peer, hist
<1>7. ASSUME RxEnabled PROVE PeerInv'
  BY <1>3, <1>7 DEF RxEnabled, peer, hist, TypeOK, PlaceTypes
<1>8. ASSUME RxAdmit PROVE PeerInv'
  <2>1. rx' = Quiet \/ rx' = [rx EXCEPT !.pc = "drain"]
    BY <1>8 DEF RxAdmit, Enqueue
  <2>2. rx'.pc \notin {"post", "lock"} BY <2>1, <1>x DEF TypeOK, PlaceTypes
  <2> QED BY <2>2, <1>3, <1>8 DEF RxAdmit, peer
<1>9. ASSUME RxDrain PROVE PeerInv'
  BY <1>3, <1>9 DEF RxDrain, peer, TypeOK, PlaceTypes
<1>10. ASSUME RxArm PROVE PeerInv'
  BY <1>x, <1>3, <1>10 DEF RxArm, peer, hist
<1>11. ASSUME RxCancel PROVE PeerInv'
  BY <1>x, <1>3, <1>11 DEF RxCancel, peer, hist
<1>12. ASSUME Timer PROVE PeerInv'
  BY <1>3, <1>12
  DEF Timer, Expire, ForceIndicate, HandlerDrain, HandlerReturn, peer, hist
<1>13. ASSUME Process PROVE PeerInv'
  BY <1>3, <1>13
  DEF Process, SendDelBa, SendDelBaUnset, Stop, FreeUnhash, FreeCancel,
      FreeFlush, peer, hist
<1>14. ASSUME HearDelBa PROVE PeerInv' BY <1>3, <1>14 DEF HearDelBa, code, hist
<1>15. ASSUME AddBa PROVE PeerInv' BY <1>3, <1>15 DEF AddBa, hist
<1>16. ASSUME DelBa PROVE PeerInv' BY <1>3, <1>16 DEF DelBa, hist
<1>17. CASE UNCHANGED vars BY <1>3, <1>17 DEF vars, code, peer, hist
<1> QED BY <1>1, <1>2, <1>4, <1>5, <1>6, <1>7, <1>8, <1>9, <1>10, <1>11, <1>12, <1>13, <1>14, <1>15, <1>16, <1>17 DEF Next, Rx

(* The drain loop of either context keeps the window in place.               *)
LEMMA DrainWindow ==
  ASSUME TypeOK, SessionInv, Drain, UNCHANGED <<enable, sess, top, delba>>,
         \/ RxDrain \/ HandlerDrain
  PROVE  OrderInv' /\ ModeInv' /\ FreshInv' /\ StartInv'
<1>n. DOMAIN pending = 1 .. Len(pending) /\ Len(pending) \in Nat /\ top \in Nat
      /\ rx.f \in Nat
  BY Numbers
<1>q. \A i \in DOMAIN pending : pending[i] \in Nat BY Numbers
<1>m. M \div 2 \in Nat /\ W \in Nat /\ W >= 2 BY Consts
<1>1. rx.pc = "drain" \/ handler = "drain" BY DEF RxDrain, HandlerDrain
<1>2. enable /\ indicate # Unset BY <1>1 DEF SessionInv, FreshInv
<1>3. sess = 1 BY <1>2 DEF SessionInv, ModeInv
<1>4. PICK a \in Nat : WindowAt(a) BY <1>2 DEF SessionInv, StartInv
<1>5. /\ indicate = Sn(a) /\ First <= top /\ a <= top + 1
      /\ \A i \in DOMAIN pending : /\ pending[i] <= top
                                   /\ pending[i] <= a + W - 1
                                   /\ a < pending[i] + M \div 2
      /\ \A i \in DOMAIN up : up[i].s # 0 => up[i].f < a
  BY <1>1, <1>4 DEF WindowAt
<1>6. OrderInv BY DEF SessionInv
<1>7. /\ OrderInv'
      /\ \E b \in Nat :
            /\ indicate' = Sn(b)
            /\ b = a \/ (b = a + 1 /\ pending # <<>> /\ Head(pending) = a)
            /\ \A i \in DOMAIN up' : up'[i].s # 0 => up'[i].f < b
            /\ \A i \in DOMAIN pending' : \E j \in DOMAIN pending :
                  pending'[i] = pending[j] /\ b < pending'[i] + M \div 2
            /\ ~Ready => \A i \in DOMAIN pending' : b < pending'[i]
  BY <1>2, <1>3, <1>5, <1>6, DrainOrder
<1>8. PICK b \in Nat :
         /\ indicate' = Sn(b)
         /\ b = a \/ (b = a + 1 /\ pending # <<>> /\ Head(pending) = a)
         /\ \A i \in DOMAIN up' : up'[i].s # 0 => up'[i].f < b
         /\ \A i \in DOMAIN pending' : \E j \in DOMAIN pending :
               pending'[i] = pending[j] /\ b < pending'[i] + M \div 2
         /\ ~Ready => \A i \in DOMAIN pending' : b < pending'[i]
  BY <1>7
<1>9. b <= top + 1 /\ a <= b
  <2>1. ASSUME pending # <<>>, Head(pending) = a PROVE a <= top
    <3>1. 1 \in DOMAIN pending BY <2>1, <1>n
    <3>2. Head(pending) = pending[1] BY <2>1, TailFacts DEF TypeOK, QueueTypes
    <3> QED BY <3>1, <3>2, <2>1, <1>5
  <2> QED BY <2>1, <1>5, <1>8, <1>n
<1>10. \A i \in DOMAIN pending' :
          /\ pending'[i] <= top /\ pending'[i] <= b + W - 1
          /\ b < pending'[i] + M \div 2
  <2> SUFFICES ASSUME NEW i \in DOMAIN pending'
               PROVE  /\ pending'[i] <= top /\ pending'[i] <= b + W - 1
                      /\ b < pending'[i] + M \div 2
    OBVIOUS
  <2>1. PICK j \in DOMAIN pending :
           pending'[i] = pending[j] /\ b < pending'[i] + M \div 2 BY <1>8
  <2>2. pending[j] \in Nat /\ pending[j] <= top /\ pending[j] <= a + W - 1
    BY <1>5, <1>q
  <2> QED BY <2>1, <2>2, <1>9, <1>m
<1>11. IF rx'.pc \in {"post", "lock"}
       THEN rx'.f < b + M \div 2 /\ (top = rx'.f \/ top <= b + W - 1)
       ELSE top <= b + W - 1
  <2>1. CASE RxDrain
    <3>1. rx.pc = "drain" /\ rx'.pc \in {"drain", "finish"}
      BY <2>1 DEF RxDrain, TypeOK, PlaceTypes
    <3>2. top <= a + W - 1 BY <3>1, <1>4 DEF WindowAt
    <3> QED BY <3>1, <3>2, <1>9, <1>n, <1>m
  <2>2. CASE HandlerDrain
    <3>1. rx' = rx BY <2>2 DEF HandlerDrain
    <3>2. IF rx.pc \in {"post", "lock"}
          THEN rx.f < a + M \div 2 /\ (top = rx.f \/ top <= a + W - 1)
          ELSE top <= a + W - 1
      BY <1>4 DEF WindowAt
    <3> QED BY <3>1, <3>2, <1>9, <1>n, <1>m
  <2> QED BY <2>1, <2>2
<1>12. rx'.pc = "drain" \/ handler' = "drain" \/ ~Ready
  BY DEF RxDrain, HandlerDrain, TypeOK, PlaceTypes
<1>13. ~Ready => rx'.pc # "drain" /\ handler' # "drain"
  <2>1. CASE RxDrain
    BY <2>1 DEF RxDrain, TypeOK, PlaceTypes, LockOwner
  <2>2. CASE HandlerDrain
    BY <2>2 DEF HandlerDrain, TypeOK, PlaceTypes, LockOwner
  <2> QED BY <2>1, <2>2
<1>14. WindowAt(b)'
  <2>1. \A i \in DOMAIN pending' :
           IF rx'.pc = "drain" \/ handler' = "drain"
           THEN b < pending'[i] + M \div 2 ELSE b < pending'[i]
    BY <1>8, <1>10, <1>12, <1>13
  <2> QED BY <2>1, <1>5, <1>8, <1>9, <1>10, <1>11 DEF WindowAt
<1>15. indicate' # Unset
  <2>1. Sn(b) \in 0 .. M - 1 BY SnType
  <2> QED BY <2>1, <1>8, Consts
<1>16. ModeInv'
  <2>1. rx'.pc \notin {"direct", "directUp"}
    BY <1>2 DEF RxDrain, HandlerDrain, TypeOK, PlaceTypes, SessionInv, ModeInv
  <2> QED BY <2>1, <1>2, <1>3 DEF SessionInv, ModeInv
<1>17. FreshInv' BY <1>2, <1>15 DEF FreshInv
<1>18. StartInv' BY <1>14 DEF StartInv
<1> QED BY <1>7, <1>16, <1>17, <1>18

LEMMA SessionInit ==
  ASSUME Init PROVE SessionInv
<1>1. Quiet.pc = "idle" BY DEF Quiet
<1>2. PeerInv
  <2>1. Larger(top, First) = First BY Consts DEF Init, Larger
  <2> QED BY <2>1, <1>1, Consts DEF Init, PeerInv
<1>3. OrderInv BY DEF Init, OrderInv, InOrder, Sorted
<1>4. ModeInv BY <1>1 DEF Init, ModeInv
<1>5. FreshInv BY <1>1 DEF Init, FreshInv
<1>6. StartInv BY DEF Init, StartInv
<1> QED BY <1>2, <1>3, <1>4, <1>5, <1>6 DEF SessionInv

(* A step that leaves the window, the queue and the frames handed up alone.  *)
LEMMA KeepStart ==
  ASSUME UNCHANGED <<indicate, pending, up, top>>, StartInv, enable,
         \A a \in Nat : WindowAt(a) => WindowAt(a)'
  PROVE  StartInv'
<1> SUFFICES ASSUME enable', indicate' # Unset
             PROVE  \E a \in Nat : WindowAt(a)' BY DEF StartInv
<1>1. PICK a \in Nat : WindowAt(a) BY DEF StartInv
<1> QED BY <1>1

LEMMA KeepOrder ==
  ASSUME OrderInv, UNCHANGED <<pending, up>>
  PROVE  OrderInv'
BY DEF OrderInv, InOrder, Sorted

(* A frame handed up outside a session has no place in its order.            *)
LEMMA DirectOrder ==
  ASSUME TypeOK, OrderInv, ~enable, pending = <<>>,
         \A i \in DOMAIN up : up[i].s = 0, HandUp(rx.f), UNCHANGED pending
  PROVE  OrderInv' /\ \A i \in DOMAIN up' : up'[i].s = 0
<1>1. rx.f \in Frames BY Numbers
<1>2. \/ up' = up
      \/ /\ DOMAIN up' = 1 .. Len(up) + 1 /\ Len(up) \in Nat
         /\ \A i \in 1 .. Len(up) : up'[i] = up[i]
         /\ up'[Len(up) + 1] = [f |-> rx.f, s |-> IF enable THEN sess ELSE 0]
  BY <1>1, HandUpFacts
<1>3. DOMAIN up = 1 .. Len(up) /\ Len(up) \in Nat BY Numbers
<1>4. ASSUME NEW i \in DOMAIN up' PROVE up'[i].s = 0
  <2>1. CASE up' = up BY <2>1
  <2>2. CASE i \in DOMAIN up /\ up'[i] = up[i] BY <2>2
  <2>3. CASE up'[i] = [f |-> rx.f, s |-> 0] BY <2>3
  <2> QED BY <2>1, <2>2, <2>3, <1>2, <1>3
<1>5. DOMAIN pending' = {} OBVIOUS
<1> QED BY <1>4, <1>5 DEF OrderInv, InOrder, Sorted

LEMMA SessionStep ==
  ASSUME OneSession, TypeOK, SessionInv, [Next]_vars
  PROVE  SessionInv'
<1>x. Quiet.pc = "idle" BY DEF Quiet
<1>m. M \div 2 \in Nat /\ W \in Nat /\ W >= 2 /\ First \in Nat BY Consts
<1>n. DOMAIN pending = 1 .. Len(pending) /\ Len(pending) \in Nat /\ top \in Nat
      /\ rx.f \in Nat /\ base \in Nat
  BY Numbers
<1>q. \A i \in DOMAIN pending : pending[i] \in Nat BY Numbers
<1>u. \A i \in DOMAIN up : up[i].f \in Nat BY Numbers
<1>v. PeerInv /\ OrderInv /\ ModeInv /\ FreshInv /\ StartInv BY DEF SessionInv
<1>p. PeerInv' BY <1>v, PeerStep
<1> DEFINE Kept == OrderInv' /\ ModeInv' /\ FreshInv' /\ StartInv'
<1>1. ASSUME NEW f \in Frames, RxFrame(f) PROVE Kept
  <2>0. f \in Nat /\ f <= base + W - 1
    BY <1>1, <1>n, <1>m, Consts DEF RxFrame, Window, Frames
  <2>1. OrderInv' BY <1>v, <1>1, KeepOrder DEF RxFrame
  <2>2. ModeInv' BY <1>v, <1>1 DEF RxFrame, ModeInv, peer
  <2>3. FreshInv' BY <1>v, <1>1 DEF RxFrame, FreshInv
  <2>4. StartInv'
    <3> SUFFICES ASSUME enable, indicate # Unset
                 PROVE  \E a \in Nat : WindowAt(a)'
      BY <1>1 DEF StartInv, RxFrame
    <3>1. PICK a \in Nat : WindowAt(a) BY <1>v DEF StartInv
    <3>2. rx.pc = "idle" /\ UNCHANGED <<indicate, pending, up, handler>>
      BY <1>1 DEF RxFrame
    <3>3. First <= top /\ a <= top + 1 /\ top <= a + W - 1 /\ indicate = Sn(a)
      BY <3>1, <3>2 DEF WindowAt
    <3>4. \A i \in DOMAIN pending :
             /\ pending[i] <= top /\ pending[i] <= a + W - 1
             /\ IF handler = "drain" THEN a < pending[i] + M \div 2
                ELSE a < pending[i]
      BY <3>1, <3>2 DEF WindowAt
    <3>5. \A i \in DOMAIN up : up[i].s # 0 => up[i].f < a BY <3>1 DEF WindowAt
    <3>6. CASE Sn(f) = tidseq
      <4>1. rx' = rx /\ top' = top BY <1>1, <3>6 DEF RxFrame
      <4> QED BY <3>2, <3>3, <3>4, <3>5, <4>1 DEF WindowAt
    <3>7. CASE Sn(f) # tidseq
      <4>1. top' = Larger(top, f) /\ rx' = [pc |-> "post", f |-> f]
        BY <1>1, <3>7 DEF RxFrame
      <4>2. /\ top' \in Nat /\ top <= top' /\ (top' = f \/ top' = top)
        BY <4>1, <2>0, <1>n DEF Larger
      <4>3. base + 2 * W <= top + M \div 2
        BY <1>v, <3>3, <1>n, <1>m DEF PeerInv, Larger
      <4>4. f < a + M \div 2 BY <4>3, <2>0, <3>3, <1>n, <1>m
      <4>5. top' = f \/ top' <= a + W - 1 BY <4>2, <3>3
      <4>6. First <= top' /\ a <= top' + 1
        <5>1. PICK t \in Nat : top' = t BY <4>2
        <5>2. top \in Nat /\ First \in Nat /\ top <= t BY <4>2, <5>1, <1>n, <1>m
        <5>3. First <= top /\ a <= top + 1 BY <3>3
        <5>4. First <= t /\ a <= t + 1 BY <5>2, <5>3
        <5> QED BY <5>1, <5>4
      <4>7. \A i \in DOMAIN pending : pending[i] <= top'
        BY <4>2, <3>4, <1>q, <1>n
      <4> QED BY <3>2, <3>3, <3>4, <3>5, <4>1, <4>4, <4>5, <4>6, <4>7 DEF WindowAt
    <3> QED BY <3>6, <3>7
  <2> QED BY <2>1, <2>2, <2>3, <2>4
<1>2. ASSUME RxDirect PROVE Kept
  <2>1. OrderInv' BY <1>v, <1>2, KeepOrder DEF RxDirect, peer, hist
  <2>2. ModeInv' BY <1>x, <1>v, <1>2 DEF RxDirect, peer, hist, ModeInv, TypeOK, PlaceTypes
  <2>3. FreshInv' BY <1>x, <1>v, <1>2 DEF RxDirect, peer, hist, FreshInv, ModeInv, TypeOK, PlaceTypes
  <2>4. StartInv' BY <1>v, <1>2 DEF RxDirect, StartInv, ModeInv
  <2> QED BY <2>1, <2>2, <2>3, <2>4
<1>3. ASSUME RxDirectUp PROVE Kept
  <2>1. ~enable BY <1>v, <1>3 DEF RxDirectUp, ModeInv
  <2>2. pending = <<>> /\ \A i \in DOMAIN up : up[i].s = 0
    BY <1>v, <2>1 DEF FreshInv
  <2>3. OrderInv' /\ \A i \in DOMAIN up' : up'[i].s = 0
    BY <1>v, <2>1, <2>2, <1>3, DirectOrder DEF RxDirectUp
  <2>4. ModeInv' BY <1>v, <2>1, <1>3 DEF RxDirectUp, ModeInv, peer, TypeOK, PlaceTypes
  <2>5. FreshInv'
    BY <1>v, <2>1, <2>2, <2>3, <1>3 DEF RxDirectUp, FreshInv, TypeOK, PlaceTypes
  <2>6. StartInv' BY <2>1, <1>3 DEF RxDirectUp, StartInv
  <2> QED BY <2>3, <2>4, <2>5, <2>6
<1>4. ASSUME RxDirectInc PROVE Kept
  <2>1. OrderInv' BY <1>v, <1>4, KeepOrder DEF RxDirectInc, peer, hist
  <2>2. ModeInv' BY <1>x, <1>v, <1>4 DEF RxDirectInc, peer, hist, ModeInv, TypeOK, PlaceTypes
  <2>3. FreshInv' BY <1>x, <1>v, <1>4 DEF RxDirectInc, peer, hist, FreshInv, ModeInv, TypeOK, PlaceTypes
  <2>4. StartInv' BY <1>v, <1>4 DEF RxDirectInc, StartInv, ModeInv
  <2> QED BY <2>1, <2>2, <2>3, <2>4
<1>5. ASSUME RxEnabled PROVE Kept
  <2>1. OrderInv' BY <1>v, <1>5, KeepOrder DEF RxEnabled, peer, hist
  <2>2. ModeInv' BY <1>x, <1>v, <1>5 DEF RxEnabled, peer, hist, ModeInv, TypeOK, PlaceTypes
  <2>3. FreshInv' BY <1>x, <1>v, <1>5 DEF RxEnabled, peer, hist, FreshInv, ModeInv, TypeOK, PlaceTypes
  <2>4. CASE enable
    <3>1. ASSUME NEW a \in Nat, WindowAt(a) PROVE WindowAt(a)'
      BY <1>x, <1>5, <3>1 DEF RxEnabled, hist, WindowAt, TypeOK, PlaceTypes, LockOwner
    <3>2. StartInv' BY <1>v, <1>5, <2>4, <3>1, KeepStart DEF RxEnabled, hist
    <3> QED BY <2>1, <2>2, <2>3, <3>2
  <2>5. CASE ~enable
    <3>1. StartInv' BY <1>5, <2>5 DEF RxEnabled, hist, StartInv
    <3> QED BY <2>1, <2>2, <2>3, <3>1
  <2> QED BY <2>4, <2>5
<1>6. ASSUME RxAdmit PROVE Kept
  <2>1. OrderInv' /\ \E b \in Nat : WindowAt(b)' BY <1>v, <1>6, AdmitOrder
  <2>2. enable BY <1>v, <1>6 DEF RxAdmit, ModeInv
  <2>3. rx' = Quiet \/ rx' = [rx EXCEPT !.pc = "drain"]
    BY <1>6 DEF RxAdmit, Enqueue
  <2>4. rx'.pc \in {"idle", "drain"} BY <2>3, <1>x DEF TypeOK, PlaceTypes
  <2>5. enable' = enable /\ sess' = sess /\ delba' = delba
    BY <1>6 DEF RxAdmit, peer
  <2>6. ModeInv' BY <1>v, <2>2, <2>4, <2>5 DEF ModeInv
  <2>7. indicate' # Unset
    <3>1. PICK b \in Nat : WindowAt(b)' BY <2>1
    <3>2. indicate' = Sn(b) BY <3>1 DEF WindowAt
    <3> QED BY <3>2, SnType
  <2>8. FreshInv' BY <2>2, <2>5, <2>7 DEF FreshInv
  <2>9. StartInv' BY <2>1 DEF StartInv
  <2> QED BY <2>1, <2>6, <2>8, <2>9
<1>7. ASSUME RxDrain PROVE Kept
  BY <1>7, DrainWindow DEF RxDrain, peer
<1>8. ASSUME RxArm PROVE Kept
  <2>1. OrderInv' BY <1>v, <1>8, KeepOrder DEF RxArm, peer, hist
  <2>2. ModeInv' BY <1>x, <1>v, <1>8 DEF RxArm, peer, hist, ModeInv, TypeOK, PlaceTypes
  <2>3. FreshInv' BY <1>x, <1>v, <1>8 DEF RxArm, peer, hist, FreshInv, ModeInv, TypeOK, PlaceTypes
  <2>4. CASE enable
    <3>1. ASSUME NEW a \in Nat, WindowAt(a) PROVE WindowAt(a)'
      BY <1>x, <1>8, <3>1 DEF RxArm, hist, WindowAt, TypeOK, PlaceTypes, LockOwner
    <3>2. StartInv' BY <1>v, <1>8, <2>4, <3>1, KeepStart DEF RxArm, hist
    <3> QED BY <2>1, <2>2, <2>3, <3>2
  <2>5. CASE ~enable
    <3>1. StartInv' BY <1>8, <2>5 DEF RxArm, hist, StartInv
    <3> QED BY <2>1, <2>2, <2>3, <3>1
  <2> QED BY <2>4, <2>5
<1>9. ASSUME RxCancel PROVE Kept
  <2>1. OrderInv' BY <1>v, <1>9, KeepOrder DEF RxCancel, peer, hist
  <2>2. ModeInv' BY <1>x, <1>v, <1>9 DEF RxCancel, peer, hist, ModeInv, TypeOK, PlaceTypes
  <2>3. FreshInv' BY <1>x, <1>v, <1>9 DEF RxCancel, peer, hist, FreshInv, ModeInv, TypeOK, PlaceTypes
  <2>4. CASE enable
    <3>1. ASSUME NEW a \in Nat, WindowAt(a) PROVE WindowAt(a)'
      BY <1>x, <1>9, <3>1 DEF RxCancel, hist, WindowAt, TypeOK, PlaceTypes, LockOwner
    <3>2. StartInv' BY <1>v, <1>9, <2>4, <3>1, KeepStart DEF RxCancel, hist
    <3> QED BY <2>1, <2>2, <2>3, <3>2
  <2>5. CASE ~enable
    <3>1. StartInv' BY <1>9, <2>5 DEF RxCancel, hist, StartInv
    <3> QED BY <2>1, <2>2, <2>3, <3>1
  <2> QED BY <2>4, <2>5
<1>10. ASSUME Expire PROVE Kept
  <2>1. OrderInv' BY <1>v, <1>10, KeepOrder DEF Expire, peer, hist
  <2>2. ModeInv' BY <1>x, <1>v, <1>10 DEF Expire, peer, hist, ModeInv, TypeOK, PlaceTypes
  <2>3. FreshInv' BY <1>x, <1>v, <1>10 DEF Expire, peer, hist, FreshInv, ModeInv, TypeOK, PlaceTypes
  <2>4. CASE enable
    <3>1. ASSUME NEW a \in Nat, WindowAt(a) PROVE WindowAt(a)'
      BY <1>x, <1>10, <3>1 DEF Expire, hist, WindowAt, TypeOK, PlaceTypes, LockOwner
    <3>2. StartInv' BY <1>v, <1>10, <2>4, <3>1, KeepStart DEF Expire, hist
    <3> QED BY <2>1, <2>2, <2>3, <3>2
  <2>5. CASE ~enable
    <3>1. StartInv' BY <1>10, <2>5 DEF Expire, hist, StartInv
    <3> QED BY <2>1, <2>2, <2>3, <3>1
  <2> QED BY <2>4, <2>5
<1>11. ASSUME ForceIndicate PROVE Kept
  <2>1. enable /\ indicate # Unset
    BY <1>v, <1>11 DEF ForceIndicate, FreshInv
  <2>2. UNCHANGED <<enable, pending, rx, delba, sess, up, top>> /\ lock = "free"
    BY <1>11 DEF ForceIndicate, peer
  <2>3. OrderInv' BY <1>v, <2>2, KeepOrder
  <2>4. ModeInv' BY <1>v, <2>2 DEF ModeInv
  <2>5. PICK a \in Nat : WindowAt(a) BY <1>v, <2>1 DEF StartInv
  <2>6. rx.pc # "drain" /\ handler # "drain"
    BY <2>2 DEF TypeOK, LockOwner
  <2>7. CASE pending = <<>>
    <3>1. indicate' = indicate /\ handler' = "idle" BY <1>11, <2>7 DEF ForceIndicate
    <3>2. WindowAt(a)' BY <2>2, <2>5, <2>6, <3>1 DEF WindowAt
    <3>3. StartInv' BY <3>2 DEF StartInv
    <3>4. FreshInv' BY <2>1, <2>2, <3>1 DEF FreshInv
    <3> QED BY <2>3, <2>4, <3>3, <3>4
  <2>8. CASE pending # <<>>
    <3>0. 1 \in DOMAIN pending BY <2>8, <1>n
    <3>1. PICK b \in Nat : b = pending[1] BY <3>0, <1>q
    <3>2. Head(pending) = b BY <3>1, <2>8, TailFacts DEF TypeOK, QueueTypes
    <3>3. indicate' = Sn(b) /\ handler' = "drain"
      BY <1>11, <2>8, <3>2 DEF ForceIndicate
    <3>4. a < b /\ b <= top
      <4>1. a < pending[1] /\ pending[1] <= top
        BY <2>5, <2>6, <3>0 DEF WindowAt
      <4> QED BY <4>1, <3>1
    <3>5. \A i \in DOMAIN pending :
             /\ pending[i] <= top /\ pending[i] <= b + W - 1
             /\ b < pending[i] + M \div 2
      <4> SUFFICES ASSUME NEW i \in DOMAIN pending
                   PROVE  /\ pending[i] <= top /\ pending[i] <= b + W - 1
                          /\ b < pending[i] + M \div 2
        OBVIOUS
      <4>1. pending[i] <= top /\ pending[i] <= a + W - 1 /\ pending[i] \in Nat
        BY <2>5, <1>q DEF WindowAt
      <4>2. i = 1 \/ pending[1] < pending[i]
        BY <1>v, <3>0, <1>n DEF OrderInv, Sorted
      <4>3. b <= pending[i] BY <4>1, <4>2, <3>1
      <4>4. a + W - 1 <= b + W - 1 BY <3>4, <1>m
      <4>5. M \div 2 > 0 BY <1>m, Consts
      <4> QED BY <4>1, <4>3, <4>4, <4>5, <1>m
    <3>6. IF rx.pc \in {"post", "lock"}
          THEN rx.f < b + M \div 2 /\ (top = rx.f \/ top <= b + W - 1)
          ELSE top <= b + W - 1
      <4>1. IF rx.pc \in {"post", "lock"}
            THEN rx.f < a + M \div 2 /\ (top = rx.f \/ top <= a + W - 1)
            ELSE top <= a + W - 1
        BY <2>5 DEF WindowAt
      <4> QED BY <4>1, <3>1, <3>4, <1>n, <1>m
    <3>7. \A i \in DOMAIN up : up[i].s # 0 => up[i].f < b
      <4>1. \A i \in DOMAIN up : up[i].s # 0 => up[i].f < a
        BY <2>5 DEF WindowAt
      <4> QED BY <4>1, <3>1, <3>4, <1>u
    <3>8. First <= top /\ b <= top + 1
      BY <2>5, <3>1, <3>4, <1>n DEF WindowAt
    <3>9. WindowAt(b)'
      BY <2>2, <3>1, <3>3, <3>5, <3>6, <3>7, <3>8 DEF WindowAt
    <3>10. StartInv' BY <3>1, <3>9 DEF StartInv
    <3>11. indicate' # Unset BY <3>1, <3>3, SnType
    <3>12. FreshInv' BY <2>1, <2>2, <3>11 DEF FreshInv
    <3> QED BY <2>3, <2>4, <3>10, <3>12
  <2> QED BY <2>7, <2>8
<1>12. ASSUME HandlerDrain PROVE Kept
  BY <1>12, DrainWindow DEF HandlerDrain, peer
<1>13. ASSUME HandlerReturn PROVE Kept
  <2>1. OrderInv' BY <1>v, <1>13, KeepOrder DEF HandlerReturn, peer, hist
  <2>2. ModeInv' BY <1>x, <1>v, <1>13 DEF HandlerReturn, peer, hist, ModeInv, TypeOK, PlaceTypes
  <2>3. FreshInv' BY <1>x, <1>v, <1>13 DEF HandlerReturn, peer, hist, FreshInv, ModeInv, TypeOK, PlaceTypes
  <2>4. CASE enable
    <3>1. ASSUME NEW a \in Nat, WindowAt(a) PROVE WindowAt(a)'
      BY <1>x, <1>13, <3>1 DEF HandlerReturn, hist, WindowAt, TypeOK, PlaceTypes, LockOwner
    <3>2. StartInv' BY <1>v, <1>13, <2>4, <3>1, KeepStart DEF HandlerReturn, hist
    <3> QED BY <2>1, <2>2, <2>3, <3>2
  <2>5. CASE ~enable
    <3>1. StartInv' BY <1>13, <2>5 DEF HandlerReturn, hist, StartInv
    <3> QED BY <2>1, <2>2, <2>3, <3>1
  <2> QED BY <2>4, <2>5
<1>14. ASSUME SendDelBa \/ SendDelBaUnset \/ DelBa PROVE Kept
  BY <1>v, <1>14 DEF SendDelBa, SendDelBaUnset, DelBa, OneSession, ModeInv
<1>15. ASSUME Stop PROVE Kept
  <2>1. OrderInv' BY <1>v, <1>15, KeepOrder DEF Stop, peer, hist
  <2>2. ModeInv' BY <1>x, <1>v, <1>15 DEF Stop, peer, hist, ModeInv, TypeOK, PlaceTypes
  <2>3. FreshInv' BY <1>x, <1>v, <1>15 DEF Stop, peer, hist, FreshInv, ModeInv, TypeOK, PlaceTypes
  <2>4. CASE enable
    <3>1. ASSUME NEW a \in Nat, WindowAt(a) PROVE WindowAt(a)'
      BY <1>x, <1>15, <3>1 DEF Stop, hist, WindowAt, TypeOK, PlaceTypes, LockOwner
    <3>2. StartInv' BY <1>v, <1>15, <2>4, <3>1, KeepStart DEF Stop, hist
    <3> QED BY <2>1, <2>2, <2>3, <3>2
  <2>5. CASE ~enable
    <3>1. StartInv' BY <1>15, <2>5 DEF Stop, hist, StartInv
    <3> QED BY <2>1, <2>2, <2>3, <3>1
  <2> QED BY <2>4, <2>5
<1>16. ASSUME FreeUnhash PROVE Kept
  <2>1. OrderInv' BY <1>v, <1>16, KeepOrder DEF FreeUnhash, peer, hist
  <2>2. ModeInv' BY <1>x, <1>v, <1>16 DEF FreeUnhash, peer, hist, ModeInv, TypeOK, PlaceTypes
  <2>3. FreshInv' BY <1>x, <1>v, <1>16 DEF FreeUnhash, peer, hist, FreshInv, ModeInv, TypeOK, PlaceTypes
  <2>4. CASE enable
    <3>1. ASSUME NEW a \in Nat, WindowAt(a) PROVE WindowAt(a)'
      BY <1>x, <1>16, <3>1 DEF FreeUnhash, hist, WindowAt, TypeOK, PlaceTypes, LockOwner
    <3>2. StartInv' BY <1>v, <1>16, <2>4, <3>1, KeepStart DEF FreeUnhash, hist
    <3> QED BY <2>1, <2>2, <2>3, <3>2
  <2>5. CASE ~enable
    <3>1. StartInv' BY <1>16, <2>5 DEF FreeUnhash, hist, StartInv
    <3> QED BY <2>1, <2>2, <2>3, <3>1
  <2> QED BY <2>4, <2>5
<1>17. ASSUME FreeCancel PROVE Kept
  <2>1. OrderInv' BY <1>v, <1>17, KeepOrder DEF FreeCancel, peer, hist
  <2>2. ModeInv' BY <1>x, <1>v, <1>17 DEF FreeCancel, peer, hist, ModeInv, TypeOK, PlaceTypes
  <2>3. FreshInv' BY <1>x, <1>v, <1>17 DEF FreeCancel, peer, hist, FreshInv, ModeInv, TypeOK, PlaceTypes
  <2>4. CASE enable
    <3>1. ASSUME NEW a \in Nat, WindowAt(a) PROVE WindowAt(a)'
      BY <1>x, <1>17, <3>1 DEF FreeCancel, hist, WindowAt, TypeOK, PlaceTypes, LockOwner
    <3>2. StartInv' BY <1>v, <1>17, <2>4, <3>1, KeepStart DEF FreeCancel, hist
    <3> QED BY <2>1, <2>2, <2>3, <3>2
  <2>5. CASE ~enable
    <3>1. StartInv' BY <1>17, <2>5 DEF FreeCancel, hist, StartInv
    <3> QED BY <2>1, <2>2, <2>3, <3>1
  <2> QED BY <2>4, <2>5
<1>18. ASSUME FreeFlush PROVE Kept
  <2>0. DOMAIN pending' = {} /\ pending' = <<>> /\ UNCHANGED <<up, enable, indicate>>
    BY <1>18 DEF FreeFlush, hist
  <2>1. OrderInv' BY <1>v, <2>0 DEF OrderInv, InOrder, Sorted
  <2>2. ModeInv' BY <1>v, <1>18 DEF FreeFlush, ModeInv, peer
  <2>3. FreshInv' BY <1>v, <2>0, <1>18 DEF FreeFlush, FreshInv
  <2>4. StartInv'
    <3> SUFFICES ASSUME enable, indicate # Unset
                 PROVE  \E a \in Nat : WindowAt(a)'
      BY <2>0 DEF StartInv
    <3>1. PICK a \in Nat : WindowAt(a) BY <1>v DEF StartInv
    <3>2. WindowAt(a)' BY <2>0, <3>1, <1>18 DEF FreeFlush, hist, WindowAt
    <3> QED BY <3>2
  <2> QED BY <2>1, <2>2, <2>3, <2>4
<1>19. ASSUME Advance PROVE Kept
  <2>1. OrderInv' BY <1>v, <1>19, KeepOrder DEF Advance, code, hist
  <2>2. ModeInv' BY <1>x, <1>v, <1>19 DEF Advance, code, hist, ModeInv, TypeOK, PlaceTypes
  <2>3. FreshInv' BY <1>x, <1>v, <1>19 DEF Advance, code, hist, FreshInv, ModeInv, TypeOK, PlaceTypes
  <2>4. CASE enable
    <3>1. ASSUME NEW a \in Nat, WindowAt(a) PROVE WindowAt(a)'
      BY <1>x, <1>19, <3>1 DEF Advance, code, hist, WindowAt, TypeOK, PlaceTypes, LockOwner
    <3>2. StartInv' BY <1>v, <1>19, <2>4, <3>1, KeepStart DEF Advance, code, hist
    <3> QED BY <2>1, <2>2, <2>3, <3>2
  <2>5. CASE ~enable
    <3>1. StartInv' BY <1>19, <2>5 DEF Advance, code, hist, StartInv
    <3> QED BY <2>1, <2>2, <2>3, <3>1
  <2> QED BY <2>4, <2>5
<1>20. ASSUME HearDelBa PROVE Kept
  <2>1. OrderInv' BY <1>v, <1>20, KeepOrder DEF HearDelBa, code, hist
  <2>2. ModeInv' BY <1>x, <1>v, <1>20 DEF HearDelBa, code, hist, ModeInv, TypeOK, PlaceTypes
  <2>3. FreshInv' BY <1>x, <1>v, <1>20 DEF HearDelBa, code, hist, FreshInv, ModeInv, TypeOK, PlaceTypes
  <2>4. CASE enable
    <3>1. ASSUME NEW a \in Nat, WindowAt(a) PROVE WindowAt(a)'
      BY <1>x, <1>20, <3>1 DEF HearDelBa, code, hist, WindowAt, TypeOK, PlaceTypes, LockOwner
    <3>2. StartInv' BY <1>v, <1>20, <2>4, <3>1, KeepStart DEF HearDelBa, code, hist
    <3> QED BY <2>1, <2>2, <2>3, <3>2
  <2>5. CASE ~enable
    <3>1. StartInv' BY <1>20, <2>5 DEF HearDelBa, code, hist, StartInv
    <3> QED BY <2>1, <2>2, <2>3, <3>1
  <2> QED BY <2>4, <2>5
<1>21. ASSUME AddBa PROVE Kept
  <2>1. ~enable BY <1>v, <1>21, Consts DEF AddBa, ModeInv, OneSession, TypeOK, QueueTypes
  <2>2. sess' = 1 BY <1>21, Consts DEF AddBa, OneSession, TypeOK, QueueTypes
  <2>3. OrderInv' BY <1>v, <1>21, KeepOrder DEF AddBa, hist
  <2>4. ModeInv' BY <1>v, <2>2, <1>21 DEF AddBa, ModeInv
  <2>5. FreshInv' BY <1>v, <2>1, <1>21 DEF AddBa, FreshInv, hist
  <2>6. StartInv' BY <1>21 DEF AddBa, StartInv
  <2> QED BY <2>3, <2>4, <2>5, <2>6
<1>22. ASSUME UNCHANGED vars PROVE Kept
  <2>1. OrderInv' BY <1>v, <1>22, KeepOrder DEF vars, code, peer, hist
  <2>2. ModeInv' BY <1>x, <1>v, <1>22 DEF vars, code, peer, hist, ModeInv, TypeOK, PlaceTypes
  <2>3. FreshInv' BY <1>x, <1>v, <1>22 DEF vars, code, peer, hist, FreshInv, ModeInv, TypeOK, PlaceTypes
  <2>4. CASE enable
    <3>1. ASSUME NEW a \in Nat, WindowAt(a) PROVE WindowAt(a)'
      BY <1>x, <1>22, <3>1 DEF vars, code, hist, WindowAt, TypeOK, PlaceTypes, LockOwner
    <3>2. StartInv' BY <1>v, <1>22, <2>4, <3>1, KeepStart DEF vars, code, hist
    <3> QED BY <2>1, <2>2, <2>3, <3>2
  <2>5. CASE ~enable
    <3>1. StartInv' BY <1>22, <2>5 DEF vars, code, hist, StartInv
    <3> QED BY <2>1, <2>2, <2>3, <3>1
  <2> QED BY <2>4, <2>5
<1>k. Kept
  BY <1>1, <1>2, <1>3, <1>4, <1>5, <1>6, <1>7, <1>8, <1>9, <1>10, <1>11, <1>12, <1>13, <1>14, <1>15, <1>16, <1>17, <1>18, <1>19, <1>20, <1>21, <1>22 DEF Next, Rx, Timer, Process
<1> QED BY <1>p, <1>k DEF SessionInv

(* Whatever the timer and the drain loops interleave to, on any number of    *)
(* CPUs, one block-ack session reaches the stack in the peer's order.        *)
THEOREM ReorderInOrder == OneSession => (Spec => []InOrder)
<1> SUFFICES ASSUME OneSession PROVE Spec => []InOrder OBVIOUS
<1>1. Init => SessionInv BY SessionInit
<1>2. BaseInv /\ SessionInv /\ [Next]_vars => SessionInv'
  BY SessionStep DEF BaseInv
<1>3. SessionInv => InOrder BY DEF SessionInv, OrderInv
<1> QED BY <1>1, <1>2, <1>3, BaseInit, BaseStep, PTL DEF Spec

(* Between two frames of that session the queue is sorted and lies inside    *)
(* the window of indicate_seq, modulo 4096.                                  *)
THEOREM ReorderWindow == OneSession => (Spec => []WindowInv)
<1> SUFFICES ASSUME OneSession PROVE Spec => []WindowInv OBVIOUS
<1>1. Init => SessionInv BY SessionInit
<1>2. BaseInv /\ SessionInv /\ [Next]_vars => SessionInv'
  BY SessionStep DEF BaseInv
<1>3. BaseInv /\ SessionInv => WindowInv
  <2> SUFFICES ASSUME TypeOK, SessionInv, lock = "free"
               PROVE  /\ \A i, j \in DOMAIN pending :
                            i < j => pending[i] < pending[j]
                      /\ \A i \in DOMAIN pending :
                            (Sn(pending[i]) - indicate) % M \in 1 .. W - 1
    BY DEF BaseInv, WindowInv
  <2>1. Sorted(pending) BY DEF SessionInv, OrderInv
  <2>2. ASSUME NEW i \in DOMAIN pending
        PROVE  (Sn(pending[i]) - indicate) % M \in 1 .. W - 1
    <3>1. pending # <<>> OBVIOUS
    <3>2. enable /\ indicate # Unset BY <3>1 DEF SessionInv, FreshInv
    <3>3. PICK a \in Nat : WindowAt(a) BY <3>2 DEF SessionInv, StartInv
    <3>4. rx.pc # "drain" /\ handler # "drain" BY DEF TypeOK, LockOwner
    <3>5. indicate = Sn(a) /\ a < pending[i] /\ pending[i] <= a + W - 1
      BY <3>3, <3>4 DEF WindowAt
    <3>6. pending[i] \in Nat BY Numbers
    <3>7. W \in Nat /\ M \in Nat /\ W < M BY Consts
    <3>8. a <= pending[i] /\ pending[i] < a + M BY <3>5, <3>6, <3>7
    <3>9. (Sn(pending[i]) - Sn(a)) % M = pending[i] - a
      BY <3>6, <3>8, SnDistance
    <3>10. pending[i] - a \in 1 .. W - 1 BY <3>5, <3>6, <3>7
    <3> QED BY <3>5, <3>9, <3>10
  <2> QED BY <2>1, <2>2 DEF Sorted
<1> QED BY <1>1, <1>2, <1>3, BaseInit, BaseStep, PTL DEF Spec

-----------------------------------------------------------------------------
(* What was discarded.                                                       *)

\* Nothing is lost by discarding f.
Just(f) == f < skip \/ f \in UpFrames \/ f \in Pending

\* A frame no newer than the newest that the window may still have to judge:
\* the peer can send it, or the tasklet carries it.
Awaited(f) ==
    /\ f \in Frames /\ f <= top
    /\ base <= f \/ (rx.pc \in {"post", "lock"} /\ f = rx.f)

\* Whatever check_indicate_seq would call old may be discarded.
CoverInv ==
    enable /\ indicate # Unset =>
        \A f \in Frames : Awaited(f) /\ SnLess(Sn(f), indicate) => Just(f)

\* The last frame that passed recv_decache: on its way, or taken care of.
LastAt(l) ==
    /\ tidseq = Sn(l) /\ l <= top /\ top <= l + W - 1
    /\ IF rx.pc \in {"post", "lock", "direct"} THEN rx.f = l ELSE Just(l)
LastInv == tidseq # Unset => \E l \in Frames : LastAt(l)

DropInv ==
    sta = "up" /\ ~stopped =>
        CoverInv /\ LastInv /\ \A f \in dropped : Just(f)

(* An awaited frame is within half the sequence space of the window start.   *)
LEMMA AwaitedNear ==
  ASSUME TypeOK, PeerInv, NEW f \in Frames, Awaited(f)
  PROVE  /\ f \in Nat /\ f <= top /\ top <= f + W - 1
         /\ \A a \in Nat : WindowAt(a) => f < a + M \div 2 /\ a < f + M \div 2
<1>n. base \in Nat /\ top \in Nat /\ f \in Nat /\ rx.f \in Nat
  BY Numbers, Consts DEF Frames
<1>m. M \div 2 \in Nat /\ W \in Nat /\ W >= 2 /\ 2 * W <= M \div 2 BY Consts
<1>1. top <= base + W - 1 BY DEF PeerInv
<1>2. f <= top BY DEF Awaited
<1>3. top <= f + W - 1
  <2>1. CASE base <= f BY <2>1, <1>1, <1>n, <1>m
  <2>2. CASE rx.pc \in {"post", "lock"} /\ f = rx.f BY <2>2 DEF PeerInv
  <2> QED BY <2>1, <2>2 DEF Awaited
<1>4. ASSUME NEW a \in Nat, WindowAt(a)
      PROVE  f < a + M \div 2 /\ a < f + M \div 2
  <2>1. a <= top + 1 BY <1>4 DEF WindowAt
  <2>2. a < f + M \div 2 BY <2>1, <1>3, <1>n, <1>m
  <2>3. top < a + M \div 2
    <3>1. CASE top = rx.f /\ rx.f < a + M \div 2 BY <3>1
    <3>2. CASE top <= a + W - 1 BY <3>2, <1>n, <1>m
    <3> QED BY <3>1, <3>2, <1>4 DEF WindowAt
  <2> QED BY <2>2, <2>3, <1>2, <1>n, <1>m
<1> QED BY <1>2, <1>3, <1>4, <1>n

(* What a frame handed up leaves behind.                                     *)
LEMMA AppendedUp ==
  ASSUME TypeOK, NEW f, NEW s, up' = Append(up, [f |-> f, s |-> s])
  PROVE  /\ DOMAIN up' = 1 .. Len(up) + 1
         /\ \A i \in 1 .. Len(up) : up'[i] = up[i]
         /\ up'[Len(up) + 1].f = f
<1> DEFINE e == [f |-> f, s |-> s]
<1>1. e.f = f OBVIOUS
<1>2. DOMAIN up = 1 .. Len(up) /\ Len(up) \in Nat BY Numbers
<1>3. up \in Seq([f : Frames, s : 0 .. Sessions]) BY DEF TypeOK, QueueTypes
<1>4. up' = Append(up, e) OBVIOUS
<1> HIDE DEF e
<1>5. DOMAIN up' = 1 .. Len(up) + 1 BY <1>3, <1>4
<1>6. \A i \in 1 .. Len(up) : up'[i] = up[i] BY <1>3, <1>4
<1>7. up'[Len(up) + 1] = e BY <1>3, <1>4
<1> QED BY <1>1, <1>5, <1>6, <1>7

(* Handing up the head of the queue loses no frame.                          *)
LEMMA DrainKeeps ==
  ASSUME TypeOK, Drain, ~stopped
  PROVE  /\ UpFrames \subseteq UpFrames'
         /\ Pending \subseteq Pending' \union UpFrames'
         /\ Indicate => Head(pending) \in UpFrames' /\ Head(pending) \in Frames
                        /\ \E i \in DOMAIN pending : Head(pending) = pending[i]
<1>1. CASE Indicate
  <2> DEFINE h == Head(pending)
  <2>0. pending # <<>> /\ pending' = Tail(pending) BY <1>1 DEF Indicate, Ready
  <2>1. /\ h = pending[1] /\ h \in Frames
        /\ DOMAIN pending = 1 .. Len(pending) /\ Len(pending) \in Nat \ {0}
        /\ DOMAIN pending' = 1 .. Len(pending) - 1
        /\ \A i \in 1 .. Len(pending) - 1 : pending'[i] = pending[i + 1]
    BY <2>0, TailFacts DEF TypeOK, QueueTypes
  <2>2. HandUp(h) BY <1>1 DEF Indicate
  <2>3. DOMAIN up = 1 .. Len(up) /\ Len(up) \in Nat BY Numbers
  <2> HIDE DEF h
  <2>4. up' = Append(up, [f |-> h, s |-> IF enable THEN sess ELSE 0])
    BY <2>2 DEF HandUp
  <2>5. /\ DOMAIN up' = 1 .. Len(up) + 1
        /\ \A i \in 1 .. Len(up) : up'[i] = up[i]
        /\ up'[Len(up) + 1].f = h
    BY <2>4, AppendedUp
  <2>6. h \in UpFrames'
    <3>1. Len(up) + 1 \in DOMAIN up' BY <2>3, <2>5
    <3> QED BY <3>1, <2>5 DEF UpFrames
  <2>7. ASSUME NEW f \in UpFrames PROVE f \in UpFrames'
    <3>1. PICK i \in DOMAIN up : f = up[i].f BY DEF UpFrames
    <3>2. i \in DOMAIN up' /\ up'[i].f = f BY <3>1, <2>3, <2>5
    <3> QED BY <3>2 DEF UpFrames
  <2>8. ASSUME NEW f \in Pending PROVE f \in Pending' \union UpFrames'
    <3>1. PICK i \in DOMAIN pending : f = pending[i] BY DEF Pending
    <3>2. CASE i = 1 BY <3>1, <3>2, <2>1, <2>6
    <3>3. CASE i # 1
      <4>1. i - 1 \in DOMAIN pending' /\ pending'[i - 1] = f
        BY <3>1, <3>3, <2>1
      <4> QED BY <4>1 DEF Pending
    <3> QED BY <3>2, <3>3
  <2>9. 1 \in DOMAIN pending BY <2>1
  <2> QED BY <2>1, <2>6, <2>7, <2>8, <2>9 DEF h
<1>2. CASE DrainEnds
  <2>1. UNCHANGED <<pending, up>> /\ ~Indicate
    BY <1>2 DEF DrainEnds, Indicate
  <2> QED BY <2>1 DEF UpFrames, Pending
<1> QED BY <1>1, <1>2 DEF Drain

(* Where check_indicate_seq puts the window: it stays, it moves past the     *)
(* frame, or it moves up to end at the frame.                                *)
LEMMA AdmitMoves ==
  ASSUME TypeOK, PeerInv, ModeInv, StartInv, RxAdmit,
         ~SnLess(Sn(rx.f), Start(Sn(rx.f)))
  PROVE  \/ indicate # Unset /\ indicate' = indicate
         \/ indicate \in {Unset, Sn(rx.f)} /\ indicate' = Sn(rx.f + 1)
         \/ rx.f + 1 - W \in Nat /\ indicate' = Sn(rx.f + 1 - W)
<1> DEFINE f == rx.f
<1>n. f \in Nat /\ top \in Nat BY Numbers
<1>m. M \div 2 \in Nat /\ W \in Nat /\ W >= 2 /\ 2 * W <= M \div 2 BY Consts
<1>1. indicate' = CheckIndicateSeq(Sn(f)) BY DEF RxAdmit
<1>2. enable /\ rx.pc = "lock" BY DEF RxAdmit, ModeInv
<1>3. f <= top /\ top <= f + W - 1 BY <1>2 DEF PeerInv
<1> HIDE DEF f
<1>4. CASE Sn(f) = Start(Sn(f))
  <2>1. (Sn(f) + 1) % M = Sn(f + 1) BY <1>n, SnPlus
  <2>2. indicate' = Sn(f + 1) BY <2>1, <1>1, <1>4 DEF CheckIndicateSeq
  <2>3. indicate \in {Unset, Sn(f)} BY <1>4 DEF Start
  <2> QED BY <2>2, <2>3 DEF f
<1>5. CASE Sn(f) # Start(Sn(f)) /\ ~SnLess(WindowEnd, Sn(f))
  <2>1. indicate # Unset /\ Start(Sn(f)) = indicate BY <1>5 DEF Start
  <2> QED BY <2>1, <1>1, <1>5 DEF CheckIndicateSeq
<1>6. CASE Sn(f) # Start(Sn(f)) /\ SnLess(WindowEnd, Sn(f))
  <2>1. indicate # Unset BY <1>6 DEF Start
  <2>2. PICK a \in Nat : WindowAt(a) BY <2>1, <1>2 DEF StartInv
  <2>3. indicate = Sn(a) /\ a <= top + 1 /\ f < a + M \div 2
    BY <2>2, <1>2 DEF WindowAt, f
  <2>4. a + W - 1 \in Nat /\ (Sn(a) + (W - 1)) % M = Sn(a + (W - 1))
    BY <1>m, SnPlus
  <2>5. WindowEnd = Sn(a + W - 1)
    <3>1. Sn(a) \in Nat BY SnType, Consts
    <3>2. Sn(a) + W - 1 = Sn(a) + (W - 1) /\ a + W - 1 = a + (W - 1)
      BY <3>1, <1>m
    <3> QED BY <2>3, <2>4, <3>2 DEF WindowEnd
  <2>6. f < (a + W - 1) + M \div 2 /\ a + W - 1 < f + M \div 2
    BY <2>3, <1>3, <1>n, <1>m
  <2>7. a + W - 1 < f BY <2>4, <2>5, <2>6, <1>6, <1>n, SnLessIff
  <2>8. W <= f + 1 /\ f + 1 - W \in Nat BY <2>7, <1>n, <1>m
  <2>9. ShiftTo(Sn(f)) = Sn(f + 1 - W) BY <2>8, <1>n, ShiftToStart
  <2>10. indicate' = Sn(f + 1 - W) BY <2>9, <1>1, <1>6 DEF CheckIndicateSeq
  <2> QED BY <2>8, <2>10 DEF f
<1> QED BY <1>4, <1>5, <1>6

(* The frame that passes check_indicate_seq is in the queue afterwards: it   *)
(* was inserted, or the frame it equals modulo 4096 is the frame itself.     *)
LEMMA EnqueueHolds ==
  ASSUME TypeOK, PeerInv, FreshInv, StartInv, rx.pc = "lock", lock = "free",
         Enqueue(rx.f)
  PROVE  /\ Pending \subseteq Pending' /\ rx.f \in Pending'
         /\ dropped' \subseteq dropped \union {rx.f}
         /\ rx'.pc \notin {"post", "lock", "direct"}
<1>f. PICK f \in Frames : f = rx.f BY DEF TypeOK, PlaceTypes
<1>n. /\ f \in Nat /\ top \in Nat /\ f \in Frames
      /\ DOMAIN pending = 1 .. Len(pending) /\ Len(pending) \in Nat
      /\ \A i \in DOMAIN pending : pending[i] \in Nat
  BY <1>f, Numbers
<1>m. M \div 2 \in Nat /\ W \in Nat /\ W >= 2 /\ 2 * W <= M \div 2 BY Consts
<1>1. f <= top /\ top <= f + W - 1 BY <1>f DEF PeerInv
<1>2. PICK k \in 1 .. Len(pending) + 1 :
          IF k <= Len(pending) /\ Sn(pending[k]) = Sn(f)
          THEN /\ dropped' = dropped \union {f}
               /\ rx' = Quiet /\ pending' = pending
          ELSE /\ pending' = InsertAt(pending, k, f)
               /\ rx' = [rx EXCEPT !.pc = "drain"] /\ dropped' = dropped
  BY <1>f DEF Enqueue
<1>3. rx'.pc \notin {"post", "lock", "direct"}
  BY <1>2 DEF Quiet, TypeOK, PlaceTypes
<1>4. dropped' \subseteq dropped \union {f} BY <1>2
<1>5. CASE k <= Len(pending) /\ Sn(pending[k]) = Sn(f)
  <2>1. k \in DOMAIN pending /\ pending # <<>> BY <1>5, <1>n
  <2>2. enable /\ indicate # Unset BY <2>1 DEF FreshInv
  <2>3. PICK a \in Nat : WindowAt(a) BY <2>2 DEF StartInv
  <2>4. handler # "drain" BY DEF TypeOK, LockOwner
  <2>5. a < pending[k] /\ pending[k] <= top /\ f < a + M \div 2
    BY <1>f, <2>1, <2>3, <2>4 DEF WindowAt
  <2>6. pending[k] < f + M \div 2 /\ f < pending[k] + M \div 2
    <3>1. PICK p \in Nat : p = pending[k] BY <2>1, <1>n
    <3>0. p <= top /\ a < p /\ f < a + M \div 2 BY <3>1, <2>5
    <3>2. p <= top /\ f < p + M \div 2
      <4>1. f \in Nat /\ M \in Nat BY <1>n, Consts
      <4> QED BY <4>1, <3>0, <1>m
    <3>3. p < f + M \div 2 BY <3>2, <1>1, <1>n, <1>m
    <3> QED BY <3>1, <3>2, <3>3
  <2>7. pending[k] = f BY <2>1, <2>6, <1>5, <1>n, SnEqual
  <2>8. pending' = pending BY <1>2, <1>5
  <2>9. Pending' = Pending /\ f \in Pending BY <2>1, <2>7, <2>8 DEF Pending
  <2> QED BY <2>9, <1>f, <1>3, <1>4
<1>6. CASE ~(k <= Len(pending) /\ Sn(pending[k]) = Sn(f))
  <2>1. pending \in Seq(Frames) BY DEF TypeOK, QueueTypes
  <2>2. /\ DOMAIN pending' = 1 .. Len(pending) + 1
        /\ \A i \in 1 .. Len(pending) + 1 : pending'[i] =
              IF i < k THEN pending[i] ELSE IF i = k THEN f ELSE pending[i - 1]
    <3>1. pending' = InsertAt(pending, k, f) BY <1>2, <1>6
    <3>2. /\ DOMAIN InsertAt(pending, k, f) = 1 .. Len(pending) + 1
          /\ \A i \in 1 .. Len(pending) + 1 : InsertAt(pending, k, f)[i] =
                IF i < k THEN pending[i] ELSE IF i = k THEN f
                                         ELSE pending[i - 1]
      BY <2>1, <1>n, InsertFacts
    <3> QED BY <3>1, <3>2
  <2>3. f \in Pending'
    <3>1. k \in DOMAIN pending' /\ pending'[k] = f BY <2>2
    <3> QED BY <3>1 DEF Pending
  <2>4. ASSUME NEW g \in Pending PROVE g \in Pending'
    <3>1. PICK i \in DOMAIN pending : g = pending[i] BY DEF Pending
    <3>2. CASE i < k
      <4>1. i \in DOMAIN pending' /\ pending'[i] = g
        BY <3>1, <3>2, <2>2, <1>n
      <4> QED BY <4>1 DEF Pending
    <3>3. CASE ~(i < k)
      <4>1. i + 1 \in 1 .. Len(pending) + 1 /\ ~(i + 1 < k) /\ i + 1 # k
            /\ i + 1 - 1 = i
        BY <3>3, <1>n
      <4>2. i + 1 \in DOMAIN pending' /\ pending'[i + 1] = g
        BY <4>1, <3>1, <2>2
      <4> QED BY <4>2 DEF Pending
    <3> QED BY <3>2, <3>3
  <2> QED BY <2>3, <2>4, <1>f, <1>3, <1>4
<1> QED BY <1>5, <1>6

(* A drain step moves the window past nothing but the frame it hands up.     *)
LEMMA DrainCovers ==
  ASSUME TypeOK, SessionInv, ~stopped, CoverInv, Drain,
         rx.pc = "drain" \/ handler = "drain",
         UNCHANGED <<enable, base, top, skip>>,
         rx'.pc \in {"post", "lock"} => rx' = rx
  PROVE  CoverInv'
<1>n. top \in Nat /\ \A i \in DOMAIN pending : pending[i] \in Nat BY Numbers
<1>m. M \div 2 \in Nat /\ W \in Nat /\ W >= 2 /\ 2 * W <= M \div 2 BY Consts
<1>0. PeerInv /\ enable /\ indicate # Unset BY DEF SessionInv, FreshInv
<1>k. ASSUME NEW f \in Frames, Just(f) PROVE Just(f)'
  BY <1>k, DrainKeeps DEF Just
<1>a. ASSUME NEW f \in Frames, Awaited(f)' PROVE Awaited(f)
  BY <1>a DEF Awaited
<1>1. CASE indicate' = indicate
  BY <1>0, <1>1, <1>k, <1>a DEF CoverInv
<1>2. CASE indicate' # indicate
  <2> DEFINE h == Head(pending)
  <2>1. Indicate BY <1>2 DEF Drain, DrainEnds
  <2>2. indicate = Sn(h) /\ indicate' = (indicate + 1) % M
    BY <1>2, <2>1 DEF Indicate
  <2>3. h \in UpFrames' /\ h \in Frames /\ h \in Nat
        /\ \E i \in DOMAIN pending : h = pending[i]
    BY <2>1, <1>n, DrainKeeps
  <2> HIDE DEF h
  <2>4. (Sn(h) + 1) % M = Sn(h + 1) BY <2>3, SnPlus
  <2>5. PICK a \in Nat : WindowAt(a) BY <1>0 DEF SessionInv, StartInv
  <2>6. indicate = Sn(a) /\ h <= a + W - 1 /\ a < h + M \div 2
    BY <2>3, <2>5 DEF WindowAt
  <2>7. h < a + M \div 2 BY <2>3, <2>6, <1>m
  <2>8. h = a BY <2>2, <2>3, <2>6, <2>7, SnEqual
  <2>9. ASSUME NEW f \in Frames, Awaited(f)', SnLess(Sn(f), indicate')
        PROVE  Just(f)'
    <3>1. Awaited(f) BY <2>9, <1>a
    <3>2. f \in Nat /\ f < a + M \div 2 /\ a < f + M \div 2 /\ f <= top
          /\ top <= f + W - 1
      BY <3>1, <2>5, <1>0, AwaitedNear
    <3>3. a <= top + 1 BY <2>5 DEF WindowAt
    <3>4. h + 1 \in Nat /\ f < (h + 1) + M \div 2 /\ h + 1 < f + M \div 2
      BY <3>2, <3>3, <2>3, <2>8, <1>n, <1>m
    <3>5. f < h + 1 BY <3>2, <3>4, <2>2, <2>4, <2>9, SnLessIff
    <3>6. CASE f = h BY <3>6, <2>3 DEF Just
    <3>7. CASE f < h
      <4>1. SnLess(Sn(f), indicate) BY <3>7, <3>2, <2>2, <2>3, <2>8, SnLessIff
      <4>2. Just(f) BY <4>1, <3>1, <1>0 DEF CoverInv
      <4> QED BY <4>2, <1>k
    <3> QED BY <3>2, <3>5, <3>6, <3>7, <2>3
  <2> QED BY <2>9 DEF CoverInv
<1> QED BY <1>1, <1>2

(* A step that takes no frame from the tasklet and discards none.            *)
LEMMA KeepLast ==
  ASSUME UNCHANGED <<tidseq, top, dropped, up, pending>>, skip' = skip,
         CoverInv /\ LastInv /\ \A f \in dropped : Just(f),
         \/ rx' = rx
         \/ rx.pc \notin {"post", "lock", "direct"}
            /\ rx'.pc \notin {"post", "lock", "direct"}
         \/ /\ rx.pc \in {"post", "lock", "direct"} /\ rx'.f = rx.f
            /\ rx'.pc \in {"post", "lock", "direct"}
  PROVE  LastInv' /\ \A f \in dropped' : Just(f)'
<1>1. ASSUME NEW f PROVE Just(f) => Just(f)'
  BY DEF Just, UpFrames, Pending
<1>2. ASSUME NEW l \in Frames, LastAt(l) PROVE LastAt(l)'
  BY <1>1, <1>2 DEF LastAt
<1> QED BY <1>1, <1>2 DEF LastInv

LEMMA KeepCover ==
  ASSUME UNCHANGED <<enable, indicate, top, up, pending, skip>>, CoverInv,
         TypeOK, base' = base \/ base' = base + 1,
         rx'.pc \in {"post", "lock"} =>
            rx.pc \in {"post", "lock"} /\ rx'.f = rx.f
  PROVE  CoverInv'
<1>1. ASSUME NEW f PROVE Just(f) => Just(f)'
  BY DEF Just, UpFrames, Pending
<1>2. ASSUME NEW f \in Frames, Awaited(f)' PROVE Awaited(f)
  <2>1. f \in Nat /\ base \in Nat BY Numbers, Consts DEF Frames
  <2>2. base' <= f => base <= f BY <2>1
  <2> QED BY <1>2, <2>2 DEF Awaited
<1> QED BY <1>1, <1>2 DEF CoverInv

LEMMA DropInit ==
  ASSUME Init PROVE DropInv
<1>1. ~enable /\ tidseq = Unset /\ dropped = {} BY DEF Init
<1> QED BY <1>1 DEF DropInv, CoverInv, LastInv

(* recv_decache: what it calls a duplicate is the frame it saw last; what it *)
(* lets pass is newer than the window or was judged by CoverInv already.     *)
LEMMA RxFrameDrops ==
  ASSUME TypeOK, SessionInv, PeerInv', CoverInv, LastInv,
         \A g \in dropped : Just(g), NEW f \in Frames, RxFrame(f)
  PROVE  CoverInv' /\ LastInv' /\ \A g \in dropped' : Just(g)'
<1>n. base \in Nat /\ top \in Nat /\ f \in Nat BY Numbers, Consts DEF Frames
<1>m. M \div 2 \in Nat /\ W \in Nat /\ W >= 2 /\ 2 * W <= M \div 2
      /\ First \in Nat
  BY Consts
<1>0. PeerInv BY DEF SessionInv
<1>1. rx.pc = "idle" /\ UNCHANGED <<enable, indicate, base, up, pending, skip>>
  BY DEF RxFrame, peer
<1>2. base <= f /\ f <= base + W - 1
  BY <1>n, <1>m DEF RxFrame, Window
<1>3. top <= f + W - 1 BY <1>0, <1>2, <1>n, <1>m DEF PeerInv
<1>4. First <= top => f < top + M \div 2 - W
  BY <1>0, <1>2, <1>n, <1>m DEF PeerInv, Larger
<1>5. ASSUME NEW g PROVE Just(g)' <=> Just(g)
  BY <1>1 DEF Just, UpFrames, Pending
<1>6. CASE Sn(f) = tidseq
  <2>1. UNCHANGED <<tidseq, rx, top>> /\ dropped' = dropped \union {f}
    BY <1>6 DEF RxFrame
  <2>2. Sn(f) # Unset BY <1>n, SnType
  <2>3. PICK l \in Frames : LastAt(l) BY <1>6, <2>2 DEF LastInv
  <2>4. tidseq = Sn(l) /\ l <= top /\ top <= l + W - 1 /\ Just(l)
    BY <2>3, <1>1 DEF LastAt
  <2>5. l \in Nat /\ First <= l BY Consts DEF Frames
  <2>6. First <= top BY <2>4, <2>5, <1>n, <1>m
  <2>7. f < l + M \div 2 BY <2>4, <2>5, <2>6, <1>4, <1>n, <1>m
  <2>8. l < f + M \div 2 BY <2>4, <2>5, <1>3, <1>n, <1>m
  <2>9. l = f BY <2>4, <2>5, <2>7, <2>8, <1>6, <1>n, SnEqual
  <2>10. \A g \in dropped' : Just(g)' BY <2>1, <2>4, <2>9, <1>5
  <2>11. LastAt(l)' BY <2>1, <2>3, <1>5 DEF LastAt
  <2>12. LastInv' BY <2>11 DEF LastInv
  <2>13. CoverInv' BY <2>1, <1>1, KeepCover
  <2> QED BY <2>10, <2>12, <2>13
<1>7. CASE Sn(f) # tidseq
  <2>1. /\ tidseq' = Sn(f) /\ rx' = [pc |-> "post", f |-> f]
        /\ top' = Larger(top, f) /\ dropped' = dropped
    BY <1>7 DEF RxFrame
  <2>2. rx'.pc = "post" /\ rx'.f = f BY <2>1
  <2>3. f <= top' /\ top' <= f + W - 1 BY <2>2 DEF PeerInv
  <2>4. LastAt(f)' BY <2>1, <2>2, <2>3 DEF LastAt
  <2>5. LastInv' BY <2>4 DEF LastInv
  <2>6. ASSUME enable, indicate # Unset, NEW g \in Frames, Awaited(g)',
               SnLess(Sn(g), indicate)
        PROVE  Just(g)
    <3>0. g \in Nat BY Consts DEF Frames
    <3>1. base <= g /\ g <= top' BY <2>2, <2>6, <1>1, <1>2 DEF Awaited
    <3>2. CASE g <= top
      <4>1. Awaited(g) BY <3>1, <3>2 DEF Awaited
      <4> QED BY <4>1, <2>6 DEF CoverInv
    <3>3. CASE ~(g <= top)
      <4>1. g <= f BY <3>0, <3>1, <3>3, <2>1, <1>n DEF Larger
      <4>2. PICK a \in Nat : WindowAt(a) BY <2>6 DEF SessionInv, StartInv
      <4>3. indicate = Sn(a) /\ First <= top /\ a <= top + 1
            /\ top <= a + W - 1
        BY <4>2, <1>1 DEF WindowAt
      <4>4. f < a + M \div 2 BY <4>3, <1>4, <1>n, <1>m
      <4>5. g < a + M \div 2 /\ a < g + M \div 2 /\ ~(g < a)
        BY <4>1, <4>3, <4>4, <3>0, <3>3, <1>n, <1>m
      <4> QED BY <4>3, <4>5, <3>0, <2>6, SnLessIff
    <3> QED BY <3>2, <3>3
  <2>7. CoverInv' BY <2>6, <1>1, <1>5 DEF CoverInv
  <2> QED BY <2>1, <2>5, <2>7, <1>5
<1> QED BY <1>6, <1>7

(* check_indicate_seq discards what CoverInv judged, and moves the window    *)
(* past frames that were handed up, given up, or that the peer has left      *)
(* behind.                                                                   *)
LEMMA RxAdmitDrops ==
  ASSUME TypeOK, SessionInv, CoverInv, LastInv,
         \A g \in dropped : Just(g), RxAdmit
  PROVE  CoverInv' /\ LastInv' /\ \A g \in dropped' : Just(g)'
<1>f. PICK f \in Frames : f = rx.f BY DEF TypeOK, PlaceTypes
<1>n. /\ base \in Nat /\ top \in Nat /\ f \in Nat /\ f \in Frames
      /\ skip \in Nat
  BY <1>f, Numbers DEF TypeOK, QueueTypes
<1>m. M \div 2 \in Nat /\ W \in Nat /\ W >= 2 /\ 2 * W <= M \div 2 BY Consts
<1>0. PeerInv /\ ModeInv /\ FreshInv /\ StartInv BY DEF SessionInv
<1>1. rx.pc = "lock" /\ lock = "free" /\ UNCHANGED <<enable, base, up, top, tidseq>>
  BY DEF RxAdmit, peer
<1>2. enable /\ f <= top /\ top <= f + W - 1
  BY <1>f, <1>0, <1>1 DEF ModeInv, PeerInv
<1>3. skip' = IF indicate = Unset THEN Larger(skip, f) ELSE skip BY <1>f DEF RxAdmit
<1>4. PICK l \in Frames : (tidseq = Sn(l) /\ LastAt(l)) \/ tidseq = Unset
  BY <1>n DEF LastInv, LastAt
<1>5. tidseq # Unset => l = f /\ tidseq = Sn(f)
  BY <1>f, <1>1, <1>4 DEF LastAt
<1>6. ASSUME rx'.pc \notin {"post", "lock", "direct"}, Just(f)' PROVE LastInv'
  <2>1. tidseq # Unset => LastAt(f)' BY <1>1, <1>2, <1>5, <1>6 DEF LastAt
  <2> QED BY <2>1, <1>1, <1>n DEF LastInv
<1>7. CASE SnLess(Sn(f), Start(Sn(f)))
  <2>1. UNCHANGED <<indicate, pending>> /\ rx' = Quiet
        /\ dropped' = dropped \union {f}
    BY <1>f, <1>7 DEF RxAdmit
  <2>2. indicate # Unset
    <3>1. ~SnLess(Sn(f), Sn(f)) BY <1>n, SnType
    <3> QED BY <3>1, <1>7 DEF Start
  <2>3. skip' = skip /\ Start(Sn(f)) = indicate BY <2>2, <1>3 DEF Start
  <2>4. ASSUME NEW g PROVE Just(g)' <=> Just(g)
    BY <2>1, <2>3, <1>1 DEF Just, UpFrames, Pending
  <2>5. Awaited(f) BY <1>f, <1>1, <1>2, <1>n DEF Awaited
  <2>6. Just(f) BY <2>2, <2>3, <2>5, <1>2, <1>7, <1>n DEF CoverInv
  <2>7. rx'.pc = "idle" BY <2>1 DEF Quiet
  <2>8. CoverInv' BY <2>1, <2>3, <2>7, <1>1, KeepCover
  <2>9. LastInv' BY <2>4, <2>6, <2>7, <1>6
  <2> QED BY <2>1, <2>4, <2>6, <2>8, <2>9
<1>8. CASE ~SnLess(Sn(f), Start(Sn(f)))
  <2>1. Enqueue(f) BY <1>f, <1>8 DEF RxAdmit
  <2>2. /\ Pending \subseteq Pending' /\ f \in Pending'
        /\ dropped' \subseteq dropped \union {f}
        /\ rx'.pc \notin {"post", "lock", "direct"}
    BY <2>1, <1>f, <1>0, <1>1, EnqueueHolds
  <2>3. skip <= skip' /\ skip' \in Nat /\ (indicate = Unset => f <= skip')
    BY <1>3, <1>n DEF Larger
  <2>4. ASSUME NEW g \in Frames, Just(g) PROVE Just(g)'
    <3>1. g \in Nat BY Consts DEF Frames
    <3>2. g < skip => g < skip' BY <3>1, <2>3, <1>3, <1>n DEF Larger
    <3> QED BY <3>2, <2>2, <2>4, <1>1 DEF Just, UpFrames
  <2>5. Just(f)' BY <2>2 DEF Just
  <2>6. \A g \in dropped' : Just(g)'
    BY <2>2, <2>4, <2>5 DEF TypeOK, QueueTypes
  <2>7. LastInv' BY <2>2, <2>5, <1>6
  <2>8. ASSUME NEW g \in Frames, Awaited(g)', SnLess(Sn(g), indicate')
        PROVE  Just(g)'
    <3>1. Awaited(g) /\ base <= g BY <2>2, <2>8, <1>1 DEF Awaited
    <3>2. g \in Nat /\ g <= top /\ top <= g + W - 1
      BY <3>1, <1>0, AwaitedNear
    <3>3. g <= f + W - 1 /\ f <= g + W - 1 BY <3>2, <1>2, <1>n, <1>m
    <3>4. CASE indicate # Unset /\ indicate' = indicate
      BY <3>1, <3>4, <2>4, <2>8, <1>2 DEF CoverInv
    <3>5. CASE indicate \in {Unset, Sn(f)} /\ indicate' = Sn(f + 1)
      <4>1. f + 1 \in Nat /\ g < (f + 1) + M \div 2 /\ f + 1 < g + M \div 2
        BY <3>2, <3>3, <1>n, <1>m
      <4>2. g < f + 1 BY <4>1, <3>2, <3>5, <2>8, SnLessIff
      <4>3. CASE g = f BY <4>3, <2>5
      <4>4. CASE g < f /\ indicate = Unset
        BY <4>4, <3>2, <2>3, <1>n, <1>3 DEF Just, Larger
      <4>5. CASE g < f /\ indicate = Sn(f)
        <5>1. g < f + M \div 2 /\ f < g + M \div 2
          BY <3>2, <3>3, <1>n, <1>m
        <5>2. SnLess(Sn(g), indicate) BY <4>5, <5>1, <3>2, <1>n, SnLessIff
        <5>3. indicate # Unset BY <4>5, <1>n, SnType
        <5> QED BY <5>2, <5>3, <3>1, <2>4, <1>2 DEF CoverInv
      <4> QED BY <4>2, <4>3, <4>4, <4>5, <3>2, <3>5, <1>n
    <3>6. CASE f + 1 - W \in Nat /\ indicate' = Sn(f + 1 - W)
      <4>1. base <= g /\ top <= base + W - 1 BY <3>1, <1>0 DEF PeerInv
      <4>2. /\ ~(g < f + 1 - W) /\ g < (f + 1 - W) + M \div 2
            /\ f + 1 - W < g + M \div 2
        BY <4>1, <3>2, <3>3, <1>2, <1>n, <1>m
      <4> QED BY <4>2, <3>2, <3>6, <2>8, SnLessIff
    <3>7. \/ indicate # Unset /\ indicate' = indicate
          \/ indicate \in {Unset, Sn(f)} /\ indicate' = Sn(f + 1)
          \/ f + 1 - W \in Nat /\ indicate' = Sn(f + 1 - W)
      BY <1>f, <1>0, <1>8, AdmitMoves
    <3> QED BY <3>4, <3>5, <3>6, <3>7
  <2>9. CoverInv' BY <2>8 DEF CoverInv
  <2> QED BY <2>6, <2>7, <2>9
<1> QED BY <1>7, <1>8

(* A forced indication moves the window to the head of the queue and gives   *)
(* up what is older.                                                         *)
LEMMA ForceDrops ==
  ASSUME TypeOK, SessionInv, CoverInv, LastInv,
         \A g \in dropped : Just(g), ForceIndicate
  PROVE  CoverInv' /\ LastInv' /\ \A g \in dropped' : Just(g)'
<1>n. /\ DOMAIN pending = 1 .. Len(pending) /\ Len(pending) \in Nat
      /\ \A i \in DOMAIN pending : pending[i] \in Nat
      /\ top \in Nat /\ skip \in Nat
  BY Numbers DEF TypeOK, QueueTypes
<1>m. M \div 2 \in Nat /\ W \in Nat /\ W >= 2 /\ 2 * W <= M \div 2 BY Consts
<1>0. PeerInv BY DEF SessionInv
<1>1. /\ lock = "free" /\ handler = "lock"
      /\ UNCHANGED <<enable, pending, tidseq, rx, base, up, dropped, top>>
  BY DEF ForceIndicate, peer
<1>2. CASE pending = <<>>
  <2>1. indicate' = indicate /\ skip' = skip BY <1>2 DEF ForceIndicate
  <2>2. CoverInv' BY <2>1, <1>1, KeepCover
  <2> QED BY <2>1, <2>2, <1>1, KeepLast
<1>3. CASE pending # <<>>
  <2>0. 1 \in DOMAIN pending BY <1>3, <1>n
  <2>1. PICK h \in Nat : h = pending[1] BY <2>0, <1>n
  <2>2. Head(pending) = h BY <2>1, <1>3, TailFacts DEF TypeOK, QueueTypes
  <2>3. indicate' = Sn(h) /\ skip' = Larger(skip, h)
    BY <1>3, <2>2 DEF ForceIndicate
  <2>4. skip <= skip' /\ h <= skip' /\ skip' \in Nat
    BY <2>3, <1>n DEF Larger
  <2>5. enable /\ indicate # Unset BY <1>3 DEF SessionInv, FreshInv
  <2>6. PICK a \in Nat : WindowAt(a) BY <2>5 DEF SessionInv, StartInv
  <2>7. rx.pc # "drain" /\ handler # "drain" BY <1>1 DEF TypeOK, LockOwner
  <2>8. a < h /\ h <= top BY <2>0, <2>1, <2>6, <2>7 DEF WindowAt
  <2>9. ASSUME NEW g \in Frames, Just(g) PROVE Just(g)'
    <3>1. g \in Nat BY Consts DEF Frames
    <3>2. g < skip => g < skip' BY <3>1, <2>4, <1>n
    <3> QED BY <3>2, <2>9, <1>1 DEF Just, UpFrames, Pending
  <2>10. ASSUME NEW g \in Frames, Awaited(g), SnLess(Sn(g), Sn(h))
         PROVE  Just(g)'
    <3>1. g \in Nat /\ g <= top /\ top <= g + W - 1 /\ g < a + M \div 2
      BY <2>6, <2>10, <1>0, AwaitedNear
    <3>2. g < h + M \div 2 /\ h < g + M \div 2
      BY <3>1, <2>8, <1>n, <1>m
    <3>3. g < h BY <3>1, <3>2, <2>10, SnLessIff
    <3>4. g < skip' BY <3>1, <3>3, <2>4
    <3> QED BY <3>4 DEF Just
  <2>11. ASSUME NEW g \in Frames, Awaited(g)' PROVE Awaited(g)
    BY <2>11, <1>1 DEF Awaited
  <2>12. CoverInv' BY <2>3, <2>10, <2>11 DEF CoverInv
  <2>13. ASSUME NEW g \in Frames, LastAt(g) PROVE LastAt(g)'
    BY <2>9, <2>13, <1>1 DEF LastAt
  <2>14. LastInv' BY <2>13, <1>1 DEF LastInv
  <2>15. \A g \in dropped' : Just(g)' BY <2>9, <1>1 DEF TypeOK, QueueTypes
  <2> QED BY <2>12, <2>14, <2>15
<1> QED BY <1>2, <1>3

(* The drain loop of either context.                                         *)
LEMMA DrainDrops ==
  ASSUME TypeOK, SessionInv, ~stopped, CoverInv, LastInv,
         \A g \in dropped : Just(g), RxDrain \/ HandlerDrain
  PROVE  CoverInv' /\ LastInv' /\ \A g \in dropped' : Just(g)'
<1>1. Drain /\ UNCHANGED <<enable, base, top, skip, tidseq, dropped>>
  BY DEF RxDrain, HandlerDrain, peer
<1>2. rx.pc = "drain" \/ handler = "drain" BY DEF RxDrain, HandlerDrain
<1>3. \/ rx' = rx
      \/ rx.pc = "drain" /\ rx'.pc \in {"drain", "finish"}
  BY DEF RxDrain, HandlerDrain, TypeOK, PlaceTypes
<1>4. CoverInv' BY <1>1, <1>2, <1>3, DrainCovers
<1>5. ASSUME NEW g \in Frames, Just(g) PROVE Just(g)'
  BY <1>1, <1>5, DrainKeeps DEF Just
<1>6. ASSUME NEW l \in Frames, LastAt(l) PROVE LastAt(l)'
  BY <1>1, <1>3, <1>5, <1>6 DEF LastAt
<1>7. LastInv' BY <1>1, <1>6 DEF LastInv
<1>8. \A g \in dropped' : Just(g)' BY <1>1, <1>5 DEF TypeOK, QueueTypes
<1> QED BY <1>4, <1>7, <1>8

(* Without a session the frame goes up, past the queue.                      *)
LEMMA DirectDrops ==
  ASSUME TypeOK, ModeInv, ~stopped, LastInv, \A g \in dropped : Just(g),
         RxDirectUp
  PROVE  CoverInv' /\ LastInv' /\ \A g \in dropped' : Just(g)'
<1>1. /\ rx.pc = "direct" /\ HandUp(rx.f) /\ rx' = [rx EXCEPT !.pc = "directUp"]
      /\ UNCHANGED <<enable, pending, tidseq, dropped, skip, top>>
  BY DEF RxDirectUp
<1>2. rx'.pc = "directUp" BY <1>1 DEF TypeOK, PlaceTypes
<1>3. ~enable' BY <1>1 DEF ModeInv
<1>4. up' = Append(up, [f |-> rx.f, s |-> IF enable THEN sess ELSE 0])
  BY <1>1 DEF HandUp
<1>5. /\ DOMAIN up' = 1 .. Len(up) + 1
      /\ \A i \in 1 .. Len(up) : up'[i] = up[i]
      /\ up'[Len(up) + 1].f = rx.f
  BY <1>4, AppendedUp
<1>6. DOMAIN up = 1 .. Len(up) /\ Len(up) \in Nat BY Numbers
<1>7. rx.f \in UpFrames'
  <2>1. Len(up) + 1 \in DOMAIN up' BY <1>5, <1>6
  <2> QED BY <2>1, <1>5 DEF UpFrames
<1>8. UpFrames \subseteq UpFrames'
  <2> SUFFICES ASSUME NEW i \in DOMAIN up PROVE up[i].f \in UpFrames'
    BY DEF UpFrames
  <2>1. i \in DOMAIN up' /\ up'[i] = up[i] BY <1>5, <1>6
  <2> QED BY <2>1 DEF UpFrames
<1>9. ASSUME NEW g, Just(g) PROVE Just(g)'
  BY <1>1, <1>8, <1>9 DEF Just, Pending
<1>10. ASSUME NEW l \in Frames, LastAt(l) PROVE LastAt(l)'
  <2>1. l = rx.f BY <1>1, <1>10 DEF LastAt
  <2>2. Just(l)' BY <2>1, <1>7 DEF Just
  <2> QED BY <2>2, <1>1, <1>2, <1>10 DEF LastAt
<1>11. LastInv' BY <1>1, <1>10 DEF LastInv
<1>12. CoverInv' BY <1>3 DEF CoverInv
<1> QED BY <1>1, <1>9, <1>11, <1>12

LEMMA DropStep ==
  ASSUME OneSession, TypeOK, SessionInv, SessionInv', DropInv, [Next]_vars
  PROVE  DropInv'
<1> SUFFICES ASSUME sta' = "up", ~stopped'
             PROVE  CoverInv' /\ LastInv' /\ \A f \in dropped' : Just(f)'
  BY DEF DropInv
<1>x. Quiet.pc = "idle" BY DEF Quiet
<1>v. PeerInv /\ PeerInv' /\ ModeInv BY DEF SessionInv
<1> DEFINE Drops == CoverInv' /\ LastInv' /\ \A f \in dropped' : Just(f)'
           Old == /\ ~stopped /\ CoverInv /\ LastInv
                  /\ \A f \in dropped : Just(f)
<1>0. ASSUME sta' = sta, stopped' = stopped PROVE Old
  BY <1>0 DEF DropInv
<1>1. ASSUME NEW f \in Frames, RxFrame(f) PROVE Drops
  <2>1. Old BY <1>1, <1>0 DEF RxFrame
  <2> QED BY <2>1, <1>1, <1>v, RxFrameDrops
<1>2. ASSUME RxAdmit PROVE Drops
  <2>1. Old BY <1>2, <1>0 DEF RxAdmit
  <2> QED BY <2>1, <1>2, <1>v, RxAdmitDrops
<1>3. ASSUME ForceIndicate PROVE Drops
  <2>1. Old BY <1>3, <1>0 DEF ForceIndicate
  <2> QED BY <2>1, <1>3, <1>v, ForceDrops
<1>4. ASSUME RxDrain PROVE Drops
  <2>1. Old BY <1>4, <1>0 DEF RxDrain
  <2> QED BY <2>1, <1>4, <1>v, DrainDrops
<1>5. ASSUME HandlerDrain PROVE Drops
  <2>1. Old BY <1>5, <1>0 DEF HandlerDrain
  <2> QED BY <2>1, <1>5, <1>v, DrainDrops
<1>6. ASSUME RxDirectUp PROVE Drops
  <2>1. Old BY <1>6, <1>0 DEF RxDirectUp
  <2> QED BY <2>1, <1>6, <1>v, DirectDrops
<1>7. ASSUME RxEnabled PROVE Drops
  <2>1. Old BY <1>7, <1>0 DEF RxEnabled
  <2>2. CoverInv' BY <2>1, <1>7, <1>x, KeepCover DEF RxEnabled, peer, hist, TypeOK, PlaceTypes
  <2>3. LastInv' /\ \A f \in dropped' : Just(f)'
    BY <2>1, <1>7, <1>x, KeepLast DEF RxEnabled, peer, hist, TypeOK, PlaceTypes
  <2> QED BY <2>2, <2>3
<1>8. ASSUME RxArm PROVE Drops
  <2>1. Old BY <1>8, <1>0 DEF RxArm
  <2>2. CoverInv' BY <2>1, <1>8, <1>x, KeepCover DEF RxArm, peer, hist, TypeOK, PlaceTypes
  <2>3. LastInv' /\ \A f \in dropped' : Just(f)'
    BY <2>1, <1>8, <1>x, KeepLast DEF RxArm, peer, hist, TypeOK, PlaceTypes
  <2> QED BY <2>2, <2>3
<1>9. ASSUME RxCancel PROVE Drops
  <2>1. Old BY <1>9, <1>0 DEF RxCancel
  <2>2. CoverInv' BY <2>1, <1>9, <1>x, KeepCover DEF RxCancel, peer, hist, TypeOK, PlaceTypes
  <2>3. LastInv' /\ \A f \in dropped' : Just(f)'
    BY <2>1, <1>9, <1>x, KeepLast DEF RxCancel, peer, hist, TypeOK, PlaceTypes
  <2> QED BY <2>2, <2>3
<1>10. ASSUME Expire PROVE Drops
  <2>1. Old BY <1>10, <1>0 DEF Expire
  <2>2. CoverInv' BY <2>1, <1>10, <1>x, KeepCover DEF Expire, peer, hist, TypeOK, PlaceTypes
  <2>3. LastInv' /\ \A f \in dropped' : Just(f)'
    BY <2>1, <1>10, <1>x, KeepLast DEF Expire, peer, hist, TypeOK, PlaceTypes
  <2> QED BY <2>2, <2>3
<1>11. ASSUME HandlerReturn PROVE Drops
  <2>1. Old BY <1>11, <1>0 DEF HandlerReturn
  <2>2. CoverInv' BY <2>1, <1>11, <1>x, KeepCover DEF HandlerReturn, peer, hist, TypeOK, PlaceTypes
  <2>3. LastInv' /\ \A f \in dropped' : Just(f)'
    BY <2>1, <1>11, <1>x, KeepLast DEF HandlerReturn, peer, hist, TypeOK, PlaceTypes
  <2> QED BY <2>2, <2>3
<1>12. ASSUME Advance PROVE Drops
  <2>1. Old BY <1>12, <1>0 DEF Advance, code
  <2>2. CoverInv' BY <2>1, <1>12, <1>x, KeepCover DEF Advance, code, hist, TypeOK, PlaceTypes
  <2>3. LastInv' /\ \A f \in dropped' : Just(f)'
    BY <2>1, <1>12, <1>x, KeepLast DEF Advance, code, hist, TypeOK, PlaceTypes
  <2> QED BY <2>2, <2>3
<1>13. ASSUME HearDelBa PROVE Drops
  <2>1. Old BY <1>13, <1>0 DEF HearDelBa, code
  <2>2. CoverInv' BY <2>1, <1>13, <1>x, KeepCover DEF HearDelBa, code, hist, TypeOK, PlaceTypes
  <2>3. LastInv' /\ \A f \in dropped' : Just(f)'
    BY <2>1, <1>13, <1>x, KeepLast DEF HearDelBa, code, hist, TypeOK, PlaceTypes
  <2> QED BY <2>2, <2>3
<1>14. ASSUME RxDirect PROVE Drops
  <2>1. Old BY <1>14, <1>0 DEF RxDirect
  <2>2. CoverInv' BY <1>14, <1>v DEF RxDirect, CoverInv, ModeInv
  <2>3. LastInv' /\ \A f \in dropped' : Just(f)'
    BY <2>1, <1>14, <1>x, KeepLast DEF RxDirect, peer, hist, TypeOK, PlaceTypes
  <2> QED BY <2>2, <2>3
<1>15. ASSUME RxDirectInc PROVE Drops
  <2>1. Old BY <1>15, <1>0 DEF RxDirectInc
  <2>2. CoverInv' BY <1>15, <1>v DEF RxDirectInc, CoverInv, ModeInv
  <2>3. LastInv' /\ \A f \in dropped' : Just(f)'
    BY <2>1, <1>15, <1>x, KeepLast DEF RxDirectInc, peer, hist, TypeOK, PlaceTypes
  <2> QED BY <2>2, <2>3
<1>16. ASSUME AddBa PROVE Drops
  <2>1. Old BY <1>16, <1>0 DEF AddBa
  <2>2. CoverInv' BY <1>16 DEF AddBa, CoverInv
  <2>3. LastInv' /\ \A f \in dropped' : Just(f)'
    BY <2>1, <1>16, <1>x, KeepLast DEF AddBa, hist, TypeOK, PlaceTypes
  <2> QED BY <2>2, <2>3
<1>17. ASSUME Process \/ DelBa PROVE Drops
  BY <1>17, <1>v
  DEF Process, SendDelBa, SendDelBaUnset, DelBa, Stop, FreeUnhash, FreeCancel,
      FreeFlush, OneSession, ModeInv
<1>18. CASE UNCHANGED vars
  <2>1. Old BY <1>18, <1>0 DEF vars, code
  <2>2. CoverInv' BY <2>1, <1>18, KeepCover DEF vars, code, peer, hist
  <2>3. LastInv' /\ \A f \in dropped' : Just(f)'
    BY <2>1, <1>18, KeepLast DEF vars, code, peer, hist
  <2> QED BY <2>2, <2>3
<1> QED
  BY <1>1, <1>2, <1>3, <1>4, <1>5, <1>6, <1>7, <1>8, <1>9, <1>10, <1>11, <1>12, <1>13, <1>14, <1>15, <1>16, <1>17, <1>18
  DEF Next, Rx, Timer

(* Nothing is discarded as old or duplicate that was not handed up, is not   *)
(* buffered, and was not given up: on any number of CPUs, for the 4096       *)
(* sequence numbers of the driver, in one block-ack session and before it.   *)
THEOREM ReorderDropJustified == OneSession => (Spec => []DropJustified)
<1> SUFFICES ASSUME OneSession PROVE Spec => []DropJustified OBVIOUS
<1>1. Init => SessionInv /\ DropInv BY SessionInit, DropInit
<1>2. BaseInv /\ SessionInv /\ [Next]_vars => SessionInv'
  BY SessionStep DEF BaseInv
<1>3. BaseInv /\ SessionInv /\ SessionInv' /\ DropInv /\ [Next]_vars => DropInv'
  BY DropStep DEF BaseInv
<1>4. DropInv => DropJustified BY DEF DropInv, Just, DropJustified
<1> QED BY <1>1, <1>2, <1>3, <1>4, BaseInit, BaseStep, PTL DEF Spec
=============================================================================
