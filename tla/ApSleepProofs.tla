---------------------------- MODULE ApSleepProofs ----------------------------
(* Proofs about ApSleep, for any stations, categories, delivery-enabled sets, *)
(* association identifiers and numbers of frames, whether or not a PS-Poll    *)
(* that finds the queue empty is interrupted between its two sections.        *)
(*   TypeOK          is inductive by itself.                                  *)
(*   SleepAccounted  AccInv: the two lengths of a queue hold also while its   *)
(*                   station is away, and those of Bmc whatever happens to    *)
(*                   its bit; ApartInv: who is gone has nothing.              *)
(*   TimTold         BitInv: a frame to be told of has its bit, and needs     *)
(*                   AwakeInv, that who does not sleep has no frame held;     *)
(*                   ToldInv: a bit that is set is in the element, or a       *)
(*                   handler on its way out will put it there.                *)
(*   BmcServed       with AccInv of Bmc, so that a drained queue counts 0; a  *)
(*                   beacon that fails with frames held is its exception.     *)
(* Sums over categories are handled by SumLemmas.                             *)
EXTENDS ApSleep, SumLemmas

-----------------------------------------------------------------------------
(* Counts of frames.                                                         *)

LEMMA Sets ==
    /\ IsFiniteSet(Acs) /\ Be \in Acs /\ Bmc \notin Stas /\ Bmc \in Dests
    /\ \A s \in Stas : s \in Dests /\ s # Bmc
    /\ \A d \in Dests : DeliveryEnabled(d) \in SUBSET Acs
    /\ \A s \in Stas : Uapsd[s] \in SUBSET Acs /\ DeliveryEnabled(s) = Uapsd[s]
    /\ DeliveryEnabled(Bmc) = {}
BY ApSleepAssumption DEF Dests, DeliveryEnabled

LEMMA Aids ==
    /\ \A s \in Stas : Aid[s] \in 1 .. 15 /\ Aid[s] # 0
    /\ \A s, t \in Stas : Aid[s] = Aid[t] => s = t
    /\ \A d \in Dests : AidOf(d) \in 0 .. 15
    /\ AidOf(Bmc) = 0
    /\ \A s \in Stas : AidOf(s) = IF Found(s) THEN Aid[s] ELSE 0
BY ApSleepAssumption DEF Dests, AidOf

LEMMA CountsSum ==
    ASSUME NEW f \in Counts, NEW cs \in SUBSET Acs
    PROVE  IsFiniteSet(cs) /\ SumOver(f, cs) \in Nat /\ Sum(f) \in Nat
<1>1. IsFiniteSet(cs)
  BY Sets, FS_Subset
<1>2. \A a \in Acs : f[a] \in Nat
  BY DEF Counts
<1>3. SumFunctionOnSet(f, cs) \in Nat
  BY <1>1, <1>2, SumNat
<1>4. SumFunctionOnSet(f, Acs) \in Nat
  BY <1>2, Sets, SumNat
<1> QED
  BY <1>1, <1>3, <1>4 DEF Sum, SumOver

LEMMA NoneCounts ==
    /\ None \in Counts /\ Sum(None) = 0
    /\ \A cs \in SUBSET Acs : SumOver(None, cs) = 0
<1>1. None \in Counts /\ \A a \in Acs : None[a] = 0
  BY DEF None, Counts
<1>2. ASSUME NEW cs \in SUBSET Acs PROVE SumOver(None, cs) = 0
  <2>1. IsFiniteSet(cs) /\ \A a \in cs : None[a] = 0
    BY <1>1, CountsSum
  <2> QED
    BY <2>1, SumZero DEF SumOver
<1>3. Sum(None) = 0
  BY <1>1, Sets, SumZero DEF Sum
<1> QED
  BY <1>1, <1>2, <1>3

LEMMA PlusCounts ==
    ASSUME NEW f \in Counts, NEW g \in Counts
    PROVE  /\ Plus(f, g) \in Counts /\ Sum(Plus(f, g)) = Sum(f) + Sum(g)
           /\ \A cs \in SUBSET Acs : SumOver(Plus(f, g), cs) = SumOver(f, cs) + SumOver(g, cs)
           /\ \A a \in Acs : Plus(f, g)[a] = f[a] + g[a]
<1> DEFINE h == Plus(f, g)
<1>1. h \in Counts
  BY DEF Plus, Counts
<1>2. \A a \in Acs : f[a] \in Int /\ g[a] \in Int /\ h[a] = f[a] + g[a]
  BY DEF Plus, Counts
<1> HIDE DEF h
<1>3. ASSUME NEW cs \in SUBSET Acs PROVE SumOver(h, cs) = SumOver(f, cs) + SumOver(g, cs)
  <2>1. IsFiniteSet(cs) /\ \A a \in cs : f[a] \in Int /\ g[a] \in Int /\ h[a] = f[a] + g[a]
    BY <1>2, CountsSum
  <2> QED
    BY <2>1, SumPlus DEF SumOver
<1>4. Sum(h) = Sum(f) + Sum(g)
  BY <1>2, Sets, SumPlus DEF Sum
<1> QED
  BY <1>1, <1>2, <1>3, <1>4 DEF h

LEMMA OnlyCounts == \A a \in Acs, n \in Nat : Only(a, n) \in Counts /\ Only(a, n)[a] = n
BY DEF Only, None, Counts

-----------------------------------------------------------------------------
(* What the actions make of a queue.                                         *)

\* The two lengths agree with the queue.
Agrees(r, cs) == r.len = Sum(r.slp) /\ r.aclen >= SumOver(r.slp, cs)

LEMMA EmptyAgrees == Empty \in QueueStates /\ \A d \in Dests : Agrees(Empty, DeliveryEnabled(d))
BY NoneCounts, Sets DEF Empty, QueueStates, Agrees

LEMMA SentCounts ==
    ASSUME NEW d \in Dests, q[d] \in QueueStates, NEW f \in Counts
    PROVE  Sent(d, f) \in Counts
<1>1. q[d].pend \in Counts
  BY DEF QueueStates
<1> QED
  BY <1>1, PlusCounts DEF Sent

LEMMA PutAgrees ==
    ASSUME NEW d \in Dests, q[d] \in QueueStates, NEW f \in Counts
    PROVE  /\ Put(d, f) \in QueueStates
           /\ Put(d, f).slp = Plus(q[d].slp, f) /\ Put(d, f).len = q[d].len + Sum(f)
           /\ Put(d, f).pend = q[d].pend
           /\ Agrees(q[d], DeliveryEnabled(d)) => Agrees(Put(d, f), DeliveryEnabled(d))
<1> DEFINE r == q[d]
           cs == DeliveryEnabled(d)
           s1 == Plus(r.slp, f)
           n1 == r.len + Sum(f)
           n2 == r.aclen + SumOver(f, cs)
<1>1. r \in QueueStates /\ r.slp \in Counts /\ r.pend \in Counts /\ r.len \in Int /\ r.aclen \in Int
  BY DEF QueueStates
<1>2. cs \in SUBSET Acs
  BY Sets
<1>3. Sum(f) \in Nat /\ SumOver(f, cs) \in Nat /\ Sum(r.slp) \in Nat /\ SumOver(r.slp, cs) \in Nat
  BY <1>1, <1>2, CountsSum
<1>4. s1 \in Counts /\ Sum(s1) = Sum(r.slp) + Sum(f)
      /\ SumOver(s1, cs) = SumOver(r.slp, cs) + SumOver(f, cs)
  BY <1>1, <1>2, PlusCounts
<1>5. n1 \in Int /\ n2 \in Int
  BY <1>1, <1>3
<1>6. Put(d, f) = [r EXCEPT !.slp = s1, !.len = n1, !.aclen = n2]
  BY DEF Put
<1>9. Agrees(r, cs) => n1 = Sum(s1) /\ n2 >= SumOver(s1, cs)
  BY <1>1, <1>3, <1>4 DEF Agrees
<1> HIDE DEF r, cs, s1, n1, n2
<1>8. Put(d, f) \in QueueStates /\ Put(d, f).slp = s1 /\ Put(d, f).len = n1
      /\ Put(d, f).pend = r.pend /\ Put(d, f).aclen = n2
  BY <1>1, <1>4, <1>5, <1>6 DEF QueueStates
<1> QED
  BY <1>8, <1>9 DEF r, cs, s1, n1, n2, Agrees

LEMMA DrainedAgrees ==
    ASSUME NEW d \in Dests, q[d] \in QueueStates
    PROVE  /\ Drained(d) \in QueueStates /\ Drained(d).slp = None
           /\ q[d].len = Sum(q[d].slp) => Drained(d).len = 0
           /\ Agrees(q[d], DeliveryEnabled(d)) => Agrees(Drained(d), DeliveryEnabled(d))
<1> DEFINE r == q[d]
           cs == DeliveryEnabled(d)
           n1 == r.len - Sum(r.slp)
           n2 == r.aclen - SumOver(r.slp, cs)
<1>1. r.slp \in Counts /\ r.pend \in Counts /\ r.len \in Int /\ r.aclen \in Int
  BY DEF QueueStates
<1>2. cs \in SUBSET Acs
  BY Sets
<1>3. Sum(r.slp) \in Nat /\ SumOver(r.slp, cs) \in Nat
  BY <1>1, <1>2, CountsSum
<1>4. Sent(d, r.slp) \in Counts
  BY <1>1, SentCounts
<1>5. n1 \in Int /\ n2 \in Int
  BY <1>1, <1>3
<1>6. r.len = Sum(r.slp) => n1 = 0
  BY <1>1, <1>3
<1>7. Agrees(r, cs) => n1 = 0 /\ n2 >= 0
  BY <1>1, <1>3 DEF Agrees
<1>8. Drained(d) = [slp |-> None, pend |-> Sent(d, r.slp), len |-> n1, aclen |-> n2]
  BY DEF Drained
<1>9. Sum(None) = 0 /\ SumOver(None, cs) = 0 /\ None \in Counts
  BY <1>2, NoneCounts
<1> HIDE DEF r, cs, n1, n2
<1>10. Drained(d) \in QueueStates /\ Drained(d).slp = None /\ Drained(d).len = n1 /\ Drained(d).aclen = n2
  BY <1>4, <1>5, <1>8, <1>9 DEF QueueStates
<1>11. Agrees(r, cs) => Agrees(Drained(d), cs)
  BY <1>7, <1>9, <1>10 DEF Agrees
<1> QED
  BY <1>6, <1>10, <1>11 DEF r, cs

-----------------------------------------------------------------------------
(* The inductive invariant.                                                  *)

Telling == rx.pc = "tell" \/ cmd.pc = "tell"

\* The bits that are in the element, or are only in its wrong place.
Named(i) == i \in bits.ie \/ (i >= 8 /\ bits.tim \cap (1 .. 7) = {})

RxInv == rx.pc = "poll" => rx.sta \in Stas
AccInv == \A d \in Dests : d = Bmc \/ d \notin bits.raced => Agrees(q[d], DeliveryEnabled(d))
ApartInv == \A s \in Stas : ~Found(s) => q[s] = Empty /\ Aid[s] \notin bits.dz
AwakeInv == \A s \in Stas : ~sta[s].sleep => q[s].slp = None
BitInv ==
    \A s \in Stas \ bits.raced, a \in Acs :
        Linked(s) /\ sta[s].sleep /\ q[s].slp[a] > 0 /\ SetsTim(s, a) => Aid[s] \in bits.tim
ToldInv == \A i \in bits.tim \ {0} : Named(i) \/ Telling
ApInv == TypeOK /\ RxInv /\ AccInv /\ ApartInv /\ AwakeInv /\ BitInv /\ ToldInv /\ BmcServed

-----------------------------------------------------------------------------
(* What three handlers of the receive tasklet make of the queues.            *)

LEMMA DozeQueues ==
    ASSUME TypeOK, NEW s \in Stas, Doze(s)
    PROVE  /\ q' = [q EXCEPT ![s] = q'[s], ![Bmc] = q'[Bmc]]
           /\ \A d \in {s, Bmc} :
                /\ q'[d] \in QueueStates
                /\ Agrees(q[d], DeliveryEnabled(d)) => Agrees(q'[d], DeliveryEnabled(d))
           /\ q'[s].slp = Plus(q[s].slp, IF Linked(s) THEN q[s].pend ELSE None)
           /\ q'[Bmc].len = q[Bmc].len + Sum(q[Bmc].pend)
<1> DEFINE mine == IF Linked(s) THEN q[s].pend ELSE None
           group == q[Bmc].pend
           kept == IF Linked(s) THEN None ELSE q[s].pend
           r1 == [Put(s, mine) EXCEPT !.pend = kept]
           r2 == [Put(Bmc, group) EXCEPT !.pend = None]
<1>1. /\ s \in Dests /\ Bmc \in Dests /\ s # Bmc
      /\ q[s] \in QueueStates /\ q[Bmc] \in QueueStates
  BY Sets DEF TypeOK
<1>2. mine \in Counts /\ group \in Counts /\ kept \in Counts /\ None \in Counts
  BY <1>1, NoneCounts DEF QueueStates
<1>3. Put(s, mine).pend = q[s].pend
  BY <1>1, <1>2, PutAgrees
<1>4. q' = [q EXCEPT ![s] = r1, ![Bmc] = r2]
  BY <1>3 DEF Doze
<1> HIDE DEF mine, group, kept
<1>5. /\ Put(s, mine) \in QueueStates /\ Put(s, mine).slp = Plus(q[s].slp, mine)
      /\ Agrees(q[s], DeliveryEnabled(s)) => Agrees(Put(s, mine), DeliveryEnabled(s))
  BY <1>1, <1>2, PutAgrees
<1>6. /\ Put(Bmc, group) \in QueueStates /\ Put(Bmc, group).len = q[Bmc].len + Sum(group)
      /\ Agrees(q[Bmc], DeliveryEnabled(Bmc)) => Agrees(Put(Bmc, group), DeliveryEnabled(Bmc))
  BY <1>1, <1>2, PutAgrees
<1>7. /\ r1 \in QueueStates /\ r1.slp = Put(s, mine).slp /\ r1.len = Put(s, mine).len
      /\ r1.aclen = Put(s, mine).aclen
  BY <1>2, <1>5 DEF QueueStates
<1>8. /\ r2 \in QueueStates /\ r2.slp = Put(Bmc, group).slp /\ r2.len = Put(Bmc, group).len
      /\ r2.aclen = Put(Bmc, group).aclen
  BY <1>2, <1>6 DEF QueueStates
<1> HIDE DEF r1, r2
<1>9. q'[s] = r1 /\ q'[Bmc] = r2
  BY <1>1, <1>4 DEF TypeOK
<1>10. Agrees(Put(s, mine), DeliveryEnabled(s)) => Agrees(r1, DeliveryEnabled(s))
  BY <1>7 DEF Agrees
<1>11. Agrees(Put(Bmc, group), DeliveryEnabled(Bmc)) => Agrees(r2, DeliveryEnabled(Bmc))
  BY <1>8 DEF Agrees
<1>12. q'[s].slp = Plus(q[s].slp, mine) /\ q'[Bmc].len = q[Bmc].len + Sum(group)
  BY <1>5, <1>6, <1>7, <1>8, <1>9
<1> QED
  BY <1>4, <1>5, <1>6, <1>7, <1>8, <1>9, <1>10, <1>11, <1>12 DEF mine, group

\* What a trigger fetches: the delivery-enabled frames of s.
Fetched(s) == [a \in Acs |-> IF a \in Uapsd[s] THEN q[s].slp[a] ELSE 0]

LEMMA FetchedCounts ==
    ASSUME TypeOK, NEW s \in Stas
    PROVE  /\ Fetched(s) \in Counts /\ Sum(Fetched(s)) = SumOver(q[s].slp, Uapsd[s])
           /\ [a \in Acs |-> q[s].slp[a] - Fetched(s)[a]] \in Counts
           /\ Sum([a \in Acs |-> q[s].slp[a] - Fetched(s)[a]]) = Sum(q[s].slp) - Sum(Fetched(s))
           /\ SumOver([a \in Acs |-> q[s].slp[a] - Fetched(s)[a]], Uapsd[s]) = 0
<1> DEFINE f == q[s].slp
           g == Fetched(s)
           h == [a \in Acs |-> f[a] - g[a]]
           cs == Uapsd[s]
<1>1. f \in Counts /\ cs \in SUBSET Acs
  BY Sets DEF TypeOK, QueueStates
<1>2. g \in Counts /\ \A a \in Acs : g[a] = IF a \in cs THEN f[a] ELSE 0
  BY <1>1 DEF Fetched, Counts
<1>3. h \in Counts /\ \A a \in Acs : h[a] = f[a] - g[a]
  BY <1>1, <1>2 DEF Counts
<1>4. \A a \in cs : h[a] = 0
  BY <1>1, <1>2, <1>3 DEF Counts
<1>5. \A a \in Acs : f[a] \in Int /\ g[a] \in Int
  BY <1>1, <1>2 DEF Counts
<1> HIDE DEF f, g, h, cs
<1>6. SumFunctionOnSet(h, Acs) = SumFunctionOnSet(f, Acs) - SumFunctionOnSet(g, Acs)
  BY <1>3, <1>5, Sets, SumMinus
<1>7. SumFunctionOnSet(h, cs) = 0
  <2>1. IsFiniteSet(cs)
    BY <1>1, Sets, FS_Subset
  <2> QED
    BY <2>1, <1>4, SumZero
<1>8. SumFunctionOnSet(g, Acs) = SumFunctionOnSet(f, cs)
  <2>1. \A a \in Acs : f[a] \in Int /\ g[a] = IF a \in cs THEN f[a] ELSE 0
    BY <1>2, <1>5
  <2>2. IsFiniteSet(Acs) /\ cs \in SUBSET Acs
    BY <1>1, Sets
  <2> QED
    BY <2>1, <2>2, SumRestrict
<1> QED
  BY <1>2, <1>3, <1>6, <1>7, <1>8 DEF f, g, h, cs, Sum, SumOver

LEMMA TriggerQueue ==
    ASSUME TypeOK, NEW s \in Stas, Trigger(s)
    PROVE  /\ q' = [q EXCEPT ![s] = q'[s]]
           /\ q'[s] \in QueueStates
           /\ Agrees(q[s], Uapsd[s]) => Agrees(q'[s], Uapsd[s])
           /\ q[s].aclen > 0 =>
                \A a \in Acs : q'[s].slp[a] = IF a \in Uapsd[s] THEN 0 ELSE q[s].slp[a]
           /\ ~ (q[s].aclen > 0) => q'[s] = q[s]
<1>1. s \in Dests /\ q[s] \in QueueStates /\ q[s].len \in Int /\ q[s].aclen \in Int /\ q[s].slp \in Counts
  BY Sets DEF TypeOK, QueueStates
<1>2. CASE ~ (q[s].aclen > 0)
  BY <1>1, <1>2 DEF TypeOK, Trigger
<1>3. CASE q[s].aclen > 0
  <2> DEFINE out == Fetched(s)
             left == [a \in Acs |-> q[s].slp[a] - out[a]]
             n1 == q[s].len - Sum(out)
             n2 == q[s].aclen - Sum(out)
             r == [slp |-> left, pend |-> Sent(s, out), len |-> n1, aclen |-> n2]
  <2>1. q' = [q EXCEPT ![s] = r]
    BY <1>3 DEF Trigger, Fetched
  <2>2. q'[s] = r
    BY <1>1, <2>1 DEF TypeOK
  <2>3. /\ out \in Counts /\ left \in Counts /\ Sum(left) = Sum(q[s].slp) - Sum(out)
        /\ SumOver(left, Uapsd[s]) = 0 /\ Sum(out) = SumOver(q[s].slp, Uapsd[s])
    BY FetchedCounts
  <2>4. Sent(s, out) \in Counts
    BY <1>1, <2>3, SentCounts
  <2>5. Sum(out) \in Nat /\ Sum(q[s].slp) \in Nat
    BY <1>1, <2>3, Sets, CountsSum
  <2>6. n1 \in Int /\ n2 \in Int
    BY <1>1, <2>5
  <2>7. Agrees(q[s], Uapsd[s]) => n1 = Sum(left) /\ n2 >= SumOver(left, Uapsd[s])
    BY <1>1, <2>3, <2>5 DEF Agrees
  <2>8. \A a \in Acs : left[a] = IF a \in Uapsd[s] THEN 0 ELSE q[s].slp[a]
    BY <1>1 DEF Fetched, Counts
  <2> HIDE DEF out, left, n1, n2
  <2>9. r \in QueueStates /\ r.slp = left /\ r.len = n1 /\ r.aclen = n2
    BY <2>3, <2>4, <2>6 DEF QueueStates
  <2> QED
    BY <1>3, <2>1, <2>2, <2>7, <2>8, <2>9 DEF Agrees
<1> QED
  BY <1>2, <1>3

\* One frame of category a less.
LEMMA OneLess ==
    ASSUME NEW f \in Counts, NEW g \in Counts, NEW a \in Acs, f[a] > 0, g[a] = f[a] - 1,
           \A b \in Acs \ {a} : g[b] = f[b], NEW cs \in SUBSET Acs
    PROVE  /\ \A b \in Acs : f[b] \in Nat /\ g[b] \in Nat /\ g[b] \leq f[b]
           /\ Sum(g) = Sum(f) - 1 /\ Sum(f) \in Nat /\ Sum(g) \in Nat
           /\ SumOver(f, cs) \in Nat /\ SumOver(g, cs) \in Nat
           /\ SumOver(g, cs) \leq SumOver(f, cs)
           /\ Sum(f) = 1 => \A b \in Acs : g[b] = 0
<1>1. \A b \in Acs : f[b] \in Nat /\ g[b] \in Nat /\ g[b] \leq f[b]
  BY DEF Counts
<1>2. Sum(g) = Sum(f) - 1 /\ Sum(f) \in Nat /\ Sum(g) \in Nat /\ SumOver(f, cs) \in Nat /\ SumOver(g, cs) \in Nat
  <2>1. \A c \in Acs : f[c] \in Int /\ g[c] \in Int
    BY <1>1
  <2>2. SumFunctionOnSet(g, Acs) = SumFunctionOnSet(f, Acs) - f[a] + g[a]
    <3>1. \A c \in Acs \ {a} : f[c] = g[c]
      OBVIOUS
    <3>2. IsFiniteSet(Acs)
      BY Sets
    <3> QED
      BY <2>1, <3>1, <3>2, SumChange
  <2>3. Sum(f) \in Nat /\ Sum(g) \in Nat /\ SumOver(f, cs) \in Nat /\ SumOver(g, cs) \in Nat
    BY CountsSum
  <2> QED
    BY <2>2, <2>3, <1>1 DEF Sum
<1>3. SumOver(g, cs) \leq SumOver(f, cs)
  <2>1. IsFiniteSet(cs) /\ cs \subseteq Acs
    BY CountsSum
  <2>2. CASE a \in cs
    <3>1. \A c \in cs : f[c] \in Int /\ g[c] \in Int
      BY <1>1, <2>1
    <3>2. \A c \in cs \ {a} : f[c] = g[c]
      BY <2>1
    <3>3. SumFunctionOnSet(g, cs) = SumFunctionOnSet(f, cs) - f[a] + g[a]
      BY <2>1, <2>2, <3>1, <3>2, SumChange
    <3> QED
      BY <3>3, <1>1, <1>2 DEF SumOver
  <2>3. CASE a \notin cs
    <3>1. \A c \in cs : g[c] = f[c]
      BY <2>1, <2>3
    <3>2. SumFunctionOnSet(g, cs) = SumFunctionOnSet(f, cs)
      BY <2>1, <3>1, SumEqual
    <3> QED
      BY <3>2, <1>2 DEF SumOver
  <2> QED
    BY <2>2, <2>3
<1>4. Sum(f) = 1 => \A b \in Acs : g[b] = 0
  <2> SUFFICES ASSUME Sum(f) = 1, NEW b \in Acs PROVE g[b] = 0
    OBVIOUS
  <2>1. \A c \in Acs : g[c] \in Nat
    BY <1>1
  <2>2. g[b] \leq SumFunctionOnSet(g, Acs)
    BY <2>1, Sets, SumBounds
  <2> QED
    BY <2>1, <2>2, <1>2 DEF Sum
<1> QED
  BY <1>1, <1>2, <1>3, <1>4

LEMMA FetchQueue ==
    ASSUME TypeOK, NEW s \in Stas, PollFetch(s)
    PROVE  /\ q' = [q EXCEPT ![s] = q'[s]]
           /\ q'[s] \in QueueStates
           /\ Agrees(q[s], Uapsd[s]) => Agrees(q'[s], Uapsd[s])
           /\ \A a \in Acs : q'[s].slp[a] \leq q[s].slp[a]
           /\ Agrees(q[s], Uapsd[s]) /\ q[s].len = 1 => \A a \in Acs : q'[s].slp[a] = 0
<1>1. s \in Dests /\ q[s] \in QueueStates /\ q[s].len \in Int /\ q[s].aclen \in Int /\ q[s].slp \in Counts
  BY Sets DEF TypeOK, QueueStates
<1>2. PICK a \in Acs :
        /\ q[s].slp[a] > 0
        /\ q' = [q EXCEPT ![s] = [slp |-> [q[s].slp EXCEPT ![a] = q[s].slp[a] - 1],
                                   len |-> q[s].len - 1,
                                   pend |-> Sent(s, Only(a, 1)), aclen |-> q[s].aclen]]
  BY DEF PollFetch
<1> DEFINE f == q[s].slp
           cs == Uapsd[s]
           g == [f EXCEPT ![a] = f[a] - 1]
           p == Sent(s, Only(a, 1))
           n == q[s].len - 1
           r == [slp |-> g, len |-> n, pend |-> p, aclen |-> q[s].aclen]
<1>3. q' = [q EXCEPT ![s] = r]
  BY <1>2
<1>4. q'[s] = r
  BY <1>1, <1>3 DEF TypeOK
<1>5. p \in Counts
  BY <1>1, OnlyCounts, SentCounts
<1>6. f \in Counts /\ f[a] > 0 /\ g \in Counts /\ g[a] = f[a] - 1 /\ \A b \in Acs \ {a} : g[b] = f[b]
  BY <1>1, <1>2 DEF Counts
<1>7. n \in Int /\ cs \in SUBSET Acs
  BY <1>1, Sets
<1> HIDE DEF f, g, p, n, cs
<1>8. r \in QueueStates /\ r.slp = g /\ r.len = n /\ r.aclen = q[s].aclen
  BY <1>1, <1>5, <1>6, <1>7 DEF QueueStates
<1>9. /\ \A b \in Acs : f[b] \in Nat /\ g[b] \in Nat /\ g[b] \leq f[b]
      /\ Sum(g) = Sum(f) - 1 /\ Sum(f) \in Nat /\ Sum(g) \in Nat
      /\ SumOver(f, cs) \in Nat /\ SumOver(g, cs) \in Nat
      /\ SumOver(g, cs) \leq SumOver(f, cs)
      /\ Sum(f) = 1 => \A b \in Acs : g[b] = 0
  BY <1>6, <1>7, OneLess
<1>13. q[s].len = Sum(f) => n = Sum(g)
  BY <1>1, <1>9 DEF n
<1>14. q[s].aclen >= SumOver(f, cs) => q[s].aclen >= SumOver(g, cs)
  BY <1>1, <1>9
<1> HIDE DEF r
<1>15. Agrees(q[s], cs) => Agrees(r, cs)
  BY <1>8, <1>13, <1>14 DEF Agrees, f
<1>16. Agrees(q[s], cs) /\ q[s].len = 1 => Sum(f) = 1
  BY DEF Agrees, f
<1> QED
  BY <1>3, <1>4, <1>8, <1>9, <1>15, <1>16 DEF f, cs

-----------------------------------------------------------------------------
(* Types.                                                                    *)

LEMMA BeaconType ==
    /\ \A tim \in SUBSET (0 .. 15) : TimIe(tim) \in SUBSET (0 .. 15)
    /\ bits \in BitStates =>
         \A tim \in SUBSET (0 .. 15) : \A tell : Beacon(tim, tell) \in SUBSET (0 .. 15)
<1>1. ASSUME NEW tim \in SUBSET (0 .. 15) PROVE TimIe(tim) \in SUBSET (0 .. 15)
  BY DEF TimIe
<1> QED
  BY <1>1 DEF Beacon, BitStates

\* Every variable keeps its type.
LEMMA TypeOKStep == TypeOK /\ [Next]_vars => TypeOK'
<1> SUFFICES ASSUME TypeOK, [Next]_vars
             PROVE  TypeOK'
  OBVIOUS
<1>q. \A d \in Dests : q[d] \in QueueStates
  BY DEF TypeOK
<1>1. CASE \E d \in Dests, a \in Acs : Send(d, a)
  <2>0. PICK d \in Dests, a \in Acs : Send(d, a)
    BY <1>1
  <2>1. tx' \in TxStates
    BY <2>0, Sets DEF Send, TypeOK, TxStates, TxIdle
  <2> QED
    BY <2>0, <2>1 DEF Send, TypeOK
<1>2. CASE \E d \in Dests, a \in Acs : Transmit(d, a)
  <2>0. PICK d \in Dests, a \in Acs : Transmit(d, a)
    BY <1>2
  <2>1. q' \in [Dests -> QueueStates]
    <3>1. q[d] \in QueueStates /\ q[d].pend \in Counts /\ q[d].pend[a] \in Nat \ {0}
      BY <2>0, <1>q DEF Transmit, QueueStates, Counts
    <3>2. [q[d].pend EXCEPT ![a] = q[d].pend[a] - 1] \in Counts
      BY <3>1 DEF Counts
    <3>3. [q[d] EXCEPT !.pend = [q[d].pend EXCEPT ![a] = q[d].pend[a] - 1]] \in QueueStates
      BY <3>1, <3>2 DEF QueueStates
    <3>4. q' = [q EXCEPT ![d] = [q[d] EXCEPT !.pend = [q[d].pend EXCEPT ![a] = q[d].pend[a] - 1]]]
      BY <2>0 DEF Transmit
    <3> QED
      BY <3>3, <3>4 DEF TypeOK
  <2> QED
    BY <2>0, <2>1 DEF Transmit, TypeOK
<1>3. CASE EnqueueForSleepingSta
  <2>1. q' \in [Dests -> QueueStates]
    <3>1. tx.to \in Dests /\ tx.ac \in Acs
      BY DEF TypeOK, TxStates
    <3>2. Put(tx.to, Only(tx.ac, 1)) \in QueueStates
      BY <3>1, <1>q, OnlyCounts, PutAgrees
    <3> QED
      BY <1>3, <3>1, <3>2 DEF EnqueueForSleepingSta, TypeOK
  <2>2. bits' \in BitStates
    <3> DEFINE d == tx.to
               own == IF SetsTim(d, tx.ac) THEN {AidOf(d)} ELSE {}
               fresh == own \ bits.tim # {}
    <3>d. d \in Dests /\ own \in SUBSET (0 .. 15)
      BY Aids DEF TypeOK, TxStates
    <3>b. bits.dz \in SUBSET (0 .. 15) /\ bits.tim \in SUBSET (0 .. 15) /\ bits.ie \in SUBSET (0 .. 15)
          /\ bits.raced \in SUBSET Dests /\ bits \in BitStates
      BY DEF TypeOK, BitStates
    <3>t. bits.tim \cup own \in SUBSET (0 .. 15)
      BY <1>3, <3>b, Sets, Aids, <3>d
    <3>i. Beacon(bits.tim \cup own, fresh) \in SUBSET (0 .. 15)
      BY <3>b, <3>t, BeaconType
    <3>e. bits' = [bits EXCEPT !.tim = bits.tim \cup own,
                             !.dz = IF d = Bmc THEN bits.dz \cup {0} ELSE bits.dz,
                             !.ie = Beacon(bits.tim \cup own, fresh),
                             !.raced = IF d = Bmc /\ fresh THEN bits.raced \ {Bmc} ELSE bits.raced]
      BY <1>3 DEF EnqueueForSleepingSta
    <3>r. /\ (IF d = Bmc THEN bits.dz \cup {0} ELSE bits.dz) \in SUBSET (0 .. 15)
          /\ (IF d = Bmc /\ fresh THEN bits.raced \ {Bmc} ELSE bits.raced) \in SUBSET Dests
      BY <3>b
    <3> QED
      BY <3>b, <3>t, <3>i, <3>e, <3>r DEF BitStates
  <2>3. cmd' \in CmdStates
    BY <1>3, Sets DEF EnqueueForSleepingSta, TypeOK, CmdStates
  <2>4. tx' \in TxStates
    BY <1>3, Sets DEF EnqueueForSleepingSta, TypeOK, TxStates, TxIdle
  <2> QED
    BY <1>3, <2>1, <2>2, <2>3, <2>4 DEF EnqueueForSleepingSta, TypeOK
<1>4. CASE NotForSleepingSta
  <2>1. tx' \in TxStates
    BY <1>4, Sets DEF NotForSleepingSta, TypeOK, TxStates, TxIdle
  <2> QED
    BY <1>4, <2>1 DEF NotForSleepingSta, TypeOK
<1>5. CASE PreXmit
  <2>1. q' \in [Dests -> QueueStates]
    <3>1. tx.to \in Dests /\ tx.ac \in Acs
      BY DEF TypeOK, TxStates
    <3>2. Sent(tx.to, Only(tx.ac, 1)) \in Counts
      BY <3>1, <1>q, OnlyCounts, SentCounts
    <3>3. [q[tx.to] EXCEPT !.pend = Sent(tx.to, Only(tx.ac, 1))] \in QueueStates
      BY <3>1, <3>2, <1>q DEF QueueStates
    <3> QED
      BY <1>5, <3>1, <3>3 DEF PreXmit, TypeOK
  <2>2. tx' \in TxStates
    BY <1>5, Sets DEF PreXmit, TypeOK, TxStates, TxIdle
  <2> QED
    BY <1>5, <2>1, <2>2 DEF PreXmit, TypeOK
<1>6. CASE WakeTells
  <2>1. bits' \in BitStates
    BY <1>6, BeaconType, Sets, Aids DEF WakeTells, TypeOK, BitStates
  <2>2. cmd' \in CmdStates
    BY <1>6, Sets DEF WakeTells, TypeOK, CmdStates
  <2>3. rx' \in RxStates
    BY <1>6, Sets DEF WakeTells, TypeOK, RxStates, RxIdle, Dests
  <2> QED
    BY <1>6, <2>1, <2>2, <2>3 DEF WakeTells, TypeOK
<1>7. CASE PollEmpty
  <2>1. q' \in [Dests -> QueueStates]
    <3>1. rx.sta \in Dests
      BY DEF TypeOK, RxStates
    <3>2. [q[rx.sta] EXCEPT !.len = 0] \in QueueStates
      BY <3>1, <1>q DEF QueueStates
    <3> QED
      BY <1>7, <3>1, <3>2 DEF PollEmpty, TypeOK
  <2>2. bits' \in BitStates
    <3> DEFINE s == rx.sta
               tim == bits.tim \ {AidOf(s)}
               hit == AidOf(s) \in bits.tim
               r == bits.raced \cup (IF hit /\ q[s].slp # None THEN {s} ELSE {})
                               \cup (IF hit /\ AidOf(s) = 0 THEN {Bmc} ELSE {})
    <3>d. s \in Dests
      BY DEF TypeOK, RxStates
    <3>b. bits.dz \in SUBSET (0 .. 15) /\ bits.tim \in SUBSET (0 .. 15) /\ bits.ie \in SUBSET (0 .. 15)
          /\ bits.raced \in SUBSET Dests /\ bits \in BitStates
      BY DEF TypeOK, BitStates
    <3>t. tim \in SUBSET (0 .. 15)
      BY <1>7, <3>b, Sets, Aids, <3>d
    <3>i. Beacon(tim, hit) \in SUBSET (0 .. 15)
      BY <3>b, <3>t, BeaconType
    <3>e. bits' = [bits EXCEPT !.tim = tim, !.ie = Beacon(tim, hit), !.raced = r]
      BY <1>7 DEF PollEmpty
    <3> QED
      BY <1>7, <3>b, <3>t, <3>i, <3>e, Sets, Aids, <3>d DEF BitStates
  <2>3. cmd' \in CmdStates
    BY <1>7, Sets DEF PollEmpty, TypeOK, CmdStates
  <2>4. rx' \in RxStates
    BY <1>7, Sets DEF PollEmpty, TypeOK, RxStates, RxIdle, Dests
  <2> QED
    BY <1>7, <2>1, <2>2, <2>3, <2>4 DEF PollEmpty, TypeOK
<1>8. CASE AuthExpires
  <2>1. bits' \in BitStates
    BY <1>8, BeaconType, Sets, Aids DEF AuthExpires, ClearsGroupBit, TypeOK, BitStates
  <2> QED
    BY <1>8, <2>1 DEF AuthExpires, ClearsGroupBit, TypeOK
<1>9. CASE CmdBeacon
  <2>1. cmd' \in CmdStates
    BY <1>9, Sets DEF CmdBeacon, TypeOK, CmdStates
  <2> QED
    BY <1>9, <2>1 DEF CmdBeacon, TypeOK
<1>10. CASE CmdBmcSleepq
  <2>1. cmd' \in CmdStates
    BY <1>10, Sets DEF CmdBmcSleepq, TypeOK, CmdStates
  <2> QED
    BY <1>10, <2>1 DEF CmdBmcSleepq, TypeOK
<1>11. CASE CmdHiQueue
  <2>1. cmd' \in CmdStates
    BY <1>11, Sets DEF CmdHiQueue, TypeOK, CmdStates
  <2> QED
    BY <1>11, <2>1 DEF CmdHiQueue, TypeOK
<1>12. CASE CmdBmcMoves
  <2>1. q' \in [Dests -> QueueStates]
    BY <1>12, <1>q, Sets, DrainedAgrees DEF CmdBmcMoves, TypeOK
  <2>2. cmd' \in CmdStates
    BY <1>12, Sets DEF CmdBmcMoves, TypeOK, CmdStates
  <2> QED
    BY <1>12, <2>1, <2>2 DEF CmdBmcMoves, TypeOK
<1>13. CASE CmdHiQueueClears
  <2>1. bits' \in BitStates
    BY <1>13, BeaconType, Sets, Aids DEF CmdHiQueueClears, TypeOK, BitStates
  <2>2. cmd' \in CmdStates
    BY <1>13, Sets DEF CmdHiQueueClears, TypeOK, CmdStates
  <2> QED
    BY <1>13, <2>1, <2>2 DEF CmdHiQueueClears, TypeOK
<1>14. CASE CmdTells
  <2>1. bits' \in BitStates
    BY <1>14, BeaconType, Sets, Aids DEF CmdTells, TypeOK, BitStates
  <2>2. cmd' \in CmdStates
    BY <1>14, Sets DEF CmdTells, TypeOK, CmdStates
  <2> QED
    BY <1>14, <2>1, <2>2 DEF CmdTells, TypeOK
<1>15. CASE \E s \in Stas : Doze(s)
  <2>0. PICK s \in Stas : Doze(s)
    BY <1>15
  <2>1. sta' \in [Stas -> StaStates]
    BY <2>0, Sets DEF Doze, TypeOK, StaStates, Gone
  <2>2. q' \in [Dests -> QueueStates]
    BY <2>0, <1>q, DozeQueues, Sets DEF TypeOK
  <2>3. bits' \in BitStates
    <3> DEFINE mine == IF Linked(s) THEN q[s].pend ELSE None
               own == IF \E a \in Acs : mine[a] > 0 /\ SetsTim(s, a) THEN {Aid[s]} ELSE {}
               all == IF Sum(q[Bmc].pend) > 0 THEN {0} ELSE {}
               tim == bits.tim \cup own \cup all
    <3>d. own \in SUBSET (0 .. 15) /\ all \in SUBSET (0 .. 15) /\ Aid[s] \in 0 .. 15
      BY Aids
    <3>b. bits.dz \in SUBSET (0 .. 15) /\ bits.tim \in SUBSET (0 .. 15) /\ bits.ie \in SUBSET (0 .. 15)
          /\ bits.raced \in SUBSET Dests /\ bits \in BitStates
      BY DEF TypeOK, BitStates
    <3>t. tim \in SUBSET (0 .. 15)
      BY <2>0, <3>b, Sets, Aids, <3>d
    <3>i. Beacon(tim, tim # bits.tim) \in SUBSET (0 .. 15)
      BY <3>b, <3>t, BeaconType
    <3>e. bits' = [bits EXCEPT !.dz = bits.dz \cup {Aid[s]} \cup all, !.tim = tim,
                             !.ie = Beacon(tim, tim # bits.tim),
                             !.raced = IF all \subseteq bits.tim THEN bits.raced
                                       ELSE bits.raced \ {Bmc}]
      BY <2>0 DEF Doze
    <3>r. /\ bits.dz \cup {Aid[s]} \cup all \in SUBSET (0 .. 15)
          /\ (IF all \subseteq bits.tim THEN bits.raced ELSE bits.raced \ {Bmc}) \in SUBSET Dests
      BY <3>b, <3>d
    <3> QED
      BY <3>b, <3>t, <3>i, <3>e, <3>r DEF BitStates
  <2>4. cmd' \in CmdStates
    BY <2>0, Sets DEF Doze, TypeOK, CmdStates
  <2> QED
    BY <2>0, <2>1, <2>2, <2>3, <2>4 DEF Doze, TypeOK
<1>16. CASE \E s \in Stas : Wake(s)
  <2>0. PICK s \in Stas : Wake(s)
    BY <1>16
  <2>1. sta' \in [Stas -> StaStates]
    BY <2>0, Sets DEF Wake, WakeupStaToXmit, TypeOK, StaStates, Gone
  <2>2. q' \in [Dests -> QueueStates]
    BY <2>0, <1>q, Sets, DrainedAgrees DEF Wake, WakeupStaToXmit, TypeOK
  <2>3. bits' \in BitStates
    BY <2>0, Sets, Aids DEF Wake, WakeupStaToXmit, Awake, TypeOK, BitStates
  <2>4. rx' \in RxStates
    BY <2>0, Sets DEF Wake, WakeupStaToXmit, TypeOK, RxStates, RxIdle, Dests
  <2> QED
    BY <2>0, <2>1, <2>2, <2>3, <2>4 DEF Wake, WakeupStaToXmit, TypeOK
<1>17. CASE \E s \in Stas : Trigger(s)
  <2>0. PICK s \in Stas : Trigger(s)
    BY <1>17
  <2>1. q' \in [Dests -> QueueStates]
    BY <2>0, <1>q, TriggerQueue, Sets DEF TypeOK
  <2>2. bits' \in BitStates
    <3>b. bits \in BitStates /\ bits.tim \in SUBSET (0 .. 15)
      BY DEF TypeOK, BitStates
    <3>1. CASE bits' = bits
      BY <3>b, <3>1
    <3>2. CASE bits' # bits
      <4>1. PICK tim \in {bits.tim, bits.tim \ {Aid[s]}}, tell \in BOOLEAN :
               bits' = [bits EXCEPT !.tim = tim, !.ie = Beacon(tim, tell)]
        BY <2>0, <3>2 DEF Trigger
      <4>2. tim \in SUBSET (0 .. 15)
        BY <3>b
      <4>3. Beacon(tim, tell) \in SUBSET (0 .. 15)
        BY <3>b, <4>2, BeaconType
      <4> QED
        BY <3>b, <4>1, <4>2, <4>3 DEF BitStates
    <3> QED
      BY <3>1, <3>2
  <2>3. cmd' \in CmdStates
    BY <2>0, Sets DEF Trigger, TypeOK, CmdStates
  <2> QED
    BY <2>0, <2>1, <2>2, <2>3 DEF Trigger, TypeOK
<1>18. CASE \E s \in Stas : PollFetch(s)
  <2>0. PICK s \in Stas : PollFetch(s)
    BY <1>18
  <2>1. sta' \in [Stas -> StaStates]
    BY <2>0, Sets DEF PollFetch, Polled, PollAnswered, TypeOK, StaStates, Gone
  <2>2. q' \in [Dests -> QueueStates]
    BY <2>0, <1>q, FetchQueue, Sets DEF TypeOK
  <2>3. bits' \in BitStates
    BY <2>0, BeaconType, Sets, Aids DEF PollFetch, Polled, PollAnswered, TypeOK, BitStates
  <2>4. cmd' \in CmdStates
    BY <2>0, Sets DEF PollFetch, Polled, PollAnswered, TypeOK, CmdStates
  <2> QED
    BY <2>0, <2>1, <2>2, <2>3, <2>4 DEF PollFetch, Polled, PollAnswered, TypeOK
<1>19. CASE \E s \in Stas : PollFindsNone(s)
  <2>0. PICK s \in Stas : PollFindsNone(s)
    BY <1>19
  <2>1. sta' \in [Stas -> StaStates]
    BY <2>0, Sets DEF PollFindsNone, Polled, PollAnswered, TypeOK, StaStates, Gone
  <2>2. rx' \in RxStates
    BY <2>0, Sets DEF PollFindsNone, Polled, PollAnswered, TypeOK, RxStates, RxIdle, Dests
  <2> QED
    BY <2>0, <2>1, <2>2 DEF PollFindsNone, Polled, PollAnswered, TypeOK
<1>20. CASE \E s \in Stas : CmdExpires(s)
  <2>0. PICK s \in Stas : CmdExpires(s)
    BY <1>20
  <2>1. sta' \in [Stas -> StaStates]
    BY <2>0, Sets DEF CmdExpires, TypeOK, StaStates, Gone
  <2>2. bits' \in BitStates
    <3> DEFINE tim == bits.tim \cup {Aid[s]}
    <3>d. Aid[s] \in 0 .. 15
      BY Aids
    <3>b. bits.dz \in SUBSET (0 .. 15) /\ bits.tim \in SUBSET (0 .. 15) /\ bits.ie \in SUBSET (0 .. 15)
          /\ bits.raced \in SUBSET Dests /\ bits \in BitStates
      BY DEF TypeOK, BitStates
    <3>t. tim \in SUBSET (0 .. 15)
      BY <2>0, <3>b, Sets, Aids, <3>d
    <3>i. TimIe(tim) \in SUBSET (0 .. 15)
      BY <3>b, <3>t, BeaconType
    <3>e. bits' = [bits EXCEPT !.tim = tim, !.ie = TimIe(tim)]
      BY <2>0 DEF CmdExpires
    <3> QED
      BY <2>0, <3>b, <3>t, <3>i, <3>e, Sets, Aids, <3>d DEF BitStates
  <2>3. cmd' \in CmdStates
    BY <2>0, Sets DEF CmdExpires, TypeOK, CmdStates
  <2> QED
    BY <2>0, <2>1, <2>2, <2>3 DEF CmdExpires, TypeOK
<1>21. CASE \E s \in Stas : CmdDigest(s)
  <2>0. PICK s \in Stas : CmdDigest(s)
    BY <1>21
  <2>1. sta' \in [Stas -> StaStates]
    BY <2>0, Sets DEF CmdDigest, WakeupStaToXmit, TypeOK, StaStates, Gone
  <2>2. q' \in [Dests -> QueueStates]
    BY <2>0, <1>q, Sets, DrainedAgrees DEF CmdDigest, WakeupStaToXmit, TypeOK
  <2>3. bits' \in BitStates
    BY <2>0, Sets, Aids DEF CmdDigest, WakeupStaToXmit, Awake, TypeOK, BitStates
  <2>4. cmd' \in CmdStates
    BY <2>0, Sets DEF CmdDigest, WakeupStaToXmit, TypeOK, CmdStates
  <2> QED
    BY <2>0, <2>1, <2>2, <2>3, <2>4 DEF CmdDigest, WakeupStaToXmit, TypeOK
<1>22. CASE \E s \in Stas : Assoc(s)
  <2>0. PICK s \in Stas : Assoc(s)
    BY <1>22
  <2>1. sta' \in [Stas -> StaStates]
    BY <2>0, Sets DEF Assoc, TypeOK, StaStates, Gone
  <2> QED
    BY <2>0, <2>1 DEF Assoc, TypeOK
<1>23. CASE \E s \in Stas : Leave(s)
  <2>0. PICK s \in Stas : Leave(s)
    BY <1>23
  <2>1. sta' \in [Stas -> StaStates]
    BY <2>0, Sets DEF Leave, TypeOK, StaStates, Gone
  <2> QED
    BY <2>0, <2>1 DEF Leave, TypeOK
<1>24. CASE \E s \in Stas : FreeSta(s)
  <2>0. PICK s \in Stas : FreeSta(s)
    BY <1>24
  <2>1. sta' \in [Stas -> StaStates]
    BY <2>0, Sets DEF FreeSta, TypeOK, StaStates, Gone
  <2>2. q' \in [Dests -> QueueStates]
    BY <2>0, Sets, EmptyAgrees DEF FreeSta, TypeOK
  <2>3. bits' \in BitStates
    BY <2>0, BeaconType, Sets, Aids DEF FreeSta, TypeOK, BitStates
  <2> QED
    BY <2>0, <2>1, <2>2, <2>3 DEF FreeSta, TypeOK
<1>25. CASE UNCHANGED vars
  BY <1>25 DEF vars, TypeOK
<1>26. CASE CmdBeaconFails
  <2>1. cmd' \in CmdStates
    BY <1>26, Sets DEF CmdBeaconFails, TypeOK, CmdStates
  <2> QED
    BY <1>26, <2>1 DEF CmdBeaconFails, TypeOK
<1> QED
  BY <1>1, <1>2, <1>3, <1>4, <1>5, <1>6, <1>7, <1>8, <1>9, <1>10, <1>11, <1>12, <1>13, <1>14, <1>15, <1>16, <1>17, <1>18, <1>19, <1>20, <1>21, <1>22, <1>23, <1>24, <1>25, <1>26
     DEF Next, Sender, RxEnds, CmdEnds, Rx

\* The tasklet is between the sections of an empty PS-Poll of a station.
LEMMA RxInvStep == TypeOK /\ RxInv /\ [Next]_vars => RxInv'
<1> SUFFICES ASSUME TypeOK, RxInv, [Next]_vars
             PROVE  RxInv'
  OBVIOUS
<1>1. CASE \E d \in Dests, a \in Acs : Send(d, a)
  BY <1>1 DEF Send, RxInv, RxStates, RxIdle, TypeOK
<1>2. CASE \E d \in Dests, a \in Acs : Transmit(d, a)
  BY <1>2 DEF Transmit, RxInv, RxStates, RxIdle, TypeOK
<1>3. CASE EnqueueForSleepingSta
  BY <1>3 DEF EnqueueForSleepingSta, RxInv, RxStates, RxIdle, TypeOK
<1>4. CASE NotForSleepingSta
  BY <1>4 DEF NotForSleepingSta, RxInv, RxStates, RxIdle, TypeOK
<1>5. CASE PreXmit
  BY <1>5 DEF PreXmit, RxInv, RxStates, RxIdle, TypeOK
<1>6. CASE WakeTells
  BY <1>6 DEF WakeTells, RxInv, RxStates, RxIdle, TypeOK
<1>7. CASE PollEmpty
  BY <1>7 DEF PollEmpty, RxInv, RxStates, RxIdle, TypeOK
<1>8. CASE AuthExpires
  BY <1>8 DEF AuthExpires, ClearsGroupBit, RxInv, RxStates, RxIdle, TypeOK
<1>9. CASE CmdBeacon
  BY <1>9 DEF CmdBeacon, RxInv, RxStates, RxIdle, TypeOK
<1>10. CASE CmdBmcSleepq
  BY <1>10 DEF CmdBmcSleepq, RxInv, RxStates, RxIdle, TypeOK
<1>11. CASE CmdHiQueue
  BY <1>11 DEF CmdHiQueue, RxInv, RxStates, RxIdle, TypeOK
<1>12. CASE CmdBmcMoves
  BY <1>12 DEF CmdBmcMoves, RxInv, RxStates, RxIdle, TypeOK
<1>13. CASE CmdHiQueueClears
  BY <1>13 DEF CmdHiQueueClears, RxInv, RxStates, RxIdle, TypeOK
<1>14. CASE CmdTells
  BY <1>14 DEF CmdTells, RxInv, RxStates, RxIdle, TypeOK
<1>15. CASE \E s \in Stas : Doze(s)
  BY <1>15 DEF Doze, RxInv, RxStates, RxIdle, TypeOK
<1>16. CASE \E s \in Stas : Wake(s)
  BY <1>16 DEF Wake, WakeupStaToXmit, RxInv, RxStates, RxIdle, TypeOK
<1>17. CASE \E s \in Stas : Trigger(s)
  BY <1>17 DEF Trigger, RxInv, RxStates, RxIdle, TypeOK
<1>18. CASE \E s \in Stas : PollFetch(s)
  BY <1>18 DEF PollFetch, Polled, PollAnswered, RxInv, RxStates, RxIdle, TypeOK
<1>19. CASE \E s \in Stas : PollFindsNone(s)
  BY <1>19 DEF PollFindsNone, Polled, PollAnswered, RxInv, RxStates, RxIdle, TypeOK
<1>20. CASE \E s \in Stas : CmdExpires(s)
  BY <1>20 DEF CmdExpires, RxInv, RxStates, RxIdle, TypeOK
<1>21. CASE \E s \in Stas : CmdDigest(s)
  BY <1>21 DEF CmdDigest, WakeupStaToXmit, RxInv, RxStates, RxIdle, TypeOK
<1>22. CASE \E s \in Stas : Assoc(s)
  BY <1>22 DEF Assoc, RxInv, RxStates, RxIdle, TypeOK
<1>23. CASE \E s \in Stas : Leave(s)
  BY <1>23 DEF Leave, RxInv, RxStates, RxIdle, TypeOK
<1>24. CASE \E s \in Stas : FreeSta(s)
  BY <1>24 DEF FreeSta, RxInv, RxStates, RxIdle, TypeOK
<1>25. CASE UNCHANGED vars
  BY <1>25 DEF vars, RxInv, RxStates, RxIdle, TypeOK
<1>26. CASE CmdBeaconFails
  BY <1>26 DEF CmdBeaconFails, RxInv, RxStates, RxIdle, TypeOK
<1> QED
  BY <1>1, <1>2, <1>3, <1>4, <1>5, <1>6, <1>7, <1>8, <1>9, <1>10, <1>11, <1>12, <1>13, <1>14, <1>15, <1>16, <1>17, <1>18, <1>19, <1>20, <1>21, <1>22, <1>23, <1>24, <1>25, <1>26
     DEF Next, Sender, RxEnds, CmdEnds, Rx

-----------------------------------------------------------------------------
(* The two lengths.                                                          *)

LEMMA WakeQueues ==
    ASSUME TypeOK, NEW s \in Stas, WakeupStaToXmit(s)
    PROVE  /\ q'[s] = Drained(s)
           /\ q'[Bmc] = IF Awake(s).all THEN Drained(Bmc) ELSE q[Bmc]
           /\ \A d \in Dests \ {s, Bmc} : q'[d] = q[d]
           /\ bits'.dz = Awake(s).dz /\ bits'.tim = Awake(s).tim /\ bits'.ie = bits.ie
           /\ bits'.raced = IF Awake(s).all THEN bits.raced \ {Bmc} ELSE bits.raced
<1>1. q \in [Dests -> QueueStates] /\ bits \in BitStates /\ s \in Dests /\ Bmc \in Dests /\ s # Bmc
  BY Sets DEF TypeOK
<1>2. q' = [q EXCEPT ![s] = Drained(s), ![Bmc] = IF Awake(s).all THEN Drained(Bmc) ELSE q[Bmc]]
  BY <1>1 DEF WakeupStaToXmit
<1>3. bits' = [bits EXCEPT !.dz = Awake(s).dz, !.tim = Awake(s).tim,
                           !.raced = IF Awake(s).all THEN bits.raced \ {Bmc} ELSE bits.raced]
  BY DEF WakeupStaToXmit
<1>4. /\ q'[s] = Drained(s) /\ \A d \in Dests \ {s, Bmc} : q'[d] = q[d]
      /\ q'[Bmc] = IF Awake(s).all THEN Drained(Bmc) ELSE q[Bmc]
  BY <1>1, <1>2
<1> QED
  BY <1>1, <1>3, <1>4 DEF BitStates

LEMMA AccKept ==
    ASSUME AccInv,
           \A d \in Dests : \/ q'[d].slp = q[d].slp /\ q'[d].len = q[d].len /\ q'[d].aclen = q[d].aclen
                            \/ Agrees(q[d], DeliveryEnabled(d)) => Agrees(q'[d], DeliveryEnabled(d)),
           \A d \in Stas : d \in bits.raced => d \in bits'.raced
    PROVE  AccInv'
<1> SUFFICES ASSUME NEW d \in Dests, d = Bmc \/ d \notin bits'.raced
             PROVE  Agrees(q'[d], DeliveryEnabled(d))
  BY DEF AccInv, DeliveryEnabled
<1>1. Agrees(q[d], DeliveryEnabled(d))
  BY DEF AccInv, Dests
<1> QED
  BY <1>1 DEF Agrees

\* The lengths of a queue agree with it, but for one that a PS-Poll raced with.
LEMMA AccInvStep == TypeOK /\ RxInv /\ AccInv /\ [Next]_vars => AccInv'
<1> SUFFICES ASSUME TypeOK, RxInv, AccInv, [Next]_vars
             PROVE  AccInv'
  OBVIOUS
<1>q. q \in [Dests -> QueueStates] /\ \A d \in Dests : q[d] \in QueueStates
  BY DEF TypeOK
<1>b. bits \in BitStates
  BY DEF TypeOK
<1>1. CASE \E d \in Dests, a \in Acs : Send(d, a)
  BY <1>1, <1>b DEF Send, AccInv, BitStates
<1>2. CASE \E d \in Dests, a \in Acs : Transmit(d, a)
  <2>0. PICK d \in Dests, a \in Acs : Transmit(d, a)
    BY <1>2
  <2>1. \A e \in Dests : q'[e].slp = q[e].slp /\ q'[e].len = q[e].len /\ q'[e].aclen = q[e].aclen
    BY <2>0, <1>q DEF Transmit, QueueStates
  <2> QED
    BY <2>0, <2>1, AccKept DEF Transmit
<1>3. CASE EnqueueForSleepingSta
  <2>0. tx.to \in Dests /\ tx.ac \in Acs
    BY DEF TypeOK, TxStates
  <2>1. Agrees(q[tx.to], DeliveryEnabled(tx.to)) =>
          Agrees(Put(tx.to, Only(tx.ac, 1)), DeliveryEnabled(tx.to))
    BY <2>0, <1>q, OnlyCounts, PutAgrees
  <2>2. \A d \in Dests : Agrees(q[d], DeliveryEnabled(d)) => Agrees(q'[d], DeliveryEnabled(d))
    BY <1>3, <2>0, <2>1, <1>q DEF EnqueueForSleepingSta
  <2>3. \A d \in Stas : d \in bits.raced => d \in bits'.raced
    BY <1>3, <1>b, Sets DEF EnqueueForSleepingSta, BitStates
  <2> QED
    BY <2>2, <2>3, AccKept
<1>4. CASE NotForSleepingSta
  BY <1>4, <1>b DEF NotForSleepingSta, AccInv, BitStates
<1>5. CASE PreXmit
  <2>1. \A e \in Dests : q'[e].slp = q[e].slp /\ q'[e].len = q[e].len /\ q'[e].aclen = q[e].aclen
    BY <1>5, <1>q DEF PreXmit, QueueStates
  <2> QED
    BY <1>5, <2>1, AccKept DEF PreXmit
<1>6. CASE WakeTells
  BY <1>6, <1>b DEF WakeTells, AccInv, BitStates
<1>7. CASE PollEmpty
  <2>0. rx.sta \in Stas /\ rx.sta \in Dests /\ rx.sta # Bmc
    BY <1>7, Sets DEF PollEmpty, RxInv
  <2>1. CASE AidOf(rx.sta) \notin bits.tim
    BY <1>7, <2>1, <1>b, AccKept DEF PollEmpty, BitStates
  <2>2. CASE AidOf(rx.sta) \in bits.tim
    <3>1. q' = [q EXCEPT ![rx.sta].len = 0]
      BY <1>7, <2>2 DEF PollEmpty
    <3>2. /\ bits.raced \subseteq bits'.raced
          /\ q[rx.sta].slp # None => rx.sta \in bits'.raced
      BY <1>7, <2>2, <1>b DEF PollEmpty, BitStates
    <3> SUFFICES ASSUME NEW d \in Dests, d = Bmc \/ d \notin bits'.raced
                 PROVE  Agrees(q'[d], DeliveryEnabled(d))
      BY DEF AccInv, DeliveryEnabled
    <3>3. Agrees(q[d], DeliveryEnabled(d))
      BY <3>2 DEF AccInv
    <3>4. CASE d = rx.sta
      <4>1. q[d].slp = None
        BY <2>0, <3>2, <3>4
      <4>2. q'[d].slp = q[d].slp /\ q'[d].len = 0 /\ q'[d].aclen = q[d].aclen
        BY <3>1, <3>4, <1>q DEF QueueStates
      <4> QED
        BY <3>3, <4>1, <4>2, NoneCounts DEF Agrees
    <3>5. CASE d # rx.sta
      BY <3>1, <3>3, <3>5, <1>q
    <3> QED
      BY <3>4, <3>5
  <2> QED
    BY <2>1, <2>2
<1>8. CASE AuthExpires
  BY <1>8, <1>b DEF AuthExpires, ClearsGroupBit, AccInv, BitStates
<1>9. CASE CmdBeacon
  BY <1>9, <1>b DEF CmdBeacon, AccInv, BitStates
<1>10. CASE CmdBmcSleepq
  BY <1>10, <1>b DEF CmdBmcSleepq, AccInv, BitStates
<1>11. CASE CmdHiQueue
  BY <1>11, <1>b DEF CmdHiQueue, AccInv, BitStates
<1>12. CASE CmdBmcMoves
  <2>1. \A d \in Dests : Agrees(q[d], DeliveryEnabled(d)) => Agrees(q'[d], DeliveryEnabled(d))
    BY <1>12, <1>q, Sets, DrainedAgrees DEF CmdBmcMoves
  <2> QED
    BY <1>12, <2>1, AccKept DEF CmdBmcMoves
<1>13. CASE CmdHiQueueClears
  BY <1>13, <1>b DEF CmdHiQueueClears, AccInv, BitStates
<1>14. CASE CmdTells
  BY <1>14, <1>b DEF CmdTells, AccInv, BitStates
<1>15. CASE \E s \in Stas : Doze(s)
  <2>0. PICK s \in Stas : Doze(s)
    BY <1>15
  <2>1. \A d \in Dests : Agrees(q[d], DeliveryEnabled(d)) => Agrees(q'[d], DeliveryEnabled(d))
    BY <2>0, <1>q, Sets, DozeQueues
  <2>2. \A d \in Stas : d \in bits.raced => d \in bits'.raced
    BY <2>0, <1>b, Sets DEF Doze, BitStates
  <2> QED
    BY <2>1, <2>2, AccKept
<1>16. CASE \E s \in Stas : Wake(s)
  <2>0. PICK s \in Stas : Wake(s)
    BY <1>16
  <2>w. WakeupStaToXmit(s)
    BY <2>0 DEF Wake
  <2>1. \A d \in Dests : Agrees(q[d], DeliveryEnabled(d)) => Agrees(q'[d], DeliveryEnabled(d))
    BY <2>w, <1>q, Sets, WakeQueues, DrainedAgrees
  <2>2. \A d \in Stas : d \in bits.raced => d \in bits'.raced
    BY <2>w, Sets, WakeQueues
  <2> QED
    BY <2>1, <2>2, AccKept
<1>17. CASE \E s \in Stas : Trigger(s)
  <2>0. PICK s \in Stas : Trigger(s)
    BY <1>17
  <2>1. \A d \in Dests : Agrees(q[d], DeliveryEnabled(d)) => Agrees(q'[d], DeliveryEnabled(d))
    BY <2>0, <1>q, Sets, TriggerQueue
  <2>2. bits'.raced = bits.raced
    BY <2>0, <1>b DEF Trigger, BitStates
  <2> QED
    BY <2>1, <2>2, AccKept
<1>18. CASE \E s \in Stas : PollFetch(s)
  <2>0. PICK s \in Stas : PollFetch(s)
    BY <1>18
  <2>1. \A d \in Dests : Agrees(q[d], DeliveryEnabled(d)) => Agrees(q'[d], DeliveryEnabled(d))
    BY <2>0, <1>q, Sets, FetchQueue
  <2>2. bits'.raced = bits.raced
    BY <2>0, <1>b DEF PollFetch, BitStates
  <2> QED
    BY <2>1, <2>2, AccKept
<1>19. CASE \E s \in Stas : PollFindsNone(s)
  BY <1>19, <1>b DEF PollFindsNone, Polled, PollAnswered, AccInv, BitStates
<1>20. CASE \E s \in Stas : CmdExpires(s)
  BY <1>20, <1>b DEF CmdExpires, AccInv, BitStates
<1>21. CASE \E s \in Stas : CmdDigest(s)
  <2>0. PICK s \in Stas : CmdDigest(s)
    BY <1>21
  <2>w. WakeupStaToXmit(s)
    BY <2>0 DEF CmdDigest
  <2>1. \A d \in Dests : Agrees(q[d], DeliveryEnabled(d)) => Agrees(q'[d], DeliveryEnabled(d))
    BY <2>w, <1>q, Sets, WakeQueues, DrainedAgrees
  <2>2. \A d \in Stas : d \in bits.raced => d \in bits'.raced
    BY <2>w, Sets, WakeQueues
  <2> QED
    BY <2>1, <2>2, AccKept
<1>22. CASE \E s \in Stas : Assoc(s)
  BY <1>22, <1>b DEF Assoc, AccInv, BitStates
<1>23. CASE \E s \in Stas : Leave(s)
  BY <1>23, <1>b DEF Leave, AccInv, BitStates
<1>24. CASE \E s \in Stas : FreeSta(s)
  <2>0. PICK s \in Stas : FreeSta(s)
    BY <1>24
  <2> SUFFICES ASSUME NEW d \in Dests, d = Bmc \/ d \notin bits'.raced
               PROVE  Agrees(q'[d], DeliveryEnabled(d))
    BY DEF AccInv, DeliveryEnabled
  <2>1. CASE d = s
    BY <2>0, <2>1, <1>q, EmptyAgrees DEF FreeSta
  <2>2. CASE d # s
    BY <2>0, <2>2, <1>q, <1>b DEF FreeSta, AccInv, BitStates
  <2> QED
    BY <2>1, <2>2
<1>25. CASE UNCHANGED vars
  BY <1>25, <1>b DEF vars, AccInv, BitStates
<1>26. CASE CmdBeaconFails
  BY <1>26, <1>b DEF CmdBeaconFails, AccInv, BitStates
<1> QED
  BY <1>1, <1>2, <1>3, <1>4, <1>5, <1>6, <1>7, <1>8, <1>9, <1>10, <1>11, <1>12, <1>13, <1>14, <1>15, <1>16, <1>17, <1>18, <1>19, <1>20, <1>21, <1>22, <1>23, <1>24, <1>25, <1>26
     DEF Next, Sender, RxEnds, CmdEnds, Rx

-----------------------------------------------------------------------------
(* Stations that are gone or awake.                                          *)

\* A station that is gone has nothing.
LEMMA ApartInvStep == TypeOK /\ ApartInv /\ [Next]_vars => ApartInv'
<1> SUFFICES ASSUME TypeOK, ApartInv, [Next]_vars
             PROVE  ApartInv'
  OBVIOUS
<1>q. q \in [Dests -> QueueStates] /\ \A d \in Dests : q[d] \in QueueStates
  BY DEF TypeOK
<1>b. bits \in BitStates
  BY DEF TypeOK
<1>s. sta \in [Stas -> StaStates] /\ \A t \in Stas : sta[t] \in StaStates
  BY DEF TypeOK
<1>a. \A t \in Stas : sta[t].pc = "gone" => q[t] = Empty /\ Aid[t] \notin bits.dz
  BY DEF ApartInv, Found
<1>1. CASE \E d \in Dests, a \in Acs : Send(d, a)
  BY <1>1, <1>b DEF Send, ApartInv, BitStates, Found
<1>2. CASE \E d \in Dests, a \in Acs : Transmit(d, a)
  <2>0. PICK d \in Dests, a \in Acs : Transmit(d, a)
    BY <1>2
  <2> SUFFICES ASSUME NEW t \in Stas, sta'[t].pc = "gone"
               PROVE  q'[t] = Empty /\ Aid[t] \notin bits'.dz
    BY DEF ApartInv, Found
  <2>1. q[t] = Empty /\ Aid[t] \notin bits.dz
    BY <2>0, <1>a DEF Transmit
  <2>2. t # d
    BY <2>0, <2>1 DEF Transmit, Empty, None
  <2> QED
    BY <2>0, <2>1, <2>2, Sets, <1>q DEF Transmit
<1>3. CASE EnqueueForSleepingSta
  <2> SUFFICES ASSUME NEW t \in Stas, sta'[t].pc = "gone"
               PROVE  q'[t] = Empty /\ Aid[t] \notin bits'.dz
    BY DEF ApartInv, Found
  <2>1. q[t] = Empty /\ Aid[t] \notin bits.dz
    BY <1>3, <1>a DEF EnqueueForSleepingSta
  <2>2. tx.to # t
    BY <1>3, Sets DEF EnqueueForSleepingSta, Buffers, Linked
  <2>3. bits'.dz \subseteq bits.dz \cup {0}
    BY <1>3, <1>b DEF EnqueueForSleepingSta, BitStates
  <2> QED
    BY <1>3, <2>1, <2>2, <2>3, Sets, Aids, <1>q DEF EnqueueForSleepingSta
<1>4. CASE NotForSleepingSta
  BY <1>4, <1>b DEF NotForSleepingSta, ApartInv, BitStates, Found
<1>5. CASE PreXmit
  <2> SUFFICES ASSUME NEW t \in Stas, sta'[t].pc = "gone"
               PROVE  q'[t] = Empty /\ Aid[t] \notin bits'.dz
    BY DEF ApartInv, Found
  <2>1. q[t] = Empty /\ Aid[t] \notin bits.dz
    BY <1>5, <1>a DEF PreXmit
  <2>2. CASE tx.to = t
    <3>1. ~Linked(t) /\ t # Bmc
      BY <1>5, Sets DEF PreXmit, Linked
    <3>2. q' = [q EXCEPT ![t] = [q[t] EXCEPT !.pend = q[t].pend]]
      BY <1>5, <2>2, <3>1 DEF PreXmit, Sent
    <3> QED
      BY <1>5, <2>1, <3>2, Sets, <1>q DEF PreXmit, QueueStates
  <2>3. CASE tx.to # t
    BY <1>5, <2>1, <2>3, Sets, <1>q DEF PreXmit
  <2> QED
    BY <2>2, <2>3
<1>6. CASE WakeTells
  BY <1>6, <1>b DEF WakeTells, ApartInv, BitStates, Found
<1>7. CASE PollEmpty
  <2> SUFFICES ASSUME NEW t \in Stas, sta'[t].pc = "gone"
               PROVE  q'[t] = Empty /\ Aid[t] \notin bits'.dz
    BY DEF ApartInv, Found
  <2>1. q[t] = Empty /\ Aid[t] \notin bits.dz
    BY <1>7, <1>a DEF PollEmpty
  <2>2. q'[t] = q[t]
    <3>1. CASE rx.sta = t
      <4>1. q' = q \/ q' = [q EXCEPT ![t] = [q[t] EXCEPT !.len = 0]]
        BY <1>7, <3>1 DEF PollEmpty
      <4>2. [q[t] EXCEPT !.len = 0] = q[t]
        BY <2>1 DEF Empty
      <4> QED
        BY <4>1, <4>2, Sets, <1>q
    <3>2. CASE rx.sta # t
      BY <1>7, <3>2, Sets, <1>q DEF PollEmpty
    <3> QED
      BY <3>1, <3>2
  <2> QED
    BY <1>7, <2>1, <2>2, <1>b DEF PollEmpty, BitStates
<1>8. CASE AuthExpires
  BY <1>8, <1>b DEF AuthExpires, ClearsGroupBit, ApartInv, BitStates, Found
<1>9. CASE CmdBeacon
  BY <1>9, <1>b DEF CmdBeacon, ApartInv, BitStates, Found
<1>10. CASE CmdBmcSleepq
  BY <1>10, <1>b DEF CmdBmcSleepq, ApartInv, BitStates, Found
<1>11. CASE CmdHiQueue
  BY <1>11, <1>b DEF CmdHiQueue, ApartInv, BitStates, Found
<1>12. CASE CmdBmcMoves
  BY <1>12, <1>a, <1>q, Sets DEF CmdBmcMoves, ApartInv, Found
<1>13. CASE CmdHiQueueClears
  BY <1>13, <1>b DEF CmdHiQueueClears, ApartInv, BitStates, Found
<1>14. CASE CmdTells
  BY <1>14, <1>b DEF CmdTells, ApartInv, BitStates, Found
<1>15. CASE \E s \in Stas : Doze(s)
  <2>0. PICK s \in Stas : Doze(s)
    BY <1>15
  <2> SUFFICES ASSUME NEW t \in Stas, sta'[t].pc = "gone"
               PROVE  q'[t] = Empty /\ Aid[t] \notin bits'.dz
    BY DEF ApartInv, Found
  <2>1. t # s /\ q[t] = Empty /\ Aid[t] \notin bits.dz
    BY <2>0, <1>a, <1>s DEF Doze, Found, StaStates
  <2>2. bits'.dz \subseteq bits.dz \cup {Aid[s], 0}
    BY <2>0, <1>b DEF Doze, BitStates
  <2>3. q'[t] = q[t]
    BY <2>0, <2>1, <1>q, DozeQueues, Sets
  <2> QED
    BY <2>1, <2>2, <2>3, Aids
<1>16. CASE \E s \in Stas : Wake(s)
  <2>0. PICK s \in Stas : Wake(s)
    BY <1>16
  <2>w. WakeupStaToXmit(s) /\ Found(s)
    BY <2>0, Sets DEF Wake, Linked, Found
  <2> SUFFICES ASSUME NEW t \in Stas, sta'[t].pc = "gone"
               PROVE  q'[t] = Empty /\ Aid[t] \notin bits'.dz
    BY DEF ApartInv, Found
  <2>1. t # s /\ q[t] = Empty /\ Aid[t] \notin bits.dz
    BY <2>w, <1>a, <1>s DEF WakeupStaToXmit, Found, StaStates
  <2>2. Awake(s).dz \subseteq bits.dz
    BY DEF Awake
  <2> QED
    BY <2>w, <2>1, <2>2, WakeQueues, Sets
<1>17. CASE \E s \in Stas : Trigger(s)
  <2>0. PICK s \in Stas : Trigger(s)
    BY <1>17
  <2> SUFFICES ASSUME NEW t \in Stas, sta'[t].pc = "gone"
               PROVE  q'[t] = Empty /\ Aid[t] \notin bits'.dz
    BY DEF ApartInv, Found
  <2>1. t # s /\ q[t] = Empty /\ Aid[t] \notin bits.dz
    BY <2>0, <1>a, <1>s DEF Trigger, Polled, PollAnswered, Found, StaStates
  <2>2. q'[t] = q[t]
    BY <2>0, <2>1, <1>q, TriggerQueue, Sets
  <2> QED
    BY <2>0, <2>1, <2>2, <1>b DEF Trigger, BitStates
<1>18. CASE \E s \in Stas : PollFetch(s)
  <2>0. PICK s \in Stas : PollFetch(s)
    BY <1>18
  <2> SUFFICES ASSUME NEW t \in Stas, sta'[t].pc = "gone"
               PROVE  q'[t] = Empty /\ Aid[t] \notin bits'.dz
    BY DEF ApartInv, Found
  <2>1. t # s /\ q[t] = Empty /\ Aid[t] \notin bits.dz
    BY <2>0, <1>a, <1>s DEF PollFetch, Polled, PollAnswered, Found, StaStates
  <2>2. q'[t] = q[t]
    BY <2>0, <2>1, <1>q, FetchQueue, Sets
  <2> QED
    BY <2>0, <2>1, <2>2, <1>b DEF PollFetch, BitStates
<1>19. CASE \E s \in Stas : PollFindsNone(s)
  <2>0. PICK s \in Stas : PollFindsNone(s)
    BY <1>19
  <2> SUFFICES ASSUME NEW t \in Stas, sta'[t].pc = "gone"
               PROVE  q'[t] = Empty /\ Aid[t] \notin bits'.dz
    BY DEF ApartInv, Found
  <2>1. sta[t].pc = "gone"
    BY <2>0, <1>s DEF PollFindsNone, Polled, StaStates, Gone
  <2> QED
    BY <2>0, <2>1, <1>a, <1>b DEF PollFindsNone, BitStates
<1>20. CASE \E s \in Stas : CmdExpires(s)
  <2>0. PICK s \in Stas : CmdExpires(s)
    BY <1>20
  <2> SUFFICES ASSUME NEW t \in Stas, sta'[t].pc = "gone"
               PROVE  q'[t] = Empty /\ Aid[t] \notin bits'.dz
    BY DEF ApartInv, Found
  <2>1. sta[t].pc = "gone"
    BY <2>0, <1>s DEF CmdExpires, Polled, StaStates, Gone
  <2> QED
    BY <2>0, <2>1, <1>a, <1>b DEF CmdExpires, BitStates
<1>21. CASE \E s \in Stas : CmdDigest(s)
  <2>0. PICK s \in Stas : CmdDigest(s)
    BY <1>21
  <2>w. WakeupStaToXmit(s) /\ Found(s)
    BY <2>0, Sets DEF CmdDigest, Linked, Found
  <2> SUFFICES ASSUME NEW t \in Stas, sta'[t].pc = "gone"
               PROVE  q'[t] = Empty /\ Aid[t] \notin bits'.dz
    BY DEF ApartInv, Found
  <2>1. t # s /\ q[t] = Empty /\ Aid[t] \notin bits.dz
    BY <2>w, <1>a, <1>s DEF WakeupStaToXmit, Found, StaStates
  <2>2. Awake(s).dz \subseteq bits.dz
    BY DEF Awake
  <2> QED
    BY <2>w, <2>1, <2>2, WakeQueues, Sets
<1>22. CASE \E s \in Stas : Assoc(s)
  <2>0. PICK s \in Stas : Assoc(s)
    BY <1>22
  <2> SUFFICES ASSUME NEW t \in Stas, sta'[t].pc = "gone"
               PROVE  q'[t] = Empty /\ Aid[t] \notin bits'.dz
    BY DEF ApartInv, Found
  <2>1. sta[t].pc = "gone"
    BY <2>0, <1>s DEF Assoc, Polled, StaStates, Gone
  <2> QED
    BY <2>0, <2>1, <1>a, <1>b DEF Assoc, BitStates
<1>23. CASE \E s \in Stas : Leave(s)
  <2>0. PICK s \in Stas : Leave(s)
    BY <1>23
  <2> SUFFICES ASSUME NEW t \in Stas, sta'[t].pc = "gone"
               PROVE  q'[t] = Empty /\ Aid[t] \notin bits'.dz
    BY DEF ApartInv, Found
  <2>1. sta[t].pc = "gone"
    BY <2>0, <1>s DEF Leave, Polled, StaStates, Gone
  <2> QED
    BY <2>0, <2>1, <1>a, <1>b DEF Leave, BitStates
<1>24. CASE \E s \in Stas : FreeSta(s)
  <2>0. PICK s \in Stas : FreeSta(s)
    BY <1>24
  <2> SUFFICES ASSUME NEW t \in Stas, sta'[t].pc = "gone"
               PROVE  q'[t] = Empty /\ Aid[t] \notin bits'.dz
    BY DEF ApartInv, Found
  <2>1. CASE t = s
    BY <2>0, <2>1, <1>q, <1>b, Sets DEF FreeSta, BitStates
  <2>2. CASE t # s
    BY <2>0, <2>2, <1>a, <1>s, <1>q, <1>b, Sets DEF FreeSta, BitStates
  <2> QED
    BY <2>1, <2>2
<1>25. CASE UNCHANGED vars
  BY <1>25, <1>b DEF vars, ApartInv, BitStates, Found
<1>26. CASE CmdBeaconFails
  BY <1>26, <1>b DEF CmdBeaconFails, ApartInv, BitStates, Found
<1> QED
  BY <1>1, <1>2, <1>3, <1>4, <1>5, <1>6, <1>7, <1>8, <1>9, <1>10, <1>11, <1>12, <1>13, <1>14, <1>15, <1>16, <1>17, <1>18, <1>19, <1>20, <1>21, <1>22, <1>23, <1>24, <1>25, <1>26
     DEF Next, Sender, RxEnds, CmdEnds, Rx

\* Nothing is held for a station that is awake.
LEMMA AwakeInvStep == TypeOK /\ ApartInv /\ AwakeInv /\ [Next]_vars => AwakeInv'
<1> SUFFICES ASSUME TypeOK, ApartInv, AwakeInv, [Next]_vars
             PROVE  AwakeInv'
  OBVIOUS
<1>q. q \in [Dests -> QueueStates] /\ \A d \in Dests : q[d] \in QueueStates
  BY DEF TypeOK
<1>b. bits \in BitStates
  BY DEF TypeOK
<1>s. sta \in [Stas -> StaStates] /\ \A t \in Stas : sta[t] \in StaStates
  BY DEF TypeOK
<1>a. \A t \in Stas : ~sta[t].sleep => q[t].slp = None
  BY DEF AwakeInv
<1>1. CASE \E d \in Dests, a \in Acs : Send(d, a)
  BY <1>1 DEF Send, AwakeInv
<1>2. CASE \E d \in Dests, a \in Acs : Transmit(d, a)
  <2>0. PICK d \in Dests, a \in Acs : Transmit(d, a)
    BY <1>2
  <2>1. \A e \in Dests : q'[e].slp = q[e].slp
    BY <2>0, <1>q DEF Transmit, QueueStates
  <2> QED
    BY <2>0, <2>1, <1>a, Sets DEF Transmit, AwakeInv
<1>3. CASE EnqueueForSleepingSta
  <2> SUFFICES ASSUME NEW t \in Stas, ~sta'[t].sleep
               PROVE  q'[t].slp = None
    BY DEF AwakeInv
  <2>1. q[t].slp = None
    BY <1>3, <1>a DEF EnqueueForSleepingSta
  <2>2. tx.to # t
    BY <1>3, Sets DEF EnqueueForSleepingSta, Buffers
  <2> QED
    BY <1>3, <2>1, <2>2, Sets, <1>q DEF EnqueueForSleepingSta
<1>4. CASE NotForSleepingSta
  BY <1>4 DEF NotForSleepingSta, AwakeInv
<1>5. CASE PreXmit
  <2>1. \A e \in Dests : q'[e].slp = q[e].slp
    BY <1>5, <1>q DEF PreXmit, QueueStates
  <2> QED
    BY <1>5, <2>1, <1>a, Sets DEF PreXmit, AwakeInv
<1>6. CASE WakeTells
  BY <1>6 DEF WakeTells, AwakeInv
<1>7. CASE PollEmpty
  <2>1. \A e \in Dests : q'[e].slp = q[e].slp
    BY <1>7, <1>q DEF PollEmpty, QueueStates
  <2> QED
    BY <1>7, <2>1, <1>a, Sets DEF PollEmpty, AwakeInv
<1>8. CASE AuthExpires
  BY <1>8 DEF AuthExpires, ClearsGroupBit, AwakeInv
<1>9. CASE CmdBeacon
  BY <1>9 DEF CmdBeacon, AwakeInv
<1>10. CASE CmdBmcSleepq
  BY <1>10 DEF CmdBmcSleepq, AwakeInv
<1>11. CASE CmdHiQueue
  BY <1>11 DEF CmdHiQueue, AwakeInv
<1>12. CASE CmdBmcMoves
  BY <1>12, <1>a, <1>q, Sets DEF CmdBmcMoves, AwakeInv
<1>13. CASE CmdHiQueueClears
  BY <1>13 DEF CmdHiQueueClears, AwakeInv
<1>14. CASE CmdTells
  BY <1>14 DEF CmdTells, AwakeInv
<1>15. CASE \E s \in Stas : Doze(s)
  <2>0. PICK s \in Stas : Doze(s)
    BY <1>15
  <2> SUFFICES ASSUME NEW t \in Stas, ~sta'[t].sleep
               PROVE  q'[t].slp = None
    BY DEF AwakeInv
  <2>1. t # s /\ q[t].slp = None
    BY <2>0, <1>a, <1>s DEF Doze, StaStates
  <2> QED
    BY <2>0, <2>1, <1>q, DozeQueues, Sets
<1>16. CASE \E s \in Stas : Wake(s)
  <2>0. PICK s \in Stas : Wake(s)
    BY <1>16
  <2>w. WakeupStaToXmit(s)
    BY <2>0 DEF Wake
  <2> SUFFICES ASSUME NEW t \in Stas, ~sta'[t].sleep
               PROVE  q'[t].slp = None
    BY DEF AwakeInv
  <2>1. CASE t = s
    BY <2>w, <2>1, WakeQueues, DrainedAgrees, Sets, <1>q
  <2>2. CASE t # s
    <3>1. sta'[t] = sta[t]
      BY <2>w, <2>2, <1>s DEF WakeupStaToXmit
    <3>2. q'[t] = q[t]
      BY <2>w, <2>2, WakeQueues, Sets
    <3> QED
      BY <3>1, <3>2, <1>a
  <2> QED
    BY <2>1, <2>2
<1>17. CASE \E s \in Stas : Trigger(s)
  <2>0. PICK s \in Stas : Trigger(s)
    BY <1>17
  <2> SUFFICES ASSUME NEW t \in Stas, ~sta'[t].sleep
               PROVE  q'[t].slp = None
    BY DEF AwakeInv
  <2>1. t # s /\ q[t].slp = None
    BY <2>0, <1>a, <1>s DEF Trigger, Polled, StaStates
  <2> QED
    BY <2>0, <2>1, <1>q, TriggerQueue, Sets
<1>18. CASE \E s \in Stas : PollFetch(s)
  <2>0. PICK s \in Stas : PollFetch(s)
    BY <1>18
  <2> SUFFICES ASSUME NEW t \in Stas, ~sta'[t].sleep
               PROVE  q'[t].slp = None
    BY DEF AwakeInv
  <2>1. t # s /\ q[t].slp = None
    BY <2>0, <1>a, <1>s DEF PollFetch, Polled, StaStates
  <2> QED
    BY <2>0, <2>1, <1>q, FetchQueue, Sets
<1>19. CASE \E s \in Stas : PollFindsNone(s)
  <2>0. PICK s \in Stas : PollFindsNone(s)
    BY <1>19
  <2> SUFFICES ASSUME NEW t \in Stas, ~sta'[t].sleep
               PROVE  q'[t].slp = None
    BY DEF AwakeInv
  <2>1. ~sta[t].sleep
    BY <2>0, <1>s DEF PollFindsNone, Polled, StaStates, Gone
  <2> QED
    BY <2>0, <2>1, <1>a DEF PollFindsNone
<1>20. CASE \E s \in Stas : CmdExpires(s)
  <2>0. PICK s \in Stas : CmdExpires(s)
    BY <1>20
  <2> SUFFICES ASSUME NEW t \in Stas, ~sta'[t].sleep
               PROVE  q'[t].slp = None
    BY DEF AwakeInv
  <2>1. ~sta[t].sleep
    BY <2>0, <1>s DEF CmdExpires, Polled, StaStates, Gone
  <2> QED
    BY <2>0, <2>1, <1>a DEF CmdExpires
<1>21. CASE \E s \in Stas : CmdDigest(s)
  <2>0. PICK s \in Stas : CmdDigest(s)
    BY <1>21
  <2>w. WakeupStaToXmit(s)
    BY <2>0 DEF CmdDigest
  <2> SUFFICES ASSUME NEW t \in Stas, ~sta'[t].sleep
               PROVE  q'[t].slp = None
    BY DEF AwakeInv
  <2>1. CASE t = s
    BY <2>w, <2>1, WakeQueues, DrainedAgrees, Sets, <1>q
  <2>2. CASE t # s
    <3>1. sta'[t] = sta[t]
      BY <2>w, <2>2, <1>s DEF WakeupStaToXmit
    <3>2. q'[t] = q[t]
      BY <2>w, <2>2, WakeQueues, Sets
    <3> QED
      BY <3>1, <3>2, <1>a
  <2> QED
    BY <2>1, <2>2
<1>22. CASE \E s \in Stas : Assoc(s)
  <2>0. PICK s \in Stas : Assoc(s)
    BY <1>22
  <2> SUFFICES ASSUME NEW t \in Stas, ~sta'[t].sleep
               PROVE  q'[t].slp = None
    BY DEF AwakeInv
  <2>1. CASE t = s
    BY <2>0, <2>1 DEF Assoc, ApartInv, Found, Empty
  <2>2. CASE t # s
    BY <2>0, <2>2, <1>a, <1>s DEF Assoc
  <2> QED
    BY <2>1, <2>2
<1>23. CASE \E s \in Stas : Leave(s)
  <2>0. PICK s \in Stas : Leave(s)
    BY <1>23
  <2> SUFFICES ASSUME NEW t \in Stas, ~sta'[t].sleep
               PROVE  q'[t].slp = None
    BY DEF AwakeInv
  <2>1. ~sta[t].sleep
    BY <2>0, <1>s DEF Leave, Polled, StaStates, Gone
  <2> QED
    BY <2>0, <2>1, <1>a DEF Leave
<1>24. CASE \E s \in Stas : FreeSta(s)
  <2>0. PICK s \in Stas : FreeSta(s)
    BY <1>24
  <2> SUFFICES ASSUME NEW t \in Stas, ~sta'[t].sleep
               PROVE  q'[t].slp = None
    BY DEF AwakeInv
  <2>1. CASE t = s
    BY <2>0, <2>1, <1>q, Sets DEF FreeSta, Empty
  <2>2. CASE t # s
    BY <2>0, <2>2, <1>a, <1>s, <1>q, Sets DEF FreeSta
  <2> QED
    BY <2>1, <2>2
<1>25. CASE UNCHANGED vars
  BY <1>25 DEF vars, AwakeInv
<1>26. CASE CmdBeaconFails
  BY <1>26 DEF CmdBeaconFails, AwakeInv
<1> QED
  BY <1>1, <1>2, <1>3, <1>4, <1>5, <1>6, <1>7, <1>8, <1>9, <1>10, <1>11, <1>12, <1>13, <1>14, <1>15, <1>16, <1>17, <1>18, <1>19, <1>20, <1>21, <1>22, <1>23, <1>24, <1>25, <1>26
     DEF Next, Sender, RxEnds, CmdEnds, Rx

-----------------------------------------------------------------------------
(* The bits and the element.                                                 *)

\* A frame its station has to be told of has its bit.
LEMMA BitInvStep == TypeOK /\ RxInv /\ AccInv /\ AwakeInv /\ BitInv /\ [Next]_vars => BitInv'
<1> SUFFICES ASSUME TypeOK, RxInv, AccInv, AwakeInv, BitInv, [Next]_vars
             PROVE  BitInv'
  OBVIOUS
<1>q. q \in [Dests -> QueueStates] /\ \A d \in Dests : q[d] \in QueueStates
  BY DEF TypeOK
<1>b. bits \in BitStates
  BY DEF TypeOK
<1>s. sta \in [Stas -> StaStates] /\ \A t \in Stas : sta[t] \in StaStates
  BY DEF TypeOK
<1>c. \A t \in Stas, c \in Acs :
        /\ t \notin bits.raced /\ sta[t].pc = "linked" /\ sta[t].sleep
        /\ q[t].slp[c] > 0 /\ SetsTim(t, c)
        => Aid[t] \in bits.tim
  BY Sets DEF BitInv, Linked
<1>d. \A t \in Stas : t \in Dests /\ t # Bmc /\ Aid[t] # 0
  BY Sets, Aids
<1>1. CASE \E d \in Dests, a \in Acs : Send(d, a)
  <2>0. PICK d \in Dests, a \in Acs : Send(d, a)
    BY <1>1
  <2> SUFFICES ASSUME NEW t \in Stas, NEW c \in Acs, t \notin bits'.raced, sta'[t].pc = "linked",
                      sta'[t].sleep, q'[t].slp[c] > 0, SetsTim(t, c)
               PROVE  Aid[t] \in bits'.tim
    BY Sets DEF BitInv, Linked, SetsTim, HasLegacy
  <2> QED
    BY <2>0, <1>c DEF Send
<1>2. CASE \E d \in Dests, a \in Acs : Transmit(d, a)
  <2>0. PICK d \in Dests, a \in Acs : Transmit(d, a)
    BY <1>2
  <2> SUFFICES ASSUME NEW t \in Stas, NEW c \in Acs, t \notin bits'.raced, sta'[t].pc = "linked",
                      sta'[t].sleep, q'[t].slp[c] > 0, SetsTim(t, c)
               PROVE  Aid[t] \in bits'.tim
    BY Sets DEF BitInv, Linked, SetsTim, HasLegacy
  <2>1. q'[t].slp = q[t].slp
    BY <2>0, <1>q, <1>d DEF Transmit, QueueStates
  <2> QED
    BY <2>0, <2>1, <1>c DEF Transmit
<1>3. CASE EnqueueForSleepingSta
  <2> SUFFICES ASSUME NEW t \in Stas, NEW c \in Acs, t \notin bits'.raced, sta'[t].pc = "linked",
                      sta'[t].sleep, q'[t].slp[c] > 0, SetsTim(t, c)
               PROVE  Aid[t] \in bits'.tim
    BY Sets DEF BitInv, Linked, SetsTim, HasLegacy
  <2> DEFINE d == tx.to
             own == IF SetsTim(d, tx.ac) THEN {AidOf(d)} ELSE {}
  <2>0. tx.to \in Dests /\ tx.ac \in Acs
    BY DEF TypeOK, TxStates
  <2>1. bits'.tim = bits.tim \cup own /\ (t \in bits.raced => t \in bits'.raced)
    BY <1>3, <1>b, <1>d DEF EnqueueForSleepingSta, BitStates
  <2>2. CASE t # d
    BY <1>3, <2>0, <2>1, <2>2, <1>q, <1>c DEF EnqueueForSleepingSta
  <2>3. CASE t = d
    <3>1. q'[t].slp = Plus(q[t].slp, Only(tx.ac, 1))
      BY <1>3, <2>0, <2>3, <1>q, OnlyCounts, PutAgrees DEF EnqueueForSleepingSta
    <3>2. AidOf(t) = Aid[t]
      BY <1>3, <2>3, <1>d, Aids DEF EnqueueForSleepingSta, Buffers, Linked, Found
    <3>3. CASE c = tx.ac
      BY <2>1, <2>3, <3>2, <3>3
    <3>4. CASE c # tx.ac
      <4>1. q'[t].slp[c] = q[t].slp[c] + 0
        BY <3>1, <3>4 DEF Plus, Only, None
      <4>2. q[t].slp[c] \in Nat
        BY <1>q, <1>d DEF QueueStates, Counts
      <4> QED
        BY <1>3, <2>1, <4>1, <4>2, <1>c DEF EnqueueForSleepingSta
    <3> QED
      BY <3>3, <3>4
  <2> QED
    BY <2>2, <2>3
<1>4. CASE NotForSleepingSta
  <2> SUFFICES ASSUME NEW t \in Stas, NEW c \in Acs, t \notin bits'.raced, sta'[t].pc = "linked",
                      sta'[t].sleep, q'[t].slp[c] > 0, SetsTim(t, c)
               PROVE  Aid[t] \in bits'.tim
    BY Sets DEF BitInv, Linked, SetsTim, HasLegacy
  <2> QED
    BY <1>4, <1>c DEF NotForSleepingSta
<1>5. CASE PreXmit
  <2> SUFFICES ASSUME NEW t \in Stas, NEW c \in Acs, t \notin bits'.raced, sta'[t].pc = "linked",
                      sta'[t].sleep, q'[t].slp[c] > 0, SetsTim(t, c)
               PROVE  Aid[t] \in bits'.tim
    BY Sets DEF BitInv, Linked, SetsTim, HasLegacy
  <2>1. q'[t].slp = q[t].slp
    BY <1>5, <1>q, <1>d DEF PreXmit, QueueStates
  <2> QED
    BY <1>5, <2>1, <1>c DEF PreXmit
<1>6. CASE WakeTells
  <2> SUFFICES ASSUME NEW t \in Stas, NEW c \in Acs, t \notin bits'.raced, sta'[t].pc = "linked",
                      sta'[t].sleep, q'[t].slp[c] > 0, SetsTim(t, c)
               PROVE  Aid[t] \in bits'.tim
    BY Sets DEF BitInv, Linked, SetsTim, HasLegacy
  <2>1. Aid[t] \in bits.tim /\ bits.tim \ {0} \subseteq bits'.tim
    BY <1>6, <1>b, <1>c DEF WakeTells, ClearsGroupBit, BitStates
  <2> QED
    BY <2>1, <1>d
<1>7. CASE PollEmpty
  <2> SUFFICES ASSUME NEW t \in Stas, NEW c \in Acs, t \notin bits'.raced, sta'[t].pc = "linked",
                      sta'[t].sleep, q'[t].slp[c] > 0, SetsTim(t, c)
               PROVE  Aid[t] \in bits'.tim
    BY Sets DEF BitInv, Linked, SetsTim, HasLegacy
  <2>0. rx.sta \in Stas
    BY <1>7 DEF PollEmpty, RxInv
  <2>1. q'[t].slp = q[t].slp
    BY <1>7, <1>q, <1>d DEF PollEmpty, QueueStates
  <2>2. /\ bits'.tim = bits.tim \ {AidOf(rx.sta)} /\ (t \in bits.raced => t \in bits'.raced)
        /\ AidOf(rx.sta) \in bits.tim /\ q[rx.sta].slp # None => rx.sta \in bits'.raced
    BY <1>7, <1>b DEF PollEmpty, BitStates
  <2>3. Aid[t] \in bits.tim
    BY <1>7, <2>1, <2>2, <1>c DEF PollEmpty
  <2>4. CASE t = rx.sta
    <3>1. q[t].slp # None
      BY <2>1 DEF None
    <3> QED
      BY <2>2, <2>3, <2>4, <3>1
  <2>5. CASE t # rx.sta
    BY <2>0, <2>2, <2>3, <2>5, <1>d, Aids
  <2> QED
    BY <2>4, <2>5
<1>8. CASE AuthExpires
  <2> SUFFICES ASSUME NEW t \in Stas, NEW c \in Acs, t \notin bits'.raced, sta'[t].pc = "linked",
                      sta'[t].sleep, q'[t].slp[c] > 0, SetsTim(t, c)
               PROVE  Aid[t] \in bits'.tim
    BY Sets DEF BitInv, Linked, SetsTim, HasLegacy
  <2>1. Aid[t] \in bits.tim /\ bits.tim \ {0} \subseteq bits'.tim
    BY <1>8, <1>b, <1>c DEF AuthExpires, ClearsGroupBit, BitStates
  <2> QED
    BY <2>1, <1>d
<1>9. CASE CmdBeacon
  <2> SUFFICES ASSUME NEW t \in Stas, NEW c \in Acs, t \notin bits'.raced, sta'[t].pc = "linked",
                      sta'[t].sleep, q'[t].slp[c] > 0, SetsTim(t, c)
               PROVE  Aid[t] \in bits'.tim
    BY Sets DEF BitInv, Linked, SetsTim, HasLegacy
  <2> QED
    BY <1>9, <1>c DEF CmdBeacon
<1>10. CASE CmdBmcSleepq
  <2> SUFFICES ASSUME NEW t \in Stas, NEW c \in Acs, t \notin bits'.raced, sta'[t].pc = "linked",
                      sta'[t].sleep, q'[t].slp[c] > 0, SetsTim(t, c)
               PROVE  Aid[t] \in bits'.tim
    BY Sets DEF BitInv, Linked, SetsTim, HasLegacy
  <2> QED
    BY <1>10, <1>c DEF CmdBmcSleepq
<1>11. CASE CmdHiQueue
  <2> SUFFICES ASSUME NEW t \in Stas, NEW c \in Acs, t \notin bits'.raced, sta'[t].pc = "linked",
                      sta'[t].sleep, q'[t].slp[c] > 0, SetsTim(t, c)
               PROVE  Aid[t] \in bits'.tim
    BY Sets DEF BitInv, Linked, SetsTim, HasLegacy
  <2> QED
    BY <1>11, <1>c DEF CmdHiQueue
<1>12. CASE CmdBmcMoves
  <2> SUFFICES ASSUME NEW t \in Stas, NEW c \in Acs, t \notin bits'.raced, sta'[t].pc = "linked",
                      sta'[t].sleep, q'[t].slp[c] > 0, SetsTim(t, c)
               PROVE  Aid[t] \in bits'.tim
    BY Sets DEF BitInv, Linked, SetsTim, HasLegacy
  <2> QED
    BY <1>12, <1>c, <1>d, <1>q DEF CmdBmcMoves
<1>13. CASE CmdHiQueueClears
  <2> SUFFICES ASSUME NEW t \in Stas, NEW c \in Acs, t \notin bits'.raced, sta'[t].pc = "linked",
                      sta'[t].sleep, q'[t].slp[c] > 0, SetsTim(t, c)
               PROVE  Aid[t] \in bits'.tim
    BY Sets DEF BitInv, Linked, SetsTim, HasLegacy
  <2>1. Aid[t] \in bits.tim /\ bits.tim \ {0} \subseteq bits'.tim
    BY <1>13, <1>b, <1>c DEF CmdHiQueueClears, ClearsGroupBit, BitStates
  <2> QED
    BY <2>1, <1>d
<1>14. CASE CmdTells
  <2> SUFFICES ASSUME NEW t \in Stas, NEW c \in Acs, t \notin bits'.raced, sta'[t].pc = "linked",
                      sta'[t].sleep, q'[t].slp[c] > 0, SetsTim(t, c)
               PROVE  Aid[t] \in bits'.tim
    BY Sets DEF BitInv, Linked, SetsTim, HasLegacy
  <2>1. Aid[t] \in bits.tim /\ bits.tim \ {0} \subseteq bits'.tim
    BY <1>14, <1>b, <1>c DEF CmdTells, ClearsGroupBit, BitStates
  <2> QED
    BY <2>1, <1>d
<1>15. CASE \E s \in Stas : Doze(s)
  <2>0. PICK s \in Stas : Doze(s)
    BY <1>15
  <2> SUFFICES ASSUME NEW t \in Stas, NEW c \in Acs, t \notin bits'.raced, sta'[t].pc = "linked",
                      sta'[t].sleep, q'[t].slp[c] > 0, SetsTim(t, c)
               PROVE  Aid[t] \in bits'.tim
    BY Sets DEF BitInv, Linked, SetsTim, HasLegacy
  <2>1. bits.tim \subseteq bits'.tim /\ (t \in bits.raced => t \in bits'.raced)
    BY <2>0, <1>b, <1>d DEF Doze, BitStates
  <2>2. CASE t # s
    <3>1. q'[t] = q[t] /\ sta'[t] = sta[t]
      BY <2>0, <2>2, <1>q, <1>s, <1>d, DozeQueues DEF Doze
    <3> QED
      BY <2>1, <3>1, <1>c
  <2>3. CASE t = s
    <3> DEFINE mine == IF Linked(s) THEN q[s].pend ELSE None
    <3>1. q[s].slp = None
      BY <2>0 DEF Doze, AwakeInv
    <3>2. mine \in Counts
      BY <1>q, <1>d, NoneCounts DEF QueueStates
    <3>3. q'[t].slp = Plus(None, mine)
      BY <2>0, <2>3, <3>1, DozeQueues
    <3>4. q'[t].slp[c] = 0 + mine[c]
      BY <3>3 DEF Plus, None
    <3>5. mine[c] > 0
      BY <3>2, <3>4 DEF Counts
    <3>6. Aid[s] \in bits'.tim
      BY <2>0, <2>3, <3>5, <1>b DEF Doze, BitStates
    <3> QED
      BY <2>3, <3>6
  <2> QED
    BY <2>2, <2>3
<1>16. CASE \E s \in Stas : Wake(s)
  <2>0. PICK s \in Stas : Wake(s)
    BY <1>16
  <2>w. WakeupStaToXmit(s)
    BY <2>0 DEF Wake
  <2> SUFFICES ASSUME NEW t \in Stas, NEW c \in Acs, t \notin bits'.raced, sta'[t].pc = "linked",
                      sta'[t].sleep, q'[t].slp[c] > 0, SetsTim(t, c)
               PROVE  Aid[t] \in bits'.tim
    BY Sets DEF BitInv, Linked, SetsTim, HasLegacy
  <2>1. CASE t = s
    BY <2>w, <2>1, <1>q, <1>d, WakeQueues, DrainedAgrees DEF None
  <2>2. CASE t # s
    <3>1. q'[t] = q[t] /\ (t \in bits.raced => t \in bits'.raced)
      BY <2>w, <2>2, <1>d, WakeQueues
    <3>2. sta'[t] = sta[t]
      BY <2>w, <2>2, <1>s DEF WakeupStaToXmit
    <3>3. bits.tim \ {AidOf(s), 0} \subseteq bits'.tim
      BY <2>w, WakeQueues DEF Awake
    <3> QED
      BY <2>2, <3>1, <3>2, <3>3, <1>c, <1>d, Aids
  <2> QED
    BY <2>1, <2>2
<1>17. CASE \E s \in Stas : Trigger(s)
  <2>0. PICK s \in Stas : Trigger(s)
    BY <1>17
  <2> SUFFICES ASSUME NEW t \in Stas, NEW c \in Acs, t \notin bits'.raced, sta'[t].pc = "linked",
                      sta'[t].sleep, q'[t].slp[c] > 0, SetsTim(t, c)
               PROVE  Aid[t] \in bits'.tim
    BY Sets DEF BitInv, Linked, SetsTim, HasLegacy
  <2>1. bits'.raced = bits.raced /\ bits.tim \ {Aid[s]} \subseteq bits'.tim /\ sta' = sta
    BY <2>0, <1>b DEF Trigger, BitStates
  <2>2. CASE t # s
    <3>1. q'[t] = q[t]
      BY <2>0, <2>2, <1>q, <1>d, TriggerQueue
    <3> QED
      BY <2>1, <2>2, <3>1, <1>c, Aids
  <2>3. CASE t = s
    <3>1. CASE q[s].aclen > 0
      <4>1. q'[s].slp[c] = IF c \in Uapsd[s] THEN 0 ELSE q[s].slp[c]
        BY <2>0, <3>1, TriggerQueue
      <4>2. c \notin Uapsd[s] /\ q[s].slp[c] > 0
        BY <2>3, <4>1
      <4>3. HasLegacy(s)
        BY <4>2 DEF HasLegacy
      <4>4. bits'.tim = bits.tim
        BY <2>0, <3>1, <4>3, <1>b DEF Trigger, BitStates
      <4> QED
        BY <2>1, <2>3, <4>2, <4>4, <1>c
    <3>2. CASE ~ (q[s].aclen > 0)
      <4>1. q'[s] = q[s] /\ bits' = bits
        BY <2>0, <3>2, TriggerQueue DEF Trigger
      <4> QED
        BY <2>1, <2>3, <4>1, <1>c
    <3> QED
      BY <3>1, <3>2
  <2> QED
    BY <2>2, <2>3
<1>18. CASE \E s \in Stas : PollFetch(s)
  <2>0. PICK s \in Stas : PollFetch(s)
    BY <1>18
  <2> SUFFICES ASSUME NEW t \in Stas, NEW c \in Acs, t \notin bits'.raced, sta'[t].pc = "linked",
                      sta'[t].sleep, q'[t].slp[c] > 0, SetsTim(t, c)
               PROVE  Aid[t] \in bits'.tim
    BY Sets DEF BitInv, Linked, SetsTim, HasLegacy
  <2>1. bits'.raced = bits.raced /\ bits.tim \ {Aid[s]} \subseteq bits'.tim
    BY <2>0, <1>b DEF PollFetch, BitStates
  <2>2. sta'[t].pc = sta[t].pc /\ sta'[t].sleep = sta[t].sleep
    BY <2>0, <1>s DEF PollFetch, Polled, StaStates
  <2>3. CASE t # s
    <3>1. q'[t] = q[t]
      BY <2>0, <2>3, <1>q, <1>d, FetchQueue
    <3> QED
      BY <2>1, <2>2, <2>3, <3>1, <1>c, Aids
  <2>4. CASE t = s
    <3>1. Agrees(q[s], Uapsd[s])
      BY <2>1, <2>4, <1>d, Sets DEF AccInv
    <3>2. q[s].len # 1
      BY <2>0, <2>4, <3>1, FetchQueue
    <3>3. bits'.tim = bits.tim
      BY <2>0, <3>2, <1>b DEF PollFetch, BitStates
    <3>4. q[s].slp[c] > 0
      <4>1. q[s].slp[c] \in Nat /\ q'[s].slp[c] \in Nat /\ q'[s].slp[c] \leq q[s].slp[c]
        BY <2>0, <1>q, <1>d, FetchQueue DEF QueueStates, Counts
      <4> QED
        BY <2>4, <4>1
    <3> QED
      BY <2>1, <2>2, <2>4, <3>3, <3>4, <1>c
  <2> QED
    BY <2>3, <2>4
<1>19. CASE \E s \in Stas : PollFindsNone(s)
  <2>0. PICK s \in Stas : PollFindsNone(s)
    BY <1>19
  <2> SUFFICES ASSUME NEW t \in Stas, NEW c \in Acs, t \notin bits'.raced, sta'[t].pc = "linked",
                      sta'[t].sleep, q'[t].slp[c] > 0, SetsTim(t, c)
               PROVE  Aid[t] \in bits'.tim
    BY Sets DEF BitInv, Linked, SetsTim, HasLegacy
  <2>1. sta[t].pc = "linked" /\ sta[t].sleep /\ q' = q
    BY <2>0, <1>s DEF PollFindsNone, Polled, StaStates, Gone
  <2>2. bits.tim \subseteq bits'.tim /\ bits'.raced = bits.raced
    BY <2>0, <1>b DEF PollFindsNone, BitStates
  <2> QED
    BY <2>1, <2>2, <1>c
<1>20. CASE \E s \in Stas : CmdExpires(s)
  <2>0. PICK s \in Stas : CmdExpires(s)
    BY <1>20
  <2> SUFFICES ASSUME NEW t \in Stas, NEW c \in Acs, t \notin bits'.raced, sta'[t].pc = "linked",
                      sta'[t].sleep, q'[t].slp[c] > 0, SetsTim(t, c)
               PROVE  Aid[t] \in bits'.tim
    BY Sets DEF BitInv, Linked, SetsTim, HasLegacy
  <2>1. sta[t].pc = "linked" /\ sta[t].sleep /\ q' = q
    BY <2>0, <1>s DEF CmdExpires, Polled, StaStates, Gone
  <2>2. bits.tim \subseteq bits'.tim /\ bits'.raced = bits.raced
    BY <2>0, <1>b DEF CmdExpires, BitStates
  <2> QED
    BY <2>1, <2>2, <1>c
<1>21. CASE \E s \in Stas : CmdDigest(s)
  <2>0. PICK s \in Stas : CmdDigest(s)
    BY <1>21
  <2>w. WakeupStaToXmit(s)
    BY <2>0 DEF CmdDigest
  <2> SUFFICES ASSUME NEW t \in Stas, NEW c \in Acs, t \notin bits'.raced, sta'[t].pc = "linked",
                      sta'[t].sleep, q'[t].slp[c] > 0, SetsTim(t, c)
               PROVE  Aid[t] \in bits'.tim
    BY Sets DEF BitInv, Linked, SetsTim, HasLegacy
  <2>1. CASE t = s
    BY <2>w, <2>1, <1>q, <1>d, WakeQueues, DrainedAgrees DEF None
  <2>2. CASE t # s
    <3>1. q'[t] = q[t] /\ (t \in bits.raced => t \in bits'.raced)
      BY <2>w, <2>2, <1>d, WakeQueues
    <3>2. sta'[t] = sta[t]
      BY <2>w, <2>2, <1>s DEF WakeupStaToXmit
    <3>3. bits.tim \ {AidOf(s), 0} \subseteq bits'.tim
      BY <2>w, WakeQueues DEF Awake
    <3> QED
      BY <2>2, <3>1, <3>2, <3>3, <1>c, <1>d, Aids
  <2> QED
    BY <2>1, <2>2
<1>22. CASE \E s \in Stas : Assoc(s)
  <2>0. PICK s \in Stas : Assoc(s)
    BY <1>22
  <2> SUFFICES ASSUME NEW t \in Stas, NEW c \in Acs, t \notin bits'.raced, sta'[t].pc = "linked",
                      sta'[t].sleep, q'[t].slp[c] > 0, SetsTim(t, c)
               PROVE  Aid[t] \in bits'.tim
    BY Sets DEF BitInv, Linked, SetsTim, HasLegacy
  <2>1. sta[t].pc = "linked" /\ sta[t].sleep /\ q' = q
    BY <2>0, <1>s DEF Assoc, Polled, StaStates, Gone
  <2>2. bits.tim \subseteq bits'.tim /\ bits'.raced = bits.raced
    BY <2>0, <1>b DEF Assoc, BitStates
  <2> QED
    BY <2>1, <2>2, <1>c
<1>23. CASE \E s \in Stas : Leave(s)
  <2>0. PICK s \in Stas : Leave(s)
    BY <1>23
  <2> SUFFICES ASSUME NEW t \in Stas, NEW c \in Acs, t \notin bits'.raced, sta'[t].pc = "linked",
                      sta'[t].sleep, q'[t].slp[c] > 0, SetsTim(t, c)
               PROVE  Aid[t] \in bits'.tim
    BY Sets DEF BitInv, Linked, SetsTim, HasLegacy
  <2>1. sta[t].pc = "linked" /\ sta[t].sleep /\ q' = q
    BY <2>0, <1>s DEF Leave, Polled, StaStates, Gone
  <2>2. bits.tim \subseteq bits'.tim /\ bits'.raced = bits.raced
    BY <2>0, <1>b DEF Leave, BitStates
  <2> QED
    BY <2>1, <2>2, <1>c
<1>24. CASE \E s \in Stas : FreeSta(s)
  <2>0. PICK s \in Stas : FreeSta(s)
    BY <1>24
  <2> SUFFICES ASSUME NEW t \in Stas, NEW c \in Acs, t \notin bits'.raced, sta'[t].pc = "linked",
                      sta'[t].sleep, q'[t].slp[c] > 0, SetsTim(t, c)
               PROVE  Aid[t] \in bits'.tim
    BY Sets DEF BitInv, Linked, SetsTim, HasLegacy
  <2>1. t # s
    BY <2>0, <1>s DEF FreeSta, Gone
  <2>2. q'[t] = q[t] /\ sta'[t] = sta[t] /\ (t \in bits.raced => t \in bits'.raced)
        /\ bits'.tim = bits.tim \ {Aid[s]}
    BY <2>0, <2>1, <1>q, <1>s, <1>b, <1>d DEF FreeSta, BitStates
  <2> QED
    BY <2>1, <2>2, <1>c, Aids
<1>25. CASE UNCHANGED vars
  <2> SUFFICES ASSUME NEW t \in Stas, NEW c \in Acs, t \notin bits'.raced, sta'[t].pc = "linked",
                      sta'[t].sleep, q'[t].slp[c] > 0, SetsTim(t, c)
               PROVE  Aid[t] \in bits'.tim
    BY Sets DEF BitInv, Linked, SetsTim, HasLegacy
  <2> QED
    BY <1>25, <1>c DEF vars
<1>26. CASE CmdBeaconFails
  <2> SUFFICES ASSUME NEW t \in Stas, NEW c \in Acs, t \notin bits'.raced, sta'[t].pc = "linked",
                      sta'[t].sleep, q'[t].slp[c] > 0, SetsTim(t, c)
               PROVE  Aid[t] \in bits'.tim
    BY Sets DEF BitInv, Linked, SetsTim, HasLegacy
  <2> QED
    BY <1>26, <1>c DEF CmdBeaconFails
<1> QED
  BY <1>1, <1>2, <1>3, <1>4, <1>5, <1>6, <1>7, <1>8, <1>9, <1>10, <1>11, <1>12, <1>13, <1>14, <1>15, <1>16, <1>17, <1>18, <1>19, <1>20, <1>21, <1>22, <1>23, <1>24, <1>25, <1>26
     DEF Next, Sender, RxEnds, CmdEnds, Rx

LEMMA NamedNow ==
    ASSUME NEW tim \in SUBSET (0 .. 15), NEW i \in tim, i # 0
    PROVE  i \in TimIe(tim) \/ (i >= 8 /\ tim \cap (1 .. 7) = {})
BY DEF TimIe

\* The element is made again, or the bits only shrink under it, or somebody on his
\* way out will make it.
LEMMA ToldKept ==
    ASSUME ToldInv, bits'.tim \in SUBSET (0 .. 15),
           \/ bits'.ie = TimIe(bits'.tim)
           \/ rx'.pc = "tell" \/ cmd'.pc = "tell"
           \/ /\ bits'.tim \subseteq bits.tim /\ bits'.ie = bits.ie
              /\ rx.pc = "tell" => rx'.pc = "tell"
              /\ cmd.pc = "tell" => cmd'.pc = "tell"
    PROVE  ToldInv'
<1>1. CASE bits'.ie = TimIe(bits'.tim)
  <2> SUFFICES ASSUME NEW i \in bits'.tim, i # 0
               PROVE  i \in bits'.ie \/ (i >= 8 /\ bits'.tim \cap (1 .. 7) = {})
    BY DEF ToldInv, Named
  <2> QED
    BY <1>1, NamedNow
<1>2. CASE rx'.pc = "tell" \/ cmd'.pc = "tell"
  BY <1>2 DEF ToldInv, Telling
<1>3. CASE /\ bits'.tim \subseteq bits.tim /\ bits'.ie = bits.ie
           /\ rx.pc = "tell" => rx'.pc = "tell"
           /\ cmd.pc = "tell" => cmd'.pc = "tell"
  BY <1>3 DEF ToldInv, Named, Telling
<1> QED
  BY <1>1, <1>2, <1>3

\* The element names every bit, or will soon.
LEMMA ToldInvStep == TypeOK /\ TypeOK' /\ ToldInv /\ [Next]_vars => ToldInv'
<1> SUFFICES ASSUME TypeOK, TypeOK', ToldInv, [Next]_vars
             PROVE  ToldInv'
  OBVIOUS
<1>b. bits \in BitStates
  BY DEF TypeOK
<1>r. rx \in RxStates /\ cmd \in CmdStates
  BY DEF TypeOK
<1>t. bits'.tim \in SUBSET (0 .. 15)
  BY DEF TypeOK, BitStates
<1>1. CASE \E d \in Dests, a \in Acs : Send(d, a)
  <2>0. PICK d \in Dests, a \in Acs : Send(d, a)
    BY <1>1
  <2>1. bits' = bits
    BY <2>0 DEF Send
  <2>2. (rx.pc = "tell" => rx'.pc = "tell") /\ (cmd.pc = "tell" => cmd'.pc = "tell")
    BY <2>0, <1>r DEF Send, RxStates, RxIdle, CmdStates
  <2> QED
    BY <2>1, <2>2, <1>t, ToldKept
<1>2. CASE \E d \in Dests, a \in Acs : Transmit(d, a)
  <2>0. PICK d \in Dests, a \in Acs : Transmit(d, a)
    BY <1>2
  <2>1. bits' = bits
    BY <2>0 DEF Transmit
  <2>2. (rx.pc = "tell" => rx'.pc = "tell") /\ (cmd.pc = "tell" => cmd'.pc = "tell")
    BY <2>0, <1>r DEF Transmit, RxStates, RxIdle, CmdStates
  <2> QED
    BY <2>1, <2>2, <1>t, ToldKept
<1>3. CASE EnqueueForSleepingSta
  <2>1. \/ bits'.ie = TimIe(bits'.tim)
        \/ bits'.tim \subseteq bits.tim /\ bits'.ie = bits.ie
    BY <1>3, <1>b DEF EnqueueForSleepingSta, Beacon, BitStates
  <2>2. (rx.pc = "tell" => rx'.pc = "tell") /\ (cmd.pc = "tell" => cmd'.pc = "tell")
    BY <1>3, <1>r DEF EnqueueForSleepingSta, RxStates, RxIdle, CmdStates
  <2> QED
    BY <2>1, <2>2, <1>t, ToldKept
<1>4. CASE NotForSleepingSta
  <2>1. bits' = bits
    BY <1>4 DEF NotForSleepingSta
  <2>2. (rx.pc = "tell" => rx'.pc = "tell") /\ (cmd.pc = "tell" => cmd'.pc = "tell")
    BY <1>4, <1>r DEF NotForSleepingSta, RxStates, RxIdle, CmdStates
  <2> QED
    BY <2>1, <2>2, <1>t, ToldKept
<1>5. CASE PreXmit
  <2>1. bits' = bits
    BY <1>5 DEF PreXmit
  <2>2. (rx.pc = "tell" => rx'.pc = "tell") /\ (cmd.pc = "tell" => cmd'.pc = "tell")
    BY <1>5, <1>r DEF PreXmit, RxStates, RxIdle, CmdStates
  <2> QED
    BY <2>1, <2>2, <1>t, ToldKept
<1>6. CASE WakeTells
  <2>1. bits'.ie = TimIe(bits'.tim)
    BY <1>6, <1>b DEF WakeTells, BitStates
  <2> QED
    BY <2>1, <1>t, ToldKept
<1>7. CASE PollEmpty
  <2>1. \/ bits'.ie = TimIe(bits'.tim)
        \/ bits'.tim \subseteq bits.tim /\ bits'.ie = bits.ie
    BY <1>7, <1>b DEF PollEmpty, Beacon, BitStates
  <2>2. (rx.pc = "tell" => rx'.pc = "tell") /\ (cmd.pc = "tell" => cmd'.pc = "tell")
    BY <1>7, <1>r DEF PollEmpty, RxStates, RxIdle, CmdStates
  <2> QED
    BY <2>1, <2>2, <1>t, ToldKept
<1>8. CASE AuthExpires
  <2>1. \/ bits'.ie = TimIe(bits'.tim)
        \/ bits'.tim \subseteq bits.tim /\ bits'.ie = bits.ie
    BY <1>8, <1>b DEF AuthExpires, ClearsGroupBit, Beacon, BitStates
  <2>2. (rx.pc = "tell" => rx'.pc = "tell") /\ (cmd.pc = "tell" => cmd'.pc = "tell")
    BY <1>8, <1>r DEF AuthExpires, ClearsGroupBit, RxStates, RxIdle, CmdStates
  <2> QED
    BY <2>1, <2>2, <1>t, ToldKept
<1>9. CASE CmdBeacon
  <2>1. bits' = bits
    BY <1>9 DEF CmdBeacon
  <2>2. (rx.pc = "tell" => rx'.pc = "tell") /\ (cmd.pc = "tell" => cmd'.pc = "tell")
    BY <1>9, <1>r DEF CmdBeacon, RxStates, RxIdle, CmdStates
  <2> QED
    BY <2>1, <2>2, <1>t, ToldKept
<1>10. CASE CmdBmcSleepq
  <2>1. bits' = bits
    BY <1>10 DEF CmdBmcSleepq
  <2>2. (rx.pc = "tell" => rx'.pc = "tell") /\ (cmd.pc = "tell" => cmd'.pc = "tell")
    BY <1>10, <1>r DEF CmdBmcSleepq, RxStates, RxIdle, CmdStates
  <2> QED
    BY <2>1, <2>2, <1>t, ToldKept
<1>11. CASE CmdHiQueue
  <2>1. bits' = bits
    BY <1>11 DEF CmdHiQueue
  <2>2. (rx.pc = "tell" => rx'.pc = "tell") /\ (cmd.pc = "tell" => cmd'.pc = "tell")
    BY <1>11, <1>r DEF CmdHiQueue, RxStates, RxIdle, CmdStates
  <2> QED
    BY <2>1, <2>2, <1>t, ToldKept
<1>12. CASE CmdBmcMoves
  <2>1. bits' = bits
    BY <1>12 DEF CmdBmcMoves
  <2>2. (rx.pc = "tell" => rx'.pc = "tell") /\ (cmd.pc = "tell" => cmd'.pc = "tell")
    BY <1>12, <1>r DEF CmdBmcMoves, RxStates, RxIdle, CmdStates
  <2> QED
    BY <2>1, <2>2, <1>t, ToldKept
<1>13. CASE CmdHiQueueClears
  <2>1. \/ bits'.ie = TimIe(bits'.tim)
        \/ bits'.tim \subseteq bits.tim /\ bits'.ie = bits.ie
    BY <1>13, <1>b DEF CmdHiQueueClears, Beacon, BitStates
  <2>2. (rx.pc = "tell" => rx'.pc = "tell") /\ (cmd.pc = "tell" => cmd'.pc = "tell")
    BY <1>13, <1>r DEF CmdHiQueueClears, RxStates, RxIdle, CmdStates
  <2> QED
    BY <2>1, <2>2, <1>t, ToldKept
<1>14. CASE CmdTells
  <2>1. bits'.ie = TimIe(bits'.tim)
    BY <1>14, <1>b DEF CmdTells, BitStates
  <2> QED
    BY <2>1, <1>t, ToldKept
<1>15. CASE \E s \in Stas : Doze(s)
  <2>0. PICK s \in Stas : Doze(s)
    BY <1>15
  <2>1. \/ bits'.ie = TimIe(bits'.tim)
        \/ bits'.tim \subseteq bits.tim /\ bits'.ie = bits.ie
    BY <2>0, <1>b DEF Doze, Beacon, BitStates
  <2>2. (rx.pc = "tell" => rx'.pc = "tell") /\ (cmd.pc = "tell" => cmd'.pc = "tell")
    BY <2>0, <1>r DEF Doze, RxStates, RxIdle, CmdStates
  <2> QED
    BY <2>1, <2>2, <1>t, ToldKept
<1>16. CASE \E s \in Stas : Wake(s)
  <2>0. PICK s \in Stas : Wake(s)
    BY <1>16
  <2>w. WakeupStaToXmit(s)
    BY <2>0 DEF Wake
  <2>1. bits'.tim = Awake(s).tim /\ bits'.ie = bits.ie /\ Awake(s).tim \subseteq bits.tim
    BY <2>w, WakeQueues DEF Awake
  <2>2. CASE Awake(s).tim # bits.tim
    <3>1. rx'.pc = "tell"
      BY <2>0, <2>2, <1>r DEF Wake, RxIdle, CmdStates
    <3> QED
      BY <3>1, <1>t, ToldKept
  <2>3. CASE Awake(s).tim = bits.tim
    <3>1. (rx.pc = "tell" => rx'.pc = "tell") /\ (cmd.pc = "tell" => cmd'.pc = "tell")
      BY <2>0, <2>3 DEF Wake, RxIdle
    <3> QED
      BY <2>1, <3>1, <1>t, ToldKept
  <2> QED
    BY <2>2, <2>3
<1>17. CASE \E s \in Stas : Trigger(s)
  <2>0. PICK s \in Stas : Trigger(s)
    BY <1>17
  <2>1. \/ bits'.ie = TimIe(bits'.tim)
        \/ bits'.tim \subseteq bits.tim /\ bits'.ie = bits.ie
    BY <2>0, <1>b DEF Trigger, Beacon, BitStates
  <2>2. (rx.pc = "tell" => rx'.pc = "tell") /\ (cmd.pc = "tell" => cmd'.pc = "tell")
    BY <2>0, <1>r DEF Trigger, RxStates, RxIdle, CmdStates
  <2> QED
    BY <2>1, <2>2, <1>t, ToldKept
<1>18. CASE \E s \in Stas : PollFetch(s)
  <2>0. PICK s \in Stas : PollFetch(s)
    BY <1>18
  <2>1. \/ bits'.ie = TimIe(bits'.tim)
        \/ bits'.tim \subseteq bits.tim /\ bits'.ie = bits.ie
    BY <2>0, <1>b DEF PollFetch, Polled, PollAnswered, Beacon, BitStates
  <2>2. (rx.pc = "tell" => rx'.pc = "tell") /\ (cmd.pc = "tell" => cmd'.pc = "tell")
    BY <2>0, <1>r DEF PollFetch, Polled, PollAnswered, RxStates, RxIdle, CmdStates
  <2> QED
    BY <2>1, <2>2, <1>t, ToldKept
<1>19. CASE \E s \in Stas : PollFindsNone(s)
  <2>0. PICK s \in Stas : PollFindsNone(s)
    BY <1>19
  <2>1. bits' = bits
    BY <2>0 DEF PollFindsNone, Polled, PollAnswered
  <2>2. (rx.pc = "tell" => rx'.pc = "tell") /\ (cmd.pc = "tell" => cmd'.pc = "tell")
    BY <2>0, <1>r DEF PollFindsNone, Polled, PollAnswered, RxStates, RxIdle, CmdStates
  <2> QED
    BY <2>1, <2>2, <1>t, ToldKept
<1>20. CASE \E s \in Stas : CmdExpires(s)
  <2>0. PICK s \in Stas : CmdExpires(s)
    BY <1>20
  <2>1. bits'.ie = TimIe(bits'.tim)
    BY <2>0, <1>b DEF CmdExpires, BitStates
  <2> QED
    BY <2>1, <1>t, ToldKept
<1>21. CASE \E s \in Stas : CmdDigest(s)
  <2>0. PICK s \in Stas : CmdDigest(s)
    BY <1>21
  <2>w. WakeupStaToXmit(s)
    BY <2>0 DEF CmdDigest
  <2>1. bits'.tim = Awake(s).tim /\ bits'.ie = bits.ie /\ Awake(s).tim \subseteq bits.tim
    BY <2>w, WakeQueues DEF Awake
  <2>2. CASE Awake(s).tim # bits.tim
    <3>1. cmd'.pc = "tell"
      BY <2>0, <2>2, <1>r DEF CmdDigest, RxIdle, CmdStates
    <3> QED
      BY <3>1, <1>t, ToldKept
  <2>3. CASE Awake(s).tim = bits.tim
    <3>1. (rx.pc = "tell" => rx'.pc = "tell") /\ (cmd.pc = "tell" => cmd'.pc = "tell")
      BY <2>0, <2>3 DEF CmdDigest, RxIdle
    <3> QED
      BY <2>1, <3>1, <1>t, ToldKept
  <2> QED
    BY <2>2, <2>3
<1>22. CASE \E s \in Stas : Assoc(s)
  <2>0. PICK s \in Stas : Assoc(s)
    BY <1>22
  <2>1. bits' = bits
    BY <2>0 DEF Assoc
  <2>2. (rx.pc = "tell" => rx'.pc = "tell") /\ (cmd.pc = "tell" => cmd'.pc = "tell")
    BY <2>0, <1>r DEF Assoc, RxStates, RxIdle, CmdStates
  <2> QED
    BY <2>1, <2>2, <1>t, ToldKept
<1>23. CASE \E s \in Stas : Leave(s)
  <2>0. PICK s \in Stas : Leave(s)
    BY <1>23
  <2>1. bits' = bits
    BY <2>0 DEF Leave
  <2>2. (rx.pc = "tell" => rx'.pc = "tell") /\ (cmd.pc = "tell" => cmd'.pc = "tell")
    BY <2>0, <1>r DEF Leave, RxStates, RxIdle, CmdStates
  <2> QED
    BY <2>1, <2>2, <1>t, ToldKept
<1>24. CASE \E s \in Stas : FreeSta(s)
  <2>0. PICK s \in Stas : FreeSta(s)
    BY <1>24
  <2>1. \/ bits'.ie = TimIe(bits'.tim)
        \/ bits'.tim \subseteq bits.tim /\ bits'.ie = bits.ie
    BY <2>0, <1>b DEF FreeSta, Beacon, BitStates
  <2>2. (rx.pc = "tell" => rx'.pc = "tell") /\ (cmd.pc = "tell" => cmd'.pc = "tell")
    BY <2>0, <1>r DEF FreeSta, RxStates, RxIdle, CmdStates
  <2> QED
    BY <2>1, <2>2, <1>t, ToldKept
<1>25. CASE UNCHANGED vars
  <2>1. bits' = bits
    BY <1>25 DEF vars
  <2>2. (rx.pc = "tell" => rx'.pc = "tell") /\ (cmd.pc = "tell" => cmd'.pc = "tell")
    BY <1>25, <1>r DEF vars, RxStates, RxIdle, CmdStates
  <2> QED
    BY <2>1, <2>2, <1>t, ToldKept
<1>26. CASE CmdBeaconFails
  <2>1. bits' = bits
    BY <1>26 DEF CmdBeaconFails
  <2>2. (rx.pc = "tell" => rx'.pc = "tell") /\ (cmd.pc = "tell" => cmd'.pc = "tell")
    BY <1>26, <1>r DEF CmdBeaconFails, RxStates, RxIdle, CmdStates
  <2> QED
    BY <2>1, <2>2, <1>t, ToldKept
<1> QED
  BY <1>1, <1>2, <1>3, <1>4, <1>5, <1>6, <1>7, <1>8, <1>9, <1>10, <1>11, <1>12, <1>13, <1>14, <1>15, <1>16, <1>17, <1>18, <1>19, <1>20, <1>21, <1>22, <1>23, <1>24, <1>25, <1>26
     DEF Next, Sender, RxEnds, CmdEnds, Rx

-----------------------------------------------------------------------------
(* The multicast frames.                                                     *)

\* Held multicast frames have their bit and a command.
LEMMA BmcServedStep == TypeOK /\ RxInv /\ AccInv /\ BmcServed /\ [Next]_vars => BmcServed'
<1> SUFFICES ASSUME TypeOK, RxInv, AccInv, BmcServed, [Next]_vars
             PROVE  BmcServed'
  OBVIOUS
<1>q. q \in [Dests -> QueueStates] /\ \A d \in Dests : q[d] \in QueueStates
  BY DEF TypeOK
<1>b. bits \in BitStates
  BY DEF TypeOK
<1>c. cmd \in CmdStates /\ Bmc \in Dests /\ \A s \in Stas : s \in Dests /\ s # Bmc
  BY Sets DEF TypeOK
<1>g. Agrees(q[Bmc], {}) /\ q[Bmc].len \in Int
  BY <1>c, <1>q, Sets DEF AccInv, QueueStates
<1>m. q[Bmc].len > 0 /\ Bmc \notin bits.raced =>
        0 \in bits.tim /\ (cmd.bcn \/ cmd.chk \/ cmd.pc = "bmc" \/ cmd.failed)
  BY DEF BmcServed
<1>1. CASE \E d \in Dests, a \in Acs : Send(d, a)
  <2>0. PICK d \in Dests, a \in Acs : Send(d, a)
    BY <1>1
  <2> SUFFICES ASSUME q'[Bmc].len > 0, Bmc \notin bits'.raced
               PROVE  0 \in bits'.tim /\ (cmd'.bcn \/ cmd'.chk \/ cmd'.pc = "bmc" \/ cmd'.failed)
    BY DEF BmcServed
  <2>1. q'[Bmc].len = q[Bmc].len
    BY <2>0, <1>c, <1>q DEF Send, QueueStates
  <2>2. /\ Bmc \in bits.raced => Bmc \in bits'.raced
        /\ 0 \in bits.tim => 0 \in bits'.tim
    BY <2>0, <1>c, <1>b, Aids DEF Send, BitStates
  <2>3. /\ cmd.bcn => cmd'.bcn
        /\ cmd.chk => cmd'.chk
        /\ cmd.pc = "bmc" => cmd'.pc = "bmc"
        /\ cmd.failed => cmd'.failed
    BY <2>0, <1>c DEF Send, CmdStates
  <2> QED
    BY <2>1, <2>2, <2>3, <1>m
<1>2. CASE \E d \in Dests, a \in Acs : Transmit(d, a)
  <2>0. PICK d \in Dests, a \in Acs : Transmit(d, a)
    BY <1>2
  <2> SUFFICES ASSUME q'[Bmc].len > 0, Bmc \notin bits'.raced
               PROVE  0 \in bits'.tim /\ (cmd'.bcn \/ cmd'.chk \/ cmd'.pc = "bmc" \/ cmd'.failed)
    BY DEF BmcServed
  <2>1. q'[Bmc].len = q[Bmc].len
    BY <2>0, <1>c, <1>q DEF Transmit, QueueStates
  <2>2. /\ Bmc \in bits.raced => Bmc \in bits'.raced
        /\ 0 \in bits.tim => 0 \in bits'.tim
    BY <2>0, <1>c, <1>b, Aids DEF Transmit, BitStates
  <2>3. /\ cmd.bcn => cmd'.bcn
        /\ cmd.chk => cmd'.chk
        /\ cmd.pc = "bmc" => cmd'.pc = "bmc"
        /\ cmd.failed => cmd'.failed
    BY <2>0, <1>c DEF Transmit, CmdStates
  <2> QED
    BY <2>1, <2>2, <2>3, <1>m
<1>3. CASE EnqueueForSleepingSta
  <2> SUFFICES ASSUME q'[Bmc].len > 0, Bmc \notin bits'.raced
               PROVE  0 \in bits'.tim /\ (cmd'.bcn \/ cmd'.chk \/ cmd'.pc = "bmc" \/ cmd'.failed)
    BY DEF BmcServed
  <2>0. tx.to \in Dests /\ tx.ac \in Acs
    BY DEF TypeOK, TxStates
  <2>1. CASE tx.to # Bmc
    <3>1. q'[Bmc].len = q[Bmc].len
      BY <1>3, <2>0, <2>1, <1>c, <1>q DEF EnqueueForSleepingSta
    <3>2. /\ Bmc \in bits.raced => Bmc \in bits'.raced
          /\ bits.tim \subseteq bits'.tim
      BY <1>3, <2>1, <1>b DEF EnqueueForSleepingSta, BitStates
    <3>3. /\ (cmd.bcn => cmd'.bcn) /\ (cmd.chk => cmd'.chk) /\ cmd'.pc = cmd.pc
          /\ cmd.failed => cmd'.failed
      BY <1>3, <2>1, <1>c DEF EnqueueForSleepingSta, CmdStates
    <3> QED
      BY <3>1, <3>2, <3>3, <1>m
  <2>2. CASE tx.to = Bmc
    <3>1. SetsTim(Bmc, tx.ac) /\ AidOf(Bmc) = 0
      BY Aids DEF SetsTim
    <3>2. 0 \in bits'.tim
      BY <1>3, <2>2, <3>1, <1>b DEF EnqueueForSleepingSta, BitStates
    <3>3. cmd'.bcn \/ cmd'.chk
      BY <1>3, <2>2, <3>1, <1>c DEF EnqueueForSleepingSta, CmdStates
    <3> QED
      BY <3>2, <3>3
  <2> QED
    BY <2>1, <2>2
<1>4. CASE NotForSleepingSta
  <2> SUFFICES ASSUME q'[Bmc].len > 0, Bmc \notin bits'.raced
               PROVE  0 \in bits'.tim /\ (cmd'.bcn \/ cmd'.chk \/ cmd'.pc = "bmc" \/ cmd'.failed)
    BY DEF BmcServed
  <2>1. q'[Bmc].len = q[Bmc].len
    BY <1>4, <1>c, <1>q DEF NotForSleepingSta, QueueStates
  <2>2. /\ Bmc \in bits.raced => Bmc \in bits'.raced
        /\ 0 \in bits.tim => 0 \in bits'.tim
    BY <1>4, <1>c, <1>b, Aids DEF NotForSleepingSta, BitStates
  <2>3. /\ cmd.bcn => cmd'.bcn
        /\ cmd.chk => cmd'.chk
        /\ cmd.pc = "bmc" => cmd'.pc = "bmc"
        /\ cmd.failed => cmd'.failed
    BY <1>4, <1>c DEF NotForSleepingSta, CmdStates
  <2> QED
    BY <2>1, <2>2, <2>3, <1>m
<1>5. CASE PreXmit
  <2> SUFFICES ASSUME q'[Bmc].len > 0, Bmc \notin bits'.raced
               PROVE  0 \in bits'.tim /\ (cmd'.bcn \/ cmd'.chk \/ cmd'.pc = "bmc" \/ cmd'.failed)
    BY DEF BmcServed
  <2>1. q'[Bmc].len = q[Bmc].len
    BY <1>5, <1>c, <1>q DEF PreXmit, QueueStates
  <2>2. /\ Bmc \in bits.raced => Bmc \in bits'.raced
        /\ 0 \in bits.tim => 0 \in bits'.tim
    BY <1>5, <1>c, <1>b, Aids DEF PreXmit, BitStates
  <2>3. /\ cmd.bcn => cmd'.bcn
        /\ cmd.chk => cmd'.chk
        /\ cmd.pc = "bmc" => cmd'.pc = "bmc"
        /\ cmd.failed => cmd'.failed
    BY <1>5, <1>c DEF PreXmit, CmdStates
  <2> QED
    BY <2>1, <2>2, <2>3, <1>m
<1>6. CASE WakeTells
  <2> SUFFICES ASSUME q'[Bmc].len > 0, Bmc \notin bits'.raced
               PROVE  0 \in bits'.tim /\ (cmd'.bcn \/ cmd'.chk \/ cmd'.pc = "bmc" \/ cmd'.failed)
    BY DEF BmcServed
  <2>1. q'[Bmc].len = q[Bmc].len
    BY <1>6, <1>c, <1>q DEF WakeTells, QueueStates
  <2>2. /\ Bmc \in bits.raced => Bmc \in bits'.raced
        /\ 0 \in bits.tim => 0 \in bits'.tim
    BY <1>6, <1>c, <1>b, Aids DEF WakeTells, BitStates
  <2>3. /\ cmd.bcn => cmd'.bcn
        /\ cmd.chk => cmd'.chk
        /\ cmd.pc = "bmc" => cmd'.pc = "bmc"
        /\ cmd.failed => cmd'.failed
    BY <1>6, <1>c DEF WakeTells, CmdStates
  <2> QED
    BY <2>1, <2>2, <2>3, <1>m
<1>7. CASE PollEmpty
  <2> SUFFICES ASSUME q'[Bmc].len > 0, Bmc \notin bits'.raced
               PROVE  0 \in bits'.tim /\ (cmd'.bcn \/ cmd'.chk \/ cmd'.pc = "bmc" \/ cmd'.failed)
    BY DEF BmcServed
  <2>0. rx.sta \in Stas
    BY <1>7 DEF PollEmpty, RxInv
  <2>1. q'[Bmc].len = q[Bmc].len
    BY <1>7, <2>0, <1>c, <1>q DEF PollEmpty
  <2>2. /\ bits'.tim = bits.tim \ {AidOf(rx.sta)} /\ bits.raced \subseteq bits'.raced
        /\ AidOf(rx.sta) \in bits.tim /\ AidOf(rx.sta) = 0 => Bmc \in bits'.raced
    BY <1>7, <1>b DEF PollEmpty, BitStates
  <2>3. /\ (cmd.bcn => cmd'.bcn) /\ cmd'.chk = cmd.chk /\ cmd'.pc = cmd.pc
        /\ cmd'.failed = cmd.failed
    BY <1>7, <1>c DEF PollEmpty, CmdStates
  <2> QED
    BY <2>1, <2>2, <2>3, <1>m
<1>8. CASE AuthExpires
  <2> SUFFICES ASSUME q'[Bmc].len > 0, Bmc \notin bits'.raced
               PROVE  0 \in bits'.tim /\ (cmd'.bcn \/ cmd'.chk \/ cmd'.pc = "bmc" \/ cmd'.failed)
    BY DEF BmcServed
  <2> QED
    BY <1>8, <1>b DEF AuthExpires, ClearsGroupBit, BitStates
<1>9. CASE CmdBeacon
  <2> SUFFICES ASSUME q'[Bmc].len > 0, Bmc \notin bits'.raced
               PROVE  0 \in bits'.tim /\ (cmd'.bcn \/ cmd'.chk \/ cmd'.pc = "bmc" \/ cmd'.failed)
    BY DEF BmcServed
  <2>1. 0 \in bits.tim /\ q[Bmc].len > 0
    BY <1>9, <1>m DEF CmdBeacon
  <2>2. cmd'.pc = "bmc" /\ bits' = bits
    BY <1>9, <2>1, <1>c DEF CmdBeacon, CmdStates
  <2> QED
    BY <2>1, <2>2
<1>10. CASE CmdBmcSleepq
  <2> SUFFICES ASSUME q'[Bmc].len > 0, Bmc \notin bits'.raced
               PROVE  0 \in bits'.tim /\ (cmd'.bcn \/ cmd'.chk \/ cmd'.pc = "bmc" \/ cmd'.failed)
    BY DEF BmcServed
  <2>1. 0 \in bits.tim /\ q[Bmc].len > 0
    BY <1>10, <1>m DEF CmdBmcSleepq
  <2>2. cmd'.pc = "bmc" /\ bits' = bits
    BY <1>10, <2>1, <1>c DEF CmdBmcSleepq, CmdStates
  <2> QED
    BY <2>1, <2>2
<1>11. CASE CmdHiQueue
  <2> SUFFICES ASSUME q'[Bmc].len > 0, Bmc \notin bits'.raced
               PROVE  0 \in bits'.tim /\ (cmd'.bcn \/ cmd'.chk \/ cmd'.pc = "bmc" \/ cmd'.failed)
    BY DEF BmcServed
  <2>1. /\ (cmd.bcn => cmd'.bcn) /\ (cmd.chk => cmd'.chk) /\ cmd.pc # "bmc"
        /\ cmd'.failed = cmd.failed
    BY <1>11, <1>c DEF CmdHiQueue, CmdStates
  <2> QED
    BY <1>11, <2>1, <1>m DEF CmdHiQueue
<1>12. CASE CmdBmcMoves
  <2> SUFFICES ASSUME q'[Bmc].len > 0, Bmc \notin bits'.raced
               PROVE  0 \in bits'.tim /\ (cmd'.bcn \/ cmd'.chk \/ cmd'.pc = "bmc" \/ cmd'.failed)
    BY DEF BmcServed
  <2>1. q'[Bmc].len = 0
    BY <1>12, <1>c, <1>g, <1>q, DrainedAgrees DEF CmdBmcMoves, Agrees
  <2> QED
    BY <2>1
<1>13. CASE CmdHiQueueClears
  <2> SUFFICES ASSUME q'[Bmc].len > 0, Bmc \notin bits'.raced
               PROVE  0 \in bits'.tim /\ (cmd'.bcn \/ cmd'.chk \/ cmd'.pc = "bmc" \/ cmd'.failed)
    BY DEF BmcServed
  <2> QED
    BY <1>13, <1>b DEF CmdHiQueueClears, ClearsGroupBit, BitStates
<1>14. CASE CmdTells
  <2> SUFFICES ASSUME q'[Bmc].len > 0, Bmc \notin bits'.raced
               PROVE  0 \in bits'.tim /\ (cmd'.bcn \/ cmd'.chk \/ cmd'.pc = "bmc" \/ cmd'.failed)
    BY DEF BmcServed
  <2>1. q'[Bmc].len = q[Bmc].len
    BY <1>14, <1>c, <1>q DEF CmdTells, QueueStates
  <2>2. /\ Bmc \in bits.raced => Bmc \in bits'.raced
        /\ 0 \in bits.tim => 0 \in bits'.tim
    BY <1>14, <1>c, <1>b, Aids DEF CmdTells, BitStates
  <2>3. /\ cmd.bcn => cmd'.bcn
        /\ cmd.chk => cmd'.chk
        /\ cmd.pc = "bmc" => cmd'.pc = "bmc"
        /\ cmd.failed => cmd'.failed
    BY <1>14, <1>c DEF CmdTells, CmdStates
  <2> QED
    BY <2>1, <2>2, <2>3, <1>m
<1>15. CASE \E s \in Stas : Doze(s)
  <2>0. PICK s \in Stas : Doze(s)
    BY <1>15
  <2> SUFFICES ASSUME q'[Bmc].len > 0, Bmc \notin bits'.raced
               PROVE  0 \in bits'.tim /\ (cmd'.bcn \/ cmd'.chk \/ cmd'.pc = "bmc" \/ cmd'.failed)
    BY DEF BmcServed
  <2> DEFINE group == q[Bmc].pend
  <2>1. group \in Counts /\ Sum(group) \in Nat /\ q'[Bmc].len = q[Bmc].len + Sum(group)
    BY <2>0, <1>c, <1>q, Sets, CountsSum, DozeQueues DEF QueueStates
  <2>2. CASE Sum(group) > 0
    <3>1. 0 \in bits'.tim
      BY <2>0, <2>2, <1>b DEF Doze, BitStates
    <3>2. CASE 0 \in bits.tim
      BY <2>0, <2>2, <3>1, <3>2, <1>c DEF Doze, CmdStates
    <3>3. CASE 0 \notin bits.tim
      <4>1. bits'.tim # bits.tim
        BY <3>1, <3>3
      <4>2. cmd'.bcn = (cmd.bcn \/ bits'.tim # bits.tim)
        BY <2>0, <1>b, <1>c DEF Doze, BitStates, CmdStates
      <4> QED
        BY <3>1, <4>1, <4>2
    <3> QED
      BY <3>2, <3>3
  <2>3. CASE ~ (Sum(group) > 0)
    <3>1. q'[Bmc].len = q[Bmc].len
      BY <2>1, <2>3, <1>g
    <3>2. bits.tim \subseteq bits'.tim /\ bits'.raced = bits.raced
      BY <2>0, <2>3, <1>b DEF Doze, BitStates
    <3>3. /\ (cmd.bcn => cmd'.bcn) /\ (cmd.chk => cmd'.chk) /\ cmd'.pc = cmd.pc
          /\ cmd.failed => cmd'.failed
      BY <2>0, <2>3, <1>c DEF Doze, CmdStates
    <3> QED
      BY <3>1, <3>2, <3>3, <1>m
  <2> QED
    BY <2>2, <2>3
<1>16. CASE \E s \in Stas : Wake(s)
  <2>0. PICK s \in Stas : Wake(s)
    BY <1>16
  <2>w. WakeupStaToXmit(s) /\ AidOf(s) # 0
    BY <2>0, Sets, Aids DEF Wake, Linked, Found
  <2> SUFFICES ASSUME q'[Bmc].len > 0, Bmc \notin bits'.raced
               PROVE  0 \in bits'.tim /\ (cmd'.bcn \/ cmd'.chk \/ cmd'.pc = "bmc" \/ cmd'.failed)
    BY DEF BmcServed
  <2>1. CASE Awake(s).all
    <3>1. q'[Bmc].len = 0
      BY <2>w, <2>1, <1>c, <1>g, <1>q, WakeQueues, DrainedAgrees DEF Agrees
    <3> QED
      BY <3>1
  <2>2. CASE ~ Awake(s).all
    <3>1. q'[Bmc] = q[Bmc] /\ bits'.raced = bits.raced /\ bits'.tim = Awake(s).tim
      BY <2>w, <2>2, WakeQueues
    <3>2. 0 \in bits.tim => 0 \in Awake(s).tim
      BY <2>w, <2>2 DEF Awake
    <3>3. cmd'.bcn = cmd.bcn /\ cmd'.chk = cmd.chk /\ cmd'.failed = cmd.failed /\ (cmd.pc = "bmc" => cmd'.pc = "bmc")
      BY <2>0, <1>c DEF Wake, CmdStates
    <3> QED
      BY <3>1, <3>2, <3>3, <1>m
  <2> QED
    BY <2>1, <2>2
<1>17. CASE \E s \in Stas : Trigger(s)
  <2>0. PICK s \in Stas : Trigger(s)
    BY <1>17
  <2> SUFFICES ASSUME q'[Bmc].len > 0, Bmc \notin bits'.raced
               PROVE  0 \in bits'.tim /\ (cmd'.bcn \/ cmd'.chk \/ cmd'.pc = "bmc" \/ cmd'.failed)
    BY DEF BmcServed
  <2>1. q'[Bmc].len = q[Bmc].len
    BY <2>0, <1>c, <1>q, TriggerQueue DEF Trigger, QueueStates
  <2>2. /\ Bmc \in bits.raced => Bmc \in bits'.raced
        /\ 0 \in bits.tim => 0 \in bits'.tim
    <3>1. bits.tim \ {Aid[s]} \subseteq bits'.tim /\ bits'.raced = bits.raced
      BY <2>0, <1>b DEF Trigger, BitStates
    <3> QED
      BY <3>1, Aids
  <2>3. /\ cmd.bcn => cmd'.bcn
        /\ cmd.chk => cmd'.chk
        /\ cmd.pc = "bmc" => cmd'.pc = "bmc"
        /\ cmd.failed => cmd'.failed
    BY <2>0, <1>c DEF Trigger, CmdStates
  <2> QED
    BY <2>1, <2>2, <2>3, <1>m
<1>18. CASE \E s \in Stas : PollFetch(s)
  <2>0. PICK s \in Stas : PollFetch(s)
    BY <1>18
  <2> SUFFICES ASSUME q'[Bmc].len > 0, Bmc \notin bits'.raced
               PROVE  0 \in bits'.tim /\ (cmd'.bcn \/ cmd'.chk \/ cmd'.pc = "bmc" \/ cmd'.failed)
    BY DEF BmcServed
  <2>1. q'[Bmc].len = q[Bmc].len
    BY <2>0, <1>c, <1>q, FetchQueue DEF PollFetch, Polled, PollAnswered, QueueStates
  <2>2. /\ Bmc \in bits.raced => Bmc \in bits'.raced
        /\ 0 \in bits.tim => 0 \in bits'.tim
    BY <2>0, <1>c, <1>b, Aids DEF PollFetch, Polled, PollAnswered, BitStates
  <2>3. /\ cmd.bcn => cmd'.bcn
        /\ cmd.chk => cmd'.chk
        /\ cmd.pc = "bmc" => cmd'.pc = "bmc"
        /\ cmd.failed => cmd'.failed
    BY <2>0, <1>c DEF PollFetch, Polled, PollAnswered, CmdStates
  <2> QED
    BY <2>1, <2>2, <2>3, <1>m
<1>19. CASE \E s \in Stas : PollFindsNone(s)
  <2>0. PICK s \in Stas : PollFindsNone(s)
    BY <1>19
  <2> SUFFICES ASSUME q'[Bmc].len > 0, Bmc \notin bits'.raced
               PROVE  0 \in bits'.tim /\ (cmd'.bcn \/ cmd'.chk \/ cmd'.pc = "bmc" \/ cmd'.failed)
    BY DEF BmcServed
  <2>1. q'[Bmc].len = q[Bmc].len
    BY <2>0, <1>c, <1>q DEF PollFindsNone, Polled, PollAnswered, QueueStates
  <2>2. /\ Bmc \in bits.raced => Bmc \in bits'.raced
        /\ 0 \in bits.tim => 0 \in bits'.tim
    BY <2>0, <1>c, <1>b, Aids DEF PollFindsNone, Polled, PollAnswered, BitStates
  <2>3. /\ cmd.bcn => cmd'.bcn
        /\ cmd.chk => cmd'.chk
        /\ cmd.pc = "bmc" => cmd'.pc = "bmc"
        /\ cmd.failed => cmd'.failed
    BY <2>0, <1>c DEF PollFindsNone, Polled, PollAnswered, CmdStates
  <2> QED
    BY <2>1, <2>2, <2>3, <1>m
<1>20. CASE \E s \in Stas : CmdExpires(s)
  <2>0. PICK s \in Stas : CmdExpires(s)
    BY <1>20
  <2> SUFFICES ASSUME q'[Bmc].len > 0, Bmc \notin bits'.raced
               PROVE  0 \in bits'.tim /\ (cmd'.bcn \/ cmd'.chk \/ cmd'.pc = "bmc" \/ cmd'.failed)
    BY DEF BmcServed
  <2>1. q'[Bmc].len = q[Bmc].len
    BY <2>0, <1>c, <1>q DEF CmdExpires, QueueStates
  <2>2. /\ Bmc \in bits.raced => Bmc \in bits'.raced
        /\ 0 \in bits.tim => 0 \in bits'.tim
    BY <2>0, <1>c, <1>b, Aids DEF CmdExpires, BitStates
  <2>3. /\ cmd.bcn => cmd'.bcn
        /\ cmd.chk => cmd'.chk
        /\ cmd.pc = "bmc" => cmd'.pc = "bmc"
        /\ cmd.failed => cmd'.failed
    BY <2>0, <1>c DEF CmdExpires, CmdStates
  <2> QED
    BY <2>1, <2>2, <2>3, <1>m
<1>21. CASE \E s \in Stas : CmdDigest(s)
  <2>0. PICK s \in Stas : CmdDigest(s)
    BY <1>21
  <2>w. WakeupStaToXmit(s) /\ AidOf(s) # 0
    BY <2>0, Sets, Aids DEF CmdDigest, Linked, Found
  <2> SUFFICES ASSUME q'[Bmc].len > 0, Bmc \notin bits'.raced
               PROVE  0 \in bits'.tim /\ (cmd'.bcn \/ cmd'.chk \/ cmd'.pc = "bmc" \/ cmd'.failed)
    BY DEF BmcServed
  <2>1. CASE Awake(s).all
    <3>1. q'[Bmc].len = 0
      BY <2>w, <2>1, <1>c, <1>g, <1>q, WakeQueues, DrainedAgrees DEF Agrees
    <3> QED
      BY <3>1
  <2>2. CASE ~ Awake(s).all
    <3>1. q'[Bmc] = q[Bmc] /\ bits'.raced = bits.raced /\ bits'.tim = Awake(s).tim
      BY <2>w, <2>2, WakeQueues
    <3>2. 0 \in bits.tim => 0 \in Awake(s).tim
      BY <2>w, <2>2 DEF Awake
    <3>3. cmd'.bcn = cmd.bcn /\ cmd'.chk = cmd.chk /\ cmd'.failed = cmd.failed /\ (cmd.pc = "bmc" => cmd'.pc = "bmc")
      BY <2>0, <1>c DEF CmdDigest, CmdStates
    <3> QED
      BY <3>1, <3>2, <3>3, <1>m
  <2> QED
    BY <2>1, <2>2
<1>22. CASE \E s \in Stas : Assoc(s)
  <2>0. PICK s \in Stas : Assoc(s)
    BY <1>22
  <2> SUFFICES ASSUME q'[Bmc].len > 0, Bmc \notin bits'.raced
               PROVE  0 \in bits'.tim /\ (cmd'.bcn \/ cmd'.chk \/ cmd'.pc = "bmc" \/ cmd'.failed)
    BY DEF BmcServed
  <2>1. q'[Bmc].len = q[Bmc].len
    BY <2>0, <1>c, <1>q DEF Assoc, QueueStates
  <2>2. /\ Bmc \in bits.raced => Bmc \in bits'.raced
        /\ 0 \in bits.tim => 0 \in bits'.tim
    BY <2>0, <1>c, <1>b, Aids DEF Assoc, BitStates
  <2>3. /\ cmd.bcn => cmd'.bcn
        /\ cmd.chk => cmd'.chk
        /\ cmd.pc = "bmc" => cmd'.pc = "bmc"
        /\ cmd.failed => cmd'.failed
    BY <2>0, <1>c DEF Assoc, CmdStates
  <2> QED
    BY <2>1, <2>2, <2>3, <1>m
<1>23. CASE \E s \in Stas : Leave(s)
  <2>0. PICK s \in Stas : Leave(s)
    BY <1>23
  <2> SUFFICES ASSUME q'[Bmc].len > 0, Bmc \notin bits'.raced
               PROVE  0 \in bits'.tim /\ (cmd'.bcn \/ cmd'.chk \/ cmd'.pc = "bmc" \/ cmd'.failed)
    BY DEF BmcServed
  <2>1. q'[Bmc].len = q[Bmc].len
    BY <2>0, <1>c, <1>q DEF Leave, QueueStates
  <2>2. /\ Bmc \in bits.raced => Bmc \in bits'.raced
        /\ 0 \in bits.tim => 0 \in bits'.tim
    BY <2>0, <1>c, <1>b, Aids DEF Leave, BitStates
  <2>3. /\ cmd.bcn => cmd'.bcn
        /\ cmd.chk => cmd'.chk
        /\ cmd.pc = "bmc" => cmd'.pc = "bmc"
        /\ cmd.failed => cmd'.failed
    BY <2>0, <1>c DEF Leave, CmdStates
  <2> QED
    BY <2>1, <2>2, <2>3, <1>m
<1>24. CASE \E s \in Stas : FreeSta(s)
  <2>0. PICK s \in Stas : FreeSta(s)
    BY <1>24
  <2> SUFFICES ASSUME q'[Bmc].len > 0, Bmc \notin bits'.raced
               PROVE  0 \in bits'.tim /\ (cmd'.bcn \/ cmd'.chk \/ cmd'.pc = "bmc" \/ cmd'.failed)
    BY DEF BmcServed
  <2>1. q'[Bmc].len = q[Bmc].len
    BY <2>0, <1>c, <1>q DEF FreeSta, QueueStates
  <2>2. /\ Bmc \in bits.raced => Bmc \in bits'.raced
        /\ 0 \in bits.tim => 0 \in bits'.tim
    BY <2>0, <1>c, <1>b, Aids DEF FreeSta, BitStates
  <2>3. /\ cmd.bcn => cmd'.bcn
        /\ cmd.chk => cmd'.chk
        /\ cmd.pc = "bmc" => cmd'.pc = "bmc"
        /\ cmd.failed => cmd'.failed
    BY <2>0, <1>c DEF FreeSta, CmdStates
  <2> QED
    BY <2>1, <2>2, <2>3, <1>m
<1>25. CASE UNCHANGED vars
  <2> SUFFICES ASSUME q'[Bmc].len > 0, Bmc \notin bits'.raced
               PROVE  0 \in bits'.tim /\ (cmd'.bcn \/ cmd'.chk \/ cmd'.pc = "bmc" \/ cmd'.failed)
    BY DEF BmcServed
  <2>1. q'[Bmc].len = q[Bmc].len
    BY <1>25, <1>c, <1>q DEF vars, QueueStates
  <2>2. /\ Bmc \in bits.raced => Bmc \in bits'.raced
        /\ 0 \in bits.tim => 0 \in bits'.tim
    BY <1>25, <1>c, <1>b, Aids DEF vars, BitStates
  <2>3. /\ cmd.bcn => cmd'.bcn
        /\ cmd.chk => cmd'.chk
        /\ cmd.pc = "bmc" => cmd'.pc = "bmc"
        /\ cmd.failed => cmd'.failed
    BY <1>25, <1>c DEF vars, CmdStates
  <2> QED
    BY <2>1, <2>2, <2>3, <1>m
<1>26. CASE CmdBeaconFails
  <2> SUFFICES ASSUME q'[Bmc].len > 0, Bmc \notin bits'.raced
               PROVE  0 \in bits'.tim /\ (cmd'.bcn \/ cmd'.chk \/ cmd'.pc = "bmc" \/ cmd'.failed)
    BY DEF BmcServed
  <2>1. 0 \in bits.tim /\ q[Bmc].len > 0 /\ bits' = bits
    BY <1>26, <1>m DEF CmdBeaconFails
  <2>2. cmd'.failed
    BY <1>26, <2>1, <1>c DEF CmdBeaconFails, CmdStates
  <2> QED
    BY <2>1, <2>2
<1> QED
  BY <1>1, <1>2, <1>3, <1>4, <1>5, <1>6, <1>7, <1>8, <1>9, <1>10, <1>11, <1>12, <1>13, <1>14, <1>15, <1>16, <1>17, <1>18, <1>19, <1>20, <1>21, <1>22, <1>23, <1>24, <1>25, <1>26
     DEF Next, Sender, RxEnds, CmdEnds, Rx

-----------------------------------------------------------------------------
(* The theorems.                                                             *)

LEMMA ApInit == Init => ApInv
<1> SUFFICES ASSUME Init PROVE ApInv
  OBVIOUS
<1>1. /\ \A s \in Stas : sta[s] \in StaStates /\ ~sta[s].sleep
      /\ \A d \in Dests : q[d] = Empty
      /\ bits.dz = {} /\ bits.tim = {} /\ bits.raced = {} /\ rx.pc = "idle"
  BY DEF Init, Gone, StaStates, RxIdle
<1>2. TypeOK
  <2>1. sta \in [Stas -> StaStates]
    BY <1>1 DEF Init
  <2>2. q \in [Dests -> QueueStates]
    BY EmptyAgrees DEF Init
  <2>3. bits \in BitStates /\ tx \in TxStates /\ rx \in RxStates /\ cmd \in CmdStates
    BY Sets DEF Init, BitStates, TxStates, TxIdle, RxStates, RxIdle, CmdStates
  <2> QED
    BY <2>1, <2>2, <2>3 DEF TypeOK
<1>3. RxInv /\ ToldInv
  BY <1>1 DEF RxInv, ToldInv
<1>4. AccInv
  BY <1>1, EmptyAgrees DEF AccInv
<1>5. ApartInv /\ AwakeInv /\ BitInv
  BY <1>1, Sets DEF ApartInv, AwakeInv, BitInv, Empty
<1>6. BmcServed
  BY <1>1, Sets DEF BmcServed, Empty
<1> QED
  BY <1>2, <1>3, <1>4, <1>5, <1>6 DEF ApInv

LEMMA ApAlways == Spec => []ApInv
<1>1. ApInv /\ [Next]_vars => ApInv'
  BY TypeOKStep, RxInvStep, AccInvStep, ApartInvStep, AwakeInvStep, BitInvStep, ToldInvStep,
     BmcServedStep DEF ApInv
<1> QED
  BY <1>1, ApInit, PTL DEF Spec

\* Every variable has its type, for any stations, categories and frames: no queue is
\* counted below empty and no association identifier leaves the bitmaps.
THEOREM ApTypeCorrect == Spec => []TypeOK
BY ApAlways, PTL DEF ApInv

\* sleepq_len counts the sleep queue, sleepq_ac_len is never short of it, and a
\* station that is gone has no frame and no bit.
THEOREM ApSleepAccounted == Spec => []SleepAccounted
<1>1. ApInv => SleepAccounted
  BY DEF ApInv, AccInv, ApartInv, Agrees, SleepAccounted
<1> QED
  BY <1>1, ApAlways, PTL

\* A sleeping station is told of the frames it has to be told of, or is about to be,
\* but for aids above 7 that are alone in the bitmap.
THEOREM ApTimTold == Spec => []TimTold
<1>1. ApInv => TimTold
  <2> SUFFICES ASSUME ApInv, NEW s \in Stas \ bits.raced, NEW a \in Acs, Linked(s), sta[s].sleep,
                      q[s].slp[a] > 0, a \notin Uapsd[s] \/ ~HasLegacy(s)
               PROVE  /\ Aid[s] \in bits.tim
                      /\ Named(Aid[s]) \/ Telling
    BY DEF TimTold, Named, Telling
  <2>1. SetsTim(s, a)
    BY Sets DEF SetsTim, HasLegacy
  <2>2. Aid[s] \in bits.tim
    BY <2>1 DEF ApInv, BitInv
  <2> QED
    BY <2>2, Aids DEF ApInv, ToldInv
<1> QED
  BY <1>1, ApAlways, PTL

\* Multicast frames held for sleepers have their bit and a command that sends them,
\* unless the bit was cleared behind them, or tx_beacon_hdl could not put a beacon
\* into the device and no multicast frame has been held since.
THEOREM ApBmcServed == Spec => []BmcServed
BY ApAlways, PTL DEF ApInv

=============================================================================
