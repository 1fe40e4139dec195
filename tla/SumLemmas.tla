----------------------------- MODULE SumLemmas -----------------------------
(* Sums over a finite set of indices: what SumFunctionOnSet of the community   *)
(* modules computes.  Its recursion picks an index it does not name; the       *)
(* lemmas say that the pick does not matter.  Induction is on the strict       *)
(* subset order, as the existence of a minimal counterexample.                 *)
EXTENDS FiniteSetTheorems, FiniteSetsExt, TLAPS

\* A nonempty set of subsets of a finite set has a minimal member.
LEMMA MinimalSubset ==
    ASSUME NEW S, IsFiniteSet(S), NEW T, T \subseteq SUBSET S, T # {}
    PROVE  \E x \in T : \A y \in T : y \subseteq x => y = x
<1>1. IsWellFoundedOn(StrictSubsetOrdering(S), SUBSET S)
  BY FS_StrictSubsetOrderingWellFounded, FS_FiniteSubsetsOfFinite
<1>2. PICK x \in T : \A y \in T : ~ (<<y, x>> \in StrictSubsetOrdering(S))
  BY <1>1, WFMin
<1>3. ASSUME NEW y \in T, y \subseteq x
      PROVE  y = x
  <2>1. <<y, x>> \in (SUBSET S) \X (SUBSET S)
    BY <1>2
  <2> QED
    BY <1>2, <1>3, <2>1 DEF StrictSubsetOrdering
<1> QED
  BY <1>2, <1>3

Pick(s) == CHOOSE x \in s : TRUE
\* g is the recursion of SumFunctionOnSet for f on the subsets of S.
IsFold(g, f, S) ==
    g = [s \in SUBSET S |-> IF s = {} THEN 0 ELSE f[Pick(s)] + g[s \ {Pick(s)}]]

LEMMA SumIsFold ==
    ASSUME NEW f, NEW S
    PROVE  SumFunctionOnSet(f, S) = (CHOOSE g : IsFold(g, f, S))[S]
  BY DEF SumFunctionOnSet, FoldFunctionOnSet, MapThenFoldSet, IsFold, Pick

LEMMA FoldsAgree ==
    ASSUME NEW f, NEW S, IsFiniteSet(S), NEW U \in SUBSET S, NEW V \in SUBSET S,
           NEW g, NEW h, IsFold(g, f, U), IsFold(h, f, V), NEW s \in SUBSET (U \cap V)
    PROVE  g[s] = h[s]
<1> DEFINE Bad == {t \in SUBSET (U \cap V) : g[t] # h[t]}
<1> SUFFICES ASSUME Bad # {} PROVE FALSE
  OBVIOUS
<1>1. PICK t \in Bad : \A y \in Bad : y \subseteq t => y = t
  <2>1. Bad \subseteq SUBSET S
    OBVIOUS
  <2> HIDE DEF Bad
  <2> QED
    BY <2>1, MinimalSubset
<1>2. t \in SUBSET U /\ t \in SUBSET V
  OBVIOUS
<1>3. CASE t = {}
  BY <1>2, <1>3 DEF IsFold
<1>4. CASE t # {}
  <2>1. Pick(t) \in t
    BY <1>4 DEF Pick
  <2>2. t \ {Pick(t)} \notin Bad
    BY <1>1, <2>1
  <2>3. g[t \ {Pick(t)}] = h[t \ {Pick(t)}]
    BY <2>2, <1>2
  <2>4. g[t] = f[Pick(t)] + g[t \ {Pick(t)}]
    BY <1>2, <1>4 DEF IsFold
  <2>5. h[t] = f[Pick(t)] + h[t \ {Pick(t)}]
    BY <1>2, <1>4 DEF IsFold
  <2> QED
    BY <2>3, <2>4, <2>5
<1> QED
  BY <1>3, <1>4

LEMMA FoldExists ==
    ASSUME NEW f, NEW S, IsFiniteSet(S), NEW U \in SUBSET S
    PROVE  \E g : IsFold(g, f, U)
<1> DEFINE Bad == {t \in SUBSET S : ~ \E g : IsFold(g, f, t)}
<1> SUFFICES ASSUME Bad # {} PROVE FALSE
  OBVIOUS
<1>1. PICK t \in Bad : \A y \in Bad : y \subseteq t => y = t
  <2>1. Bad \subseteq SUBSET S
    OBVIOUS
  <2> HIDE DEF Bad
  <2> QED
    BY <2>1, MinimalSubset
<1> DEFINE G(u) == CHOOSE g : IsFold(g, f, u)
           h == [s \in SUBSET t |-> IF s = {} THEN 0
                                   ELSE f[Pick(s)] + G(s \ {Pick(s)})[s \ {Pick(s)}]]
<1>2. ASSUME NEW u \in SUBSET t, u # t
      PROVE  IsFold(G(u), f, u)
  <2>1. u \notin Bad /\ u \in SUBSET S
    BY <1>1, <1>2
  <2>2. \E g : IsFold(g, f, u)
    BY <2>1
  <2> QED
    BY <2>2
<1>3. ASSUME NEW s \in SUBSET t, s # {}
      PROVE  h[s \ {Pick(s)}] = G(s \ {Pick(s)})[s \ {Pick(s)}]
  <2> DEFINE u == s \ {Pick(s)}
  <2>1. Pick(s) \in s /\ u \in SUBSET t /\ u # t
    BY <1>3 DEF Pick
  <2>2. IsFold(G(u), f, u)
    BY <1>2, <2>1
  <2>3. CASE u = {}
    <3>1. h[u] = 0
      BY <2>1, <2>3
    <3>2. G(u)[u] = 0
      BY <2>2, <2>3 DEF IsFold
    <3> QED
      BY <3>1, <3>2
  <2>4. CASE u # {}
    <3> DEFINE v == u \ {Pick(u)}
    <3>1. Pick(u) \in u /\ v \in SUBSET u /\ v \in SUBSET t /\ v # t
      BY <2>1, <2>4 DEF Pick
    <3>2. IsFold(G(v), f, v)
      BY <1>2, <3>1
    <3>3. u \in SUBSET S /\ v \in SUBSET S /\ v \in SUBSET (u \cap v)
      BY <2>1, <3>1
    <3>4. G(u)[v] = G(v)[v]
      <4> HIDE DEF G, u, v
      <4> QED
        BY <2>2, <3>2, <3>3, FoldsAgree
    <3>5. G(u)[u] = f[Pick(u)] + G(u)[v]
      <4> HIDE DEF G
      <4> QED
        BY <2>2, <2>4 DEF IsFold
    <3>6. h[u] = f[Pick(u)] + G(v)[v]
      <4> HIDE DEF G
      <4> QED
        BY <2>1, <2>4
    <3> QED
      BY <3>4, <3>5, <3>6
  <2> QED
    BY <2>3, <2>4
<1>4. IsFold(h, f, t)
  <2> HIDE DEF G
  <2> QED
    BY <1>3 DEF IsFold
<1> QED
  BY <1>4

LEMMA SumIsFoldOf ==
    ASSUME NEW f, NEW S, IsFiniteSet(S), NEW U, S \in SUBSET U, IsFiniteSet(U),
           NEW g, IsFold(g, f, U)
    PROVE  SumFunctionOnSet(f, S) = g[S]
<1>1. IsFold(CHOOSE h : IsFold(h, f, S), f, S)
  BY FoldExists
<1> DEFINE c == CHOOSE h : IsFold(h, f, S)
<1>2. c[S] = g[S]
  <2> HIDE DEF c
  <2> QED
    BY <1>1, FoldsAgree DEF c
<1> QED
  BY <1>2, SumIsFold

\* The recursion of a sum.
LEMMA SumStep ==
    ASSUME NEW f, NEW S, IsFiniteSet(S), S # {}
    PROVE  SumFunctionOnSet(f, S) = f[Pick(S)] + SumFunctionOnSet(f, S \ {Pick(S)})
<1>1. PICK g : IsFold(g, f, S)
  BY FoldExists
<1>2. SumFunctionOnSet(f, S) = g[S]
  BY <1>1, SumIsFoldOf
<1>3. IsFiniteSet(S \ {Pick(S)})
  BY FS_RemoveElement
<1>4. SumFunctionOnSet(f, S \ {Pick(S)}) = g[S \ {Pick(S)}]
  BY <1>1, <1>3, SumIsFoldOf
<1> QED
  BY <1>1, <1>2, <1>4 DEF IsFold

LEMMA SumEmpty == ASSUME NEW f PROVE SumFunctionOnSet(f, {}) = 0
<1>1. IsFiniteSet({})
  BY FS_EmptySet
<1>2. PICK g : IsFold(g, f, {})
  BY <1>1, FoldExists
<1>3. SumFunctionOnSet(f, {}) = g[{}]
  BY <1>1, <1>2, SumIsFoldOf
<1> QED
  BY <1>2, <1>3 DEF IsFold

\* A sum of integers is one.
LEMMA SumInt ==
    ASSUME NEW S, IsFiniteSet(S), NEW f, \A a \in S : f[a] \in Int
    PROVE  SumFunctionOnSet(f, S) \in Int
<1> DEFINE P(t) == SumFunctionOnSet(f, t) \in Int
           Bad == {t \in SUBSET S : ~ P(t)}
<1> SUFFICES ASSUME Bad # {} PROVE FALSE
  <2>1. P(S)
    OBVIOUS
  <2> QED
    BY <2>1
<1>1. PICK t \in Bad : \A y \in Bad : y \subseteq t => y = t
  <2>1. Bad \subseteq SUBSET S
    OBVIOUS
  <2> HIDE DEF Bad
  <2> QED
    BY <2>1, MinimalSubset
<1>2. IsFiniteSet(t) /\ t \in SUBSET S
  BY FS_Subset
<1>3. CASE t = {}
  BY <1>1, <1>2, <1>3, SumEmpty
<1>4. CASE t # {}
  <2> DEFINE x == Pick(t)
  <2>1. x \in t /\ t \ {x} \in SUBSET S /\ t \ {x} # t
    BY <1>2, <1>4 DEF Pick
  <2>2. P(t \ {x})
    BY <1>1, <2>1
  <2>3. SumFunctionOnSet(f, t) = f[x] + SumFunctionOnSet(f, t \ {x})
    BY <1>2, <1>4, SumStep
  <2> HIDE DEF x
  <2> QED
    BY <1>1, <1>2, <2>1, <2>2, <2>3
<1> QED
  BY <1>3, <1>4

\* A sum of natural numbers is one.
LEMMA SumNat ==
    ASSUME NEW S, IsFiniteSet(S), NEW f, \A a \in S : f[a] \in Nat
    PROVE  SumFunctionOnSet(f, S) \in Nat
<1> DEFINE P(t) == SumFunctionOnSet(f, t) \in Nat
           Bad == {t \in SUBSET S : ~ P(t)}
<1> SUFFICES ASSUME Bad # {} PROVE FALSE
  <2>1. P(S)
    OBVIOUS
  <2> QED
    BY <2>1
<1>1. PICK t \in Bad : \A y \in Bad : y \subseteq t => y = t
  <2>1. Bad \subseteq SUBSET S
    OBVIOUS
  <2> HIDE DEF Bad
  <2> QED
    BY <2>1, MinimalSubset
<1>2. IsFiniteSet(t) /\ t \in SUBSET S
  BY FS_Subset
<1>3. CASE t = {}
  BY <1>1, <1>2, <1>3, SumEmpty
<1>4. CASE t # {}
  <2> DEFINE x == Pick(t)
  <2>1. x \in t /\ t \ {x} \in SUBSET S /\ t \ {x} # t
    BY <1>2, <1>4 DEF Pick
  <2>2. P(t \ {x})
    BY <1>1, <2>1
  <2>3. SumFunctionOnSet(f, t) = f[x] + SumFunctionOnSet(f, t \ {x})
    BY <1>2, <1>4, SumStep
  <2> HIDE DEF x
  <2> QED
    BY <1>1, <1>2, <2>1, <2>2, <2>3
<1> QED
  BY <1>3, <1>4

\* A sum depends on the values at its indices only.
LEMMA SumEqual ==
    ASSUME NEW S, IsFiniteSet(S), NEW f, NEW g, \A a \in S : f[a] = g[a]
    PROVE  SumFunctionOnSet(f, S) = SumFunctionOnSet(g, S)
<1> DEFINE P(t) == SumFunctionOnSet(f, t) = SumFunctionOnSet(g, t)
           Bad == {t \in SUBSET S : ~ P(t)}
<1> SUFFICES ASSUME Bad # {} PROVE FALSE
  <2>1. P(S)
    OBVIOUS
  <2> QED
    BY <2>1
<1>1. PICK t \in Bad : \A y \in Bad : y \subseteq t => y = t
  <2>1. Bad \subseteq SUBSET S
    OBVIOUS
  <2> HIDE DEF Bad
  <2> QED
    BY <2>1, MinimalSubset
<1>2. IsFiniteSet(t) /\ t \in SUBSET S
  BY FS_Subset
<1>3. CASE t = {}
  BY <1>1, <1>2, <1>3, SumEmpty
<1>4. CASE t # {}
  <2> DEFINE x == Pick(t)
  <2>1. x \in t /\ t \ {x} \in SUBSET S /\ t \ {x} # t
    BY <1>2, <1>4 DEF Pick
  <2>2. P(t \ {x})
    BY <1>1, <2>1
  <2>3. SumFunctionOnSet(f, t) = f[x] + SumFunctionOnSet(f, t \ {x})
    BY <1>2, <1>4, SumStep
  <2>4. SumFunctionOnSet(g, t) = g[x] + SumFunctionOnSet(g, t \ {x})
    BY <1>2, <1>4, SumStep
  <2> HIDE DEF x
  <2> QED
    BY <1>1, <1>2, <2>1, <2>2, <2>3, <2>4
<1> QED
  BY <1>3, <1>4

\* A sum of zeros.
LEMMA SumZero ==
    ASSUME NEW S, IsFiniteSet(S), NEW f, \A a \in S : f[a] = 0
    PROVE  SumFunctionOnSet(f, S) = 0
<1> DEFINE P(t) == SumFunctionOnSet(f, t) = 0
           Bad == {t \in SUBSET S : ~ P(t)}
<1> SUFFICES ASSUME Bad # {} PROVE FALSE
  <2>1. P(S)
    OBVIOUS
  <2> QED
    BY <2>1
<1>1. PICK t \in Bad : \A y \in Bad : y \subseteq t => y = t
  <2>1. Bad \subseteq SUBSET S
    OBVIOUS
  <2> HIDE DEF Bad
  <2> QED
    BY <2>1, MinimalSubset
<1>2. IsFiniteSet(t) /\ t \in SUBSET S
  BY FS_Subset
<1>3. CASE t = {}
  BY <1>1, <1>2, <1>3, SumEmpty
<1>4. CASE t # {}
  <2> DEFINE x == Pick(t)
  <2>1. x \in t /\ t \ {x} \in SUBSET S /\ t \ {x} # t
    BY <1>2, <1>4 DEF Pick
  <2>2. P(t \ {x})
    BY <1>1, <2>1
  <2>3. SumFunctionOnSet(f, t) = f[x] + SumFunctionOnSet(f, t \ {x})
    BY <1>2, <1>4, SumStep
  <2> HIDE DEF x
  <2> QED
    BY <1>1, <1>2, <2>1, <2>2, <2>3
<1> QED
  BY <1>3, <1>4

\* A sum is what any one index contributes and the sum over the others.
LEMMA SumAny ==
    ASSUME NEW S, IsFiniteSet(S), NEW f, \A c \in S : f[c] \in Int, NEW a \in S
    PROVE  SumFunctionOnSet(f, S) = f[a] + SumFunctionOnSet(f, S \ {a})
<1> DEFINE P(t) == \A b \in t : SumFunctionOnSet(f, t) = f[b] + SumFunctionOnSet(f, t \ {b})
           Bad == {t \in SUBSET S : ~ P(t)}
<1> SUFFICES ASSUME Bad # {} PROVE FALSE
  <2>1. P(S)
    OBVIOUS
  <2> QED
    BY <2>1
<1>1. PICK t \in Bad : \A y \in Bad : y \subseteq t => y = t
  <2>1. Bad \subseteq SUBSET S
    OBVIOUS
  <2> HIDE DEF Bad
  <2> QED
    BY <2>1, MinimalSubset
<1>2. IsFiniteSet(t) /\ t \in SUBSET S
  BY FS_Subset
<1>3. PICK b \in t : SumFunctionOnSet(f, t) # f[b] + SumFunctionOnSet(f, t \ {b})
  OBVIOUS
<1> DEFINE x == Pick(t)
<1>4. x \in t
  BY <1>3 DEF Pick
<1>5. SumFunctionOnSet(f, t) = f[x] + SumFunctionOnSet(f, t \ {x})
  BY <1>2, <1>4, SumStep
<1> HIDE DEF x
<1>6. x # b
  BY <1>3, <1>5
<1>7. t \ {x} \notin Bad /\ t \ {b} \notin Bad
  BY <1>1, <1>3, <1>4
<1>8. SumFunctionOnSet(f, t \ {x}) = f[b] + SumFunctionOnSet(f, (t \ {x}) \ {b})
  BY <1>2, <1>3, <1>6, <1>7
<1>9. SumFunctionOnSet(f, t \ {b}) = f[x] + SumFunctionOnSet(f, (t \ {b}) \ {x})
  BY <1>2, <1>4, <1>6, <1>7
<1>10. (t \ {x}) \ {b} = (t \ {b}) \ {x}
  OBVIOUS
<1>11. f[x] \in Int /\ f[b] \in Int
  BY <1>2, <1>3, <1>4
<1>12. SumFunctionOnSet(f, (t \ {b}) \ {x}) \in Int
  <2>1. IsFiniteSet((t \ {b}) \ {x})
    BY <1>2, FS_Subset
  <2> QED
    BY <1>2, <2>1, SumInt
<1> DEFINE r == SumFunctionOnSet(f, (t \ {b}) \ {x})
<1>13. SumFunctionOnSet(f, t) = f[x] + (f[b] + r)
  BY <1>5, <1>8, <1>10
<1>14. f[b] + SumFunctionOnSet(f, t \ {b}) = f[b] + (f[x] + r)
  BY <1>9
<1>15. f[x] + (f[b] + r) = f[b] + (f[x] + r)
  <2> HIDE DEF r
  <2> QED
    BY <1>11, <1>12 DEF r
<1> QED
  BY <1>3, <1>13, <1>14, <1>15

\* Two families that differ at one index.
LEMMA SumChange ==
    ASSUME NEW S, IsFiniteSet(S), NEW f, NEW g, NEW a \in S,
           \A c \in S : f[c] \in Int /\ g[c] \in Int,
           \A c \in S \ {a} : f[c] = g[c]
    PROVE  SumFunctionOnSet(g, S) = SumFunctionOnSet(f, S) - f[a] + g[a]
<1>1. IsFiniteSet(S \ {a})
  BY FS_RemoveElement
<1>2. SumFunctionOnSet(f, S \ {a}) = SumFunctionOnSet(g, S \ {a})
  BY <1>1, SumEqual
<1>3. SumFunctionOnSet(f, S \ {a}) \in Int
  BY <1>1, SumInt
<1>4. /\ SumFunctionOnSet(f, S) = f[a] + SumFunctionOnSet(f, S \ {a})
      /\ SumFunctionOnSet(g, S) = g[a] + SumFunctionOnSet(g, S \ {a})
  BY SumAny
<1> QED
  BY <1>2, <1>3, <1>4

\* The sum of two families, index by index.
LEMMA SumPlus ==
    ASSUME NEW S, IsFiniteSet(S), NEW f, NEW g, NEW h,
           \A a \in S : f[a] \in Int /\ g[a] \in Int /\ h[a] = f[a] + g[a]
    PROVE  SumFunctionOnSet(h, S) = SumFunctionOnSet(f, S) + SumFunctionOnSet(g, S)
<1> DEFINE P(t) == SumFunctionOnSet(h, t) = SumFunctionOnSet(f, t) + SumFunctionOnSet(g, t)
           Bad == {t \in SUBSET S : ~ P(t)}
<1> SUFFICES ASSUME Bad # {} PROVE FALSE
  <2>1. P(S)
    OBVIOUS
  <2> QED
    BY <2>1
<1>1. PICK t \in Bad : \A y \in Bad : y \subseteq t => y = t
  <2>1. Bad \subseteq SUBSET S
    OBVIOUS
  <2> HIDE DEF Bad
  <2> QED
    BY <2>1, MinimalSubset
<1>2. IsFiniteSet(t) /\ t \in SUBSET S
  BY FS_Subset
<1>3. CASE t = {}
  BY <1>1, <1>2, <1>3, SumEmpty
<1>4. CASE t # {}
  <2> DEFINE x == Pick(t)
  <2>1. x \in t /\ t \ {x} \in SUBSET S /\ t \ {x} # t
    BY <1>2, <1>4 DEF Pick
  <2>2. P(t \ {x})
    BY <1>1, <2>1
  <2>f. IsFiniteSet(t \ {x})
    BY <1>2, FS_RemoveElement
  <2>3. SumFunctionOnSet(f, t) = f[x] + SumFunctionOnSet(f, t \ {x})
    BY <1>2, <1>4, SumStep
  <2>4. f[x] \in Int /\ SumFunctionOnSet(f, t \ {x}) \in Int
    BY <1>2, <2>1, <2>f, SumInt
  <2>5. SumFunctionOnSet(g, t) = g[x] + SumFunctionOnSet(g, t \ {x})
    BY <1>2, <1>4, SumStep
  <2>6. g[x] \in Int /\ SumFunctionOnSet(g, t \ {x}) \in Int
    BY <1>2, <2>1, <2>f, SumInt
  <2>7. SumFunctionOnSet(h, t) = h[x] + SumFunctionOnSet(h, t \ {x})
    BY <1>2, <1>4, SumStep
  <2>8. h[x] \in Int /\ SumFunctionOnSet(h, t \ {x}) \in Int
    BY <1>2, <2>1, <2>f, SumInt
  <2> HIDE DEF x
  <2> QED
    BY <1>1, <1>2, <2>1, <2>2, <2>3, <2>4, <2>5, <2>6, <2>7, <2>8
<1> QED
  BY <1>3, <1>4

\* Two families that differ by the same amount at each index.
LEMMA SumMinus ==
    ASSUME NEW S, IsFiniteSet(S), NEW f, NEW g, NEW h,
           \A a \in S : f[a] \in Int /\ g[a] \in Int /\ h[a] = f[a] - g[a]
    PROVE  SumFunctionOnSet(h, S) = SumFunctionOnSet(f, S) - SumFunctionOnSet(g, S)
<1>1. \A a \in S : h[a] \in Int /\ f[a] = h[a] + g[a]
  OBVIOUS
<1>2. SumFunctionOnSet(f, S) = SumFunctionOnSet(h, S) + SumFunctionOnSet(g, S)
  BY <1>1, SumPlus
<1>3. SumFunctionOnSet(h, S) \in Int /\ SumFunctionOnSet(g, S) \in Int
  BY <1>1, SumInt
<1> QED
  BY <1>2, <1>3

\* Fewer natural numbers add up to no more, and none of them is more than the sum.
LEMMA SumSubset ==
    ASSUME NEW S, IsFiniteSet(S), NEW f, \A a \in S : f[a] \in Nat, NEW T \in SUBSET S
    PROVE  SumFunctionOnSet(f, T) \leq SumFunctionOnSet(f, S)
<1> DEFINE P(t) == T \subseteq t => SumFunctionOnSet(f, T) \leq SumFunctionOnSet(f, t)
           Bad == {t \in SUBSET S : ~ P(t)}
<1> SUFFICES ASSUME Bad # {} PROVE FALSE
  <2>1. P(S)
    OBVIOUS
  <2> QED
    BY <2>1
<1>1. PICK t \in Bad : \A y \in Bad : y \subseteq t => y = t
  <2>1. Bad \subseteq SUBSET S
    OBVIOUS
  <2> HIDE DEF Bad
  <2> QED
    BY <2>1, MinimalSubset
<1>2. IsFiniteSet(t) /\ t \in SUBSET S /\ T \subseteq t
  BY FS_Subset
<1>3. SumFunctionOnSet(f, t) \in Nat
  BY <1>2, SumNat
<1>4. CASE T = t
  BY <1>1, <1>3, <1>4
<1>5. CASE T # t
  <2>1. PICK x \in t : x \notin T
    BY <1>2, <1>5
  <2>2. SumFunctionOnSet(f, t) = f[x] + SumFunctionOnSet(f, t \ {x})
    BY <1>2, SumAny
  <2>3. T \subseteq t \ {x} /\ t \ {x} \in SUBSET S /\ t \ {x} # t /\ IsFiniteSet(T)
    BY <1>2, <2>1, FS_Subset
  <2>4. SumFunctionOnSet(f, T) \leq SumFunctionOnSet(f, t \ {x})
    BY <1>1, <2>3
  <2>5. IsFiniteSet(t \ {x})
    BY <1>2, FS_RemoveElement
  <2>6. f[x] \in Nat /\ SumFunctionOnSet(f, t \ {x}) \in Nat /\ SumFunctionOnSet(f, T) \in Nat
    BY <1>2, <2>3, <2>5, SumNat
  <2> QED
    BY <1>1, <2>2, <2>4, <2>6
<1> QED
  BY <1>4, <1>5

LEMMA SumBounds ==
    ASSUME NEW S, IsFiniteSet(S), NEW f, \A c \in S : f[c] \in Nat, NEW a \in S
    PROVE  f[a] \leq SumFunctionOnSet(f, S)
<1>1. IsFiniteSet(S \ {a})
  BY FS_RemoveElement
<1>2. SumFunctionOnSet(f, S \ {a}) \in Nat
  BY <1>1, SumNat
<1>3. SumFunctionOnSet(f, S) = f[a] + SumFunctionOnSet(f, S \ {a})
  BY SumAny
<1> QED
  BY <1>2, <1>3

\* Counting as a sum.
LEMMA SumCount ==
    ASSUME NEW S, IsFiniteSet(S), NEW T, NEW f,
           \A a \in S : f[a] = IF a \in T THEN 1 ELSE 0
    PROVE  SumFunctionOnSet(f, S) = Cardinality(S \cap T)
<1> DEFINE P(t) == SumFunctionOnSet(f, t) = Cardinality(t \cap T)
           Bad == {t \in SUBSET S : ~ P(t)}
<1> SUFFICES ASSUME Bad # {} PROVE FALSE
  <2>1. P(S)
    OBVIOUS
  <2> QED
    BY <2>1
<1>1. PICK t \in Bad : \A y \in Bad : y \subseteq t => y = t
  <2>1. Bad \subseteq SUBSET S
    OBVIOUS
  <2> HIDE DEF Bad
  <2> QED
    BY <2>1, MinimalSubset
<1>2. IsFiniteSet(t) /\ t \in SUBSET S
  BY FS_Subset
<1>3. CASE t = {}
  <2>1. t \cap T = {}
    BY <1>3
  <2> QED
    BY <1>1, <1>3, <2>1, SumEmpty, FS_EmptySet
<1>4. CASE t # {}
  <2> DEFINE x == Pick(t)
             u == (t \ {x}) \cap T
  <2>1. x \in t /\ t \ {x} \in SUBSET S /\ t \ {x} # t
    BY <1>2, <1>4 DEF Pick
  <2>2. P(t \ {x})
    BY <1>1, <2>1
  <2>3. SumFunctionOnSet(f, t) = f[x] + SumFunctionOnSet(f, t \ {x})
    BY <1>2, <1>4, SumStep
  <2>4. IsFiniteSet(u) /\ Cardinality(u) \in Nat
    <3>1. u \in SUBSET S
      BY <2>1
    <3> HIDE DEF u
    <3> QED
      BY <3>1, FS_Subset, FS_CardinalityType
  <2>5. CASE x \in T
    <3>1. t \cap T = u \cup {x} /\ x \notin u
      BY <2>1, <2>5
    <3>2. Cardinality(t \cap T) = Cardinality(u) + 1
      <4> HIDE DEF u
      <4> QED
        BY <2>4, <3>1, FS_AddElement
    <3>3. f[x] = 1
      BY <1>2, <2>1, <2>5
    <3> HIDE DEF x
    <3> QED
      BY <1>1, <2>2, <2>3, <2>4, <3>2, <3>3
  <2>6. CASE x \notin T
    <3>1. t \cap T = u
      BY <2>1, <2>6
    <3>2. f[x] = 0
      BY <1>2, <2>1, <2>6
    <3>3. SumFunctionOnSet(f, t) = 0 + Cardinality(u)
      BY <2>2, <2>3, <3>2
    <3>4. SumFunctionOnSet(f, t) = Cardinality(t \cap T)
      <4>1. Cardinality(t \cap T) = Cardinality(u)
        BY <3>1, Zenon
      <4> HIDE DEF u, P
      <4> QED
        BY <2>4, <3>3, <4>1
    <3> QED
      BY <1>1, <3>4
  <2> QED
    BY <2>5, <2>6
<1> QED
  BY <1>3, <1>4

\* A function that is zero outside T sums up what f has in T.
LEMMA SumRestrict ==
    ASSUME NEW S, IsFiniteSet(S), NEW T \in SUBSET S, NEW f, NEW g,
           \A a \in S : f[a] \in Int /\ g[a] = IF a \in T THEN f[a] ELSE 0
    PROVE  SumFunctionOnSet(g, S) = SumFunctionOnSet(f, T)
<1> DEFINE P(t) == SumFunctionOnSet(g, t) = SumFunctionOnSet(f, t \cap T)
           Bad == {t \in SUBSET S : ~ P(t)}
<1> SUFFICES ASSUME Bad # {} PROVE FALSE
  <2>1. S \cap T = T
    OBVIOUS
  <2>2. P(S) => SumFunctionOnSet(g, S) = SumFunctionOnSet(f, T)
    BY <2>1, Zenon
  <2>3. S \in SUBSET S
    OBVIOUS
  <2> HIDE DEF P
  <2> QED
    BY <2>2, <2>3
<1>1. PICK t \in Bad : \A y \in Bad : y \subseteq t => y = t
  <2>1. Bad \subseteq SUBSET S
    OBVIOUS
  <2> HIDE DEF Bad
  <2> QED
    BY <2>1, MinimalSubset
<1>2. IsFiniteSet(t) /\ t \in SUBSET S
  BY FS_Subset
<1>3. CASE t = {}
  <2>1. t \cap T = {}
    BY <1>3
  <2>2. SumFunctionOnSet(f, t \cap T) = 0
    BY <2>1, SumEmpty
  <2> QED
    BY <1>1, <1>3, <2>2, SumEmpty
<1>4. CASE t # {}
  <2> DEFINE x == Pick(t)
             u == (t \ {x}) \cap T
  <2>1. x \in t /\ t \ {x} \in SUBSET S /\ t \ {x} # t
    BY <1>2, <1>4 DEF Pick
  <2>2. P(t \ {x})
    BY <1>1, <2>1
  <2>3. SumFunctionOnSet(g, t) = g[x] + SumFunctionOnSet(g, t \ {x})
    BY <1>2, <1>4, SumStep
  <2>4. SumFunctionOnSet(f, u) \in Int
    <3>1. IsFiniteSet(u) /\ \A a \in u : f[a] \in Int
      <4>1. u \in SUBSET S
        BY <2>1
      <4> HIDE DEF u
      <4> QED
        BY <4>1, FS_Subset
    <3> HIDE DEF u
    <3> QED
      BY <3>1, SumInt
  <2>5. CASE x \in T
    <3>1. (t \cap T) \ {x} = u /\ x \in t \cap T
      BY <2>1, <2>5
    <3>2. IsFiniteSet(t \cap T) /\ \A a \in t \cap T : f[a] \in Int
      <4>1. t \cap T \in SUBSET S
        OBVIOUS
      <4> QED
        BY <4>1, FS_Subset
    <3>3. SumFunctionOnSet(f, t \cap T) = f[x] + SumFunctionOnSet(f, (t \cap T) \ {x})
      <4>1. x \in t \cap T
        BY <3>1
      <4> HIDE DEF x
      <4> QED
        BY <4>1, <3>2, SumAny
    <3>4. SumFunctionOnSet(f, t \cap T) = f[x] + SumFunctionOnSet(f, u)
      BY <3>1, <3>3, Zenon
    <3>5. g[x] = f[x]
      BY <1>2, <2>1, <2>5
    <3>6. SumFunctionOnSet(g, t) = f[x] + SumFunctionOnSet(f, u)
      BY <2>2, <2>3, <3>5
    <3> QED
      BY <1>1, <3>4, <3>6
  <2>6. CASE x \notin T
    <3>1. t \cap T = u
      BY <2>1, <2>6
    <3>2. g[x] = 0
      BY <1>2, <2>1, <2>6
    <3>3. SumFunctionOnSet(g, t) = 0 + SumFunctionOnSet(f, u)
      BY <2>2, <2>3, <3>2
    <3>4. SumFunctionOnSet(g, t) = SumFunctionOnSet(f, t \cap T)
      <4>1. SumFunctionOnSet(f, t \cap T) = SumFunctionOnSet(f, u)
        BY <3>1, Zenon
      <4> HIDE DEF u, P
      <4> QED
        BY <2>4, <3>3, <4>1
    <3> QED
      BY <1>1, <3>4
  <2> QED
    BY <2>5, <2>6
<1> QED
  BY <1>3, <1>4
=============================================================================
