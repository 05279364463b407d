------------------------------ MODULE SumProofs ------------------------------
(***************************************************************************)
(* What a sum of amounts is: nothing for no rows, and one row more adds    *)
(* its amount, whichever row it is.  The library folds a set in the order  *)
(* in which CHOOSE takes its elements; the first lemmas show that this     *)
(* recursion has a value on finite sets, the last that the order does not  *)
(* matter.                                                                 *)
(***************************************************************************)
EXTENDS BackendProperties, FiniteSetTheorems, TLAPS

\* Where induction starts: among finite sets that are bad, one is smallest.
LEMMA SmallestSet ==
  ASSUME NEW S, IsFiniteSet(S), NEW Bad \in SUBSET (SUBSET S), Bad # {}
  PROVE  \E t \in Bad : \A u \in SUBSET t : u # t => u \notin Bad
<1>1. Bad \subseteq FiniteSubsetsOf(S)
  BY FS_FiniteSubsetsOfFinite
<1>2. PICK t \in Bad : \A u \in Bad : <<u, t>> \notin StrictSubsetOrdering(S)
  <2>1. IsWellFoundedOn(StrictSubsetOrdering(S), FiniteSubsetsOf(S))
    BY FS_StrictSubsetOrderingWellFounded
  <2> HIDE DEF StrictSubsetOrdering, FiniteSubsetsOf
  <2> QED
    BY <1>1, <2>1, WFMin
<1>3. ASSUME NEW u \in SUBSET t, u # t, u \in Bad PROVE FALSE
  BY <1>2, <1>3 DEF StrictSubsetOrdering
<1> QED
  BY <1>3

-----------------------------------------------------------------------------
\* The element that the fold takes out of s first.
Drawn(s) == CHOOSE x \in s : TRUE

\* g has the value of the sum on every subset of S.
Sums(g, S) ==
  g = [s \in SUBSET S |-> IF s = {} THEN 0 ELSE Drawn(s).amount + g[s \ {Drawn(s)}]]

SumOn(S) == CHOOSE g : Sums(g, S)

LEMMA TotalIsSum ==
  ASSUME NEW S
  PROVE  Total(S) = SumOn(S)[S]
BY DEF Total, MapThenSumSet, MapThenFoldSet, SumOn, Sums, Drawn

LEMMA DrawnFrom ==
  ASSUME NEW s, s # {}
  PROVE  Drawn(s) \in s /\ s \ {Drawn(s)} \subseteq s /\ s \ {Drawn(s)} # s
BY DEF Drawn

LEMMA SumsUnfold ==
  ASSUME NEW S, NEW g, Sums(g, S), NEW s \in SUBSET S
  PROVE  g[s] = IF s = {} THEN 0 ELSE Drawn(s).amount + g[s \ {Drawn(s)}]
<1> DEFINE h == [t \in SUBSET S |-> IF t = {} THEN 0 ELSE Drawn(t).amount + g[t \ {Drawn(t)}]]
<1>1. g = h
  BY DEF Sums
<1>2. h[s] = IF s = {} THEN 0 ELSE Drawn(s).amount + g[s \ {Drawn(s)}]
  OBVIOUS
<1> QED
  BY <1>1, <1>2

\* Two of them agree wherever both are defined.
LEMMA SumsAgree ==
  ASSUME NEW S, IsFiniteSet(S), NEW g, NEW h, Sums(g, S), NEW T, Sums(h, T), T \subseteq S
  PROVE  \A s \in SUBSET T : g[s] = h[s]
<1> DEFINE Bad == {s \in SUBSET T : g[s] # h[s]}
<1> SUFFICES ASSUME Bad # {} PROVE FALSE
  OBVIOUS
<1>1. IsFiniteSet(T)
  BY FS_Subset
<1>2. PICK s \in Bad : \A u \in SUBSET s : u # s => u \notin Bad
  <2>1. Bad \in SUBSET (SUBSET T)
    OBVIOUS
  <2> HIDE DEF Bad
  <2> QED
    BY <1>1, <2>1, SmallestSet
<1>3. s # {}
  BY <1>2, SumsUnfold
<1>4. g[s \ {Drawn(s)}] = h[s \ {Drawn(s)}]
  BY <1>2, <1>3, DrawnFrom
<1>5. g[s] = Drawn(s).amount + g[s \ {Drawn(s)}] /\ h[s] = Drawn(s).amount + h[s \ {Drawn(s)}]
  BY <1>3, SumsUnfold
<1> QED
  BY <1>4, <1>5

LEMMA SumsExist ==
  ASSUME NEW S, IsFiniteSet(S)
  PROVE  Sums(SumOn(S), S)
<1> DEFINE Bad == {s \in SUBSET S : ~ Sums(SumOn(s), s)}
<1> SUFFICES ASSUME Bad # {} PROVE FALSE
  OBVIOUS
<1>1. PICK t \in Bad : \A u \in SUBSET t : u # t => u \notin Bad
  <2>1. Bad \in SUBSET (SUBSET S)
    OBVIOUS
  <2> HIDE DEF Bad
  <2> QED
    BY <2>1, SmallestSet
<1> DEFINE value(u) == SumOn(u)[u]
           h == [s \in SUBSET t |-> IF s = {} THEN 0
                                    ELSE Drawn(s).amount + value(s \ {Drawn(s)})]
<1>2. ASSUME NEW s \in SUBSET t, s # {}
      PROVE  value(s \ {Drawn(s)}) = h[s \ {Drawn(s)}]
  <2> DEFINE u == s \ {Drawn(s)}
  <2>1. u \in SUBSET t /\ u # t
    BY <1>2, DrawnFrom
  <2>2. Sums(SumOn(u), u) /\ IsFiniteSet(u)
    BY <1>1, <2>1, FS_Subset
  <2>3. CASE u = {}
    BY <2>2, <2>3, SumsUnfold
  <2>4. CASE u # {}
    <3> DEFINE v == u \ {Drawn(u)}
    <3>1. v \subseteq u /\ v \in SUBSET t /\ v # t
      BY <2>1, <2>4, DrawnFrom
    <3>2. Sums(SumOn(v), v)
      BY <1>1, <3>1
    <3>3. SumOn(u)[v] = SumOn(v)[v]
      BY <2>2, <3>1, <3>2, SumsAgree
    <3>4. SumOn(u)[u] = Drawn(u).amount + SumOn(u)[v]
      <4> HIDE DEF u
      <4> QED
        BY <2>2, <2>4, SumsUnfold
    <3>5. h[u] = Drawn(u).amount + value(v)
      BY <2>1, <2>4
    <3> QED
      BY <3>3, <3>4, <3>5
  <2> QED
    BY <2>3, <2>4
<1>3. Sums(h, t)
  <2> DEFINE k == [s \in SUBSET t |-> IF s = {} THEN 0
                                      ELSE Drawn(s).amount + h[s \ {Drawn(s)}]]
  <2>1. \A s \in SUBSET t : h[s] = k[s]
    BY <1>2
  <2>2. h = k
    BY <2>1
  <2> QED
    BY <2>2 DEF Sums
<1> QED
  BY <1>1, <1>3 DEF SumOn

-----------------------------------------------------------------------------
LEMMA TotalOfNone == Total({}) = 0
BY TotalIsSum, SumsExist, SumsUnfold, FS_EmptySet

LEMMA TotalUnfold ==
  ASSUME NEW S, IsFiniteSet(S), S # {}
  PROVE  Total(S) = Drawn(S).amount + Total(S \ {Drawn(S)})
<1> DEFINE T == S \ {Drawn(S)}
<1>1. T \subseteq S /\ IsFiniteSet(T)
  BY DrawnFrom, FS_Subset
<1>2. SumOn(S)[T] = SumOn(T)[T]
  BY <1>1, SumsExist, SumsAgree
<1>3. SumOn(S)[S] = Drawn(S).amount + SumOn(S)[T]
  BY SumsExist, SumsUnfold
<1> QED
  BY <1>2, <1>3, TotalIsSum

\* A sum of natural numbers is one.
LEMMA TotalNat ==
  ASSUME NEW S, IsFiniteSet(S), \A r \in S : r.amount \in Nat
  PROVE  Total(S) \in Nat
<1> DEFINE Bad == {s \in SUBSET S : Total(s) \notin Nat}
<1> SUFFICES ASSUME Bad # {} PROVE FALSE
  OBVIOUS
<1>1. PICK s \in Bad : \A u \in SUBSET s : u # s => u \notin Bad
  <2>1. Bad \in SUBSET (SUBSET S)
    OBVIOUS
  <2> HIDE DEF Bad
  <2> QED
    BY <2>1, SmallestSet
<1>2. Total(s) \notin Nat
  OBVIOUS
<1>3. s # {}
  BY <1>2, TotalOfNone
<1>4. Total(s \ {Drawn(s)}) \in Nat /\ Drawn(s).amount \in Nat
  BY <1>1, <1>3, DrawnFrom
<1>5. Total(s) = Drawn(s).amount + Total(s \ {Drawn(s)})
  BY <1>3, TotalUnfold, FS_Subset
<1> QED
  BY <1>2, <1>4, <1>5

\* Any element can be the one that is taken first.
LEMMA TotalWithout ==
  ASSUME NEW S, IsFiniteSet(S), \A r \in S : r.amount \in Nat, NEW x \in S
  PROVE  Total(S) = x.amount + Total(S \ {x})
<1> DEFINE Bad == {s \in SUBSET S : \E y \in s : Total(s) # y.amount + Total(s \ {y})}
<1> SUFFICES ASSUME Bad # {} PROVE FALSE
  OBVIOUS
<1>1. PICK s \in Bad : \A u \in SUBSET s : u # s => u \notin Bad
  <2>1. Bad \in SUBSET (SUBSET S)
    OBVIOUS
  <2> HIDE DEF Bad
  <2> QED
    BY <2>1, SmallestSet
<1>2. \A u \in SUBSET s : u # s => \A z \in u : Total(u) = z.amount + Total(u \ {z})
  BY <1>1
<1>3. PICK y \in s : Total(s) # y.amount + Total(s \ {y})
  OBVIOUS
<1> DEFINE c == Drawn(s)
           both == s \ {y, c}
<1>4. c \in s /\ Total(s) = c.amount + Total(s \ {c})
  BY <1>3, DrawnFrom, TotalUnfold, FS_Subset
<1>5. y # c
  BY <1>3, <1>4
<1>6. Total(s \ {c}) = y.amount + Total(both)
  <2>1. s \ {c} \in SUBSET s /\ s \ {c} # s /\ y \in s \ {c} /\ (s \ {c}) \ {y} = both
    BY <1>4, <1>5
  <2> QED
    BY <1>2, <2>1
<1>7. Total(s \ {y}) = c.amount + Total(both)
  <2>1. s \ {y} \in SUBSET s /\ s \ {y} # s /\ c \in s \ {y} /\ (s \ {y}) \ {c} = both
    BY <1>4, <1>5
  <2> QED
    BY <1>2, <2>1
<1>8. Total(both) \in Nat /\ y.amount \in Nat /\ c.amount \in Nat
  BY <1>3, <1>4, TotalNat, FS_Subset
<1> QED
  BY <1>3, <1>4, <1>6, <1>7, <1>8

\* The fact that the books need: one row more adds its amount.
LEMMA TotalAdd ==
  ASSUME NEW S, IsFiniteSet(S), \A r \in S : r.amount \in Nat, NEW x, x \notin S, x.amount \in Nat
  PROVE  Total(S \union {x}) = Total(S) + x.amount
<1>1. IsFiniteSet(S \union {x}) /\ (S \union {x}) \ {x} = S
  BY FS_AddElement
<1>2. Total(S \union {x}) = x.amount + Total(S)
  BY <1>1, TotalWithout
<1> QED
  BY <1>2, TotalNat
=============================================================================
