----------------------------- MODULE SumTheorems -----------------------------
(* What the fold SumFunctionOnSet adds up to, for any finite set: nothing for  *)
(* the empty set, one term more for every element, in whatever order the fold  *)
(* chooses them. The facts are proved from a least counterexample, for the     *)
(* provers cannot instantiate an induction theorem.                            *)
EXTENDS Integers, FiniteSets, Functions, FiniteSetTheorems, WellFoundedInduction, TLAPS

Pick(s) == CHOOSE x \in s : TRUE

\* One step of the fold.
Unfold(w, f, s) == IF s = {} THEN 0 ELSE w[Pick(s)] + f[s \ {Pick(s)}]

\* The function by which the fold of w over S is defined.
SumUpTo(w, S) == CHOOSE f : f = [s \in SUBSET S |-> Unfold(w, f, s)]

LEMMA SumIsUpTo == ASSUME NEW w, NEW S PROVE SumFunctionOnSet(w, S) = SumUpTo(w, S)[S]
  BY DEF SumFunctionOnSet, FoldFunctionOnSet, MapThenFoldSet, SumUpTo, Unfold, Pick

LEMMA PickOne == ASSUME NEW s, s # {} PROVE Pick(s) \in s
  BY DEF Pick

\* A set of subsets of a finite set has a smallest one.
LEMMA SmallestSubset ==
  ASSUME NEW S, IsFiniteSet(S), NEW T \in SUBSET SUBSET S, T # {}
  PROVE  \E t \in T : \A s \in SUBSET t : s # t => s \notin T
<1>1. PICK t \in T : \A s \in T : <<s, t>> \notin StrictSubsetOrdering(S)
  BY FS_StrictSubsetOrderingWellFounded, FS_FiniteSubsetsOfFinite, WFMin
<1>2. ASSUME NEW s \in SUBSET t, s # t, s \in T PROVE FALSE
  <2>1. <<s, t>> \in StrictSubsetOrdering(S)
    BY <1>2 DEF StrictSubsetOrdering
  <2>2. QED
    BY <1>1, <1>2, <2>1
<1>3. QED
  BY <1>1, <1>2

\* A recursion over the subsets of a finite set has a solution.
LEMMA UnfoldingExists ==
  ASSUME NEW w, NEW S, IsFiniteSet(S)
  PROVE  \E f : f = [s \in SUBSET S |-> Unfold(w, f, s)]
<1> DEFINE Solves(f, n) == \A s \in SUBSET S : Cardinality(s) <= n => f[s] = Unfold(w, f, s)
           Missing == {n \in Nat : ~ \E f : Solves(f, n)}
<1>1. \A s \in SUBSET S : IsFiniteSet(s) /\ Cardinality(s) \in Nat
  BY FS_Subset, FS_CardinalityType
<1>2. \A s \in SUBSET S : s # {} => /\ s \ {Pick(s)} \in SUBSET S
                                    /\ Cardinality(s \ {Pick(s)}) = Cardinality(s) - 1
  BY <1>1, PickOne, FS_RemoveElement
<1>3. \A s \in SUBSET S : Cardinality(s) = 0 => s = {}
  BY <1>1, FS_EmptySet
<1>4. ASSUME Missing # {} PROVE FALSE
  <2>1. PICK n \in Missing : \A m \in Missing : <<m, n>> \notin OpToRel(<, Nat)
    BY <1>4, NatLessThanWellFounded, WFMin
  <2>2. n \in Nat /\ \A m \in Nat : m < n => m \notin Missing
    BY <2>1 DEF OpToRel
  <2>3. CASE n = 0
    <3> DEFINE g == [s \in SUBSET S |-> 0]
    <3>1. ASSUME NEW s \in SUBSET S, Cardinality(s) <= 0 PROVE g[s] = Unfold(w, g, s)
      BY <1>1, <1>3, <3>1 DEF Unfold
    <3>2. Solves(g, 0)
      BY <3>1
    <3>3. QED
      BY <3>2, <2>3, <2>1
  <2>4. CASE n # 0
    <3> HIDE DEF Missing
    <3>1. n - 1 \in Nat /\ n - 1 \notin Missing
      BY <2>2, <2>4
    <3> USE DEF Missing
    <3>2. PICK f : Solves(f, n - 1)
      BY <3>1
    <3> DEFINE g == [s \in SUBSET S |-> IF Cardinality(s) <= n - 1 THEN f[s] ELSE Unfold(w, f, s)]
    <3>3. ASSUME NEW s \in SUBSET S, Cardinality(s) <= n PROVE g[s] = Unfold(w, g, s)
      <4>1. g[s] = Unfold(w, f, s)
        BY <3>2
      <4>2. CASE s = {}
        BY <4>1, <4>2 DEF Unfold
      <4>3. CASE s # {}
        <5>1. s \ {Pick(s)} \in SUBSET S /\ Cardinality(s \ {Pick(s)}) <= n - 1
          BY <1>1, <1>2, <3>1, <3>3, <4>3
        <5>2. g[s \ {Pick(s)}] = f[s \ {Pick(s)}]
          BY <5>1
        <5>3. QED
          BY <4>1, <4>3, <5>2 DEF Unfold
      <4>4. QED
        BY <4>2, <4>3
    <3>4. Solves(g, n)
      BY <3>3
    <3>5. QED
      BY <3>4, <2>1
  <2>5. QED
    BY <2>3, <2>4
<1>5. PICK f : Solves(f, Cardinality(S))
  BY <1>1, <1>4
<1> DEFINE h == [s \in SUBSET S |-> f[s]]
<1>6. ASSUME NEW s \in SUBSET S PROVE h[s] = Unfold(w, h, s)
  <2>1. Cardinality(s) <= Cardinality(S)
    BY FS_Subset
  <2>2. h[s] = Unfold(w, f, s)
    BY <1>5, <2>1
  <2>3. s # {} => h[s \ {Pick(s)}] = f[s \ {Pick(s)}]
    BY <1>2
  <2>4. QED
    BY <2>2, <2>3 DEF Unfold
<1> DEFINE k == [s \in SUBSET S |-> Unfold(w, h, s)]
<1>7. h = k
  <2>1. \A s \in SUBSET S : h[s] = k[s]
    BY <1>6
  <2>2. QED
    BY <2>1
<1>8. QED
  BY <1>7
LEMMA SumUnfolds ==
  ASSUME NEW w, NEW S, IsFiniteSet(S)
  PROVE  \A s \in SUBSET S : SumUpTo(w, S)[s] = Unfold(w, SumUpTo(w, S), s)
<1> DEFINE f == SumUpTo(w, S)
<1>1. f = [s \in SUBSET S |-> Unfold(w, f, s)]
  BY UnfoldingExists DEF SumUpTo
<1> HIDE DEF f
<1>2. \A s \in SUBSET S : f[s] = Unfold(w, f, s)
  BY <1>1, Zenon
<1>3. QED
  BY <1>2 DEF f

\* The sum over a set is the same in a larger set, and with other terms outside of it.
LEMMA SumsAgree ==
  ASSUME NEW w, NEW v, NEW S, IsFiniteSet(S), NEW T \in SUBSET S, \A x \in T : w[x] = v[x]
  PROVE  \A s \in SUBSET T : SumUpTo(w, S)[s] = SumUpTo(v, T)[s]
<1> DEFINE Differing == {s \in SUBSET T : SumUpTo(w, S)[s] # SumUpTo(v, T)[s]}
<1>1. IsFiniteSet(T)
  BY FS_Subset
<1>2. ASSUME Differing # {} PROVE FALSE
  <2>0. Differing \in SUBSET SUBSET T
    OBVIOUS
  <2> HIDE DEF Differing
  <2>1. PICK t \in Differing : \A s \in SUBSET t : s # t => s \notin Differing
    BY <1>1, <1>2, <2>0, SmallestSubset
  <2> USE DEF Differing
  <2>2. /\ SumUpTo(w, S)[t] = Unfold(w, SumUpTo(w, S), t)
        /\ SumUpTo(v, T)[t] = Unfold(v, SumUpTo(v, T), t)
    BY <1>1, SumUnfolds
  <2>3. CASE t = {}
    BY <2>1, <2>2, <2>3 DEF Unfold
  <2>4. CASE t # {}
    <3>1. Pick(t) \in t /\ w[Pick(t)] = v[Pick(t)]
      BY <2>4, PickOne
    <3>2. SumUpTo(w, S)[t \ {Pick(t)}] = SumUpTo(v, T)[t \ {Pick(t)}]
      BY <2>1, <3>1
    <3>3. QED
      BY <2>1, <2>2, <2>4, <3>1, <3>2 DEF Unfold
  <2>5. QED
    BY <2>3, <2>4
<1>3. QED
  BY <1>2

\* Only the terms of the set count.
LEMMA SumSame ==
  ASSUME NEW w, NEW v, NEW S, IsFiniteSet(S), \A x \in S : w[x] = v[x]
  PROVE  SumFunctionOnSet(w, S) = SumFunctionOnSet(v, S)
  BY SumsAgree, SumIsUpTo

LEMMA SumWithin ==
  ASSUME NEW w, NEW S, IsFiniteSet(S), NEW T \in SUBSET S
  PROVE  SumFunctionOnSet(w, T) = SumUpTo(w, S)[T]
  BY SumsAgree, SumIsUpTo

LEMMA SumEmpty == ASSUME NEW w PROVE SumFunctionOnSet(w, {}) = 0
  BY SumUnfolds, SumIsUpTo, FS_EmptySet DEF Unfold

\* One term is chosen and the rest is added to it.
LEMMA SumPicks ==
  ASSUME NEW w, NEW S, IsFiniteSet(S), S # {}
  PROVE  SumFunctionOnSet(w, S) = w[Pick(S)] + SumFunctionOnSet(w, S \ {Pick(S)})
<1>1. S \in SUBSET S /\ S \ {Pick(S)} \in SUBSET S
  OBVIOUS
<1>2. SumUpTo(w, S)[S] = w[Pick(S)] + SumUpTo(w, S)[S \ {Pick(S)}]
  BY <1>1, SumUnfolds DEF Unfold
<1>3. QED
  BY <1>1, <1>2, SumIsUpTo, SumWithin

\* The sum of integers is one, and of naturals.
LEMMA SumInt ==
  ASSUME NEW w, NEW S, IsFiniteSet(S), NEW N, N = Int \/ N = Nat, \A x \in S : w[x] \in N
  PROVE  SumFunctionOnSet(w, S) \in N
<1> DEFINE Bad == {s \in SUBSET S : SumFunctionOnSet(w, s) \notin N}
<1>1. ASSUME Bad # {} PROVE FALSE
  <2>0. Bad \in SUBSET SUBSET S
    OBVIOUS
  <2> HIDE DEF Bad
  <2>1. PICK t \in Bad : \A s \in SUBSET t : s # t => s \notin Bad
    BY <1>1, <2>0, SmallestSubset
  <2> USE DEF Bad
  <2>2. IsFiniteSet(t)
    BY FS_Subset
  <2>3. CASE t = {}
    BY <2>1, <2>3, SumEmpty
  <2>4. CASE t # {}
    <3>1. Pick(t) \in t /\ SumFunctionOnSet(w, t \ {Pick(t)}) \in N
      BY <2>1, <2>4, PickOne
    <3>2. SumFunctionOnSet(w, t) = w[Pick(t)] + SumFunctionOnSet(w, t \ {Pick(t)})
      BY <2>2, <2>4, SumPicks
    <3>3. w[Pick(t)] \in N
      BY <3>1
    <3>4. QED
      BY <2>1, <3>1, <3>2, <3>3
  <2>5. QED
    BY <2>3, <2>4
<1>2. QED
  BY <1>1

\* Whatever the order in which the fold chooses, a sum has one term more for
\* every element.
LEMMA SumElement ==
  ASSUME NEW w, NEW S, IsFiniteSet(S), \A y \in S : w[y] \in Int, NEW x \in S
  PROVE  SumFunctionOnSet(w, S) = w[x] + SumFunctionOnSet(w, S \ {x})
<1> DEFINE Splits(s) == \A y \in s : SumFunctionOnSet(w, s) = w[y] + SumFunctionOnSet(w, s \ {y})
           Bad == {s \in SUBSET S : ~Splits(s)}
<1>1. ASSUME Bad # {} PROVE FALSE
  <2>0. Bad \in SUBSET SUBSET S
    OBVIOUS
  <2> HIDE DEF Bad
  <2>1. PICK t \in Bad : \A s \in SUBSET t : s # t => s \notin Bad
    BY <1>1, <2>0, SmallestSubset
  <2> USE DEF Bad
  <2>2. PICK y \in t : SumFunctionOnSet(w, t) # w[y] + SumFunctionOnSet(w, t \ {y})
    BY <2>1
  <2> DEFINE c == Pick(t)
  <2>3. c \in t
    BY <2>2, PickOne
  <2>4. IsFiniteSet(t) /\ IsFiniteSet(t \ {c}) /\ IsFiniteSet(t \ {y})
    BY <2>1, FS_Subset
  <2>5. SumFunctionOnSet(w, t) = w[c] + SumFunctionOnSet(w, t \ {c})
    BY <2>2, <2>4, SumPicks
  <2> HIDE DEF c
  <2>6. c # y
    BY <2>2, <2>5
  <2>7. /\ t \ {c} \in SUBSET t /\ t \ {c} # t /\ t \ {c} \in SUBSET S
        /\ t \ {y} \in SUBSET t /\ t \ {y} # t /\ t \ {y} \in SUBSET S
    BY <2>1, <2>2, <2>3
  <2>8. Splits(t \ {c}) /\ Splits(t \ {y})
    BY <2>1, <2>7
  <2>9. /\ SumFunctionOnSet(w, t \ {c}) = w[y] + SumFunctionOnSet(w, (t \ {c}) \ {y})
        /\ SumFunctionOnSet(w, t \ {y}) = w[c] + SumFunctionOnSet(w, (t \ {y}) \ {c})
    BY <2>2, <2>3, <2>6, <2>8
  <2>10. (t \ {c}) \ {y} = (t \ {y}) \ {c}
    OBVIOUS
  <2>11. /\ w[c] \in Int /\ w[y] \in Int
         /\ SumFunctionOnSet(w, (t \ {c}) \ {y}) \in Int
    <3>1. IsFiniteSet((t \ {c}) \ {y}) /\ (t \ {c}) \ {y} \in SUBSET S
      BY <2>4, <2>7, FS_Subset
    <3>2. QED
      BY <3>1, <2>1, <2>2, <2>3, SumInt
  <2> DEFINE rest == SumFunctionOnSet(w, (t \ {c}) \ {y})
  <2>12. /\ SumFunctionOnSet(w, t) = w[c] + (w[y] + rest)
         /\ SumFunctionOnSet(w, t \ {y}) = w[c] + rest
    BY <2>5, <2>9, <2>10
  <2>13. rest \in Int
    BY <2>11
  <2> HIDE DEF rest
  <2>14. w[c] + (w[y] + rest) = w[y] + (w[c] + rest)
    BY <2>11, <2>13
  <2>15. QED
    BY <2>2, <2>12, <2>14
<1>2. S \notin Bad
  BY <1>1
<1>3. QED
  BY <1>2

\* A sum is that of a part and of the rest.
LEMMA SumUnion ==
  ASSUME NEW w, NEW S, IsFiniteSet(S), \A y \in S : w[y] \in Int, NEW T \in SUBSET S
  PROVE  SumFunctionOnSet(w, S) = SumFunctionOnSet(w, T) + SumFunctionOnSet(w, S \ T)
<1> DEFINE Splits(s) ==
             SumFunctionOnSet(w, S) = SumFunctionOnSet(w, s) + SumFunctionOnSet(w, S \ s)
           Bad == {s \in SUBSET S : ~Splits(s)}
<1>1. ASSUME Bad # {} PROVE FALSE
  <2>0. Bad \in SUBSET SUBSET S
    OBVIOUS
  <2> HIDE DEF Bad
  <2>1. PICK t \in Bad : \A s \in SUBSET t : s # t => s \notin Bad
    BY <1>1, <2>0, SmallestSubset
  <2> USE DEF Bad
  <2>2. CASE t = {}
    <3>1. S \ t = S /\ SumFunctionOnSet(w, t) = 0
      BY <2>2, SumEmpty
    <3>2. SumFunctionOnSet(w, S) \in Int
      BY SumInt
    <3>3. Splits(t)
      BY <3>1, <3>2
    <3>4. QED
      BY <2>1, <3>3
  <2>3. CASE t # {}
    <3> DEFINE x == Pick(t)
               r == t \ {x}
               o == S \ t
    <3>1. x \in t /\ t \in SUBSET S
      BY <2>1, <2>3, PickOne
    <3>2. Splits(r)
      BY <2>1, <3>1
    <3>3. IsFiniteSet(t) /\ IsFiniteSet(r) /\ IsFiniteSet(o) /\ IsFiniteSet(S \ r)
      BY <3>1, FS_Subset
    <3>4. SumFunctionOnSet(w, t) = w[x] + SumFunctionOnSet(w, r)
      BY <3>1, <3>3, SumElement
    <3>5. SumFunctionOnSet(w, S \ r) = w[x] + SumFunctionOnSet(w, o)
      <4>1. x \in S \ r /\ (S \ r) \ {x} = o
        BY <3>1
      <4>2. SumFunctionOnSet(w, S \ r) = w[x] + SumFunctionOnSet(w, (S \ r) \ {x})
        BY <3>3, <4>1, SumElement
      <4>3. QED
        BY <4>1, <4>2
    <3>6. SumFunctionOnSet(w, r) \in Int /\ SumFunctionOnSet(w, o) \in Int /\ w[x] \in Int
      BY <3>1, <3>3, SumInt
    <3> HIDE DEF x, r, o
    <3>7. ~Splits(t)
      BY <2>1
    <3>8. o = S \ t
      BY DEF o
    <3>9. QED
      BY <3>2, <3>4, <3>5, <3>6, <3>7, <3>8
  <2>4. QED
    BY <2>2, <2>3
<1>2. QED
  BY <1>1

\* The sum of sums.
LEMMA SumAdd ==
  ASSUME NEW h, NEW f, NEW g, NEW S, IsFiniteSet(S),
         \A x \in S : f[x] \in Int /\ g[x] \in Int /\ h[x] = f[x] + g[x]
  PROVE  SumFunctionOnSet(h, S) = SumFunctionOnSet(f, S) + SumFunctionOnSet(g, S)
<1> DEFINE Adds(s) == SumFunctionOnSet(h, s) = SumFunctionOnSet(f, s) + SumFunctionOnSet(g, s)
           Bad == {s \in SUBSET S : ~Adds(s)}
<1>1. ASSUME Bad # {} PROVE FALSE
  <2>0. Bad \in SUBSET SUBSET S
    OBVIOUS
  <2> HIDE DEF Bad
  <2>1. PICK t \in Bad : \A s \in SUBSET t : s # t => s \notin Bad
    BY <1>1, <2>0, SmallestSubset
  <2> USE DEF Bad
  <2>2. CASE t = {}
    BY <2>1, <2>2, SumEmpty
  <2>3. CASE t # {}
    <3> DEFINE x == Pick(t)
               r == t \ {x}
    <3>1. x \in t /\ t \in SUBSET S
      BY <2>1, <2>3, PickOne
    <3>2. Adds(r)
      BY <2>1, <3>1
    <3>3. IsFiniteSet(t) /\ IsFiniteSet(r)
      BY <3>1, FS_Subset
    <3>4. /\ SumFunctionOnSet(h, t) = h[x] + SumFunctionOnSet(h, r)
          /\ SumFunctionOnSet(f, t) = f[x] + SumFunctionOnSet(f, r)
          /\ SumFunctionOnSet(g, t) = g[x] + SumFunctionOnSet(g, r)
      BY <2>3, <3>3, SumPicks
    <3>5. (\A y \in r : f[y] \in Int) /\ \A y \in r : g[y] \in Int
      BY <3>1
    <3>6. SumFunctionOnSet(f, r) \in Int /\ SumFunctionOnSet(g, r) \in Int
      BY <3>3, <3>5, SumInt
    <3>7. h[x] = f[x] + g[x] /\ f[x] \in Int /\ g[x] \in Int
      BY <3>1
    <3>8. ~Adds(t)
      BY <2>1
    <3> HIDE DEF x, r
    <3>9. QED
      BY <3>2, <3>4, <3>6, <3>7, <3>8
  <2>4. QED
    BY <2>2, <2>3
<1>2. QED
  BY <1>1

\* Nothing adds up to nothing.
LEMMA SumZero ==
  ASSUME NEW w, NEW S, IsFiniteSet(S), \A x \in S : w[x] = 0
  PROVE  SumFunctionOnSet(w, S) = 0
<1> DEFINE total == SumFunctionOnSet(w, S)
<1>1. total = total + total
  BY SumAdd
<1>2. total \in Int
  <2>1. \A x \in S : w[x] \in Int
    OBVIOUS
  <2>2. QED
    BY <2>1, SumInt
<1> HIDE DEF total
<1>3. total = 0
  BY <1>1, <1>2
<1>4. QED
  BY <1>3 DEF total

\* A sum of naturals grows with its set.
LEMMA SumGrows ==
  ASSUME NEW w, NEW S, IsFiniteSet(S), \A y \in S : w[y] \in Nat,
         NEW x \in S, NEW T \in SUBSET (S \ {x})
  PROVE  /\ SumFunctionOnSet(w, T) \in Nat /\ SumFunctionOnSet(w, S) \in Nat
         /\ SumFunctionOnSet(w, S) >= w[x] + SumFunctionOnSet(w, T)
<1> DEFINE R == S \ {x}
           O == R \ T
<1>1. (\A y \in S : w[y] \in Int) /\ (\A y \in R : w[y] \in Int) /\ w[x] \in Nat
  OBVIOUS
<1>2. (\A y \in T : w[y] \in Nat) /\ (\A y \in O : w[y] \in Nat)
  OBVIOUS
<1>3. IsFiniteSet(R) /\ IsFiniteSet(T) /\ IsFiniteSet(O)
  BY FS_Subset
<1>4. SumFunctionOnSet(w, S) = w[x] + SumFunctionOnSet(w, R)
  BY <1>1, SumElement
<1>5. SumFunctionOnSet(w, R) = SumFunctionOnSet(w, T) + SumFunctionOnSet(w, O)
  BY <1>1, <1>3, SumUnion
<1>6. SumFunctionOnSet(w, T) \in Nat /\ SumFunctionOnSet(w, O) \in Nat
  BY <1>2, <1>3, SumInt
<1> HIDE DEF R, O
<1>7. QED
  BY <1>1, <1>4, <1>5, <1>6

\* One element may become two, or move, if what it is worth does not change.
LEMMA SumParts ==
  ASSUME NEW w, NEW v, NEW S, NEW T, IsFiniteSet(S), IsFiniteSet(T),
         NEW k \in S, NEW x \in T, NEW y \in T, x # y, T \ {x, y} = S \ {k},
         \A j \in S : w[j] \in Int, \A j \in S \ {k} : v[j] = w[j],
         v[x] \in Int, v[y] \in Int, v[x] + v[y] = w[k]
  PROVE  SumFunctionOnSet(v, T) = SumFunctionOnSet(w, S)
<1> DEFINE rest == SumFunctionOnSet(w, S \ {k})
<1>1. IsFiniteSet(S \ {k}) /\ IsFiniteSet(T \ {x})
  BY FS_Subset
<1>2. \A j \in T : v[j] \in Int
  OBVIOUS
<1>3. SumFunctionOnSet(v, T) = v[x] + SumFunctionOnSet(v, T \ {x})
  BY <1>2, SumElement
<1>4. SumFunctionOnSet(v, T \ {x}) = v[y] + SumFunctionOnSet(v, (T \ {x}) \ {y})
  BY <1>1, <1>2, SumElement
<1>5. SumFunctionOnSet(v, (T \ {x}) \ {y}) = rest
  <2>1. (T \ {x}) \ {y} = S \ {k}
    OBVIOUS
  <2>2. SumFunctionOnSet(v, S \ {k}) = rest
    BY <1>1, SumSame
  <2>3. QED
    BY <2>1, <2>2
<1>6. SumFunctionOnSet(w, S) = w[k] + rest
  BY SumElement
<1>7. rest \in Int
  BY <1>1, SumInt
<1> HIDE DEF rest
<1>8. QED
  BY <1>3, <1>4, <1>5, <1>6, <1>7

LEMMA SumMoves ==
  ASSUME NEW w, NEW v, NEW S, IsFiniteSet(S), NEW x \in S, NEW y \in S, x # y,
         \A j \in S : w[j] \in Int, \A j \in S \ {x, y} : v[j] = w[j],
         v[x] = 0, v[y] = w[x], w[y] = 0
  PROVE  SumFunctionOnSet(v, S) = SumFunctionOnSet(w, S)
<1> DEFINE rest == SumFunctionOnSet(w, (S \ {x}) \ {y})
<1>1. IsFiniteSet(S \ {x}) /\ IsFiniteSet((S \ {x}) \ {y})
  BY FS_Subset
<1>2. \A j \in S : v[j] \in Int
  OBVIOUS
<1>3. /\ SumFunctionOnSet(v, S) = v[x] + SumFunctionOnSet(v, S \ {x})
      /\ SumFunctionOnSet(w, S) = w[x] + SumFunctionOnSet(w, S \ {x})
  BY <1>2, SumElement
<1>4. /\ SumFunctionOnSet(v, S \ {x}) = v[y] + SumFunctionOnSet(v, (S \ {x}) \ {y})
      /\ SumFunctionOnSet(w, S \ {x}) = w[y] + rest
  BY <1>1, <1>2, SumElement
<1>5. SumFunctionOnSet(v, (S \ {x}) \ {y}) = rest
  BY <1>1, SumSame
<1>6. rest \in Int
  BY <1>1, SumInt
<1> HIDE DEF rest
<1>7. QED
  BY <1>3, <1>4, <1>5, <1>6

-------------------------------------------------------------------------------
\* A walk over the numbers of S in their order takes from each what it has, until it
\* has taken the limit: t[k] of w[k].
Before(S, k)  == {j \in S : j < k}
Left(w, S, limit, k) == limit - SumFunctionOnSet(w, Before(S, k))
Walks(t, w, S, limit, n) ==
  \A k \in 1..n :
    t[k] = IF k \notin S \/ Left(w, S, limit, k) <= 0 THEN 0
           ELSE IF Left(w, S, limit, k) <= w[k] THEN Left(w, S, limit, k) ELSE w[k]

LEMMA BeforeFinite ==
  ASSUME NEW n \in Nat, NEW S \in SUBSET (1..n), NEW k
  PROVE  IsFiniteSet(S) /\ IsFiniteSet(Before(S, k)) /\ Before(S, k) \in SUBSET S
<1>1. IsFiniteSet(1..n)
  BY FS_Interval
<1>2. Before(S, k) \in SUBSET S
  BY DEF Before
<1>3. QED
  BY <1>1, <1>2, FS_Subset

LEMMA BeforeAll ==
  ASSUME NEW n \in Nat, NEW S, \A k \in S : k \in Nat /\ k <= n PROVE Before(S, n + 1) = S
<1>1. \A k \in S : k < n + 1
  OBVIOUS
<1>2. QED
  BY <1>1 DEF Before

LEMMA BeforeNext ==
  ASSUME NEW S, \A k \in S : k \in Nat, NEW m \in Nat
  PROVE  /\ m \notin Before(S, m)
         /\ Before(S, m + 1) = IF m \in S THEN Before(S, m) \cup {m} ELSE Before(S, m)
<1>1. \A k \in S : k < m + 1 <=> k < m \/ k = m
  OBVIOUS
<1>2. QED
  BY <1>1 DEF Before

LEMMA BeforeNone == ASSUME NEW S, \A k \in S : k \in Nat /\ 1 <= k PROVE Before(S, 1) = {}
  BY DEF Before

LEMMA BeforeGrows ==
  ASSUME NEW S, \A k \in S : k \in Nat, NEW j \in S, NEW k \in S, j < k
  PROVE  Before(S, j) \in SUBSET (Before(S, k) \ {j}) /\ j \in Before(S, k)
  BY DEF Before

\* It takes the limit, or all there is.
LEMMA WalkTakes ==
  ASSUME NEW n \in Nat, NEW S \in SUBSET (1..n), NEW w, \A k \in S : w[k] \in Nat,
         NEW limit \in Nat, NEW t, Walks(t, w, S, limit, n)
  PROVE  SumFunctionOnSet(t, 1..n) =
           IF SumFunctionOnSet(w, S) <= limit THEN SumFunctionOnSet(w, S) ELSE limit
<1> DEFINE P(m) == SumFunctionOnSet(w, Before(S, m + 1))
           T(m) == SumFunctionOnSet(t, 1..m)
           Good(m) == T(m) = IF P(m) <= limit THEN P(m) ELSE limit
           Bad == {m \in 0..n : ~Good(m)}
<1>0. \A k \in S : k \in 1..n /\ k \in Nat /\ k <= n /\ 1 <= k
  OBVIOUS
<1>1. \A m \in Nat : P(m) \in Nat
  <2>1. SUFFICES ASSUME NEW m \in Nat PROVE P(m) \in Nat
    OBVIOUS
  <2>2. /\ IsFiniteSet(Before(S, m + 1)) /\ \A k \in Before(S, m + 1) : w[k] \in Nat
    BY BeforeFinite
  <2>3. QED
    BY <2>2, SumInt
<1>2. \A k \in 1..n : t[k] \in Int
  <2>1. SUFFICES ASSUME NEW k \in 1..n PROVE t[k] \in Int
    OBVIOUS
  <2>2. k - 1 \in Nat /\ (k - 1) + 1 = k
    OBVIOUS
  <2>3. SumFunctionOnSet(w, Before(S, k)) \in Nat
    BY <1>1, <2>2
  <2>4. Left(w, S, limit, k) \in Int
    BY <2>3 DEF Left
  <2>5. QED
    BY <2>4 DEF Walks
<1>3. ASSUME Bad # {} PROVE FALSE
  <2>1. PICK m \in Bad : \A k \in Bad : <<k, m>> \notin OpToRel(<, Nat)
    <3>1. Bad \in SUBSET Nat
      OBVIOUS
    <3> HIDE DEF Bad
    <3>2. QED
      BY <1>3, <3>1, NatLessThanWellFounded, WFMin
  <2>2. m \in Nat /\ m <= n /\ ~Good(m)
    <3> HIDE DEF Good
    <3>1. m \in 0..n /\ ~Good(m)
      BY <2>1
    <3>2. QED
      BY <3>1
  <2>3. CASE m = 0
    <3>1. 1..m = {} /\ Before(S, m + 1) = {}
      <4>1. m + 1 = 1 /\ 1..m = {}
        BY <2>3
      <4>2. Before(S, 1) = {}
        BY <1>0, BeforeNone
      <4>3. QED
        BY <4>1, <4>2
    <3>2. T(m) = 0 /\ P(m) = 0
      BY <3>1, SumEmpty
    <3>3. QED
      BY <2>2, <3>2
  <2>4. CASE m > 0
    <3> DEFINE k == m - 1
    <3>1. k \in 0..n /\ k \in Nat /\ k < m /\ k + 1 = m
      BY <2>2, <2>4
    <3>2. <<k, m>> \in OpToRel(<, Nat)
      BY <2>2, <3>1 DEF OpToRel
    <3>3. Good(k)
      BY <2>1, <3>1, <3>2
    <3>4. T(m) = t[m] + T(k)
      <4>1. IsFiniteSet(1..m) /\ m \in 1..m /\ \A i \in 1..m : t[i] \in Int
        BY <1>2, <2>2, <2>4, FS_Interval
      <4>3. (1..m) \ {m} = 1..k
        BY <2>2, <2>4, <3>1
      <4>2. SumFunctionOnSet(t, 1..m) = t[m] + SumFunctionOnSet(t, (1..m) \ {m})
        BY <4>1, SumElement
      <4>4. QED
        BY <4>2, <4>3
    <3>12. /\ m \notin Before(S, m)
           /\ Before(S, m + 1) = IF m \in S THEN Before(S, m) \cup {m} ELSE Before(S, m)
      BY <1>0, <2>2, BeforeNext
    <3>5. P(m) = IF m \in S THEN w[m] + P(k) ELSE P(k)
      <4>1. CASE m \in S
        <5>1. m \in Before(S, m + 1) /\ Before(S, m + 1) \ {m} = Before(S, k + 1)
          BY <3>1, <3>12, <4>1
        <5>2. IsFiniteSet(Before(S, m + 1)) /\ \A i \in Before(S, m + 1) : w[i] \in Int
          <6>1. \A i \in S : w[i] \in Int
            OBVIOUS
          <6>2. QED
            BY <6>1, BeforeFinite
        <5>3. SumFunctionOnSet(w, Before(S, m + 1)) = w[m] + SumFunctionOnSet(w, Before(S, m + 1) \ {m})
          BY <5>1, <5>2, SumElement
        <5>4. QED
          BY <4>1, <5>1, <5>3
      <4>2. CASE m \notin S
        <5>1. Before(S, m + 1) = Before(S, k + 1)
          BY <3>1, <3>12, <4>2
        <5>2. QED
          BY <4>2, <5>1
      <4>3. QED
        BY <4>1, <4>2
    <3>6. Left(w, S, limit, m) = limit - P(k)
      BY <3>1 DEF Left
    <3>7. t[m] = IF m \notin S \/ limit - P(k) <= 0 THEN 0
                 ELSE IF limit - P(k) <= w[m] THEN limit - P(k) ELSE w[m]
      BY <2>2, <2>4, <3>6 DEF Walks
    <3>8. m \in S => w[m] \in Nat
      OBVIOUS
    <3>9. P(k) \in Nat
      BY <1>1, <3>1
    <3>10. ~Good(m)
      BY <2>2
    <3> HIDE DEF P, T, k
    <3>11. QED
      BY <3>3, <3>4, <3>5, <3>7, <3>8, <3>9, <3>10
  <2>5. QED
    BY <2>2, <2>3, <2>4
<1>4. Good(n)
  BY <1>3
<1>5. Before(S, n + 1) = S
  BY <1>0, BeforeAll
<1>6. QED
  BY <1>4, <1>5

\* A walk takes no more than there is.
LEMMA WalkBounds ==
  ASSUME NEW n \in Nat, NEW S \in SUBSET (1..n), NEW w, \A k \in S : w[k] \in Nat,
         NEW limit \in Nat, NEW t, Walks(t, w, S, limit, n), NEW k \in 1..n
  PROVE  /\ t[k] \in Nat /\ (t[k] > 0 => k \in S) /\ (k \in S => t[k] <= w[k])
<1>1. \A j \in S : j \in 1..n
  OBVIOUS
<1>2. IsFiniteSet(Before(S, k)) /\ \A j \in Before(S, k) : w[j] \in Nat
  BY BeforeFinite
<1>3. SumFunctionOnSet(w, Before(S, k)) \in Nat
  BY <1>2, SumInt
<1>4. Left(w, S, limit, k) \in Int
  BY <1>3 DEF Left
<1>5. t[k] = IF k \notin S \/ Left(w, S, limit, k) <= 0 THEN 0
             ELSE IF Left(w, S, limit, k) <= w[k] THEN Left(w, S, limit, k) ELSE w[k]
  BY DEF Walks
<1>6. QED
  BY <1>4, <1>5

\* It takes a part of one element at most.
LEMMA WalkCutsOne ==
  ASSUME NEW n \in Nat, NEW S \in SUBSET (1..n), NEW w, \A k \in S : w[k] \in Nat,
         NEW limit \in Nat, NEW t, Walks(t, w, S, limit, n),
         NEW j \in 1..n, t[j] > 0, t[j] # w[j], NEW k \in 1..n, t[k] > 0, j < k
  PROVE  FALSE
<1>1. j \in S /\ k \in S
  BY DEF Walks
<1> DEFINE A == Before(S, j)
           B == Before(S, k)
<1>2. IsFiniteSet(B) /\ (\A i \in B : w[i] \in Nat) /\ (\A i \in B : w[i] \in Int)
  <2>1. \A i \in S : w[i] \in Int
    OBVIOUS
  <2>2. IsFiniteSet(B) /\ B \in SUBSET S
    BY BeforeFinite
  <2> HIDE DEF B
  <2>3. QED
    BY <2>1, <2>2
<1>3. A \in SUBSET (B \ {j}) /\ j \in B
  <2>1. \A i \in S : i \in Nat
    OBVIOUS
  <2>2. QED
    BY <1>1, <2>1, BeforeGrows
<1> HIDE DEF A, B
<1>4. /\ SumFunctionOnSet(w, A) \in Nat /\ SumFunctionOnSet(w, B) \in Nat
      /\ SumFunctionOnSet(w, B) >= w[j] + SumFunctionOnSet(w, A)
  BY <1>2, <1>3, SumGrows
<1>8. /\ limit - SumFunctionOnSet(w, A) > 0
      /\ limit - SumFunctionOnSet(w, A) < w[j]
  <2>1. Left(w, S, limit, j) = limit - SumFunctionOnSet(w, A)
    BY DEF Left, A
  <2>2. w[j] \in Nat
    BY <1>1
  <2>3. QED
    BY <1>1, <1>4, <2>1, <2>2 DEF Walks
<1>9. limit - SumFunctionOnSet(w, B) > 0
  <2>1. Left(w, S, limit, k) = limit - SumFunctionOnSet(w, B)
    BY DEF Left, B
  <2>2. QED
    BY <1>1, <1>4, <2>1 DEF Walks
<1>10. w[j] \in Nat
  BY <1>1
<1>11. QED
  BY <1>4, <1>8, <1>9, <1>10
=============================================================================
