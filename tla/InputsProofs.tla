---------------------------- MODULE InputsProofs -----------------------------
(***************************************************************************)
(* What the manager network sees, says and learns from, for games of every *)
(* length, every stored row and every way asks can fail: the live inputs   *)
(* are those of the game's own rows, both decoders read an answer alike,   *)
(* and a data set is what was stored.                                      *)
(***************************************************************************)
EXTENDS Inputs, FiniteSetTheorems, NaturalsInduction, WellFoundedInduction, TLAPS

(* Induction over the naturals, as a fact about sets: it is what the sums  *)
(* below are reasoned about with.                                          *)

\* A set of naturals that is not empty has a least member.
LEMMA Least ==
  ASSUME NEW T \in SUBSET Nat, T # {}
  PROVE  \E x \in T : \A y \in T : x <= y
<1> DEFINE R == {ss \in Nat \X Nat : ss[1] < ss[2]}
<1>1. OpToRel(<, Nat) = R
  BY DEF OpToRel
<1>2. IsWellFoundedOn(R, Nat)
  BY <1>1, NatLessThanWellFounded
<1> HIDE DEF R
<1>3. PICK x \in T : \A y \in T : ~(<<y, x>> \in R)
  BY <1>2, WFMin
<1> USE DEF R
<1>4. ASSUME NEW y \in T PROVE x <= y
  <2>1. SUFFICES ASSUME y < x PROVE FALSE
    OBVIOUS
  <2>2. <<y, x>> \in Nat \X Nat /\ <<y, x>>[1] < <<y, x>>[2]
    BY <2>1
  <2> QED BY <2>2, <1>3
<1> QED BY <1>4

\* A set that has 0 and, with every number, the next is all of Nat.
LEMMA Induction ==
  ASSUME NEW T \in SUBSET Nat, 0 \in T, \A n \in T : n + 1 \in T
  PROVE  T = Nat
<1>1. SUFFICES ASSUME Nat \ T # {} PROVE FALSE
  OBVIOUS
<1>2. PICK x \in Nat \ T : \A y \in Nat \ T : x <= y
  BY <1>1, Least
<1>3. x - 1 \in Nat
  BY <1>2
<1>4. x - 1 \in T
  BY <1>2, <1>3
<1> QED BY <1>2, <1>3, <1>4

-----------------------------------------------------------------------------
(* Sums of a function over a finite set (SumFunctionOnSet, which takes out *)
(* the elements in an order of its own).                                   *)

\* The element a sum takes out of s.
Pick(s) == CHOOSE x \in s : TRUE

\* t adds f up over every subset of S.
Adds(t, f, S) ==
  /\ t[{}] = 0
  /\ \A s \in SUBSET S : s # {} => t[s] = f[Pick(s)] + t[s \ {Pick(s)}]

AddsIntegers(t, f, S) == t \in [SUBSET S -> Int] /\ Adds(t, f, S)

\* What is picked is there.
LEMMA PickIn ==
  ASSUME NEW s, s # {}
  PROVE  Pick(s) \in s
BY DEF Pick

\* A finite set without one of its elements is smaller by one.
LEMMA Shrinks ==
  ASSUME NEW s, IsFiniteSet(s), NEW x \in s
  PROVE  /\ IsFiniteSet(s \ {x}) 
         /\ Cardinality(s) \in Nat /\ Cardinality(s \ {x}) \in Nat
         /\ Cardinality(s \ {x}) = Cardinality(s) - 1
BY FS_RemoveElement, FS_CardinalityType

\* Every finite set of integers can be added up.
LEMMA AddsExists ==
  ASSUME NEW S, IsFiniteSet(S), NEW f, \A x \in S : f[x] \in Int
  PROVE  \E t \in [SUBSET S -> Int] : Adds(t, f, S)
<1> DEFINE U(n) == {s \in SUBSET S : Cardinality(s) <= n}
           P(n, t) == /\ t \in [U(n) -> Int]
                      /\ t[{}] = 0
                      /\ \A s \in U(n) : s # {} => t[s] = f[Pick(s)] + t[s \ {Pick(s)}]
           T == {n \in Nat : \E t : P(n, t)}
<1>0. \A s \in SUBSET S : IsFiniteSet(s) /\ Cardinality(s) \in Nat
  BY FS_Subset, FS_CardinalityType
<1>1. 0 \in T
  <2>1. U(0) = {{}}
    BY <1>0, FS_EmptySet
  <2>2. P(0, [s \in U(0) |-> 0])
    BY <2>1
  <2> QED BY <2>2
<1>2. ASSUME NEW n \in T PROVE n + 1 \in T
  <2>1. PICK t : P(n, t)
    BY <1>2
  <2> DEFINE u == [s \in U(n + 1) |-> IF s \in U(n) THEN t[s]
                                      ELSE f[Pick(s)] + t[s \ {Pick(s)}]]
  <2>2. {} \in U(n) /\ {} \in U(n + 1)
    BY FS_EmptySet
  <2>3. ASSUME NEW s \in U(n + 1), s # {}
        PROVE  Pick(s) \in S /\ s \ {Pick(s)} \in U(n) /\ s \ {Pick(s)} \in U(n + 1)
    <3>1. Pick(s) \in s
      BY <2>3, PickIn
    <3>2. IsFiniteSet(s) /\ s \in SUBSET S /\ Cardinality(s) <= n + 1
      BY <1>0
    <3>3. Cardinality(s \ {Pick(s)}) = Cardinality(s) - 1 /\ Cardinality(s) \in Nat
      BY <3>1, <3>2, Shrinks
    <3> QED BY <3>1, <3>2, <3>3
  <2>4. \A s \in U(n + 1) : s \notin U(n) => s # {}
    BY <2>2
  <2>5. u \in [U(n + 1) -> Int]
    <3> SUFFICES ASSUME NEW s \in U(n + 1)
                 PROVE  (IF s \in U(n) THEN t[s] ELSE f[Pick(s)] + t[s \ {Pick(s)}]) \in Int
      OBVIOUS
    <3>1. CASE s \in U(n)
      BY <3>1, <2>1
    <3>2. CASE s \notin U(n)
      <4>1. s # {}
        BY <3>2, <2>4
      <4>2. f[Pick(s)] \in Int /\ t[s \ {Pick(s)}] \in Int
        BY <4>1, <2>3, <2>1
      <4> QED BY <3>2, <4>2
    <3> QED BY <3>1, <3>2
  <2>6. u[{}] = 0
    BY <2>1, <2>2
  <2>7. ASSUME NEW s \in U(n + 1), s # {}
        PROVE  u[s] = f[Pick(s)] + u[s \ {Pick(s)}]
    <3> DEFINE r == s \ {Pick(s)}
    <3>1. r \in U(n) /\ r \in U(n + 1)
      BY <2>3, <2>7
    <3> HIDE DEF r
    <3>2. u[r] = t[r]
      BY <3>1
    <3>3. CASE s \in U(n)
      BY <3>2, <3>3, <2>1, <2>7 DEF r
    <3>4. CASE s \notin U(n)
      BY <3>2, <3>4 DEF r
    <3> QED BY <3>3, <3>4 DEF r
  <2> HIDE DEF u
  <2>8. P(n + 1, u)
    BY <2>5, <2>6, <2>7
  <2>9. n + 1 \in Nat
    OBVIOUS
  <2> HIDE DEF P
  <2> QED BY <2>8, <2>9
<1> HIDE DEF T
<1>3. T = Nat
  BY <1>1, <1>2, Induction DEF T
<1>4. Cardinality(S) \in Nat
  BY FS_CardinalityType
<1>5. PICK t : P(Cardinality(S), t)
  BY <1>3, <1>4 DEF T
<1>6. U(Cardinality(S)) = SUBSET S
  BY FS_Subset
<1> HIDE DEF U
<1>7. t \in [SUBSET S -> Int] /\ Adds(t, f, S)
  BY <1>5, <1>6 DEF Adds
<1> QED BY <1>7

\* Two sums of the same values are the same.
LEMMA AddsUnique ==
  ASSUME NEW S, IsFiniteSet(S), NEW A, NEW B, S \subseteq A, S \subseteq B,
         NEW f, NEW g, \A x \in S : f[x] = g[x],
         NEW t, Adds(t, f, A), NEW u, Adds(u, g, B)
  PROVE  t[S] = u[S]
<1> DEFINE T == {n \in Nat : \A s \in SUBSET S : Cardinality(s) = n => t[s] = u[s]}
<1>0. \A s \in SUBSET S : IsFiniteSet(s) /\ Cardinality(s) \in Nat
  BY FS_Subset, FS_CardinalityType
<1>1. 0 \in T
  BY <1>0, FS_EmptySet DEF Adds
<1>2. ASSUME NEW n \in T PROVE n + 1 \in T
  <2> SUFFICES ASSUME NEW s \in SUBSET S, Cardinality(s) = n + 1 PROVE t[s] = u[s]
    OBVIOUS
  <2>1. s # {}
    BY FS_EmptySet
  <2>2. Pick(s) \in s
    BY <2>1, PickIn
  <2>3. Cardinality(s \ {Pick(s)}) = Cardinality(s) - 1 /\ IsFiniteSet(s)
    BY <1>0, <2>2, Shrinks
  <2>4. t[s \ {Pick(s)}] = u[s \ {Pick(s)}]
    BY <2>3, <2>2
  <2>5. t[s] = f[Pick(s)] + t[s \ {Pick(s)}]
    BY <2>1 DEF Adds
  <2>6. u[s] = g[Pick(s)] + u[s \ {Pick(s)}]
    BY <2>1 DEF Adds
  <2>7. f[Pick(s)] = g[Pick(s)]
    BY <2>2
  <2> QED BY <2>4, <2>5, <2>6, <2>7
<1> HIDE DEF T
<1>3. T = Nat
  BY <1>1, <1>2, Induction DEF T
<1>4. Cardinality(S) \in T
  BY <1>0, <1>3
<1> QED BY <1>4 DEF T

\* Any element may be taken out first.
LEMMA AddsTakeOut ==
  ASSUME NEW S, IsFiniteSet(S), NEW f, \A x \in S : f[x] \in Int,
         NEW t, AddsIntegers(t, f, S), NEW y, y \in S, NEW r, r = S \ {y}
  PROVE  t[S] = f[y] + t[r]
<1> DEFINE T == {n \in Nat : \A s \in SUBSET S : Cardinality(s) = n =>
                                \A x \in s : t[s] = f[x] + t[s \ {x}]}
<1>0. \A s \in SUBSET S : IsFiniteSet(s) /\ Cardinality(s) \in Nat
  BY FS_Subset, FS_CardinalityType
<1>1. 0 \in T
  BY <1>0, FS_EmptySet
<1>2. ASSUME NEW n \in T PROVE n + 1 \in T
  <2> SUFFICES ASSUME NEW s \in SUBSET S, Cardinality(s) = n + 1, NEW x \in s
               PROVE  t[s] = f[x] + t[s \ {x}]
    OBVIOUS
  <2> DEFINE h == Pick(s)
  <2>1. h \in s
    BY PickIn
  <2>2. t[s] = f[h] + t[s \ {h}]
    BY DEF Adds, AddsIntegers
  <2>3. CASE x = h
    BY <2>2, <2>3
  <2>4. CASE x # h
    <3>0. IsFiniteSet(s)
      BY <1>0
    <3>a. Cardinality(s \ {h}) = Cardinality(s) - 1
      BY <3>0, <2>1, Shrinks
    <3>b. Cardinality(s \ {x}) = Cardinality(s) - 1
      BY <3>0, Shrinks
    <3>1. Cardinality(s \ {h}) = n /\ Cardinality(s \ {x}) = n
      BY <3>a, <3>b
    <3>2. x \in s \ {h} /\ h \in s \ {x}
      BY <2>1, <2>4
    <3>3. t[s \ {h}] = f[x] + t[(s \ {h}) \ {x}]
      BY <3>1, <3>2
    <3>4. t[s \ {x}] = f[h] + t[(s \ {x}) \ {h}]
      BY <3>1, <3>2
    <3>5. (s \ {h}) \ {x} = (s \ {x}) \ {h}
      OBVIOUS
    <3>6. f[h] \in Int /\ f[x] \in Int /\ t[(s \ {x}) \ {h}] \in Int
      BY <2>1 DEF Adds, AddsIntegers
    <3> DEFINE z == t[(s \ {x}) \ {h}]
    <3>7. t[s \ {h}] = f[x] + z
      BY <3>3, <3>5, Zenon
    <3>8. t[s] = f[h] + (f[x] + z)
      BY <2>2, <3>7, Zenon
    <3>9. f[h] + (f[x] + z) = f[x] + (f[h] + z)
      <4> HIDE DEF z, h
      <4> QED BY <3>6 DEF z
    <3> QED BY <3>4, <3>8, <3>9, Zenon
  <2> QED BY <2>3, <2>4
<1> HIDE DEF T
<1>3. T = Nat
  BY <1>1, <1>2, Induction DEF T
<1>4. Cardinality(S) \in T
  BY <1>0, <1>3
<1> QED BY <1>4 DEF T

-----------------------------------------------------------------------------
\* The fold of the community modules adds up.
LEMMA SumAdds ==
  ASSUME NEW S, IsFiniteSet(S), NEW f, \A x \in S : f[x] \in Int
  PROVE  \E t \in [SUBSET S -> Int] : Adds(t, f, S) /\ SumFunctionOnSet(f, S) = t[S]
<1> DEFINE fold(t) == [s \in SUBSET S |-> IF s = {} THEN 0
                            ELSE LET x == CHOOSE x \in s : TRUE IN f[x] + t[s \ {x}]]
           iter == CHOOSE t : t = fold(t)
<1>1. SumFunctionOnSet(f, S) = iter[S]
  BY DEF SumFunctionOnSet, FoldFunctionOnSet, MapThenFoldSet
<1>2. PICK t \in [SUBSET S -> Int] : Adds(t, f, S)
  BY AddsExists
<1>3. t = fold(t)
  <2>1. ASSUME NEW s \in SUBSET S PROVE t[s] = fold(t)[s]
    BY <1>2 DEF Adds, Pick
  <2>2. t = [s \in SUBSET S |-> t[s]]
    OBVIOUS
  <2> QED BY <2>1, <2>2
<1>4. iter = fold(iter)
  <2> HIDE DEF fold
  <2> QED BY <1>3
<1> HIDE DEF iter
<1>5. Adds(iter, f, S)
  <2>1. ASSUME NEW s \in SUBSET S PROVE iter[s] = fold(iter)[s]
    <3> HIDE DEF fold
    <3> QED BY <1>4
  <2> QED BY <2>1 DEF Adds, Pick
<1>6. iter[S] = t[S]
  BY <1>2, <1>5, AddsUnique
<1> QED BY <1>1, <1>2, <1>6

\* Nothing adds up to 0.
LEMMA SumEmpty ==
  ASSUME NEW f
  PROVE  SumFunctionOnSet(f, {}) = 0
<1>1. IsFiniteSet({})
  BY FS_EmptySet
<1>2. PICK t : Adds(t, f, {}) /\ SumFunctionOnSet(f, {}) = t[{}]
  BY <1>1, SumAdds
<1> QED BY <1>2 DEF Adds

\* A sum of integers is an integer.
LEMMA SumType ==
  ASSUME NEW S, IsFiniteSet(S), NEW f, \A x \in S : f[x] \in Int
  PROVE  SumFunctionOnSet(f, S) \in Int
<1>1. PICK t \in [SUBSET S -> Int] : SumFunctionOnSet(f, S) = t[S]
  BY SumAdds
<1> QED BY <1>1

\* The same values have the same sum.
LEMMA SumSame ==
  ASSUME NEW S, IsFiniteSet(S), NEW f, NEW g, \A x \in S : f[x] \in Int /\ g[x] = f[x]
  PROVE  SumFunctionOnSet(g, S) = SumFunctionOnSet(f, S)
<1>1. PICK t : Adds(t, f, S) /\ SumFunctionOnSet(f, S) = t[S]
  BY SumAdds
<1>2. \A x \in S : g[x] \in Int
  OBVIOUS
<1>3. PICK u : Adds(u, g, S) /\ SumFunctionOnSet(g, S) = u[S]
  BY <1>2, SumAdds
<1>4. t[S] = u[S]
  BY <1>1, <1>3, AddsUnique
<1> QED BY <1>1, <1>3, <1>4

\* A sum without one of its terms.
LEMMA SumTakeOut ==
  ASSUME NEW S, IsFiniteSet(S), NEW f, \A x \in S : f[x] \in Int, NEW y \in S
  PROVE  SumFunctionOnSet(f, S) = f[y] + SumFunctionOnSet(f, S \ {y})
<1>1. \E t \in [SUBSET S -> Int] : Adds(t, f, S) /\ SumFunctionOnSet(f, S) = t[S]
  BY SumAdds
<1>2. IsFiniteSet(S \ {y})
  BY Shrinks
<1>3. \E u : Adds(u, f, S \ {y}) /\ SumFunctionOnSet(f, S \ {y}) = u[S \ {y}]
  BY <1>2, SumAdds
<1>4. SUFFICES ASSUME NEW t, t \in [SUBSET S -> Int], Adds(t, f, S), SumFunctionOnSet(f, S) = t[S],
                      NEW u, Adds(u, f, S \ {y}), SumFunctionOnSet(f, S \ {y}) = u[S \ {y}]
               PROVE  SumFunctionOnSet(f, S) = f[y] + SumFunctionOnSet(f, S \ {y})
  BY <1>1, <1>3
<1>5. t[S \ {y}] = u[S \ {y}]
  BY <1>2, <1>4, AddsUnique
<1>6. t[S] = f[y] + t[S \ {y}]
  <2>1. AddsIntegers(t, f, S)
    BY <1>4 DEF AddsIntegers
  <2> DEFINE r == S \ {y}
  <2> HIDE DEF r
  <2>2. t[S] = f[y] + t[r]
    BY <2>1, AddsTakeOut DEF r
  <2> QED BY <2>2 DEF r
<1> QED BY <1>4, <1>5, <1>6

\* A sum of which one term changes.
LEMMA SumChanged ==
  ASSUME NEW S, IsFiniteSet(S), NEW f, NEW g, NEW y \in S,
         \A x \in S : f[x] \in Int /\ g[x] \in Int,
         \A x \in S \ {y} : g[x] = f[x]
  PROVE  SumFunctionOnSet(g, S) = SumFunctionOnSet(f, S) + (g[y] - f[y])
<1>1. SumFunctionOnSet(f, S) = f[y] + SumFunctionOnSet(f, S \ {y})
  BY SumTakeOut
<1>2. SumFunctionOnSet(g, S) = g[y] + SumFunctionOnSet(g, S \ {y})
  BY SumTakeOut
<1>3. IsFiniteSet(S \ {y})
  BY Shrinks
<1>4. SumFunctionOnSet(g, S \ {y}) = SumFunctionOnSet(f, S \ {y})
  BY <1>3, SumSame
<1>5. SumFunctionOnSet(f, S \ {y}) \in Int
  BY <1>3, SumType
<1> QED BY <1>1, <1>2, <1>4, <1>5

\* A sum of amounts none of which is negative, or all of which are 0.
LEMMA SumNat ==
  ASSUME NEW S, IsFiniteSet(S), NEW f, \A x \in S : f[x] \in Nat
  PROVE  /\ SumFunctionOnSet(f, S) \in Nat
         /\ \A y \in S : f[y] <= SumFunctionOnSet(f, S)
         /\ (\A x \in S : f[x] = 0) => SumFunctionOnSet(f, S) = 0
<1> DEFINE T == {n \in Nat : \A s \in SUBSET S : Cardinality(s) = n =>
                    /\ SumFunctionOnSet(f, s) \in Nat
                    /\ (\A x \in S : f[x] = 0) => SumFunctionOnSet(f, s) = 0}
<1>0. \A s \in SUBSET S : IsFiniteSet(s) /\ Cardinality(s) \in Nat
  BY FS_Subset, FS_CardinalityType
<1>1. 0 \in T
  BY <1>0, FS_EmptySet, SumEmpty
<1>2. ASSUME NEW n \in T PROVE n + 1 \in T
  <2> SUFFICES ASSUME NEW s \in SUBSET S, Cardinality(s) = n + 1
               PROVE  /\ SumFunctionOnSet(f, s) \in Nat
                      /\ (\A x \in S : f[x] = 0) => SumFunctionOnSet(f, s) = 0
    OBVIOUS
  <2>1. IsFiniteSet(s) /\ s # {}
    BY <1>0, FS_EmptySet
  <2>2. PICK x \in s : TRUE
    BY <2>1
  <2>3. \A z \in s : f[z] \in Int
    OBVIOUS
  <2>4. SumFunctionOnSet(f, s) = f[x] + SumFunctionOnSet(f, s \ {x})
    BY <2>1, <2>3, SumTakeOut
  <2>5. Cardinality(s \ {x}) = Cardinality(s) - 1
    BY <2>1, Shrinks
  <2>6. Cardinality(s \ {x}) = n /\ s \ {x} \in SUBSET S
    BY <2>5
  <2>7. /\ SumFunctionOnSet(f, s \ {x}) \in Nat
        /\ (\A z \in S : f[z] = 0) => SumFunctionOnSet(f, s \ {x}) = 0
    BY <2>6
  <2>8. f[x] \in Nat
    OBVIOUS
  <2> QED BY <2>4, <2>7, <2>8
<1> HIDE DEF T
<1>3. T = Nat
  BY <1>1, <1>2, Induction DEF T
<1>4. \A s \in SUBSET S : /\ SumFunctionOnSet(f, s) \in Nat
                          /\ (\A x \in S : f[x] = 0) => SumFunctionOnSet(f, s) = 0
  BY <1>0, <1>3 DEF T
<1>5. ASSUME NEW y \in S PROVE f[y] <= SumFunctionOnSet(f, S)
  <2>1. \A z \in S : f[z] \in Int
    OBVIOUS
  <2>2. SumFunctionOnSet(f, S) = f[y] + SumFunctionOnSet(f, S \ {y})
    BY <2>1, SumTakeOut
  <2>3. S \ {y} \in SUBSET S
    OBVIOUS
  <2>4. SumFunctionOnSet(f, S \ {y}) \in Nat
    BY <1>4, <2>3
  <2> QED BY <2>2, <2>4
<1>6. S \in SUBSET S
  OBVIOUS
<1> QED BY <1>4, <1>5, <1>6


\* What holds of no element and, with a set, of one element more, holds of every finite set.
LEMMA OneByOne ==
  ASSUME NEW S, IsFiniteSet(S), NEW T \in SUBSET (SUBSET S), {} \in T,
         \A s \in SUBSET S : \A x \in s : s \ {x} \in T => s \in T
  PROVE  \A s \in SUBSET S : s \in T
<1> DEFINE N == {n \in Nat : \A s \in SUBSET S : Cardinality(s) = n => s \in T}
<1>0. \A s \in SUBSET S : IsFiniteSet(s) /\ Cardinality(s) \in Nat
  BY FS_Subset, FS_CardinalityType
<1>1. 0 \in N
  BY <1>0, FS_EmptySet
<1>2. ASSUME NEW n \in N PROVE n + 1 \in N
  <2> SUFFICES ASSUME NEW s \in SUBSET S, Cardinality(s) = n + 1 PROVE s \in T
    OBVIOUS
  <2>1. IsFiniteSet(s) /\ s # {}
    BY <1>0, FS_EmptySet
  <2>2. PICK x \in s : TRUE
    BY <2>1
  <2>3. Cardinality(s \ {x}) = Cardinality(s) - 1
    BY <2>1, Shrinks
  <2>4. Cardinality(s \ {x}) = n /\ s \ {x} \in SUBSET S
    BY <2>3
  <2>5. s \ {x} \in T
    BY <2>4
  <2> QED BY <2>5
<1> HIDE DEF N
<1>3. N = Nat
  BY <1>1, <1>2, Induction DEF N
<1> QED BY <1>0, <1>3 DEF N

\* Two sums taken together, place by place.
LEMMA SumBoth ==
  ASSUME NEW S, IsFiniteSet(S), NEW f, NEW g, NEW h,
         \A x \in S : f[x] \in Int /\ g[x] \in Int /\ h[x] = f[x] + g[x]
  PROVE  SumFunctionOnSet(h, S) = SumFunctionOnSet(f, S) + SumFunctionOnSet(g, S)
<1> DEFINE Sound(s) == SumFunctionOnSet(h, s) = SumFunctionOnSet(f, s) + SumFunctionOnSet(g, s)
           T == {s \in SUBSET S : Sound(s)}
<1>1. {} \in T
  BY SumEmpty
<1>2. ASSUME NEW s \in SUBSET S, NEW x \in s, s \ {x} \in T PROVE s \in T
  <2>1. IsFiniteSet(s) /\ IsFiniteSet(s \ {x})
    BY FS_Subset, Shrinks
  <2>2. \A y \in s : f[y] \in Int /\ g[y] \in Int /\ h[y] \in Int
    OBVIOUS
  <2>3. /\ SumFunctionOnSet(f, s) = f[x] + SumFunctionOnSet(f, s \ {x})
        /\ SumFunctionOnSet(g, s) = g[x] + SumFunctionOnSet(g, s \ {x})
        /\ SumFunctionOnSet(h, s) = h[x] + SumFunctionOnSet(h, s \ {x})
    BY <2>1, <2>2, SumTakeOut
  <2>4. /\ SumFunctionOnSet(f, s \ {x}) \in Int /\ SumFunctionOnSet(g, s \ {x}) \in Int
        /\ SumFunctionOnSet(h, s \ {x}) \in Int
    BY <2>1, <2>2, SumType
  <2>5. Sound(s \ {x}) /\ h[x] = f[x] + g[x] /\ f[x] \in Int /\ g[x] \in Int
    BY <1>2
  <2>6. Sound(s)
    BY <2>3, <2>4, <2>5
  <2> QED BY <2>6
<1>3. T \in SUBSET (SUBSET S) /\ S \in SUBSET S
  OBVIOUS
<1>4. S \in T
  <2> HIDE DEF T
  <2> QED BY <1>1, <1>2, <1>3, OneByOne
<1> QED BY <1>4

\* The sum over two sets that share nothing.
LEMMA SumApart ==
  ASSUME NEW A, NEW B, IsFiniteSet(A), IsFiniteSet(B), A \intersect B = {},
         NEW f, \A x \in A \union B : f[x] \in Int
  PROVE  SumFunctionOnSet(f, A \union B) = SumFunctionOnSet(f, A) + SumFunctionOnSet(f, B)
<1> DEFINE Sound(s) == SumFunctionOnSet(f, A \union s)
                          = SumFunctionOnSet(f, A) + SumFunctionOnSet(f, s)
           T == {s \in SUBSET B : Sound(s)}
<1>1. {} \in T
  <2>1. A \union {} = A /\ SumFunctionOnSet(f, {}) = 0
    BY SumEmpty
  <2>2. SumFunctionOnSet(f, A) \in Int
    BY SumType
  <2> QED BY <2>1, <2>2
<1>2. ASSUME NEW s \in SUBSET B, NEW x \in s, s \ {x} \in T PROVE s \in T
  <2> DEFINE u == A \union s
             v == A \union (s \ {x})
  <2>1. IsFiniteSet(s) /\ IsFiniteSet(s \ {x}) /\ IsFiniteSet(u)
    BY FS_Subset, Shrinks, FS_Union
  <2>2. x \in u /\ u \ {x} = v
    OBVIOUS
  <2>3. \A y \in u : f[y] \in Int
    OBVIOUS
  <2>4. SumFunctionOnSet(f, s) = f[x] + SumFunctionOnSet(f, s \ {x})
    BY <2>1, <2>3, SumTakeOut
  <2>5. SumFunctionOnSet(f, u) = f[x] + SumFunctionOnSet(f, v)
    <3> HIDE DEF u, v
    <3> QED BY <2>1, <2>2, <2>3, SumTakeOut
  <2>6. /\ SumFunctionOnSet(f, s \ {x}) \in Int /\ SumFunctionOnSet(f, A) \in Int
        /\ f[x] \in Int
    BY <2>1, SumType
  <2>7. Sound(s \ {x})
    BY <1>2
  <2>8. Sound(s)
    BY <2>4, <2>5, <2>6, <2>7
  <2> QED BY <2>8
<1>3. T \in SUBSET (SUBSET B) /\ B \in SUBSET B
  OBVIOUS
<1>4. B \in T
  <2> HIDE DEF T
  <2> QED BY <1>1, <1>2, <1>3, OneByOne
<1> QED BY <1>4

\* Of the elements of S, those of key k.
Of(S, key, k) == {x \in S : key[x] = k}
OfAny(S, key, ks) == {x \in S : key[x] \in ks}

\* Adding up by keys leaves nothing out: the sums of the elements of each key add up to that
\* of the elements of all of them.
LEMMA SumByKey ==
  ASSUME NEW S, IsFiniteSet(S), NEW f, \A x \in S : f[x] \in Int, NEW key,
         NEW K, IsFiniteSet(K), NEW g, \A k \in K : g[k] = SumFunctionOnSet(f, Of(S, key, k))
  PROVE  SumFunctionOnSet(g, K) = SumFunctionOnSet(f, OfAny(S, key, K))
<1> DEFINE Sound(ks) == SumFunctionOnSet(g, ks) = SumFunctionOnSet(f, OfAny(S, key, ks))
           T == {ks \in SUBSET K : Sound(ks)}
<1>0. /\ \A k : IsFiniteSet(Of(S, key, k)) /\ \A x \in Of(S, key, k) : f[x] \in Int
      /\ \A ks : IsFiniteSet(OfAny(S, key, ks)) /\ \A x \in OfAny(S, key, ks) : f[x] \in Int
  BY FS_Subset DEF Of, OfAny
<1>1. {} \in T
  <2>1. OfAny(S, key, {}) = {}
    BY DEF OfAny
  <2> QED BY <2>1, SumEmpty
<1>2. ASSUME NEW ks \in SUBSET K, NEW k \in ks, ks \ {k} \in T PROVE ks \in T
  <2> DEFINE A == OfAny(S, key, ks \ {k})
             B == Of(S, key, k)
  <2>1. IsFiniteSet(ks) /\ \A j \in ks : g[j] \in Int
    BY <1>0, FS_Subset, SumType
  <2>2. SumFunctionOnSet(g, ks) = g[k] + SumFunctionOnSet(g, ks \ {k})
    BY <2>1, SumTakeOut
  <2>3. A \intersect B = {} /\ OfAny(S, key, ks) = A \union B
    BY DEF Of, OfAny
  <2>4. /\ IsFiniteSet(A) /\ \A x \in A : f[x] \in Int
        /\ IsFiniteSet(B) /\ \A x \in B : f[x] \in Int
    BY <1>0
  <2>5. SumFunctionOnSet(f, A \union B) = SumFunctionOnSet(f, A) + SumFunctionOnSet(f, B)
    <3> HIDE DEF A, B
    <3> QED BY <2>3, <2>4, SumApart
  <2>6. SumFunctionOnSet(f, A) \in Int /\ SumFunctionOnSet(f, B) \in Int
    <3> HIDE DEF A, B
    <3> QED BY <2>4, SumType
  <2>7. g[k] = SumFunctionOnSet(f, B) /\ SumFunctionOnSet(g, ks \ {k}) = SumFunctionOnSet(f, A)
    BY <1>2
  <2> HIDE DEF A, B
  <2>8. Sound(ks)
    BY <2>2, <2>3, <2>5, <2>6, <2>7
  <2> QED BY <2>8
<1>3. T \in SUBSET (SUBSET K) /\ K \in SUBSET K
  OBVIOUS
<1>4. K \in T
  <2> HIDE DEF T
  <2> QED BY <1>1, <1>2, <1>3, OneByOne
<1> QED BY <1>4

\* f has the sums of the rows of a table, g those of its columns.
SumsOf(f, g, lines, cols, A, B) ==
  /\ IsFiniteSet(A) /\ IsFiniteSet(B)
  /\ \A a \in A, b \in B : lines[a][b] \in Int /\ cols[b][a] = lines[a][b]
  /\ \A a \in A : f[a] = SumFunctionOnSet(lines[a], B)
  /\ \A b \in B : g[b] = SumFunctionOnSet(cols[b], A)

\* Adding up rows first or columns first.
LEMMA SumSwap ==
  ASSUME NEW A, NEW B, NEW m, NEW cols, NEW f, NEW g, SumsOf(f, g, m, cols, A, B)
  PROVE  SumFunctionOnSet(f, A) = SumFunctionOnSet(g, B)
<1> DEFINE col(b) == cols[b]
           upto(s) == [b \in B |-> SumFunctionOnSet(col(b), s)]
           Sound(s) == SumFunctionOnSet(f, s) = SumFunctionOnSet(upto(s), B)
           T == {s \in SUBSET A : Sound(s)}
<1>a. /\ IsFiniteSet(A) /\ IsFiniteSet(B)
      /\ \A a \in A, b \in B : m[a][b] \in Int /\ cols[b][a] = m[a][b]
      /\ \A a \in A : f[a] = SumFunctionOnSet(m[a], B)
      /\ \A b \in B : g[b] = SumFunctionOnSet(cols[b], A)
  BY DEF SumsOf
<1>0. \A b \in B : \A a \in A : col(b)[a] = m[a][b] /\ col(b)[a] \in Int
  BY <1>a
<1>f. \A a \in A : f[a] = SumFunctionOnSet(m[a], B) /\ f[a] \in Int
  BY <1>a, SumType
<1>c. \A s \in SUBSET A, b \in B : SumFunctionOnSet(col(b), s) \in Int
  <2> HIDE DEF col
  <2> QED BY <1>0, <1>a, FS_Subset, SumType
<1>g. \A b \in B : g[b] = SumFunctionOnSet(col(b), A)
  BY <1>a
<1> HIDE DEF col
<1>u. \A s \in SUBSET A, b \in B : upto(s)[b] = SumFunctionOnSet(col(b), s)
                                  /\ upto(s)[b] \in Int
  BY <1>c
<1> HIDE DEF upto
<1>1. {} \in T
  <2>1. \A b \in B : upto({})[b] = 0
    BY <1>u, SumEmpty
  <2>2. SumFunctionOnSet(upto({}), B) = 0
    BY <1>a, <2>1, SumNat
  <2> QED BY <2>2, SumEmpty
<1>2. ASSUME NEW s \in SUBSET A, NEW x \in s, s \ {x} \in T PROVE s \in T
  <2>1. IsFiniteSet(s)
    BY <1>a, FS_Subset
  <2>2. SumFunctionOnSet(f, s) = f[x] + SumFunctionOnSet(f, s \ {x})
    BY <2>1, <1>f, SumTakeOut
  <2>3. ASSUME NEW b \in B
        PROVE  /\ upto(s)[b] = m[x][b] + upto(s \ {x})[b]
               /\ upto(s \ {x})[b] \in Int /\ m[x][b] \in Int
    <3>1. SumFunctionOnSet(col(b), s) = col(b)[x] + SumFunctionOnSet(col(b), s \ {x})
      BY <2>1, <1>0, SumTakeOut
    <3> QED BY <3>1, <1>0, <1>a, <1>u
  <2>4. SumFunctionOnSet(upto(s), B) = SumFunctionOnSet(m[x], B)
                                      + SumFunctionOnSet(upto(s \ {x}), B)
    <3> DEFINE row == m[x]
               less == upto(s \ {x})
               most == upto(s)
    <3>1. /\ IsFiniteSet(B)
          /\ \A b \in B : row[b] \in Int /\ less[b] \in Int /\ most[b] = row[b] + less[b]
      BY <1>a, <2>3
    <3> HIDE DEF row, less, most
    <3>2. SumFunctionOnSet(most, B) = SumFunctionOnSet(row, B) + SumFunctionOnSet(less, B)
      BY <3>1, SumBoth
    <3> QED BY <3>2 DEF row, less, most
  <2>5. Sound(s \ {x}) /\ f[x] = SumFunctionOnSet(m[x], B)
    BY <1>2, <1>f
  <2>6. Sound(s)
    BY <2>2, <2>4, <2>5
  <2> QED BY <2>6
<1>3. T \in SUBSET (SUBSET A) /\ A \in SUBSET A
  OBVIOUS
<1>4. A \in T
  <2> HIDE DEF T
  <2> QED BY <1>1, <1>2, <1>3, <1>a, OneByOne
<1>5. SumFunctionOnSet(g, B) = SumFunctionOnSet(upto(A), B)
  BY <1>a, <1>g, <1>u, SumSame
<1> QED BY <1>4, <1>5

-----------------------------------------------------------------------------
(* What is kept of a sequence. *)

\* How many of the places I there are up to i.
Rank(i, I) == Cardinality({j \in I : j <= i})

LEMMA RankIs ==
  ASSUME NEW N \in Nat, NEW I \in SUBSET (1..N)
  PROVE  /\ IsFiniteSet(I)
         /\ \A i \in I : Rank(i, I) \in 1..Cardinality(I)
         /\ \A i, k \in I : Rank(i, I) = Rank(k, I) => i = k
         /\ \A n \in 1..Cardinality(I) : \E i \in I : Rank(i, I) = n
<1> DEFINE Upto(i) == {j \in I : j <= i}
           c == Cardinality(I)
           rank == [i \in I |-> Rank(i, I)]
<1>1. IsFiniteSet(1..N) /\ IsFiniteSet(I) /\ c \in Nat
  <2>1. IsFiniteSet(1..N)
    BY FS_Interval
  <2>2. IsFiniteSet(I)
    BY <2>1, FS_Subset
  <2> QED BY <2>1, <2>2, FS_CardinalityType
<1>2. ASSUME NEW i \in I
      PROVE  Upto(i) \in SUBSET I /\ IsFiniteSet(Upto(i)) /\ Rank(i, I) = Cardinality(Upto(i))
             /\ Cardinality(Upto(i)) \in Nat /\ Cardinality(Upto(i)) <= c
             /\ Cardinality(Upto(i)) # 0
  <2>1. Upto(i) \in SUBSET I /\ i \in Upto(i)
    OBVIOUS
  <2>2. IsFiniteSet(Upto(i)) /\ Cardinality(Upto(i)) <= c
    BY <2>1, <1>1, FS_Subset
  <2>3. Cardinality(Upto(i)) \in Nat
    BY <2>2, FS_CardinalityType
  <2>4. Cardinality(Upto(i)) # 0
    BY <2>1, <2>2, FS_EmptySet
  <2> QED BY <2>1, <2>2, <2>3, <2>4 DEF Rank
<1>3. \A i \in I : Rank(i, I) \in 1..c
  <2> SUFFICES ASSUME NEW i \in I PROVE Rank(i, I) \in 1..c
    OBVIOUS
  <2> DEFINE u == Cardinality(Upto(i))
  <2>1. u \in Nat /\ u <= c /\ u # 0 /\ Rank(i, I) = u
    BY <1>2
  <2> HIDE DEF u, c
  <2> QED BY <2>1, <1>1
<1>4. ASSUME NEW i \in I, NEW k \in I, i < k PROVE Rank(i, I) # Rank(k, I)
  <2>1. Upto(i) \in SUBSET Upto(k)
    <3>1. i \in Int /\ k \in Int /\ \A j \in I : j \in Int
      OBVIOUS
    <3>2. \A j \in I : j <= i => j <= k
      BY <3>1, <1>4
    <3> QED BY <3>2
  <2>2. k \in Upto(k) /\ k \notin Upto(i)
    BY <1>4
  <2>3. IsFiniteSet(Upto(k))
    BY <1>2
  <2>4. Cardinality(Upto(k)) = Cardinality(Upto(i)) => Upto(k) = Upto(i)
    BY <2>1, <2>3, FS_Subset
  <2> HIDE DEF Upto
  <2> QED BY <2>2, <2>4, <1>2
<1>5. \A i, k \in I : Rank(i, I) = Rank(k, I) => i = k
  <2> SUFFICES ASSUME NEW i \in I, NEW k \in I, Rank(i, I) = Rank(k, I), i # k PROVE FALSE
    OBVIOUS
  <2>1. i < k \/ k < i
    OBVIOUS
  <2> QED BY <2>1, <1>4
<1>6. rank \in Injection(I, 1..c)
  <2>1. rank \in [I -> 1..c]
    BY <1>3
  <2> QED BY <2>1, <1>5 DEF Injection, IsInjective
<1>7. IsFiniteSet(1..c) /\ Cardinality(1..c) = c
  BY <1>1, FS_Interval
<1>8. rank \in Surjection(I, 1..c)
  <2> HIDE DEF rank
  <2> QED BY <1>6, <1>7, FS_Injection
<1>9. \A n \in 1..c : \E i \in I : rank[i] = n
  <2> HIDE DEF rank
  <2> QED BY <1>8 DEF Surjection
<1> QED BY <1>1, <1>3, <1>5, <1>9

\* What is kept of a sequence is what stands at the places, each once.
LEMMA KeptIs ==
  ASSUME NEW S, NEW s \in Seq(S), NEW I \in SUBSET (1..Len(s))
  PROVE  /\ Kept(s, I) \in Seq(S) /\ DOMAIN Kept(s, I) = 1..Len(Kept(s, I))
         /\ IsFiniteSet(I) /\ Len(Kept(s, I)) = Cardinality(I)
         /\ \A n \in 1..Len(Kept(s, I)) : \E i \in I : Kept(s, I)[n] = s[i] /\ Rank(i, I) = n
         /\ \A i \in I : \E n \in 1..Len(Kept(s, I)) : Kept(s, I)[n] = s[i] /\ Rank(i, I) = n
<1> DEFINE c == Cardinality(I)
           nth(n) == CHOOSE i \in I : Rank(i, I) = n
<1>1. /\ Len(s) \in Nat /\ IsFiniteSet(I) /\ c \in Nat
      /\ \A i \in I : Rank(i, I) \in 1..c
      /\ \A i, k \in I : Rank(i, I) = Rank(k, I) => i = k
      /\ \A n \in 1..c : \E i \in I : Rank(i, I) = n
  <2>1. Len(s) \in Nat
    OBVIOUS
  <2>2. IsFiniteSet(I) /\ \A i \in I : Rank(i, I) \in 1..c
    BY <2>1, RankIs
  <2>3. \A i, k \in I : Rank(i, I) = Rank(k, I) => i = k
    BY <2>1, RankIs
  <2>4. \A n \in 1..c : \E i \in I : Rank(i, I) = n
    BY <2>1, RankIs
  <2> QED BY <2>1, <2>2, <2>3, <2>4, FS_CardinalityType
<1>2. Kept(s, I) = [n \in 1..c |-> s[nth(n)]]
  BY DEF Kept, Rank
<1>3. \A n \in 1..c : nth(n) \in I /\ Rank(nth(n), I) = n
  BY <1>1
<1> HIDE DEF nth, c
<1>4. \A i \in I : s[i] \in S
  OBVIOUS
<1>5. Kept(s, I) \in Seq(S) /\ Len(Kept(s, I)) = c /\ DOMAIN Kept(s, I) = 1..c
  <2> DEFINE f == [n \in 1..c |-> s[nth(n)]]
  <2>1. \A n \in 1..c : s[nth(n)] \in S
    BY <1>3, <1>4
  <2>2. f \in [1..c -> S]
    BY <2>1
  <2> HIDE DEF f
  <2>3. f \in Seq(S) /\ Len(f) = c /\ DOMAIN f = 1..c
    BY <2>2, <1>1
  <2> QED BY <2>3, <1>2 DEF f
<1>6. \A n \in 1..c : Kept(s, I)[n] = s[nth(n)]
  BY <1>2
<1>7. ASSUME NEW i \in I PROVE \E n \in 1..c : Kept(s, I)[n] = s[i] /\ Rank(i, I) = n
  <2>1. Rank(i, I) \in 1..c /\ nth(Rank(i, I)) = i
    BY <1>1, <1>3
  <2> QED BY <2>1, <1>6
<1> QED BY <1>1, <1>3, <1>5, <1>6, <1>7 DEF c


LEMMA Lengths ==
  /\ Days \in Nat /\ Hours \in Nat /\ Days >= 1 /\ Hours >= 1 /\ Lands \in Nat /\ Lands >= 1
  /\ Word \in Nat /\ Word \div 2 \in Nat /\ Word = 2 * (Word \div 2) /\ Word \div 2 >= 1
<1>1. PICK n \in 1..32768 : Word = 2 * n
  BY InputsAssumption
<1>2. Word \div 2 = n
  BY <1>1
<1> QED BY <1>1, <1>2, InputsAssumption

-----------------------------------------------------------------------------
(* The decoders. *)

SaidOK ==
  said # None => \E h \in Heads :
      said = [heads |-> h, plan |-> PlanOf(h), tensors |-> PlanOfTensors(h)]

LEMMA SaidAlways == Spec => []SaidOK
<1>1. Init => SaidOK
  BY DEF Init, SaidOK
<1>2. SaidOK /\ [Next]_vars => SaidOK'
  <2> SUFFICES ASSUME SaidOK, [Next]_vars PROVE SaidOK'
    OBVIOUS
  <2>1. CASE Decode
    BY <2>1 DEF Decode, SaidOK
  <2>2. CASE UNCHANGED said
    BY <2>2 DEF SaidOK
  <2> QED BY <2>1, <2>2 DEF Next, Turn, Store, ReadFile, SplitUp, vars
<1> QED BY <1>1, <1>2, PTL DEF Spec

\* A count that fits half a word is what the word says of it; one that does
\* not says less, or something negative.
LEMMA WordSays ==
  ASSUME NEW n \in Nat
  PROVE  /\ AsWord(n) \in Int
         /\ n < Word \div 2 => AsWord(n) = n
         /\ n >= Word \div 2 => AsWord(n) < n
<1> DEFINE half == Word \div 2
           w == n % Word
<1>1. half \in Nat /\ half >= 1 /\ Word = 2 * half /\ Word \in Nat
  BY Lengths
<1>2. w \in 0..(Word - 1)
  BY <1>1
<1>3. n < half => w = n
  BY <1>1
<1>4. AsWord(n) = IF w < half THEN w ELSE w - Word
  BY <1>1, <1>2 DEF AsWord
<1> HIDE DEF w, half
<1> QED BY <1>1, <1>2, <1>3, <1>4 DEF half

LEMMA DecodedAlike ==
  ASSUME NEW h \in Heads
  PROVE  IF PlanOf(h).sell < Word \div 2 THEN PlanOfTensors(h) = PlanOf(h)
         ELSE PlanOfTensors(h) = None \/ PlanOfTensors(h).sell < PlanOf(h).sell
<1> DEFINE n == IF h.presence > 0 THEN Rounded(h.halves) ELSE 0
           w == AsWord(n)
<1>1. h.presence \in Int /\ h.halves \in Int
  BY InputsAssumption
<1>2. n \in Nat
  BY <1>1 DEF Rounded, AtLeastZero
<1>3. PlanOf(h) = [count |-> ArgMax(h.count), land |-> ArgMax(h.land) + 1, sell |-> n]
  BY DEF PlanOf, Rounded
<1>4. PlanOfTensors(h) =
        IF w < 0 THEN None
        ELSE [count |-> ArgMax(h.count), land |-> ArgMax(h.land) + 1, sell |-> w]
  BY DEF PlanOfTensors
<1>5. /\ w \in Int
      /\ n < Word \div 2 => w = n
      /\ n >= Word \div 2 => w < n
  BY <1>2, WordSays
<1> HIDE DEF n, w
<1> QED BY <1>2, <1>3, <1>4, <1>5, Lengths

\* Both decoders give the same plan to the same answer of the network, as long
\* as a quantity fits an action tensor's entry (decode_daily_plan,
\* decode_outputs_to_action_tensors).
THEOREM DecodersAlike == Spec => []DecodersAgree
<1>1. SaidOK => DecodersAgree
  BY DecodedAlike DEF SaidOK, DecodersAgree
<1> QED BY <1>1, SaidAlways, PTL

-----------------------------------------------------------------------------
(* The live game and its rows.                                             *)

Row == [day : Nat, money : Int, land : Nat, labor : Nat]

FarmOK ==
  /\ day \in 0..Days /\ hour \in 0..(Hours - 1) /\ money \in Int /\ land \in 1..Lands
  /\ hires \in Nat /\ opening \in Nat

\* The game has a row for each day that has begun.
RowsOK ==
  /\ rows \in Seq(Row)
  /\ Len(rows) = IF day < Days THEN day + 1 ELSE Days
  /\ \A k \in 1..Len(rows) : rows[k].day = k - 1

\* What the agent remembers.  Until an ask is answered nothing happens on the
\* farm, so that a repeated ask still sees the figures of the day's row; the
\* labor and the money remembered of a day that was answered and not followed by
\* a failed ask are those the next day's row tells.
AgentOK ==
  /\ agentDay = None \/ agentDay \in opening..day
  /\ maxHires \in Nat
  /\ history.day # None =>
        history.day \in 0..day /\ history.day < Days /\ history.money = rows[history.day + 1].money
  /\ day < Days /\ opening <= day /\ agentDay # day =>
        money = rows[day + 1].money /\ land = rows[day + 1].land
  /\ agentDay = day => history.day = day /\ maxHires <= hires
  /\ agentDay = day - 1 /\ day < Days /\ day \notin failed =>
        history.day = day - 1 /\ maxHires = rows[day + 1].labor

\* The context of row i, as its own game gives it.
Own(i) ==
  EconomicContext(rows[i].money, rows[i].land,
                  IF i = 1 THEN None ELSE rows[i].money - rows[i - 1].money)

AsksOK ==
  \A a \in asks :
     /\ a.day \in 0..day /\ a.day < Days /\ agentDay # None /\ a.day <= agentDay
     /\ a.context.valid => a.context = Own(a.day + 1)
     /\ a.day \notin failed /\ AnsweredOn(a.day - 1) =>
           a.context = Own(a.day + 1) /\ a.labor = rows[a.day + 1].labor

LiveOK == FarmOK /\ RowsOK /\ AgentOK /\ AsksOK

\* The day before, within the game, is the row before.
LEMMA OwnIs ==
  ASSUME RowsOK, NEW i \in 1..Len(rows)
  PROVE  StoredContext([k \in DOMAIN rows |-> GameRow(rows[k])], i) = Own(i)
<1> DEFINE s == [k \in DOMAIN rows |-> GameRow(rows[k])]
<1>1. rows \in Seq(Row) /\ Len(rows) \in Nat /\ DOMAIN rows = 1..Len(rows)
  BY DEF RowsOK
<1>2. DOMAIN s = 1..Len(rows)
  BY <1>1
<1>3. ASSUME NEW k \in 1..Len(rows)
      PROVE  /\ s[k].day = k - 1 /\ s[k].money = rows[k].money /\ s[k].land = rows[k].land
             /\ Group(s[k]) = <<1, 0>>
  BY <1>1 DEF GameRow, Group, RowsOK
<1> SUFFICES StoredContext(s, i) = Own(i)
  OBVIOUS
<1> HIDE DEF s
<1>4. Yesterday(s, i) = IF i = 1 THEN {} ELSE {i - 1}
  <2>1. Yesterday(s, i) =
          {j \in 1..Len(rows) : Group(s[j]) = Group(s[i]) /\ s[j].day = s[i].day - 1}
    BY <1>2 DEF Yesterday
  <2>2. \A j \in 1..Len(rows) :
           (Group(s[j]) = Group(s[i]) /\ s[j].day = s[i].day - 1) <=> j = i - 1
    BY <1>3, <1>1
  <2> QED BY <2>1, <2>2, <1>1
<1>5. CASE i = 1
  <2>1. Yesterday(s, i) = {}
    BY <1>4, <1>5
  <2>2. StoredContext(s, i) = EconomicContext(s[i].money, s[i].land, None)
    BY <2>1 DEF StoredContext
  <2>3. Own(i) = EconomicContext(rows[i].money, rows[i].land, None)
    BY <1>5 DEF Own
  <2> QED BY <1>3, <2>2, <2>3
<1>6. CASE i # 1
  <2>1. Yesterday(s, i) = {i - 1} /\ i - 1 \in 1..Len(rows)
    BY <1>1, <1>4, <1>6
  <2>2. (CHOOSE j \in Yesterday(s, i) : TRUE) = i - 1
    BY <2>1
  <2>3. Yesterday(s, i) # {}
    BY <2>1
  <2>4. StoredContext(s, i) = EconomicContext(s[i].money, s[i].land, s[i].money - s[i - 1].money)
    BY <2>2, <2>3 DEF StoredContext
  <2>5. Own(i) = EconomicContext(rows[i].money, rows[i].land, rows[i].money - rows[i - 1].money)
    BY <1>6 DEF Own
  <2> QED BY <1>3, <2>1, <2>4, <2>5
<1> QED BY <1>5, <1>6

\* A turn's orders and the clock.
LEMMA Acted ==
  ASSUME FarmOK, RowsOK, day < Days, NEW idle \in BOOLEAN, Acts(idle)
  PROVE  /\ money' \in Int /\ land' \in 1..Lands /\ hires' \in Nat /\ hour' \in 0..(Hours - 1)
         /\ rows' \in Seq(Row) /\ Len(rows') >= Len(rows)
         /\ \A k \in 1..Len(rows) : rows'[k] = rows[k]
         /\ \/ /\ day' = day /\ rows' = rows /\ hires' >= hires
               /\ idle => money' = money /\ land' = land
            \/ /\ day' = day + 1
               /\ IF day + 1 < Days
                  THEN /\ Len(rows') = Len(rows) + 1
                       /\ rows'[day + 2] = [day |-> day + 1, money |-> money', land |-> land',
                                            labor |-> hires]
                  ELSE rows' = rows
<1>1. PICK m \in Moneys, h \in Hires, l \in {land, land + 1} :
        /\ idle => h = 0 /\ l = land
        /\ l <= Lands
        /\ IF hour + 1 < Hours
           THEN /\ idle => m = money
                /\ hour' = hour + 1 /\ hires' = hires + h /\ UNCHANGED <<day, rows>>
           ELSE /\ hour' = 0 /\ day' = day + 1 /\ hires' = 0
                /\ rows' = IF day + 1 < Days
                           THEN Append(rows, [day |-> day + 1, money |-> m, land |-> l,
                                              labor |-> hires])
                           ELSE rows
        /\ money' = m /\ land' = l
  BY DEF Acts
<1>2. m \in Int /\ h \in Nat /\ l \in 1..Lands /\ Hours \in Nat /\ Hours >= 1
  BY <1>1, InputsAssumption, Lengths DEF FarmOK
<1>3. Len(rows) = day + 1 /\ rows \in Seq(Row) /\ Len(rows) \in Nat /\ day \in Nat
  BY DEF RowsOK, FarmOK
<1>4. CASE hour + 1 < Hours
  BY <1>1, <1>2, <1>3, <1>4 DEF FarmOK
<1>5. CASE ~(hour + 1 < Hours) /\ day + 1 < Days
  <2> DEFINE row == [day |-> day + 1, money |-> m, land |-> l, labor |-> hires]
  <2>1. row \in Row
    BY <1>2, <1>3 DEF Row, FarmOK
  <2>2. rows' = Append(rows, row)
    BY <1>1, <1>5
  <2> HIDE DEF row
  <2>3. /\ rows' \in Seq(Row) /\ Len(rows') = Len(rows) + 1
        /\ \A k \in 1..Len(rows) : rows'[k] = rows[k]
        /\ rows'[day + 2] = row
    BY <1>3, <2>1, <2>2
  <2>4. money' = m /\ land' = l /\ hour' = 0 /\ day' = day + 1 /\ hires' = 0
    BY <1>1, <1>5
  <2> QED BY <1>2, <1>3, <1>5, <2>3, <2>4 DEF row
<1>6. CASE ~(hour + 1 < Hours) /\ ~(day + 1 < Days)
  BY <1>1, <1>2, <1>3, <1>6
<1> QED BY <1>4, <1>5, <1>6

\* The farm and its rows stay sound, and what a row says stays.
LEMMA RowsGrow ==
  ASSUME FarmOK, RowsOK, day < Days, NEW idle \in BOOLEAN, Acts(idle), UNCHANGED opening
  PROVE  /\ FarmOK' /\ RowsOK'
         /\ \A d \in 0..day : d + 1 \in 1..Len(rows) /\ rows'[d + 1] = rows[d + 1]
                              /\ Own(d + 1)' = Own(d + 1)
<1>1. Len(rows) = day + 1 /\ rows \in Seq(Row) /\ Len(rows) \in Nat /\ day \in Nat /\ Days \in Nat
  BY Lengths DEF RowsOK, FarmOK
<1>2. FarmOK'
  BY <1>1, Acted DEF FarmOK
<1>3. RowsOK'
  <2>1. CASE day' = day /\ rows' = rows
    BY <2>1 DEF RowsOK
  <2>2. CASE day' = day + 1 /\ day + 1 < Days
    <3>1. /\ Len(rows') = day + 2 /\ rows' \in Seq(Row)
          /\ \A k \in 1..Len(rows) : rows'[k] = rows[k]
          /\ rows'[day + 2].day = day + 1
      BY <1>1, <2>2, Acted
    <3>2. \A k \in 1..Len(rows') : rows'[k].day = k - 1
      BY <1>1, <3>1 DEF RowsOK
    <3>3. Len(rows') = IF day' < Days THEN day' + 1 ELSE Days
      BY <1>1, <2>2, <3>1
    <3> QED BY <3>1, <3>2, <3>3 DEF RowsOK
  <2>3. CASE day' = day + 1 /\ ~(day + 1 < Days)
    <3>1. rows' = rows /\ Days = day + 1
      BY <1>1, <2>3, Acted
    <3> QED BY <1>1, <2>3, <3>1 DEF RowsOK
  <2> QED BY <1>1, <2>1, <2>2, <2>3, Acted
<1>4. \A k \in 1..Len(rows) : rows'[k] = rows[k]
  BY Acted
<1>5. ASSUME NEW d \in 0..day
      PROVE  d + 1 \in 1..Len(rows) /\ rows'[d + 1] = rows[d + 1] /\ Own(d + 1)' = Own(d + 1)
  <2>1. d + 1 \in 1..Len(rows)
    BY <1>1
  <2>2. d + 1 # 1 => (d + 1) - 1 \in 1..Len(rows)
    BY <1>1
  <2>3. rows'[d + 1] = rows[d + 1] /\ (d + 1 # 1 => rows'[(d + 1) - 1] = rows[(d + 1) - 1])
    BY <1>4, <2>1, <2>2
  <2> QED BY <2>1, <2>3 DEF Own
<1> QED BY <1>2, <1>3, <1>5

\* What a turn does to the farm and to what rows say, whoever acts.
RowsKept ==
  /\ FarmOK' /\ RowsOK'
  /\ \A d \in 0..day : rows'[d + 1] = rows[d + 1] /\ Own(d + 1)' = Own(d + 1)
  /\ day' \in {day, day + 1} /\ opening' = opening

\* The farm the next ask of the agent sees is that of the day's row.
SeenAsStored ==
  day' = day + 1 /\ day' < Days =>
     /\ rows'[day' + 1].money = money' /\ rows'[day' + 1].land = land'
     /\ rows'[day' + 1].labor = hires

LEMMA TurnGrows ==
  ASSUME FarmOK, RowsOK, day < Days, NEW idle \in BOOLEAN, Acts(idle), UNCHANGED opening
  PROVE  /\ RowsKept /\ SeenAsStored
         /\ day' = day => /\ rows' = rows /\ hires' >= hires
                          /\ idle => money' = money /\ land' = land
<1>1. RowsKept
  BY RowsGrow, Acted DEF RowsKept
<1>2. day \in Int
  BY DEF FarmOK
<1>3. SeenAsStored
  BY <1>2, Acted DEF SeenAsStored
<1> QED BY <1>1, <1>2, <1>3, Acted

\* The agent does not ask: it goes on with the day, or the opening plays.
LEMMA AsksStay ==
  ASSUME FarmOK, AsksOK, RowsKept, UNCHANGED <<asks, failed, agentDay>>
  PROVE  AsksOK'
<1> SUFFICES ASSUME NEW a \in asks
             PROVE  /\ a.day \in 0..day' /\ a.day < Days /\ agentDay' # None /\ a.day <= agentDay'
                    /\ a.context.valid => a.context = Own(a.day + 1)'
                    /\ a.day \notin failed' /\ AnsweredOn(a.day - 1)' =>
                          a.context = Own(a.day + 1)' /\ a.labor = rows'[a.day + 1].labor
  BY DEF AsksOK
<1>1. a.day \in 0..day /\ a.day < Days /\ agentDay # None /\ a.day <= agentDay
  BY DEF AsksOK
<1>2. Own(a.day + 1)' = Own(a.day + 1) /\ rows'[a.day + 1] = rows[a.day + 1]
  BY <1>1 DEF RowsKept
<1>3. AnsweredOn(a.day - 1)' = AnsweredOn(a.day - 1)
  BY DEF AnsweredOn
<1>4. day \in Int /\ day' \in {day, day + 1}
  BY DEF FarmOK, RowsKept
<1> QED BY <1>1, <1>2, <1>3, <1>4 DEF AsksOK

LEMMA ContinueKeeps ==
  ASSUME LiveOK, day < Days, Continue, Acts(FALSE), UNCHANGED opening
  PROVE  LiveOK'
<1>1. FarmOK /\ RowsOK /\ AgentOK /\ AsksOK
  BY DEF LiveOK
<1>2. RowsKept /\ SeenAsStored /\ (day' = day => rows' = rows /\ hires' >= hires)
  BY <1>1, TurnGrows
<1>3. agentDay = day /\ UNCHANGED <<agentDay, previous, history, asks, failed>>
  BY DEF Continue
<1>4. AsksOK'
  BY <1>1, <1>2, <1>3, AsksStay
<1>5. maxHires' = hires
  <2>1. maxHires \in Nat /\ hires \in Nat /\ maxHires <= hires
    BY <1>1, <1>3 DEF AgentOK, FarmOK
  <2>2. \A y \in {maxHires, hires} : hires >= y
    BY <2>1
  <2>3. \A x \in {maxHires, hires} : (\A y \in {maxHires, hires} : x >= y) => x = hires
    BY <2>1
  <2>4. Max({maxHires, hires}) = hires
    BY <2>2, <2>3 DEF Max
  <2> QED BY <2>4 DEF Continue
<1>6. /\ day \in 0..Days /\ hires \in Nat /\ hires' \in Nat /\ day' \in {day, day + 1}
      /\ opening' = opening /\ opening \in Nat
  BY <1>1, <1>2 DEF FarmOK, RowsKept
<1>7. history.day = day /\ history.money = rows[day + 1].money /\ day \in opening..day
  BY <1>1, <1>3, <1>6, InputsAssumption DEF AgentOK
<1>8. rows'[day + 1] = rows[day + 1]
  BY <1>2, <1>6 DEF RowsKept
<1>9. AgentOK'
  <2>1. CASE day' = day
    BY <1>2, <1>3, <1>5, <1>6, <1>7, <1>8, <2>1 DEF AgentOK
  <2>2. CASE day' = day + 1
    BY <1>2, <1>3, <1>5, <1>6, <1>7, <1>8, <2>2 DEF AgentOK, SeenAsStored
  <2> QED BY <1>6, <2>1, <2>2
<1> QED BY <1>2, <1>4, <1>9 DEF LiveOK, RowsKept

LEMMA OpenedKeeps ==
  ASSUME LiveOK, day < Days, Opened, Acts(FALSE), UNCHANGED opening
  PROVE  LiveOK'
<1>1. FarmOK /\ RowsOK /\ AgentOK /\ AsksOK
  BY DEF LiveOK
<1>2. RowsKept /\ SeenAsStored
  BY <1>1, TurnGrows
<1>3. day < opening /\ UNCHANGED <<agentDay, maxHires, previous, history, asks, failed>>
  BY DEF Opened, agent
<1>4. AsksOK'
  BY <1>1, <1>2, <1>3, AsksStay
<1>5. day \in 0..Days /\ day' \in {day, day + 1} /\ opening' = opening /\ opening \in Nat
  BY <1>1, <1>2 DEF FarmOK, RowsKept
<1>6. agentDay = None
  BY <1>1, <1>3, <1>5 DEF AgentOK
<1>7. agentDay # day' /\ agentDay # day' - 1
  BY <1>5, <1>6, InputsAssumption
<1>8. history.day # None =>
        /\ history.day \in 0..day' /\ history.day < Days
        /\ history.money = rows'[history.day + 1].money
  BY <1>1, <1>2, <1>5 DEF AgentOK, RowsKept
<1>9. AgentOK'
  BY <1>1, <1>2, <1>3, <1>5, <1>6, <1>7, <1>8 DEF AgentOK, SeenAsStored
<1> QED BY <1>2, <1>4, <1>9 DEF LiveOK, RowsKept

\* What an ask is given: figures of the day's row; a difference that is valid is
\* the row's; and after a day that was answered, without a failure, all of it is.
LEMMA AskedAsStored ==
  ASSUME LiveOK, day < Days, day >= opening, agentDay # day
  PROVE  LET context == EconomicContext(money, land, Delta(history, day, money)) IN
         /\ context.valid => context = Own(day + 1)
         /\ day \notin failed /\ AnsweredOn(day - 1) =>
               context = Own(day + 1) /\ agentDay # None /\ maxHires = rows[day + 1].labor
<1> DEFINE delta == Delta(history, day, money)
           context == EconomicContext(money, land, delta)
<1>1. FarmOK /\ RowsOK /\ AgentOK /\ AsksOK
  BY DEF LiveOK
<1>2. /\ day \in Nat /\ money = rows[day + 1].money /\ land = rows[day + 1].land
      /\ money \in Int /\ opening \in Nat
  BY <1>1 DEF FarmOK, AgentOK
<1>3. ASSUME Adjacent(history, day) PROVE context = Own(day + 1)
  <2>1. history.day # None /\ history.day = day - 1
    BY <1>3 DEF Adjacent
  <2>2. history.day \in 0..day /\ history.money = rows[history.day + 1].money
    BY <1>1, <2>1 DEF AgentOK
  <2>3. day # 0 /\ history.money = rows[day].money /\ (day + 1) - 1 = day /\ day + 1 # 1
    BY <1>2, <2>1, <2>2
  <2>4. delta = rows[day + 1].money - rows[day].money
    BY <1>2, <1>3, <2>3 DEF Delta
  <2>5. Own(day + 1) = EconomicContext(rows[day + 1].money, rows[day + 1].land,
                                       rows[day + 1].money - rows[day].money)
    BY <2>3 DEF Own
  <2> QED BY <1>2, <2>4, <2>5
<1>4. ASSUME ~Adjacent(history, day) PROVE ~context.valid
  <2>1. delta = None
    BY <1>4 DEF Delta
  <2> QED BY <2>1 DEF EconomicContext
<1>5. ASSUME day \notin failed, AnsweredOn(day - 1)
      PROVE  Adjacent(history, day) /\ agentDay # None /\ maxHires = rows[day + 1].labor
  <2>1. PICK b \in asks : b.day = day - 1
    BY <1>5 DEF AnsweredOn
  <2>2. b.day \in 0..day /\ agentDay # None /\ b.day <= agentDay
    BY <1>1, <2>1 DEF AsksOK
  <2>3. agentDay \in opening..day
    BY <1>1, <2>2 DEF AgentOK
  <2>4. agentDay = day - 1
    BY <1>2, <2>1, <2>2, <2>3
  <2>5. history.day = day - 1 /\ maxHires = rows[day + 1].labor
    BY <1>1, <1>5, <2>4 DEF AgentOK
  <2>6. history.day # None
    BY <1>2, <2>5, InputsAssumption
  <2> QED BY <2>2, <2>5, <2>6 DEF Adjacent
<1> QED BY <1>3, <1>4, <1>5

LEMMA AskKeepsAsks ==
  ASSUME LiveOK, day < Days, NEW outcome \in Outcomes, Ask(outcome), RowsKept
  PROVE  AsksOK'
<1>1. FarmOK /\ AgentOK /\ AsksOK /\ day \in Nat /\ day' \in {day, day + 1}
  BY DEF LiveOK, FarmOK, RowsKept
<1>2. day >= opening /\ agentDay # day
  BY DEF Ask
<1>3. \A d \in 0..day : Own(d + 1)' = Own(d + 1) /\ rows'[d + 1] = rows[d + 1]
  BY DEF RowsKept
<1>4. CASE outcome # "fine"
  <2>1. UNCHANGED <<agentDay, asks>> /\ failed' = failed \union {day}
    BY <1>4 DEF Ask
  <2> SUFFICES ASSUME NEW a \in asks
               PROVE  /\ a.day \in 0..day' /\ a.day < Days /\ agentDay' # None /\ a.day <= agentDay'
                      /\ a.context.valid => a.context = Own(a.day + 1)'
                      /\ a.day \notin failed' /\ AnsweredOn(a.day - 1)' =>
                            a.context = Own(a.day + 1)' /\ a.labor = rows'[a.day + 1].labor
    BY <2>1 DEF AsksOK
  <2>2. a.day \in 0..day /\ a.day < Days /\ agentDay # None /\ a.day <= agentDay
    BY <1>1 DEF AsksOK
  <2>3. Own(a.day + 1)' = Own(a.day + 1) /\ rows'[a.day + 1] = rows[a.day + 1]
    BY <1>3, <2>2
  <2>4. AnsweredOn(a.day - 1)' = AnsweredOn(a.day - 1)
    BY <2>1 DEF AnsweredOn
  <2> QED BY <1>1, <2>1, <2>2, <2>3, <2>4 DEF AsksOK
<1>5. CASE outcome = "fine"
  <2> DEFINE new == Encoded(previous')
  <2>1. agentDay' = day /\ failed' = failed /\ asks' = asks \union {new}
        /\ previous' = IF agentDay = None THEN previous ELSE maxHires
    BY <1>5 DEF Ask
  <2>2. /\ new.day = day /\ new.labor = previous'
        /\ new.context = EconomicContext(money, land, Delta(history, day, money))
    BY DEF Encoded
  <2> HIDE DEF new
  <2>3. ASSUME NEW d \in 0..day PROVE AnsweredOn(d - 1)' = AnsweredOn(d - 1)
    <3>1. new.day # d - 1
      BY <1>1, <2>2, <2>3
    <3> QED BY <2>1, <3>1 DEF AnsweredOn
  <2>4. ASSUME NEW a \in asks
        PROVE  /\ a.day \in 0..day' /\ a.day < Days /\ agentDay' # None /\ a.day <= agentDay'
               /\ a.context.valid => a.context = Own(a.day + 1)'
               /\ a.day \notin failed' /\ AnsweredOn(a.day - 1)' =>
                     a.context = Own(a.day + 1)' /\ a.labor = rows'[a.day + 1].labor
    <3>1. a.day \in 0..day /\ a.day < Days
      BY <1>1 DEF AsksOK
    <3>2. Own(a.day + 1)' = Own(a.day + 1) /\ rows'[a.day + 1] = rows[a.day + 1]
          /\ AnsweredOn(a.day - 1)' = AnsweredOn(a.day - 1)
      BY <1>3, <2>3, <3>1
    <3>3. agentDay' # None /\ a.day <= agentDay' /\ a.day \in 0..day'
      BY <1>1, <2>1, <3>1, InputsAssumption
    <3> QED BY <1>1, <2>1, <3>1, <3>2, <3>3 DEF AsksOK
  <2>5. PICK today \in Nat : today = day
    BY <1>1
  <2>6. /\ new.day = today /\ today \in 0..day' /\ today < Days /\ agentDay' # None
        /\ today <= agentDay'
        /\ new.context.valid => new.context = Own(today + 1)'
        /\ today \notin failed' /\ AnsweredOn(today - 1)' =>
              new.context = Own(today + 1)' /\ new.labor = rows'[today + 1].labor
    <3>1. today \in 0..day
      BY <1>1, <2>5
    <3>2. Own(today + 1)' = Own(today + 1) /\ rows'[today + 1] = rows[today + 1]
          /\ AnsweredOn(today - 1)' = AnsweredOn(today - 1)
      BY <1>3, <2>3, <3>1
    <3>3. agentDay' # None /\ today <= agentDay' /\ today \in 0..day' /\ today < Days
      BY <1>1, <2>1, <2>5, <3>1, InputsAssumption
    <3>4. /\ new.context.valid => new.context = Own(today + 1)
          /\ today \notin failed /\ AnsweredOn(today - 1) =>
                new.context = Own(today + 1) /\ agentDay # None
                /\ maxHires = rows[today + 1].labor
      BY <1>2, <2>2, <2>5, AskedAsStored
    <3> QED BY <2>1, <2>2, <2>5, <3>2, <3>3, <3>4
  <2>7. ASSUME NEW a \in asks'
        PROVE  /\ a.day \in 0..day' /\ a.day < Days /\ agentDay' # None /\ a.day <= agentDay'
               /\ a.context.valid => a.context = Own(a.day + 1)'
               /\ a.day \notin failed' /\ AnsweredOn(a.day - 1)' =>
                     a.context = Own(a.day + 1)' /\ a.labor = rows'[a.day + 1].labor
    <3>1. CASE a \in asks
      BY <2>4, <3>1
    <3>2. CASE a = new
      BY <2>6, <3>2
    <3> QED BY <2>1, <3>1, <3>2
  <2> QED BY <2>7 DEF AsksOK
<1> QED BY <1>4, <1>5

LEMMA AskKeeps ==
  ASSUME LiveOK, day < Days, NEW outcome \in Outcomes, Ask(outcome), Acts(outcome # "fine"),
         UNCHANGED opening
  PROVE  LiveOK'
<1>1. FarmOK /\ RowsOK /\ AgentOK /\ AsksOK
  BY DEF LiveOK
<1> DEFINE idle == outcome # "fine"
<1>2. idle \in BOOLEAN
  OBVIOUS
<1>3. /\ RowsKept /\ SeenAsStored
      /\ day' = day => hires' >= hires /\ (idle => money' = money /\ land' = land)
  <2>1. Acts(idle)
    OBVIOUS
  <2> HIDE DEF idle
  <2> QED BY <1>1, <1>2, <2>1, TurnGrows
<1>4. AsksOK'
  BY <1>3, AskKeepsAsks
<1>5. /\ day \in 0..Days /\ day' \in {day, day + 1} /\ opening' = opening /\ opening \in Nat
      /\ hires \in Nat /\ day >= opening /\ agentDay # day /\ money \in Int
  BY <1>1, <1>3 DEF FarmOK, RowsKept, Ask
<1>6. /\ money = rows[day + 1].money /\ land = rows[day + 1].land
      /\ agentDay = None \/ agentDay \in opening..day
  BY <1>1, <1>5 DEF AgentOK
<1>7. /\ maxHires' = hires
      /\ history' = history \/ history' = [day |-> day, money |-> money]
      /\ idle => agentDay' = agentDay /\ day \in failed'
      /\ ~idle => agentDay' = day /\ history' = [day |-> day, money |-> money]
  BY DEF Ask
<1>8. rows'[day + 1] = rows[day + 1]
  BY <1>3, <1>5 DEF RowsKept
<1>9. history'.day # None =>
        /\ history'.day \in 0..day' /\ history'.day < Days
        /\ history'.money = rows'[history'.day + 1].money
  <2>1. CASE history' = history
    <3>1. history.day # None =>
            /\ history.day \in 0..day /\ history.day < Days
            /\ history.money = rows[history.day + 1].money
      BY <1>1 DEF AgentOK
    <3>2. history.day # None => rows'[history.day + 1] = rows[history.day + 1]
      BY <1>3, <3>1 DEF RowsKept
    <3> QED BY <1>5, <2>1, <3>1, <3>2
  <2>2. CASE history' = [day |-> day, money |-> money]
    BY <1>5, <1>6, <1>8, <2>2
  <2> QED BY <1>7, <2>1, <2>2
<1>10. agentDay' = None \/ agentDay' \in opening'..day'
  BY <1>5, <1>6, <1>7
<1>11. day' < Days /\ opening' <= day' /\ agentDay' # day' =>
         money' = rows'[day' + 1].money /\ land' = rows'[day' + 1].land
  BY <1>3, <1>5, <1>6, <1>7, <1>8 DEF SeenAsStored
<1>12. agentDay' = day' => history'.day = day' /\ maxHires' <= hires'
  <2>1. CASE day' = day
    BY <1>3, <1>5, <1>7, <2>1
  <2>2. CASE day' = day + 1
    BY <1>5, <1>6, <1>7, <2>2, InputsAssumption
  <2> QED BY <1>5, <2>1, <2>2
<1>13. agentDay' = day' - 1 /\ day' < Days /\ day' \notin failed' =>
         history'.day = day' - 1 /\ maxHires' = rows'[day' + 1].labor
  <2>1. CASE day' = day
    BY <1>5, <1>7, <2>1
  <2>2. CASE day' = day + 1
    BY <1>3, <1>5, <1>7, <2>2 DEF SeenAsStored
  <2> QED BY <1>5, <2>1, <2>2
<1>14. maxHires' \in Nat
  BY <1>5, <1>7
<1>15. AgentOK'
  BY <1>9, <1>10, <1>11, <1>12, <1>13, <1>14 DEF AgentOK
<1> QED BY <1>3, <1>4, <1>15 DEF LiveOK, RowsKept

LEMMA LiveInit == Init => LiveOK
<1> SUFFICES ASSUME Init PROVE LiveOK
  OBVIOUS
<1> DEFINE row == [day |-> 0, money |-> money, land |-> 1, labor |-> 0]
<1>1. money \in Int /\ opening \in Nat /\ row \in Row
  BY InputsAssumption DEF Init, Row
<1>2. rows = <<row>> /\ day = 0 /\ hour = 0 /\ land = 1 /\ hires = 0
  BY DEF Init
<1>3. rows \in Seq(Row) /\ Len(rows) = 1 /\ rows[1] = row
  BY <1>1, <1>2
<1>4. FarmOK
  BY <1>1, <1>2, Lengths DEF FarmOK
<1>5. RowsOK
  BY <1>2, <1>3, Lengths DEF RowsOK
<1>6. AgentOK
  BY <1>2, <1>3, InputsAssumption DEF AgentOK, Init, NoHistory
<1>7. AsksOK
  BY DEF Init, AsksOK
<1> QED BY <1>4, <1>5, <1>6, <1>7 DEF LiveOK

LEMMA LiveStep == LiveOK /\ [Next]_vars => LiveOK'
<1> SUFFICES ASSUME LiveOK, [Next]_vars PROVE LiveOK'
  OBVIOUS
<1>1. CASE Turn
  BY <1>1, AskKeeps, ContinueKeeps, OpenedKeeps DEF Turn
<1>2. CASE UNCHANGED <<farm, agent, rows>>
  BY <1>2 DEF farm, agent, LiveOK, FarmOK, RowsOK, AgentOK, AsksOK, AnsweredOn, Own
<1> QED BY <1>1, <1>2 DEF Next, Decode, Store, ReadFile, SplitUp, vars

LEMMA LiveAlways == Spec => []LiveOK
BY LiveInit, LiveStep, PTL DEF Spec

\* Whatever asks fail and are repeated, a difference of money that the live
\* tracker calls valid is that of the stored row; and on a day without a failed
\* ask after a day that was answered, so are the labor and the whole context
\* (EconomicHistory, encode_live_inputs, derive_economic_context).
THEOREM LiveAsStored == Spec => []LiveIsStored
<1>1. LiveOK => LiveIsStored
  <2> SUFFICES ASSUME LiveOK, NEW a \in Answers
               PROVE  LET i == a.day + 1
                          own == StoredContext([k \in DOMAIN rows |-> GameRow(rows[k])], i)
                      IN /\ a.context.valid => a.context = own
                         /\ a.day \notin failed /\ AnsweredOn(a.day - 1) =>
                               a.context = own /\ a.labor = rows[i].labor
    BY DEF LiveIsStored
  <2>1. RowsOK /\ AsksOK /\ FarmOK /\ a \in asks
    BY DEF LiveOK, Answers
  <2>2. a.day \in 0..day /\ a.day < Days
    BY <2>1 DEF AsksOK
  <2>3. a.day + 1 \in 1..Len(rows)
    BY <2>1, <2>2, Lengths DEF RowsOK, FarmOK
  <2>4. StoredContext([k \in DOMAIN rows |-> GameRow(rows[k])], a.day + 1) = Own(a.day + 1)
    BY <2>1, <2>3, OwnIs
  <2> QED BY <2>1, <2>4 DEF AsksOK
<1> QED BY <1>1, LiveAlways, PTL
-----------------------------------------------------------------------------
(* The data set: every row that is wanted is there, as often as it was read. *)

Splits == {"train", "val"}
Split(which) == OfDates(dates[which])

StoredFine(s) ==
  /\ IsList(s) /\ Len(s) >= 1
  /\ \A i \in 1..Len(s) : IsContent(s[i]) /\ s[i].day \in Int /\ s[i].money \in Int
  /\ \A i, j \in 1..Len(s) :
        s[i].episode # None /\ Group(s[i]) = Group(s[j]) =>
           /\ s[i].date = s[j].date /\ s[i].score = s[j].score
           /\ s[i].day = s[j].day => i = j

\* What reading the file of row r has left.
Taken(r) ==
  /\ Selected(r) => \E i \in 1..Len(table) : table[i] = r
  /\ r.version = SchemaVersion /\ dates.train \intersect dates.val = {}

\* The entries of t are those of s at the places I, each taken once.
IsPick(p, t, s, I) ==
  /\ \A m, n \in 1..Len(t) : p[m] = p[n] => m = n
  /\ \A i \in I : \E n \in 1..Len(t) : p[n] = i
  /\ \A n \in 1..Len(t) : t[n] = s[p[n]]
Picks(t, s, I) == \E p \in [1..Len(t) -> I] : IsPick(p, t, s, I)

SelectedOf(s) == {i \in 1..Len(s) : Selected(s[i])}

\* A row that is stored was taken, or is still to come; what was read is
\* selected as often as it was read.
ReadingOK ==
  /\ StoredFine(stored)
  /\ read \in Seq(Range(stored)) /\ Picks(table, read, SelectedOf(read))
  /\ files \in Seq(Seq(Range(stored))) /\ table \in Seq(Range(stored))
  /\ \A i \in 1..Len(table) : Selected(table[i])
  /\ \A r \in Range(stored) :
        Taken(r) \/ \E f \in 1..Len(files) : \E i \in 1..Len(files[f]) : files[f][i] = r
  /\ report.read \in Nat /\ report.excluded \in Nat
  /\ report.read = report.excluded + Len(table)

LoadedOK ==
  /\ files = <<>>
  /\ data = [which \in Splits |-> Arrays(Split(which))]
  /\ \A which \in Splits :
        /\ joined => ~Ambiguous(Split(which))
        /\ \A row \in Range(Split(which)) : ~MalformedStart(row) /\ ~MalformedTargets(row)

DataOK ==
  /\ phase = "playing" =>
        table = <<>> /\ read = <<>> /\ report = [read |-> 0, excluded |-> 0]
  /\ phase \in {"reading", "loaded"} => ReadingOK
  /\ phase = "loaded" => LoadedOK

\* What is kept, by the entries.
LEMMA KeptEntries ==
  ASSUME NEW S, NEW s \in Seq(S), NEW I \in SUBSET (1..Len(s))
  PROVE  /\ Kept(s, I) \in Seq(S)
         /\ Len(Kept(s, I)) \in Nat /\ Len(Kept(s, I)) <= Len(s)
         /\ \A n \in 1..Len(Kept(s, I)) : \E i \in I : Kept(s, I)[n] = s[i]
         /\ \A i \in I : \E n \in 1..Len(Kept(s, I)) : Kept(s, I)[n] = s[i]
<1>1. Len(s) \in Nat
  OBVIOUS
<1>2. IsFiniteSet(1..Len(s)) /\ Cardinality(1..Len(s)) = Len(s)
  <2>1. Len(s) \in Int /\ 1 \in Int
    BY <1>1
  <2>2. Cardinality(1..Len(s)) = IF 1 > Len(s) THEN 0 ELSE Len(s) - 1 + 1
    BY <2>1, FS_Interval
  <2> QED BY <1>1, <2>1, <2>2, FS_Interval
<1>3. Cardinality(I) <= Cardinality(1..Len(s))
  BY <1>2, FS_Subset
<1> DEFINE K == Kept(s, I)
<1>4. /\ K \in Seq(S) /\ IsFiniteSet(I) /\ Len(K) = Cardinality(I)
      /\ \A n \in 1..Len(K) : \E i \in I : K[n] = s[i] /\ Rank(i, I) = n
      /\ \A i \in I : \E n \in 1..Len(K) : K[n] = s[i] /\ Rank(i, I) = n
  BY KeptIs
<1> HIDE DEF K
<1>5. Len(K) \in Nat /\ Len(K) <= Len(s)
  BY <1>2, <1>3, <1>4
<1>6. \A n \in 1..Len(K) : \E i \in I : K[n] = s[i]
  BY <1>4
<1>7. \A i \in I : \E n \in 1..Len(K) : K[n] = s[i]
  BY <1>4
<1> QED BY <1>4, <1>5, <1>6, <1>7 DEF K

\* What is kept is picked.
LEMMA KeptPicks ==
  ASSUME NEW S, NEW s \in Seq(S), NEW I \in SUBSET (1..Len(s))
  PROVE  Picks(Kept(s, I), s, I)
<1> DEFINE K == Kept(s, I)
           chosen(n) == CHOOSE i \in I : K[n] = s[i] /\ Rank(i, I) = n
           p == [n \in 1..Len(K) |-> chosen(n)]
<1>1. /\ \A n \in 1..Len(K) : \E i \in I : K[n] = s[i] /\ Rank(i, I) = n
      /\ \A i \in I : \E n \in 1..Len(K) : K[n] = s[i] /\ Rank(i, I) = n
  BY KeptIs
<1>2. \A i, k \in I : Rank(i, I) = Rank(k, I) => i = k
  <2>1. Len(s) \in Nat
    OBVIOUS
  <2> QED BY <2>1, RankIs
<1> HIDE DEF K
<1>3. \A n \in 1..Len(K) : chosen(n) \in I /\ K[n] = s[chosen(n)] /\ Rank(chosen(n), I) = n
  BY <1>1
<1> HIDE DEF chosen
<1>4. /\ p \in [1..Len(K) -> I]
      /\ \A n \in 1..Len(K) : p[n] \in I /\ K[n] = s[p[n]] /\ Rank(p[n], I) = n
  BY <1>3
<1> HIDE DEF p
<1>5. \A m, n \in 1..Len(K) : p[m] = p[n] => m = n
  BY <1>4
<1>6. ASSUME NEW i \in I PROVE \E n \in 1..Len(K) : p[n] = i
  <2>1. PICK n \in 1..Len(K) : Rank(i, I) = n
    BY <1>1
  <2>2. p[n] = i
    BY <2>1, <1>2, <1>4
  <2> QED BY <2>2
<1>7. IsPick(p, K, s, I)
  BY <1>4, <1>5, <1>6 DEF IsPick
<1> QED BY <1>4, <1>7 DEF Picks, K

\* Two picks, one after the other.
LEMMA PicksJoin ==
  ASSUME NEW S, NEW s \in Seq(S), NEW t \in Seq(S), NEW v \in Seq(S), NEW u \in Seq(S),
         NEW I \in SUBSET (1..Len(s)), NEW J \in SUBSET (1..Len(v)),
         NEW L \in SUBSET (1..(Len(s) + Len(v))),
         \A i \in 1..Len(s) : i \in L <=> i \in I,
         \A j \in 1..Len(v) : Len(s) + j \in L <=> j \in J,
         Picks(t, s, I), Picks(u, v, J)
  PROVE  Picks(t \o u, s \o v, L)
<1> DEFINE a == Len(s)
           b == Len(v)
           c == Len(t)
           d == Len(u)
<1>1. a \in Nat /\ b \in Nat /\ c \in Nat /\ d \in Nat
  OBVIOUS
<1>2. /\ Len(t \o u) = c + d
      /\ \A n \in 1..(c + d) : (t \o u)[n] = IF n <= c THEN t[n] ELSE u[n - c]
      /\ \A n \in 1..(a + b) : (s \o v)[n] = IF n <= a THEN s[n] ELSE v[n - a]
  OBVIOUS
<1>3. PICK p \in [1..c -> I] : IsPick(p, t, s, I)
  BY DEF Picks
<1>4. PICK q \in [1..d -> J] : IsPick(q, u, v, J)
  BY DEF Picks
<1> DEFINE r == [n \in 1..(c + d) |-> IF n <= c THEN p[n] ELSE a + q[n - c]]
           w == t \o u
           z == s \o v
<1> HIDE DEF a, b, c, d, w, z
<1>5. ASSUME NEW n \in 1..c
      PROVE  /\ n \in 1..(c + d) /\ r[n] = p[n] /\ p[n] \in I /\ p[n] \in 1..a /\ r[n] \in L
             /\ w[n] = z[r[n]]
  <2>1. n \in 1..(c + d) /\ n <= c
    BY <1>1
  <2>2. r[n] = p[n] /\ p[n] \in I
    BY <2>1, <1>3
  <2>a. p[n] \in 1..a
    BY <2>2 DEF a
  <2>b. p[n] \in 1..(a + b) /\ p[n] <= a
    BY <2>a, <1>1
  <2>3. w[n] = t[n] /\ z[p[n]] = s[p[n]] /\ t[n] = s[p[n]]
    BY <2>1, <2>2, <2>b, <1>2, <1>3 DEF IsPick, a, b, c, d, w, z
  <2>4. p[n] \in L
    BY <2>2, <2>a DEF a
  <2> QED BY <2>1, <2>2, <2>a, <2>3, <2>4
<1>6. ASSUME NEW n \in (c + 1)..(c + d)
      PROVE  /\ n \in 1..(c + d) /\ n - c \in 1..d
             /\ r[n] = a + q[n - c] /\ q[n - c] \in J /\ q[n - c] \in 1..b /\ r[n] \in L
             /\ w[n] = z[r[n]]
  <2>1. n \in 1..(c + d) /\ ~(n <= c) /\ n - c \in 1..d
    BY <1>1
  <2>2. r[n] = a + q[n - c] /\ q[n - c] \in J /\ q[n - c] \in 1..b
    BY <2>1, <1>4 DEF b
  <2>3. r[n] \in 1..(a + b) /\ ~(r[n] <= a) /\ r[n] - a = q[n - c]
    BY <2>2, <1>1
  <2>4. w[n] = u[n - c] /\ z[r[n]] = v[q[n - c]] /\ u[n - c] = v[q[n - c]]
    <3>1. w[n] = u[n - c]
      BY <2>1, <1>2 DEF a, b, c, d, w, z
    <3>2. z[r[n]] = v[r[n] - a]
      BY <2>3, <1>2 DEF a, b, c, d, w, z
    <3>3. u[n - c] = v[q[n - c]]
      BY <2>1, <1>4 DEF IsPick, d
    <3> QED BY <3>1, <3>2, <3>3, <2>3
  <2> QED BY <2>1, <2>2, <2>4 DEF a, b
<1>7. \A n \in 1..(c + d) : n \in 1..c \/ n \in (c + 1)..(c + d)
  BY <1>1
<1>8. r \in [1..(c + d) -> L]
  <2>1. \A n \in 1..(c + d) : r[n] \in L
    BY <1>5, <1>6, <1>7
  <2> QED BY <2>1
<1> HIDE DEF r
<1>9. ASSUME NEW m \in 1..(c + d), NEW n \in 1..(c + d), r[m] = r[n] PROVE m = n
  <2>1. CASE m \in 1..c /\ n \in 1..c
    BY <2>1, <1>3, <1>5, <1>9 DEF IsPick, c
  <2>2. CASE m \in (c + 1)..(c + d) /\ n \in (c + 1)..(c + d)
    <3>1. q[m - c] = q[n - c] /\ m - c \in 1..d /\ n - c \in 1..d
      <4>1. /\ r[m] = a + q[m - c] /\ q[m - c] \in 1..b
            /\ r[n] = a + q[n - c] /\ q[n - c] \in 1..b
            /\ m - c \in 1..d /\ n - c \in 1..d
        BY <2>2, <1>6
      <4> QED BY <4>1, <1>1, <1>9
    <3>2. m - c = n - c
      BY <3>1, <1>4 DEF IsPick, d
    <3> QED BY <3>2, <1>1
  <2>3. CASE m \in 1..c /\ n \in (c + 1)..(c + d)
    <3>1. r[m] \in 1..a /\ r[n] = a + q[n - c] /\ q[n - c] \in 1..b
      BY <2>3, <1>5, <1>6
    <3> QED BY <3>1, <1>1, <1>9
  <2>4. CASE n \in 1..c /\ m \in (c + 1)..(c + d)
    <3>1. r[n] \in 1..a /\ r[m] = a + q[m - c] /\ q[m - c] \in 1..b
      BY <2>4, <1>5, <1>6
    <3> QED BY <3>1, <1>1, <1>9
  <2> QED BY <1>7, <2>1, <2>2, <2>3, <2>4
<1>10. ASSUME NEW k \in L PROVE \E n \in 1..(c + d) : r[n] = k
  <2>1. k \in 1..(a + b)
    BY DEF a, b
  <2>2. CASE k <= a
    <3>1. k \in I
      BY <2>1, <2>2, <1>1 DEF a
    <3>2. PICK n \in 1..c : p[n] = k
      BY <3>1, <1>3 DEF IsPick, c
    <3> QED BY <3>2, <1>5
  <2>3. CASE ~(k <= a)
    <3>1. k - a \in 1..b /\ a + (k - a) = k
      BY <2>1, <2>3, <1>1
    <3>2. k - a \in J
      BY <3>1 DEF a, b
    <3>3. PICK n \in 1..d : q[n] = k - a
      BY <3>2, <1>4 DEF IsPick, d
    <3>4. n + c \in (c + 1)..(c + d) /\ (n + c) - c = n
      BY <1>1
    <3>5. r[n + c] = k
      BY <3>1, <3>3, <3>4, <1>6
    <3> QED BY <3>4, <3>5, <1>6
  <2> QED BY <2>2, <2>3
<1>11. \A n \in 1..(c + d) : w[n] = z[r[n]]
  BY <1>5, <1>6, <1>7
<1>12. Len(w) = c + d
  BY <1>2 DEF c, d, w
<1>13. IsPick(r, w, z, L)
  BY <1>9, <1>10, <1>11, <1>12 DEF IsPick
<1> QED BY <1>8, <1>12, <1>13 DEF Picks, w, z

\* What is picked of what is picked, by the entries.
LEMMA PicksOfPicks ==
  ASSUME NEW s, NEW t, NEW u, NEW I, NEW J, NEW L, NEW A,
         Len(t) \in Nat, Len(u) \in Nat,
         \A n : n \in J <=> n \in 1..Len(t) /\ t[n] \in A,
         \A i : i \in L <=> i \in I /\ s[i] \in A,
         Picks(t, s, I), Picks(u, t, J)
  PROVE  Picks(u, s, L)
<1>1. PICK p \in [1..Len(t) -> I] : IsPick(p, t, s, I)
  BY DEF Picks
<1>2. PICK q \in [1..Len(u) -> J] : IsPick(q, u, t, J)
  BY DEF Picks
<1> DEFINE r == [n \in 1..Len(u) |-> p[q[n]]]
<1>3. ASSUME NEW n \in 1..Len(u)
      PROVE  /\ q[n] \in 1..Len(t) /\ r[n] = p[q[n]] /\ r[n] \in L /\ u[n] = s[r[n]]
  <2>1. q[n] \in 1..Len(t) /\ t[q[n]] \in A /\ u[n] = t[q[n]]
    BY <1>2 DEF IsPick
  <2>2. p[q[n]] \in I /\ t[q[n]] = s[p[q[n]]]
    BY <2>1, <1>1 DEF IsPick
  <2> QED BY <2>1, <2>2
<1>4. r \in [1..Len(u) -> L]
  <2>1. \A n \in 1..Len(u) : r[n] \in L
    BY <1>3
  <2> QED BY <2>1
<1> HIDE DEF r
<1>5. ASSUME NEW m \in 1..Len(u), NEW n \in 1..Len(u), r[m] = r[n] PROVE m = n
  <2>1. q[m] = q[n]
    BY <1>1, <1>3, <1>5 DEF IsPick
  <2> QED BY <2>1, <1>2 DEF IsPick
<1>6. ASSUME NEW i \in L PROVE \E n \in 1..Len(u) : r[n] = i
  <2>1. PICK k \in 1..Len(t) : p[k] = i
    BY <1>1 DEF IsPick
  <2>2. k \in J
    BY <2>1, <1>1 DEF IsPick
  <2>3. PICK n \in 1..Len(u) : q[n] = k
    BY <2>2, <1>2 DEF IsPick
  <2> QED BY <2>1, <2>3, <1>3
<1>7. IsPick(r, u, s, L)
  BY <1>3, <1>5, <1>6 DEF IsPick
<1> QED BY <1>4, <1>7 DEF Picks

\* What is picked is there as often as it is at the places it is picked from.
LEMMA PicksCount ==
  ASSUME NEW s, NEW t, NEW I, NEW N, NEW L, NEW A, Len(t) \in Nat, Picks(t, s, I),
         \A n : n \in N <=> n \in 1..Len(t) /\ t[n] \in A,
         \A i : i \in L <=> i \in I /\ s[i] \in A
  PROVE  Cardinality(N) = Cardinality(L)
<1>1. PICK p \in [1..Len(t) -> I] : IsPick(p, t, s, I)
  BY DEF Picks
<1> DEFINE q == [n \in N |-> p[n]]
<1>2. ASSUME NEW n \in N PROVE q[n] = p[n] /\ p[n] \in L
  <2>1. n \in 1..Len(t) /\ t[n] \in A
    OBVIOUS
  <2>2. p[n] \in I /\ t[n] = s[p[n]]
    BY <2>1, <1>1 DEF IsPick
  <2> QED BY <2>1, <2>2
<1>3. q \in [N -> L]
  <2>1. \A n \in N : p[n] \in L
    BY <1>2
  <2> QED BY <2>1
<1>4. \A m, n \in N : q[m] = q[n] => m = n
  BY <1>1, <1>2 DEF IsPick
<1>5. ASSUME NEW i \in L PROVE \E n \in N : q[n] = i
  <2>1. PICK n \in 1..Len(t) : p[n] = i
    BY <1>1 DEF IsPick
  <2>2. t[n] \in A
    BY <2>1, <1>1 DEF IsPick
  <2> QED BY <2>1, <2>2, <1>2
<1>6. IsFiniteSet(N)
  <2>1. IsFiniteSet(1..Len(t)) /\ N \in SUBSET (1..Len(t))
    BY FS_Interval
  <2> QED BY <2>1, FS_Subset
<1> HIDE DEF q
<1>7. ExistsBijection(N, L)
  <2>1. q \in Bijection(N, L)
    BY <1>3, <1>4, <1>5 DEF Bijection, Injection, Surjection, IsInjective
  <2> QED BY <2>1 DEF ExistsBijection
<1>8. Cardinality(L) = Cardinality(N)
  BY <1>6, <1>7, FS_Bijection
<1> QED BY <1>8

\* The rows of a game that is over, and those of the others.
LEMMA StoredIsFine ==
  ASSUME FarmOK, RowsOK, day = Days, NEW load \in Loads
  PROVE  LET all == [i \in DOMAIN rows |-> RowOf(rows[i], load.extra)] \o Others
         IN  StoredFine(all) /\ Len(all) = Days + Len(Others)
<1> DEFINE own == [i \in DOMAIN rows |-> RowOf(rows[i], load.extra)]
           all == own \o Others
           m == Days
           n == Len(Others)
<1>1. /\ rows \in Seq(Row) /\ Len(rows) = m /\ m \in Nat /\ m >= 1 /\ DOMAIN rows = 1..m
      /\ \A k \in 1..m : rows[k].day = k - 1 /\ rows[k].money \in Int
  <2>1. rows \in Seq(Row) /\ Len(rows) = m /\ m \in Nat /\ m >= 1 /\ DOMAIN rows = 1..m
    BY Lengths DEF RowsOK
  <2>2. \A k \in 1..m : rows[k] \in Row /\ rows[k].day = k - 1
    BY <2>1 DEF RowsOK
  <2> HIDE DEF m
  <2> QED BY <2>1, <2>2 DEF Row
<1>2. Others \in Seq(Range(Others)) /\ n \in Nat /\ DOMAIN Others = 1..n
  BY DataAssumption DEF IsList
<1>3. \A k \in 1..m : own[k] = RowOf(rows[k], load.extra)
  BY <1>1
<1> DEFINE A == {own[k] : k \in 1..m}
<1>4. own \in Seq(A \union Range(Others)) /\ Len(own) = m
  BY <1>1
<1>5. Others \in Seq(A \union Range(Others))
  BY <1>2
<1> HIDE DEF own
<1>6. /\ all \in Seq(A \union Range(Others)) /\ Len(all) = m + n /\ DOMAIN all = 1..(m + n)
      /\ \A k \in 1..m : all[k] = own[k]
      /\ \A k \in (m + 1)..(m + n) : all[k] = Others[k - m]
  <2> DEFINE B == A \union Range(Others)
  <2> HIDE DEF A, m, n, B
  <2>1. own \in Seq(B) /\ Others \in Seq(B) /\ Len(Others) = n
    BY <1>4, <1>5 DEF B, n
  <2>2. all \in Seq(B) /\ Len(all) = m + n
    BY <1>4, <2>1
  <2>3. \A k \in 1..(m + n) : all[k] = IF k <= m THEN own[k] ELSE Others[k - m]
    BY <1>1, <1>2, <1>4, <2>1
  <2>4. \A k \in (m + 1)..(m + n) : k \in 1..(m + n) /\ ~(k <= m)
    BY <1>1, <1>2
  <2>5. \A k \in 1..m : k \in 1..(m + n) /\ k <= m
    BY <1>1, <1>2
  <2>6. DOMAIN all = 1..(m + n)
    BY <2>2
  <2> HIDE DEF all
  <2> QED BY <2>2, <2>3, <2>4, <2>5, <2>6 DEF B
<1> HIDE DEF all, m, n
<1>7. IsList(all) /\ Len(all) >= 1
  <2>1. \A k \in 1..Len(all) : all[k] \in Range(all)
    BY <1>6 DEF Range
  <2>2. all \in [1..Len(all) -> Range(all)] /\ Len(all) \in Nat
    BY <1>1, <1>2, <1>6, <2>1
  <2> QED BY <1>1, <1>2, <1>6, <2>2 DEF IsList
<1>8. ASSUME NEW k \in 1..m
      PROVE  /\ IsContent(all[k]) /\ all[k].day = k - 1 /\ all[k].money \in Int
             /\ Group(all[k]) = <<1, 0>>
             /\ all[k].date = load.extra.date /\ all[k].score = load.extra.score
  <2>1. all[k] = RowOf(rows[k], load.extra) /\ IsContent(load.extra)
    BY <1>3, <1>6, DataAssumption
  <2>2. IsContent(all[k])
    BY <2>1 DEF RowOf, IsContent
  <2> QED BY <1>1, <2>1, <2>2 DEF RowOf, Group
<1>9. ASSUME NEW k \in (m + 1)..(m + n)
      PROVE  /\ k - m \in 1..n /\ all[k] = Others[k - m]
             /\ IsContent(all[k]) /\ all[k].day \in Int /\ all[k].money \in Int
             /\ Group(all[k]) # <<1, 0>>
  <2>1. k - m \in 1..n
    BY <1>1, <1>2
  <2> QED BY <1>2, <1>6, <2>1, DataAssumption
<1>10. \A k \in 1..Len(all) : k \in 1..m \/ k \in (m + 1)..(m + n)
  BY <1>1, <1>2, <1>6
<1>11. \A k \in 1..Len(all) : IsContent(all[k]) /\ all[k].day \in Int /\ all[k].money \in Int
  <2>1. \A k \in 1..m : k - 1 \in Int
    OBVIOUS
  <2> QED BY <2>1, <1>8, <1>9, <1>10
<1>12. ASSUME NEW i \in 1..Len(all), NEW j \in 1..Len(all),
              all[i].episode # None, Group(all[i]) = Group(all[j])
       PROVE  /\ all[i].date = all[j].date /\ all[i].score = all[j].score
              /\ all[i].day = all[j].day => i = j
  <2>1. CASE i \in 1..m
    <3>1. j \in 1..m
      BY <1>8, <1>9, <1>10, <1>12, <2>1
    <3> QED BY <1>8, <2>1, <3>1
  <2>2. CASE i \in (m + 1)..(m + n)
    <3>1. j \in (m + 1)..(m + n)
      BY <1>8, <1>9, <1>10, <1>12, <2>2
    <3>2. /\ i - m \in DOMAIN Others /\ j - m \in DOMAIN Others
          /\ all[i] = Others[i - m] /\ all[j] = Others[j - m]
      BY <1>2, <1>9, <2>2, <3>1
    <3>3. /\ all[i].date = all[j].date /\ all[i].score = all[j].score
          /\ all[i].day = all[j].day => i - m = j - m
      BY <1>12, <3>2, DataAssumption
    <3> QED BY <3>3, <1>1, <2>2, <3>1
  <2> QED BY <1>10, <2>1, <2>2
<1>13. StoredFine(all)
  BY <1>7, <1>11, <1>12 DEF StoredFine
<1>14. Len(all) = Days + Len(Others)
  BY <1>6 DEF m, n
<1> QED BY <1>13, <1>14 DEF all, own

\* The game's rows, laid out in files with the others', are all still to be read.
LEMMA StoreKeeps ==
  ASSUME LiveOK, DataOK, Store
  PROVE  DataOK'
<1>1. FarmOK /\ RowsOK /\ phase = "playing" /\ day = Days /\ phase' = "reading"
  BY DEF LiveOK, Store
<1>2. PICK load \in Loads :
        LET all == [i \in DOMAIN rows |-> RowOf(rows[i], load.extra)] \o Others
        IN /\ files' = [f \in DOMAIN load.layout |->
                          [i \in DOMAIN load.layout[f] |-> all[load.layout[f][i]]]]
           /\ stored' = all
           /\ dates' = load.dates
  BY DEF Store
<1> DEFINE layout == load.layout
           n == Days + Len(Others)
<1>3. StoredFine(stored)' /\ Len(stored') = n
  <2>1. stored' = [i \in DOMAIN rows |-> RowOf(rows[i], load.extra)] \o Others
    BY <1>2
  <2>2. StoredFine(stored') /\ Len(stored') = Days + Len(Others)
    BY <1>1, <2>1, StoredIsFine
  <2> QED BY <2>2
<1>4. files' = [f \in DOMAIN layout |-> [i \in DOMAIN layout[f] |-> stored'[layout[f][i]]]]
  BY <1>2
<1>5. /\ layout \in Seq(Range(layout))
      /\ \A f \in DOMAIN layout : layout[f] \in Seq(Range(layout[f]))
      /\ UNION {Range(layout[f]) : f \in DOMAIN layout} = 1..n
  BY DataAssumption DEF IsList
<1> HIDE DEF layout, n
<1>6. /\ DOMAIN layout = 1..Len(layout) /\ Len(layout) \in Nat
      /\ \A f \in 1..Len(layout) : DOMAIN layout[f] = 1..Len(layout[f]) /\ Len(layout[f]) \in Nat
  BY <1>5
<1>7. \A f \in 1..Len(layout) : \A i \in 1..Len(layout[f]) : layout[f][i] \in 1..n
  BY <1>5, <1>6 DEF Range
<1>8. \A k \in 1..n : \E f \in 1..Len(layout) : \E i \in 1..Len(layout[f]) : layout[f][i] = k
  BY <1>5, <1>6 DEF Range
<1>9. stored' \in Seq(Range(stored')) /\ DOMAIN stored' = 1..n
  BY <1>3 DEF StoredFine, IsList
<1>10. \A k \in 1..n : stored'[k] \in Range(stored')
  BY <1>9 DEF Range
<1>11. ASSUME NEW f \in 1..Len(layout)
       PROVE  /\ files'[f] = [i \in 1..Len(layout[f]) |-> stored'[layout[f][i]]]
              /\ files'[f] \in Seq(Range(stored')) /\ Len(files'[f]) = Len(layout[f])
  <2>1. files'[f] = [i \in 1..Len(layout[f]) |-> stored'[layout[f][i]]]
    BY <1>4, <1>6
  <2>2. files'[f] \in [1..Len(layout[f]) -> Range(stored')]
    BY <2>1, <1>7, <1>10
  <2>3. Len(layout[f]) \in Nat
    BY <1>6
  <2> QED BY <2>1, <2>2, <2>3
<1>12. files' \in Seq(Seq(Range(stored'))) /\ Len(files') = Len(layout)
  <2>1. files' \in [1..Len(layout) -> Seq(Range(stored'))]
    BY <1>4, <1>6, <1>11
  <2> QED BY <2>1, <1>6
<1>13. ASSUME NEW r \in Range(stored')
       PROVE  \E f \in 1..Len(files') : \E i \in 1..Len(files'[f]) : files'[f][i] = r
  <2>1. PICK k \in 1..n : stored'[k] = r
    BY <1>9 DEF Range
  <2>2. PICK f \in 1..Len(layout) : \E i \in 1..Len(layout[f]) : layout[f][i] = k
    BY <1>8
  <2>3. PICK i \in 1..Len(layout[f]) : layout[f][i] = k
    BY <2>2
  <2>4. files'[f][i] = r /\ i \in 1..Len(files'[f])
    <3>1. /\ files'[f] = [j \in 1..Len(layout[f]) |-> stored'[layout[f][j]]]
          /\ Len(files'[f]) = Len(layout[f])
      BY <1>11
    <3>2. files'[f][i] = stored'[layout[f][i]]
      BY <3>1
    <3> QED BY <3>1, <3>2, <2>1, <2>3
  <2> QED BY <2>4, <1>12
<1>14. table' = <<>> /\ read' = <<>> /\ report' = [read |-> 0, excluded |-> 0]
  BY <1>1 DEF DataOK, Store
<1>15. table' \in Seq(Range(stored')) /\ Len(table') = 0
  BY <1>14
<1>16. ReadingOK'
  <2>1. 1..Len(table') = {} /\ report'.read = 0 /\ report'.excluded = 0
    BY <1>14, <1>15
  <2>2. \A i \in 1..Len(table') : Selected(table[i])'
    BY <2>1
  <2>3. /\ report'.read \in Nat /\ report'.excluded \in Nat
        /\ report'.read = report'.excluded + Len(table')
    BY <2>1, <1>15
  <2>4. read' \in Seq(Range(stored)') /\ Picks(table, read, SelectedOf(read))'
    <3>1. read' \in Seq(Range(stored)') /\ Len(read') = 0 /\ 1..Len(read') = {}
      BY <1>14
    <3>2. SelectedOf(read)' = {}
      BY <3>1 DEF SelectedOf
    <3>3. (<<>> \in [1..Len(table') -> {}]) /\ IsPick(<<>>, table', read', {})
      BY <2>1 DEF IsPick
    <3>4. Picks(table', read', {})
      BY <3>3 DEF Picks
    <3> QED BY <3>1, <3>2, <3>4
  <2> QED BY <1>3, <1>12, <1>13, <1>15, <2>2, <2>3, <2>4 DEF ReadingOK
<1> QED BY <1>1, <1>16 DEF DataOK

\* A file is read: its rows are taken, or left out and counted.
LEMMA ReadKeeps ==
  ASSUME DataOK, ReadFile
  PROVE  DataOK'
<1>1. phase = "reading" /\ files # <<>> /\ ReadingOK /\ UNCHANGED <<stored, dates, joined>>
  BY DEF ReadFile, DataOK
<1>2. CASE phase' = "refused"
  BY <1>2 DEF DataOK
<1>3. CASE phase' # "refused"
  <2> DEFINE file == Head(files)
             I == {i \in DOMAIN file : Selected(file[i])}
             new == Kept(file, I)
             R == Range(stored)
  <2>1. /\ dates.train \intersect dates.val = {}
        /\ \A i \in DOMAIN file : file[i].version = SchemaVersion
        /\ table' = table \o new
        /\ report' = [read |-> report.read + Len(file),
                      excluded |-> report.excluded + Len(file) - Len(new)]
        /\ files' = Tail(files) /\ read' = read \o file /\ phase' = phase
    BY <1>3 DEF ReadFile, Refuse, Filtered
  <2>2. files \in Seq(Seq(R)) /\ table \in Seq(R) /\ Len(files) \in Nat /\ Len(files) >= 1
    BY <1>1 DEF ReadingOK
  <2>3. file = files[1] /\ file \in Seq(R) /\ DOMAIN file = 1..Len(file) /\ Len(file) \in Nat
    BY <2>2
  <2>4. /\ files' \in Seq(Seq(R)) /\ Len(files') = Len(files) - 1
        /\ \A f \in 1..Len(files') : files'[f] = files[f + 1]
    BY <2>1, <2>2
  <2>5. I \in SUBSET (1..Len(file))
    BY <2>3
  <2>6. \A i \in 1..Len(file) : Selected(file[i]) <=> i \in I
    BY <2>3
  <2> HIDE DEF file, I
  <2>7. /\ new \in Seq(R) /\ Len(new) \in Nat /\ Len(new) <= Len(file)
        /\ \A n \in 1..Len(new) : \E i \in I : new[n] = file[i]
        /\ \A i \in I : \E n \in 1..Len(new) : new[n] = file[i]
    BY <2>3, <2>5, KeptEntries
  <2>n. Picks(new, file, I)
    BY <2>3, <2>5, KeptPicks
  <2> HIDE DEF new
  <2>8. /\ table' \in Seq(R) /\ Len(table') = Len(table) + Len(new) /\ Len(table) \in Nat
        /\ \A i \in 1..Len(table') : table'[i] = IF i <= Len(table) THEN table[i]
                                                ELSE new[i - Len(table)]
    BY <2>1, <2>2, <2>7
  <2>9. \A r : Selected(r)' <=> Selected(r)
    BY <1>1 DEF Selected
  <2>10. ASSUME NEW i \in 1..Len(table') PROVE Selected(table[i])'
    <3>1. CASE i <= Len(table)
      <4>1. i \in 1..Len(table) /\ table'[i] = table[i]
        BY <3>1, <2>8
      <4>2. Selected(table[i])
        BY <4>1, <1>1 DEF ReadingOK
      <4> QED BY <4>1, <4>2, <1>1 DEF Selected
    <3>2. CASE ~(i <= Len(table))
      <4>1. i - Len(table) \in 1..Len(new) /\ table'[i] = new[i - Len(table)]
        BY <3>2, <2>7, <2>8
      <4>2. PICK k \in I : table'[i] = file[k]
        BY <4>1, <2>7
      <4>3. Selected(file[k])
        BY <2>5, <2>6
      <4> QED BY <4>2, <4>3, <1>1 DEF Selected
    <3> QED BY <3>1, <3>2
  <2>11. ASSUME NEW r, \E i \in 1..Len(table) : table[i] = r
         PROVE  \E i \in 1..Len(table') : table'[i] = r
    <3>1. PICK i \in 1..Len(table) : table[i] = r
      BY <2>11
    <3>2. i \in 1..Len(table') /\ i <= Len(table)
      BY <2>7, <2>8
    <3> QED BY <3>1, <3>2, <2>8
  <2>12. ASSUME NEW r, \E n \in 1..Len(new) : new[n] = r
         PROVE  \E i \in 1..Len(table') : table'[i] = r
    <3>1. PICK n \in 1..Len(new) : new[n] = r
      BY <2>12
    <3>2. n + Len(table) \in 1..Len(table') /\ ~(n + Len(table) <= Len(table))
          /\ (n + Len(table)) - Len(table) = n
      BY <2>7, <2>8
    <3> QED BY <3>1, <3>2, <2>8
  <2>13. ASSUME NEW r \in R
         PROVE  Taken(r)' \/ \E f \in 1..Len(files') : \E i \in 1..Len(files'[f]) : files'[f][i] = r
    <3>1. CASE Taken(r)
      BY <3>1, <1>1, <2>9, <2>11 DEF Taken
    <3>2. CASE \E f \in 1..Len(files) : \E i \in 1..Len(files[f]) : files[f][i] = r
      <4>1. PICK f \in 1..Len(files) : \E i \in 1..Len(files[f]) : files[f][i] = r
        BY <3>2
      <4>2. CASE f = 1
        <5>1. PICK i \in 1..Len(file) : file[i] = r
          BY <4>1, <4>2, <2>3
        <5>2. Selected(r) => \E n \in 1..Len(table') : table'[n] = r
          BY <5>1, <2>6, <2>7, <2>12
        <5>3. r.version = SchemaVersion
          BY <5>1, <2>1, <2>3 DEF file
        <5> QED BY <5>2, <5>3, <1>1, <2>1, <2>9 DEF Taken
      <4>3. CASE f # 1
        <5>1. f - 1 \in 1..Len(files') /\ (f - 1) + 1 = f
          BY <4>3, <2>2, <2>4
        <5>2. files'[f - 1] = files[f]
          BY <5>1, <2>4
        <5> QED BY <4>1, <5>1, <5>2
      <4> QED BY <4>2, <4>3
    <3> QED BY <3>1, <3>2, <1>1 DEF ReadingOK
  <2>14. /\ report'.read \in Nat /\ report'.excluded \in Nat
         /\ report'.read = report'.excluded + Len(table')
    <3>1. /\ report.read \in Nat /\ report.excluded \in Nat
          /\ report.read = report.excluded + Len(table)
      BY <1>1 DEF ReadingOK
    <3>2. /\ report'.read = report.read + Len(file)
          /\ report'.excluded = report.excluded + Len(file) - Len(new)
      BY <2>1 DEF file, new, I
    <3> QED BY <3>1, <3>2, <2>3, <2>7, <2>8
  <2>15. StoredFine(stored)' /\ R' = R
    BY <1>1 DEF ReadingOK
  <2>p. read' \in Seq(R) /\ Picks(table, read, SelectedOf(read))'
    <3> DEFINE S1 == SelectedOf(read)
               S2 == SelectedOf(read)'
    <3>1. read \in Seq(R) /\ Picks(table, read, S1) /\ Len(read) \in Nat
      BY <1>1 DEF ReadingOK
    <3>2. /\ read' = read \o file /\ read' \in Seq(R) /\ Len(read') = Len(read) + Len(file)
          /\ \A k \in 1..Len(read') : read'[k] = IF k <= Len(read) THEN read[k]
                                              ELSE file[k - Len(read)]
      BY <2>1, <2>3, <3>1
    <3>3. \A k : k \in S2 <=> k \in 1..Len(read') /\ Selected(read'[k])
      BY <1>1 DEF SelectedOf, Selected
    <3>4. \A k : k \in S1 <=> k \in 1..Len(read) /\ Selected(read[k])
      BY DEF SelectedOf
    <3> HIDE DEF S1, S2, R
    <3>5. \A i \in 1..Len(read) : i \in S2 <=> i \in S1
      <4> TAKE i \in 1..Len(read)
      <4>1. i \in 1..Len(read') /\ i <= Len(read)
        BY <2>3, <3>1, <3>2
      <4>2. read'[i] = read[i]
        BY <4>1, <3>2
      <4> QED BY <4>1, <4>2, <3>3, <3>4
    <3>6. \A j \in 1..Len(file) : Len(read) + j \in S2 <=> j \in I
      <4> TAKE j \in 1..Len(file)
      <4>1. /\ Len(read) + j \in 1..Len(read') /\ ~(Len(read) + j <= Len(read))
            /\ (Len(read) + j) - Len(read) = j
        BY <2>3, <3>1, <3>2
      <4>2. read'[Len(read) + j] = file[j]
        BY <4>1, <3>2
      <4> QED BY <4>1, <4>2, <2>6, <3>3
    <3>7. S2 \in SUBSET (1..(Len(read) + Len(file))) /\ S1 \in SUBSET (1..Len(read))
      BY <3>2, <3>3, <3>4
    <3>8. table \in Seq(R) /\ new \in Seq(R) /\ file \in Seq(R)
      BY <2>2, <2>3, <2>7
    <3>9. Picks(table \o new, read \o file, S2)
      BY <2>5, <2>n, <3>1, <3>5, <3>6, <3>7, <3>8, PicksJoin
    <3>10. Picks(table', read', S2)
      BY <2>1, <3>2, <3>9 DEF new
    <3> QED BY <3>2, <3>10 DEF S2
  <2>16. ReadingOK'
    <3>1. /\ files' \in Seq(Seq(Range(stored)')) /\ table' \in Seq(Range(stored)')
          /\ read' \in Seq(Range(stored)')
      BY <2>4, <2>8, <2>15, <2>p
    <3>2. \A r \in Range(stored)' :
             Taken(r)' \/ \E f \in 1..Len(files') : \E i \in 1..Len(files'[f]) : files'[f][i] = r
      BY <2>13, <2>15
    <3> HIDE DEF R
    <3> QED BY <2>10, <2>14, <2>15, <2>p, <3>1, <3>2 DEF ReadingOK
  <2> QED BY <1>1, <2>1, <2>16 DEF DataOK
<1> QED BY <1>2, <1>3

LEMMA SplitKeeps ==
  ASSUME DataOK, SplitUp
  PROVE  DataOK'
<1>1. phase = "reading" /\ files = <<>> /\ ReadingOK /\ UNCHANGED <<stored, dates, joined>>
  BY DEF SplitUp, DataOK
<1>2. CASE phase' = "refused"
  BY <1>2 DEF DataOK
<1>3. CASE phase' # "refused"
  <2> DEFINE s == [train |-> OfDates(dates.train), val |-> OfDates(dates.val)]
  <2>1. DOMAIN s = Splits /\ \A which \in Splits : s[which] = Split(which)
    BY DEF Splits, Split
  <2>2. /\ \A which \in DOMAIN s :
             /\ joined => ~Ambiguous(s[which])
             /\ \A row \in Range(s[which]) : ~MalformedStart(row) /\ ~MalformedTargets(row)
        /\ data' = [which \in DOMAIN s |-> Arrays(s[which])]
        /\ phase' = "loaded" /\ UNCHANGED <<files, read, table, report>>
    BY <1>3 DEF SplitUp, Refuse, Refused
  <2> HIDE DEF s
  <2>3. \A which \in Splits : Split(which)' = Split(which)
    BY <1>1, <2>2 DEF Split, OfDates, Filtered
  <2>4. LoadedOK'
    <3>1. \A which \in Splits : Arrays(Split(which))' = Arrays(Split(which))
      BY <1>1, <2>3 DEF Arrays
    <3> QED BY <1>1, <2>1, <2>2, <2>3, <3>1 DEF LoadedOK
  <2>5. ReadingOK'
    BY <1>1, <2>2 DEF ReadingOK, Taken, Selected, SelectedOf
  <2> QED BY <2>2, <2>4, <2>5 DEF DataOK
<1> QED BY <1>2, <1>3

LEMMA DataInit == Init => DataOK
BY DEF Init, DataOK

LEMMA DataStep == LiveOK /\ DataOK /\ [Next]_vars => DataOK'
<1> SUFFICES ASSUME LiveOK, DataOK, [Next]_vars PROVE DataOK'
  OBVIOUS
<1>1. CASE Store
  BY <1>1, StoreKeeps
<1>2. CASE ReadFile
  BY <1>2, ReadKeeps
<1>3. CASE SplitUp
  BY <1>3, SplitKeeps
<1>4. CASE UNCHANGED <<phase, loading>>
  <2>1. UNCHANGED <<phase, stored, files, read, table, report, dates, joined, data>>
    BY <1>4 DEF loading
  <2>2. ReadingOK' = ReadingOK
    BY <2>1 DEF ReadingOK, Taken, Selected, SelectedOf
  <2>3. \A which \in Splits : Split(which)' = Split(which)
    BY <2>1 DEF Split, OfDates, Filtered
  <2>a. \A which \in Splits : Arrays(Split(which))' = Arrays(Split(which))
    BY <2>1, <2>3 DEF Arrays
  <2>4. LoadedOK => LoadedOK'
    BY <2>1, <2>3, <2>a DEF LoadedOK
  <2> QED BY <2>1, <2>2, <2>4 DEF DataOK
<1>5. CASE Decode
  <2>1. phase' = "decoded"
    BY <1>5 DEF Decode
  <2> QED BY <2>1 DEF DataOK
<1> QED BY <1>1, <1>2, <1>3, <1>4, <1>5 DEF Next, Turn, vars

LEMMA DataAlways == Spec => [](LiveOK /\ DataOK)
<1>1. Init => LiveOK /\ DataOK
  BY LiveInit, DataInit
<1>2. (LiveOK /\ DataOK) /\ [Next]_vars => (LiveOK /\ DataOK)'
  BY LiveStep, DataStep
<1> QED BY <1>1, <1>2, PTL DEF Spec

\* Nothing is left to be read: every stored row was taken.
LEMMA AllTaken ==
  ASSUME ReadingOK, LoadedOK
  PROVE  \A r \in Range(stored) : Taken(r)
<1>1. files = <<>>
  BY DEF LoadedOK
<1>2. 1..Len(files) = {}
  BY <1>1
<1> QED BY <1>2 DEF ReadingOK

\* A row of a split is stored and has a date of the split; the split has every stored row of
\* such a date, as often as it was read; with the context each once, and of a known episode.
LEMMA SplitIs ==
  ASSUME ReadingOK, LoadedOK, NEW which \in Splits
  PROVE  LET s == Split(which)
         IN  /\ s \in Seq(Range(stored))
             /\ \A i \in 1..Len(s) :
                   /\ s[i] \in Range(stored) /\ (joined => s[i].episode # None)
                   /\ s[i].date \in dates[which] /\ s[i].score >= MinScore
             /\ \A r \in Range(stored) : r.date \in dates[which] /\ r.score >= MinScore =>
                   \E i \in 1..Len(s) : s[i] = r
             /\ joined => \A i, j \in 1..Len(s) :
                   i # j => Group(s[i]) # Group(s[j]) \/ s[i].day # s[j].day
             /\ Picks(s, read, Wanted(read, which))
<1> DEFINE I == {i \in DOMAIN table : table[i].date \in dates[which]}
           s == Kept(table, I)
           R == Range(stored)
<1>1. Split(which) = s
  BY DEF Split, OfDates, Filtered
<1>2. /\ table \in Seq(R) /\ DOMAIN table = 1..Len(table)
      /\ \A i \in 1..Len(table) : Selected(table[i])
  BY DEF ReadingOK
<1>3. /\ I \in SUBSET (1..Len(table))
      /\ \A i \in 1..Len(table) : i \in I <=> table[i].date \in dates[which]
  BY <1>2
<1> HIDE DEF I
<1>4. /\ s \in Seq(R) /\ Len(s) \in Nat /\ DOMAIN s = 1..Len(s)
      /\ \A n \in 1..Len(s) : \E i \in I : s[n] = table[i]
      /\ \A i \in I : \E n \in 1..Len(s) : s[n] = table[i]
  <2>1. /\ s \in Seq(R) /\ Len(s) \in Nat
        /\ \A n \in 1..Len(s) : \E i \in I : s[n] = table[i]
        /\ \A i \in I : \E n \in 1..Len(s) : s[n] = table[i]
    BY <1>2, <1>3, KeptEntries
  <2> HIDE DEF s
  <2> QED BY <2>1
<1> HIDE DEF s
<1>5. joined => ~Ambiguous(s)
  BY <1>1 DEF LoadedOK
<1>6. ASSUME NEW n \in 1..Len(s)
      PROVE  /\ s[n] \in R /\ (joined => s[n].episode # None)
             /\ s[n].date \in dates[which] /\ s[n].score >= MinScore
  <2>1. PICK i \in I : s[n] = table[i]
    BY <1>4
  <2>2. i \in 1..Len(table) /\ Selected(table[i])
    BY <1>2, <1>3
  <2>3. s[n] \in R
    BY <1>4
  <2> QED BY <2>1, <2>2, <2>3, <1>3, <1>4, <1>5 DEF Ambiguous, Selected
<1>7. ASSUME NEW r \in R, r.date \in dates[which], r.score >= MinScore
      PROVE  \E n \in 1..Len(s) : s[n] = r
  <2>1. Taken(r)
    BY AllTaken
  <2>2. Selected(r)
    BY <1>7 DEF Selected, Splits
  <2>3. PICK i \in 1..Len(table) : table[i] = r
    BY <2>1, <2>2 DEF Taken
  <2>4. i \in I
    BY <2>3, <1>3, <1>7
  <2> QED BY <2>3, <2>4, <1>4
<1>8. ASSUME joined, NEW i \in 1..Len(s), NEW j \in 1..Len(s), i # j
      PROVE  Group(s[i]) # Group(s[j]) \/ s[i].day # s[j].day
  <2>1. i < j \/ j < i
    BY <1>8
  <2> QED BY <2>1, <1>4, <1>5, <1>8 DEF Ambiguous
<1>9. Picks(s, read, Wanted(read, which))
  <2> DEFINE A == {r \in R : r.date \in dates[which]}
  <2>1. /\ read \in Seq(R) /\ DOMAIN read = 1..Len(read)
        /\ Picks(table, read, SelectedOf(read))
    BY DEF ReadingOK
  <2>2. I = {n \in 1..Len(table) : table[n] \in A}
    <3>1. \A n \in 1..Len(table) : table[n] \in R
      BY <1>2
    <3> QED BY <1>3, <3>1
  <2>3. Wanted(read, which) = {i \in SelectedOf(read) : read[i] \in A}
    <3>1. \A i \in 1..Len(read) : read[i] \in R
      BY <2>1
    <3>2. \A r : r.date \in dates[which] /\ r.score >= MinScore => Selected(r)
      BY DEF Selected, Splits
    <3>3. \A r : Selected(r) => r.score >= MinScore
      BY DEF Selected
    <3> HIDE DEF R
    <3> QED BY <2>1, <3>1, <3>2, <3>3 DEF Wanted, SelectedOf
  <2>4. Picks(s, table, I)
    BY <1>2, <1>3, KeptPicks DEF s
  <2>5. Len(table) \in Nat /\ Len(s) \in Nat
    BY <1>2, <1>4
  <2> HIDE DEF A
  <2> DEFINE S1 == SelectedOf(read)
             W == Wanted(read, which)
  <2>6. /\ \A n : n \in I <=> n \in 1..Len(table) /\ table[n] \in A
        /\ \A i : i \in W <=> i \in S1 /\ read[i] \in A
    BY <2>2, <2>3
  <2>7. Picks(table, read, S1)
    BY <2>1
  <2> HIDE DEF S1, W
  <2>8. Picks(s, read, W)
    BY <2>4, <2>5, <2>6, <2>7, PicksOfPicks
  <2> QED BY <2>8 DEF W
<1> QED BY <1>1, <1>4, <1>6, <1>7, <1>8, <1>9

LEMMA StoredContent ==
  ASSUME ReadingOK, NEW r \in Range(stored)
  PROVE  r.day \in Int /\ r.money \in Int /\ IsContent(r)
<1>1. StoredFine(stored)
  BY DEF ReadingOK
<1>2. PICK i \in 1..Len(stored) : stored[i] = r
  BY <1>1 DEF Range, StoredFine, IsList
<1> QED BY <1>1, <1>2 DEF StoredFine

\* What two stored rows of a game share, and that a day has one row.
LEMMA StoredOnce ==
  ASSUME ReadingOK, NEW r \in Range(stored), NEW q \in Range(stored),
         r.episode # None, Group(r) = Group(q)
  PROVE  /\ r.date = q.date /\ r.score = q.score
         /\ r.day = q.day => r = q
         /\ r.day \in Int /\ r.money \in Int /\ IsContent(r)
<1>1. StoredFine(stored)
  BY DEF ReadingOK
<1>2. DOMAIN stored = 1..Len(stored)
  BY <1>1 DEF StoredFine, IsList
<1>3. PICK i \in 1..Len(stored) : stored[i] = r
  BY <1>2 DEF Range
<1>4. PICK j \in 1..Len(stored) : stored[j] = q
  BY <1>2 DEF Range
<1> QED BY <1>1, <1>3, <1>4 DEF StoredFine

LEMMA ContextSays ==
  ASSUME NEW m, NEW n, NEW d
  PROVE  LET c == EconomicContext(m, n, d)
         IN  /\ c.money = m /\ c.valid = (d # None)
             /\ d # None => c.delta = d
BY DEF EconomicContext

LEMMA ContextOwn ==
  ASSUME ReadingOK, LoadedOK, joined, NEW which \in Splits, NEW i \in 1..Len(Split(which))
  PROVE  ContextIsOwn(StoredContext(Split(which), i), Split(which)[i])
<1> DEFINE s == Split(which)
           r == s[i]
           before == {b \in Range(stored) : Group(b) = Group(r) /\ b.day = r.day - 1}
           Y == Yesterday(s, i)
           c == StoredContext(s, i)
<1>1. /\ s \in Seq(Range(stored)) /\ DOMAIN s = 1..Len(s)
      /\ \A n \in 1..Len(s) :
            /\ s[n] \in Range(stored) /\ s[n].episode # None
            /\ s[n].date \in dates[which] /\ s[n].score >= MinScore
      /\ \A q \in Range(stored) : q.date \in dates[which] /\ q.score >= MinScore =>
            \E n \in 1..Len(s) : s[n] = q
  <2>1. s \in Seq(Range(stored))
    BY SplitIs
  <2>2. \A n \in 1..Len(s) :
            /\ s[n] \in Range(stored) /\ s[n].episode # None
            /\ s[n].date \in dates[which] /\ s[n].score >= MinScore
    BY SplitIs
  <2>3. \A q \in Range(stored) : q.date \in dates[which] /\ q.score >= MinScore =>
            \E n \in 1..Len(s) : s[n] = q
    BY SplitIs
  <2> HIDE DEF s
  <2> QED BY <2>1, <2>2, <2>3
<1>i. i \in 1..Len(s)
  OBVIOUS
<1> HIDE DEF s
<1>2. r \in Range(stored) /\ r.episode # None /\ r.date \in dates[which] /\ r.score >= MinScore
  BY <1>1, <1>i
<1>3. \A n : n \in Y <=> n \in 1..Len(s) /\ Group(s[n]) = Group(r) /\ s[n].day = r.day - 1
  BY <1>1 DEF Yesterday
<1>4. ASSUME NEW n \in Y PROVE s[n] \in before
  BY <1>1, <1>3
<1>5. ASSUME NEW b \in before PROVE \E n \in Y : s[n] = b
  <2>1. b.date = r.date /\ b.score = r.score
    BY <1>2, StoredOnce
  <2>2. PICK n \in 1..Len(s) : s[n] = b
    BY <2>1, <1>1, <1>2
  <2> QED BY <2>2, <1>3
<1>6. c = EconomicContext(r.money, r.land, IF Y = {} THEN None
                                          ELSE r.money - s[CHOOSE j \in Y : TRUE].money)
  BY DEF StoredContext
<1>7. r.money \in Int /\ r.day \in Int
  BY <1>2, StoredOnce
<1>8. CASE Y = {}
  <2>1. before = {}
    BY <1>5, <1>8
  <2>2. c = EconomicContext(r.money, r.land, None)
    BY <1>6, <1>8
  <2>3. c.money = r.money /\ c.valid = FALSE
    <3> HIDE DEF c, r
    <3> QED BY <2>2, ContextSays
  <2>4. ContextIsOwn(c, r) <=>
          /\ c.money = r.money /\ c.valid = (before # {})
          /\ \A b \in before : c.delta = r.money - b.money
    BY DEF ContextIsOwn
  <2> HIDE DEF c, r, before
  <2>5. ContextIsOwn(c, r)
    BY <2>1, <2>3, <2>4
  <2> QED BY <2>5 DEF c, r, s
<1>9. CASE Y # {}
  <2>1. PICK k : k = (CHOOSE j \in Y : TRUE) /\ k \in Y
    BY <1>9
  <2>2. s[k] \in before
    BY <1>4, <2>1
  <2>3. \A b \in before : b = s[k]
    <3> SUFFICES ASSUME NEW b \in before PROVE b = s[k]
      OBVIOUS
    <3>1. /\ s[k] \in Range(stored) /\ s[k].episode # None
          /\ Group(s[k]) = Group(b) /\ s[k].day = b.day
      BY <1>1, <1>3, <2>1
    <3> QED BY <3>1, StoredOnce
  <2>4. s[k].money \in Int
    <3>1. s[k] \in Range(stored) /\ s[k].episode # None
      BY <1>1, <1>3, <2>1
    <3> QED BY <3>1, StoredOnce
  <2>5. c = EconomicContext(r.money, r.land, r.money - s[k].money)
    BY <1>6, <1>9, <2>1
  <2>6. r.money - s[k].money # None
    BY <1>7, <2>4, InputsAssumption
  <2>7. c.money = r.money /\ c.valid = TRUE /\ c.delta = r.money - s[k].money
    <3> DEFINE d == r.money - s[k].money
    <3>1. c = EconomicContext(r.money, r.land, d) /\ d # None
      BY <2>5, <2>6
    <3> HIDE DEF c, r, d
    <3>2. c.money = r.money /\ c.valid = (d # None) /\ c.delta = d
      BY <3>1, ContextSays
    <3> QED BY <3>1, <3>2 DEF d
  <2>8. ContextIsOwn(c, r) <=>
          /\ c.money = r.money /\ c.valid = (before # {})
          /\ \A b \in before : c.delta = r.money - b.money
    BY DEF ContextIsOwn
  <2> HIDE DEF c, r, before
  <2>9. ContextIsOwn(c, r)
    BY <2>2, <2>3, <2>7, <2>8
  <2> QED BY <2>9 DEF c, r, s
<1> QED BY <1>8, <1>9 DEF s

-----------------------------------------------------------------------------
(* Counts, and what becomes of them. *)

Values(pairs) == [i \in DOMAIN pairs |-> pairs[i][2]]
PlacesOf(pairs, keys) == {i \in DOMAIN pairs : pairs[i][1] \in keys}

LEMMA AmountIs ==
  ASSUME NEW pairs, IsCount(pairs), NEW keys
  PROVE  /\ IsFiniteSet(DOMAIN pairs) /\ \A i \in DOMAIN pairs : Values(pairs)[i] \in Nat
         /\ IsFiniteSet(PlacesOf(pairs, keys))
         /\ Amount(pairs, keys) = SumFunctionOnSet(Values(pairs), PlacesOf(pairs, keys))
         /\ Amount(pairs, keys) \in Nat
<1>1. IsList(pairs) /\ \A i \in DOMAIN pairs : pairs[i][2] \in Nat
  BY DEF IsCount
<1>2. DOMAIN pairs = 1..Len(pairs) /\ Len(pairs) \in Nat
  BY <1>1 DEF IsList
<1>3. IsFiniteSet(DOMAIN pairs)
  <2>1. Len(pairs) \in Int /\ 1 \in Int
    BY <1>2
  <2> QED BY <1>2, <2>1, FS_Interval
<1>4. IsFiniteSet(PlacesOf(pairs, keys)) /\ PlacesOf(pairs, keys) \subseteq DOMAIN pairs
  BY <1>3, FS_Subset DEF PlacesOf
<1>5. \A i \in DOMAIN pairs : Values(pairs)[i] \in Nat
  BY <1>1 DEF Values
<1>6. Amount(pairs, keys) = SumFunctionOnSet(Values(pairs), PlacesOf(pairs, keys))
  BY DEF Amount, Values, PlacesOf
<1>7. SumFunctionOnSet(Values(pairs), PlacesOf(pairs, keys)) \in Nat
  BY <1>4, <1>5, SumNat
<1> QED BY <1>3, <1>4, <1>5, <1>6, <1>7

\* The amounts of some keys, added up.
LEMMA AmountsAdd ==
  ASSUME NEW pairs, IsCount(pairs), NEW K, IsFiniteSet(K),
         NEW g, \A k \in K : g[k] = Amount(pairs, {k})
  PROVE  SumFunctionOnSet(g, K) = Amount(pairs, K)
<1> DEFINE D == DOMAIN pairs
           f == Values(pairs)
           key == [i \in DOMAIN pairs |-> pairs[i][1]]
<1>1. /\ IsFiniteSet(D) /\ \A i \in D : f[i] \in Int
      /\ \A k \in K : g[k] = SumFunctionOnSet(f, PlacesOf(pairs, {k}))
      /\ Amount(pairs, K) = SumFunctionOnSet(f, PlacesOf(pairs, K))
  BY AmountIs
<1>2. \A k : PlacesOf(pairs, {k}) = Of(D, key, k)
  BY DEF PlacesOf, Of
<1>3. PlacesOf(pairs, K) = OfAny(D, key, K)
  BY DEF PlacesOf, OfAny
<1> HIDE DEF D, f, key
<1>4. \A k \in K : g[k] = SumFunctionOnSet(f, Of(D, key, k))
  BY <1>1, <1>2
<1>5. SumFunctionOnSet(g, K) = SumFunctionOnSet(f, OfAny(D, key, K))
  BY <1>1, <1>4, SumByKey
<1> QED BY <1>1, <1>3, <1>5

\* All there is, told apart into what has keys of K and what has others.
LEMMA GoodsApart ==
  ASSUME NEW pairs, IsCount(pairs), NEW K
  PROVE  /\ Goods(pairs) = Amount(pairs, K) + Amount(pairs, Keys(pairs) \ K)
         /\ Keys(pairs) \subseteq K => Goods(pairs) = Amount(pairs, K)
<1> DEFINE A == PlacesOf(pairs, K)
           B == PlacesOf(pairs, Keys(pairs) \ K)
           f == Values(pairs)
<1>1. /\ IsFiniteSet(A) /\ IsFiniteSet(B)
      /\ Amount(pairs, K) = SumFunctionOnSet(f, A)
      /\ Amount(pairs, Keys(pairs) \ K) = SumFunctionOnSet(f, B)
      /\ Goods(pairs) = SumFunctionOnSet(f, PlacesOf(pairs, Keys(pairs)))
  BY AmountIs DEF Goods
<1>2. /\ A \intersect B = {} /\ PlacesOf(pairs, Keys(pairs)) = A \union B
      /\ A \union B \subseteq DOMAIN pairs
  BY DEF PlacesOf, Keys
<1>3. \A i \in DOMAIN pairs : f[i] \in Int
  BY AmountIs
<1>4. Keys(pairs) \subseteq K => A \union B = A
  BY DEF PlacesOf
<1> HIDE DEF A, B, f
<1>5. SumFunctionOnSet(f, A \union B) = SumFunctionOnSet(f, A) + SumFunctionOnSet(f, B)
  BY <1>1, <1>2, <1>3, SumApart
<1> QED BY <1>1, <1>2, <1>4, <1>5

\* Keys that have nothing each have nothing together.
LEMMA AmountNone ==
  ASSUME NEW pairs, IsCount(pairs), NEW K, \A k \in K : Amount(pairs, {k}) = 0
  PROVE  Amount(pairs, K) = 0
<1> DEFINE f == Values(pairs)
           A == PlacesOf(pairs, K)
<1>1. /\ Amount(pairs, K) = SumFunctionOnSet(f, A) /\ IsFiniteSet(A)
      /\ \A i \in DOMAIN pairs : f[i] \in Nat
  BY AmountIs
<1>2. ASSUME NEW i \in A PROVE i \in DOMAIN pairs /\ f[i] = 0
  <2> DEFINE P == PlacesOf(pairs, {pairs[i][1]})
  <2>1. pairs[i][1] \in K /\ i \in P /\ P \subseteq DOMAIN pairs /\ i \in DOMAIN pairs
    BY DEF PlacesOf
  <2>2. IsFiniteSet(P) /\ SumFunctionOnSet(f, P) = 0
    BY <2>1, AmountIs
  <2>3. \A j \in P : f[j] \in Nat
    BY <1>1, <2>1
  <2> HIDE DEF P, f
  <2>4. f[i] <= SumFunctionOnSet(f, P)
    BY <2>1, <2>2, <2>3, SumNat
  <2> QED BY <2>1, <2>2, <2>3, <2>4
<1> HIDE DEF f, A
<1>3. SumFunctionOnSet(f, A) = 0
  BY <1>1, <1>2, SumNat
<1> QED BY <1>1, <1>3

-----------------------------------------------------------------------------
(* The inputs and targets of a row hold what the row holds. *)

LEMMA InputsOwn ==
  ASSUME NEW r, IsContent(r), ~MalformedStart(r)
  PROVE  InputsAreOwn(InputsOf(r), r)
<1> DEFINE in == InputsOf(r)
           inv == r.inventories
           W == DOMAIN inv
<1>1. /\ in.labor = r.labor
      /\ in.shed = [k \in Resources |-> Amount(r.shed, {k})]
      /\ in.carried = [k \in Resources |-> Carried(r, k)]
      /\ in.shops = [k \in Shops \union {None} |->
                       Amount(r.shops, IF k = None THEN Keys(r.shops) \ Shops ELSE {k})]
  BY DEF InputsOf
<1>2. /\ IsCount(r.shed) /\ IsCount(r.shops) /\ IsList(inv)
      /\ \A w \in W : IsCount(inv[w])
  BY DEF IsContent
<1>3. /\ Keys(r.shed) \subseteq Resources
      /\ \A w \in W : Keys(inv[w]) \subseteq Resources
  BY DEF MalformedStart, Range
<1>4. IsFiniteSet(Resources) /\ IsFiniteSet(Shops) /\ None \notin Shops
  BY DataAssumption
<1> HIDE DEF in, inv, W
<1>5. SumFunction(in.shed) = Goods(r.shed)
  <2> DEFINE g == in.shed
  <2>1. DOMAIN g = Resources /\ \A k \in Resources : g[k] = Amount(r.shed, {k})
    BY <1>1
  <2> HIDE DEF g
  <2>2. SumFunctionOnSet(g, Resources) = Amount(r.shed, Resources)
    BY <1>2, <1>4, <2>1, AmountsAdd
  <2>3. Goods(r.shed) = Amount(r.shed, Resources)
    BY <1>2, <1>3, GoodsApart
  <2>4. SumFunction(g) = SumFunctionOnSet(g, Resources)
    BY <2>1 DEF SumFunction
  <2> QED BY <2>2, <2>3, <2>4 DEF g
<1>6. SumFunction(in.shops) = Goods(r.shops)
  <2> DEFINE g == in.shops
             p == r.shops
             others == Amount(p, Keys(p) \ Shops)
             K == Shops \union {None}
  <2>1. /\ DOMAIN g = K /\ g[None] = others
        /\ \A k \in Shops : g[k] = Amount(p, {k})
    BY <1>1, <1>4
  <2>2. IsCount(p) /\ others \in Nat /\ \A k \in Shops : Amount(p, {k}) \in Nat
    BY <1>2, AmountIs
  <2> HIDE DEF g, p, others
  <2>3. K \ {None} = Shops /\ IsFiniteSet(K) /\ None \in K
    BY <1>4, FS_AddElement
  <2>4. ASSUME NEW k \in K PROVE g[k] \in Int
    <3>1. CASE k = None
      BY <2>1, <2>2, <3>1
    <3>2. CASE k \in Shops
      <4>1. g[k] = Amount(p, {k}) /\ Amount(p, {k}) \in Nat
        BY <2>1, <2>2, <3>2
      <4> QED BY <4>1
    <3> QED BY <3>1, <3>2
  <2> HIDE DEF K
  <2>5. SumFunctionOnSet(g, K) = others + SumFunctionOnSet(g, Shops)
    BY <2>1, <2>3, <2>4, SumTakeOut
  <2>6. SumFunctionOnSet(g, Shops) = Amount(p, Shops)
    BY <1>4, <2>1, <2>2, AmountsAdd
  <2>7. Goods(p) = Amount(p, Shops) + others
    BY <2>2, GoodsApart DEF others
  <2>8. Amount(p, Shops) \in Nat
    BY <2>2, AmountIs
  <2>9. SumFunction(g) = SumFunctionOnSet(g, K)
    BY <2>1 DEF SumFunction
  <2>10. SumFunction(g) = Goods(p)
    BY <2>2, <2>5, <2>6, <2>7, <2>8, <2>9
  <2> QED BY <2>10 DEF g, p
<1>7. SumFunction(in.carried) = SumFunction([w \in W |-> Goods(inv[w])])
  <2> DEFINE f == in.carried
             g == [w \in W |-> Goods(inv[w])]
             m == [k \in Resources |-> [w \in W |-> Amount(inv[w], {k})]]
             cols == [w \in W |-> [k \in Resources |-> Amount(inv[w], {k})]]
  <2>1. IsFiniteSet(W)
    <3>1. Len(inv) \in Nat /\ W = 1..Len(inv)
      BY <1>2 DEF IsList, W
    <3>2. Len(inv) \in Int /\ 1 \in Int
      BY <3>1
    <3> QED BY <3>1, <3>2, FS_Interval
  <2>2. \A k \in Resources, w \in W :
           cols[w][k] = Amount(inv[w], {k}) /\ m[k][w] = cols[w][k] /\ m[k][w] \in Int
    BY <1>2, AmountIs
  <2>3. \A k \in Resources : DOMAIN m[k] = W /\ f[k] = SumFunctionOnSet(m[k], W)
    BY <1>1 DEF Carried, SumFunction, W, inv
  <2>4. DOMAIN f = Resources /\ DOMAIN g = W
    BY <1>1
  <2>5. \A w \in W : g[w] = Goods(inv[w])
    OBVIOUS
  <2> HIDE DEF f, g, m, cols
  <2>6. ASSUME NEW w \in W
        PROVE  g[w] = SumFunctionOnSet(cols[w], Resources)
    <3> DEFINE h == cols[w]
    <3>1. \A k \in Resources : h[k] = Amount(inv[w], {k})
      BY <2>2
    <3> HIDE DEF h
    <3>2. SumFunctionOnSet(h, Resources) = Amount(inv[w], Resources)
      BY <1>2, <1>4, <3>1, AmountsAdd
    <3>3. Goods(inv[w]) = Amount(inv[w], Resources)
      BY <1>2, <1>3, GoodsApart
    <3> QED BY <2>5, <3>2, <3>3 DEF h
  <2>7. SumFunctionOnSet(f, Resources) = SumFunctionOnSet(g, W)
    <3>1. \A k \in Resources, w \in W : m[k][w] \in Int /\ cols[w][k] = m[k][w]
      BY <2>2
    <3>2. \A k \in Resources : f[k] = SumFunctionOnSet(m[k], W)
      BY <2>3
    <3>3. \A w \in W : g[w] = SumFunctionOnSet(cols[w], Resources)
      BY <2>6
    <3>4. SumsOf(f, g, m, cols, Resources, W)
      BY <1>4, <2>1, <3>1, <3>2, <3>3 DEF SumsOf
    <3> QED BY <3>4, SumSwap
  <2>8. SumFunction(f) = SumFunction(g)
    BY <2>4, <2>7 DEF SumFunction
  <2> QED BY <2>8 DEF f, g
<1> QED BY <1>1, <1>5, <1>6, <1>7 DEF InputsAreOwn, in, inv, W

\* A window's sales.
LEMMA SalesOwn ==
  ASSUME NEW r, IsContent(r), NEW w
  PROVE  LET events == {k \in DOMAIN r.sells : Window(r.sells[k]) = w /\ r.sells[k].quantity > 0}
         IN  /\ (SellTarget(r, w) > 0) = (events # {})
             /\ (\A k \in events : r.sells[k].quantity <= QuantityCap) =>
                  SellTarget(r, w) = SumFunction([k \in events |-> r.sells[k].quantity])
<1> DEFINE D == DOMAIN r.sells
           q(k) == r.sells[k].quantity
           f == [k \in D |-> Bounded(q(k))]
           I == {k \in D : Window(r.sells[k]) = w}
           E == {k \in D : Window(r.sells[k]) = w /\ q(k) > 0}
           Z == I \ E
           g == [k \in E |-> q(k)]
<1>1. IsList(r.sells) /\ \A k \in D : q(k) \in Int
  BY DEF IsContent
<1>2. IsFiniteSet(D)
  <2>1. D = 1..Len(r.sells) /\ Len(r.sells) \in Nat
    BY <1>1 DEF IsList
  <2>2. Len(r.sells) \in Int /\ 1 \in Int
    BY <2>1
  <2> QED BY <2>1, <2>2, FS_Interval
<1>3. /\ IsFiniteSet(I) /\ IsFiniteSet(E) /\ IsFiniteSet(Z)
      /\ E \intersect Z = {} /\ E \union Z = I
  <2>1. E \subseteq D /\ I \subseteq D /\ Z \subseteq D
    OBVIOUS
  <2>2. E \intersect Z = {} /\ E \union Z = I
    OBVIOUS
  <2> HIDE DEF D, E, I, Z
  <2> QED BY <1>2, <2>1, <2>2, FS_Subset
<1>4. QuantityCap \in Nat /\ QuantityCap >= 1
  BY InputsAssumption
<1>5. ASSUME NEW k \in D
      PROVE  /\ f[k] \in Nat
             /\ q(k) > 0 => f[k] > 0
             /\ ~(q(k) > 0) => f[k] = 0
             /\ q(k) > 0 /\ q(k) <= QuantityCap => f[k] = q(k)
  <2> DEFINE n == AtLeastZero(q(k))
             x == Min({n, QuantityCap})
  <2>1. n = IF q(k) < 0 THEN 0 ELSE q(k)
    BY DEF AtLeastZero
  <2>2. n \in Nat
    BY <1>1, <2>1
  <2>3. f[k] = x
    BY DEF Bounded
  <2> HIDE DEF n
  <2>4. x = IF n <= QuantityCap THEN n ELSE QuantityCap
    <3> DEFINE y == IF n <= QuantityCap THEN n ELSE QuantityCap
    <3>1. y \in {n, QuantityCap} /\ \A z \in {n, QuantityCap} : y <= z
      BY <1>4, <2>2
    <3>2. \A z \in {n, QuantityCap} : (\A v \in {n, QuantityCap} : z <= v) => z = y
      BY <1>4, <2>2
    <3> HIDE DEF y
    <3>3. Min({n, QuantityCap}) = y
      BY <3>1, <3>2 DEF Min
    <3> QED BY <3>3 DEF y
  <2> HIDE DEF x, f
  <2> QED BY <1>1, <1>4, <2>1, <2>2, <2>3, <2>4
<1>6. SellTarget(r, w) = SumFunctionOnSet(f, I)
  BY DEF SellTarget
<1>e. \A k : k \in E <=> k \in I /\ q(k) > 0
  OBVIOUS
<1>d. I \subseteq D /\ DOMAIN g = E /\ \A k \in E : g[k] = q(k)
  OBVIOUS
<1>7. SumFunction(g) = SumFunctionOnSet(g, E)
  BY <1>d DEF SumFunction
<1> HIDE DEF D, f, I, E, g, q
<1>z. \A k \in Z : k \in D /\ f[k] = 0
  BY <1>5, <1>d, <1>e
<1> HIDE DEF Z
<1>8. SumFunctionOnSet(f, Z) = 0
  BY <1>3, <1>z, SumNat
<1>9. SumFunctionOnSet(f, I) = SumFunctionOnSet(f, E) + SumFunctionOnSet(f, Z)
  <2>1. \A k \in E \union Z : f[k] \in Int
    BY <1>3, <1>5, <1>d
  <2> QED BY <1>3, <2>1, SumApart
<1>10. SumFunctionOnSet(f, E) \in Nat /\ \A k \in E : f[k] <= SumFunctionOnSet(f, E)
  <2>1. \A k \in E : f[k] \in Nat
    BY <1>5, <1>d, <1>e
  <2> QED BY <1>3, <2>1, SumNat
<1>11. SellTarget(r, w) = SumFunctionOnSet(f, E)
  BY <1>6, <1>8, <1>9, <1>10
<1>12. SellTarget(r, w) > 0 <=> E # {}
  <2>1. CASE E = {}
    BY <1>11, <2>1, SumEmpty
  <2>2. CASE E # {}
    <3>1. PICK k \in E : TRUE
      BY <2>2
    <3>2. f[k] > 0 /\ f[k] \in Nat /\ f[k] <= SumFunctionOnSet(f, E)
      BY <1>5, <1>d, <1>e, <1>10, <3>1
    <3> QED BY <1>10, <1>11, <2>2, <3>2
  <2> QED BY <2>1, <2>2
<1>13. ASSUME \A k \in E : q(k) <= QuantityCap
       PROVE  SellTarget(r, w) = SumFunction(g)
  <2>1. \A k \in E : f[k] \in Int /\ g[k] = f[k]
    BY <1>5, <1>d, <1>e, <1>13
  <2>2. SumFunctionOnSet(g, E) = SumFunctionOnSet(f, E)
    BY <1>3, <2>1, SumSame
  <2> QED BY <1>7, <1>11, <2>2
<1> QED BY <1>12, <1>13 DEF E, D, g, q

LEMMA TargetsOwn ==
  ASSUME NEW r, IsContent(r), ~MalformedTargets(r)
  PROVE  TargetsAreOwn(TargetsOf(r), r)
<1> DEFINE to == TargetsOf(r)
<1>1. /\ to.planted = [c \in Crops |-> Amount(r.planted, {c})]
      /\ to.fertilized = [c \in Crops |-> Amount(r.fertilized, {c})]
      /\ to.sold = [w \in Windows |-> SellTarget(r, w)]
      /\ to.present = {w \in Windows : SellTarget(r, w) > 0}
  BY DEF TargetsOf
<1>2. /\ IsCount(r.planted) /\ IsCount(r.fertilized) /\ IsFiniteSet(Crops)
      /\ \A k \in Keys(r.planted) \ Crops : Amount(r.planted, {k}) = 0
  BY DataAssumption DEF IsContent, MalformedTargets
<1> HIDE DEF to
<1>3. ASSUME NEW p, IsCount(p), NEW g, g = [c \in Crops |-> Amount(p, {c})]
      PROVE  SumFunction(g) = Amount(p, Crops)
  <2>1. DOMAIN g = Crops /\ \A c \in Crops : g[c] = Amount(p, {c})
    BY <1>3
  <2>2. SumFunctionOnSet(g, Crops) = Amount(p, Crops)
    BY <1>2, <1>3, <2>1, AmountsAdd
  <2> QED BY <2>1, <2>2 DEF SumFunction
<1>4. SumFunction(to.planted) = Goods(r.planted)
  <2>1. SumFunction(to.planted) = Amount(r.planted, Crops)
    BY <1>1, <1>2, <1>3
  <2>2. Amount(r.planted, Keys(r.planted) \ Crops) = 0
    BY <1>2, AmountNone
  <2>3. Goods(r.planted) = Amount(r.planted, Crops) + Amount(r.planted, Keys(r.planted) \ Crops)
    BY <1>2, GoodsApart
  <2>4. Amount(r.planted, Crops) \in Nat
    BY <1>2, AmountIs
  <2> QED BY <2>1, <2>2, <2>3, <2>4
<1>5. SumFunction(to.fertilized) <= Goods(r.fertilized)
  <2> DEFINE p == r.fertilized
  <2>1. SumFunction(to.fertilized) = Amount(p, Crops)
    BY <1>1, <1>2, <1>3
  <2>2. Goods(p) = Amount(p, Crops) + Amount(p, Keys(p) \ Crops)
    BY <1>2, GoodsApart
  <2>3. Amount(p, Crops) \in Nat /\ Amount(p, Keys(p) \ Crops) \in Nat
    BY <1>2, AmountIs
  <2> QED BY <2>1, <2>2, <2>3
<1>6. ASSUME NEW w \in Windows
      PROVE  LET events == {k \in DOMAIN r.sells :
                              Window(r.sells[k]) = w /\ r.sells[k].quantity > 0}
             IN  /\ (w \in to.present) = (events # {})
                 /\ (\A k \in events : r.sells[k].quantity <= QuantityCap) =>
                      to.sold[w] = SumFunction([k \in events |-> r.sells[k].quantity])
  <2>1. to.sold[w] = SellTarget(r, w) /\ (w \in to.present <=> SellTarget(r, w) > 0)
    BY <1>1
  <2> QED BY <2>1, SalesOwn
<1> QED BY <1>4, <1>5, <1>6 DEF TargetsAreOwn, to

-----------------------------------------------------------------------------
(* What trains. *)

LEMMA DataIsSound ==
  ASSUME DataOK, phase = "loaded"
  PROVE  DataSound
<1>1. ReadingOK /\ LoadedOK
  BY DEF DataOK
<1>2. /\ data = [which \in Splits |-> Arrays(Split(which))] /\ DOMAIN data = Splits
      /\ \A which \in Splits : data[which] = Arrays(Split(which))
      /\ data.train = Arrays(Split("train")) /\ data.val = Arrays(Split("val"))
  BY <1>1 DEF LoadedOK, Splits
<1>3. ASSUME NEW which \in Splits
      PROVE  LET s == Split(which)
             IN  /\ s \in Seq(Range(stored)) /\ DOMAIN s = 1..Len(s)
                 /\ DOMAIN data[which] = 1..Len(s) /\ Len(data[which]) = Len(s)
                 /\ \A i \in 1..Len(s) :
                      /\ data[which][i].inputs = InputsOf(s[i])
                      /\ data[which][i].targets = TargetsOf(s[i])
                      /\ data[which][i].context = IF joined THEN StoredContext(s, i) ELSE None
                      /\ data[which][i].meta = [group |-> Group(s[i]), day |-> s[i].day,
                                                date |-> s[i].date]
  <2> DEFINE s == Split(which)
             a == Arrays(s)
  <2>1. s \in Seq(Range(stored))
    BY <1>1, SplitIs
  <2>2. DOMAIN s = 1..Len(s) /\ Len(s) \in Nat
    BY <2>1
  <2>3. data[which] = a
    BY <1>2
  <2> HIDE DEF s
  <2>4. DOMAIN a = 1..Len(s)
    BY <2>2 DEF Arrays
  <2>5. Len(a) = Len(s)
    <3>1. a \in Seq({a[i] : i \in 1..Len(s)})
      BY <2>2 DEF Arrays
    <3> HIDE DEF a
    <3>2. DOMAIN a = 1..Len(a) /\ Len(a) \in Nat
      BY <3>1
    <3> QED BY <2>2, <2>4, <3>2
  <2>6. ASSUME NEW i \in 1..Len(s)
        PROVE  /\ a[i].inputs = InputsOf(s[i]) /\ a[i].targets = TargetsOf(s[i])
               /\ a[i].context = IF joined THEN StoredContext(s, i) ELSE None
               /\ a[i].meta = [group |-> Group(s[i]), day |-> s[i].day, date |-> s[i].date]
    BY <2>2 DEF Arrays
  <2> HIDE DEF a
  <2> QED BY <2>1, <2>2, <2>3, <2>4, <2>5, <2>6 DEF s
<1>4. ASSUME NEW which \in Splits, NEW i \in 1..Len(Split(which))
      PROVE  LET r == Split(which)[i]
             IN  /\ r \in Range(stored) /\ (joined => r.episode # None)
                 /\ r.date \in dates[which] /\ r.score >= MinScore
                 /\ IsContent(r) /\ ~MalformedStart(r) /\ ~MalformedTargets(r)
  <2> DEFINE r == Split(which)[i]
  <2>1. /\ r \in Range(stored) /\ (joined => r.episode # None)
        /\ r.date \in dates[which] /\ r.score >= MinScore
    BY <1>1, SplitIs
  <2>2. r \in Range(Split(which))
    BY <1>3 DEF Range
  <2>3. ~MalformedStart(r) /\ ~MalformedTargets(r)
    BY <1>1, <2>2 DEF LoadedOK
  <2> HIDE DEF r
  <2>4. IsContent(r)
    BY <1>1, <2>1, StoredContent
  <2> QED BY <2>1, <2>3, <2>4 DEF r
<1>5. RowsAreOwn
  <2> DEFINE Good(x) == \E r \in Range(stored) :
                           /\ x.meta = [group |-> Group(r), day |-> r.day, date |-> r.date]
                           /\ InputsAreOwn(x.inputs, r) /\ TargetsAreOwn(x.targets, r)
                           /\ IF joined THEN ContextIsOwn(x.context, r) ELSE x.context = None
  <2>1. ASSUME NEW which \in Splits, NEW i \in 1..Len(Split(which))
        PROVE  Good(data[which][i])
    <3> DEFINE r == Split(which)[i]
               x == data[which][i]
    <3>1. r \in Range(stored) /\ IsContent(r) /\ ~MalformedStart(r) /\ ~MalformedTargets(r)
      BY <1>4
    <3>2. /\ x.inputs = InputsOf(r) /\ x.targets = TargetsOf(r)
          /\ x.context = IF joined THEN StoredContext(Split(which), i) ELSE None
          /\ x.meta = [group |-> Group(r), day |-> r.day, date |-> r.date]
      BY <1>3
    <3>3. joined => ContextIsOwn(StoredContext(Split(which), i), r)
      BY <1>1, ContextOwn
    <3> HIDE DEF r, x
    <3>4. InputsAreOwn(InputsOf(r), r) /\ TargetsAreOwn(TargetsOf(r), r)
      BY <3>1, InputsOwn, TargetsOwn
    <3>5. /\ InputsAreOwn(x.inputs, r) /\ TargetsAreOwn(x.targets, r)
          /\ IF joined THEN ContextIsOwn(x.context, r) ELSE x.context = None
      BY <3>2, <3>3, <3>4
    <3>6. Good(x)
      BY <3>1, <3>2, <3>5
    <3> QED BY <3>6 DEF x
  <2>2. DOMAIN data = Splits /\ \A which \in Splits : DOMAIN data[which] = 1..Len(Split(which))
    BY <1>2, <1>3
  <2> HIDE DEF Good
  <2>3. \A which \in DOMAIN data : \A i \in DOMAIN data[which] : Good(data[which][i])
    BY <2>1, <2>2
  <2> QED BY <2>3 DEF RowsAreOwn, Good
<1>6. StoredFine(stored) /\ \E r : r \in Range(stored)
  <2>1. StoredFine(stored)
    BY <1>1 DEF ReadingOK
  <2>2. 1 \in DOMAIN stored
    BY <2>1 DEF StoredFine, IsList
  <2> QED BY <2>1, <2>2 DEF Range
<1>7. dates.train \intersect dates.val = {} /\ \A r \in Range(stored) : r.version = SchemaVersion
  BY <1>1, <1>6, AllTaken DEF Taken
<1>8. \A group \in GroupsOf(data.train) \intersect GroupsOf(data.val) : group[1] = None
  <2>a. ASSUME NEW which \in Splits, NEW group \in GroupsOf(data[which])
        PROVE  \E i \in 1..Len(Split(which)) : Group(Split(which)[i]) = group
    <3>1. PICK i \in DOMAIN data[which] : data[which][i].meta.group = group
      BY DEF GroupsOf
    <3>2. i \in 1..Len(Split(which))
      BY <1>3
    <3> DEFINE m == data[which][i].meta
               s == Split(which)
    <3>3. m = [group |-> Group(s[i]), day |-> s[i].day, date |-> s[i].date]
      BY <1>3, <3>2
    <3> HIDE DEF m, s
    <3>4. m.group = Group(s[i])
      BY <3>3
    <3> QED BY <3>1, <3>2, <3>4 DEF m, s
  <2> SUFFICES ASSUME NEW i \in 1..Len(Split("train")), NEW j \in 1..Len(Split("val")),
                      Group(Split("train")[i]) = Group(Split("val")[j]),
                      Group(Split("train")[i])[1] # None
               PROVE  FALSE
    <3> SUFFICES ASSUME NEW group \in GroupsOf(data.train) \intersect GroupsOf(data.val),
                        group[1] # None
                 PROVE  FALSE
      OBVIOUS
    <3>1. \E i \in 1..Len(Split("train")) : Group(Split("train")[i]) = group
      BY <2>a DEF Splits
    <3>2. \E j \in 1..Len(Split("val")) : Group(Split("val")[j]) = group
      BY <2>a DEF Splits
    <3> QED BY <3>1, <3>2
  <2> DEFINE r == Split("train")[i]
             q == Split("val")[j]
  <2>1. r \in Range(stored) /\ r.date \in dates["train"]
    BY <1>4 DEF Splits
  <2>2. q \in Range(stored) /\ q.date \in dates["val"]
    BY <1>4 DEF Splits
  <2>3. r.episode # None
    BY DEF Group
  <2>4. r.date = q.date
    BY <1>1, <2>1, <2>2, <2>3, StoredOnce
  <2> QED BY <1>7, <2>1, <2>2, <2>4
<1>9. ASSUME NEW which \in Splits
      PROVE  LET d == data[which]
                 keys == {Key(d[i]) : i \in DOMAIN d}
             IN  /\ keys = {RowKey(stored[i]) : i \in Wanted(stored, which)}
                 /\ \A k \in keys :
                      Cardinality({i \in DOMAIN d : Key(d[i]) = k}) =
                      Cardinality({i \in Wanted(read, which) : RowKey(read[i]) = k})
                 /\ joined =>
                      /\ \A i, j \in DOMAIN d : Key(d[i]) = Key(d[j]) => i = j
                      /\ \A i \in DOMAIN d : d[i].meta.group[1] # None
  <2> DEFINE s == Split(which)
             d == data[which]
             W == Wanted(stored, which)
             V == Wanted(read, which)
             keys == {Key(d[i]) : i \in DOMAIN d}
  <2>1. /\ DOMAIN d = 1..Len(s)
        /\ \A i \in 1..Len(s) : d[i].meta = [group |-> Group(s[i]), day |-> s[i].day,
                                              date |-> s[i].date]
    BY <1>3
  <2>2. \A i \in 1..Len(s) : /\ s[i] \in Range(stored) /\ (joined => s[i].episode # None)
                             /\ s[i].date \in dates[which] /\ s[i].score >= MinScore
    BY <1>4
  <2>3. \A r \in Range(stored) : r.date \in dates[which] /\ r.score >= MinScore =>
           \E i \in 1..Len(s) : s[i] = r
    BY <1>1, SplitIs
  <2>4. joined => \A i, j \in 1..Len(s) :
                    i # j => Group(s[i]) # Group(s[j]) \/ s[i].day # s[j].day
    BY <1>1, SplitIs
  <2>5. Picks(s, read, V)
    BY <1>1, SplitIs
  <2>6. s \in Seq(Range(stored)) /\ Len(s) \in Nat
    BY <1>3
  <2>7. \A i : i \in W <=> /\ i \in DOMAIN stored
                            /\ stored[i].date \in dates[which] /\ stored[i].score >= MinScore
    BY DEF Wanted
  <2>v. V \subseteq DOMAIN read /\ \A i \in DOMAIN read : read[i] \in Range(stored)
    <3>1. read \in Seq(Range(stored))
      BY <1>1 DEF ReadingOK
    <3> QED BY <3>1 DEF Wanted
  <2> HIDE DEF s, d, W, V
  <2>8. \A i \in 1..Len(s) : Key(d[i]) = RowKey(s[i]) /\ d[i].meta.group[1] = s[i].episode
    <3> TAKE i \in 1..Len(s)
    <3> DEFINE g == Group(s[i])
               x == d[i].meta
    <3>1. x = [group |-> g, day |-> s[i].day, date |-> s[i].date]
      BY <2>1
    <3>2. g[1] = s[i].episode
      BY DEF Group
    <3>3. x.group = g /\ x.day = s[i].day
      <4> HIDE DEF g, x
      <4> QED BY <3>1
    <3>4. Key(d[i]) = RowKey(s[i])
      BY <3>3 DEF Key, RowKey
    <3> QED BY <3>2, <3>3, <3>4
  <2>9. keys = {RowKey(stored[i]) : i \in W}
    <3>1. ASSUME NEW i \in DOMAIN d PROVE \E k \in W : Key(d[i]) = RowKey(stored[k])
      <4>1. i \in 1..Len(s) /\ s[i] \in Range(stored)
        BY <2>1, <2>2
      <4>2. PICK k \in DOMAIN stored : stored[k] = s[i]
        BY <4>1 DEF Range
      <4>3. k \in W
        BY <4>1, <4>2, <2>2, <2>7
      <4> QED BY <4>1, <4>2, <4>3, <2>8
    <3>2. ASSUME NEW k \in W PROVE \E i \in DOMAIN d : Key(d[i]) = RowKey(stored[k])
      <4>1. stored[k] \in Range(stored)
        BY <2>7 DEF Range
      <4>2. PICK i \in 1..Len(s) : s[i] = stored[k]
        BY <4>1, <2>3, <2>7
      <4> QED BY <4>2, <2>1, <2>8
    <3> QED BY <3>1, <3>2
  <2>10. ASSUME NEW k
         PROVE  Cardinality({i \in DOMAIN d : Key(d[i]) = k}) =
                Cardinality({i \in V : RowKey(read[i]) = k})
    <3> DEFINE A == {r \in Range(stored) : RowKey(r) = k}
               N == {i \in DOMAIN d : Key(d[i]) = k}
               L == {i \in V : RowKey(read[i]) = k}
    <3>1. \A i : i \in N <=> i \in 1..Len(s) /\ s[i] \in A
      BY <2>1, <2>2, <2>8
    <3>2. \A i : i \in L <=> i \in V /\ read[i] \in A
      BY <2>v
    <3> HIDE DEF A, N, L
    <3>3. Cardinality(N) = Cardinality(L)
      BY <2>5, <2>6, <3>1, <3>2, PicksCount
    <3> QED BY <3>3 DEF N, L
  <2>11. ASSUME joined, NEW i \in DOMAIN d, NEW j \in DOMAIN d, Key(d[i]) = Key(d[j])
         PROVE  i = j
    <3>1. Group(s[i]) = Group(s[j]) /\ s[i].day = s[j].day
      BY <2>1, <2>8, <2>11 DEF RowKey
    <3> QED BY <3>1, <2>1, <2>4, <2>11
  <2>12. joined => \A i \in DOMAIN d : d[i].meta.group[1] # None
    BY <2>1, <2>2, <2>8
  <2> HIDE DEF keys
  <2> QED BY <2>9, <2>10, <2>11, <2>12 DEF d, W, V, keys
<1>10. report.read = report.excluded + Len(data.train) + Len(data.val)
  <2> DEFINE I(which) == {i \in DOMAIN table : table[i].date \in dates[which]}
             n == Len(table)
  <2>1. /\ table \in Seq(Range(stored)) /\ DOMAIN table = 1..n /\ n \in Nat
        /\ \A i \in 1..n : Selected(table[i])
        /\ report.read \in Nat /\ report.excluded \in Nat
        /\ report.read = report.excluded + n
    BY <1>1 DEF ReadingOK
  <2>2. \A which \in Splits : I(which) \in SUBSET (1..n) /\ Split(which) = Kept(table, I(which))
    BY <2>1 DEF Split, OfDates, Filtered
  <2>3. I("train") \intersect I("val") = {} /\ I("train") \union I("val") = 1..n
    BY <1>7, <2>1 DEF Selected
  <2> HIDE DEF I, n
  <2>4. \A which \in Splits : /\ IsFiniteSet(I(which))
                              /\ Len(Split(which)) = Cardinality(I(which))
    BY <2>1, <2>2, KeptIs DEF n
  <2>5. IsFiniteSet(1..n) /\ Cardinality(1..n) = n
    <3>1. n \in Int /\ 1 \in Int
      BY <2>1
    <3>2. Cardinality(1..n) = IF 1 > n THEN 0 ELSE n - 1 + 1
      BY <3>1, FS_Interval
    <3> QED BY <2>1, <3>1, <3>2, FS_Interval
  <2>6. n = Cardinality(I("train")) + Cardinality(I("val"))
    <3> DEFINE A == I("train")
               B == I("val")
    <3>1. IsFiniteSet(A) /\ IsFiniteSet(B) /\ A \intersect B = {} /\ A \union B = 1..n
      BY <2>3, <2>4 DEF Splits
    <3> HIDE DEF A, B
    <3>2. Cardinality(A \union B)
          = Cardinality(A) + Cardinality(B) - Cardinality(A \intersect B)
      BY <3>1, FS_Union
    <3>a. Cardinality(A \union B) = n
      BY <2>5, <3>1
    <3>b. Cardinality(A \intersect B) = 0
      BY <3>1, FS_EmptySet
    <3>c. Cardinality(A) \in Nat /\ Cardinality(B) \in Nat
      BY <3>1, FS_CardinalityType
    <3>3. n = Cardinality(A) + Cardinality(B)
      BY <3>2, <3>a, <3>b, <3>c
    <3> QED BY <3>3 DEF A, B
  <2>7. /\ Len(data.train) = Cardinality(I("train")) /\ Len(data.val) = Cardinality(I("val"))
        /\ Cardinality(I("train")) \in Nat /\ Cardinality(I("val")) \in Nat
    <3>1. /\ Len(data["train"]) = Len(Split("train")) /\ Len(data["val"]) = Len(Split("val"))
          /\ data.train = data["train"] /\ data.val = data["val"]
      BY <1>2, <1>3 DEF Splits
    <3> QED BY <2>4, <3>1, FS_CardinalityType DEF Splits
  <2> QED BY <2>1, <2>6, <2>7
<1>11. SplitsApart
  BY <1>2, <1>7, <1>8, <1>9, <1>10 DEF SplitsApart
<1> QED BY <1>5, <1>11 DEF DataSound

\* However the rows of many games are spread over files, with the economic context and
\* without, what trains is what was read: a row's figures are those of a stored row, its
\* change of money that of its own game and seat, sums lose nothing; a game is in one split,
\* which has every wanted row as often as it was read, and with the context once
\* (load_train_val, derive_economic_context, table_to_arrays).
THEOREM DataHolds == Spec => []DataSound
<1>1. DataOK => DataSound
  <2>1. phase # "loaded" => DataSound
    BY DEF DataSound, RowsAreOwn, SplitsApart
  <2> QED BY <2>1, DataIsSound
<1> QED BY <1>1, DataAlways, PTL
===============================================================================
