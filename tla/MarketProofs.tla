---------------------------- MODULE MarketProofs ----------------------------
(***************************************************************************)
(* The market of Market.tla, for every price list, every set of offers and *)
(* every number of turns: the accounts and the posted prices stay sound,   *)
(* the seats are equal, buying and selling back gains nothing, and the     *)
(* bulk settlements give what trading unit by unit gives.                  *)
(***************************************************************************)
EXTENDS MarketMasks, FiniteSetTheorems, NaturalsInduction, WellFoundedInduction, TLAPS

(* Induction over the naturals, as a fact about sets: it is what the sums  *)
(* and the rounds of a slot below are reasoned about with.                 *)

\* A set of naturals that is not empty has a least member.
LEMMA Least ==
  ASSUME NEW T \in SUBSET Nat, T # {}
  PROVE  \E x \in T : \A y \in T : x <= y
<1> DEFINE R == {ss \in Nat \X Nat : ss[1] < ss[2]}
<1>1. OpToRel(<, Nat) = R
  BY DEF OpToRel
<1>2. IsWellFoundedOn(R, Nat)
  BY <1>1, NatLessThanWellFounded
<1> HIDE DEF R
<1>3. PICK x \in T : \A y \in T : ~(<<y, x>> \in R)
  BY <1>2, WFMin
<1> USE DEF R
<1>4. ASSUME NEW y \in T PROVE x <= y
  <2>1. SUFFICES ASSUME y < x PROVE FALSE
    OBVIOUS
  <2>2. <<y, x>> \in Nat \X Nat /\ <<y, x>>[1] < <<y, x>>[2]
    BY <2>1
  <2> QED BY <2>2, <1>3
<1> QED BY <1>4

\* A set that has 0 and, with every number, the next is all of Nat.
LEMMA Induction ==
  ASSUME NEW T \in SUBSET Nat, 0 \in T, \A n \in T : n + 1 \in T
  PROVE  T = Nat
<1>1. SUFFICES ASSUME Nat \ T # {} PROVE FALSE
  OBVIOUS
<1>2. PICK x \in Nat \ T : \A y \in Nat \ T : x <= y
  BY <1>1, Least
<1>3. x - 1 \in Nat
  BY <1>2
<1>4. x - 1 \in T
  BY <1>2, <1>3
<1> QED BY <1>2, <1>3, <1>4

-----------------------------------------------------------------------------
(* Sums of a function over a finite set (SumFunctionOnSet, which takes out *)
(* the elements in an order of its own).                                   *)

\* The element a sum takes out of s.
Pick(s) == CHOOSE x \in s : TRUE

\* t adds f up over every subset of S.
Adds(t, f, S) ==
  /\ t[{}] = 0
  /\ \A s \in SUBSET S : s # {} => t[s] = f[Pick(s)] + t[s \ {Pick(s)}]

AddsIntegers(t, f, S) == t \in [SUBSET S -> Int] /\ Adds(t, f, S)

\* What is picked is there.
LEMMA PickIn ==
  ASSUME NEW s, s # {}
  PROVE  Pick(s) \in s
BY DEF Pick

\* A finite set without one of its elements is smaller by one.
LEMMA Shrinks ==
  ASSUME NEW s, IsFiniteSet(s), NEW x \in s
  PROVE  /\ IsFiniteSet(s \ {x}) 
         /\ Cardinality(s) \in Nat /\ Cardinality(s \ {x}) \in Nat
         /\ Cardinality(s \ {x}) = Cardinality(s) - 1
BY FS_RemoveElement, FS_CardinalityType

\* Every finite set of integers can be added up.
LEMMA AddsExists ==
  ASSUME NEW S, IsFiniteSet(S), NEW f, \A x \in S : f[x] \in Int
  PROVE  \E t \in [SUBSET S -> Int] : Adds(t, f, S)
<1> DEFINE U(n) == {s \in SUBSET S : Cardinality(s) <= n}
           P(n, t) == /\ t \in [U(n) -> Int]
                      /\ t[{}] = 0
                      /\ \A s \in U(n) : s # {} => t[s] = f[Pick(s)] + t[s \ {Pick(s)}]
           T == {n \in Nat : \E t : P(n, t)}
<1>0. \A s \in SUBSET S : IsFiniteSet(s) /\ Cardinality(s) \in Nat
  BY FS_Subset, FS_CardinalityType
<1>1. 0 \in T
  <2>1. U(0) = {{}}
    BY <1>0, FS_EmptySet
  <2>2. P(0, [s \in U(0) |-> 0])
    BY <2>1
  <2> QED BY <2>2
<1>2. ASSUME NEW n \in T PROVE n + 1 \in T
  <2>1. PICK t : P(n, t)
    BY <1>2
  <2> DEFINE u == [s \in U(n + 1) |-> IF s \in U(n) THEN t[s]
                                      ELSE f[Pick(s)] + t[s \ {Pick(s)}]]
  <2>2. {} \in U(n) /\ {} \in U(n + 1)
    BY FS_EmptySet
  <2>3. ASSUME NEW s \in U(n + 1), s # {}
        PROVE  Pick(s) \in S /\ s \ {Pick(s)} \in U(n) /\ s \ {Pick(s)} \in U(n + 1)
    <3>1. Pick(s) \in s
      BY <2>3, PickIn
    <3>2. IsFiniteSet(s) /\ s \in SUBSET S /\ Cardinality(s) <= n + 1
      BY <1>0
    <3>3. Cardinality(s \ {Pick(s)}) = Cardinality(s) - 1 /\ Cardinality(s) \in Nat
      BY <3>1, <3>2, Shrinks
    <3> QED BY <3>1, <3>2, <3>3
  <2>4. \A s \in U(n + 1) : s \notin U(n) => s # {}
    BY <2>2
  <2>5. u \in [U(n + 1) -> Int]
    <3> SUFFICES ASSUME NEW s \in U(n + 1)
                 PROVE  (IF s \in U(n) THEN t[s] ELSE f[Pick(s)] + t[s \ {Pick(s)}]) \in Int
      OBVIOUS
    <3>1. CASE s \in U(n)
      BY <3>1, <2>1
    <3>2. CASE s \notin U(n)
      <4>1. s # {}
        BY <3>2, <2>4
      <4>2. f[Pick(s)] \in Int /\ t[s \ {Pick(s)}] \in Int
        BY <4>1, <2>3, <2>1
      <4> QED BY <3>2, <4>2
    <3> QED BY <3>1, <3>2
  <2>6. u[{}] = 0
    BY <2>1, <2>2
  <2>7. ASSUME NEW s \in U(n + 1), s # {}
        PROVE  u[s] = f[Pick(s)] + u[s \ {Pick(s)}]
    <3> DEFINE r == s \ {Pick(s)}
    <3>1. r \in U(n) /\ r \in U(n + 1)
      BY <2>3, <2>7
    <3> HIDE DEF r
    <3>2. u[r] = t[r]
      BY <3>1
    <3>3. CASE s \in U(n)
      BY <3>2, <3>3, <2>1, <2>7 DEF r
    <3>4. CASE s \notin U(n)
      BY <3>2, <3>4 DEF r
    <3> QED BY <3>3, <3>4 DEF r
  <2> HIDE DEF u
  <2>8. P(n + 1, u)
    BY <2>5, <2>6, <2>7
  <2>9. n + 1 \in Nat
    OBVIOUS
  <2> HIDE DEF P
  <2> QED BY <2>8, <2>9
<1> HIDE DEF T
<1>3. T = Nat
  BY <1>1, <1>2, Induction DEF T
<1>4. Cardinality(S) \in Nat
  BY FS_CardinalityType
<1>5. PICK t : P(Cardinality(S), t)
  BY <1>3, <1>4 DEF T
<1>6. U(Cardinality(S)) = SUBSET S
  BY FS_Subset
<1> HIDE DEF U
<1>7. t \in [SUBSET S -> Int] /\ Adds(t, f, S)
  BY <1>5, <1>6 DEF Adds
<1> QED BY <1>7

\* Two sums of the same values are the same.
LEMMA AddsUnique ==
  ASSUME NEW S, IsFiniteSet(S), NEW A, NEW B, S \subseteq A, S \subseteq B,
         NEW f, NEW g, \A x \in S : f[x] = g[x],
         NEW t, Adds(t, f, A), NEW u, Adds(u, g, B)
  PROVE  t[S] = u[S]
<1> DEFINE T == {n \in Nat : \A s \in SUBSET S : Cardinality(s) = n => t[s] = u[s]}
<1>0. \A s \in SUBSET S : IsFiniteSet(s) /\ Cardinality(s) \in Nat
  BY FS_Subset, FS_CardinalityType
<1>1. 0 \in T
  BY <1>0, FS_EmptySet DEF Adds
<1>2. ASSUME NEW n \in T PROVE n + 1 \in T
  <2> SUFFICES ASSUME NEW s \in SUBSET S, Cardinality(s) = n + 1 PROVE t[s] = u[s]
    OBVIOUS
  <2>1. s # {}
    BY FS_EmptySet
  <2>2. Pick(s) \in s
    BY <2>1, PickIn
  <2>3. Cardinality(s \ {Pick(s)}) = Cardinality(s) - 1 /\ IsFiniteSet(s)
    BY <1>0, <2>2, Shrinks
  <2>4. t[s \ {Pick(s)}] = u[s \ {Pick(s)}]
    BY <2>3, <2>2
  <2>5. t[s] = f[Pick(s)] + t[s \ {Pick(s)}]
    BY <2>1 DEF Adds
  <2>6. u[s] = g[Pick(s)] + u[s \ {Pick(s)}]
    BY <2>1 DEF Adds
  <2>7. f[Pick(s)] = g[Pick(s)]
    BY <2>2
  <2> QED BY <2>4, <2>5, <2>6, <2>7
<1> HIDE DEF T
<1>3. T = Nat
  BY <1>1, <1>2, Induction DEF T
<1>4. Cardinality(S) \in T
  BY <1>0, <1>3
<1> QED BY <1>4 DEF T

\* Any element may be taken out first.
LEMMA AddsTakeOut ==
  ASSUME NEW S, IsFiniteSet(S), NEW f, \A x \in S : f[x] \in Int,
         NEW t, AddsIntegers(t, f, S), NEW y, y \in S, NEW r, r = S \ {y}
  PROVE  t[S] = f[y] + t[r]
<1> DEFINE T == {n \in Nat : \A s \in SUBSET S : Cardinality(s) = n =>
                                \A x \in s : t[s] = f[x] + t[s \ {x}]}
<1>0. \A s \in SUBSET S : IsFiniteSet(s) /\ Cardinality(s) \in Nat
  BY FS_Subset, FS_CardinalityType
<1>1. 0 \in T
  BY <1>0, FS_EmptySet
<1>2. ASSUME NEW n \in T PROVE n + 1 \in T
  <2> SUFFICES ASSUME NEW s \in SUBSET S, Cardinality(s) = n + 1, NEW x \in s
               PROVE  t[s] = f[x] + t[s \ {x}]
    OBVIOUS
  <2> DEFINE h == Pick(s)
  <2>1. h \in s
    BY PickIn
  <2>2. t[s] = f[h] + t[s \ {h}]
    BY DEF Adds, AddsIntegers
  <2>3. CASE x = h
    BY <2>2, <2>3
  <2>4. CASE x # h
    <3>0. IsFiniteSet(s)
      BY <1>0
    <3>a. Cardinality(s \ {h}) = Cardinality(s) - 1
      BY <3>0, <2>1, Shrinks
    <3>b. Cardinality(s \ {x}) = Cardinality(s) - 1
      BY <3>0, Shrinks
    <3>1. Cardinality(s \ {h}) = n /\ Cardinality(s \ {x}) = n
      BY <3>a, <3>b
    <3>2. x \in s \ {h} /\ h \in s \ {x}
      BY <2>1, <2>4
    <3>3. t[s \ {h}] = f[x] + t[(s \ {h}) \ {x}]
      BY <3>1, <3>2
    <3>4. t[s \ {x}] = f[h] + t[(s \ {x}) \ {h}]
      BY <3>1, <3>2
    <3>5. (s \ {h}) \ {x} = (s \ {x}) \ {h}
      OBVIOUS
    <3>6. f[h] \in Int /\ f[x] \in Int /\ t[(s \ {x}) \ {h}] \in Int
      BY <2>1 DEF Adds, AddsIntegers
    <3> DEFINE z == t[(s \ {x}) \ {h}]
    <3>7. t[s \ {h}] = f[x] + z
      BY <3>3, <3>5, Zenon
    <3>8. t[s] = f[h] + (f[x] + z)
      BY <2>2, <3>7, Zenon
    <3>9. f[h] + (f[x] + z) = f[x] + (f[h] + z)
      <4> HIDE DEF z, h
      <4> QED BY <3>6 DEF z
    <3> QED BY <3>4, <3>8, <3>9, Zenon
  <2> QED BY <2>3, <2>4
<1> HIDE DEF T
<1>3. T = Nat
  BY <1>1, <1>2, Induction DEF T
<1>4. Cardinality(S) \in T
  BY <1>0, <1>3
<1> QED BY <1>4 DEF T

-----------------------------------------------------------------------------
\* The fold of the community modules adds up.
LEMMA SumAdds ==
  ASSUME NEW S, IsFiniteSet(S), NEW f, \A x \in S : f[x] \in Int
  PROVE  \E t \in [SUBSET S -> Int] : Adds(t, f, S) /\ SumFunctionOnSet(f, S) = t[S]
<1> DEFINE fold(t) == [s \in SUBSET S |-> IF s = {} THEN 0
                            ELSE LET x == CHOOSE x \in s : TRUE IN f[x] + t[s \ {x}]]
           iter == CHOOSE t : t = fold(t)
<1>1. SumFunctionOnSet(f, S) = iter[S]
  BY DEF SumFunctionOnSet, FoldFunctionOnSet, MapThenFoldSet
<1>2. PICK t \in [SUBSET S -> Int] : Adds(t, f, S)
  BY AddsExists
<1>3. t = fold(t)
  <2>1. ASSUME NEW s \in SUBSET S PROVE t[s] = fold(t)[s]
    BY <1>2 DEF Adds, Pick
  <2>2. t = [s \in SUBSET S |-> t[s]]
    OBVIOUS
  <2> QED BY <2>1, <2>2
<1>4. iter = fold(iter)
  <2> HIDE DEF fold
  <2> QED BY <1>3
<1> HIDE DEF iter
<1>5. Adds(iter, f, S)
  <2>1. ASSUME NEW s \in SUBSET S PROVE iter[s] = fold(iter)[s]
    <3> HIDE DEF fold
    <3> QED BY <1>4
  <2> QED BY <2>1 DEF Adds, Pick
<1>6. iter[S] = t[S]
  BY <1>2, <1>5, AddsUnique
<1> QED BY <1>1, <1>2, <1>6

\* Nothing adds up to 0.
LEMMA SumEmpty ==
  ASSUME NEW f
  PROVE  SumFunctionOnSet(f, {}) = 0
<1>1. IsFiniteSet({})
  BY FS_EmptySet
<1>2. PICK t : Adds(t, f, {}) /\ SumFunctionOnSet(f, {}) = t[{}]
  BY <1>1, SumAdds
<1> QED BY <1>2 DEF Adds

\* A sum of integers is an integer.
LEMMA SumType ==
  ASSUME NEW S, IsFiniteSet(S), NEW f, \A x \in S : f[x] \in Int
  PROVE  SumFunctionOnSet(f, S) \in Int
<1>1. PICK t \in [SUBSET S -> Int] : SumFunctionOnSet(f, S) = t[S]
  BY SumAdds
<1> QED BY <1>1

\* The same values have the same sum.
LEMMA SumSame ==
  ASSUME NEW S, IsFiniteSet(S), NEW f, NEW g, \A x \in S : f[x] \in Int /\ g[x] = f[x]
  PROVE  SumFunctionOnSet(g, S) = SumFunctionOnSet(f, S)
<1>1. PICK t : Adds(t, f, S) /\ SumFunctionOnSet(f, S) = t[S]
  BY SumAdds
<1>2. \A x \in S : g[x] \in Int
  OBVIOUS
<1>3. PICK u : Adds(u, g, S) /\ SumFunctionOnSet(g, S) = u[S]
  BY <1>2, SumAdds
<1>4. t[S] = u[S]
  BY <1>1, <1>3, AddsUnique
<1> QED BY <1>1, <1>3, <1>4

\* A sum without one of its terms.
LEMMA SumTakeOut ==
  ASSUME NEW S, IsFiniteSet(S), NEW f, \A x \in S : f[x] \in Int, NEW y \in S
  PROVE  SumFunctionOnSet(f, S) = f[y] + SumFunctionOnSet(f, S \ {y})
<1>1. \E t \in [SUBSET S -> Int] : Adds(t, f, S) /\ SumFunctionOnSet(f, S) = t[S]
  BY SumAdds
<1>2. IsFiniteSet(S \ {y})
  BY Shrinks
<1>3. \E u : Adds(u, f, S \ {y}) /\ SumFunctionOnSet(f, S \ {y}) = u[S \ {y}]
  BY <1>2, SumAdds
<1>4. SUFFICES ASSUME NEW t, t \in [SUBSET S -> Int], Adds(t, f, S), SumFunctionOnSet(f, S) = t[S],
                      NEW u, Adds(u, f, S \ {y}), SumFunctionOnSet(f, S \ {y}) = u[S \ {y}]
               PROVE  SumFunctionOnSet(f, S) = f[y] + SumFunctionOnSet(f, S \ {y})
  BY <1>1, <1>3
<1>5. t[S \ {y}] = u[S \ {y}]
  BY <1>2, <1>4, AddsUnique
<1>6. t[S] = f[y] + t[S \ {y}]
  <2>1. AddsIntegers(t, f, S)
    BY <1>4 DEF AddsIntegers
  <2> DEFINE r == S \ {y}
  <2> HIDE DEF r
  <2>2. t[S] = f[y] + t[r]
    BY <2>1, AddsTakeOut DEF r
  <2> QED BY <2>2 DEF r
<1> QED BY <1>4, <1>5, <1>6

\* A sum of which one term changes.
LEMMA SumChanged ==
  ASSUME NEW S, IsFiniteSet(S), NEW f, NEW g, NEW y \in S,
         \A x \in S : f[x] \in Int /\ g[x] \in Int,
         \A x \in S \ {y} : g[x] = f[x]
  PROVE  SumFunctionOnSet(g, S) = SumFunctionOnSet(f, S) + (g[y] - f[y])
<1>1. SumFunctionOnSet(f, S) = f[y] + SumFunctionOnSet(f, S \ {y})
  BY SumTakeOut
<1>2. SumFunctionOnSet(g, S) = g[y] + SumFunctionOnSet(g, S \ {y})
  BY SumTakeOut
<1>3. IsFiniteSet(S \ {y})
  BY Shrinks
<1>4. SumFunctionOnSet(g, S \ {y}) = SumFunctionOnSet(f, S \ {y})
  BY <1>3, SumSame
<1>5. SumFunctionOnSet(f, S \ {y}) \in Int
  BY <1>3, SumType
<1> QED BY <1>1, <1>2, <1>4, <1>5

\* A sum of amounts none of which is negative, or all of which are 0.
LEMMA SumNat ==
  ASSUME NEW S, IsFiniteSet(S), NEW f, \A x \in S : f[x] \in Nat
  PROVE  /\ SumFunctionOnSet(f, S) \in Nat
         /\ \A y \in S : f[y] <= SumFunctionOnSet(f, S)
         /\ (\A x \in S : f[x] = 0) => SumFunctionOnSet(f, S) = 0
<1> DEFINE T == {n \in Nat : \A s \in SUBSET S : Cardinality(s) = n =>
                    /\ SumFunctionOnSet(f, s) \in Nat
                    /\ (\A x \in S : f[x] = 0) => SumFunctionOnSet(f, s) = 0}
<1>0. \A s \in SUBSET S : IsFiniteSet(s) /\ Cardinality(s) \in Nat
  BY FS_Subset, FS_CardinalityType
<1>1. 0 \in T
  BY <1>0, FS_EmptySet, SumEmpty
<1>2. ASSUME NEW n \in T PROVE n + 1 \in T
  <2> SUFFICES ASSUME NEW s \in SUBSET S, Cardinality(s) = n + 1
               PROVE  /\ SumFunctionOnSet(f, s) \in Nat
                      /\ (\A x \in S : f[x] = 0) => SumFunctionOnSet(f, s) = 0
    OBVIOUS
  <2>1. IsFiniteSet(s) /\ s # {}
    BY <1>0, FS_EmptySet
  <2>2. PICK x \in s : TRUE
    BY <2>1
  <2>3. \A z \in s : f[z] \in Int
    OBVIOUS
  <2>4. SumFunctionOnSet(f, s) = f[x] + SumFunctionOnSet(f, s \ {x})
    BY <2>1, <2>3, SumTakeOut
  <2>5. Cardinality(s \ {x}) = Cardinality(s) - 1
    BY <2>1, Shrinks
  <2>6. Cardinality(s \ {x}) = n /\ s \ {x} \in SUBSET S
    BY <2>5
  <2>7. /\ SumFunctionOnSet(f, s \ {x}) \in Nat
        /\ (\A z \in S : f[z] = 0) => SumFunctionOnSet(f, s \ {x}) = 0
    BY <2>6
  <2>8. f[x] \in Nat
    OBVIOUS
  <2> QED BY <2>4, <2>7, <2>8
<1> HIDE DEF T
<1>3. T = Nat
  BY <1>1, <1>2, Induction DEF T
<1>4. \A s \in SUBSET S : /\ SumFunctionOnSet(f, s) \in Nat
                          /\ (\A x \in S : f[x] = 0) => SumFunctionOnSet(f, s) = 0
  BY <1>0, <1>3 DEF T
<1>5. ASSUME NEW y \in S PROVE f[y] <= SumFunctionOnSet(f, S)
  <2>1. \A z \in S : f[z] \in Int
    OBVIOUS
  <2>2. SumFunctionOnSet(f, S) = f[y] + SumFunctionOnSet(f, S \ {y})
    BY <2>1, SumTakeOut
  <2>3. S \ {y} \in SUBSET S
    OBVIOUS
  <2>4. SumFunctionOnSet(f, S \ {y}) \in Nat
    BY <1>4, <2>3
  <2> QED BY <2>2, <2>4
<1>6. S \in SUBSET S
  OBVIOUS
<1> QED BY <1>4, <1>5, <1>6

\* The sum of what two players have.
LEMMA SumPlayers ==
  ASSUME NEW f, f[0] \in Int, f[1] \in Int
  PROVE  SumFunctionOnSet(f, Players) = f[0] + f[1]
<1>1. IsFiniteSet(Players) /\ IsFiniteSet({1})
  <2>1. IsFiniteSet({1})
    BY FS_Singleton
  <2>2. IsFiniteSet({1} \cup {0})
    BY <2>1, FS_AddElement
  <2>3. {1} \cup {0} = Players
    BY DEF Players
  <2> QED BY <2>1, <2>2, <2>3
<1>2. \A p \in Players : f[p] \in Int
  BY DEF Players
<1>3. SumFunctionOnSet(f, Players) = f[0] + SumFunctionOnSet(f, Players \ {0})
  BY <1>1, <1>2, SumTakeOut DEF Players
<1>4. Players \ {0} = {1} /\ {1} \ {1} = {}
  BY DEF Players
<1>5. SumFunctionOnSet(f, {1}) = f[1] + SumFunctionOnSet(f, {1} \ {1})
  BY <1>1, SumTakeOut
<1>6. SumFunctionOnSet(f, {}) = 0
  BY SumEmpty
<1>7. SumFunctionOnSet(f, Players) = f[0] + (f[1] + 0)
  BY <1>3, <1>4, <1>5, <1>6
<1> QED BY <1>7

\* The largest of some naturals below a bound.
LEMMA MaxIn ==
  ASSUME NEW N \in Nat, NEW S \in SUBSET (0..N), S # {}
  PROVE  Max(S) \in S /\ \A y \in S : Max(S) >= y
<1> DEFINE T == {n \in Nat : \A y \in S : y <= n}
<1>1. T \in SUBSET Nat /\ N \in T
  OBVIOUS
<1>2. PICK m \in T : \A n \in T : m <= n
  BY <1>1, Least
<1>3. m \in S
  <2>1. SUFFICES ASSUME m \notin S PROVE FALSE
    OBVIOUS
  <2>2. PICK y \in S : TRUE
    OBVIOUS
  <2>3. m # 0
    BY <2>1, <2>2
  <2>4. m - 1 \in T
    BY <2>1, <2>3
  <2> QED BY <1>2, <2>4
<1>4. \A y \in S : m >= y
  BY <1>2
<1> QED BY <1>3, <1>4 DEF Max

\* The smaller of two naturals.
LEMMA MinOfTwo ==
  ASSUME NEW m \in Nat, NEW n \in Nat
  PROVE  Min({m, n}) = IF m <= n THEN m ELSE n
<1>1. CASE m <= n
  <2>1. m \in {m, n} /\ \A y \in {m, n} : m <= y
    BY <1>1
  <2>2. \A x \in {m, n} : (\A y \in {m, n} : x <= y) => x = m
    BY <1>1
  <2>3. Min({m, n}) = m
    BY <2>1, <2>2 DEF Min
  <2> QED BY <1>1, <2>3
<1>2. CASE ~(m <= n)
  <2>1. n \in {m, n} /\ \A y \in {m, n} : n <= y
    BY <1>2
  <2>2. \A x \in {m, n} : (\A y \in {m, n} : x <= y) => x = n
    BY <1>2
  <2>3. Min({m, n}) = n
    BY <2>1, <2>2 DEF Min
  <2> QED BY <1>2, <2>3
<1> QED BY <1>1, <1>2

-----------------------------------------------------------------------------
(* Prices, and what a number of units costs or fetches.                    *)

\* A price is at least one dollar.
LEMMA PriceFloor ==
  ASSUME NEW i \in Products, NEW n \in Int
  PROVE  Price(i, n) \in Nat /\ Price(i, n) >= 1
<1>1. Base[i] \in Nat /\ Scarcity[i] \in Nat /\ Glut[i] \in Nat /\ I0[i] \in Int
  BY MarketAssumption
<1> DEFINE target == IF n < I0[i] THEN Base[i] + Scarcity[i] * (I0[i] - n)
                                  ELSE Base[i] - Glut[i] * (n - I0[i])
<1>2. \A a, b \in Int : a * b \in Int
  OBVIOUS
<1>3. Scarcity[i] * (I0[i] - n) \in Int /\ Glut[i] * (n - I0[i]) \in Int
  BY <1>1, <1>2
<1>4. target \in Int
  BY <1>1, <1>3
<1>5. Price(i, n) = IF target >= 1 THEN target ELSE 1
  BY DEF Price
<1> HIDE DEF target
<1> QED BY <1>4, <1>5

\* Units 1..k, each at the price of what it leaves behind.
LEMMA BuyCostNext ==
  ASSUME NEW i \in Products, NEW m \in Int, NEW k \in Nat
  PROVE  /\ BuyCost(i, m, 0) = 0
         /\ BuyCost(i, m, k) \in Int
         /\ BuyCost(i, m, k + 1) = BuyCost(i, m, k) + Price(i, m - (k + 1))
<1> DEFINE f(n) == [j \in 1..n |-> Price(i, m - j)]
<1>1. \A n \in Nat : BuyCost(i, m, n) = SumFunctionOnSet(f(n), 1..n)
  BY DEF BuyCost, SumFunction
<1>2. \A n \in Nat : \A j \in 1..n : f(n)[j] \in Int /\ f(n)[j] = Price(i, m - j)
  BY PriceFloor
<1>3. \A n \in Nat : IsFiniteSet(1..n)
  BY FS_Interval
<1>4. 1..0 = {} /\ 0 \in Nat
  OBVIOUS
<1>5. k + 1 \in Nat /\ k + 1 \in 1..(k + 1) /\ (1..(k + 1)) \ {k + 1} = 1..k
  OBVIOUS
<1> HIDE DEF f
<1>6. BuyCost(i, m, 0) = 0
  BY <1>1, <1>4, SumEmpty
<1>7. BuyCost(i, m, k) \in Int
  BY <1>1, <1>2, <1>3, SumType
<1>8. BuyCost(i, m, k + 1) = f(k + 1)[k + 1] + SumFunctionOnSet(f(k + 1), (1..(k + 1)) \ {k + 1})
  BY <1>1, <1>2, <1>3, <1>5, SumTakeOut
<1>9. SumFunctionOnSet(f(k + 1), 1..k) = SumFunctionOnSet(f(k), 1..k)
  <2>1. \A j \in 1..k : f(k)[j] \in Int /\ f(k + 1)[j] = f(k)[j]
    BY <1>2, <1>5
  <2> QED BY <2>1, <1>3, SumSame
<1>10. f(k + 1)[k + 1] = Price(i, m - (k + 1)) /\ Price(i, m - (k + 1)) \in Int
  BY <1>2, <1>5
<1>11. BuyCost(i, m, k + 1) = Price(i, m - (k + 1)) + BuyCost(i, m, k)
  BY <1>1, <1>5, <1>8, <1>9, <1>10, Zenon
<1> QED BY <1>6, <1>7, <1>10, <1>11

\* Units 0..(k - 1), each at the price it finds.
LEMMA SellRevenueNext ==
  ASSUME NEW i \in Products, NEW m \in Int, NEW k \in Nat
  PROVE  /\ SellRevenue(i, m, 0) = 0
         /\ SellRevenue(i, m, k) \in Int
         /\ SellRevenue(i, m, k + 1) = SellRevenue(i, m, k) + Price(i, m + k)
<1> DEFINE f(n) == [j \in 0..(n - 1) |-> Price(i, m + j)]
<1>1. \A n \in Nat : SellRevenue(i, m, n) = SumFunctionOnSet(f(n), 0..(n - 1))
  BY DEF SellRevenue, SumFunction
<1>2. \A n \in Nat : \A j \in 0..(n - 1) : f(n)[j] \in Int /\ f(n)[j] = Price(i, m + j)
  BY PriceFloor
<1>3. \A n \in Nat : IsFiniteSet(0..(n - 1))
  BY FS_Interval
<1>4. 0..(0 - 1) = {} /\ 0 \in Nat
  OBVIOUS
<1>5. k + 1 \in Nat /\ k \in 0..((k + 1) - 1) /\ (0..((k + 1) - 1)) \ {k} = 0..(k - 1)
  OBVIOUS
<1> HIDE DEF f
<1>6. SellRevenue(i, m, 0) = 0
  BY <1>1, <1>4, SumEmpty
<1>7. SellRevenue(i, m, k) \in Int
  BY <1>1, <1>2, <1>3, SumType
<1>8. SellRevenue(i, m, k + 1)
        = f(k + 1)[k] + SumFunctionOnSet(f(k + 1), (0..((k + 1) - 1)) \ {k})
  BY <1>1, <1>2, <1>3, <1>5, SumTakeOut
<1>9. SumFunctionOnSet(f(k + 1), 0..(k - 1)) = SumFunctionOnSet(f(k), 0..(k - 1))
  <2>1. \A j \in 0..(k - 1) : f(k)[j] \in Int /\ f(k + 1)[j] = f(k)[j]
    BY <1>2, <1>5
  <2> QED BY <2>1, <1>3, SumSame
<1>10. f(k + 1)[k] = Price(i, m + k) /\ Price(i, m + k) \in Int
  BY <1>2, <1>5
<1>11. SellRevenue(i, m, k + 1) = Price(i, m + k) + SellRevenue(i, m, k)
  BY <1>1, <1>5, <1>8, <1>9, <1>10, Zenon
<1> QED BY <1>6, <1>7, <1>10, <1>11

\* A sale adds to the supply as long as the price is above the floor.
LEMMA SellSupplyNext ==
  ASSUME NEW i \in Products, NEW m \in Int, NEW k \in Nat
  PROVE  /\ SellSupply(i, m, 0) = 0
         /\ SellSupply(i, m, k) \in Nat
         /\ SellSupply(i, m, k + 1)
              = SellSupply(i, m, k) + (IF Price(i, m + k) > 1 THEN 1 ELSE 0)
<1> DEFINE T(n) == {j \in 0..(n - 1) : Price(i, m + j) > 1}
<1>1. \A n \in Nat : IsFiniteSet(T(n)) /\ Cardinality(T(n)) \in Nat
  <2>1. \A n \in Nat : IsFiniteSet(0..(n - 1)) /\ T(n) \in SUBSET (0..(n - 1))
    BY FS_Interval
  <2> HIDE DEF T
  <2> QED BY <2>1, FS_Subset, FS_CardinalityType
<1>2. T(0) = {}
  OBVIOUS
<1>3. k \notin T(k)
  OBVIOUS
<1>4. T(k + 1) = IF Price(i, m + k) > 1 THEN T(k) \cup {k} ELSE T(k)
  OBVIOUS
<1>5. \A n : SellSupply(i, m, n) = Cardinality(T(n))
  BY DEF SellSupply
<1> HIDE DEF T
<1>6. Cardinality(T(k) \cup {k}) = Cardinality(T(k)) + 1
  BY <1>1, <1>3, FS_AddElement
<1> QED BY <1>1, <1>2, <1>4, <1>5, <1>6, FS_EmptySet

\* Costs and revenues are never negative.
LEMMA CostsNat ==
  ASSUME NEW i \in Products, NEW m \in Int, NEW k \in Nat
  PROVE  BuyCost(i, m, k) \in Nat /\ SellRevenue(i, m, k) \in Nat
<1> DEFINE f == [j \in 1..k |-> Price(i, m - j)]
           g == [j \in 0..(k - 1) |-> Price(i, m + j)]
<1>1. \A j \in 1..k : f[j] \in Nat
  BY PriceFloor
<1>2. \A j \in 0..(k - 1) : g[j] \in Nat
  BY PriceFloor
<1>3. BuyCost(i, m, k) = SumFunctionOnSet(f, 1..k)
  BY DEF BuyCost, SumFunction
<1>4. SellRevenue(i, m, k) = SumFunctionOnSet(g, 0..(k - 1))
  BY DEF SellRevenue, SumFunction
<1>5. IsFiniteSet(1..k) /\ IsFiniteSet(0..(k - 1))
  BY FS_Interval
<1> HIDE DEF f, g
<1> QED BY <1>1, <1>2, <1>3, <1>4, <1>5, SumNat

-----------------------------------------------------------------------------
(* Accounts.                                                               *)

\* What AccountsSound asks of one account.
Sound(a) ==
  /\ a \in Account
  /\ a.money >= 0
  /\ a.shed_used = SumFunction(a.shed)
  /\ a.shed_used <= ShedCapacity

\* What lies in a sound shed, and the room left in it.
LEMMA SoundShed ==
  ASSUME NEW a, Sound(a)
  PROVE  /\ a.shed_used \in Nat
         /\ a.money \in Nat
         /\ Room(a) = ShedCapacity - a.shed_used
         /\ Room(a) \in Nat
         /\ \A i \in Items : a.shed[i] \in Nat /\ a.shed[i] <= a.shed_used
<1>1. a.shed \in [Items -> Nat] /\ IsFiniteSet(Items) /\ ShedCapacity \in Nat
  BY MarketAssumption DEF Sound, Account
<1>2. SumFunction(a.shed) = SumFunctionOnSet(a.shed, Items)
  BY <1>1 DEF SumFunction
<1>3. \A i \in Items : a.shed[i] \in Nat
  BY <1>1
<1>4. /\ SumFunctionOnSet(a.shed, Items) \in Nat
      /\ \A i \in Items : a.shed[i] <= SumFunctionOnSet(a.shed, Items)
  BY <1>1, <1>3, SumNat
<1>5. a.shed_used = SumFunctionOnSet(a.shed, Items)
  BY <1>2 DEF Sound
<1>6. a.shed_used <= ShedCapacity /\ a.money \in Int /\ a.money >= 0
  BY DEF Sound, Account
<1> QED BY <1>1, <1>3, <1>4, <1>5, <1>6 DEF Room

\* Goods may be put on a shelf or taken from it as far as shelf, shed and purse allow.
LEMMA ShelvedSound ==
  ASSUME NEW a, Sound(a), NEW i \in Items, NEW k \in Int, NEW dollars \in Int,
         a.shed[i] + k >= 0, a.shed_used + k <= ShedCapacity, a.money + dollars >= 0
  PROVE  /\ Sound(Shelved(a, i, k, dollars))
         /\ Shelved(a, i, k, dollars).money = a.money + dollars
         /\ Shelved(a, i, k, dollars).shed = [a.shed EXCEPT ![i] = @ + k]
         /\ Shelved(a, i, k, dollars).shed_used = a.shed_used + k
         /\ Shelved(a, i, k, dollars).seeds = a.seeds
         /\ Shelved(a, i, k, dollars).hires = a.hires
         /\ Shelved(a, i, k, dollars).lands = a.lands
<1> DEFINE b == Shelved(a, i, k, dollars)
<1>1. a \in Account /\ a.shed \in [Items -> Nat] /\ IsFiniteSet(Items)
  BY MarketAssumption DEF Sound, Account
<1>2. /\ b.money = a.money + dollars
      /\ b.shed = [a.shed EXCEPT ![i] = @ + k]
      /\ b.shed_used = a.shed_used + k
      /\ b.seeds = a.seeds /\ b.hires = a.hires /\ b.lands = a.lands
  BY <1>1 DEF Shelved, Account
<1>3. a.shed[i] + k \in Nat
  BY <1>1, SoundShed
<1>4. b.shed \in [Items -> Nat]
  BY <1>1, <1>2, <1>3
<1>5. b \in Account
  <2>1. a.money + dollars \in Int /\ a.shed_used + k \in Int
    BY <1>1 DEF Account
  <2>2. [a.shed EXCEPT ![i] = @ + k] \in [Items -> Nat]
    BY <1>2, <1>4
  <2> QED BY <1>1, <2>1, <2>2 DEF Shelved, Account
<1>6. SumFunctionOnSet(b.shed, Items) = SumFunctionOnSet(a.shed, Items) + (b.shed[i] - a.shed[i])
  <2>1. \A x \in Items : a.shed[x] \in Int /\ b.shed[x] \in Int
    BY <1>1, <1>4
  <2>2. \A x \in Items \ {i} : b.shed[x] = a.shed[x]
    BY <1>1, <1>2
  <2> DEFINE f == a.shed
             g == b.shed
  <2>3. /\ \A x \in Items : f[x] \in Int /\ g[x] \in Int
        /\ \A x \in Items \ {i} : g[x] = f[x]
    BY <2>1, <2>2
  <2> HIDE DEF b, f, g
  <2>4. SumFunctionOnSet(g, Items) = SumFunctionOnSet(f, Items) + (g[i] - f[i])
    BY <1>1, <2>3, SumChanged
  <2> QED BY <2>4 DEF f, g
<1>7. b.shed[i] = a.shed[i] + k
  BY <1>1, <1>2
<1>8. a.shed_used = SumFunctionOnSet(a.shed, Items)
  <2>1. DOMAIN a.shed = Items
    BY <1>1
  <2> QED BY <2>1 DEF Sound, SumFunction
<1>9. SumFunction(b.shed) = SumFunctionOnSet(b.shed, Items)
  <2>1. DOMAIN b.shed = Items
    BY <1>4
  <2> HIDE DEF b
  <2> QED BY <2>1 DEF SumFunction
<1>10. b.shed_used = SumFunction(b.shed)
  <2>1. a.shed[i] \in Int /\ a.shed_used \in Int
    BY <1>1, SoundShed
  <2> HIDE DEF b
  <2> QED BY <2>1, <1>2, <1>6, <1>7, <1>8, <1>9
<1> HIDE DEF b
<1>11. Sound(b)
  BY <1>2, <1>5, <1>10 DEF Sound
<1> QED BY <1>2, <1>11 DEF b

\* What an order may be.
LEMMA OfferCases ==
  ASSUME NEW o \in Offer
  PROVE  /\ o.n \in Nat
         /\ o.op \in {"PASS", "HIRE", "BUY_LAND", "BUY_SEED", "BUY_PRODUCT", "BUY_ANIMAL", "SELL"}
         /\ o.op = "BUY_SEED" => o.target \in Crops
         /\ o.op = "BUY_PRODUCT" => o.target \in Buyable /\ o.target \in Products
         /\ o.op = "BUY_ANIMAL" => o.target \in Animals
         /\ o.op = "SELL" => o.target \in Products
BY MarketAssumption DEF Offer

\* Every quote is a natural number.
LEMMA QuoteNat ==
  ASSUME NEW o \in Offer, NEW inv \in [Products -> Int]
  PROVE  Quote(o, inv) \in Nat
<1>1. CASE o.op = "BUY_PRODUCT"
  <2>1. o.target \in Products /\ inv[o.target] - 1 \in Int
    BY <1>1, OfferCases
  <2>2. Quote(o, inv) = Price(o.target, inv[o.target] - 1)
    BY <1>1 DEF Quote
  <2> QED BY <2>1, <2>2, PriceFloor
<1>2. CASE o.op = "SELL"
  <2>1. o.target \in Products /\ inv[o.target] \in Int
    BY <1>2, OfferCases
  <2>2. Quote(o, inv) = Price(o.target, inv[o.target])
    BY <1>2 DEF Quote
  <2> QED BY <2>1, <2>2, PriceFloor
<1>3. CASE o.op = "BUY_SEED"
  BY <1>3, OfferCases, MarketAssumption DEF Quote
<1>4. CASE o.op = "BUY_ANIMAL"
  BY <1>4, OfferCases, MarketAssumption DEF Quote
<1>5. CASE o.op \notin {"BUY_PRODUCT", "SELL", "BUY_SEED", "BUY_ANIMAL"}
  BY <1>5 DEF Quote
<1> QED BY <1>1, <1>2, <1>3, <1>4, <1>5

\* One unit, where it is possible, leaves the account sound.
LEMMA CommittedSound ==
  ASSUME NEW a, Sound(a), NEW o \in Offer, NEW quote \in Nat, Possible(a, o, quote)
  PROVE  Sound(Committed(a, o, quote))
<1>1. CASE o.op = "BUY_SEED"
  <2>1. a \in Account /\ a.seeds \in [Crops -> Nat] /\ a.money \in Int /\ o.target \in Crops
    BY <1>1, OfferCases DEF Sound, Account
  <2>2. a.money >= quote
    BY <1>1 DEF Possible
  <2> DEFINE b == [a EXCEPT !.money = @ - quote, !.seeds[o.target] = @ + 1]
  <2>3. [a.seeds EXCEPT ![o.target] = @ + 1] \in [Crops -> Nat] /\ a.money - quote \in Int
    BY <2>1
  <2>4. /\ b \in Account
        /\ b.money = a.money - quote
        /\ b.shed = a.shed /\ b.shed_used = a.shed_used
    BY <2>1, <2>3 DEF Account
  <2>5. Committed(a, o, quote) = b
    BY <1>1 DEF Committed
  <2> HIDE DEF b
  <2> QED BY <2>1, <2>2, <2>4, <2>5 DEF Sound
<1>2. CASE o.op \in {"BUY_PRODUCT", "BUY_ANIMAL"}
  <2>1. o.target \in Items
    BY <1>2, OfferCases DEF Items
  <2>2. a.shed_used < ShedCapacity /\ a.money >= quote
    BY <1>2 DEF Possible
  <2>3. Committed(a, o, quote) = Shelved(a, o.target, 1, -quote)
    BY <1>2 DEF Committed
  <2>4. a.shed[o.target] \in Nat /\ a.shed_used \in Nat /\ a.money \in Nat /\ ShedCapacity \in Nat
    BY <2>1, SoundShed, MarketAssumption
  <2>5. a.shed[o.target] + 1 >= 0 /\ a.shed_used + 1 <= ShedCapacity /\ a.money + (-quote) >= 0
    BY <2>2, <2>4
  <2>6. 1 \in Int /\ -quote \in Int
    OBVIOUS
  <2>7. Sound(Shelved(a, o.target, 1, -quote))
    BY <2>1, <2>5, <2>6, ShelvedSound
  <2> QED BY <2>3, <2>7
<1>3. CASE o.op = "SELL"
  <2>1. o.target \in Items
    BY <1>3, OfferCases DEF Items
  <2>2. a.shed[o.target] > 0
    BY <1>3 DEF Possible
  <2>3. Committed(a, o, quote) = Shelved(a, o.target, -1, quote)
    BY <1>3 DEF Committed
  <2>4. /\ a.shed[o.target] \in Nat /\ a.shed_used \in Nat /\ a.money \in Nat
        /\ a.shed_used <= ShedCapacity /\ ShedCapacity \in Nat
    BY <2>1, SoundShed, MarketAssumption DEF Sound
  <2>5. a.shed[o.target] + (-1) >= 0 /\ a.shed_used + (-1) <= ShedCapacity /\ a.money + quote >= 0
    BY <2>2, <2>4
  <2>6. -1 \in Int /\ quote \in Int
    OBVIOUS
  <2>7. Sound(Shelved(a, o.target, -1, quote))
    BY <2>1, <2>5, <2>6, ShelvedSound
  <2> QED BY <2>3, <2>7
<1>4. o.op \in {"BUY_SEED", "BUY_PRODUCT", "BUY_ANIMAL", "SELL"}
  BY DEF Possible
<1> QED BY <1>1, <1>2, <1>3, <1>4

\* A hand or a plot is only taken on when it can be paid.
LEMMA AtOnceSound ==
  ASSUME NEW a, Sound(a), NEW o \in Offer
  PROVE  Sound(AtOnce(a, o))
<1>1. a \in Account /\ a.money \in Int /\ a.hires \in Nat /\ a.lands \in 0..3
  BY DEF Sound, Account
<1>2. Sound(Hired(a))
  <2>1. CASE a.hires < MaxHands /\ a.money >= HireCost[a.hires]
    <3> DEFINE price == HireCost[a.hires]
               b == [a EXCEPT !.money = @ - price, !.hires = @ + 1]
    <3>1. price \in Nat
      BY <1>1, <2>1, MarketAssumption
    <3>2. Hired(a) = b /\ a.money >= price
      BY <2>1 DEF Hired
    <3> HIDE DEF price
    <3>3. /\ a.money - price \in Int
          /\ a.hires + 1 \in Nat
      BY <1>1, <2>1, <3>1
    <3>4. /\ b \in Account
          /\ b.money = a.money - price
          /\ b.shed = a.shed /\ b.shed_used = a.shed_used
      BY <1>1, <3>3 DEF Account
    <3> HIDE DEF b
    <3> QED BY <1>1, <3>1, <3>2, <3>4 DEF Sound
  <2> QED BY <2>1 DEF Hired
<1>3. Sound(Landed(a))
  <2>1. CASE a.lands < 3 /\ a.money >= LandPrices[a.lands + 1]
    <3> DEFINE price == LandPrices[a.lands + 1]
               b == [a EXCEPT !.money = @ - price, !.lands = @ + 1]
    <3>0. a.lands + 1 \in 1..3
      BY <1>1, <2>1
    <3>1. price \in Nat
      BY <1>1, <3>0, MarketAssumption
    <3>2. Landed(a) = b /\ a.money >= price
      BY <2>1 DEF Landed
    <3> HIDE DEF price
    <3>3. /\ a.money - price \in Int
          /\ a.lands + 1 \in 0..3
      BY <1>1, <2>1, <3>1
    <3>4. /\ b \in Account
          /\ b.money = a.money - price
          /\ b.shed = a.shed /\ b.shed_used = a.shed_used
      BY <1>1, <3>3 DEF Account
    <3> HIDE DEF b
    <3> QED BY <1>1, <3>1, <3>2, <3>4 DEF Sound
  <2> QED BY <2>1 DEF Landed
<1> QED BY <1>2, <1>3 DEF AtOnce

-----------------------------------------------------------------------------
(* The bulk settlement.                                                    *)

\* How many units a purse and the room buy.
Bought(a, i, n, m) == Max({j \in 0..Min({n, Room(a)}) : BuyCost(i, m, j) <= a.money})

\* What Bought finds is affordable and stowable, and nothing larger is.
LEMMA BoughtMost ==
  ASSUME NEW a, Sound(a), NEW i \in Products, NEW n \in Nat, NEW m \in Int
  PROVE  LET k == Bought(a, i, n, m) IN
         /\ k \in Nat /\ k <= n /\ k <= Room(a)
         /\ BuyCost(i, m, k) <= a.money
         /\ \A j \in Nat : j <= n /\ j <= Room(a) /\ BuyCost(i, m, j) <= a.money => j <= k
<1> DEFINE room == Min({n, Room(a)})
           S == {j \in 0..room : BuyCost(i, m, j) <= a.money}
<1>1. Room(a) \in Nat /\ a.money \in Nat
  BY SoundShed
<1>2. room \in Nat /\ room <= n /\ room <= Room(a) /\ (\A j \in Nat : j <= n /\ j <= Room(a) => j <= room)
  BY <1>1, MinOfTwo
<1> HIDE DEF room
<1>3. BuyCost(i, m, 0) = 0
  BY BuyCostNext
<1>4. 0 \in S /\ S \in SUBSET (0..room)
  BY <1>1, <1>2, <1>3
<1>5. Max(S) \in S /\ \A y \in S : Max(S) >= y
  <2> HIDE DEF S
  <2> QED BY <1>2, <1>4, MaxIn
<1>6. Bought(a, i, n, m) = Max(S)
  BY DEF Bought, room
<1>7. /\ Max(S) \in Nat /\ Max(S) <= room
      /\ BuyCost(i, m, Max(S)) <= a.money
      /\ \A j \in Nat : j <= room /\ BuyCost(i, m, j) <= a.money => j <= Max(S)
  <2>1. \A x : x \in S <=> x \in 0..room /\ BuyCost(i, m, x) <= a.money
    OBVIOUS
  <2>2. \A x \in S : x \in Nat /\ x <= room
    BY <1>2
  <2>3. \A j \in Nat : j <= room => j \in 0..room
    BY <1>2
  <2> DEFINE k == Max(S)
  <2> HIDE DEF S, k
  <2>4. k \in S /\ \A y \in S : k >= y
    BY <1>5 DEF k
  <2>5. k \in Nat /\ k <= room /\ BuyCost(i, m, k) <= a.money
    BY <2>1, <2>2, <2>4
  <2>6. ASSUME NEW j \in Nat, j <= room, BuyCost(i, m, j) <= a.money PROVE j <= k
    BY <2>1, <2>3, <2>4, <2>5, <2>6
  <2> QED BY <2>5, <2>6 DEF k
<1> HIDE DEF S
<1> QED BY <1>1, <1>2, <1>6, <1>7

\* What the settlement of a purchase and of a sale does.
LEMMA BulkBuys ==
  ASSUME NEW a, NEW o \in Offer, o.op = "BUY_PRODUCT", NEW n, NEW inv
  PROVE  LET k == Bought(a, o.target, n, inv[o.target]) IN
         Bulk(a, o, n, inv) =
           [account |-> Shelved(a, o.target, k, -BuyCost(o.target, inv[o.target], k)),
            supply |-> -k]
BY DEF Bulk, Bought

\* A bulk sale sells what is wanted and in the shed, in one movement of goods.
LEMMA BulkSells ==
  ASSUME NEW a, Sound(a), NEW o \in Offer, o.op = "SELL", NEW n \in Nat, NEW inv
  PROVE  LET k == IF n <= a.shed[o.target] THEN n ELSE a.shed[o.target] IN
         Bulk(a, o, n, inv) =
           [account |-> Shelved(a, o.target, -k, SellRevenue(o.target, inv[o.target], k)),
            supply |-> SellSupply(o.target, inv[o.target], k)]
<1>1. o.target \in Items
  BY OfferCases DEF Items
<1>2. a.shed[o.target] \in Nat
  BY <1>1, SoundShed
<1>3. Min({n, a.shed[o.target]}) = IF n <= a.shed[o.target] THEN n ELSE a.shed[o.target]
  BY <1>2, MinOfTwo
<1> QED BY <1>3 DEF Bulk

\* Settling an order in bulk leaves a sound account and moves whole units.
LEMMA BulkSound ==
  ASSUME NEW a, Sound(a), NEW o \in Offer, Bulkable(o), NEW n \in Nat,
         NEW inv \in [Products -> Int]
  PROVE  Sound(Bulk(a, o, n, inv).account) /\ Bulk(a, o, n, inv).supply \in Int
<1> DEFINE i == o.target
           m == inv[i]
<1>1. i \in Products /\ i \in Items /\ m \in Int
  BY OfferCases DEF Bulkable, Items
<1>2. /\ a.shed[i] \in Nat /\ a.shed_used \in Nat /\ a.money \in Nat /\ Room(a) \in Nat
      /\ Room(a) = ShedCapacity - a.shed_used /\ ShedCapacity \in Nat
      /\ a.shed_used <= ShedCapacity
  BY <1>1, SoundShed, MarketAssumption DEF Sound
<1>3. CASE o.op = "BUY_PRODUCT"
  <2> DEFINE k == Bought(a, i, n, m)
             cost == BuyCost(i, m, k)
  <2>1. k \in Nat /\ k <= Room(a) /\ cost <= a.money
    BY <1>1, BoughtMost
  <2>2. Bulk(a, o, n, inv) = [account |-> Shelved(a, i, k, -cost), supply |-> -k]
    BY <1>3, BulkBuys
  <2> HIDE DEF k
  <2>3. cost \in Nat
    BY <1>1, <2>1, CostsNat
  <2> HIDE DEF cost, i
  <2>4. a.shed[i] + k >= 0 /\ a.shed_used + k <= ShedCapacity /\ a.money + (-cost) >= 0
    BY <1>2, <2>1, <2>3
  <2>5. k \in Int /\ -cost \in Int
    BY <2>1, <2>3
  <2>6. Sound(Shelved(a, i, k, -cost))
    BY <1>1, <2>4, <2>5, ShelvedSound
  <2> QED BY <2>1, <2>2, <2>6
<1>4. CASE o.op = "SELL"
  <2> DEFINE k == IF n <= a.shed[i] THEN n ELSE a.shed[i]
             gain == SellRevenue(i, m, k)
  <2>1. Bulk(a, o, n, inv) = [account |-> Shelved(a, i, -k, gain), supply |-> SellSupply(i, m, k)]
    BY <1>4, BulkSells
  <2>2. k \in Nat /\ k <= a.shed[i]
    BY <1>2
  <2> HIDE DEF k
  <2>3. gain \in Nat /\ SellSupply(i, m, k) \in Nat
    BY <1>1, <2>2, CostsNat, SellSupplyNext
  <2> HIDE DEF gain, i
  <2>4. a.shed[i] + (-k) >= 0 /\ a.shed_used + (-k) <= ShedCapacity /\ a.money + gain >= 0
    BY <1>2, <2>2, <2>3
  <2>5. -k \in Int /\ gain \in Int
    BY <2>2, <2>3
  <2>6. Sound(Shelved(a, i, -k, gain))
    BY <1>1, <2>4, <2>5, ShelvedSound
  <2> QED BY <2>1, <2>3, <2>6
<1> QED BY <1>3, <1>4 DEF Bulkable

-----------------------------------------------------------------------------
(* The rounds of a slot.                                                   *)

\* A slot of the right shape, with sound accounts.
SoundSlot(s) == s \in SlotState /\ \A p \in Players : Sound(s.acct[p])

\* Who trades in a round of the lockstep, at which quote, and what it does to the market.
QuoteOf(s, p) == Quote(s.offer[p], s.inv)
Able(s, p) == Served(s, p) /\ Possible(s.acct[p], s.offer[p], QuoteOf(s, p))
Moved(s, p, i) == IF Able(s, p) /\ s.offer[p].target = i
                  THEN Supply(s.offer[p], QuoteOf(s, p)) ELSE 0

\* The fields of a slot, and the slot put together from them.
LEMMA SlotShape ==
  ASSUME NEW s \in SlotState
  PROVE  /\ s.inv \in [Products -> Int] /\ s.unit \in Nat
         /\ s.acct \in [Players -> Account] /\ s.offer \in [Players -> Offer]
         /\ s.active \in [Players -> BOOLEAN]
         /\ \A p \in Players : s.offer[p] \in Offer /\ s.offer[p].n \in Nat /\ Other(p) \in Players
         /\ s = [acct |-> s.acct, inv |-> s.inv, offer |-> s.offer, active |-> s.active,
                 unit |-> s.unit]
BY OfferCases DEF SlotState, Players, Other

\* What a player moves of a product is a whole number.
LEMMA MovedInt ==
  ASSUME NEW s, NEW p, NEW i
  PROVE  Moved(s, p, i) \in Int
BY DEF Moved, Supply

\* One round in lockstep, field by field.
LEMMA LockstepIs ==
  ASSUME NEW s \in SlotState
  PROVE  Lockstep(s) =
           [acct |-> [p \in Players |-> IF Able(s, p)
                                        THEN Committed(s.acct[p], s.offer[p], QuoteOf(s, p))
                                        ELSE s.acct[p]],
            inv |-> [i \in Products |-> s.inv[i] + (Moved(s, 0, i) + Moved(s, 1, i))],
            offer |-> s.offer,
            active |-> [p \in Players |-> Able(s, p)],
            unit |-> s.unit + 1]
<1> DEFINE quote == [p \in Players |-> Quote(s.offer[p], s.inv)]
           able  == [p \in Players |->
                       Served(s, p) /\ Possible(s.acct[p], s.offer[p], quote[p])]
           moves(p, i) == IF able[p] /\ s.offer[p].target = i
                          THEN Supply(s.offer[p], quote[p]) ELSE 0
           accts == [p \in Players |-> IF able[p] THEN Committed(s.acct[p], s.offer[p], quote[p])
                                       ELSE s.acct[p]]
           accts2 == [p \in Players |-> IF Able(s, p)
                                        THEN Committed(s.acct[p], s.offer[p], QuoteOf(s, p))
                                        ELSE s.acct[p]]
           inv == [i \in Products |-> s.inv[i] + SumFunction([p \in Players |-> moves(p, i)])]
           inv2 == [i \in Products |-> s.inv[i] + (Moved(s, 0, i) + Moved(s, 1, i))]
           able2 == [p \in Players |-> Able(s, p)]
<1>1. Lockstep(s) = [s EXCEPT !.acct = accts, !.inv = inv, !.active = able, !.unit = @ + 1]
  BY DEF Lockstep
<1>2. able = able2
  BY DEF Able, QuoteOf
<1>3. accts = accts2
  <2>1. \A p \in Players : able[p] = Able(s, p) /\ quote[p] = QuoteOf(s, p)
    BY DEF Able, QuoteOf
  <2> HIDE DEF able, quote
  <2> QED BY <2>1
<1>4. inv = inv2
  <2>1. ASSUME NEW i \in Products
        PROVE  SumFunction([p \in Players |-> moves(p, i)]) = Moved(s, 0, i) + Moved(s, 1, i)
    <3> DEFINE f == [p \in Players |-> moves(p, i)]
    <3>1. f[0] = Moved(s, 0, i) /\ f[1] = Moved(s, 1, i)
      BY DEF Moved, Able, QuoteOf, Players
    <3>2. SumFunction(f) = SumFunctionOnSet(f, Players)
      BY DEF SumFunction
    <3> HIDE DEF f
    <3>3. f[0] \in Int /\ f[1] \in Int
      BY <3>1, MovedInt
    <3>4. SumFunctionOnSet(f, Players) = f[0] + f[1]
      BY <3>3, SumPlayers
    <3> QED BY <3>1, <3>2, <3>4 DEF f
  <2> HIDE DEF moves
  <2> QED BY <2>1
<1> HIDE DEF accts, inv, able, accts2, inv2, able2
<1>5. Lockstep(s) = [acct |-> accts, inv |-> inv, offer |-> s.offer, active |-> able,
                     unit |-> s.unit + 1]
  BY <1>1, SlotShape DEF SlotState
<1>6. Lockstep(s) = [acct |-> accts2, inv |-> inv2, offer |-> s.offer, active |-> able2,
                     unit |-> s.unit + 1]
  BY <1>5, <1>2, <1>3, <1>4
<1> QED BY <1>6 DEF accts2, inv2, able2

\* One round in lockstep keeps a slot sound.
LEMMA LockstepSound ==
  ASSUME NEW s, SoundSlot(s)
  PROVE  SoundSlot(Lockstep(s))
<1> DEFINE t == Lockstep(s)
<1>1. s \in SlotState /\ \A p \in Players : Sound(s.acct[p])
  BY DEF SoundSlot
<1>2. t = [acct |-> [p \in Players |-> IF Able(s, p)
                                       THEN Committed(s.acct[p], s.offer[p], QuoteOf(s, p))
                                       ELSE s.acct[p]],
           inv |-> [i \in Products |-> s.inv[i] + (Moved(s, 0, i) + Moved(s, 1, i))],
           offer |-> s.offer,
           active |-> [p \in Players |-> Able(s, p)],
           unit |-> s.unit + 1]
  BY <1>1, LockstepIs
<1> HIDE DEF t
<1>3. \A p \in Players : Sound(t.acct[p])
  <2> SUFFICES ASSUME NEW p \in Players PROVE Sound(t.acct[p])
    OBVIOUS
  <2>1. CASE Able(s, p)
    <3>1. QuoteOf(s, p) \in Nat /\ s.offer[p] \in Offer
      BY <1>1, SlotShape, QuoteNat DEF QuoteOf
    <3>2. Possible(s.acct[p], s.offer[p], QuoteOf(s, p))
      BY <2>1 DEF Able
    <3>3. Sound(Committed(s.acct[p], s.offer[p], QuoteOf(s, p)))
      BY <1>1, <3>1, <3>2, CommittedSound
    <3> QED BY <1>2, <2>1, <3>3
  <2>2. CASE ~Able(s, p)
    BY <1>1, <1>2, <2>2
  <2> QED BY <2>1, <2>2
<1>4. t \in SlotState
  <2>1. \A i \in Products : s.inv[i] + (Moved(s, 0, i) + Moved(s, 1, i)) \in Int
    <3> SUFFICES ASSUME NEW i \in Products
                 PROVE  s.inv[i] + (Moved(s, 0, i) + Moved(s, 1, i)) \in Int
      OBVIOUS
    <3>1. s.inv[i] \in Int /\ Moved(s, 0, i) \in Int /\ Moved(s, 1, i) \in Int
      BY <1>1, SlotShape, MovedInt
    <3> QED BY <3>1
  <2>2. \A p \in Players : t.acct[p] \in Account
    BY <1>3 DEF Sound
  <2>3. t.acct \in [Players -> Account]
    BY <1>2, <2>2
  <2>4. \A p \in Players : Able(s, p) \in BOOLEAN
    BY DEF Able, Served
  <2>5. t.inv \in [Products -> Int]
    BY <1>2, <2>1
  <2>6. t.active \in [Players -> BOOLEAN]
    BY <1>2, <2>4
  <2>7. t.offer \in [Players -> Offer] /\ t.unit \in Nat
    BY <1>1, <1>2, SlotShape
  <2>8. t = [acct |-> t.acct, inv |-> t.inv, offer |-> t.offer, active |-> t.active,
             unit |-> t.unit]
    BY <1>2
  <2> QED BY <2>3, <2>5, <2>6, <2>7, <2>8 DEF SlotState
<1> QED BY <1>3, <1>4 DEF SoundSlot, t

\* What the settlement of one player's whole order, or of the rest of it, gives.
Settled(s, p) == Bulk(s.acct[p], s.offer[p], s.offer[p].n, s.inv)
Remainder(s, p) == Bulk(s.acct[p], s.offer[p], s.offer[p].n - s.unit, s.inv)
Taken(s, p, i) == IF s.offer[p].target = i THEN Settled(s, p).supply ELSE 0

\* Both ways of settling one player's order in bulk leave a sound account.
LEMMA SettledSound ==
  ASSUME NEW s, SoundSlot(s), NEW p \in Players, Bulkable(s.offer[p])
  PROVE  /\ Sound(Settled(s, p).account) /\ Settled(s, p).supply \in Int
         /\ s.unit < s.offer[p].n =>
              Sound(Remainder(s, p).account) /\ Remainder(s, p).supply \in Int
<1>1. /\ s.offer[p] \in Offer /\ s.offer[p].n \in Nat /\ s.unit \in Nat
      /\ s.inv \in [Products -> Int] /\ Sound(s.acct[p])
  BY SlotShape DEF SoundSlot
<1>2. Sound(Settled(s, p).account) /\ Settled(s, p).supply \in Int
  BY <1>1, BulkSound DEF Settled
<1>3. ASSUME s.unit < s.offer[p].n
      PROVE  Sound(Remainder(s, p).account) /\ Remainder(s, p).supply \in Int
  <2>1. s.offer[p].n - s.unit \in Nat
    BY <1>1, <1>3
  <2> QED BY <1>1, <2>1, BulkSound DEF Remainder
<1> QED BY <1>2, <1>3

\* Two independent orders settled in bulk, field by field.
LEMMA BothBulkIs ==
  ASSUME NEW s, SoundSlot(s), Independent(s)
  PROVE  BothBulk(s) =
           [acct |-> [p \in Players |-> Settled(s, p).account],
            inv |-> [i \in Products |-> s.inv[i] + (Taken(s, 0, i) + Taken(s, 1, i))],
            offer |-> s.offer,
            active |-> [p \in Players |-> FALSE],
            unit |-> s.unit]
<1> DEFINE b == [p \in Players |-> Bulk(s.acct[p], s.offer[p], s.offer[p].n, s.inv)]
           accts == [p \in Players |-> b[p].account]
           accts2 == [p \in Players |-> Settled(s, p).account]
           inv == [i \in Products |-> s.inv[i] +
                       SumFunction([p \in Players |-> IF s.offer[p].target = i
                                                      THEN b[p].supply ELSE 0])]
           inv2 == [i \in Products |-> s.inv[i] + (Taken(s, 0, i) + Taken(s, 1, i))]
           none == [p \in Players |-> FALSE]
<1>0. s \in SlotState
  BY DEF SoundSlot
<1>1. BothBulk(s) = [s EXCEPT !.acct = accts, !.inv = inv, !.active = none]
  BY DEF BothBulk
<1>2. \A p \in Players : b[p] = Settled(s, p)
  BY DEF Settled
<1> HIDE DEF b
<1>3. accts = accts2
  BY <1>2
<1>4. inv = inv2
  <2>1. ASSUME NEW i \in Products
        PROVE  SumFunction([p \in Players |-> IF s.offer[p].target = i THEN b[p].supply ELSE 0])
                 = Taken(s, 0, i) + Taken(s, 1, i)
    <3> DEFINE f == [p \in Players |-> IF s.offer[p].target = i THEN b[p].supply ELSE 0]
    <3>1. f[0] = Taken(s, 0, i) /\ f[1] = Taken(s, 1, i)
      BY <1>2 DEF Taken, Players
    <3>2. SumFunction(f) = SumFunctionOnSet(f, Players)
      BY DEF SumFunction
    <3>3. \A p \in Players : Taken(s, p, i) \in Int
      BY SettledSound DEF Taken, Independent
    <3> HIDE DEF f
    <3>4. f[0] \in Int /\ f[1] \in Int
      BY <3>1, <3>3 DEF Players
    <3>5. SumFunctionOnSet(f, Players) = f[0] + f[1]
      BY <3>4, SumPlayers
    <3> QED BY <3>1, <3>2, <3>5 DEF f
  <2> QED BY <2>1
<1> HIDE DEF accts, inv, accts2, inv2, none
<1>5. BothBulk(s) = [acct |-> accts, inv |-> inv, offer |-> s.offer, active |-> none,
                     unit |-> s.unit]
  BY <1>0, <1>1, SlotShape DEF SlotState
<1>6. BothBulk(s) = [acct |-> accts2, inv |-> inv2, offer |-> s.offer, active |-> none,
                     unit |-> s.unit]
  BY <1>5, <1>3, <1>4
<1> QED BY <1>6 DEF accts2, inv2, none

\* Settling two independent orders in bulk keeps a slot sound.
LEMMA BothBulkSound ==
  ASSUME NEW s, SoundSlot(s), Independent(s)
  PROVE  SoundSlot(BothBulk(s))
<1> DEFINE t == BothBulk(s)
<1>1. s \in SlotState
  BY DEF SoundSlot
<1>2. t = [acct |-> [p \in Players |-> Settled(s, p).account],
           inv |-> [i \in Products |-> s.inv[i] + (Taken(s, 0, i) + Taken(s, 1, i))],
           offer |-> s.offer,
           active |-> [p \in Players |-> FALSE],
           unit |-> s.unit]
  BY BothBulkIs
<1> HIDE DEF t
<1>3. \A p \in Players : Sound(Settled(s, p).account) /\ Settled(s, p).supply \in Int
  BY SettledSound DEF Independent
<1>4. \A p \in Players : Sound(t.acct[p])
  BY <1>2, <1>3
<1>5. t.acct \in [Players -> Account]
  BY <1>2, <1>4 DEF Sound
<1>6. t.inv \in [Products -> Int]
  <2>1. ASSUME NEW i \in Products PROVE s.inv[i] + (Taken(s, 0, i) + Taken(s, 1, i)) \in Int
    <3>1. s.inv[i] \in Int
      BY <1>1, SlotShape
    <3>2. Taken(s, 0, i) \in Int /\ Taken(s, 1, i) \in Int
      BY <1>3 DEF Taken, Players
    <3> QED BY <3>1, <3>2
  <2> QED BY <1>2, <2>1
<1>7. t.active \in [Players -> BOOLEAN] /\ t.offer \in [Players -> Offer] /\ t.unit \in Nat
  BY <1>1, <1>2, SlotShape
<1>8. t = [acct |-> t.acct, inv |-> t.inv, offer |-> t.offer, active |-> t.active,
           unit |-> t.unit]
  BY <1>2
<1> QED BY <1>4, <1>5, <1>6, <1>7, <1>8 DEF SoundSlot, SlotState, t

\* The rest of the last order settled in bulk, field by field.
LEMMA AloneBulkIs ==
  ASSUME NEW s \in SlotState, NEW p \in Players
  PROVE  AloneBulk(s, p) =
           [acct |-> [s.acct EXCEPT ![p] = Remainder(s, p).account],
            inv |-> [s.inv EXCEPT ![s.offer[p].target] = @ + Remainder(s, p).supply],
            offer |-> s.offer,
            active |-> [q \in Players |-> FALSE],
            unit |-> s.unit]
<1> DEFINE b == Remainder(s, p)
<1>1. AloneBulk(s, p) = [s EXCEPT !.acct[p] = b.account,
                                  !.inv[s.offer[p].target] = @ + b.supply,
                                  !.active = [q \in Players |-> FALSE]]
  BY DEF AloneBulk, Remainder
<1> HIDE DEF b
<1> QED BY <1>1, SlotShape DEF SlotState, b

\* Settling the rest of the last order in bulk keeps a slot sound.
LEMMA AloneBulkSound ==
  ASSUME NEW s, SoundSlot(s), NEW p \in Players, Alone(s, p)
  PROVE  SoundSlot(AloneBulk(s, p))
<1> DEFINE t == AloneBulk(s, p)
           i == s.offer[p].target
<1>1. s \in SlotState /\ (\A q \in Players : Sound(s.acct[q]))
  BY DEF SoundSlot
<1>2. t = [acct |-> [s.acct EXCEPT ![p] = Remainder(s, p).account],
           inv |-> [s.inv EXCEPT ![i] = @ + Remainder(s, p).supply],
           offer |-> s.offer,
           active |-> [q \in Players |-> FALSE],
           unit |-> s.unit]
  BY <1>1, AloneBulkIs
<1> HIDE DEF t
<1>3. s.unit < s.offer[p].n /\ Bulkable(s.offer[p])
  BY DEF Alone, Served
<1>4. Sound(Remainder(s, p).account) /\ Remainder(s, p).supply \in Int
  BY <1>3, SettledSound
<1>5. s.acct \in [Players -> Account] /\ s.inv \in [Products -> Int]
  BY <1>1, SlotShape
<1>6. \A q \in Players : Sound(t.acct[q])
  BY <1>1, <1>2, <1>4, <1>5
<1>7. t.acct \in [Players -> Account]
  BY <1>2, <1>4, <1>5 DEF Sound
<1>8. t.inv \in [Products -> Int]
  <2>1. i \in Products => s.inv[i] + Remainder(s, p).supply \in Int
    BY <1>4, <1>5
  <2> QED BY <1>2, <1>5, <2>1
<1>9. t.active \in [Players -> BOOLEAN] /\ t.offer \in [Players -> Offer] /\ t.unit \in Nat
  BY <1>1, <1>2, SlotShape
<1>10. t = [acct |-> t.acct, inv |-> t.inv, offer |-> t.offer, active |-> t.active,
            unit |-> t.unit]
  BY <1>2
<1> QED BY <1>6, <1>7, <1>8, <1>9, <1>10 DEF SoundSlot, SlotState, t

\* At most one player is left alone.
LEMMA AloneOne ==
  ASSUME NEW s, NEW p \in Players, Alone(s, p)
  PROVE  (CHOOSE q \in Players : Alone(s, q)) = p
<1>1. \A q \in Players : Alone(s, q) => q = p
  BY DEF Alone, Other, Players
<1> QED BY <1>1

\* A round of the market's loop keeps a slot sound, whichever branch it takes.
LEMMA RoundSound ==
  ASSUME NEW s, SoundSlot(s)
  PROVE  SoundSlot(Round(s))
<1>1. CASE Independent(s)
  BY <1>1, BothBulkSound DEF Round
<1>2. CASE ~Independent(s) /\ \E p \in Players : Alone(s, p)
  <2>1. PICK p \in Players : Alone(s, p)
    BY <1>2
  <2>2. Round(s) = AloneBulk(s, p)
    BY <1>2, <2>1, AloneOne DEF Round
  <2> QED BY <2>1, <2>2, AloneBulkSound
<1>3. CASE ~Independent(s) /\ ~(\E p \in Players : Alone(s, p))
  BY <1>3, LockstepSound DEF Round
<1> QED BY <1>1, <1>2, <1>3

-----------------------------------------------------------------------------
(* The market from turn to turn.                                           *)

\* A slot is only open while slots are left, and a turn is only under way before the bound.
TurnUnderWay ==
  /\ phase # "units" => step < MaxStep
  /\ phase = "loop" => slot < MaxMarketOrders

\* MarketOK with what makes it inductive.
MarketInv == MarketOK /\ TurnUnderWay

\* The invariant's parts about the accounts are that the slot is sound.
LEMMA SlotOfMarket ==
  ASSUME MarketOK
  PROVE  SoundSlot(current)
BY DEF MarketOK, TypeOK, AccountsSound, SoundSlot, Sound, acct, SlotState

\* The other way round: a sound slot is what TypeOK and AccountsSound ask of the slot.
LEMMA SlotGivesAccounts ==
  ASSUME NEW s, SoundSlot(s), NEW p \in Players
  PROVE  /\ s.acct[p].money >= 0
         /\ \A i \in Items : s.acct[p].shed[i] >= 0
         /\ s.acct[p].shed_used = SumFunction(s.acct[p].shed)
         /\ s.acct[p].shed_used <= ShedCapacity
<1>1. Sound(s.acct[p])
  BY DEF SoundSlot
<1>2. \A i \in Items : s.acct[p].shed[i] \in Nat
  BY <1>1, SoundShed
<1> QED BY <1>1, <1>2 DEF Sound

\* Between slots only accounts and inventory matter.
LEMMA RestingSound ==
  ASSUME NEW accounts, NEW inv \in [Products -> Int], DOMAIN accounts = Players,
         accounts = [p \in Players |-> accounts[p]],
         \A p \in Players : Sound(accounts[p])
  PROVE  SoundSlot(Resting(accounts, inv)) /\ Resting(accounts, inv).inv = inv
<1>1. NoOffer \in Offer
  BY DEF NoOffer, Offer
<1>2. \A p \in Players : accounts[p] \in Account
  BY DEF Sound
<1>3. accounts \in [Players -> Account]
  BY <1>2
<1> QED BY <1>1, <1>3 DEF Resting, SoundSlot, SlotState

\* What the town takes is never negative.
LEMMA ConsumedNat ==
  ASSUME TypeOK, NEW i \in Products
  PROVE  Consumed(i) \in Nat
<1>1. CenterBuys(i) \in Nat
  BY DEF CenterBuys
<1>2. ShopsBuy(i) \in Nat
  <2> DEFINE f == [k \in 1..Len(shops) |-> shops[k][i]]
  <2>1. shops \in Seq(Demands) /\ Len(shops) \in Nat
    BY DEF TypeOK
  <2>2. \A k \in 1..Len(shops) : f[k] \in Nat
    <3> SUFFICES ASSUME NEW k \in 1..Len(shops) PROVE shops[k][i] \in Nat
      OBVIOUS
    <3>1. shops[k] \in Demands
      BY <2>1
    <3>2. shops[k] \in [Products -> Nat]
      BY <3>1, MarketAssumption
    <3> QED BY <3>2
  <2>3. IsFiniteSet(1..Len(shops))
    BY <2>1, FS_Interval
  <2>4. SumFunction(f) = SumFunctionOnSet(f, 1..Len(shops))
    BY DEF SumFunction
  <2>5. ShopsBuy(i) = IF step % ShopInterval = 0 THEN SumFunction(f) ELSE 0
    BY DEF ShopsBuy
  <2> HIDE DEF f
  <2>6. SumFunctionOnSet(f, 1..Len(shops)) \in Nat
    BY <2>2, <2>3, SumNat
  <2> QED BY <2>4, <2>5, <2>6
<1> QED BY <1>1, <1>2 DEF Consumed

\* The invariant holds initially.
LEMMA MarketInit ==
  Init => MarketInv
<1> SUFFICES ASSUME Init PROVE MarketInv
  OBVIOUS
<1>1. Sound(NewAccount)
  <2>1. NewAccount \in Account /\ NewAccount.money >= 0 /\ NewAccount.shed_used = 0
    BY MarketAssumption DEF NewAccount, Account
  <2>2. SumFunction(NewAccount.shed) = 0
    <3> DEFINE f == [i \in Items |-> 0]
    <3>1. NewAccount.shed = f /\ DOMAIN f = Items /\ \A i \in Items : f[i] = 0 /\ f[i] \in Nat
      BY DEF NewAccount
    <3> HIDE DEF f
    <3>2. SumFunctionOnSet(f, Items) = 0
      BY <3>1, SumNat, MarketAssumption
    <3> QED BY <3>1, <3>2 DEF SumFunction
  <2> QED BY <2>1, <2>2, MarketAssumption DEF Sound
<1> DEFINE accounts == [p \in Players |-> NewAccount]
<1>2. I0 \in [Products -> Int]
  BY MarketAssumption
<1>3. current = Resting(accounts, I0)
  BY DEF Init
<1>4. SoundSlot(current) /\ market_inventory = I0
  <2>1. DOMAIN accounts = Players /\ accounts = [p \in Players |-> accounts[p]]
        /\ \A p \in Players : Sound(accounts[p])
    BY <1>1
  <2> HIDE DEF accounts
  <2> QED BY <1>2, <1>3, <2>1, RestingSound DEF market_inventory
<1>5. AccountsSound
  BY <1>4, SlotGivesAccounts DEF AccountsSound, acct
<1>6. PostedPricesCurrent
  BY <1>4 DEF PostedPricesCurrent, Init
<1>7. TypeOK
  <2>1. \A i \in Products : Price(i, I0[i]) \in Nat \ {0}
    <3> SUFFICES ASSUME NEW i \in Products PROVE Price(i, I0[i]) \in Nat \ {0}
      OBVIOUS
    <3>1. I0[i] \in Int
      BY <1>2
    <3> QED BY <3>1, PriceFloor
  <2>2. market_prices \in [Products -> Nat \ {0}]
    BY <2>1 DEF Init
  <2>3. current \in SlotState
    BY <1>4 DEF SoundSlot
  <2>4. MaxStep \in Nat /\ MaxMarketOrders \in Nat /\ MaxShops \in Nat
    BY MarketAssumption
  <2>5. shops \in Seq(Demands) /\ Len(shops) = 0
    BY DEF Init
  <2> QED BY <2>2, <2>3, <2>4, <2>5 DEF TypeOK, Init
<1>8. TurnUnderWay
  BY DEF Init, TurnUnderWay
<1> QED BY <1>5, <1>6, <1>7, <1>8 DEF MarketInv, MarketOK

\* What a step that leaves prices, marks and shops alone has to show.
LEMMA SlotStep ==
  ASSUME MarketInv, SoundSlot(current'), TurnUnderWay',
         step' \in 0..MaxStep, phase' \in {"units", "market", "loop"},
         slot' \in 0..MaxMarketOrders,
         market_prices' \in [Products -> Nat \ {0}], market_dirty' \subseteq Products,
         shops' \in Seq(Demands), Len(shops') <= MaxShops,
         PostedPricesCurrent'
  PROVE  MarketInv'
<1>1. AccountsSound'
  BY SlotGivesAccounts DEF AccountsSound, acct
<1>2. TypeOK'
  BY DEF TypeOK, SoundSlot
<1> QED BY <1>1, <1>2 DEF MarketInv, MarketOK

\* The invariant is kept while the units act ...
LEMMA UnitsActKeeps ==
  ASSUME MarketInv, UnitsAct
  PROVE  MarketInv'
<1>1. SoundSlot(current) /\ TypeOK /\ PostedPricesCurrent
  BY SlotOfMarket DEF MarketInv, MarketOK
<1>2. SoundSlot(current') /\ market_inventory' = market_inventory
  <2>1. PICK p \in Players, i \in Items : \E k \in (-acct[p].shed[i])..Room(acct[p]) :
              current' = [current EXCEPT !.acct[p] = Shelved(@, i, k, 0)]
    BY DEF UnitsAct
  <2> DEFINE a == current.acct[p]
  <2>2. PICK k \in (-a.shed[i])..Room(a) :
              current' = [current EXCEPT !.acct[p] = Shelved(@, i, k, 0)]
    BY <2>1 DEF acct
  <2>3. Sound(a) /\ current \in SlotState
    BY <1>1 DEF SoundSlot
  <2>4. current' = [acct |-> [current.acct EXCEPT ![p] = Shelved(a, i, k, 0)],
                    inv |-> current.inv, offer |-> current.offer, active |-> current.active,
                    unit |-> current.unit]
    BY <2>2, <2>3 DEF SlotState
  <2>5. Sound(Shelved(a, i, k, 0))
    <3> HIDE DEF a
    <3>1. /\ a.shed[i] \in Nat /\ a.money \in Nat /\ a.shed_used \in Nat
          /\ Room(a) \in Nat /\ Room(a) = ShedCapacity - a.shed_used /\ ShedCapacity \in Nat
      BY <2>3, SoundShed, MarketAssumption
    <3>2. /\ k \in Int /\ a.shed[i] + k >= 0 /\ a.shed_used + k <= ShedCapacity
          /\ a.money + 0 >= 0 /\ 0 \in Int
      BY <3>1
    <3> QED BY <2>3, <3>2, ShelvedSound
  <2>6. [current.acct EXCEPT ![p] = Shelved(a, i, k, 0)] \in [Players -> Account]
    BY <2>3, <2>5 DEF SlotState, Sound
  <2>7. \A q \in Players : Sound(current.acct[q])
    BY <1>1 DEF SoundSlot
  <2>8. \A q \in Players : Sound(current'.acct[q])
    BY <2>3, <2>4, <2>5, <2>7 DEF SlotState
  <2> QED BY <2>3, <2>4, <2>6, <2>8 DEF SoundSlot, SlotState, market_inventory
<1>3. PostedPricesCurrent'
  BY <1>1, <1>2 DEF PostedPricesCurrent, UnitsAct
<1>4. TurnUnderWay'
  BY DEF TurnUnderWay, UnitsAct
<1> QED BY <1>1, <1>2, <1>3, <1>4, SlotStep DEF UnitsAct, TypeOK

\* ... when a slot is opened ...
LEMMA OpenSlotKeeps ==
  ASSUME MarketInv, OpenSlot
  PROVE  MarketInv'
<1>1. SoundSlot(current) /\ TypeOK /\ PostedPricesCurrent /\ TurnUnderWay
  BY SlotOfMarket DEF MarketInv, MarketOK
<1>2. PICK offer \in [Players -> Offers] : current' = Opened(acct, market_inventory, offer)
  BY DEF OpenSlot
<1>3. \A p \in Players : offer[p] \in Offer
  BY MarketAssumption
<1>4. \A p \in Players : Sound(AtOnce(acct[p], offer[p]))
  BY <1>1, <1>3, AtOnceSound DEF SoundSlot, acct
<1>5. SoundSlot(current') /\ market_inventory' = market_inventory
  <2>1. current' =
          [acct |-> [p \in Players |-> AtOnce(acct[p], offer[p])], inv |-> market_inventory,
           offer |-> offer,
           active |-> [p \in Players |-> offer[p].n > 0
                                         /\ offer[p].op \notin {"HIRE", "BUY_LAND"}],
           unit |-> 0]
    BY <1>2 DEF Opened
  <2>2. current'.acct \in [Players -> Account]
    BY <1>4, <2>1 DEF Sound
  <2>3. offer \in [Players -> Offer] /\ market_inventory \in [Products -> Int]
    BY <1>1, <1>3 DEF SoundSlot, SlotState, market_inventory
  <2> QED BY <1>4, <2>1, <2>2, <2>3 DEF SoundSlot, SlotState, market_inventory
<1>6. PostedPricesCurrent'
  BY <1>1, <1>5 DEF PostedPricesCurrent, OpenSlot
<1>7. TurnUnderWay'
  BY <1>1 DEF TurnUnderWay, OpenSlot
<1> QED BY <1>1, <1>5, <1>6, <1>7, SlotStep DEF OpenSlot, TypeOK

\* ... by a round of it ...
LEMMA PlayRoundKeeps ==
  ASSUME MarketInv, PlayRound
  PROVE  MarketInv'
<1>1. SoundSlot(current) /\ TypeOK /\ PostedPricesCurrent /\ TurnUnderWay
  BY SlotOfMarket DEF MarketInv, MarketOK
<1>2. SoundSlot(current') /\ market_inventory' = Round(current).inv
  BY <1>1, RoundSound DEF PlayRound, market_inventory
<1>3. PostedPricesCurrent'
  BY <1>1, <1>2 DEF PostedPricesCurrent, PlayRound
<1>4. TurnUnderWay'
  BY <1>1 DEF TurnUnderWay, PlayRound
<1>5. market_dirty' \subseteq Products
  BY <1>1 DEF PlayRound, TypeOK
<1> QED BY <1>1, <1>2, <1>3, <1>4, <1>5, SlotStep DEF PlayRound, TypeOK

\* ... when it is closed ...
LEMMA CloseSlotKeeps ==
  ASSUME MarketInv, CloseSlot
  PROVE  MarketInv'
<1>1. SoundSlot(current) /\ TypeOK /\ PostedPricesCurrent /\ TurnUnderWay
  BY SlotOfMarket DEF MarketInv, MarketOK
<1>2. current' = Resting(acct, market_inventory)
  BY DEF CloseSlot
<1>3. SoundSlot(current') /\ market_inventory' = market_inventory
  <2>1. acct \in [Players -> Account] /\ market_inventory \in [Products -> Int]
        /\ \A p \in Players : Sound(acct[p])
    BY <1>1 DEF SoundSlot, SlotState, acct, market_inventory
  <2>2. DOMAIN acct = Players /\ acct = [p \in Players |-> acct[p]]
    BY <2>1
  <2>3. SoundSlot(Resting(acct, market_inventory))
        /\ Resting(acct, market_inventory).inv = market_inventory
    BY <2>1, <2>2, RestingSound
  <2> QED BY <1>2, <2>3 DEF market_inventory
<1>4. PostedPricesCurrent'
  BY <1>1, <1>3 DEF PostedPricesCurrent, CloseSlot
<1>5. TurnUnderWay'
  BY <1>1 DEF TurnUnderWay, CloseSlot
<1>6. slot' \in 0..MaxMarketOrders
  BY <1>1, MarketAssumption DEF CloseSlot, TypeOK, TurnUnderWay
<1> QED BY <1>1, <1>3, <1>4, <1>5, <1>6, SlotStep DEF CloseSlot, TypeOK

\* ... and by the town, which posts the stale prices.
LEMMA TownTurnKeeps ==
  ASSUME MarketInv, TownTurn
  PROVE  MarketInv'
<1>1. SoundSlot(current) /\ TypeOK /\ PostedPricesCurrent /\ TurnUnderWay
  BY SlotOfMarket DEF MarketInv, MarketOK
<1> DEFINE inv == [i \in Products |-> market_inventory[i] - Consumed(i)]
           accounts == [p \in Players |-> [acct[p] EXCEPT !.hires = IF EndOfDay THEN 0 ELSE @]]
<1>2. /\ current' = Resting(accounts, inv)
      /\ market_prices' = [i \in Products |-> IF i \in Stale THEN Price(i, inv[i])
                                              ELSE market_prices[i]]
      /\ market_dirty' = {} /\ step' = step + 1 /\ phase' = "units" /\ slot' = 0
  BY DEF TownTurn
<1>3. market_inventory \in [Products -> Int] /\ \A p \in Players : Sound(acct[p])
  BY <1>1 DEF SoundSlot, SlotState, acct, market_inventory
<1>4. \A i \in Products : inv[i] \in Int /\ (i \notin Stale => inv[i] = market_inventory[i])
  <2> SUFFICES ASSUME NEW i \in Products
               PROVE  /\ market_inventory[i] - Consumed(i) \in Int
                      /\ i \notin Stale => market_inventory[i] - Consumed(i) = market_inventory[i]
    OBVIOUS
  <2>1. Consumed(i) \in Nat /\ market_inventory[i] \in Int
    BY <1>1, <1>3, ConsumedNat
  <2>2. i \notin Stale => ~(Consumed(i) > 0)
    BY DEF Stale
  <2> QED BY <2>1, <2>2
<1>5. \A p \in Players : Sound(accounts[p])
  <2> SUFFICES ASSUME NEW p \in Players PROVE Sound(accounts[p])
    OBVIOUS
  <2> DEFINE a == acct[p]
             b == [a EXCEPT !.hires = IF EndOfDay THEN 0 ELSE @]
  <2>1. Sound(a) /\ accounts[p] = b
    BY <1>3
  <2> HIDE DEF a, accounts
  <2>2. /\ b \in Account /\ b.money = a.money /\ b.shed = a.shed /\ b.shed_used = a.shed_used
    BY <2>1 DEF Sound, Account
  <2> QED BY <2>1, <2>2 DEF Sound
<1>6. SoundSlot(current') /\ market_inventory' = inv
  <2>1. DOMAIN accounts = Players /\ accounts = [p \in Players |-> accounts[p]]
    OBVIOUS
  <2>2. inv \in [Products -> Int]
    BY <1>4
  <2> HIDE DEF accounts, inv
  <2>3. SoundSlot(Resting(accounts, inv)) /\ Resting(accounts, inv).inv = inv
    BY <1>5, <2>1, <2>2, RestingSound
  <2> QED BY <1>2, <2>3 DEF market_inventory
<1> HIDE DEF accounts
<1>7. PostedPricesCurrent'
  <2> SUFFICES ASSUME NEW i \in Products
               PROVE  market_prices'[i] = Price(i, market_inventory'[i])
    BY DEF PostedPricesCurrent
  <2>1. CASE i \in Stale
    BY <1>2, <1>6, <2>1
  <2>2. CASE i \notin Stale
    <3>1. market_prices'[i] = market_prices[i] /\ i \notin market_dirty
      BY <1>2, <2>2 DEF Stale
    <3>2. market_inventory'[i] = market_inventory[i]
      BY <1>4, <1>6, <2>2
    <3> QED BY <1>1, <3>1, <3>2 DEF PostedPricesCurrent
  <2> QED BY <2>1, <2>2
<1>8. market_prices' \in [Products -> Nat \ {0}]
  <2>1. \A i \in Products : Price(i, inv[i]) \in Nat \ {0}
    <3> SUFFICES ASSUME NEW i \in Products PROVE Price(i, inv[i]) \in Nat \ {0}
      OBVIOUS
    <3>1. inv[i] \in Int
      BY <1>4
    <3> HIDE DEF inv
    <3> QED BY <3>1, PriceFloor
  <2> HIDE DEF inv
  <2> QED BY <1>1, <1>2, <2>1 DEF TypeOK
<1>9. shops' \in Seq(Demands) /\ Len(shops') <= MaxShops
  <2>1. shops \in Seq(Demands) /\ Len(shops) <= MaxShops /\ Len(shops) \in Nat /\ MaxShops \in Nat
    BY <1>1, MarketAssumption DEF TypeOK
  <2>2. CASE EndOfDay /\ ((step + 1) \div TurnsPerDay) % UnlockDays = 0 /\ Len(shops) < MaxShops
    <3>1. PICK d \in Demands : shops' = Append(shops, d)
      BY <2>2 DEF TownTurn
    <3> QED BY <2>1, <2>2, <3>1
  <2>3. CASE ~(EndOfDay /\ ((step + 1) \div TurnsPerDay) % UnlockDays = 0 /\ Len(shops) < MaxShops)
    BY <2>1, <2>3 DEF TownTurn
  <2> QED BY <2>2, <2>3
<1>10. step' \in 0..MaxStep
  BY <1>1, <1>2, MarketAssumption DEF TypeOK, TurnUnderWay, TownTurn
<1>11. TurnUnderWay'
  BY <1>2 DEF TurnUnderWay
<1>12. slot' \in 0..MaxMarketOrders /\ market_dirty' \subseteq Products
       /\ phase' \in {"units", "market", "loop"}
  BY <1>2, MarketAssumption
<1> QED BY <1>6, <1>7, <1>8, <1>9, <1>10, <1>11, <1>12, SlotStep

\* The invariant is inductive.
LEMMA MarketInductive ==
  MarketInv /\ [Next]_vars => MarketInv'
<1> SUFFICES ASSUME MarketInv, [Next]_vars PROVE MarketInv'
  OBVIOUS
<1>1. CASE UnitsAct
  BY <1>1, UnitsActKeeps
<1>2. CASE OpenSlot
  BY <1>2, OpenSlotKeeps
<1>3. CASE PlayRound
  BY <1>3, PlayRoundKeeps
<1>4. CASE CloseSlot
  BY <1>4, CloseSlotKeeps
<1>5. CASE TownTurn
  BY <1>5, TownTurnKeeps
<1>6. CASE UNCHANGED vars
  BY <1>6 DEF vars, MarketInv, MarketOK, TurnUnderWay, TypeOK, AccountsSound, acct,
              PostedPricesCurrent, market_inventory
<1> QED BY <1>1, <1>2, <1>3, <1>4, <1>5, <1>6 DEF Next, Rest

\* The invariant always holds.
LEMMA MarketAlways ==
  Spec => []MarketInv
BY MarketInit, MarketInductive, PTL DEF Spec

\* Nobody is ever overdrawn, the shed's running total is what lies in it and within its
\* capacity, and every product that is not marked dirty is posted at the price of the
\* present inventory - through lockstep, bulk settlements and the town's purchases
\* (apply_market_action, apply_market_bulk, refresh_prices, debug_assert_invariants).
THEOREM MarketHolds ==
  Spec => []MarketOK
<1>1. MarketInv => MarketOK
  BY DEF MarketInv
<1> QED BY <1>1, MarketAlways, PTL

-----------------------------------------------------------------------------
(* The seats.                                                              *)

\* There are two players, each other's other.
LEMMA OtherOther ==
  /\ 0 \in Players /\ 1 \in Players /\ Other(0) = 1 /\ Other(1) = 0
  /\ \A p \in Players : Other(p) \in Players /\ Other(Other(p)) = p /\ Other(p) # p
BY DEF Other, Players

\* A slot with its seats exchanged, field by field.
LEMMA SwappedIs ==
  ASSUME NEW s \in SlotState
  PROVE  /\ Swapped(s) = [acct |-> [p \in Players |-> s.acct[Other(p)]],
                          inv |-> s.inv,
                          offer |-> [p \in Players |-> s.offer[Other(p)]],
                          active |-> [p \in Players |-> s.active[Other(p)]],
                          unit |-> s.unit]
         /\ Swapped(s) \in SlotState
<1> DEFINE a == [p \in Players |-> s.acct[Other(p)]]
           o == [p \in Players |-> s.offer[Other(p)]]
           c == [p \in Players |-> s.active[Other(p)]]
<1>1. Swapped(s) = [s EXCEPT !.acct = a, !.offer = o, !.active = c]
  BY DEF Swapped
<1>2. a \in [Players -> Account] /\ o \in [Players -> Offer] /\ c \in [Players -> BOOLEAN]
  BY OtherOther DEF SlotState
<1> HIDE DEF a, o, c
<1>3. Swapped(s) = [acct |-> a, inv |-> s.inv, offer |-> o, active |-> c, unit |-> s.unit]
  BY <1>1 DEF SlotState
<1> QED BY <1>2, <1>3 DEF SlotState, a, o, c

\* Everything a round asks about a player is the same in the other seat.
LEMMA SwappedViews ==
  ASSUME NEW s, SoundSlot(s), NEW p \in Players
  PROVE  LET t == Swapped(s) IN
         /\ SoundSlot(t)
         /\ Served(t, p) = Served(s, Other(p))
         /\ Alone(t, p) = Alone(s, Other(p))
         /\ Able(t, p) = Able(s, Other(p))
         /\ Settled(t, p) = Settled(s, Other(p))
         /\ Remainder(t, p) = Remainder(s, Other(p))
         /\ QuoteOf(t, p) = QuoteOf(s, Other(p))
         /\ \A i : Moved(t, p, i) = Moved(s, Other(p), i) /\ Taken(t, p, i) = Taken(s, Other(p), i)
<1> DEFINE t == Swapped(s)
<1>1. s \in SlotState
  BY DEF SoundSlot
<1>2. /\ \A q \in Players : /\ t.acct[q] = s.acct[Other(q)] /\ t.offer[q] = s.offer[Other(q)]
                            /\ t.active[q] = s.active[Other(q)]
      /\ t.inv = s.inv /\ t.unit = s.unit /\ t \in SlotState
  BY <1>1, SwappedIs
<1> HIDE DEF t
<1>3. SoundSlot(t)
  BY <1>2, OtherOther DEF SoundSlot
<1>4. \A q \in Players : Served(t, q) = Served(s, Other(q))
  BY <1>2 DEF Served
<1>5. Other(p) \in Players
  BY OtherOther
<1>6. Alone(t, p) = Alone(s, Other(p))
  BY <1>2, <1>4, <1>5 DEF Alone
<1>7. QuoteOf(t, p) = QuoteOf(s, Other(p))
  BY <1>2 DEF QuoteOf
<1>8. Able(t, p) = Able(s, Other(p))
  BY <1>2, <1>4, <1>7 DEF Able
<1>9. Settled(t, p) = Settled(s, Other(p)) /\ Remainder(t, p) = Remainder(s, Other(p))
  BY <1>2 DEF Settled, Remainder
<1>10. \A i : Moved(t, p, i) = Moved(s, Other(p), i)
  BY <1>2, <1>7, <1>8 DEF Moved
<1>11. \A i : Taken(t, p, i) = Taken(s, Other(p), i)
  BY <1>2, <1>9 DEF Taken
<1> QED BY <1>3, <1>4, <1>6, <1>7, <1>8, <1>9, <1>10, <1>11 DEF t

\* Whether two orders are independent does not depend on the seats.
LEMMA SwappedIndependent ==
  ASSUME NEW s, SoundSlot(s)
  PROVE  Independent(Swapped(s)) = Independent(s)
<1>1. s \in SlotState
  BY DEF SoundSlot
<1> QED BY <1>1, SwappedIs, OtherOther DEF Independent, Players

\* A round in lockstep treats both seats alike ...
LEMMA LockstepSymmetric ==
  ASSUME NEW s, SoundSlot(s)
  PROVE  Lockstep(Swapped(s)) = Swapped(Lockstep(s))
<1> DEFINE t == Swapped(s)
           l == Lockstep(s)
<1>1. s \in SlotState /\ SoundSlot(l) /\ l \in SlotState
  BY LockstepSound DEF SoundSlot
<1>2. /\ t = [acct |-> [p \in Players |-> s.acct[Other(p)]],
              inv |-> s.inv,
              offer |-> [p \in Players |-> s.offer[Other(p)]],
              active |-> [p \in Players |-> s.active[Other(p)]],
              unit |-> s.unit]
      /\ t \in SlotState
  BY <1>1, SwappedIs
<1>3. \A p \in Players : /\ Able(t, p) = Able(s, Other(p))
                         /\ QuoteOf(t, p) = QuoteOf(s, Other(p))
                         /\ \A i : Moved(t, p, i) = Moved(s, Other(p), i)
  BY SwappedViews
<1>4. l = [acct |-> [p \in Players |-> IF Able(s, p)
                                       THEN Committed(s.acct[p], s.offer[p], QuoteOf(s, p))
                                       ELSE s.acct[p]],
           inv |-> [i \in Products |-> s.inv[i] + (Moved(s, 0, i) + Moved(s, 1, i))],
           offer |-> s.offer,
           active |-> [p \in Players |-> Able(s, p)],
           unit |-> s.unit + 1]
  BY <1>1, LockstepIs
<1>5. Lockstep(t) =
          [acct |-> [p \in Players |-> IF Able(t, p)
                                       THEN Committed(t.acct[p], t.offer[p], QuoteOf(t, p))
                                       ELSE t.acct[p]],
           inv |-> [i \in Products |-> t.inv[i] + (Moved(t, 0, i) + Moved(t, 1, i))],
           offer |-> t.offer,
           active |-> [p \in Players |-> Able(t, p)],
           unit |-> t.unit + 1]
  BY <1>2, LockstepIs
<1>6. Swapped(l) = [acct |-> [p \in Players |-> l.acct[Other(p)]],
                    inv |-> l.inv,
                    offer |-> [p \in Players |-> l.offer[Other(p)]],
                    active |-> [p \in Players |-> l.active[Other(p)]],
                    unit |-> l.unit]
  BY <1>1, SwappedIs
<1> HIDE DEF t, l
<1>7. Lockstep(t).acct = Swapped(l).acct
  <2> DEFINE c(p) == IF Able(s, p) THEN Committed(s.acct[p], s.offer[p], QuoteOf(s, p))
                     ELSE s.acct[p]
  <2>1. \A p \in Players : Other(p) \in Players
    BY OtherOther
  <2>2. Swapped(l).acct = [p \in Players |-> c(Other(p))]
    <3>1. \A p \in Players : l.acct[Other(p)] = c(Other(p))
      BY <1>4, <2>1
    <3>2. Swapped(l).acct = [p \in Players |-> l.acct[Other(p)]]
      BY <1>6
    <3> HIDE DEF c
    <3> QED BY <3>1, <3>2
  <2>3. \A p \in Players : t.acct[p] = s.acct[Other(p)] /\ t.offer[p] = s.offer[Other(p)]
    BY <1>2
  <2>4. \A p \in Players : Lockstep(t).acct[p] = c(Other(p))
    BY <1>3, <1>5, <2>3
  <2> HIDE DEF c
  <2>5. Lockstep(t).acct = [p \in Players |-> Lockstep(t).acct[p]]
    BY <1>5
  <2> QED BY <2>2, <2>4, <2>5
<1>8. Lockstep(t).inv = Swapped(l).inv
  <2>1. \A i \in Products : Moved(t, 0, i) = Moved(s, 1, i) /\ Moved(t, 1, i) = Moved(s, 0, i)
    BY <1>3, OtherOther
  <2>2. \A i \in Products : Moved(t, 0, i) + Moved(t, 1, i) = Moved(s, 0, i) + Moved(s, 1, i)
    BY <2>1, MovedInt
  <2>3. Lockstep(t).inv = [i \in Products |-> s.inv[i] + (Moved(t, 0, i) + Moved(t, 1, i))]
    BY <1>2, <1>5
  <2>4. Swapped(l).inv = [i \in Products |-> s.inv[i] + (Moved(s, 0, i) + Moved(s, 1, i))]
    BY <1>4, <1>6
  <2> QED BY <2>2, <2>3, <2>4
<1>9. Lockstep(t).offer = Swapped(l).offer /\ Lockstep(t).unit = Swapped(l).unit
  BY <1>2, <1>4, <1>5, <1>6
<1>10. Lockstep(t).active = Swapped(l).active
  <2>1. \A p \in Players : Other(p) \in Players
    BY OtherOther
  <2>2. Swapped(l).active = [p \in Players |-> Able(s, Other(p))]
    <3>1. \A p \in Players : l.active[Other(p)] = Able(s, Other(p))
      BY <1>4, <2>1
    <3>2. Swapped(l).active = [p \in Players |-> l.active[Other(p)]]
      BY <1>6
    <3> QED BY <3>1, <3>2
  <2> QED BY <1>3, <1>5, <2>2
<1>11. Lockstep(t) = Swapped(l)
  <2> DEFINE x == Lockstep(t)
             y == Swapped(l)
  <2>1. x = [acct |-> x.acct, inv |-> x.inv, offer |-> x.offer, active |-> x.active, unit |-> x.unit]
    BY <1>5
  <2>2. y = [acct |-> y.acct, inv |-> y.inv, offer |-> y.offer, active |-> y.active, unit |-> y.unit]
    BY <1>6
  <2>3. /\ x.acct = y.acct /\ x.inv = y.inv /\ x.offer = y.offer /\ x.active = y.active
        /\ x.unit = y.unit
    BY <1>7, <1>8, <1>9, <1>10
  <2> HIDE DEF x, y
  <2>4. x = y
    BY <2>1, <2>2, <2>3
  <2> QED BY <2>4 DEF x, y
<1> QED BY <1>11 DEF t, l

\* ... so do settling both orders in bulk ...
LEMMA BothBulkSymmetric ==
  ASSUME NEW s, SoundSlot(s), Independent(s)
  PROVE  BothBulk(Swapped(s)) = Swapped(BothBulk(s))
<1> DEFINE t == Swapped(s)
           l == BothBulk(s)
<1>1. s \in SlotState /\ l \in SlotState
  BY BothBulkSound DEF SoundSlot
<1>2. /\ t \in SlotState /\ t.inv = s.inv /\ t.unit = s.unit
      /\ t.offer = [p \in Players |-> s.offer[Other(p)]]
  BY <1>1, SwappedIs
<1>3. \A p \in Players : /\ Settled(t, p) = Settled(s, Other(p))
                         /\ \A i : Taken(t, p, i) = Taken(s, Other(p), i)
  BY SwappedViews
<1>4. SoundSlot(t) /\ Independent(t)
  <2>1. SoundSlot(t)
    BY SwappedViews, OtherOther
  <2> QED BY <2>1, SwappedIndependent
<1>5. l = [acct |-> [p \in Players |-> Settled(s, p).account],
           inv |-> [i \in Products |-> s.inv[i] + (Taken(s, 0, i) + Taken(s, 1, i))],
           offer |-> s.offer, active |-> [p \in Players |-> FALSE], unit |-> s.unit]
  BY BothBulkIs
<1>6. BothBulk(t) =
          [acct |-> [p \in Players |-> Settled(t, p).account],
           inv |-> [i \in Products |-> t.inv[i] + (Taken(t, 0, i) + Taken(t, 1, i))],
           offer |-> t.offer, active |-> [p \in Players |-> FALSE], unit |-> t.unit]
  BY <1>4, BothBulkIs
<1>7. Swapped(l) = [acct |-> [p \in Players |-> l.acct[Other(p)]],
                    inv |-> l.inv,
                    offer |-> [p \in Players |-> l.offer[Other(p)]],
                    active |-> [p \in Players |-> l.active[Other(p)]],
                    unit |-> l.unit]
  BY <1>1, SwappedIs
<1>8. \A p \in Players : Settled(s, p).supply \in Int
  BY SettledSound DEF Independent
<1> HIDE DEF t, l
<1>9. \A p \in Players : Other(p) \in Players
  BY OtherOther
<1>10. BothBulk(t).acct = Swapped(l).acct /\ BothBulk(t).active = Swapped(l).active
  <2>1. Swapped(l).acct = [p \in Players |-> Settled(s, Other(p)).account]
    <3>1. \A p \in Players : l.acct[Other(p)] = Settled(s, Other(p)).account
      BY <1>5, <1>9
    <3>2. Swapped(l).acct = [p \in Players |-> l.acct[Other(p)]]
      BY <1>7
    <3> QED BY <3>1, <3>2
  <2>2. BothBulk(t).acct = [p \in Players |-> Settled(s, Other(p)).account]
    BY <1>3, <1>6
  <2>3. Swapped(l).active = [p \in Players |-> FALSE]
    <3>1. \A p \in Players : l.active[Other(p)] = FALSE
      BY <1>5, <1>9
    <3>2. Swapped(l).active = [p \in Players |-> l.active[Other(p)]]
      BY <1>7
    <3> QED BY <3>1, <3>2
  <2> QED BY <1>6, <2>1, <2>2, <2>3
<1>11. BothBulk(t).inv = Swapped(l).inv
  <2>1. \A i \in Products : Taken(t, 0, i) = Taken(s, 1, i) /\ Taken(t, 1, i) = Taken(s, 0, i)
    BY <1>3, OtherOther
  <2>2. \A i \in Products : Taken(s, 0, i) \in Int /\ Taken(s, 1, i) \in Int
    BY <1>8 DEF Taken, Players
  <2>3. \A i \in Products : Taken(t, 0, i) + Taken(t, 1, i) = Taken(s, 0, i) + Taken(s, 1, i)
    BY <2>1, <2>2
  <2>4. BothBulk(t).inv = [i \in Products |-> s.inv[i] + (Taken(t, 0, i) + Taken(t, 1, i))]
    BY <1>2, <1>6
  <2>5. Swapped(l).inv = [i \in Products |-> s.inv[i] + (Taken(s, 0, i) + Taken(s, 1, i))]
    BY <1>5, <1>7
  <2> QED BY <2>3, <2>4, <2>5
<1>12. BothBulk(t).offer = Swapped(l).offer /\ BothBulk(t).unit = Swapped(l).unit
  BY <1>2, <1>5, <1>6, <1>7
<1>13. BothBulk(t) = Swapped(l)
  <2> DEFINE x == BothBulk(t)
             y == Swapped(l)
  <2>1. x = [acct |-> x.acct, inv |-> x.inv, offer |-> x.offer, active |-> x.active, unit |-> x.unit]
    BY <1>6
  <2>2. y = [acct |-> y.acct, inv |-> y.inv, offer |-> y.offer, active |-> y.active, unit |-> y.unit]
    BY <1>7
  <2>3. /\ x.acct = y.acct /\ x.inv = y.inv /\ x.offer = y.offer /\ x.active = y.active
        /\ x.unit = y.unit
    BY <1>10, <1>11, <1>12
  <2> HIDE DEF x, y
  <2>4. x = y
    BY <2>1, <2>2, <2>3
  <2> QED BY <2>4 DEF x, y
<1> QED BY <1>13 DEF t, l

\* ... settling the rest of one order ...
LEMMA AloneBulkSymmetric ==
  ASSUME NEW s, SoundSlot(s), NEW p \in Players, Alone(s, p)
  PROVE  AloneBulk(Swapped(s), Other(p)) = Swapped(AloneBulk(s, p))
<1> DEFINE t == Swapped(s)
           q == Other(p)
           l == AloneBulk(s, p)
<1>1. s \in SlotState /\ l \in SlotState
  BY AloneBulkSound DEF SoundSlot
<1>2. t = [acct |-> [r \in Players |-> s.acct[Other(r)]],
           inv |-> s.inv,
           offer |-> [r \in Players |-> s.offer[Other(r)]],
           active |-> [r \in Players |-> s.active[Other(r)]],
           unit |-> s.unit]
      /\ t \in SlotState
  BY <1>1, SwappedIs
<1>3. q \in Players /\ Other(q) = p /\ \A r \in Players : (r = q) <=> (Other(r) = p)
  BY DEF Players, Other
<1>4. Remainder(t, q) = Remainder(s, p)
  BY <1>3, SwappedViews
<1>5. l = [acct |-> [s.acct EXCEPT ![p] = Remainder(s, p).account],
           inv |-> [s.inv EXCEPT ![s.offer[p].target] = @ + Remainder(s, p).supply],
           offer |-> s.offer,
           active |-> [r \in Players |-> FALSE],
           unit |-> s.unit]
  BY <1>1, AloneBulkIs
<1>6. AloneBulk(t, q) =
          [acct |-> [t.acct EXCEPT ![q] = Remainder(t, q).account],
           inv |-> [t.inv EXCEPT ![t.offer[q].target] = @ + Remainder(t, q).supply],
           offer |-> t.offer,
           active |-> [r \in Players |-> FALSE],
           unit |-> t.unit]
  BY <1>2, <1>3, AloneBulkIs
<1>7. Swapped(l) = [acct |-> [r \in Players |-> l.acct[Other(r)]],
                    inv |-> l.inv,
                    offer |-> [r \in Players |-> l.offer[Other(r)]],
                    active |-> [r \in Players |-> l.active[Other(r)]],
                    unit |-> l.unit]
  BY <1>1, SwappedIs
<1> HIDE DEF t, q, l
<1>8. AloneBulk(t, q).acct = Swapped(l).acct
  <2>1. AloneBulk(t, q).acct = [r \in Players |-> IF r = q THEN Remainder(s, p).account
                                                  ELSE s.acct[Other(r)]]
    BY <1>2, <1>4, <1>6
  <2>2. Swapped(l).acct = [r \in Players |-> IF Other(r) = p THEN Remainder(s, p).account
                                             ELSE s.acct[Other(r)]]
    <3>1. s.acct \in [Players -> Account] /\ \A r \in Players : Other(r) \in Players
      BY <1>1, OtherOther DEF SlotState
    <3> QED BY <1>5, <1>7, <3>1
  <2> QED BY <1>3, <2>1, <2>2
<1>9. AloneBulk(t, q).inv = Swapped(l).inv
  <2>1. t.offer[q].target = s.offer[p].target /\ t.inv = s.inv
    BY <1>2, <1>3
  <2> QED BY <1>4, <1>5, <1>6, <1>7, <2>1
<1>10. AloneBulk(t, q).offer = Swapped(l).offer /\ AloneBulk(t, q).unit = Swapped(l).unit
  BY <1>2, <1>5, <1>6, <1>7
<1>11. AloneBulk(t, q).active = Swapped(l).active
  <2>1. \A r \in Players : Other(r) \in Players
    BY OtherOther
  <2>2. Swapped(l).active = [r \in Players |-> FALSE]
    <3>1. \A r \in Players : l.active[Other(r)] = FALSE
      BY <1>5, <2>1
    <3>2. Swapped(l).active = [r \in Players |-> l.active[Other(r)]]
      BY <1>7
    <3> QED BY <3>1, <3>2
  <2> QED BY <1>6, <2>2
<1>12. AloneBulk(t, q) = Swapped(l)
  <2> DEFINE x == AloneBulk(t, q)
             y == Swapped(l)
  <2>1. x = [acct |-> x.acct, inv |-> x.inv, offer |-> x.offer, active |-> x.active, unit |-> x.unit]
    BY <1>6
  <2>2. y = [acct |-> y.acct, inv |-> y.inv, offer |-> y.offer, active |-> y.active, unit |-> y.unit]
    BY <1>7
  <2>3. /\ x.acct = y.acct /\ x.inv = y.inv /\ x.offer = y.offer /\ x.active = y.active
        /\ x.unit = y.unit
    BY <1>8, <1>9, <1>10, <1>11
  <2> HIDE DEF x, y
  <2>4. x = y
    BY <2>1, <2>2, <2>3
  <2> QED BY <2>4 DEF x, y
<1> QED BY <1>12 DEF t, q, l

\* ... and a round of the loop.
LEMMA RoundSymmetric ==
  ASSUME NEW s, SoundSlot(s)
  PROVE  Round(Swapped(s)) = Swapped(Round(s))
<1>1. \A p \in Players : Alone(Swapped(s), p) = Alone(s, Other(p))
  BY SwappedViews
<1>2. CASE Independent(s)
  BY <1>2, SwappedIndependent, BothBulkSymmetric DEF Round
<1>3. CASE ~Independent(s) /\ \E p \in Players : Alone(s, p)
  <2>1. PICK p \in Players : Alone(s, p)
    BY <1>3
  <2>2. Round(s) = AloneBulk(s, p)
    BY <1>3, <2>1, AloneOne DEF Round
  <2>3. Other(p) \in Players /\ Alone(Swapped(s), Other(p))
    BY <1>1, <2>1, OtherOther
  <2>4. Round(Swapped(s)) = AloneBulk(Swapped(s), Other(p))
    BY <1>3, <2>3, AloneOne, SwappedIndependent DEF Round
  <2> QED BY <2>1, <2>2, <2>4, AloneBulkSymmetric
<1>4. CASE ~Independent(s) /\ ~(\E p \in Players : Alone(s, p))
  <2>1. ~(\E p \in Players : Alone(Swapped(s), p))
    BY <1>1, <1>4, OtherOther
  <2> QED BY <1>4, <2>1, SwappedIndependent, LockstepSymmetric DEF Round
<1> QED BY <1>2, <1>3, <1>4

-----------------------------------------------------------------------------
(* Round trips.                                                            *)

\* The first of k + 1 units may be paid first: the others cost what k units cost after it.
LEMMA BuyCostFirst ==
  ASSUME NEW i \in Products, NEW k \in Nat
  PROVE  \A m \in Int : BuyCost(i, m, k + 1) = Price(i, m - 1) + BuyCost(i, m - 1, k)
<1> DEFINE T == {n \in Nat : \A m \in Int :
                    BuyCost(i, m, n + 1) = Price(i, m - 1) + BuyCost(i, m - 1, n)}
<1>1. 0 \in T
  <2> SUFFICES ASSUME NEW m \in Int
               PROVE  BuyCost(i, m, 0 + 1) = Price(i, m - 1) + BuyCost(i, m - 1, 0)
    OBVIOUS
  <2>1. /\ BuyCost(i, m, 0) = 0
        /\ BuyCost(i, m, 0 + 1) = BuyCost(i, m, 0) + Price(i, m - (0 + 1))
    BY BuyCostNext
  <2>2. BuyCost(i, m - 1, 0) = 0 /\ m - (0 + 1) = m - 1 /\ Price(i, m - 1) \in Int
    BY BuyCostNext, PriceFloor
  <2> QED BY <2>1, <2>2
<1>2. ASSUME NEW n \in T PROVE n + 1 \in T
  <2> SUFFICES ASSUME NEW m \in Int
               PROVE  BuyCost(i, m, (n + 1) + 1) = Price(i, m - 1) + BuyCost(i, m - 1, n + 1)
    OBVIOUS
  <2>1. BuyCost(i, m, (n + 1) + 1) = BuyCost(i, m, n + 1) + Price(i, m - ((n + 1) + 1))
    BY BuyCostNext
  <2>2. BuyCost(i, m, n + 1) = Price(i, m - 1) + BuyCost(i, m - 1, n)
    OBVIOUS
  <2>3. m - 1 \in Int /\ n \in Nat
    OBVIOUS
  <2>4. BuyCost(i, m - 1, n + 1) = BuyCost(i, m - 1, n) + Price(i, (m - 1) - (n + 1))
    BY <2>3, BuyCostNext
  <2>5. m - ((n + 1) + 1) = (m - 1) - (n + 1) /\ (m - 1) - (n + 1) \in Int
    OBVIOUS
  <2>6. /\ BuyCost(i, m - 1, n) \in Int /\ Price(i, m - 1) \in Int
        /\ Price(i, (m - 1) - (n + 1)) \in Int
    BY <2>3, <2>5, BuyCostNext, PriceFloor
  <2> QED BY <2>1, <2>2, <2>4, <2>5, <2>6
<1> HIDE DEF T
<1>3. T = Nat
  BY <1>1, <1>2, Induction DEF T
<1> QED BY <1>3 DEF T

\* What k units cost is what they fetch when they are sold back.
LEMMA SoldBack ==
  ASSUME NEW i \in Products, NEW k \in Nat
  PROVE  \A m \in Int : SellRevenue(i, m - k, k) = BuyCost(i, m, k)
<1> DEFINE T == {n \in Nat : \A m \in Int : SellRevenue(i, m - n, n) = BuyCost(i, m, n)}
<1>1. 0 \in T
  <2> SUFFICES ASSUME NEW m \in Int PROVE SellRevenue(i, m - 0, 0) = BuyCost(i, m, 0)
    OBVIOUS
  <2> QED BY BuyCostNext, SellRevenueNext
<1>2. ASSUME NEW n \in T PROVE n + 1 \in T
  <2> SUFFICES ASSUME NEW m \in Int
               PROVE  SellRevenue(i, m - (n + 1), n + 1) = BuyCost(i, m, n + 1)
    OBVIOUS
  <2>1. m - (n + 1) \in Int /\ n \in Nat /\ m - 1 \in Int /\ (m - 1) - n = m - (n + 1)
        /\ (m - (n + 1)) + n = m - 1
    OBVIOUS
  <2>2. SellRevenue(i, m - (n + 1), n + 1)
          = SellRevenue(i, m - (n + 1), n) + Price(i, (m - (n + 1)) + n)
    BY <2>1, SellRevenueNext
  <2>3. SellRevenue(i, (m - 1) - n, n) = BuyCost(i, m - 1, n)
    BY <2>1
  <2>4. BuyCost(i, m, n + 1) = Price(i, m - 1) + BuyCost(i, m - 1, n)
    BY <2>1, BuyCostFirst
  <2>5. Price(i, m - 1) \in Int /\ BuyCost(i, m - 1, n) \in Int
    BY <2>1, PriceFloor, BuyCostNext
  <2> QED BY <2>1, <2>2, <2>3, <2>4, <2>5
<1> HIDE DEF T
<1>3. T = Nat
  BY <1>1, <1>2, Induction DEF T
<1> QED BY <1>3 DEF T

\* An account in which a shelf may be overdrawn for a moment.
Ledger == [money: Int, seeds: [Crops -> Nat], shed: [Items -> Int], shed_used: Int,
           hires: Nat, lands: 0..3]

\* Putting goods on a shelf touches the shelf, the running total and the purse.
LEMMA ShelvedIs ==
  ASSUME NEW a \in Ledger, NEW i \in Items, NEW k \in Int, NEW dollars \in Int
  PROVE  /\ Shelved(a, i, k, dollars) \in Ledger
         /\ Shelved(a, i, k, dollars).money = a.money + dollars
         /\ Shelved(a, i, k, dollars).shed = [a.shed EXCEPT ![i] = @ + k]
         /\ Shelved(a, i, k, dollars).shed_used = a.shed_used + k
         /\ Shelved(a, i, k, dollars).seeds = a.seeds
         /\ Shelved(a, i, k, dollars).hires = a.hires
         /\ Shelved(a, i, k, dollars).lands = a.lands
<1>1. a.shed \in [Items -> Int] /\ a.money + dollars \in Int /\ a.shed_used + k \in Int
  BY DEF Ledger
<1>2. a.shed[i] + k \in Int
  BY <1>1
<1>3. [a.shed EXCEPT ![i] = @ + k] \in [Items -> Int]
  BY <1>1, <1>2
<1>4. Shelved(a, i, k, dollars) \in Ledger
  BY <1>1, <1>3 DEF Shelved, Ledger
<1> QED BY <1>4 DEF Shelved, Ledger

\* Goods put on a shelf and taken off it again, for the same money, leave the account.
LEMMA ShelvedBack ==
  ASSUME NEW a, Sound(a), NEW i \in Items, NEW k \in Int, NEW dollars \in Int
  PROVE  Shelved(Shelved(a, i, k, -dollars), i, -k, dollars) = a
<1> DEFINE b == Shelved(a, i, k, -dollars)
           c == Shelved(b, i, -k, dollars)
<1>1. a \in Ledger /\ a.shed \in [Items -> Int] /\ a.money \in Int /\ a.shed_used \in Int
  BY DEF Sound, Account, Ledger
<1>2. -k \in Int /\ -dollars \in Int
  OBVIOUS
<1>3. /\ b \in Ledger /\ b.money = a.money + (-dollars)
      /\ b.shed = [a.shed EXCEPT ![i] = @ + k] /\ b.shed_used = a.shed_used + k
      /\ b.seeds = a.seeds /\ b.hires = a.hires /\ b.lands = a.lands
  BY <1>1, <1>2, ShelvedIs
<1> HIDE DEF b
<1>4. /\ c \in Ledger /\ c.money = b.money + dollars
      /\ c.shed = [b.shed EXCEPT ![i] = @ + (-k)] /\ c.shed_used = b.shed_used + (-k)
      /\ c.seeds = b.seeds /\ c.hires = b.hires /\ c.lands = b.lands
  BY <1>2, <1>3, ShelvedIs
<1> HIDE DEF c
<1>5. c.shed = a.shed
  <2>1. \A j \in Items : c.shed[j] = a.shed[j]
    BY <1>1, <1>3, <1>4
  <2>2. c.shed \in [Items -> Int]
    BY <1>4 DEF Ledger
  <2> QED BY <1>1, <2>1, <2>2
<1>6. c.money = a.money /\ c.shed_used = a.shed_used
  BY <1>1, <1>3, <1>4
<1>7. c.seeds = a.seeds /\ c.hires = a.hires /\ c.lands = a.lands
  BY <1>3, <1>4
<1>8. c = a
  BY <1>1, <1>4, <1>5, <1>6, <1>7 DEF Ledger
<1> QED BY <1>8 DEF c, b

\* The account after n units of i were bought and all of them sold again.
TradedBack(a, i, n, inv) ==
  LET bought == Bulk(a, [op |-> "BUY_PRODUCT", target |-> i, n |-> n], n, inv)
      k      == bought.account.shed[i] - a.shed[i]
      sold   == Bulk(bought.account, [op |-> "SELL", target |-> i, n |-> k], k,
                     [inv EXCEPT ![i] = @ + bought.supply])
  IN  sold.account

\* It is the account before.
LEMMA RoundTrip ==
  ASSUME NEW a, Sound(a), NEW i \in Buyable, NEW n \in Nat, NEW inv \in [Products -> Int]
  PROVE  TradedBack(a, i, n, inv) = a
<1> DEFINE m == inv[i]
           o == [op |-> "BUY_PRODUCT", target |-> i, n |-> n]
           bought == Bulk(a, o, n, inv)
           b == bought.account
           q == Bought(a, i, n, m)
           k == b.shed[i] - a.shed[i]
           u == [op |-> "SELL", target |-> i, n |-> k]
           inv2 == [inv EXCEPT ![i] = @ + bought.supply]
           cost == BuyCost(i, m, q)
<1>1. i \in Products /\ i \in Items /\ m \in Int
  BY MarketAssumption DEF Items
<1>2. o \in Offer /\ o.op = "BUY_PRODUCT" /\ o.target = i /\ Bulkable(o)
  BY DEF Offer, Bulkable
<1>3. bought = [account |-> Shelved(a, i, q, -cost), supply |-> -q]
  BY <1>2, BulkBuys
<1>4. q \in Nat
  BY <1>1, BoughtMost
<1>5. Sound(b)
  BY <1>2, BulkSound
<1> HIDE DEF o, q, bought
<1>6. a.shed \in [Items -> Nat] /\ a.shed[i] \in Nat
  BY <1>1 DEF Sound, Account
<1>7. k = q
  <2>1. b.shed = [a.shed EXCEPT ![i] = @ + q]
    BY <1>3 DEF Shelved, Sound, Account
  <2> QED BY <1>1, <1>4, <1>6, <2>1
<1>8. u \in Offer /\ u.op = "SELL" /\ u.target = i
  BY <1>1, <1>4, <1>7 DEF Offer
<1>9. k \in Nat /\ k <= b.shed[i] /\ b.shed[i] \in Nat
  BY <1>1, <1>4, <1>5, <1>6, <1>7, SoundShed
<1>10. inv2[i] = m - q
  BY <1>1, <1>3, <1>4
<1> HIDE DEF u, inv2, b, k
<1>11. Bulk(b, u, k, inv2).account = Shelved(b, i, -k, SellRevenue(i, inv2[i], k))
  BY <1>5, <1>8, <1>9, BulkSells
<1>12. SellRevenue(i, m - q, q) = cost
  BY <1>1, <1>4, SoldBack
<1>13. cost \in Int
  BY <1>1, <1>4, BuyCostNext
<1> HIDE DEF cost, m
<1>14. b = Shelved(a, i, q, -cost)
  BY <1>3 DEF b
<1>15. Bulk(b, u, k, inv2).account = Shelved(Shelved(a, i, q, -cost), i, -q, cost)
  BY <1>7, <1>10, <1>11, <1>12, <1>14
<1>16. Bulk(b, u, k, inv2).account = a
  BY <1>1, <1>4, <1>13, <1>15, ShelvedBack
<1> QED BY <1>16 DEF b, u, k, inv2, bought, o, TradedBack

\* With the seats swapped a round ends as the same round with the seats swapped, and buying
\* and selling back the same goods gains nothing (apply_market_action quotes both players
\* before either commits; apply_market_bulk; MECHANICS.md:202, 383 and 616 ff.).
THEOREM TradeIsFair ==
  Spec => []TradeFair
<1>1. MarketInv => TradeFair
  <2> SUFFICES ASSUME MarketInv PROVE TradeFair
    OBVIOUS
  <2>1. SoundSlot(current)
    BY SlotOfMarket DEF MarketInv
  <2>2. SeatsSymmetric
    BY <2>1, RoundSymmetric DEF SeatsSymmetric
  <2>3. RoundTripNeverGains
    <3> SUFFICES ASSUME NEW p \in Players, NEW i \in Buyable, NEW n \in 1..ShedCapacity
                 PROVE  TradedBack(acct[p], i, n, market_inventory) = acct[p]
      BY DEF RoundTripNeverGains, TradedBack
    <3>1. Sound(acct[p]) /\ market_inventory \in [Products -> Int]
      BY <2>1 DEF SoundSlot, SlotState, acct, market_inventory
    <3>2. n \in Nat
      OBVIOUS
    <3> QED BY <3>1, <3>2, RoundTrip
  <2> QED BY <2>2, <2>3 DEF TradeFair
<1> QED BY <1>1, MarketAlways, PTL

\* Both at once: the books stay right through every slot of every turn, and neither a seat
\* nor a round trip ever pays (apply_market_action, apply_market_bulk, refresh_prices).
THEOREM MarketIsSound ==
  Spec => []MarketSound
<1>1. MarketOK /\ TradeFair => MarketSound
  BY DEF MarketSound
<1> QED BY <1>1, MarketHolds, TradeIsFair, PTL

-----------------------------------------------------------------------------
(* Bulk settlements give what trading unit by unit gives.                  *)

\* The first unit sold, then the others from the inventory it leaves.
LEMMA SellRevenueFirst ==
  ASSUME NEW i \in Products, NEW m \in Int, NEW k \in Nat
  PROVE  SellRevenue(i, m, k + 1) = Price(i, m) + SellRevenue(i, m + 1, k)
<1> DEFINE top == m + (k + 1)
<1>1. /\ top \in Int /\ k + 1 \in Nat /\ top - (k + 1) = m /\ top - k = m + 1
  OBVIOUS
<1> HIDE DEF top
<1>2. SellRevenue(i, top - (k + 1), k + 1) = BuyCost(i, top, k + 1)
  BY <1>1, SoldBack
<1>3. SellRevenue(i, top - k, k) = BuyCost(i, top, k)
  BY <1>1, SoldBack
<1>4. BuyCost(i, top, k + 1) = BuyCost(i, top, k) + Price(i, top - (k + 1))
  BY <1>1, BuyCostNext
<1>5. BuyCost(i, top, k) \in Int /\ Price(i, m) \in Int
  BY <1>1, BuyCostNext, PriceFloor
<1>6. SellRevenue(i, m, k + 1) = SellRevenue(i, m + 1, k) + Price(i, m)
  BY <1>1, <1>2, <1>3, <1>4, Zenon
<1> QED BY <1>1, <1>3, <1>5, <1>6

\* The same for what a sale adds to the supply.
LEMMA SellSupplyFirst ==
  ASSUME NEW i \in Products, NEW m \in Int, NEW k \in Nat
  PROVE  SellSupply(i, m, k + 1)
           = (IF Price(i, m) > 1 THEN 1 ELSE 0) + SellSupply(i, m + 1, k)
<1> DEFINE up(n) == IF Price(i, n) > 1 THEN 1 ELSE 0
           T == {n \in Nat : SellSupply(i, m, n + 1) = up(m) + SellSupply(i, m + 1, n)}
<1>1. \A n : up(n) \in Nat
  OBVIOUS
<1>2. \A n \in Nat : \A l \in Int : /\ SellSupply(i, l, 0) = 0 /\ SellSupply(i, l, n) \in Nat
                        /\ SellSupply(i, l, n + 1) = SellSupply(i, l, n) + up(l + n)
  BY SellSupplyNext
<1> HIDE DEF up
<1>3. 0 \in T
  <2>1. /\ 0 \in Nat /\ m + 0 = m /\ m + 1 \in Int
    OBVIOUS
  <2>2. SellSupply(i, m, 0) = 0 /\ SellSupply(i, m + 1, 0) = 0
    BY <1>2, <2>1
  <2>3. SellSupply(i, m, 0 + 1) = SellSupply(i, m, 0) + up(m + 0)
    BY <1>2, <2>1
  <2> QED BY <1>1, <2>1, <2>2, <2>3
<1>4. ASSUME NEW n \in T PROVE n + 1 \in T
  <2>1. n \in Nat /\ n + 1 \in Nat /\ m + 1 \in Int /\ m + (n + 1) = (m + 1) + n
    OBVIOUS
  <2>2. /\ SellSupply(i, m, (n + 1) + 1) = SellSupply(i, m, n + 1) + up(m + (n + 1))
        /\ SellSupply(i, m + 1, n + 1) = SellSupply(i, m + 1, n) + up((m + 1) + n)
        /\ SellSupply(i, m + 1, n) \in Nat
    BY <1>2, <2>1
  <2>3. SellSupply(i, m, n + 1) = up(m) + SellSupply(i, m + 1, n)
    OBVIOUS
  <2>4. SellSupply(i, m, (n + 1) + 1) = up(m) + SellSupply(i, m + 1, n + 1)
    BY <1>1, <2>1, <2>2, <2>3
  <2> QED BY <2>1, <2>4
<1> HIDE DEF T
<1>5. T = Nat
  <2>1. T \in SUBSET Nat
    BY DEF T
  <2> QED BY <1>3, <1>4, <2>1, Induction
<1> QED BY <1>5 DEF T, up

\* Prices do not rise with the inventory.
LEMMA PriceFalls ==
  ASSUME NEW i \in Products, NEW n \in Int
  PROVE  Price(i, n + 1) <= Price(i, n)
<1> DEFINE b == Base[i]
           s == Scarcity[i]
           g == Glut[i]
           z == I0[i]
           target(m) == IF m < z THEN b + s * (z - m) ELSE b - g * (m - z)
<1>1. b \in Nat /\ s \in Nat /\ g \in Nat /\ z \in Int
  BY MarketAssumption
<1>2. \A m : Price(i, m) = IF target(m) >= 1 THEN target(m) ELSE 1
  BY DEF Price
<1> HIDE DEF b, s, g, z
<1>3. target(n) \in Int /\ target(n + 1) \in Int /\ target(n + 1) <= target(n)
  <2>1. \A x, y \in Int : x * y \in Int
    OBVIOUS
  <2>2. \A x \in Nat, y \in Int : x * (y + 1) = x * y + x
    OBVIOUS
  <2>3. CASE n + 1 < z
    <3>1. z - n = (z - (n + 1)) + 1 /\ z - (n + 1) \in Int
      BY <1>1
    <3>2. s * (z - n) = s * (z - (n + 1)) + s /\ s * (z - (n + 1)) \in Int
      BY <1>1, <2>1, <2>2, <3>1
    <3> QED BY <1>1, <2>3, <3>2
  <2>4. CASE n + 1 = z
    <3>1. z - n = 1 /\ (n + 1) - z = 0 /\ n < z /\ ~(n + 1 < z)
      BY <1>1, <2>4
    <3>2. s * (z - n) = s /\ g * ((n + 1) - z) = 0
      BY <1>1, <3>1
    <3> QED BY <1>1, <3>1, <3>2
  <2>5. CASE n >= z
    <3>1. (n + 1) - z = (n - z) + 1 /\ n - z \in Int
      BY <1>1
    <3>2. g * ((n + 1) - z) = g * (n - z) + g /\ g * (n - z) \in Int
      BY <1>1, <2>1, <2>2, <3>1
    <3> QED BY <1>1, <2>5, <3>2
  <2> QED BY <1>1, <2>3, <2>4, <2>5
<1> HIDE DEF target
<1> QED BY <1>2, <1>3

\* At the floor every further unit fetches a dollar and adds nothing to the supply.
LEMMA AtFloor ==
  ASSUME NEW i \in Products, NEW m \in Int, ~(Price(i, m) > 1), NEW k \in Nat
  PROVE  SellRevenue(i, m, k) = k /\ SellSupply(i, m, k) = 0
<1> DEFINE T == {n \in Nat : /\ Price(i, m + n) = 1
                             /\ SellRevenue(i, m, n) = n /\ SellSupply(i, m, n) = 0}
<1>1. 0 \in T
  <2>1. m + 0 = m /\ Price(i, m) = 1
    BY PriceFloor
  <2> QED BY <2>1, SellRevenueNext, SellSupplyNext
<1>2. ASSUME NEW n \in T PROVE n + 1 \in T
  <2>1. n \in Nat /\ n + 1 \in Nat /\ m + n \in Int /\ m + (n + 1) \in Int /\ m + (n + 1) = (m + n) + 1
    OBVIOUS
  <2>2. Price(i, (m + n) + 1) <= Price(i, m + n) /\ Price(i, m + n) = 1
    BY <2>1, PriceFalls
  <2>3. Price(i, m + (n + 1)) \in Nat /\ Price(i, m + (n + 1)) >= 1
    BY <2>1, PriceFloor
  <2>4. Price(i, m + (n + 1)) = 1
    BY <2>1, <2>2, <2>3
  <2>5. SellRevenue(i, m, n + 1) = n + 1 /\ SellSupply(i, m, n + 1) = 0
    BY <2>1, <2>2, SellRevenueNext, SellSupplyNext
  <2> QED BY <2>1, <2>4, <2>5
<1> HIDE DEF T
<1>3. T = Nat
  <2>1. T \in SUBSET Nat
    BY DEF T
  <2> QED BY <1>1, <1>2, <2>1, Induction
<1> QED BY <1>3 DEF T

\* The purse, the running total and the shelf alone.
LEMMA ShelvedPays ==
  ASSUME NEW a \in Ledger, NEW i \in Items, NEW k \in Int, NEW dollars \in Int
  PROVE  /\ Shelved(a, i, k, dollars).money = a.money + dollars
         /\ Shelved(a, i, k, dollars).shed_used = a.shed_used + k
         /\ Shelved(a, i, k, dollars).shed[i] = a.shed[i] + k
<1>1. a.shed \in [Items -> Int] /\ a.money \in Int /\ a.shed_used \in Int
  BY DEF Ledger
<1> QED BY <1>1 DEF Shelved, Ledger

\* Two moves on the same shelf are one.
LEMMA ShelvedTwice ==
  ASSUME NEW a \in Ledger, NEW i \in Items, NEW j \in Int, NEW k \in Int,
         NEW x \in Int, NEW y \in Int
  PROVE  Shelved(Shelved(a, i, j, x), i, k, y) = Shelved(a, i, j + k, x + y)
<1> DEFINE b == Shelved(a, i, j, x)
           c == Shelved(b, i, k, y)
           d == Shelved(a, i, j + k, x + y)
<1>1. a.shed \in [Items -> Int] /\ a.money \in Int /\ a.shed_used \in Int
  BY DEF Ledger
<1>2. j + k \in Int /\ x + y \in Int
  OBVIOUS
<1>3. /\ b \in Ledger /\ b.money = a.money + x
      /\ b.shed = [a.shed EXCEPT ![i] = @ + j] /\ b.shed_used = a.shed_used + j
      /\ b.seeds = a.seeds /\ b.hires = a.hires /\ b.lands = a.lands
  BY ShelvedIs
<1> HIDE DEF b
<1>4. /\ c \in Ledger /\ c.money = b.money + y
      /\ c.shed = [b.shed EXCEPT ![i] = @ + k] /\ c.shed_used = b.shed_used + k
      /\ c.seeds = b.seeds /\ c.hires = b.hires /\ c.lands = b.lands
  BY <1>3, ShelvedIs
<1> HIDE DEF c
<1>5. /\ d \in Ledger /\ d.money = a.money + (x + y)
      /\ d.shed = [a.shed EXCEPT ![i] = @ + (j + k)] /\ d.shed_used = a.shed_used + (j + k)
      /\ d.seeds = a.seeds /\ d.hires = a.hires /\ d.lands = a.lands
  BY <1>2, ShelvedIs
<1> HIDE DEF d
<1>6. c.shed = d.shed
  <2>1. \A l \in Items : c.shed[l] = d.shed[l]
    BY <1>1, <1>3, <1>4, <1>5
  <2>2. c.shed \in [Items -> Int] /\ d.shed \in [Items -> Int]
    BY <1>4, <1>5 DEF Ledger
  <2> QED BY <2>1, <2>2
<1>7. c.money = d.money /\ c.shed_used = d.shed_used
  BY <1>1, <1>3, <1>4, <1>5
<1>8. c.seeds = d.seeds /\ c.hires = d.hires /\ c.lands = d.lands
  BY <1>3, <1>4, <1>5
<1>9. c = d
  BY <1>4, <1>5, <1>6, <1>7, <1>8 DEF Ledger
<1> QED BY <1>9 DEF c, b, d

\* Nothing moved, nothing paid.
LEMMA ShelvedNone ==
  ASSUME NEW a \in Ledger, NEW i \in Items
  PROVE  Shelved(a, i, 0, 0) = a
<1> DEFINE b == Shelved(a, i, 0, 0)
<1>1. a.shed \in [Items -> Int] /\ a.money \in Int /\ a.shed_used \in Int /\ 0 \in Int
  BY DEF Ledger
<1>2. /\ b \in Ledger /\ b.money = a.money + 0
      /\ b.shed = [a.shed EXCEPT ![i] = @ + 0] /\ b.shed_used = a.shed_used + 0
      /\ b.seeds = a.seeds /\ b.hires = a.hires /\ b.lands = a.lands
  BY <1>1, ShelvedIs
<1> HIDE DEF b
<1>3. b.shed = a.shed
  <2>1. \A l \in Items : b.shed[l] = a.shed[l]
    BY <1>1, <1>2
  <2>2. b.shed \in [Items -> Int]
    BY <1>2 DEF Ledger
  <2> QED BY <1>1, <2>1, <2>2
<1>4. b.money = a.money /\ b.shed_used = a.shed_used
  BY <1>1, <1>2
<1>5. b = a
  BY <1>2, <1>3, <1>4 DEF Ledger
<1> QED BY <1>5 DEF b

\* What a bulkable order is about.
LEMMA BulkableCases ==
  ASSUME NEW o \in Offer, Bulkable(o)
  PROVE  /\ o.op = "BUY_PRODUCT" \/ o.op = "SELL"
         /\ o.target \in Products /\ o.target \in Items
BY OfferCases DEF Bulkable, Items

\* A sound account is a ledger.
LEMMA SoundLedger ==
  ASSUME NEW a, Sound(a)
  PROVE  a \in Ledger
BY DEF Sound, Account, Ledger

\* The negative of nothing.
LEMMA MinusZero ==
  ASSUME NEW k \in Int, k = 0
  PROVE  -k = 0
<1>1. PICK y \in Int : y = -k
  OBVIOUS
<1>2. y + k = 0
  <2>1. \A x, z \in Int : z = -x => z + x = 0
    OBVIOUS
  <2> QED BY <1>1, <2>1
<1>3. y = 0
  BY <1>2
<1> QED BY <1>1, <1>3, Zenon

\* An order that cannot be served for one unit is not settled for more.
LEMMA BulkNothing ==
  ASSUME NEW a, Sound(a), NEW o \in Offer, Bulkable(o), NEW n \in Nat,
         NEW inv \in [Products -> Int], n = 0 \/ ~Possible(a, o, Quote(o, inv))
  PROVE  Bulk(a, o, n, inv).account = a /\ Bulk(a, o, n, inv).supply = 0
<1> DEFINE i == o.target
           m == inv[i]
<1>1. i \in Products /\ i \in Items /\ m \in Int /\ m - 1 \in Int /\ a \in Ledger
  BY BulkableCases, SoundLedger
<1>2. /\ a.shed_used \in Nat /\ a.money \in Nat /\ Room(a) \in Nat /\ ShedCapacity \in Nat
      /\ Room(a) = ShedCapacity - a.shed_used /\ a.shed[i] \in Nat
  BY <1>1, SoundShed, MarketAssumption
<1>3. CASE o.op = "BUY_PRODUCT"
  <2> DEFINE k == Bought(a, i, n, m)
  <2>1. k \in Nat /\ k <= n /\ k <= Room(a) /\ BuyCost(i, m, k) <= a.money
    BY <1>1, BoughtMost
  <2>2. Bulk(a, o, n, inv) = [account |-> Shelved(a, i, k, -BuyCost(i, m, k)), supply |-> -k]
    BY <1>3, BulkBuys
  <2> HIDE DEF k
  <2>3. k = 0
    <3>1. CASE n = 0
      BY <2>1, <3>1
    <3>2. CASE ~Possible(a, o, Quote(o, inv))
      <4>1. Quote(o, inv) = Price(i, m - 1)
        BY <1>3 DEF Quote
      <4>2. a.shed_used >= ShedCapacity \/ a.money < Price(i, m - 1)
        <5>1. ~(a.shed_used < ShedCapacity /\ a.money >= Price(i, m - 1))
          BY <1>3, <3>2, <4>1 DEF Possible
        <5>2. Price(i, m - 1) \in Nat
          BY <1>1, PriceFloor
        <5> QED BY <1>2, <5>1, <5>2
      <4>3. CASE a.shed_used >= ShedCapacity
        BY <1>2, <2>1, <4>3
      <4>4. CASE a.money < Price(i, m - 1)
        <5>1. SUFFICES ASSUME k # 0 PROVE FALSE
          OBVIOUS
        <5>2. k - 1 \in Nat /\ k = (k - 1) + 1
          BY <2>1, <5>1
        <5>3. BuyCost(i, m, (k - 1) + 1) = Price(i, m - 1) + BuyCost(i, m - 1, k - 1)
          BY <1>1, <5>2, BuyCostFirst
        <5>4. BuyCost(i, m - 1, k - 1) \in Nat /\ Price(i, m - 1) \in Nat
          BY <1>1, <5>2, CostsNat, PriceFloor
        <5>5. BuyCost(i, m, k) = Price(i, m - 1) + BuyCost(i, m - 1, k - 1)
          BY <5>2, <5>3
        <5> QED BY <1>2, <2>1, <4>4, <5>4, <5>5
      <4> QED BY <4>2, <4>3, <4>4, <1>1, <1>2, PriceFloor
    <3> QED BY <3>1, <3>2
  <2>4. BuyCost(i, m, 0) = 0
    BY <1>1, BuyCostNext
  <2>5. -k = 0 /\ -BuyCost(i, m, k) = 0
    <3>1. BuyCost(i, m, k) = 0 /\ BuyCost(i, m, k) \in Int /\ k \in Int
      BY <2>3, <2>4
    <3> QED BY <2>3, <3>1, MinusZero, Zenon
  <2>6. Bulk(a, o, n, inv) = [account |-> Shelved(a, i, 0, 0), supply |-> 0]
    BY <2>2, <2>3, <2>5, Zenon
  <2> QED BY <1>1, <2>6, ShelvedNone
<1>4. CASE o.op = "SELL"
  <2> DEFINE k == IF n <= a.shed[i] THEN n ELSE a.shed[i]
  <2>1. Bulk(a, o, n, inv) = [account |-> Shelved(a, i, -k, SellRevenue(i, m, k)),
                              supply |-> SellSupply(i, m, k)]
    BY <1>4, BulkSells
  <2>2. k = 0
    BY <1>2, <1>4 DEF Possible
  <2> HIDE DEF k
  <2>3. SellRevenue(i, m, 0) = 0 /\ SellSupply(i, m, 0) = 0
    BY <1>1, SellRevenueNext, SellSupplyNext
  <2>4. Bulk(a, o, n, inv) = [account |-> Shelved(a, i, 0, 0), supply |-> 0]
    <3>0. k \in Int
      BY <2>2
    <3>1. -k = 0
      BY <2>2, <3>0, MinusZero, Zenon
    <3> QED BY <2>1, <2>2, <2>3, <3>1, Zenon
  <2> QED BY <1>1, <2>4, ShelvedNone
<1> QED BY <1>3, <1>4, BulkableCases

\* Settling n + 1 units is trading one and settling n.
LEMMA BulkBuysOneMore ==
  ASSUME NEW a, Sound(a), NEW o \in Offer, o.op = "BUY_PRODUCT", NEW n \in Nat,
         NEW inv \in [Products -> Int], NEW inv2 \in [Products -> Int],
         Possible(a, o, Quote(o, inv)),
         inv2[o.target] = inv[o.target] + Supply(o, Quote(o, inv))
  PROVE  /\ Bulk(a, o, n + 1, inv).account
              = Bulk(Committed(a, o, Quote(o, inv)), o, n, inv2).account
         /\ Bulk(a, o, n + 1, inv).supply
              = Supply(o, Quote(o, inv))
                  + Bulk(Committed(a, o, Quote(o, inv)), o, n, inv2).supply
<1> DEFINE i == o.target
           m == inv[i]
           q == Quote(o, inv)
           b == Committed(a, o, q)
           K == Bought(a, i, n + 1, m)
           k == Bought(b, i, n, m - 1)
           C == BuyCost(i, m - 1, k)
<1>1. i \in Products /\ i \in Items /\ m \in Int /\ m - 1 \in Int /\ a \in Ledger /\ n + 1 \in Nat
  BY OfferCases, SoundLedger DEF Items
<1>2. q = Price(i, m - 1) /\ Supply(o, q) = -1 /\ b = Shelved(a, i, 1, -q)
  BY DEF Quote, Supply, Committed
<1>3. q \in Nat /\ Sound(b)
  <2>1. q \in Nat
    BY QuoteNat
  <2> HIDE DEF q
  <2> QED BY <2>1, CommittedSound DEF q
<1>4. inv2[i] = m - 1
  BY <1>1, <1>2
<1>5. Bulk(a, o, n + 1, inv) = [account |-> Shelved(a, i, K, -BuyCost(i, m, K)), supply |-> -K]
  BY BulkBuys
<1>6. Bulk(b, o, n, inv2) = [account |-> Shelved(b, i, k, -C), supply |-> -k]
  <2> HIDE DEF b
  <2> QED BY <1>4, BulkBuys
<1>7. /\ a.shed_used \in Nat /\ a.money \in Nat /\ Room(a) \in Nat /\ ShedCapacity \in Nat
      /\ Room(a) = ShedCapacity - a.shed_used
  BY SoundShed, MarketAssumption
<1> HIDE DEF q
<1>8. b.money = a.money - q /\ b.shed_used = a.shed_used + 1
  <2>1. PICK d \in Int : d = -q
    BY <1>3
  <2>2. Shelved(a, i, 1, d).money = a.money + d /\ Shelved(a, i, 1, d).shed_used = a.shed_used + 1
    <3>1. i \in Items /\ a \in Ledger /\ 1 \in Int
      BY <1>1
    <3> HIDE DEF i, m, b, K, k, C
    <3> QED BY <3>1, ShelvedPays
  <2>3. a.money + d = a.money - q
    BY <2>1, <1>3, <1>7
  <2> HIDE DEF b
  <2> QED BY <1>2, <2>1, <2>2, <2>3
<1> HIDE DEF b
<1>9. Room(b) \in Nat /\ Room(b) = Room(a) - 1
  <2>1. Room(b) \in Nat /\ Room(b) = ShedCapacity - b.shed_used
    BY <1>3, SoundShed
  <2> QED BY <1>7, <1>8, <2>1
<1>10. /\ k \in Nat /\ k <= n /\ k <= Room(b) /\ C <= b.money
       /\ \A j \in Nat : j <= n /\ j <= Room(b) /\ BuyCost(i, m - 1, j) <= b.money => j <= k
  BY <1>1, <1>3, BoughtMost
<1>11. /\ K \in Nat /\ K <= n + 1 /\ K <= Room(a) /\ BuyCost(i, m, K) <= a.money
       /\ \A j \in Nat : j <= n + 1 /\ j <= Room(a) /\ BuyCost(i, m, j) <= a.money => j <= K
  BY <1>1, BoughtMost
<1> HIDE DEF K, k
<1>12. C \in Nat /\ BuyCost(i, m, k + 1) = q + C
  BY <1>1, <1>2, <1>10, BuyCostFirst, CostsNat
<1>13. k + 1 <= K
  <2>1. /\ k + 1 \in Nat /\ k + 1 <= n + 1 /\ k + 1 <= Room(a)
        /\ BuyCost(i, m, k + 1) <= a.money
    BY <1>3, <1>7, <1>8, <1>9, <1>10, <1>12
  <2> QED BY <1>11, <2>1
<1>14. K - 1 <= k
  <2>1. K - 1 \in Nat /\ (K - 1) + 1 = K
    BY <1>10, <1>11, <1>13
  <2>2. BuyCost(i, m, (K - 1) + 1) = Price(i, m - 1) + BuyCost(i, m - 1, K - 1)
    BY <1>1, <2>1, BuyCostFirst
  <2>3. BuyCost(i, m, K) = q + BuyCost(i, m - 1, K - 1)
    BY <1>2, <2>1, <2>2
  <2>4. BuyCost(i, m - 1, K - 1) \in Nat
    BY <1>1, <2>1, CostsNat
  <2>5. K - 1 <= n /\ K - 1 <= Room(b) /\ BuyCost(i, m - 1, K - 1) <= b.money
    BY <1>3, <1>7, <1>8, <1>9, <1>11, <2>3, <2>4
  <2> QED BY <1>10, <2>1, <2>5
<1>15. K = k + 1
  BY <1>10, <1>11, <1>13, <1>14
<1> HIDE DEF C
<1>16. Shelved(b, i, k, -C) = Shelved(a, i, K, -BuyCost(i, m, K))
  <2>1. -q \in Int /\ -C \in Int /\ k \in Int /\ 1 \in Int
    BY <1>3, <1>10, <1>12
  <2>2. Shelved(Shelved(a, i, 1, -q), i, k, -C) = Shelved(a, i, 1 + k, (-q) + (-C))
    BY <1>1, <2>1, ShelvedTwice
  <2>3. 1 + k = K /\ (-q) + (-C) = -BuyCost(i, m, K)
    BY <1>3, <1>10, <1>12, <1>15
  <2> QED BY <1>2, <2>2, <2>3
<1>17. -K = -1 + (-k)
  BY <1>10, <1>15
<1>18. /\ Bulk(a, o, n + 1, inv).account = Bulk(b, o, n, inv2).account
       /\ Bulk(a, o, n + 1, inv).supply = Supply(o, q) + Bulk(b, o, n, inv2).supply
  BY <1>2, <1>5, <1>6, <1>16, <1>17
<1> QED BY <1>18 DEF b, q

\* Selling n + 1 units in bulk is selling one unit and then n in bulk.
LEMMA BulkSellsOneMore ==
  ASSUME NEW a, Sound(a), NEW o \in Offer, o.op = "SELL", NEW n \in Nat,
         NEW inv \in [Products -> Int], NEW inv2 \in [Products -> Int],
         Possible(a, o, Quote(o, inv)),
         inv2[o.target] = inv[o.target] + Supply(o, Quote(o, inv))
  PROVE  /\ Bulk(a, o, n + 1, inv).account
              = Bulk(Committed(a, o, Quote(o, inv)), o, n, inv2).account
         /\ Bulk(a, o, n + 1, inv).supply
              = Supply(o, Quote(o, inv))
                  + Bulk(Committed(a, o, Quote(o, inv)), o, n, inv2).supply
<1> DEFINE i == o.target
           m == inv[i]
           q == Quote(o, inv)
           b == Committed(a, o, q)
           K == IF n + 1 <= a.shed[i] THEN n + 1 ELSE a.shed[i]
           k == IF n <= b.shed[i] THEN n ELSE b.shed[i]
           m2 == inv2[i]
           G == SellRevenue(i, m2, k)
<1>1. i \in Products /\ i \in Items /\ m \in Int /\ a \in Ledger /\ n + 1 \in Nat /\ m2 \in Int
  BY OfferCases, SoundLedger DEF Items
<1>2. q = Price(i, m) /\ Supply(o, q) = (IF q > 1 THEN 1 ELSE 0) /\ b = Shelved(a, i, -1, q)
  BY DEF Quote, Supply, Committed
<1>3. q \in Nat /\ q >= 1 /\ Sound(b)
  <2>1. q \in Nat /\ q >= 1
    BY <1>1, <1>2, PriceFloor
  <2> HIDE DEF q
  <2> QED BY <2>1, CommittedSound DEF q
<1>4. Bulk(a, o, n + 1, inv) = [account |-> Shelved(a, i, -K, SellRevenue(i, m, K)),
                                supply |-> SellSupply(i, m, K)]
  BY <1>1, BulkSells
<1>5. Bulk(b, o, n, inv2) = [account |-> Shelved(b, i, -k, G), supply |-> SellSupply(i, m2, k)]
  <2> HIDE DEF b
  <2> QED BY <1>3, BulkSells
<1>6. a.shed[i] \in Nat /\ a.shed[i] > 0 /\ a.shed \in [Items -> Nat]
  BY <1>1, SoundShed DEF Possible, Sound, Account
<1>7. m2 = m + (IF q > 1 THEN 1 ELSE 0)
  BY <1>2
<1> HIDE DEF q
<1>8. b.shed[i] = a.shed[i] - 1
  <2>1. -1 \in Int /\ q \in Int
    BY <1>3
  <2>2. b.shed = [a.shed EXCEPT ![i] = @ + (-1)]
    <3> HIDE DEF b
    <3> QED BY <1>1, <1>2, <2>1, ShelvedIs
  <2> HIDE DEF b
  <2> QED BY <1>1, <1>6, <2>2
<1> HIDE DEF b
<1>9. k \in Nat /\ K = k + 1
  BY <1>6, <1>8
<1> HIDE DEF K, k, m2, m
<1>10. /\ SellRevenue(i, m, k + 1) = q + G
       /\ SellSupply(i, m, k + 1) = Supply(o, q) + SellSupply(i, m2, k)
       /\ G \in Nat
  <2>0. G \in Nat
    BY <1>1, <1>9, CostsNat
  <2>1. CASE q > 1
    <3>1. m2 = m + 1
      BY <1>7, <2>1
    <3>2. SellRevenue(i, m, k + 1) = Price(i, m) + SellRevenue(i, m + 1, k)
      BY <1>1, <1>9, SellRevenueFirst
    <3>3. SellSupply(i, m, k + 1)
            = (IF Price(i, m) > 1 THEN 1 ELSE 0) + SellSupply(i, m + 1, k)
      BY <1>1, <1>9, SellSupplyFirst
    <3> QED BY <1>2, <2>0, <3>1, <3>2, <3>3
  <2>2. CASE ~(q > 1)
    <3>1. m2 = m /\ q = 1 /\ ~(Price(i, m) > 1)
      BY <1>1, <1>2, <1>3, <1>7, <2>2
    <3>2. k + 1 \in Nat
      BY <1>9
    <3>3. SellRevenue(i, m, k + 1) = k + 1 /\ SellSupply(i, m, k + 1) = 0
      BY <1>1, <3>1, <3>2, AtFloor
    <3>4. SellRevenue(i, m, k) = k /\ SellSupply(i, m, k) = 0
      BY <1>1, <1>9, <3>1, AtFloor
    <3> QED BY <1>2, <1>9, <2>0, <2>2, <3>1, <3>3, <3>4
  <2> QED BY <2>1, <2>2
<1> HIDE DEF G
<1>11. Shelved(b, i, -k, G) = Shelved(a, i, -K, SellRevenue(i, m, K))
  <2>1. -1 \in Int /\ q \in Int /\ -k \in Int /\ G \in Int
    BY <1>3, <1>9, <1>10
  <2>2. Shelved(Shelved(a, i, -1, q), i, -k, G) = Shelved(a, i, (-1) + (-k), q + G)
    BY <1>1, <2>1, ShelvedTwice
  <2>3. (-1) + (-k) = -K
    BY <1>9
  <2> QED BY <1>2, <1>9, <1>10, <2>2, <2>3
<1>12. /\ Bulk(a, o, n + 1, inv).account = Bulk(b, o, n, inv2).account
       /\ Bulk(a, o, n + 1, inv).supply = Supply(o, q) + Bulk(b, o, n, inv2).supply
  BY <1>4, <1>5, <1>9, <1>10, <1>11
<1> QED BY <1>12 DEF b, q

\* Settling n + 1 units in bulk is committing one unit and then settling n.
LEMMA BulkOneMore ==
  ASSUME NEW a, Sound(a), NEW o \in Offer, Bulkable(o), NEW n \in Nat,
         NEW inv \in [Products -> Int], NEW inv2 \in [Products -> Int],
         Possible(a, o, Quote(o, inv)),
         inv2[o.target] = inv[o.target] + Supply(o, Quote(o, inv))
  PROVE  /\ Bulk(a, o, n + 1, inv).account
              = Bulk(Committed(a, o, Quote(o, inv)), o, n, inv2).account
         /\ Bulk(a, o, n + 1, inv).supply
              = Supply(o, Quote(o, inv))
                  + Bulk(Committed(a, o, Quote(o, inv)), o, n, inv2).supply
<1>1. CASE o.op = "BUY_PRODUCT"
  BY <1>1, BulkBuysOneMore
<1>2. CASE o.op = "SELL"
  BY <1>2, BulkSellsOneMore
<1> QED BY <1>1, <1>2, BulkableCases

-----------------------------------------------------------------------------
(* The slot with every order settled, seen from a slot in progress.        *)

\* What an account, and the inventory of a product, still have coming from player p.
Closing(t, p) == IF Served(t, p) THEN Remainder(t, p).account ELSE t.acct[p]
Left(t, p, i) == IF Served(t, p) /\ t.offer[p].target = i THEN Remainder(t, p).supply ELSE 0

\* Whoever is still served can be settled in bulk, without touching the other's prices.
Separate(t) ==
  /\ \A p \in Players : Served(t, p) => Bulkable(t.offer[p])
  /\ (\A p \in Players : Served(t, p)) => t.offer[0].target # t.offer[1].target

\* f is t with everything settled.
Ahead(f, t) ==
  /\ Separate(t)
  /\ \A p \in Players : f.acct[p] = Closing(t, p)
  /\ \A i \in Products : f.inv[i] = t.inv[i] + (Left(t, 0, i) + Left(t, 1, i))

\* The parts of a slot after a round of the lockstep.
LEMMA LockstepParts ==
  ASSUME NEW t \in SlotState
  PROVE  /\ \A p \in Players : Lockstep(t).acct[p]
               = (IF Able(t, p) THEN Committed(t.acct[p], t.offer[p], QuoteOf(t, p)) ELSE t.acct[p])
         /\ \A i \in Products : Lockstep(t).inv[i] = t.inv[i] + (Moved(t, 0, i) + Moved(t, 1, i))
         /\ Lockstep(t).offer = t.offer
         /\ \A p \in Players : Lockstep(t).active[p] = Able(t, p)
         /\ Lockstep(t).unit = t.unit + 1
<1> DEFINE u == Lockstep(t)
<1>1. u = [acct |-> [p \in Players |-> IF Able(t, p)
                                       THEN Committed(t.acct[p], t.offer[p], QuoteOf(t, p))
                                       ELSE t.acct[p]],
           inv |-> [i \in Products |-> t.inv[i] + (Moved(t, 0, i) + Moved(t, 1, i))],
           offer |-> t.offer,
           active |-> [p \in Players |-> Able(t, p)],
           unit |-> t.unit + 1]
  BY LockstepIs
<1> HIDE DEF u
<1>2. /\ u.acct = [p \in Players |-> IF Able(t, p)
                                     THEN Committed(t.acct[p], t.offer[p], QuoteOf(t, p))
                                     ELSE t.acct[p]]
      /\ u.inv = [i \in Products |-> t.inv[i] + (Moved(t, 0, i) + Moved(t, 1, i))]
      /\ u.offer = t.offer
      /\ u.active = [p \in Players |-> Able(t, p)]
      /\ u.unit = t.unit + 1
  BY <1>1
<1> QED BY <1>2 DEF u

\* A player's trades in a round are the first of what was coming from him.
LEMMA PlayerStep ==
  ASSUME NEW t, SoundSlot(t), Separate(t), NEW p \in Players
  PROVE  /\ Closing(Lockstep(t), p) = Closing(t, p)
         /\ \A i \in Products : /\ Left(t, p, i) = Moved(t, p, i) + Left(Lockstep(t), p, i)
                                /\ Left(Lockstep(t), p, i) \in Int
<1> DEFINE u == Lockstep(t)
           o == t.offer[p]
           a == t.acct[p]
           q == QuoteOf(t, p)
<1>1. /\ t \in SlotState /\ Sound(a) /\ o \in Offer /\ o.n \in Nat /\ t.unit \in Nat
      /\ t.inv \in [Products -> Int]
  BY SlotShape DEF SoundSlot
<1>2. SoundSlot(u)
  BY LockstepSound
<1>3. /\ u.acct[p] = (IF Able(t, p) THEN Committed(a, o, q) ELSE a)
      /\ \A i \in Products : u.inv[i] = t.inv[i] + (Moved(t, 0, i) + Moved(t, 1, i))
      /\ u.offer[p] = o /\ u.active[p] = Able(t, p) /\ u.unit = t.unit + 1
  BY <1>1, LockstepParts
<1>4. u.inv \in [Products -> Int] /\ Sound(u.acct[p])
  BY <1>2, SlotShape DEF SoundSlot
<1> HIDE DEF u
<1>5. CASE ~Served(t, p)
  <2>1. ~Able(t, p) /\ ~Served(u, p)
    BY <1>3, <1>5 DEF Able, Served
  <2>2. Closing(u, p) = Closing(t, p)
    BY <1>3, <1>5, <2>1 DEF Closing
  <2>3. \A i \in Products : Left(t, p, i) = 0 /\ Moved(t, p, i) = 0 /\ Left(u, p, i) = 0
    BY <1>5, <2>1 DEF Left, Moved
  <2> QED BY <2>2, <2>3 DEF u
<1>6. CASE Served(t, p) /\ ~Able(t, p)
  <2>1. Bulkable(o) /\ ~Possible(a, o, Quote(o, t.inv)) /\ o.n - t.unit \in Nat
    BY <1>1, <1>6 DEF Separate, Able, QuoteOf, Served
  <2>2. Remainder(t, p).account = a /\ Remainder(t, p).supply = 0
    BY <1>1, <2>1, BulkNothing DEF Remainder
  <2>3. ~Served(u, p)
    BY <1>3, <1>6 DEF Served
  <2>4. Closing(u, p) = Closing(t, p)
    BY <1>3, <1>6, <2>2, <2>3 DEF Closing
  <2>5. \A i \in Products : Left(t, p, i) = 0 /\ Moved(t, p, i) = 0 /\ Left(u, p, i) = 0
    BY <1>6, <2>2, <2>3 DEF Left, Moved
  <2> QED BY <2>4, <2>5 DEF u
<1>7. CASE Served(t, p) /\ Able(t, p)
  <2> DEFINE r == o.n - (t.unit + 1)
             b == Committed(a, o, q)
             B == Bulk(b, o, r, u.inv)
  <2>1. /\ Bulkable(o) /\ Possible(a, o, Quote(o, t.inv)) /\ q = Quote(o, t.inv)
        /\ r \in Nat /\ o.n - t.unit = r + 1
    BY <1>1, <1>7 DEF Separate, Able, QuoteOf, Served
  <2>2. o.target \in Products
    BY <1>1, <2>1, BulkableCases
  <2>3. Moved(t, p, o.target) = Supply(o, q) /\ Moved(t, Other(p), o.target) = 0
    <3>1. Moved(t, p, o.target) = Supply(o, q)
      BY <1>7 DEF Moved
    <3>2. Served(t, Other(p)) => t.offer[Other(p)].target # o.target
      BY <1>7 DEF Separate, Players, Other
    <3> QED BY <3>1, <3>2 DEF Moved, Able
  <2>4. u.inv[o.target] = t.inv[o.target] + Supply(o, q)
    <3>1. /\ Moved(t, 0, o.target) + Moved(t, 1, o.target) = Supply(o, q)
      <4>1. Supply(o, q) \in Int
        BY DEF Supply
      <4> QED BY <2>3, <4>1 DEF Players, Other
    <3>2. u.inv[o.target] = t.inv[o.target] + (Moved(t, 0, o.target) + Moved(t, 1, o.target))
      BY <1>3, <2>2
    <3> QED BY <3>1, <3>2
  <2> HIDE DEF r, b, q
  <2>5. /\ Remainder(t, p).account = B.account
        /\ Remainder(t, p).supply = Supply(o, q) + B.supply
    <3>1. Remainder(t, p) = Bulk(a, o, r + 1, t.inv)
      BY <2>1 DEF Remainder
    <3>2. u.inv[o.target] = t.inv[o.target] + Supply(o, Quote(o, t.inv))
      BY <2>1, <2>4
    <3>3. /\ Bulk(a, o, r + 1, t.inv).account
               = Bulk(Committed(a, o, Quote(o, t.inv)), o, r, u.inv).account
          /\ Bulk(a, o, r + 1, t.inv).supply
               = Supply(o, Quote(o, t.inv))
                   + Bulk(Committed(a, o, Quote(o, t.inv)), o, r, u.inv).supply
      <4> DEFINE inv == t.inv
                 inv2 == u.inv
      <4>1. /\ Sound(a) /\ o \in Offer /\ Bulkable(o) /\ r \in Nat
            /\ inv \in [Products -> Int] /\ inv2 \in [Products -> Int]
            /\ Possible(a, o, Quote(o, inv))
            /\ inv2[o.target] = inv[o.target] + Supply(o, Quote(o, inv))
        BY <1>1, <1>4, <2>1, <3>2
      <4> HIDE DEF inv, inv2, a, o
      <4>2. /\ Bulk(a, o, r + 1, inv).account
                 = Bulk(Committed(a, o, Quote(o, inv)), o, r, inv2).account
            /\ Bulk(a, o, r + 1, inv).supply
                 = Supply(o, Quote(o, inv))
                     + Bulk(Committed(a, o, Quote(o, inv)), o, r, inv2).supply
        BY <4>1, BulkOneMore
      <4> QED BY <4>2 DEF inv, inv2
    <3> QED BY <2>1, <3>1, <3>3 DEF b
  <2>6. u.acct[p] = b /\ u.offer[p] = o /\ Sound(b)
    BY <1>3, <1>4, <1>7 DEF b
  <2>7. Served(u, p) <=> r > 0
    BY <1>1, <1>3, <1>7 DEF Served, r
  <2>8. CASE r > 0
    <3>1. Remainder(u, p) = B
      BY <1>3, <2>6 DEF Remainder, r
    <3>2. B.supply \in Int
      BY <1>1, <1>4, <2>1, <2>6, BulkSound
    <3> HIDE DEF B
    <3>3. Closing(u, p) = Closing(t, p)
      BY <1>7, <2>5, <2>7, <2>8, <3>1 DEF Closing
    <3>4. \A i \in Products : Left(t, p, i) = Moved(t, p, i) + Left(u, p, i)
                              /\ Left(u, p, i) \in Int
      BY <1>7, <2>3, <2>5, <2>6, <2>7, <2>8, <3>1, <3>2 DEF Left, Moved
    <3> QED BY <3>3, <3>4 DEF u
  <2>9. CASE ~(r > 0)
    <3>1. r = 0
      BY <2>1, <2>9
    <3>2. B.account = b /\ B.supply = 0
      BY <1>1, <1>4, <2>1, <2>6, <3>1, BulkNothing
    <3> HIDE DEF B
    <3>3. ~Served(u, p)
      BY <2>7, <2>9
    <3>4. Closing(u, p) = Closing(t, p)
      BY <1>7, <2>5, <2>6, <3>2, <3>3 DEF Closing
    <3>5. Supply(o, q) \in Int
      BY DEF Supply
    <3>6. Remainder(t, p).supply = Supply(o, q)
      BY <2>5, <3>2, <3>5
    <3>7. \A i \in Products : Left(u, p, i) = 0 /\ Left(t, p, i) = Moved(t, p, i)
      BY <1>7, <2>3, <3>3, <3>6 DEF Left, Moved, q
    <3>8. \A i \in Products : Moved(t, p, i) \in Int
      BY MovedInt
    <3> QED BY <3>4, <3>7, <3>8 DEF u
  <2> QED BY <2>8, <2>9
<1> QED BY <1>5, <1>6, <1>7

\* What is coming is not changed by a round of the lockstep.
LEMMA AheadStep ==
  ASSUME NEW t, SoundSlot(t), NEW f, Ahead(f, t)
  PROVE  Ahead(f, Lockstep(t))
<1> DEFINE u == Lockstep(t)
<1>1. t \in SlotState /\ Separate(t)
  BY DEF SoundSlot, Ahead
<1>2. \A p \in Players : /\ Closing(u, p) = Closing(t, p)
                         /\ \A i \in Products : /\ Left(t, p, i) = Moved(t, p, i) + Left(u, p, i)
                                                /\ Left(u, p, i) \in Int
  BY <1>1, PlayerStep
<1>3. /\ u.offer = t.offer /\ u.unit = t.unit + 1 /\ t.unit \in Nat
      /\ \A p \in Players : u.active[p] = Able(t, p) /\ t.offer[p].n \in Nat
      /\ \A i \in Products : u.inv[i] = t.inv[i] + (Moved(t, 0, i) + Moved(t, 1, i))
  BY <1>1, LockstepParts, SlotShape
<1> HIDE DEF u
<1>4. \A p \in Players : Served(u, p) => Served(t, p)
  BY <1>3 DEF Served, Able
<1>5. Separate(u)
  BY <1>1, <1>3, <1>4 DEF Separate
<1>6. \A p \in Players : f.acct[p] = Closing(u, p)
  BY <1>2 DEF Ahead
<1>7. ASSUME NEW i \in Products
      PROVE  f.inv[i] = u.inv[i] + (Left(u, 0, i) + Left(u, 1, i))
  <2>1. /\ t.inv[i] \in Int /\ Moved(t, 0, i) \in Int /\ Moved(t, 1, i) \in Int
        /\ Left(u, 0, i) \in Int /\ Left(u, 1, i) \in Int
    BY <1>1, <1>2, SlotShape, MovedInt DEF Players
  <2>2. f.inv[i] = t.inv[i] + (Left(t, 0, i) + Left(t, 1, i))
    BY DEF Ahead
  <2>3. Left(t, 0, i) = Moved(t, 0, i) + Left(u, 0, i)
        /\ Left(t, 1, i) = Moved(t, 1, i) + Left(u, 1, i)
    BY <1>2 DEF Players
  <2>4. u.inv[i] = t.inv[i] + (Moved(t, 0, i) + Moved(t, 1, i))
    BY <1>3
  <2> QED BY <2>1, <2>2, <2>3, <2>4
<1> QED BY <1>5, <1>6, <1>7 DEF Ahead, u

\* Settling both orders at once is ahead of the slot.
LEMMA BothBulkAhead ==
  ASSUME NEW t, SoundSlot(t), Independent(t)
  PROVE  Ahead(BothBulk(t), t)
<1> DEFINE f == BothBulk(t)
<1>1. t \in SlotState /\ t.unit = 0
      /\ (\A p \in Players : Bulkable(t.offer[p]) /\ t.active[p])
      /\ t.offer[0].target # t.offer[1].target
  BY DEF SoundSlot, Independent
<1>2. f = [acct |-> [p \in Players |-> Settled(t, p).account],
           inv |-> [i \in Products |-> t.inv[i] + (Taken(t, 0, i) + Taken(t, 1, i))],
           offer |-> t.offer,
           active |-> [p \in Players |-> FALSE],
           unit |-> t.unit]
  BY BothBulkIs
<1> HIDE DEF f
<1>3. f.acct = [p \in Players |-> Settled(t, p).account]
      /\ f.inv = [i \in Products |-> t.inv[i] + (Taken(t, 0, i) + Taken(t, 1, i))]
  BY <1>2
<1>4. ASSUME NEW p \in Players
      PROVE  /\ Settled(t, p).account = Closing(t, p)
             /\ \A i \in Products : Taken(t, p, i) = Left(t, p, i)
  <2>1. /\ t.offer[p] \in Offer /\ t.offer[p].n \in Nat /\ Sound(t.acct[p])
        /\ t.inv \in [Products -> Int] /\ Bulkable(t.offer[p])
    BY <1>1, SlotShape DEF SoundSlot
  <2>2. Served(t, p) <=> t.offer[p].n # 0
    BY <1>1, <2>1 DEF Served
  <2>3. CASE Served(t, p)
    <3>1. t.offer[p].n - t.unit = t.offer[p].n
      BY <1>1, <2>1
    <3>2. Settled(t, p) = Remainder(t, p)
      BY <3>1 DEF Settled, Remainder
    <3> QED BY <2>3, <3>2 DEF Closing, Left, Taken
  <2>4. CASE ~Served(t, p)
    <3>1. t.offer[p].n = 0
      BY <2>2, <2>4
    <3>2. Settled(t, p).account = t.acct[p] /\ Settled(t, p).supply = 0
      BY <2>1, <3>1, BulkNothing DEF Settled
    <3> QED BY <2>4, <3>2 DEF Closing, Left, Taken
  <2> QED BY <2>3, <2>4
<1>5. \A p \in Players : f.acct[p] = Closing(t, p)
  BY <1>3, <1>4
<1>6. \A i \in Products : f.inv[i] = t.inv[i] + (Left(t, 0, i) + Left(t, 1, i))
  BY <1>3, <1>4 DEF Players
<1>7. Separate(t)
  BY <1>1 DEF Separate
<1> QED BY <1>5, <1>6, <1>7 DEF Ahead, f

\* So is settling the rest of the only order left.
LEMMA AloneBulkAhead ==
  ASSUME NEW t, SoundSlot(t), NEW p \in Players, Alone(t, p)
  PROVE  Ahead(AloneBulk(t, p), t)
<1> DEFINE f == AloneBulk(t, p)
           i == t.offer[p].target
<1>1. /\ t \in SlotState /\ Served(t, p) /\ ~Served(t, Other(p)) /\ Bulkable(t.offer[p])
      /\ t.acct \in [Players -> Account] /\ t.inv \in [Products -> Int]
      /\ t.offer[p] \in Offer
  BY SlotShape DEF SoundSlot, Alone
<1>2. f = [acct |-> [t.acct EXCEPT ![p] = Remainder(t, p).account],
           inv |-> [t.inv EXCEPT ![i] = @ + Remainder(t, p).supply],
           offer |-> t.offer,
           active |-> [q \in Players |-> FALSE],
           unit |-> t.unit]
  BY <1>1, AloneBulkIs
<1> HIDE DEF f
<1>3. f.acct = [t.acct EXCEPT ![p] = Remainder(t, p).account]
      /\ f.inv = [t.inv EXCEPT ![i] = @ + Remainder(t, p).supply]
  BY <1>2
<1>4. \A q \in Players : q = p \/ q = Other(p)
  BY DEF Players, Other
<1>5. \A q \in Players : f.acct[q] = Closing(t, q)
  BY <1>1, <1>3, <1>4 DEF Closing
<1>6. ASSUME NEW j \in Products
      PROVE  f.inv[j] = t.inv[j] + (Left(t, 0, j) + Left(t, 1, j))
  <2>1. Remainder(t, p).supply \in Int /\ t.inv[j] \in Int /\ i \in Products
    BY <1>1, SettledSound, BulkableCases DEF Served
  <2>2. Left(t, Other(p), j) = 0
        /\ Left(t, p, j) = (IF i = j THEN Remainder(t, p).supply ELSE 0)
    BY <1>1 DEF Left
  <2>3. Left(t, 0, j) + Left(t, 1, j) = (IF i = j THEN Remainder(t, p).supply ELSE 0)
    BY <2>1, <2>2 DEF Players, Other
  <2> QED BY <1>1, <1>3, <2>1, <2>3
<1>7. Separate(t)
  BY <1>1, <1>4 DEF Separate, Players, Other
<1> QED BY <1>5, <1>6, <1>7 DEF Ahead, f

-----------------------------------------------------------------------------
(* No bulk order outlasts the rounds of a slot: a player who still buys    *)
(* has filled a place of his shed in every round, one who still sells has  *)
(* cleared one.                                                            *)

Tallied(t) ==
  \A p \in Players : t.active[p] =>
    /\ t.offer[p].op = "BUY_PRODUCT" => t.acct[p].shed_used >= t.unit
    /\ t.offer[p].op = "SELL" => t.acct[p].shed[t.offer[p].target] + t.unit <= ShedCapacity

\* A round in lockstep keeps the tally of what active players have traded.
LEMMA LockstepTallied ==
  ASSUME NEW t, SoundSlot(t), Tallied(t)
  PROVE  Tallied(Lockstep(t))
<1> DEFINE u == Lockstep(t)
<1>1. t \in SlotState /\ t.unit \in Nat
  BY SlotShape DEF SoundSlot
<1>2. /\ \A p \in Players : u.acct[p]
           = (IF Able(t, p) THEN Committed(t.acct[p], t.offer[p], QuoteOf(t, p)) ELSE t.acct[p])
      /\ u.offer = t.offer /\ u.unit = t.unit + 1
      /\ \A p \in Players : u.active[p] = Able(t, p)
  BY <1>1, LockstepParts
<1> HIDE DEF u
<1>3. SUFFICES ASSUME NEW p \in Players, u.active[p]
               PROVE  /\ u.offer[p].op = "BUY_PRODUCT" => u.acct[p].shed_used >= u.unit
                      /\ u.offer[p].op = "SELL"
                           => u.acct[p].shed[u.offer[p].target] + u.unit <= ShedCapacity
  BY DEF Tallied, u
<1> DEFINE a == t.acct[p]
           o == t.offer[p]
           q == QuoteOf(t, p)
<1>4. /\ Able(t, p) /\ t.active[p] /\ u.acct[p] = Committed(a, o, q) /\ u.offer[p] = o
      /\ u.unit = t.unit + 1 /\ o \in Offer
  BY <1>1, <1>2, <1>3, SlotShape DEF Able, Served
<1>5. Sound(a) /\ a \in Ledger /\ q \in Nat /\ a.shed \in [Items -> Nat]
      /\ a.shed_used \in Nat /\ a.money \in Nat
  BY <1>1, <1>4, SlotShape, QuoteNat, SoundLedger, SoundShed DEF SoundSlot, QuoteOf, Sound, Account
<1>6. /\ o.op = "BUY_PRODUCT" => a.shed_used >= t.unit
      /\ o.op = "SELL" => a.shed[o.target] + t.unit <= ShedCapacity
  BY <1>4 DEF Tallied
<1> HIDE DEF a, o, q
<1>7. ASSUME o.op = "BUY_PRODUCT" PROVE u.acct[p].shed_used >= u.unit
  <2>1. o.target \in Items /\ -q \in Int /\ 1 \in Int
    BY <1>4, <1>5, <1>7, OfferCases DEF Items
  <2>2. Shelved(a, o.target, 1, -q).shed_used = a.shed_used + 1
    BY <1>5, <2>1, ShelvedPays
  <2>3. u.acct[p] = Shelved(a, o.target, 1, -q)
    BY <1>4, <1>7 DEF Committed
  <2> QED BY <1>1, <1>4, <1>5, <1>6, <1>7, <2>2, <2>3
<1>8. ASSUME o.op = "SELL"
      PROVE  u.acct[p].shed[o.target] + u.unit <= ShedCapacity
  <2>1. o.target \in Items /\ -1 \in Int /\ q \in Int
    BY <1>4, <1>5, <1>8, OfferCases DEF Items
  <2>2. Shelved(a, o.target, -1, q).shed[o.target] = a.shed[o.target] + (-1)
    BY <1>5, <2>1, ShelvedPays
  <2>3. u.acct[p] = Shelved(a, o.target, -1, q)
    BY <1>4, <1>8 DEF Committed
  <2>4. u.acct[p].shed[o.target] = a.shed[o.target] - 1 /\ a.shed[o.target] \in Nat
    BY <1>5, <2>1, <2>2, <2>3
  <2>5. a.shed[o.target] + t.unit <= ShedCapacity /\ ShedCapacity \in Nat
    BY <1>6, <1>8, MarketAssumption
  <2> QED BY <1>1, <1>4, <2>4, <2>5
<1> QED BY <1>4, <1>7, <1>8

\* Where the lockstep gives up nobody has anything coming.
LEMMA TalliedEnd ==
  ASSUME NEW t, SoundSlot(t), Tallied(t), ShedCapacity < Escape, t.unit + 1 >= Escape,
         NEW p \in Players, Separate(t)
  PROVE  Closing(t, p) = t.acct[p] /\ \A i \in Products : Left(t, p, i) = 0
<1>1. CASE ~Served(t, p)
  BY <1>1 DEF Closing, Left
<1>2. CASE Served(t, p)
  <2> DEFINE a == t.acct[p]
             o == t.offer[p]
  <2>1. /\ Sound(a) /\ o \in Offer /\ o.n \in Nat /\ t.unit \in Nat
        /\ t.inv \in [Products -> Int] /\ Bulkable(o) /\ t.active[p] /\ t.unit < o.n
    BY <1>2, SlotShape DEF SoundSlot, Separate, Served
  <2>2. ShedCapacity \in Nat /\ Escape \in Nat /\ t.unit >= ShedCapacity
    BY <2>1, MarketAssumption
  <2>3. a.shed_used \in Nat /\ (o.target \in Items => a.shed[o.target] \in Nat)
    BY <2>1, SoundShed
  <2>4. ~Possible(a, o, Quote(o, t.inv))
    <3>1. CASE o.op = "BUY_PRODUCT"
      <4>1. a.shed_used >= ShedCapacity
        BY <2>1, <2>2, <2>3, <3>1 DEF Tallied
      <4>2. ~(a.shed_used < ShedCapacity)
        BY <2>2, <2>3, <4>1
      <4> QED BY <3>1, <4>2 DEF Possible
    <3>2. CASE o.op = "SELL"
      <4>1. a.shed[o.target] + t.unit <= ShedCapacity
        BY <2>1, <3>2 DEF Tallied
      <4>2. ~(a.shed[o.target] > 0)
        BY <2>1, <2>2, <2>3, <4>1, BulkableCases
      <4> QED BY <3>2, <4>2 DEF Possible
    <3> QED BY <2>1, <3>1, <3>2, BulkableCases
  <2>5. o.n - t.unit \in Nat
    BY <2>1
  <2>6. Remainder(t, p).account = a /\ Remainder(t, p).supply = 0
    BY <2>1, <2>4, <2>5, BulkNothing DEF Remainder
  <2> QED BY <2>6 DEF Closing, Left
<1> QED BY <1>1, <1>2

-----------------------------------------------------------------------------
(* Rounds played one after the other.                                      *)

\* h has the first n + 1 members of the sequence that g makes from s.
Begins(h, n, g, s) == h[0] = s /\ \A k \in 0..(n - 1) : h[k + 1] = g[h[k]]

\* f goes on from s with g for ever.
Maps(g, S) == g \in [S -> S]
Chain(f, g, s, S) == f \in [Nat -> S] /\ f[0] = s /\ \A k \in Nat : f[k + 1] = g[f[k]]

\* A function can be applied again and again.
LEMMA Iterates ==
  ASSUME NEW S, NEW g, Maps(g, S), NEW s \in S
  PROVE  \E f : Chain(f, g, s, S)
<1> USE DEF Maps
<1> DEFINE T == {n \in Nat : \E h \in [0..n -> S] : Begins(h, n, g, s)}
<1>1. T = Nat
  <2>1. 0 \in T
    <3>1. [k \in 0..0 |-> s] \in [0..0 -> S] /\ Begins([k \in 0..0 |-> s], 0, g, s)
      BY DEF Begins
    <3> QED BY <3>1
  <2>2. ASSUME NEW n \in T PROVE n + 1 \in T
    <3>1. PICK h \in [0..n -> S] : Begins(h, n, g, s)
      OBVIOUS
    <3> DEFINE j == [k \in 0..(n + 1) |-> IF k <= n THEN h[k] ELSE g[h[n]]]
    <3>2. n \in Nat /\ n + 1 \in Nat /\ n \in 0..n
      OBVIOUS
    <3>3. j \in [0..(n + 1) -> S]
      <4>1. \A k \in 0..(n + 1) : k <= n => k \in 0..n
        BY <3>2
      <4> QED BY <3>2, <4>1
    <3>4. j[0] = s
      BY <3>1, <3>2 DEF Begins
    <3>5. \A k \in 0..n : j[k + 1] = g[j[k]]
      <4> SUFFICES ASSUME NEW k \in 0..n PROVE j[k + 1] = g[j[k]]
        OBVIOUS
      <4>1. k \in 0..(n + 1) /\ k + 1 \in 0..(n + 1) /\ k <= n /\ j[k] = h[k]
        BY <3>2
      <4>2. CASE k = n
        BY <3>2, <4>1, <4>2
      <4>3. CASE k # n
        <5>1. k \in 0..(n - 1) /\ k + 1 <= n
          BY <3>2, <4>3
        <5> QED BY <3>1, <4>1, <5>1 DEF Begins
      <4> QED BY <4>2, <4>3
    <3>6. (n + 1) - 1 = n
      BY <3>2
    <3> HIDE DEF j
    <3>7. Begins(j, n + 1, g, s)
      BY <3>4, <3>5, <3>6 DEF Begins
    <3> QED BY <3>2, <3>3, <3>7
  <2> HIDE DEF T
  <2>3. T \in SUBSET Nat
    BY DEF T
  <2> QED BY <2>1, <2>2, <2>3, Induction
<1> DEFINE U == {k \in Nat : \A m, n \in Nat : k <= m /\ k <= n =>
                   \A h \in [0..m -> S], j \in [0..n -> S] :
                      Begins(h, m, g, s) /\ Begins(j, n, g, s) => h[k] = j[k]}
<1>2. U = Nat
  <2>1. 0 \in U
    BY DEF Begins
  <2>2. ASSUME NEW k \in U PROVE k + 1 \in U
    <3>1. SUFFICES ASSUME NEW m \in Nat, NEW n \in Nat, k + 1 <= m, k + 1 <= n,
                          NEW h \in [0..m -> S], NEW j \in [0..n -> S],
                          Begins(h, m, g, s), Begins(j, n, g, s)
                   PROVE  h[k + 1] = j[k + 1]
      OBVIOUS
    <3>2. k \in Nat /\ k <= m /\ k <= n /\ k \in 0..(m - 1) /\ k \in 0..(n - 1)
      BY <3>1
    <3>3. h[k] = j[k]
      BY <3>1, <3>2
    <3> QED BY <3>1, <3>2, <3>3 DEF Begins
  <2> HIDE DEF U
  <2>3. U \in SUBSET Nat
    BY DEF U
  <2> QED BY <2>1, <2>2, <2>3, Induction
<1> DEFINE H(n) == CHOOSE h \in [0..n -> S] : Begins(h, n, g, s)
           f == [k \in Nat |-> H(k)[k]]
<1>3. \A n \in Nat : H(n) \in [0..n -> S] /\ Begins(H(n), n, g, s)
  BY <1>1
<1> HIDE DEF H
<1>4. f \in [Nat -> S]
  <2>1. \A n \in Nat : n \in 0..n
    OBVIOUS
  <2> QED BY <1>3, <2>1
<1>5. f[0] = s
  BY <1>3 DEF Begins
<1>6. ASSUME NEW k \in Nat PROVE f[k + 1] = g[f[k]]
  <2>1. k + 1 \in Nat /\ k <= k + 1 /\ k <= k /\ k \in 0..((k + 1) - 1)
    OBVIOUS
  <2>2. H(k + 1)[k] = H(k)[k]
    BY <1>2, <1>3, <2>1
  <2>3. H(k + 1)[k + 1] = g[H(k + 1)[k]]
    BY <1>3, <2>1 DEF Begins
  <2> QED BY <2>1, <2>2, <2>3
<1> HIDE DEF f
<1> QED BY <1>4, <1>5, <1>6 DEF Chain

\* One round of a slot, and one round of the slot traded unit by unit.
FastNext(t) == IF Over(t) THEN t ELSE Round(t)
Stuck(t) == (\A p \in Players : ~Served(t, p)) \/ t.unit + 1 >= Escape
SlowNext(t) == IF Stuck(t) THEN t ELSE Lockstep(t)

SoundSlots == {t \in SlotState : SoundSlot(t)}

\* The slots that Played goes through.
LEMMA PlayedIs ==
  ASSUME NEW s, SoundSlot(s)
  PROVE  \E f \in [Nat -> SoundSlots] :
           /\ f[0] = s /\ \A k \in Nat : f[k + 1] = FastNext(f[k])
           /\ Played(s) = f[MostUnits(s)]
<1> DEFINE g == [t \in SoundSlots |-> FastNext(t)]
           after == CHOOSE after : after = [k \in Nat |->
                      IF k = 0 THEN s ELSE LET t == after[k - 1] IN IF Over(t) THEN t ELSE Round(t)]
<1>1. Played(s) = after[MostUnits(s)]
  BY DEF Played
<1>2. g \in [SoundSlots -> SoundSlots] /\ s \in SoundSlots
  BY RoundSound DEF SoundSlots, SoundSlot, FastNext
<1>3. PICK f \in [Nat -> SoundSlots] : f[0] = s /\ \A k \in Nat : f[k + 1] = g[f[k]]
  <2> DEFINE S == SoundSlots
  <2>1. Maps(g, S) /\ s \in S
    BY <1>2 DEF Maps
  <2> HIDE DEF g, S, after
  <2>2. \E f : Chain(f, g, s, S)
    BY <2>1, Iterates
  <2> QED BY <2>2 DEF S, Chain
<1>4. \A k \in Nat : f[k + 1] = FastNext(f[k])
  BY <1>3
<1>5. f = [k \in Nat |->
             IF k = 0 THEN s ELSE LET t == f[k - 1] IN IF Over(t) THEN t ELSE Round(t)]
  <2>1. \A k \in Nat : k # 0 => k - 1 \in Nat /\ (k - 1) + 1 = k
    OBVIOUS
  <2>2. \A k \in Nat : k # 0 => f[k] = FastNext(f[k - 1])
    BY <1>4, <2>1
  <2> QED BY <1>3, <2>2 DEF FastNext
<1>6. after = [k \in Nat |->
                 IF k = 0 THEN s ELSE LET t == after[k - 1] IN IF Over(t) THEN t ELSE Round(t)]
  BY <1>5
<1> HIDE DEF after, g
<1>7. after = f
  <2>1. after = [k \in Nat |-> after[k]] /\ f = [k \in Nat |-> f[k]]
    BY <1>6
  <2> DEFINE T == {k \in Nat : after[k] = f[k]}
  <2>2. 0 \in T
    BY <1>3, <1>6
  <2>3. ASSUME NEW k \in T PROVE k + 1 \in T
    <3>1. k \in Nat /\ k + 1 \in Nat /\ k + 1 # 0 /\ (k + 1) - 1 = k
      OBVIOUS
    <3>2. after[k + 1] = FastNext(after[k])
      BY <1>6, <3>1 DEF FastNext
    <3> QED BY <1>4, <3>1, <3>2
  <2>4. T = Nat
    <3> HIDE DEF T
    <3>1. T \in SUBSET Nat
      BY DEF T
    <3> QED BY <2>2, <2>3, <3>1, Induction
  <2> QED BY <2>1, <2>4
<1> QED BY <1>1, <1>3, <1>4, <1>7

\* The slots that PlayedInLockstep goes through.
LEMMA PlayedInLockstepIs ==
  ASSUME NEW s, SoundSlot(s)
  PROVE  \E f \in [Nat -> SoundSlots] :
           /\ f[0] = s /\ \A k \in Nat : f[k + 1] = SlowNext(f[k])
           /\ PlayedInLockstep(s) = f[MostUnits(s)]
<1> DEFINE g == [t \in SoundSlots |-> SlowNext(t)]
           after == CHOOSE after : after = [k \in Nat |->
                      IF k = 0 THEN s
                      ELSE LET t == after[k - 1]
                           IN  IF (\A p \in Players : ~Served(t, p)) \/ t.unit + 1 >= Escape THEN t
                               ELSE Lockstep(t)]
<1>1. PlayedInLockstep(s) = after[MostUnits(s)]
  BY DEF PlayedInLockstep
<1>2. g \in [SoundSlots -> SoundSlots] /\ s \in SoundSlots
  BY LockstepSound DEF SoundSlots, SoundSlot, SlowNext
<1>3. PICK f \in [Nat -> SoundSlots] : f[0] = s /\ \A k \in Nat : f[k + 1] = g[f[k]]
  <2> DEFINE S == SoundSlots
  <2>1. Maps(g, S) /\ s \in S
    BY <1>2 DEF Maps
  <2> HIDE DEF g, S, after
  <2>2. \E f : Chain(f, g, s, S)
    BY <2>1, Iterates
  <2> QED BY <2>2 DEF S, Chain
<1>4. \A k \in Nat : f[k + 1] = SlowNext(f[k])
  BY <1>3
<1>5. f = [k \in Nat |->
             IF k = 0 THEN s
             ELSE LET t == f[k - 1]
                  IN  IF (\A p \in Players : ~Served(t, p)) \/ t.unit + 1 >= Escape THEN t
                      ELSE Lockstep(t)]
  <2>1. \A k \in Nat : k # 0 => k - 1 \in Nat /\ (k - 1) + 1 = k
    OBVIOUS
  <2>2. \A k \in Nat : k # 0 => f[k] = SlowNext(f[k - 1])
    BY <1>4, <2>1
  <2> QED BY <1>3, <2>2 DEF SlowNext, Stuck
<1>6. after = [k \in Nat |->
                 IF k = 0 THEN s
                 ELSE LET t == after[k - 1]
                      IN  IF (\A p \in Players : ~Served(t, p)) \/ t.unit + 1 >= Escape THEN t
                          ELSE Lockstep(t)]
  BY <1>5
<1> HIDE DEF after, g
<1>7. after = f
  <2>1. after = [k \in Nat |-> after[k]] /\ f = [k \in Nat |-> f[k]]
    BY <1>6
  <2> DEFINE T == {k \in Nat : after[k] = f[k]}
  <2>2. 0 \in T
    BY <1>3, <1>6
  <2>3. ASSUME NEW k \in T PROVE k + 1 \in T
    <3>1. k \in Nat /\ k + 1 \in Nat /\ k + 1 # 0 /\ (k + 1) - 1 = k
      OBVIOUS
    <3>2. after[k + 1] = SlowNext(after[k])
      BY <1>6, <3>1 DEF SlowNext, Stuck
    <3> QED BY <1>4, <3>1, <3>2
  <2>4. T = Nat
    <3> HIDE DEF T
    <3>1. T \in SUBSET Nat
      BY DEF T
    <3> QED BY <2>2, <2>3, <3>1, Induction
  <2> QED BY <2>1, <2>4
<1> QED BY <1>1, <1>3, <1>4, <1>7

-----------------------------------------------------------------------------
(* The two ways of serving a slot, round by round.                         *)

\* After k rounds the slot served with bulk settlements is the slot traded unit by unit,
\* or it is settled already and ahead of it.
Joined(f, t, offer, k) ==
  /\ SoundSlot(f) /\ SoundSlot(t) /\ Tallied(t) /\ t.offer = offer
  /\ Stuck(t) \/ t.unit >= k
  /\ f = t \/ (Ahead(f, t) /\ \A p \in Players : ~f.active[p])

\* A bulk settlement leaves nobody active.
LEMMA NobodyActive ==
  ASSUME NEW t, SoundSlot(t), NEW q \in Players
  PROVE  /\ Independent(t) => BothBulk(t).active[q] = FALSE
         /\ \A p \in Players : AloneBulk(t, p).active[q] = FALSE
<1>1. ASSUME Independent(t) PROVE BothBulk(t).active[q] = FALSE
  <2> DEFINE f == BothBulk(t)
  <2>1. f = [acct |-> [p \in Players |-> Settled(t, p).account],
             inv |-> [i \in Products |-> t.inv[i] + (Taken(t, 0, i) + Taken(t, 1, i))],
             offer |-> t.offer,
             active |-> [p \in Players |-> FALSE],
             unit |-> t.unit]
    BY <1>1, BothBulkIs
  <2> HIDE DEF f
  <2>2. f.active = [p \in Players |-> FALSE]
    BY <2>1
  <2> QED BY <2>2 DEF f
<1>2. ASSUME NEW p \in Players PROVE AloneBulk(t, p).active[q] = FALSE
  <2> DEFINE f == AloneBulk(t, p)
  <2>0. t \in SlotState
    BY DEF SoundSlot
  <2>1. f = [acct |-> [t.acct EXCEPT ![p] = Remainder(t, p).account],
             inv |-> [t.inv EXCEPT ![t.offer[p].target] = @ + Remainder(t, p).supply],
             offer |-> t.offer,
             active |-> [r \in Players |-> FALSE],
             unit |-> t.unit]
    BY <2>0, AloneBulkIs
  <2> HIDE DEF f
  <2>2. f.active = [r \in Players |-> FALSE]
    BY <2>1
  <2> QED BY <2>2 DEF f
<1> QED BY <1>1, <1>2

\* A step of either run keeps them joined.
LEMMA JoinedStep ==
  ASSUME ShedCapacity < Escape, NEW f, NEW t, NEW offer, NEW k \in Nat, Joined(f, t, offer, k)
  PROVE  Joined(FastNext(f), SlowNext(t), offer, k + 1)
<1>1. /\ SoundSlot(f) /\ SoundSlot(t) /\ Tallied(t) /\ t.offer = offer
      /\ Stuck(t) \/ t.unit >= k
  BY DEF Joined
<1>2. /\ t \in SlotState /\ t.unit \in Nat /\ \A p \in Players : t.offer[p].n \in Nat
      /\ Escape \in Nat /\ Escape > 1
  BY <1>1, SlotShape, MarketAssumption DEF SoundSlot
<1>3. /\ SoundSlot(SlowNext(t)) /\ Tallied(SlowNext(t)) /\ SlowNext(t).offer = offer
      /\ Stuck(SlowNext(t)) \/ SlowNext(t).unit >= k + 1
  <2>1. CASE Stuck(t)
    BY <1>1, <2>1 DEF SlowNext
  <2>2. CASE ~Stuck(t)
    <3>1. SlowNext(t) = Lockstep(t)
      BY <2>2 DEF SlowNext
    <3>2. Lockstep(t).offer = t.offer /\ Lockstep(t).unit = t.unit + 1
      BY <1>2, LockstepParts
    <3>3. t.unit + 1 >= k + 1
      BY <1>1, <1>2, <2>2
    <3> QED BY <1>1, <3>1, <3>2, <3>3, LockstepSound, LockstepTallied
  <2> QED BY <2>1, <2>2
<1>4. SoundSlot(FastNext(f))
  BY <1>1, RoundSound DEF FastNext
<1>5. \/ FastNext(f) = SlowNext(t)
      \/ Ahead(FastNext(f), SlowNext(t)) /\ \A p \in Players : ~FastNext(f).active[p]
  <2>1. CASE f = t /\ Over(t)
    <3>1. Stuck(t)
      BY <1>2, <2>1 DEF Over, Stuck, Served
    <3> QED BY <2>1, <3>1 DEF FastNext, SlowNext
  <2>2. CASE f = t /\ ~Over(t) /\ \A p \in Players : ~Served(t, p)
    <3>1. ~Independent(t)
      BY <1>2, <2>2 DEF Independent, Over, Served
    <3>2. ~ \E p \in Players : Alone(t, p)
      BY <2>2 DEF Alone
    <3>3. FastNext(f) = Lockstep(t) /\ SlowNext(t) = t
      BY <2>2, <3>1, <3>2 DEF FastNext, SlowNext, Stuck, Round
    <3>4. \A p \in Players : ~Able(t, p)
      BY <2>2 DEF Able
    <3>5. \A p \in Players : Lockstep(t).active[p] = FALSE /\ Lockstep(t).acct[p] = t.acct[p]
      BY <1>2, <3>4, LockstepParts
    <3>6. \A i \in Products : Lockstep(t).inv[i] = t.inv[i] + (Left(t, 0, i) + Left(t, 1, i))
      <4>1. \A i \in Products : /\ Moved(t, 0, i) = 0 /\ Moved(t, 1, i) = 0
                                /\ Left(t, 0, i) = 0 /\ Left(t, 1, i) = 0
        BY <2>2, <3>4 DEF Moved, Left, Players
      <4>2. \A i \in Products : Lockstep(t).inv[i] = t.inv[i] + (Moved(t, 0, i) + Moved(t, 1, i))
        BY <1>2, LockstepParts
      <4> QED BY <4>1, <4>2
    <3>7. Separate(t) /\ \A p \in Players : Closing(t, p) = t.acct[p]
      BY <2>2 DEF Separate, Closing, Players
    <3>8. Ahead(Lockstep(t), t)
      BY <3>5, <3>6, <3>7 DEF Ahead
    <3> QED BY <3>3, <3>5, <3>8
  <2>3. CASE f = t /\ ~Over(t) /\ \E p \in Players : Served(t, p)
    <3>1. ~(t.unit + 1 >= Escape)
      BY <1>2, <2>3 DEF Over, Independent
    <3>2. SlowNext(t) = Lockstep(t) /\ FastNext(f) = Round(t)
      BY <2>3, <3>1 DEF SlowNext, Stuck, FastNext
    <3>3. CASE Independent(t)
      <4>1. Round(t) = BothBulk(t)
        BY <3>3 DEF Round
      <4>2. Ahead(BothBulk(t), Lockstep(t))
        BY <1>1, <3>3, BothBulkAhead, AheadStep
      <4>3. \A p \in Players : ~BothBulk(t).active[p]
        BY <1>1, <3>3, NobodyActive
      <4> QED BY <3>2, <4>1, <4>2, <4>3
    <3>4. CASE ~Independent(t) /\ \E p \in Players : Alone(t, p)
      <4>1. PICK p \in Players : Alone(t, p)
        BY <3>4
      <4>2. Round(t) = AloneBulk(t, p)
        BY <3>4, <4>1, AloneOne DEF Round
      <4>3. Ahead(AloneBulk(t, p), Lockstep(t))
        BY <1>1, <4>1, AloneBulkAhead, AheadStep
      <4>4. \A q \in Players : ~AloneBulk(t, p).active[q]
        BY <1>1, NobodyActive
      <4> QED BY <3>2, <4>2, <4>3, <4>4
    <3>5. CASE ~Independent(t) /\ ~ \E p \in Players : Alone(t, p)
      BY <3>2, <3>5 DEF Round
    <3> QED BY <3>3, <3>4, <3>5
  <2>4. CASE Ahead(f, t) /\ \A p \in Players : ~f.active[p]
    <3>1. FastNext(f) = f
      BY <2>4 DEF FastNext, Over
    <3>2. Ahead(f, SlowNext(t))
      BY <1>1, <2>4, AheadStep DEF SlowNext
    <3> QED BY <2>4, <3>1, <3>2
  <2> QED BY <2>1, <2>2, <2>3, <2>4 DEF Joined
<1> QED BY <1>3, <1>4, <1>5 DEF Joined

\* No order of a slot is larger than MostUnits.
LEMMA MostUnitsMost ==
  ASSUME NEW s \in SlotState
  PROVE  MostUnits(s) \in Nat /\ \A p \in Players : s.offer[p].n <= MostUnits(s)
<1> DEFINE S == {s.offer[p].n : p \in Players}
           N == s.offer[0].n + s.offer[1].n
<1>1. s.offer[0].n \in Nat /\ s.offer[1].n \in Nat
  BY SlotShape DEF Players
<1>2. N \in Nat /\ S \in SUBSET (0..N) /\ S # {} /\ \A p \in Players : s.offer[p].n \in S
  <2>1. S = {s.offer[0].n, s.offer[1].n}
    BY DEF Players
  <2>2. N \in Nat /\ s.offer[0].n \in 0..N /\ s.offer[1].n \in 0..N
    BY <1>1
  <2>3. \A p \in Players : s.offer[p].n \in S
    OBVIOUS
  <2> HIDE DEF S, N
  <2> QED BY <2>1, <2>2, <2>3
<1>3. MostUnits(s) = Max(S)
  BY DEF MostUnits
<1> HIDE DEF S, N
<1>4. Max(S) \in S /\ \A y \in S : Max(S) >= y
  BY <1>2, MaxIn
<1>5. \A y \in S : y \in Nat
  BY <1>2
<1> QED BY <1>2, <1>3, <1>4, <1>5

\* From any sound slot both ways end with the same accounts and the same inventory.
LEMMA SameEnd ==
  ASSUME ShedCapacity < Escape, NEW s, SoundSlot(s), Tallied(s)
  PROVE  Played(s).acct = PlayedInLockstep(s).acct /\ Played(s).inv = PlayedInLockstep(s).inv
<1> DEFINE K == MostUnits(s)
<1>1. PICK fast \in [Nat -> SoundSlots] :
        /\ fast[0] = s /\ \A k \in Nat : fast[k + 1] = FastNext(fast[k])
        /\ Played(s) = fast[K]
  BY PlayedIs
<1>2. PICK slow \in [Nat -> SoundSlots] :
        /\ slow[0] = s /\ \A k \in Nat : slow[k + 1] = SlowNext(slow[k])
        /\ PlayedInLockstep(s) = slow[K]
  BY PlayedInLockstepIs
<1>3. s \in SlotState /\ s.unit \in Nat /\ K \in Nat /\ \A p \in Players : s.offer[p].n <= K
  BY SlotShape, MostUnitsMost DEF SoundSlot
<1> HIDE DEF K
<1> DEFINE T == {k \in Nat : Joined(fast[k], slow[k], s.offer, k)}
<1>4. T = Nat
  <2>1. 0 \in T
    <3>1. Joined(s, s, s.offer, 0)
      BY <1>3 DEF Joined
    <3> QED BY <1>1, <1>2, <3>1
  <2>2. ASSUME NEW k \in T PROVE k + 1 \in T
    <3>1. k \in Nat /\ k + 1 \in Nat /\ Joined(fast[k], slow[k], s.offer, k)
      OBVIOUS
    <3>2. Joined(FastNext(fast[k]), SlowNext(slow[k]), s.offer, k + 1)
      BY <3>1, JoinedStep
    <3>3. Joined(fast[k + 1], slow[k + 1], s.offer, k + 1)
      BY <1>1, <1>2, <3>1, <3>2
    <3> QED BY <3>1, <3>3
  <2> HIDE DEF T
  <2>3. T \in SUBSET Nat
    BY DEF T
  <2> QED BY <2>1, <2>2, <2>3, Induction
<1> DEFINE f == fast[K]
           t == slow[K]
<1>5. Joined(f, t, s.offer, K)
  BY <1>3, <1>4
<1> HIDE DEF T, f, t
<1>6. f.acct = t.acct /\ f.inv = t.inv
  <2>1. SoundSlot(f) /\ SoundSlot(t) /\ Tallied(t) /\ t.offer = s.offer
        /\ (Stuck(t) \/ t.unit >= K)
    BY <1>5 DEF Joined
  <2>2. /\ f.acct \in [Players -> Account] /\ t.acct \in [Players -> Account]
        /\ f.inv \in [Products -> Int] /\ t.inv \in [Products -> Int]
        /\ t.unit \in Nat /\ \A p \in Players : t.offer[p].n \in Nat
    BY <2>1, SlotShape DEF SoundSlot
  <2>3. CASE f = t
    BY <2>3
  <2>4. CASE Ahead(f, t)
    <3>1. ASSUME NEW p \in Players
          PROVE  Closing(t, p) = t.acct[p] /\ \A i \in Products : Left(t, p, i) = 0
      <4>1. CASE ~Served(t, p)
        BY <4>1 DEF Closing, Left
      <4>2. CASE Served(t, p)
        <5>1. t.unit < t.offer[p].n /\ t.offer[p].n <= K
          BY <1>3, <2>1, <4>2 DEF Served
        <5>2. Stuck(t)
          BY <1>3, <2>1, <2>2, <5>1
        <5>3. t.unit + 1 >= Escape
          BY <4>2, <5>2 DEF Stuck
        <5> QED BY <2>1, <2>4, <5>3, TalliedEnd DEF Ahead
      <4> QED BY <4>1, <4>2
    <3>2. \A p \in Players : f.acct[p] = t.acct[p]
      BY <2>4, <3>1 DEF Ahead
    <3>3. \A i \in Products : f.inv[i] = t.inv[i]
      <4> SUFFICES ASSUME NEW i \in Products PROVE f.inv[i] = t.inv[i]
        OBVIOUS
      <4>1. f.inv[i] = t.inv[i] + (Left(t, 0, i) + Left(t, 1, i)) /\ t.inv[i] \in Int
        BY <2>2, <2>4 DEF Ahead
      <4>2. Left(t, 0, i) = 0 /\ Left(t, 1, i) = 0
        BY <3>1 DEF Players
      <4> QED BY <4>1, <4>2
    <3> QED BY <2>2, <3>2, <3>3
  <2> QED BY <1>5, <2>3, <2>4 DEF Joined
<1> QED BY <1>1, <1>2, <1>6 DEF f, t

\* A slot in progress is tallied; the purchases and sales of earlier slots are over.
SlotTallied == phase = "loop" => Tallied(current)

\* Nobody is being served initially.
LEMMA TalliedInit ==
  Init => SlotTallied
BY DEF Init, SlotTallied

\* The slot's tally is inductive relative to the market's invariant.
LEMMA TalliedInductive ==
  MarketInv /\ SlotTallied /\ [Next]_vars => SlotTallied'
<1> SUFFICES ASSUME MarketInv, SlotTallied, [Next]_vars PROVE SlotTallied'
  OBVIOUS
<1>0. SoundSlot(current)
  BY SlotOfMarket DEF MarketInv
<1>1. CASE OpenSlot
  <2>1. PICK offer \in [Players -> Offers] : current' = Opened(acct, market_inventory, offer)
    BY <1>1 DEF OpenSlot
  <2>2. /\ \A p \in Players : current'.acct[p] = AtOnce(acct[p], offer[p])
        /\ current'.unit = 0 /\ current'.offer = offer
    BY <2>1 DEF Opened
  <2>3. \A p \in Players : offer[p] \in Offer
    BY MarketAssumption
  <2>4. \A p \in Players : Sound(current'.acct[p])
    BY <1>0, <2>2, <2>3, AtOnceSound DEF SoundSlot, acct
  <2>5. Tallied(current')
    <3> SUFFICES ASSUME NEW p \in Players
                 PROVE  LET a == current'.acct[p]
                            o == current'.offer[p]
                        IN  /\ o.op = "BUY_PRODUCT" => a.shed_used >= current'.unit
                            /\ o.op = "SELL"
                                 => a.shed[o.target] + current'.unit <= ShedCapacity
      BY DEF Tallied
    <3> DEFINE a == current'.acct[p]
               o == offer[p]
    <3>1. Sound(a) /\ o \in Offer /\ current'.offer[p] = o /\ current'.unit = 0
      BY <2>2, <2>3, <2>4
    <3> HIDE DEF a, o
    <3>2. /\ a.shed_used \in Nat /\ a.shed_used <= ShedCapacity /\ ShedCapacity \in Nat
          /\ \A i \in Items : a.shed[i] \in Nat /\ a.shed[i] <= a.shed_used
      BY <3>1, SoundShed, MarketAssumption DEF Sound
    <3>3. o.op = "SELL" => o.target \in Items
      BY <3>1, OfferCases DEF Items
    <3>4. /\ o.op = "BUY_PRODUCT" => a.shed_used >= 0
          /\ o.op = "SELL" => a.shed[o.target] + 0 <= ShedCapacity
      BY <3>2, <3>3
    <3> QED BY <3>1, <3>4 DEF a
  <2> QED BY <2>5 DEF SlotTallied
<1>2. CASE PlayRound
  <2>1. current' = Round(current) /\ Tallied(current)
    BY <1>2 DEF PlayRound, SlotTallied
  <2> DEFINE s == current
  <2>2. Tallied(Round(s))
    <3>1. SoundSlot(s) /\ Tallied(s) /\ s \in SlotState
      BY <1>0, <2>1 DEF SoundSlot
    <3> HIDE DEF s
    <3>2. CASE Independent(s)
      <4>1. Round(s) = BothBulk(s)
        BY <3>2 DEF Round
      <4>2. \A p \in Players : BothBulk(s).active[p] = FALSE
        BY <3>1, <3>2, NobodyActive
      <4> QED BY <4>1, <4>2 DEF Tallied
    <3>3. CASE ~Independent(s) /\ \E p \in Players : Alone(s, p)
      <4>1. PICK p \in Players : Alone(s, p)
        BY <3>3
      <4>2. Round(s) = AloneBulk(s, p)
        BY <3>3, <4>1, AloneOne DEF Round
      <4>3. \A q \in Players : AloneBulk(s, p).active[q] = FALSE
        BY <3>1, NobodyActive
      <4> QED BY <4>2, <4>3 DEF Tallied
    <3>4. CASE ~Independent(s) /\ ~ \E p \in Players : Alone(s, p)
      BY <3>1, <3>4, LockstepTallied DEF Round
    <3> QED BY <3>2, <3>3, <3>4
  <2> QED BY <2>1, <2>2 DEF SlotTallied
<1>3. CASE UnitsAct \/ CloseSlot \/ TownTurn
  BY <1>3 DEF UnitsAct, CloseSlot, TownTurn, SlotTallied
<1>4. CASE UNCHANGED vars
  BY <1>4 DEF vars, SlotTallied, Tallied
<1> QED BY <1>1, <1>2, <1>3, <1>4 DEF Next, Rest

\* Serving a slot with bulk settlements, where the code allows them, gives every account and
\* the market the same as trading it unit by unit - as long as the rounds of a slot are more
\* than the shed has places, which is what the escape of 100 000 rounds is for
\* (advance_state, apply_market_bulk: "The interleaved path remains the reference path").
THEOREM BulkIsLockstep ==
  ASSUME ShedCapacity < Escape
  PROVE  Spec => []BulkMatchesLockstep
<1>1. MarketInv /\ SlotTallied => BulkMatchesLockstep
  <2> SUFFICES ASSUME MarketInv, SlotTallied, phase = "loop"
               PROVE  /\ Played(current).acct = PlayedInLockstep(current).acct
                      /\ Played(current).inv = PlayedInLockstep(current).inv
    BY DEF BulkMatchesLockstep
  <2>1. SoundSlot(current) /\ Tallied(current)
    BY SlotOfMarket DEF MarketInv, SlotTallied
  <2> DEFINE s == current
  <2>2. SoundSlot(s) /\ Tallied(s)
    BY <2>1
  <2> HIDE DEF s
  <2>3. Played(s).acct = PlayedInLockstep(s).acct /\ Played(s).inv = PlayedInLockstep(s).inv
    BY <2>2, SameEnd
  <2> QED BY <2>3 DEF s
<1>2. Spec => []SlotTallied
  BY TalliedInit, TalliedInductive, MarketAlways, PTL DEF Spec
<1> QED BY <1>1, <1>2, MarketAlways, PTL
-----------------------------------------------------------------------------
(* The masks of the market.                                                *)

\* The round of the only remaining order.
LEMMA AloneRound ==
  ASSUME NEW s, NEW p \in Players, ~Independent(s), Alone(s, p)
  PROVE  Round(s) = AloneBulk(s, p)
BY AloneOne DEF Round

\* Only the accounts of players whose order is possible change in a
\* round, and the offers stay.
LEMMA OnlyPossible ==
  ASSUME NEW s, SoundSlot(s), NEW p \in Players
  PROVE  /\ Round(s).offer = s.offer
         /\ Round(s).acct[p] # s.acct[p] => Possible(s.acct[p], s.offer[p], QuoteOf(s, p))
<1>0. /\ s \in SlotState /\ Sound(s.acct[p]) /\ s.offer[p] \in Offer /\ s.offer[p].n \in Nat
      /\ s.inv \in [Products -> Int] /\ s.unit \in Nat /\ DOMAIN s.acct = Players
  BY SlotShape DEF SoundSlot, SlotState
<1>1. CASE Independent(s)
  <2>1. /\ Round(s) = BothBulk(s) /\ Bulkable(s.offer[p])
        /\ BothBulk(s).offer = s.offer /\ BothBulk(s).acct[p] = Settled(s, p).account
    BY <1>1, BothBulkIs DEF Round, Independent
  <2> QED BY <1>0, <2>1, BulkNothing DEF Settled, QuoteOf
<1>2. CASE ~Independent(s) /\ \E q \in Players : Alone(s, q)
  <2>1. PICK q \in Players : Alone(s, q)
    BY <1>2
  <2>2. Round(s) = AloneBulk(s, q)
    BY <1>2, <2>1, AloneRound
  <2>b. AloneBulk(s, q) = [acct |-> [s.acct EXCEPT ![q] = Remainder(s, q).account],
            inv |-> [s.inv EXCEPT ![s.offer[q].target] = @ + Remainder(s, q).supply],
            offer |-> s.offer,
            active |-> [r \in Players |-> FALSE],
            unit |-> s.unit]
    BY <1>0, AloneBulkIs
  <2>3. /\ AloneBulk(s, q).offer = s.offer
        /\ AloneBulk(s, q).acct = [s.acct EXCEPT ![q] = Remainder(s, q).account]
    BY <2>b
  <2>4. CASE p = q
    <3>1. s.offer[p].n - s.unit \in Nat /\ Bulkable(s.offer[p])
      BY <1>0, <2>1, <2>4 DEF Alone, Served
    <3>2. Round(s).acct[p] = Remainder(s, p).account
      BY <1>0, <2>2, <2>3, <2>4
    <3> QED BY <1>0, <2>2, <2>3, <3>1, <3>2, BulkNothing DEF Remainder, QuoteOf
  <2>5. CASE p # q
    BY <2>2, <2>3, <2>5
  <2> QED BY <2>4, <2>5
<1>3. CASE ~Independent(s) /\ ~(\E q \in Players : Alone(s, q))
  <2>1. Round(s) = Lockstep(s)
    BY <1>3 DEF Round
  <2>2. /\ Lockstep(s).offer = s.offer
        /\ Lockstep(s).acct[p] = IF Able(s, p)
                                 THEN Committed(s.acct[p], s.offer[p], QuoteOf(s, p))
                                 ELSE s.acct[p]
    BY <1>0, LockstepIs
  <2> QED BY <2>1, <2>2 DEF Able
<1> QED BY <1>1, <1>2, <1>3

\* Trade leaves hands and plots as they are.
SamePlots(a, b) == b.hires = a.hires /\ b.lands = a.lands

LEMMA BulkPlots ==
  ASSUME NEW a, Sound(a), NEW o \in Offer, NEW n, NEW inv
  PROVE  SamePlots(a, Bulk(a, o, n, inv).account)
BY DEF SamePlots, Bulk, Shelved, Sound, Account

LEMMA RoundPlots ==
  ASSUME NEW s, SoundSlot(s), NEW p \in Players
  PROVE  SamePlots(s.acct[p], Round(s).acct[p])
<1>0. /\ s \in SlotState /\ Sound(s.acct[p]) /\ s.offer[p] \in Offer
      /\ DOMAIN s.acct = Players
  BY SlotShape DEF SoundSlot, SlotState
<1>1. CASE Independent(s)
  <2>1. Round(s) = BothBulk(s) /\ BothBulk(s).acct[p] = Settled(s, p).account
    BY <1>1, BothBulkIs DEF Round
  <2> QED BY <1>0, <2>1, BulkPlots DEF Settled
<1>2. CASE ~Independent(s) /\ \E q \in Players : Alone(s, q)
  <2>1. PICK q \in Players : Alone(s, q)
    BY <1>2
  <2>2. Round(s) = AloneBulk(s, q)
    BY <1>2, <2>1, AloneRound
  <2>b. AloneBulk(s, q) = [acct |-> [s.acct EXCEPT ![q] = Remainder(s, q).account],
            inv |-> [s.inv EXCEPT ![s.offer[q].target] = @ + Remainder(s, q).supply],
            offer |-> s.offer,
            active |-> [r \in Players |-> FALSE],
            unit |-> s.unit]
    BY <1>0, AloneBulkIs
  <2>3. AloneBulk(s, q).acct = [s.acct EXCEPT ![q] = Remainder(s, q).account]
    BY <2>b
  <2>4. Round(s).acct[p] = IF p = q THEN Remainder(s, p).account ELSE s.acct[p]
    BY <1>0, <2>2, <2>3
  <2>5. SamePlots(s.acct[p], Remainder(s, p).account)
    BY <1>0, BulkPlots DEF Remainder
  <2> QED BY <2>4, <2>5 DEF SamePlots
<1>3. CASE ~Independent(s) /\ ~(\E q \in Players : Alone(s, q))
  <2>1. Round(s).acct[p] = IF Able(s, p)
                           THEN Committed(s.acct[p], s.offer[p], QuoteOf(s, p))
                           ELSE s.acct[p]
    BY <1>0, <1>3, LockstepIs DEF Round
  <2>2. CASE Able(s, p)
    <3>1. s.offer[p].op \in {"BUY_SEED", "BUY_PRODUCT", "BUY_ANIMAL", "SELL"}
      BY <2>2 DEF Able, Possible
    <3>2. SamePlots(s.acct[p], Committed(s.acct[p], s.offer[p], QuoteOf(s, p)))
      BY <1>0, <3>1 DEF SamePlots, Committed, Shelved, Sound, Account
    <3> QED BY <2>1, <2>2, <3>2
  <2>3. CASE ~Able(s, p)
    BY <2>1, <2>3 DEF SamePlots
  <2> QED BY <2>2, <2>3
<1> QED BY <1>1, <1>2, <1>3

\* The price of a hand rises with the hands taken on, and no multiple of it is lower.
LEMMA FibonacciRises ==
  ASSUME NEW j \in 0..MaxHands, NEW k \in 0..MaxHands, j <= k
  PROVE  Fibonacci[j] <= Fibonacci[k]
<1>0. MaxHands \in Nat /\ j \in Nat /\ k \in Nat
  BY MarketAssumption
<1> DEFINE T == {n \in Nat : j + n <= MaxHands => Fibonacci[j] <= Fibonacci[j + n]}
<1>1. 0 \in T
  BY <1>0, MasksAssumption
<1>2. ASSUME NEW n \in T PROVE n + 1 \in T
  <2> SUFFICES ASSUME j + (n + 1) <= MaxHands
               PROVE  Fibonacci[j] <= Fibonacci[j + (n + 1)]
    OBVIOUS
  <2> DEFINE m == j + n
  <2>1. /\ m \in 0..MaxHands /\ m + 1 \in 0..MaxHands /\ j + (n + 1) = m + 1 /\ m \in Nat
        /\ Fibonacci[j] <= Fibonacci[m]
    BY <1>0
  <2> HIDE DEF m
  <2>2. Fibonacci[m] \in Nat /\ Fibonacci[m + 1] \in Nat /\ Fibonacci[j] \in Nat
    BY <2>1, MasksAssumption
  <2>3. Fibonacci[m] <= Fibonacci[m + 1]
    <3>1. CASE m = 0
      BY <2>1, <3>1, MasksAssumption
    <3>2. CASE m # 0
      <4>1. m - 1 \in 0..MaxHands /\ (m + 1) - 1 = m /\ (m + 1) - 2 = m - 1 /\ ~(m + 1 <= 1)
        BY <1>0, <2>1, <3>2
      <4>2. Fibonacci[m + 1] = Fibonacci[m] + Fibonacci[m - 1] /\ Fibonacci[m - 1] \in Nat
        BY <2>1, <4>1, MasksAssumption
      <4> QED BY <2>2, <4>2
    <3> QED BY <3>1, <3>2
  <2> QED BY <2>1, <2>2, <2>3
<1> HIDE DEF T
<1>3. T = Nat
  BY <1>1, <1>2, Induction DEF T
<1>4. k - j \in T /\ j + (k - j) = k /\ k <= MaxHands
  BY <1>0, <1>3
<1> QED BY <1>4 DEF T

LEMMA NoCheaperHand ==
  ASSUME NEW k \in 0..MaxHands, FarmHandCostMult # 0
  PROVE  Fibonacci[k] \in Nat /\ HireCost[k] \in Nat /\ Fibonacci[k] <= HireCost[k]
<1> DEFINE f == Fibonacci[k]
           x == FarmHandCostMult - 1
<1>1. f \in Nat /\ x \in Nat /\ FarmHandCostMult = x + 1 /\ HireCost[k] = FarmHandCostMult * f
  BY MasksAssumption
<1> HIDE DEF f, x
<1>2. \A y, z \in Nat : y * z \in Nat /\ (y + 1) * z = y * z + z
  OBVIOUS
<1>3. HireCost[k] = x * f + f /\ x * f \in Nat
  BY <1>1, <1>2
<1> QED BY <1>1, <1>3 DEF f

\* What the observation is to the accounts of the turn: sound accounts, with no more hands
\* and no more plots.
SinceObserved ==
  /\ \A i \in Products : observed.prices[i] \in Int
  /\ \A p \in Players : /\ Sound(observed.acct[p])
                        /\ observed.acct[p].hires <= acct[p].hires
                        /\ observed.acct[p].lands <= acct[p].lands

LEMMA ObservedNow ==
  ASSUME MarketInv, observed = Observation
  PROVE  SinceObserved
<1>1. SoundSlot(current) /\ \A i \in Products : market_prices[i] \in Int
  BY SlotOfMarket DEF MarketInv, MarketOK, TypeOK
<1>2. \A p \in Players : Sound(acct[p]) /\ acct[p].hires \in Int /\ acct[p].lands \in Int
  BY <1>1 DEF SoundSlot, acct, Sound, Account
<1>3. observed.acct = acct /\ observed.prices = market_prices
  BY DEF Observation
<1> QED BY <1>1, <1>2, <1>3 DEF SinceObserved

\* An order that changes an account at once was offered or made possible since.
LEMMA ToldAtOnce ==
  ASSUME MarketInv, SinceObserved, NEW p \in Players, NEW o \in Offer,
         AtOnce(acct[p], o) # acct[p], ~Offered(p, o)
  PROVE  MadePossible(p, o)
<1> DEFINE a == acct[p]
           b == observed.acct[p]
<1>1. Sound(a) /\ Sound(b) /\ b.hires <= a.hires /\ b.lands <= a.lands
  BY SlotOfMarket DEF SinceObserved, MarketInv, SoundSlot, acct
<1>2. /\ a.hires \in Nat /\ b.hires \in Nat /\ a.lands \in 0..3 /\ b.lands \in 0..3
      /\ a.money \in Int /\ b.money \in Int /\ MaxHands \in Nat
  BY <1>1, MarketAssumption DEF Sound, Account
<1> HIDE DEF a, b
<1>3. CASE o.op = "HIRE"
  <2>1. a.hires < MaxHands /\ a.money >= HireCost[a.hires]
    BY <1>3 DEF AtOnce, Hired, a
  <2> SUFFICES ASSUME ~(a.money > b.money), FarmHandCostMult # 0
               PROVE  FALSE
    BY <1>3 DEF MadePossible, Richer, a, b
  <2>2. /\ a.hires \in 0..MaxHands /\ b.hires \in 0..MaxHands
    BY <1>1, <1>2, <2>1
  <2>3. /\ Fibonacci[b.hires] <= Fibonacci[a.hires] /\ Fibonacci[a.hires] <= HireCost[a.hires]
        /\ Fibonacci[a.hires] \in Int /\ HireCost[a.hires] \in Int /\ Fibonacci[b.hires] \in Int
    BY <1>1, <2>2, FibonacciRises, NoCheaperHand
  <2>4. ~(b.hires >= MaxHands) /\ ~(b.money < Fibonacci[b.hires])
    BY <1>1, <1>2, <2>1, <2>3
  <2> QED BY <1>3, <2>4 DEF Offered, OperationMask, MarketOperations, b
<1>4. CASE o.op = "BUY_LAND"
  <2>1. a.lands < 3 /\ a.money >= LandPrices[a.lands + 1]
    BY <1>4 DEF AtOnce, Landed, a
  <2> SUFFICES ASSUME ~(a.money > b.money)
               PROVE  FALSE
    BY <1>4 DEF MadePossible, Richer, a, b
  <2>2. a.lands + 1 \in 1..3 /\ b.lands + 1 \in 1..3 /\ b.lands + 1 <= a.lands + 1
    BY <1>1, <1>2, <2>1
  <2>3. /\ LandPrices[b.lands + 1] <= LandPrices[a.lands + 1]
        /\ LandPrices[b.lands + 1] \in Int /\ LandPrices[a.lands + 1] \in Int
    BY <2>2, MasksAssumption, MarketAssumption
  <2>4. ~(b.lands >= 3) /\ ~(b.money < LandPrices[b.lands + 1])
    BY <1>1, <1>2, <2>1, <2>3
  <2> QED BY <1>4, <2>4 DEF Offered, OperationMask, MarketOperations, b
<1> QED BY <1>3, <1>4 DEF AtOnce

\* So was an order that is traded in a round.
LEMMA ToldInRound ==
  ASSUME MarketInv, SinceObserved, NEW p \in Players, NEW o \in Offer,
         Possible(acct[p], o, Quote(o, market_inventory)), ~Offered(p, o)
  PROVE  MadePossible(p, o)
<1> DEFINE a == acct[p]
           b == observed.acct[p]
           i == o.target
<1>1. /\ Sound(a) /\ Sound(b) /\ market_inventory \in [Products -> Int]
      /\ \A j \in Products : observed.prices[j] \in Int
  BY SlotOfMarket
     DEF SinceObserved, MarketInv, SoundSlot, SlotState, acct, market_inventory
<1>2. /\ a.money \in Int /\ b.money \in Int /\ a.shed_used \in Nat /\ b.shed_used \in Nat
      /\ Room(a) = ShedCapacity - a.shed_used /\ Room(b) = ShedCapacity - b.shed_used
      /\ ShedCapacity \in Nat
      /\ \A j \in Items : a.shed[j] \in Nat /\ b.shed[j] \in Nat
  BY <1>1, SoundShed, MarketAssumption DEF Sound, Account
<1>3. \/ o.op \in {"BUY_SEED", "BUY_PRODUCT", "BUY_ANIMAL", "SELL"}
         /\ i \notin TargetMask(b, observed.prices)
      \/ o.op \notin OperationMask(b)
  BY DEF Possible, Offered
<1>4. /\ o.op \in {"BUY_SEED", "BUY_PRODUCT", "BUY_ANIMAL", "SELL"}
      /\ i \notin TargetMask(b, observed.prices)
  BY <1>3 DEF Possible, OperationMask, MarketOperations
<1> HIDE DEF a, b
<1>5. CASE o.op = "BUY_SEED"
  <2>1. i \in Crops /\ a.money >= SeedCost[i] /\ SeedCost[i] \in Int
    BY <1>5, OfferCases, MarketAssumption DEF Possible, Quote, a
  <2>2. ~(b.money >= SeedCost[i])
    BY <1>4, <2>1 DEF TargetMask
  <2>3. a.money > b.money
    BY <1>2, <2>1, <2>2
  <2> QED BY <1>5, <2>3 DEF MadePossible, Richer, a, b
<1>6. CASE o.op = "BUY_PRODUCT"
  <2>1. i \in Buyable /\ i \in Products
    BY <1>6, OfferCases
  <2> DEFINE m == market_inventory[i]
             r == observed.prices[i]
  <2>2. m \in Int /\ r \in Int /\ m - 1 \in Int /\ (m - 1) + 1 = m
    BY <1>1, <2>1
  <2>3. a.shed_used < ShedCapacity /\ a.money >= Price(i, m - 1)
    BY <1>6 DEF Possible, Quote, a
  <2>4. ~(b.shed_used < ShedCapacity) \/ ~(b.money >= r)
    BY <1>4, <2>1 DEF TargetMask
  <2> HIDE DEF m, r, i
  <2>5. Price(i, m) \in Int /\ Price(i, m - 1) \in Int /\ Price(i, m) <= Price(i, m - 1)
    <3>1. Price(i, (m - 1) + 1) <= Price(i, m - 1)
      BY <2>1, <2>2, PriceFalls
    <3>2. Price(i, m) \in Nat /\ Price(i, m - 1) \in Nat
      BY <2>1, <2>2, PriceFloor
    <3> QED BY <2>2, <3>1, <3>2
  <2>6. a.money > b.money \/ Room(a) > Room(b) \/ Price(i, m) < r
    BY <1>2, <2>2, <2>3, <2>4, <2>5
  <2> QED BY <1>6, <2>6 DEF MadePossible, Richer, Roomier, Cheaper, a, b, m, r, i
<1>7. CASE o.op = "BUY_ANIMAL"
  <2>1. /\ i \in Animals /\ a.shed_used < ShedCapacity /\ a.money >= AnimalCost[i]
        /\ AnimalCost[i] \in Int
    BY <1>7, OfferCases, MarketAssumption DEF Possible, Quote, a
  <2>2. ~(b.shed_used < ShedCapacity) \/ ~(b.money >= AnimalCost[i])
    BY <1>4, <2>1 DEF TargetMask
  <2>3. a.money > b.money \/ Room(a) > Room(b)
    BY <1>2, <2>1, <2>2
  <2> QED BY <1>7, <2>3 DEF MadePossible, Richer, Roomier, a, b
<1>8. CASE o.op = "SELL"
  <2>1. i \in Products /\ i \in Items /\ a.shed[i] > 0
    BY <1>8, OfferCases DEF Possible, a, Items
  <2>2. ~(b.shed[i] > 0)
    BY <1>4, <2>1 DEF TargetMask
  <2>3. a.shed[i] > b.shed[i]
    BY <1>2, <2>1, <2>2
  <2> QED BY <1>8, <2>3 DEF MadePossible, Restocked, a, b
<1> QED BY <1>4, <1>5, <1>6, <1>7, <1>8

\* The observation lasts: in every step until the next one hands and plots only increase.
LEMMA SinceInductive ==
  ASSUME MarketInv, MarketInv', SinceObserved, Next,
         observed' = IF phase' = "units" THEN Observation' ELSE observed
  PROVE  SinceObserved'
<1>0. SoundSlot(current) /\ SoundSlot(current')
  BY DEF MarketInv, MarketOK, TypeOK, AccountsSound, SoundSlot, Sound, acct, SlotState
<1>1. \A p \in Players : /\ Sound(acct[p]) /\ Sound(acct'[p])
                         /\ acct[p].hires \in Int /\ acct[p].lands \in Int
                         /\ acct'[p].hires \in Int /\ acct'[p].lands \in Int
                         /\ observed.acct[p].hires \in Int /\ observed.acct[p].lands \in Int
  BY <1>0 DEF SoundSlot, acct, SinceObserved, Sound, Account
<1>2. CASE phase' = "units"
  <2>1. observed'.acct = acct' /\ observed'.prices = market_prices'
    BY <1>2 DEF Observation
  <2>2. \A i \in Products : market_prices'[i] \in Int
    BY DEF MarketInv, MarketOK, TypeOK
  <2> QED BY <1>1, <2>1, <2>2 DEF SinceObserved
<1>3. CASE phase' # "units"
  <2>0. observed' = observed
    BY <1>3
  <2>1. \A p \in Players : acct[p].hires <= acct'[p].hires /\ acct[p].lands <= acct'[p].lands
    <3> SUFFICES ASSUME NEW p \in Players
                 PROVE  acct[p].hires <= acct'[p].hires /\ acct[p].lands <= acct'[p].lands
      OBVIOUS
    <3>1. CASE UnitsAct
      <4>1. PICK q \in Players, i \in Items, k \in Int :
               current' = [current EXCEPT !.acct[q] = Shelved(@, i, k, 0)]
        <5>1. PICK q \in Players, i \in Items : \E k \in (-acct[q].shed[i])..Room(acct[q]) :
                 current' = [current EXCEPT !.acct[q] = Shelved(@, i, k, 0)]
          BY <3>1 DEF UnitsAct
        <5> QED BY <5>1
      <4>2. acct' = [acct EXCEPT ![q] = Shelved(@, i, k, 0)] /\ DOMAIN acct = Players
        BY <1>0, <4>1 DEF SoundSlot, SlotState, acct
      <4>3. SamePlots(acct[p], acct'[p])
        BY <1>1, <4>2 DEF SamePlots, Shelved, Sound, Account
      <4> QED BY <1>1, <4>3 DEF SamePlots
    <3>2. CASE OpenSlot
      <4>1. PICK offer \in [Players -> Offers] : current' = Opened(acct, market_inventory, offer)
        BY <3>2 DEF OpenSlot
      <4>2. acct'[p] = AtOnce(acct[p], offer[p])
        BY <4>1 DEF Opened, acct
      <4>3. Sound(acct[p])
        BY <1>1
      <4> QED BY <4>2, <4>3 DEF AtOnce, Hired, Landed, Sound, Account
    <3>3. CASE PlayRound
      <4>1. acct'[p] = Round(current).acct[p]
        BY <3>3 DEF PlayRound, acct
      <4>2. SamePlots(current.acct[p], Round(current).acct[p])
        BY <1>0, RoundPlots
      <4> QED BY <1>1, <4>1, <4>2 DEF SamePlots, acct
    <3>4. CASE CloseSlot
      BY <1>1, <3>4 DEF CloseSlot, Resting, acct
    <3>5. CASE TownTurn \/ Rest
      BY <1>1, <1>3, <3>5 DEF TownTurn, Rest, vars, acct
    <3> QED BY <3>1, <3>2, <3>3, <3>4, <3>5 DEF Next
  <2> QED BY <1>1, <2>0, <2>1 DEF SinceObserved
<1> QED BY <1>2, <1>3

\* The masks that were written before the units acted hide no trade that the state they were
\* written from allowed, in any slot or round of the turn: what was not offered and yet is
\* traded has become possible since, through more money, room or goods, a lower price, or
\* hands that cost nothing (write_action_masks against apply_market_action and
\* apply_market_bulk).
THEOREM TradesToldHold == ObservedSpec => TradesTold
<1> DEFINE Told == phase' = "loop" =>
                     \A p \in Players : LET o == current'.offer[p] IN
                        acct'[p] # acct[p] /\ ~Offered(p, o) => MadePossible(p, o)
<1>1. ASSUME MarketInv, SinceObserved, [Next]_vars PROVE [Told]_vars
  <2> SUFFICES ASSUME Next, phase' = "loop", NEW p \in Players,
                      acct'[p] # acct[p], ~Offered(p, current'.offer[p])
               PROVE  MadePossible(p, current'.offer[p])
    BY <1>1
  <2>1. SoundSlot(current) /\ DOMAIN acct = Players
    BY <1>1, SlotOfMarket DEF MarketInv, SoundSlot, SlotState, acct
  <2>2. CASE OpenSlot
    <3>1. PICK offer \in [Players -> Offers] : current' = Opened(acct, market_inventory, offer)
      BY <2>2 DEF OpenSlot
    <3>2. acct'[p] = AtOnce(acct[p], offer[p]) /\ current'.offer[p] = offer[p]
      BY <3>1 DEF Opened, acct
    <3>3. offer[p] \in Offer
      BY MarketAssumption
    <3> QED BY <1>1, <3>2, <3>3, ToldAtOnce
  <2>3. CASE PlayRound
    <3>1. current' = Round(current)
      BY <2>3 DEF PlayRound
    <3>2. /\ current'.offer = current.offer
          /\ Possible(current.acct[p], current.offer[p], QuoteOf(current, p))
      BY <2>1, <3>1, OnlyPossible DEF acct
    <3>3. current.offer[p] \in Offer
      BY <2>1, SlotShape DEF SoundSlot
    <3> QED BY <1>1, <3>2, <3>3, ToldInRound DEF QuoteOf, acct, market_inventory
  <2>4. CASE UnitsAct \/ CloseSlot \/ TownTurn \/ Rest
    BY <2>4, <1>1 DEF UnitsAct, CloseSlot, TownTurn, Rest, vars
  <2> QED BY <2>2, <2>3, <2>4 DEF Next
<1>2. ObservedInit => Init /\ SinceObserved
  BY MarketInit, ObservedNow DEF ObservedInit
<1>3. MarketInv /\ MarketInv' /\ SinceObserved /\ [ObservedNext]_<<vars, observed>>
        => SinceObserved'
  <2>1. CASE ObservedNext
    BY <2>1, SinceInductive DEF ObservedNext
  <2>2. CASE UNCHANGED <<vars, observed>>
    BY <2>2 DEF vars, SinceObserved, acct
  <2> QED BY <2>1, <2>2
<1>4. [ObservedNext]_<<vars, observed>> => [Next]_vars
  BY DEF ObservedNext
<1>5. ObservedSpec => Spec
  BY <1>2, <1>4, PTL DEF ObservedSpec, Spec
<1>6. ObservedSpec => [](MarketInv /\ SinceObserved)
  BY <1>2, <1>3, <1>5, MarketAlways, PTL DEF ObservedSpec
<1>7. MarketInv /\ SinceObserved /\ [Next]_vars => [Told]_vars
  BY <1>1
<1>8. ObservedSpec => [][Told]_vars
  BY <1>4, <1>6, <1>7, PTL DEF ObservedSpec
<1> QED BY <1>8 DEF TradesTold
=============================================================================
