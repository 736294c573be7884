----------------------------- MODULE FarmProofs -----------------------------
(***************************************************************************)
(* Theorems about Farm.tla, for every board size, calendar, shed, set of   *)
(* items and set of orders.                                                *)
(*                                                                         *)
(* First what the operations of Field.tla make of a tile: a tile again,    *)
(* put to one use only, and vacant if it was vacant and nobody put         *)
(* anything there (Sound and StaysVacant lemmas).  Then what the moves of  *)
(* goods in Stores.tla preserve: the shed's running total and the order of *)
(* the stamps.  Last the farm: its inductive invariant is a conjunction of *)
(* six parts, one per concern; each part has a lemma that every step       *)
(* preserves it, given the others before the step.  Then what the farm's   *)
(* steps do to the life on it: deaths, births, harvests and the extra      *)
(* yield of each are due and given.  Last the action masks                 *)
(* of Masks.tla, which are older than the state a unit acts in: an order   *)
(* they exclude does nothing, but for goods that came in the turn; the     *)
(* forecasts of Lifecycle.tla, which come true for a tile that is tended;  *)
(* the handling of goods, which makes none and loses them only to a full   *)
(* shed; and the wire of Wire.tla, through which a farm is seen as it is   *)
(* and an order arrives as it was given.                                   *)
(***************************************************************************)
EXTENDS Masks, Wire, FiniteSetTheorems, NaturalsInduction, WellFoundedInduction, TLAPS

(* Induction over the naturals as a fact about sets, and what it gives for *)
(* functions that are defined from one place to the next.                  *)

\* A set of naturals that is not empty has a least member.
LEMMA LeastNatural ==
  ASSUME NEW T \in SUBSET Nat, T # {}
  PROVE  \E x \in T : \A y \in T : x <= y
<1> DEFINE R == {ss \in Nat \X Nat : ss[1] < ss[2]}
<1>1. OpToRel(<, Nat) = R
  BY DEF OpToRel
<1>2. IsWellFoundedOn(R, Nat)
  BY <1>1, NatLessThanWellFounded
<1> HIDE DEF R
<1>3. PICK x \in T : \A y \in T : ~(<<y, x>> \in R)
  BY <1>2, WFMin
<1> USE DEF R
<1>4. ASSUME NEW y \in T PROVE x <= y
  <2>1. SUFFICES ASSUME y < x PROVE FALSE
    OBVIOUS
  <2>2. <<y, x>> \in Nat \X Nat /\ <<y, x>>[1] < <<y, x>>[2]
    BY <2>1
  <2> QED BY <2>2, <1>3
<1> QED BY <1>4

\* A set that has 0 and, with every number, the next is all of Nat.
LEMMA Induction ==
  ASSUME NEW T \in SUBSET Nat, 0 \in T, \A n \in T : n + 1 \in T
  PROVE  T = Nat
<1>1. SUFFICES ASSUME Nat \ T # {} PROVE FALSE
  OBVIOUS
<1>2. PICK x \in Nat \ T : \A y \in Nat \ T : x <= y
  BY <1>1, LeastNatural
<1>3. x - 1 \in Nat
  BY <1>2
<1>4. x - 1 \in T
  BY <1>2, <1>3
<1> QED BY <1>2, <1>3, <1>4

\* What the first place has and every place hands on, all places have.
LEMMA Closure ==
  ASSUME NEW n \in Nat, NEW S, NEW f, f[0] \in S, \A k \in 1..n : f[k - 1] \in S => f[k] \in S
  PROVE  \A k \in 0..n : f[k] \in S
<1> DEFINE T == {m \in Nat : m <= n => f[m] \in S}
<1>1. 0 \in T
  OBVIOUS
<1>2. ASSUME NEW m \in T PROVE m + 1 \in T
  <2>1. CASE m + 1 <= n
    <3>1. m <= n /\ m + 1 \in 1..n /\ (m + 1) - 1 = m
      BY <2>1
    <3> QED BY <3>1
  <2>2. CASE ~(m + 1 <= n)
    BY <2>2
  <2> QED BY <2>1, <2>2
<1> HIDE DEF T
<1>3. T = Nat
  <2>1. T \subseteq Nat
    BY DEF T
  <2> QED BY <2>1, <1>1, <1>2, Induction
<1> QED BY <1>3 DEF T

\* f goes from base by the functions G.
Unfolds(f, n, S, base, G) ==
  f \in [0..n -> S] /\ f[0] = base /\ \A k \in 1..n : f[k] = G[k][f[k - 1]]

\* A function is defined from one place to the next by any choice of the next value.
LEMMA Recursion ==
  ASSUME NEW n \in Nat, NEW S, NEW base \in S, NEW G \in [1..n -> [S -> S]]
  PROVE  \E f : Unfolds(f, n, S, base, G)
<1> DEFINE P(m, f) == f \in [0..m -> S] /\ f[0] = base /\ \A k \in 1..m : f[k] = G[k][f[k - 1]]
           T == {m \in Nat : m <= n => \E f : P(m, f)}
<1>1. 0 \in T
  <2> DEFINE g == [k \in 0..0 |-> base]
  <2>1. (\A k \in 0..0 : k = 0) /\ 0 \in 0..0 /\ (\A k \in 1..0 : FALSE)
    OBVIOUS
  <2>a. g \in [0..0 -> S] /\ g[0] = base
    BY <2>1
  <2> HIDE DEF g
  <2>2. P(0, g)
    BY <2>1, <2>a
  <2> HIDE DEF P
  <2>3. \E f : P(0, f)
    BY <2>2
  <2> QED BY <2>3
<1>2. ASSUME NEW m \in T PROVE m + 1 \in T
  <2> HIDE DEF P
  <2> SUFFICES ASSUME m + 1 <= n PROVE \E f : P(m + 1, f)
    OBVIOUS
  <2>1. PICK f : P(m, f)
    OBVIOUS
  <2> USE DEF P
  <2> DEFINE g == [k \in 0..(m + 1) |-> IF k = m + 1 THEN G[m + 1][f[m]] ELSE f[k]]
  <2>2. m + 1 \in 1..n /\ f[m] \in S /\ G[m + 1][f[m]] \in S
    BY <2>1
  <2>3. g \in [0..(m + 1) -> S]
    <3>1. ASSUME NEW k \in 0..(m + 1) PROVE g[k] \in S
      <4>1. CASE k = m + 1
        BY <4>1, <2>2
      <4>2. CASE k # m + 1
        <5>1. k \in 0..m
          BY <4>2
        <5> QED BY <4>2, <5>1, <2>1
      <4> QED BY <4>1, <4>2
    <3> QED BY <3>1
  <2>4. g[0] = base
    BY <2>1
  <2>5. ASSUME NEW k \in 1..(m + 1) PROVE g[k] = G[k][g[k - 1]]
    <3>1. CASE k = m + 1
      <4>1. k - 1 = m /\ m \in 0..(m + 1) /\ m # m + 1
        BY <3>1
      <4> QED BY <4>1, <3>1
    <3>2. CASE k # m + 1
      <4>1. k \in 1..m /\ k - 1 \in 0..(m + 1) /\ k - 1 # m + 1 /\ k \in 0..(m + 1)
        BY <3>2
      <4> QED BY <4>1, <3>2, <2>1
    <3> QED BY <3>1, <3>2
  <2> HIDE DEF g
  <2> QED BY <2>3, <2>4, <2>5
<1> HIDE DEF T
<1>3. T = Nat
  <2>1. T \subseteq Nat
    BY DEF T
  <2> QED BY <2>1, <1>1, <1>2, Induction
<1>4. PICK f : P(n, f)
  BY <1>3 DEF T
<1>5. Unfolds(f, n, S, base, G)
  BY <1>4 DEF Unfolds
<1> QED BY <1>5

-----------------------------------------------------------------------------
(* Finite sets: the least of them, and sums over them. *)

\* A finite set without one of its elements is smaller by one.
LEMMA Shrinks ==
  ASSUME NEW s, IsFiniteSet(s), NEW x \in s
  PROVE  /\ IsFiniteSet(s \ {x}) 
         /\ Cardinality(s) \in Nat /\ Cardinality(s \ {x}) \in Nat
         /\ Cardinality(s \ {x}) = Cardinality(s) - 1
BY FS_RemoveElement, FS_CardinalityType

\* In a finite set some element has the least value.
LEMMA FiniteLeast ==
  ASSUME NEW S, IsFiniteSet(S), S # {}, NEW f, \A x \in S : f[x] \in Int
  PROVE  \E x \in S : \A y \in S : f[x] <= f[y]
<1> DEFINE T == {n \in Nat : \A s \in SUBSET S : s # {} /\ Cardinality(s) = n
                                => \E x \in s : \A y \in s : f[x] <= f[y]}
<1>1. 0 \in T
  <2>1. ASSUME NEW s \in SUBSET S, s # {}, Cardinality(s) = 0 PROVE FALSE
    <3>1. IsFiniteSet(s)
      BY FS_Subset
    <3> QED BY <3>1, <2>1, FS_EmptySet
  <2> QED BY <2>1
<1>2. ASSUME NEW n \in T PROVE n + 1 \in T
  <2> SUFFICES ASSUME NEW s \in SUBSET S, s # {}, Cardinality(s) = n + 1
               PROVE  \E x \in s : \A y \in s : f[x] <= f[y]
    OBVIOUS
  <2>1. PICK z \in s : TRUE
    OBVIOUS
  <2>2. IsFiniteSet(s)
    BY FS_Subset
  <2>3. Cardinality(s \ {z}) = n
    BY <2>1, <2>2, Shrinks
  <2>4. CASE s \ {z} = {}
    BY <2>1, <2>4
  <2>5. CASE s \ {z} # {}
    <3>1. PICK x \in s \ {z} : \A y \in s \ {z} : f[x] <= f[y]
      BY <2>3, <2>5
    <3>2. f[x] \in Int /\ f[z] \in Int /\ \A y \in s : f[y] \in Int
      BY <2>1
    <3>3. CASE f[x] <= f[z]
      BY <3>1, <3>3
    <3>4. CASE ~(f[x] <= f[z])
      <4>1. \A y \in s : f[z] <= f[y]
        <5> SUFFICES ASSUME NEW y \in s PROVE f[z] <= f[y]
          OBVIOUS
        <5>1. CASE y = z
          BY <5>1, <3>2
        <5>2. CASE y # z
          BY <5>2, <3>1, <3>2, <3>4
        <5> QED BY <5>1, <5>2
      <4> QED BY <4>1, <2>1
    <3> QED BY <3>3, <3>4
  <2> QED BY <2>4, <2>5
<1> HIDE DEF T
<1>3. T = Nat
  <2>1. T \subseteq Nat
    BY DEF T
  <2> QED BY <2>1, <1>1, <1>2, Induction
<1>4. Cardinality(S) \in T
  BY <1>3, FS_CardinalityType
<1> QED BY <1>4 DEF T

\* What a function on a finite set reaches is finite.
LEMMA FiniteReach ==
  ASSUME NEW S, IsFiniteSet(S), NEW T, NEW f, \A y \in T : \E x \in S : y = f[x]
  PROVE  IsFiniteSet(T)
<1> DEFINE g == [x \in S |-> f[x]]
           R == {f[x] : x \in S}
<1>1. g \in Surjection(S, R)
  BY DEF Surjection
<1> HIDE DEF g
<1>2. IsFiniteSet(R)
  BY <1>1, FS_Surjection
<1>3. T \in SUBSET R
  OBVIOUS
<1> HIDE DEF R
<1> QED BY <1>2, <1>3, FS_Subset

\* The least number of a finite set.
LEMMA MinIs ==
  ASSUME NEW S \in SUBSET Int, IsFiniteSet(S), S # {}
  PROVE  Min(S) \in S /\ Min(S) \in Int /\ \A y \in S : Min(S) <= y
<1> DEFINE f == [x \in S |-> x]
<1>1. \E x \in S : \A y \in S : f[x] <= f[y]
  <2>1. \A x \in S : f[x] \in Int
    OBVIOUS
  <2> HIDE DEF f
  <2> QED BY <2>1, FiniteLeast
<1>2. \E x \in S : \A y \in S : x <= y
  BY <1>1
<1> QED BY <1>2 DEF Min

\* The element a sum takes out of s.
Pick(s) == CHOOSE x \in s : TRUE

\* t adds f up over every subset of S.
Adds(t, f, S) ==
  /\ t[{}] = 0
  /\ \A s \in SUBSET S : s # {} => t[s] = f[Pick(s)] + t[s \ {Pick(s)}]

\* What is picked is there.
LEMMA PickIn ==
  ASSUME NEW s, s # {}
  PROVE  Pick(s) \in s
BY DEF Pick

\* Every finite set of integers can be added up.
LEMMA AddsExists ==
  ASSUME NEW S, IsFiniteSet(S), NEW f, \A x \in S : f[x] \in Int
  PROVE  \E t \in [SUBSET S -> Int] : Adds(t, f, S)
<1> DEFINE U(n) == {s \in SUBSET S : Cardinality(s) <= n}
           P(n, t) == /\ t \in [U(n) -> Int]
                      /\ t[{}] = 0
                      /\ \A s \in U(n) : s # {} => t[s] = f[Pick(s)] + t[s \ {Pick(s)}]
           T == {n \in Nat : \E t : P(n, t)}
<1>0. \A s \in SUBSET S : IsFiniteSet(s) /\ Cardinality(s) \in Nat
  BY FS_Subset, FS_CardinalityType
<1>1. 0 \in T
  <2>1. U(0) = {{}}
    BY <1>0, FS_EmptySet
  <2>2. P(0, [s \in U(0) |-> 0])
    BY <2>1
  <2> QED BY <2>2
<1>2. ASSUME NEW n \in T PROVE n + 1 \in T
  <2>1. PICK t : P(n, t)
    BY <1>2
  <2> DEFINE u == [s \in U(n + 1) |-> IF s \in U(n) THEN t[s]
                                      ELSE f[Pick(s)] + t[s \ {Pick(s)}]]
  <2>2. {} \in U(n) /\ {} \in U(n + 1)
    BY FS_EmptySet
  <2>3. ASSUME NEW s \in U(n + 1), s # {}
        PROVE  Pick(s) \in S /\ s \ {Pick(s)} \in U(n) /\ s \ {Pick(s)} \in U(n + 1)
    <3>1. Pick(s) \in s
      BY <2>3, PickIn
    <3>2. IsFiniteSet(s) /\ s \in SUBSET S /\ Cardinality(s) <= n + 1
      BY <1>0
    <3>3. Cardinality(s \ {Pick(s)}) = Cardinality(s) - 1 /\ Cardinality(s) \in Nat
      BY <3>1, <3>2, Shrinks
    <3> QED BY <3>1, <3>2, <3>3
  <2>4. \A s \in U(n + 1) : s \notin U(n) => s # {}
    BY <2>2
  <2>5. u \in [U(n + 1) -> Int]
    <3> SUFFICES ASSUME NEW s \in U(n + 1)
                 PROVE  (IF s \in U(n) THEN t[s] ELSE f[Pick(s)] + t[s \ {Pick(s)}]) \in Int
      OBVIOUS
    <3>1. CASE s \in U(n)
      BY <3>1, <2>1
    <3>2. CASE s \notin U(n)
      <4>1. s # {}
        BY <3>2, <2>4
      <4>2. f[Pick(s)] \in Int /\ t[s \ {Pick(s)}] \in Int
        BY <4>1, <2>3, <2>1
      <4> QED BY <3>2, <4>2
    <3> QED BY <3>1, <3>2
  <2>6. u[{}] = 0
    BY <2>1, <2>2
  <2>7. ASSUME NEW s \in U(n + 1), s # {}
        PROVE  u[s] = f[Pick(s)] + u[s \ {Pick(s)}]
    <3> DEFINE r == s \ {Pick(s)}
    <3>1. r \in U(n) /\ r \in U(n + 1)
      BY <2>3, <2>7
    <3> HIDE DEF r
    <3>2. u[r] = t[r]
      BY <3>1
    <3>3. CASE s \in U(n)
      BY <3>2, <3>3, <2>1, <2>7 DEF r
    <3>4. CASE s \notin U(n)
      BY <3>2, <3>4 DEF r
    <3> QED BY <3>3, <3>4 DEF r
  <2> HIDE DEF u
  <2>8. P(n + 1, u)
    BY <2>5, <2>6, <2>7
  <2>9. n + 1 \in Nat
    OBVIOUS
  <2> HIDE DEF P
  <2> QED BY <2>8, <2>9
<1> HIDE DEF T
<1>3. T = Nat
  BY <1>1, <1>2, Induction DEF T
<1>4. Cardinality(S) \in Nat
  BY FS_CardinalityType
<1>5. PICK t : P(Cardinality(S), t)
  BY <1>3, <1>4 DEF T
<1>6. U(Cardinality(S)) = SUBSET S
  BY FS_Subset
<1> HIDE DEF U
<1>7. t \in [SUBSET S -> Int] /\ Adds(t, f, S)
  BY <1>5, <1>6 DEF Adds
<1> QED BY <1>7

\* Two sums of the same values are the same.
LEMMA AddsUnique ==
  ASSUME NEW S, IsFiniteSet(S), NEW A, NEW B, S \subseteq A, S \subseteq B,
         NEW f, NEW g, \A x \in S : f[x] = g[x],
         NEW t, Adds(t, f, A), NEW u, Adds(u, g, B)
  PROVE  t[S] = u[S]
<1> DEFINE T == {n \in Nat : \A s \in SUBSET S : Cardinality(s) = n => t[s] = u[s]}
<1>0. \A s \in SUBSET S : IsFiniteSet(s) /\ Cardinality(s) \in Nat
  BY FS_Subset, FS_CardinalityType
<1>1. 0 \in T
  BY <1>0, FS_EmptySet DEF Adds
<1>2. ASSUME NEW n \in T PROVE n + 1 \in T
  <2> SUFFICES ASSUME NEW s \in SUBSET S, Cardinality(s) = n + 1 PROVE t[s] = u[s]
    OBVIOUS
  <2>1. s # {}
    BY FS_EmptySet
  <2>2. Pick(s) \in s
    BY <2>1, PickIn
  <2>3. Cardinality(s \ {Pick(s)}) = Cardinality(s) - 1 /\ IsFiniteSet(s)
    BY <1>0, <2>2, Shrinks
  <2>4. t[s \ {Pick(s)}] = u[s \ {Pick(s)}]
    BY <2>3, <2>2
  <2>5. t[s] = f[Pick(s)] + t[s \ {Pick(s)}]
    BY <2>1 DEF Adds
  <2>6. u[s] = g[Pick(s)] + u[s \ {Pick(s)}]
    BY <2>1 DEF Adds
  <2>7. f[Pick(s)] = g[Pick(s)]
    BY <2>2
  <2> QED BY <2>4, <2>5, <2>6, <2>7
<1> HIDE DEF T
<1>3. T = Nat
  BY <1>1, <1>2, Induction DEF T
<1>4. Cardinality(S) \in T
  BY <1>0, <1>3
<1> QED BY <1>4 DEF T

-----------------------------------------------------------------------------
\* The fold of the community modules adds up.
LEMMA SumAdds ==
  ASSUME NEW S, IsFiniteSet(S), NEW f, \A x \in S : f[x] \in Int
  PROVE  \E t \in [SUBSET S -> Int] : Adds(t, f, S) /\ SumFunctionOnSet(f, S) = t[S]
<1> DEFINE fold(t) == [s \in SUBSET S |-> IF s = {} THEN 0
                            ELSE LET x == CHOOSE x \in s : TRUE IN f[x] + t[s \ {x}]]
           iter == CHOOSE t : t = fold(t)
<1>1. SumFunctionOnSet(f, S) = iter[S]
  BY DEF SumFunctionOnSet, FoldFunctionOnSet, MapThenFoldSet
<1>2. PICK t \in [SUBSET S -> Int] : Adds(t, f, S)
  BY AddsExists
<1>3. t = fold(t)
  <2>1. ASSUME NEW s \in SUBSET S PROVE t[s] = fold(t)[s]
    BY <1>2 DEF Adds, Pick
  <2>2. t = [s \in SUBSET S |-> t[s]]
    OBVIOUS
  <2> QED BY <2>1, <2>2
<1>4. iter = fold(iter)
  <2> HIDE DEF fold
  <2> QED BY <1>3
<1> HIDE DEF iter
<1>5. Adds(iter, f, S)
  <2>1. ASSUME NEW s \in SUBSET S PROVE iter[s] = fold(iter)[s]
    <3> HIDE DEF fold
    <3> QED BY <1>4
  <2> QED BY <2>1 DEF Adds, Pick
<1>6. iter[S] = t[S]
  BY <1>2, <1>5, AddsUnique
<1> QED BY <1>1, <1>2, <1>6

\* Nothing adds up to 0.
LEMMA SumEmpty ==
  ASSUME NEW f
  PROVE  SumFunctionOnSet(f, {}) = 0
<1>1. IsFiniteSet({})
  BY FS_EmptySet
<1>2. PICK t : Adds(t, f, {}) /\ SumFunctionOnSet(f, {}) = t[{}]
  BY <1>1, SumAdds
<1> QED BY <1>2 DEF Adds

\* A sum of integers is an integer.
LEMMA SumType ==
  ASSUME NEW S, IsFiniteSet(S), NEW f, \A x \in S : f[x] \in Int
  PROVE  SumFunctionOnSet(f, S) \in Int
<1>1. PICK t \in [SUBSET S -> Int] : SumFunctionOnSet(f, S) = t[S]
  BY SumAdds
<1> QED BY <1>1

\* The sum of one value.
LEMMA SumSingle ==
  ASSUME NEW f, NEW x, f[x] \in Int
  PROVE  SumFunctionOnSet(f, {x}) = f[x]
<1>1. IsFiniteSet({x}) /\ \A y \in {x} : f[y] \in Int
  BY FS_Singleton
<1>2. PICK t : Adds(t, f, {x}) /\ SumFunctionOnSet(f, {x}) = t[{x}]
  BY <1>1, SumAdds
<1>3. Pick({x}) = x
  BY DEF Pick
<1>4. t[{x}] = f[x] + t[{}]
  <2>1. {x} \in SUBSET {x} /\ {x} # {} /\ {x} \ {x} = {}
    OBVIOUS
  <2>2. t[{x}] = f[Pick({x})] + t[{x} \ {Pick({x})}]
    BY <1>2, <2>1 DEF Adds
  <2> QED BY <2>1, <2>2, <1>3
<1> QED BY <1>2, <1>4 DEF Adds

\* One value more or less, and the sum is as much more or less.
LEMMA SumShift ==
  ASSUME NEW S, IsFiniteSet(S), NEW f, \A x \in S : f[x] \in Int, NEW g, \A x \in S : g[x] \in Int,
         NEW y \in S, \A x \in S \ {y} : g[x] = f[x]
  PROVE  SumFunctionOnSet(g, S) = SumFunctionOnSet(f, S) + (g[y] - f[y])
<1>1. PICK t \in [SUBSET S -> Int] : Adds(t, f, S) /\ SumFunctionOnSet(f, S) = t[S]
  BY SumAdds
<1>2. PICK v \in [SUBSET S -> Int] : Adds(v, g, S) /\ SumFunctionOnSet(g, S) = v[S]
  BY SumAdds
<1> DEFINE Shift(s) == IF y \in s THEN g[y] - f[y] ELSE 0
           T == {n \in Nat : \A s \in SUBSET S : Cardinality(s) = n => v[s] = t[s] + Shift(s)}
<1>3. \A s \in SUBSET S : IsFiniteSet(s) /\ Cardinality(s) \in Nat
  BY FS_Subset, FS_CardinalityType
<1>s. \A s : (y \in s => Shift(s) = g[y] - f[y]) /\ (y \notin s => Shift(s) = 0)
  OBVIOUS
<1> HIDE DEF Shift
<1>4. 0 \in T
  <2>1. \A s \in SUBSET S : Cardinality(s) = 0 => s = {}
    BY <1>3, FS_EmptySet
  <2>2. t[{}] = 0 /\ v[{}] = 0 /\ Shift({}) = 0
    BY <1>1, <1>2, <1>s DEF Adds
  <2>3. v[{}] = t[{}] + Shift({})
    BY <2>2
  <2>4. \A s \in SUBSET S : Cardinality(s) = 0 => v[s] = t[s] + Shift(s)
    BY <2>1, <2>3
  <2> QED BY <2>4
<1>5. ASSUME NEW n \in T PROVE n + 1 \in T
  <2> SUFFICES ASSUME NEW s \in SUBSET S, Cardinality(s) = n + 1 PROVE v[s] = t[s] + Shift(s)
    OBVIOUS
  <2>1. s # {}
    <3>1. Cardinality({}) = 0
      BY FS_EmptySet
    <3>2. n \in Nat
      OBVIOUS
    <3>3. Cardinality(s) # 0
      BY <3>2
    <3> HIDE DEF T
    <3> QED BY <3>1, <3>3
  <2>2. PICK x : x = Pick(s) /\ x \in s
    BY <2>1, PickIn
  <2>3. Cardinality(s \ {x}) = n
    BY <1>3, <2>2, Shrinks
  <2>4. v[s \ {x}] = t[s \ {x}] + Shift(s \ {x})
    BY <2>3
  <2>5. t[s] = f[x] + t[s \ {x}] /\ v[s] = g[x] + v[s \ {x}]
    BY <1>1, <1>2, <2>1, <2>2 DEF Adds
  <2>6. t[s \ {x}] \in Int /\ f[x] \in Int /\ g[x] \in Int
    BY <1>1, <2>2
  <2>7. CASE x = y
    <3>1. Shift(s \ {x}) = 0 /\ Shift(s) = g[x] - f[x]
      BY <1>s, <2>2, <2>7
    <3> QED BY <2>4, <2>5, <2>6, <3>1
  <2>8. CASE x # y
    <3>1. Shift(s \ {x}) = Shift(s) /\ Shift(s) \in Int /\ g[x] = f[x]
      BY <1>s, <2>2, <2>8
    <3> QED BY <2>4, <2>5, <2>6, <3>1
  <2> QED BY <2>7, <2>8
<1>6. Cardinality(S) \in Nat
  BY <1>3
<1>7. T \subseteq Nat
  OBVIOUS
<1>8. Cardinality(S) \in T
  <2> HIDE DEF T
  <2> QED BY <1>4, <1>5, <1>6, <1>7, Induction
<1>9. v[S] = t[S] + Shift(S)
  BY <1>8
<1>10. Shift(S) = g[y] - f[y]
  BY <1>s
<1> QED BY <1>1, <1>2, <1>9, <1>10

-----------------------------------------------------------------------------
(* TILES *)

(* Setting one field to a value of its type leaves a tile.  Longer chains  *)
(* of EXCEPT are taken apart with these lemmas.                            *)
LEMMA SetCrop == ASSUME NEW t \in Tile, NEW v \in Crops \cup {None}
                 PROVE  [t EXCEPT !.crop = v] \in Tile
BY DEF Tile
LEMMA SetAge == ASSUME NEW t \in Tile, NEW v \in Int PROVE [t EXCEPT !.age = v] \in Tile
BY DEF Tile
LEMMA SetYield == ASSUME NEW t \in Tile, NEW v \in Int PROVE [t EXCEPT !.yield = v] \in Tile
BY DEF Tile
LEMMA SetDecayStep == ASSUME NEW t \in Tile, NEW v \in Int
                      PROVE  [t EXCEPT !.decay_step = v] \in Tile
BY DEF Tile
LEMMA SetUnwatered == ASSUME NEW t \in Tile, NEW v \in Nat
                      PROVE  [t EXCEPT !.unwatered = v] \in Tile
BY DEF Tile
LEMMA SetWatered == ASSUME NEW t \in Tile, NEW v \in BOOLEAN
                    PROVE  [t EXCEPT !.watered = v] \in Tile
BY DEF Tile
LEMMA SetCover == ASSUME NEW t \in Tile, NEW v \in Int
                  PROVE  [t EXCEPT !.fertilized_until = v] \in Tile
BY DEF Tile
LEMMA SetWeed == ASSUME NEW t \in Tile, NEW v \in BOOLEAN PROVE [t EXCEPT !.weed = v] \in Tile
BY DEF Tile
LEMMA SetStructure == ASSUME NEW t \in Tile, NEW v \in Structures \cup {None}
                      PROVE  [t EXCEPT !.structure = v] \in Tile
BY DEF Tile
LEMMA SetAnimal == ASSUME NEW t \in Tile, NEW v \in Animals \cup {None}
                   PROVE  [t EXCEPT !.animal = v] \in Tile
BY DEF Tile
LEMMA SetAnimalAge == ASSUME NEW t \in Tile, NEW v \in Nat
                      PROVE  [t EXCEPT !.animal_age = v] \in Tile
BY DEF Tile
LEMMA SetAnimalYield == ASSUME NEW t \in Tile, NEW v \in Nat
                        PROVE  [t EXCEPT !.animal_yield = v] \in Tile
BY DEF Tile
LEMMA SetUnfed == ASSUME NEW t \in Tile, NEW v \in Nat PROVE [t EXCEPT !.unfed = v] \in Tile
BY DEF Tile
LEMMA SetFed == ASSUME NEW t \in Tile, NEW v \in BOOLEAN PROVE [t EXCEPT !.fed = v] \in Tile
BY DEF Tile
LEMMA SetCared == ASSUME NEW t \in Tile, NEW v \in BOOLEAN PROVE [t EXCEPT !.cared = v] \in Tile
BY DEF Tile
LEMMA SetPendingCare == ASSUME NEW t \in Tile, NEW v \in Nat
                        PROVE  [t EXCEPT !.pending_care = v] \in Tile
BY DEF Tile
LEMMA SetManure == ASSUME NEW t \in Tile, NEW v \in BOOLEAN
                   PROVE  [t EXCEPT !.fertilizer = v] \in Tile
BY DEF Tile

LEMMA AtMostSound ==
  ASSUME NEW n \in Int, NEW bound \in Int
  PROVE  /\ AtMost(n, bound) \in Int
         /\ AtMost(n, bound) <= bound
         /\ n >= 0 /\ bound >= 0 => AtMost(n, bound) >= 0
BY DEF AtMost

-----------------------------------------------------------------------------
(* Crops. *)

LEMMA BareTileSound == BareTile \in Tile /\ OneUse(BareTile) /\ Vacant(BareTile)
BY FieldAssumption DEF BareTile, Tile, OneUse, Vacant

LEMMA DecayStepSound ==
  ASSUME NEW c \in Crops, NEW planted \in Int PROVE DecayStep(c, planted) \in Int
BY FieldAssumption DEF DecayStep, ProductionDays, Ongoing

LEMMA PlantedSound ==
  ASSUME NEW t \in Tile, NEW c \in Crops, NEW today \in Nat
  PROVE  /\ Planted(t, c, today) \in Tile
         /\ Vacant(t) /\ OneUse(t) => OneUse(Planted(t, c, today))
<1>1. PICK m \in Int : m = -1
  OBVIOUS
<1>2. PICK n \in Int : n = IF Ongoing(c) THEN 0 ELSE 1
  OBVIOUS
<1>3. PICK d \in Int : d = DecayStep(c, today)
  BY DecayStepSound
<1>z. PICK z \in Int : z = 0
  OBVIOUS
<1>4. [t EXCEPT !.crop = c, !.age = z, !.decay_step = d] \in Tile
  BY SetCrop, SetAge, SetDecayStep
<1> DEFINE t1 == [t EXCEPT !.crop = c, !.age = z, !.decay_step = d]
           t2 == [t1 EXCEPT !.yield = n, !.unwatered = 1, !.weed = FALSE]
           t3 == [t2 EXCEPT !.fertilized_until = m, !.watered = FALSE]
<1>a. t1 \in Tile
  BY <1>4
<1> HIDE DEF t1
<1>5. t2 \in Tile
  BY <1>a, SetYield, SetUnwatered, SetWeed
<1> HIDE DEF t2
<1>6. t3 \in Tile
  BY <1>5, SetCover, SetWatered
<1>7. Planted(t, c, today) \in Tile
  BY <1>1, <1>2, <1>3, <1>z, <1>6 DEF Planted, t1, t2, t3
<1>8. ASSUME Vacant(t), OneUse(t) PROVE OneUse(Planted(t, c, today))
  BY <1>8, FieldAssumption DEF Planted, Tile, OneUse, Vacant
<1> QED BY <1>7, <1>8

LEMMA UprootedSound ==
  ASSUME NEW t \in Tile
  PROVE  /\ Uprooted(t) \in Tile
         /\ OneUse(t) => OneUse(Uprooted(t))
<1>1. PICK m \in Int : m = -1
  OBVIOUS
<1>2. [t EXCEPT !.crop = None, !.age = m, !.decay_step = m] \in Tile
  BY SetCrop, SetAge, SetDecayStep
<1>3. OneUse(t) => OneUse(Uprooted(t))
  BY DEF Uprooted, OneUse, Tile
<1> QED BY <1>1, <1>2, <1>3 DEF Uprooted

\* What an uprooted tile still has.
LEMMA UprootedFields ==
  ASSUME NEW t \in Tile
  PROVE  LET u == Uprooted(t) IN
         /\ u.crop = None /\ u.weed = t.weed
         /\ u.structure = t.structure /\ u.animal = t.animal
BY DEF Uprooted, Tile

LEMMA CropHarvestedSound ==
  ASSUME NEW t \in Tile
  PROVE  /\ CropHarvested(t) \in Tile
         /\ OneUse(t) => OneUse(CropHarvested(t))
<1> DEFINE picked == [t EXCEPT !.yield = 0]
<1>1. picked \in Tile
  BY SetYield
<1>2. OneUse(t) => OneUse(picked)
  BY DEF OneUse, Tile
<1>3. /\ Uprooted(picked) \in Tile
      /\ OneUse(picked) => OneUse(Uprooted(picked))
  BY <1>1, UprootedSound
<1> QED BY <1>1, <1>2, <1>3 DEF CropHarvested

LEMMA CropWateredSound ==
  ASSUME NEW t \in Tile, NEW today \in Nat, t.crop # None
  PROVE  /\ CropWatered(t, today) \in Tile
         /\ OneUse(t) => OneUse(CropWatered(t, today))
<1> DEFINE bonus == IF t.fertilized_until >= today THEN 2 ELSE 1
           lot == IF ~t.watered /\ InWateringWindow(t)
                  THEN AtMost(t.yield + bonus, MaxYield[t.crop]) ELSE t.yield
<1>a. bonus \in Int /\ t.yield \in Int /\ MaxYield[t.crop] \in Int
  BY FieldAssumption DEF Tile
<1> HIDE DEF bonus
<1>1. lot \in Int
  <2> DEFINE n == t.yield + bonus
  <2>1. n \in Int
    BY <1>a
  <2> HIDE DEF n
  <2>2. AtMost(n, MaxYield[t.crop]) \in Int
    BY <1>a, <2>1, AtMostSound
  <2> QED BY <1>a, <2>2 DEF n
<1> HIDE DEF lot
<1>2. [t EXCEPT !.watered = TRUE, !.yield = lot] \in Tile
  BY <1>1, SetWatered, SetYield
<1>3. CropWatered(t, today) = [t EXCEPT !.watered = TRUE, !.yield = lot]
  <2>1. [t EXCEPT !.watered = TRUE].yield = t.yield
    BY DEF Tile
  <2> QED BY <2>1 DEF CropWatered, lot, bonus
<1>4. OneUse(t) => OneUse([t EXCEPT !.watered = TRUE, !.yield = lot])
  BY DEF OneUse, Tile
<1> QED BY <1>2, <1>3, <1>4

LEMMA CropFertilizedSound ==
  ASSUME NEW t \in Tile, NEW today \in Nat
  PROVE  /\ CropFertilized(t, today) \in Tile
         /\ OneUse(t) => OneUse(CropFertilized(t, today))
BY DEF CropFertilized, Tile, OneUse

LEMMA DugSound ==
  ASSUME NEW t \in Tile
  PROVE  /\ Dug(t) \in Tile
         /\ OneUse(t) => OneUse(Dug(t))
<1> DEFINE u == Uprooted(t)
<1>1. PICK m \in Int : m = -1
  OBVIOUS
<1>z. PICK z \in Int : z = 0
  OBVIOUS
<1>2. u \in Tile
  BY UprootedSound
<1> HIDE DEF u
<1> DEFINE v == [u EXCEPT !.yield = z, !.watered = FALSE]
           w == [v EXCEPT !.unwatered = 0, !.fertilized_until = m]
           cleared == IF t.crop = None THEN t ELSE w
<1>3. v \in Tile
  BY <1>2, SetYield, SetWatered
<1> HIDE DEF v
<1>4. w \in Tile
  BY <1>3, SetUnwatered, SetCover
<1>5. w = [Uprooted(t) EXCEPT !.yield = 0, !.watered = FALSE,
                              !.unwatered = 0, !.fertilized_until = -1]
  BY <1>1, <1>z DEF u, v
<1> HIDE DEF w
<1>6. cleared \in Tile
  BY <1>4
<1>7. Dug(t) = [cleared EXCEPT !.weed = FALSE,
                               !.structure = IF t.animal = None THEN None
                                             ELSE cleared.structure]
  <2>1. [cleared EXCEPT !.weed = FALSE].structure = cleared.structure
    BY <1>6 DEF Tile
  <2> QED BY <2>1, <1>5 DEF Dug
<1> HIDE DEF cleared
<1> DEFINE s == IF t.animal = None THEN None ELSE cleared.structure
<1>8. s \in Structures \cup {None}
  BY <1>6 DEF Tile
<1> HIDE DEF s
<1>9. Dug(t) = [cleared EXCEPT !.weed = FALSE, !.structure = s]
  BY <1>7 DEF s
<1>10. Dug(t) \in Tile
  BY <1>6, <1>8, <1>9, SetWeed, SetStructure
<1>11. ASSUME OneUse(t) PROVE OneUse(Dug(t))
  BY <1>11 DEF OneUse, Dug, Uprooted, Tile
<1> QED BY <1>10, <1>11

LEMMA DecayedSound ==
  ASSUME NEW t \in Tile, NEW now \in Nat
  PROVE  /\ Decayed(t, now) \in Tile
         /\ OneUse(t) => OneUse(Decayed(t, now))
         /\ Vacant(t) => Vacant(Decayed(t, now))
<1> DEFINE rotten == [t EXCEPT !.yield = t.yield - 1]
           gone == Uprooted(rotten)
<1>1. rotten \in Tile
  BY SetYield DEF Tile
<1>2. gone \in Tile
  BY <1>1, UprootedSound
<1>3. [gone EXCEPT !.weed = TRUE] \in Tile
  BY <1>2, SetWeed
<1>4. Decayed(t, now) \in Tile
  BY <1>1, <1>3 DEF Decayed
<1>5. OneUse(t) => OneUse(Decayed(t, now))
  BY DEF Decayed, Rotting, Uprooted, OneUse, Tile
<1>6. Vacant(t) => Vacant(Decayed(t, now))
  BY DEF Decayed, Rotting, Vacant
<1> QED BY <1>4, <1>5, <1>6

LEMMA CropNightSound ==
  ASSUME NEW t \in Tile, NEW today \in Nat
  PROVE  /\ CropNight(t, today) \in Tile
         /\ OneUse(t) => OneUse(CropNight(t, today))
         /\ Vacant(t) => Vacant(CropNight(t, today))
<1> DEFINE age   == t.age + 1
           dry   == IF t.watered THEN 0 ELSE t.unwatered + 1
           bonus == IF t.watered /\ t.fertilized_until >= today THEN 2 ELSE 1
           lot   == IF BearsAt(t.crop, age)
                    THEN AtMost(t.yield + bonus, MaxYield[t.crop]) ELSE t.yield
<1>1. CASE t.crop = None
  <2>1. CropNight(t, today) = [t EXCEPT !.watered = FALSE]
    BY <1>1 DEF CropNight
  <2>2. [t EXCEPT !.watered = FALSE] \in Tile
    BY SetWatered
  <2> QED BY <2>1, <2>2 DEF OneUse, Vacant, Tile
<1>2. CASE t.crop # None /\ dry >= 2
  <2>z. PICK z \in Int : z = 0
    OBVIOUS
  <2> DEFINE u == Uprooted(t)
             v == [u EXCEPT !.yield = z, !.unwatered = dry]
  <2>1. CropNight(t, today) = [v EXCEPT !.weed = TRUE, !.watered = FALSE]
    BY <1>2, <2>z DEF CropNight
  <2>2. u \in Tile
    BY UprootedSound
  <2>3. dry \in Nat
    BY DEF Tile
  <2>4. OneUse(t) => OneUse([v EXCEPT !.weed = TRUE, !.watered = FALSE])
    BY <1>2 DEF OneUse, Uprooted, Tile
  <2> HIDE DEF u, dry
  <2>5. v \in Tile
    BY <2>2, <2>3, SetYield, SetUnwatered
  <2> HIDE DEF v
  <2>6. [v EXCEPT !.weed = TRUE, !.watered = FALSE] \in Tile
    BY <2>5, SetWeed, SetWatered
  <2> QED BY <1>2, <2>1, <2>4, <2>6 DEF Vacant
<1>3. CASE t.crop # None /\ ~(dry >= 2)
  <2>1. bonus \in Int /\ age \in Int /\ t.yield \in Int /\ MaxYield[t.crop] \in Int
    BY <1>3, FieldAssumption DEF Tile
  <2>2. dry \in Nat
    BY DEF Tile
  <2> DEFINE u == [t EXCEPT !.age = age, !.unwatered = dry, !.watered = FALSE]
  <2>3. CropNight(t, today) = [u EXCEPT !.yield = lot]
    <3>1. [t EXCEPT !.age = age, !.unwatered = dry, !.watered = FALSE].yield = t.yield
      BY DEF Tile
    <3> QED BY <1>3, <3>1 DEF CropNight
  <2>4. OneUse(t) => OneUse([u EXCEPT !.yield = lot])
    BY DEF OneUse, Tile
  <2> HIDE DEF bonus, age, dry
  <2>5. lot \in Int
    <3> DEFINE n == t.yield + bonus
    <3>1. n \in Int
      BY <2>1
    <3> HIDE DEF n
    <3>2. AtMost(n, MaxYield[t.crop]) \in Int
      BY <2>1, <3>1, AtMostSound
    <3> QED BY <2>1, <3>2 DEF n
  <2>6. u \in Tile
    BY <2>1, <2>2, SetAge, SetUnwatered, SetWatered
  <2> HIDE DEF lot, u
  <2>7. [u EXCEPT !.yield = lot] \in Tile
    BY <2>5, <2>6, SetYield
  <2> QED BY <1>3, <2>3, <2>4, <2>7 DEF Vacant
<1> QED BY <1>1, <1>2, <1>3

-----------------------------------------------------------------------------
(* Structures and animals. *)

LEMMA AnimalPlacedSound ==
  ASSUME NEW t \in Tile, NEW a \in Animals
  PROVE  /\ AnimalPlaced(t, a) \in Tile
         /\ OneUse(t) /\ Welcomes(t, a) => OneUse(AnimalPlaced(t, a))
         /\ (~Vacant(t) => ~Vacant(AnimalPlaced(t, a)))
<1> DEFINE u == [t EXCEPT !.animal = a, !.animal_age = 0, !.animal_yield = 0]
           v == [u EXCEPT !.unfed = 0, !.fed = FALSE, !.cared = FALSE]
           w == [v EXCEPT !.pending_care = 0, !.fertilizer = FALSE]
<1>1. AnimalPlaced(t, a) = w
  BY DEF AnimalPlaced
<1>2. OneUse(t) /\ Welcomes(t, a) => OneUse(w)
  BY DEF OneUse, Welcomes, Tile
<1>3. ~Vacant(t) => ~Vacant(w)
  BY DEF Vacant, Tile
<1>4. u \in Tile
  BY SetAnimal, SetAnimalAge, SetAnimalYield
<1> HIDE DEF u
<1>5. v \in Tile
  BY <1>4, SetUnfed, SetFed, SetCared
<1> HIDE DEF v
<1>6. w \in Tile
  BY <1>5, SetPendingCare, SetManure
<1> QED BY <1>1, <1>2, <1>3, <1>6

LEMMA AnimalNightSound ==
  ASSUME NEW t \in Tile
  PROVE  /\ AnimalNight(t) \in Tile
         /\ OneUse(t) => OneUse(AnimalNight(t))
         /\ Vacant(t) => Vacant(AnimalNight(t))
<1> DEFINE hungry   == IF t.fed THEN 0 ELSE t.unfed + 1
           age      == t.animal_age + 1
           produces == ProducesAt(t.animal, age)
           bonus    == IF t.fed THEN t.pending_care ELSE 0
           care     == CareLeft(t, produces)
           kept     == IF t.fed /\ t.cared THEN care + 1 ELSE care
           lot      == IF produces
                       THEN AtMost(t.animal_yield + 1 + bonus, MaxHeld[t.animal])
                       ELSE t.animal_yield
<1>1. CASE t.animal = None
  BY <1>1 DEF AnimalNight
<1>2. CASE t.animal # None /\ hungry >= 2
  <2>1. AnimalNight(t) = [t EXCEPT !.animal = None, !.unfed = hungry]
    BY <1>2 DEF AnimalNight
  <2>2. hungry \in Nat
    BY DEF Tile
  <2> HIDE DEF hungry
  <2>3. [t EXCEPT !.animal = None, !.unfed = hungry] \in Tile
    BY <2>2, SetAnimal, SetUnfed
  <2> QED BY <2>1, <2>3 DEF OneUse, Vacant, Tile
<1>3. CASE t.animal # None /\ ~(hungry >= 2)
  <2>1. /\ hungry \in Nat /\ age \in Nat /\ care \in Nat
        /\ t.animal_yield + 1 + bonus \in Nat /\ t.animal_yield \in Nat
    BY DEF Tile, CareLeft
  <2>2. MaxHeld[t.animal] \in Nat
    BY <1>3, FieldAssumption DEF Tile
  <2> DEFINE u == [t EXCEPT !.unfed = hungry, !.animal_age = age, !.animal_yield = lot]
             v == [u EXCEPT !.pending_care = kept, !.fertilizer = TRUE]
             w == [v EXCEPT !.cared = FALSE, !.fed = FALSE]
  <2>3. AnimalNight(t) = w
    <3>1. [t EXCEPT !.unfed = hungry, !.animal_age = age].animal_yield = t.animal_yield
      BY DEF Tile
    <3> QED BY <1>3, <3>1 DEF AnimalNight
  <2>4. (OneUse(t) => OneUse(w)) /\ (Vacant(t) => Vacant(w))
    BY DEF OneUse, Vacant, Tile
  <2> HIDE DEF hungry, age, care, bonus, produces
  <2>5. lot \in Nat
    <3> DEFINE n == t.animal_yield + 1 + bonus
    <3>1. n \in Nat
      BY <2>1
    <3> HIDE DEF n
    <3>2. AtMost(n, MaxHeld[t.animal]) \in Nat
      BY <2>2, <3>1 DEF AtMost
    <3> QED BY <2>1, <3>2 DEF n
  <2>6. kept \in Nat
    BY <2>1
  <2> HIDE DEF lot, kept
  <2>7. u \in Tile
    BY <2>1, <2>5, SetUnfed, SetAnimalAge, SetAnimalYield
  <2> HIDE DEF u
  <2>8. v \in Tile
    BY <2>6, <2>7, SetPendingCare, SetManure
  <2> HIDE DEF v
  <2>9. w \in Tile
    BY <2>8, SetCared, SetFed
  <2> QED BY <2>3, <2>4, <2>9
<1> QED BY <1>1, <1>2, <1>3

LEMMA OvernightSound ==
  ASSUME NEW t \in Tile, NEW today \in Nat
  PROVE  /\ Overnight(t, today) \in Tile
         /\ OneUse(t) => OneUse(Overnight(t, today))
         /\ Vacant(t) => Vacant(Overnight(t, today))
<1> DEFINE u == AnimalNight(t)
<1>1. u \in Tile /\ (OneUse(t) => OneUse(u)) /\ (Vacant(t) => Vacant(u))
  BY AnimalNightSound
<1> HIDE DEF u
<1>2. /\ CropNight(u, today) \in Tile
      /\ OneUse(u) => OneUse(CropNight(u, today))
      /\ Vacant(u) => Vacant(CropNight(u, today))
  BY <1>1, CropNightSound
<1> QED BY <1>1, <1>2 DEF Overnight, u

\* BUILD on vacant land, and the fields that one order or a sprouting weed sets.
LEMMA BuiltSound ==
  ASSUME NEW t \in Tile, NEW s \in Structures
  PROVE  /\ Built(t, s) \in Tile
         /\ OneUse(t) /\ Vacant(t) /\ t.animal = None => OneUse(Built(t, s))
<1>1. Built(t, s) \in Tile
  BY SetStructure DEF Built
<1> QED BY <1>1 DEF Built, OneUse, Vacant, Tile

LEMMA ServiceSound ==
  ASSUME NEW t \in Tile
  PROVE  /\ [t EXCEPT !.fed = TRUE] \in Tile
         /\ [t EXCEPT !.cared = TRUE] \in Tile
         /\ [t EXCEPT !.fertilizer = FALSE] \in Tile
         /\ [t EXCEPT !.animal_yield = 0] \in Tile
         /\ OneUse(t) => /\ OneUse([t EXCEPT !.fed = TRUE])
                         /\ OneUse([t EXCEPT !.cared = TRUE])
                         /\ OneUse([t EXCEPT !.fertilizer = FALSE])
                         /\ OneUse([t EXCEPT !.animal_yield = 0])
<1>1. [t EXCEPT !.fed = TRUE] \in Tile /\ [t EXCEPT !.cared = TRUE] \in Tile
  BY SetFed, SetCared
<1>2. [t EXCEPT !.fertilizer = FALSE] \in Tile /\ [t EXCEPT !.animal_yield = 0] \in Tile
  BY SetManure, SetAnimalYield
<1> QED BY <1>1, <1>2 DEF OneUse, Tile

LEMMA WeedSound ==
  ASSUME NEW t \in Tile, NEW sprouts \in BOOLEAN, sprouts => Vacant(t)
  PROVE  LET s == [t EXCEPT !.weed = @ \/ sprouts] IN
         /\ s \in Tile
         /\ OneUse(t) => OneUse(s)
         /\ Vacant(t) /\ ~sprouts => Vacant(s)
<1> DEFINE b == t.weed \/ sprouts
<1>1. b \in BOOLEAN
  OBVIOUS
<1>2. [t EXCEPT !.weed = b] \in Tile
  <2> HIDE DEF b
  <2> QED BY <1>1, SetWeed
<1> QED BY <1>2 DEF OneUse, Vacant, Tile

-----------------------------------------------------------------------------
(* GOODS *)

LEMMA LesserSound ==
  ASSUME NEW m \in Nat, NEW n \in Nat
  PROVE  Lesser(m, n) \in Nat /\ Lesser(m, n) <= m /\ Lesser(m, n) <= n
BY DEF Lesser

-----------------------------------------------------------------------------
(* Counting the pieces of a stock.                                         *)

LEMMA PlacesFinite ==
  ASSUME NEW stock \in [Items -> Nat]
  PROVE  IsFiniteSet(Places(stock)) /\ Cardinality(Places(stock)) \in Nat
<1>1. IsFiniteSet(1..ShedCapacity)
  BY FS_Interval, StoresAssumption
<1>2. IsFiniteSet(Items \X (1..ShedCapacity))
  BY <1>1, FS_Product, StoresAssumption
<1>3. Places(stock) \in SUBSET (Items \X (1..ShedCapacity))
  BY DEF Places
<1> HIDE DEF Places
<1>4. IsFiniteSet(Places(stock))
  BY <1>2, <1>3, FS_Subset
<1> QED BY <1>4, FS_CardinalityType

\* n places in a row on the shelf of one item.
LEMMA ShelfCardinality ==
  ASSUME NEW i \in Items, NEW m \in Nat, NEW n \in Nat
  PROVE  LET shelf == {i} \X ((m + 1)..(m + n)) IN
         IsFiniteSet(shelf) /\ Cardinality(shelf) = n
<1>1. IsFiniteSet((m + 1)..(m + n)) /\ Cardinality((m + 1)..(m + n)) = n
  BY FS_Interval
<1>2. IsFiniteSet({i}) /\ Cardinality({i}) = 1
  BY FS_Singleton
<1> DEFINE T == (m + 1)..(m + n)
<1> HIDE DEF T
<1>3. IsFiniteSet({i} \X T) /\ Cardinality({i} \X T) = Cardinality({i}) * Cardinality(T)
  BY <1>1, <1>2, FS_Product DEF T
<1>4. Cardinality(T) = n
  BY <1>1 DEF T
<1>5. Cardinality({i} \X T) = n
  BY <1>2, <1>3, <1>4
<1> QED BY <1>3, <1>5 DEF T

\* More of one item takes up as many places more.
LEMMA PlacesAdded ==
  ASSUME NEW stock \in [Items -> 0..ShedCapacity], NEW i \in Items, NEW n \in Nat,
         stock[i] + n <= ShedCapacity
  PROVE  Cardinality(Places([stock EXCEPT ![i] = @ + n])) = Cardinality(Places(stock)) + n
<1> DEFINE more == [stock EXCEPT ![i] = @ + n]
           shelf == {i} \X ((stock[i] + 1)..(stock[i] + n))
<1>1. stock \in [Items -> Nat] /\ stock[i] \in Nat /\ ShedCapacity \in Nat
  BY StoresAssumption
<1>2. Places(more) = Places(stock) \cup shelf
  <2>1. ASSUME NEW p \in Places(more) PROVE p \in Places(stock) \cup shelf
    <3>1. PICK j \in Items, k \in 1..ShedCapacity : p = <<j, k>> /\ k <= more[j]
      BY <2>1 DEF Places
    <3>2. CASE k <= stock[j]
      BY <3>1, <3>2 DEF Places
    <3>3. CASE k > stock[j]
      <4>1. j = i
        BY <1>1, <3>1, <3>3
      <4>2. k \in (stock[i] + 1)..(stock[i] + n)
        BY <1>1, <3>1, <3>3, <4>1
      <4> QED BY <3>1, <4>1, <4>2
    <3> QED BY <1>1, <3>1, <3>2, <3>3
  <2>2. ASSUME NEW p \in Places(stock) PROVE p \in Places(more)
    <3>1. PICK j \in Items, k \in 1..ShedCapacity : p = <<j, k>> /\ k <= stock[j]
      BY <2>2 DEF Places
    <3>2. k <= more[j]
      BY <1>1, <3>1
    <3> HIDE DEF more
    <3> QED BY <3>1, <3>2 DEF Places
  <2>3. ASSUME NEW p \in shelf PROVE p \in Places(more)
    <3>1. PICK k \in (stock[i] + 1)..(stock[i] + n) : p = <<i, k>>
      BY <2>3
    <3>2. k \in 1..ShedCapacity /\ k <= more[i]
      BY <1>1, <3>1
    <3> HIDE DEF more
    <3> QED BY <3>1, <3>2 DEF Places
  <2> QED BY <2>1, <2>2, <2>3
<1>3. Places(stock) \cap shelf = {}
  <2>1. ASSUME NEW p \in Places(stock), p \in shelf PROVE FALSE
    <3>1. p[2] <= stock[p[1]] /\ p[1] = i /\ p[2] > stock[i] /\ p[2] \in Nat
      BY <2>1, <1>1 DEF Places
    <3> QED BY <3>1, <1>1
  <2> QED BY <2>1
<1>4. IsFiniteSet(Places(stock)) /\ Cardinality(Places(stock)) \in Nat
  BY <1>1, PlacesFinite
<1>5. IsFiniteSet(shelf) /\ Cardinality(shelf) = n
  BY <1>1, ShelfCardinality
<1> HIDE DEF shelf, more
<1>6. Cardinality(Places(stock) \cup shelf)
        = Cardinality(Places(stock)) + Cardinality(shelf) - Cardinality(Places(stock) \cap shelf)
  BY <1>4, <1>5, FS_Union
<1>7. Cardinality(Places(stock) \cap shelf) = 0
  BY <1>3, FS_EmptySet
<1>8. Cardinality(Places(more)) = Cardinality(Places(stock)) + n
  BY <1>2, <1>4, <1>5, <1>6, <1>7
<1> QED BY <1>8 DEF more

LEMMA PlacesRemoved ==
  ASSUME NEW stock \in [Items -> 0..ShedCapacity], NEW i \in Items, NEW n \in Nat,
         n <= stock[i]
  PROVE  Cardinality(Places([stock EXCEPT ![i] = @ - n])) = Cardinality(Places(stock)) - n
<1> DEFINE less == [stock EXCEPT ![i] = @ - n]
<1>1. less \in [Items -> 0..ShedCapacity] /\ less[i] + n <= ShedCapacity
  BY StoresAssumption
<1>2. stock = [less EXCEPT ![i] = @ + n]
  <2> DEFINE back == [less EXCEPT ![i] = @ + n]
  <2>1. back \in [Items -> Int]
    BY <1>1, StoresAssumption
  <2>2. ASSUME NEW j \in Items PROVE back[j] = stock[j]
    BY <2>2, StoresAssumption
  <2>3. stock \in [Items -> Int]
    BY StoresAssumption
  <2> HIDE DEF back
  <2>4. back = stock
    BY <2>1, <2>2, <2>3
  <2> QED BY <2>4 DEF back
<1>3. less \in [Items -> Nat]
  BY <1>1, StoresAssumption
<1> HIDE DEF less
<1>4. Cardinality(Places(stock)) = Cardinality(Places(less)) + n
  BY <1>1, <1>2, PlacesAdded
<1>5. Cardinality(Places(less)) \in Nat
  BY <1>3, PlacesFinite
<1>6. Cardinality(Places(less)) = Cardinality(Places(stock)) - n
  BY <1>4, <1>5
<1> QED BY <1>6 DEF less

\* No item has more pieces than the whole shed.
LEMMA ItemWithinTotal ==
  ASSUME NEW stock \in [Items -> 0..ShedCapacity], NEW i \in Items
  PROVE  stock[i] <= Cardinality(Places(stock))
<1>1. stock \in [Items -> Nat]
  BY StoresAssumption
<1>k. PICK k \in Nat : k = stock[i]
  BY <1>1
<1> DEFINE less == [stock EXCEPT ![i] = @ - k]
<1>2. Cardinality(Places(less)) = Cardinality(Places(stock)) - k
  <2>1. k <= stock[i]
    BY <1>k, <1>1
  <2> QED BY <2>1, PlacesRemoved
<1>3. less \in [Items -> Nat]
  BY <1>1, <1>k
<1> HIDE DEF less
<1>4. Cardinality(Places(less)) \in Nat /\ Cardinality(Places(stock)) \in Nat
  BY <1>1, <1>3, PlacesFinite
<1> QED BY <1>k, <1>2, <1>4

-----------------------------------------------------------------------------
(* The shed.                                                               *)

ShedOK == /\ shed \in [Items -> 0..ShedCapacity]
          /\ shed_used \in 0..ShedCapacity
          /\ ShedAccounted

LEMMA ShedRoomSound == ShedOK => ShedRoom \in Nat /\ shed_used + ShedRoom = ShedCapacity
BY StoresAssumption DEF ShedOK, ShedRoom

LEMMA ShedInitSound == StoresInit => ShedOK
<1> SUFFICES ASSUME StoresInit PROVE ShedOK
  OBVIOUS
<1>1. Places(shed) = {}
  BY DEF StoresInit, Places
<1>2. Cardinality(Places(shed)) = 0
  BY <1>1, FS_EmptySet
<1>3. shed \in [Items -> 0..ShedCapacity] /\ shed_used = 0 /\ 0 <= ShedCapacity
  BY StoresAssumption DEF StoresInit
<1> QED BY <1>2, <1>3, StoresAssumption DEF ShedOK, ShedAccounted

LEMMA MoveToShedSound ==
  ASSUME ShedOK, NEW i \in Items, NEW n \in Nat, MoveToShed(i, n)
  PROVE  ShedOK'
<1>1. PICK m \in Nat : m = Lesser(n, ShedRoom) /\ shed_used + m <= ShedCapacity
  <2> DEFINE room == ShedRoom
             m == Lesser(n, room)
  <2>1. room \in Nat /\ shed_used + room = ShedCapacity /\ shed_used \in Nat
    BY ShedRoomSound DEF ShedOK
  <2> HIDE DEF room
  <2>2. m \in Nat /\ m <= room
    BY <2>1, LesserSound
  <2> HIDE DEF m
  <2>3. shed_used + m <= ShedCapacity
    BY <2>1, <2>2, StoresAssumption
  <2> QED BY <2>2, <2>3 DEF m, room
<1>2. shed' = [shed EXCEPT ![i] = @ + m] /\ shed_used' = shed_used + m
  BY <1>1 DEF MoveToShed
<1>3. shed[i] <= shed_used /\ shed[i] \in Nat
  BY ItemWithinTotal, StoresAssumption DEF ShedOK, ShedAccounted
<1>4. shed[i] + m <= ShedCapacity
  BY <1>1, <1>3, StoresAssumption DEF ShedOK
<1>5. Cardinality(Places([shed EXCEPT ![i] = @ + m])) = Cardinality(Places(shed)) + m
  BY <1>4, PlacesAdded DEF ShedOK
<1>6. Cardinality(Places(shed')) = shed_used'
  BY <1>2, <1>5 DEF ShedOK, ShedAccounted
<1>7. shed' \in [Items -> 0..ShedCapacity] /\ shed_used' \in 0..ShedCapacity
  BY <1>1, <1>2, <1>3, <1>4, StoresAssumption DEF ShedOK
<1> QED BY <1>6, <1>7, StoresAssumption DEF ShedOK, ShedAccounted, Places

LEMMA MoveFromShedSound ==
  ASSUME ShedOK, NEW i \in Items, NEW n \in Nat, MoveFromShed(i, n)
  PROVE  ShedOK'
<1>1. PICK m \in Nat : m = Lesser(n, shed[i]) /\ m <= shed[i]
  BY LesserSound, StoresAssumption DEF ShedOK
<1>2. shed' = [shed EXCEPT ![i] = @ - m] /\ shed_used' = shed_used - m
  BY <1>1 DEF MoveFromShed
<1>3. shed[i] <= shed_used /\ shed[i] \in Nat
  BY ItemWithinTotal, StoresAssumption DEF ShedOK, ShedAccounted
<1>4. Cardinality(Places([shed EXCEPT ![i] = @ - m])) = Cardinality(Places(shed)) - m
  BY <1>1, PlacesRemoved DEF ShedOK
<1>5. Cardinality(Places(shed')) = shed_used'
  BY <1>2, <1>4 DEF ShedOK, ShedAccounted
<1>6. shed' \in [Items -> 0..ShedCapacity] /\ shed_used' \in 0..ShedCapacity
  BY <1>1, <1>2, <1>3, StoresAssumption DEF ShedOK
<1> QED BY <1>5, <1>6, StoresAssumption DEF ShedOK, ShedAccounted, Places

LEMMA ShedUnchanged == ShedOK /\ UNCHANGED <<shed, shed_used>> => ShedOK'
BY DEF ShedOK, ShedAccounted, Places

-----------------------------------------------------------------------------
(* What the units carry.                                                   *)

CarryOK == /\ inventory \in [Units -> [Items -> Nat]]
           /\ item_order \in [Units -> [Items -> Nat]]
           /\ item_order_seq \in Nat
           /\ StampsInOrder

carry == <<inventory, item_order, item_order_seq>>

\* The step of ArrivalOrderKept.
ArrivalStep ==
    \A u \in Units, i \in Items :
        inventory'[u][i] > 0 =>
            IF inventory[u][i] > 0 THEN item_order'[u][i] = item_order[u][i]
            ELSE \A j \in Items : item_order'[u][i] > item_order[u][j]

\* Only unit u's goods move.
OnlyCarrier(u) == \A v \in Units \ {u} : inventory'[v] = inventory[v]

LEMMA CarryInitSound == StoresInit => CarryOK
BY DEF StoresInit, CarryOK, StampsInOrder

LEMMA ReceiveSound ==
  ASSUME CarryOK, NEW u \in Units, NEW i \in Items, NEW n \in Nat, Receive(u, i, n)
  PROVE  CarryOK' /\ ArrivalStep /\ OnlyCarrier(u)
<1>1. inventory' \in [Units -> [Items -> Nat]] /\ OnlyCarrier(u)
  BY DEF CarryOK, Receive, OnlyCarrier
<1>2. CASE n > 0 /\ inventory[u][i] = 0
  <2>1. /\ item_order_seq' = item_order_seq + 1
        /\ item_order' = [item_order EXCEPT ![u][i] = item_order_seq + 1]
        /\ inventory' = [inventory EXCEPT ![u][i] = n]
    BY <1>2 DEF Receive, CarryOK
  <2>2. item_order' \in [Units -> [Items -> Nat]] /\ item_order_seq' \in Nat
    BY <2>1 DEF CarryOK
  <2>3. StampsInOrder'
    BY <1>2, <2>1 DEF CarryOK, StampsInOrder
  <2>4. ArrivalStep
    BY <1>2, <2>1 DEF CarryOK, StampsInOrder, ArrivalStep
  <2> QED BY <1>1, <2>2, <2>3, <2>4 DEF CarryOK
<1>3. CASE ~(n > 0 /\ inventory[u][i] = 0)
  <2>1. /\ item_order_seq' = item_order_seq /\ item_order' = item_order
        /\ inventory' = [inventory EXCEPT ![u][i] = inventory[u][i] + n]
    BY <1>3 DEF Receive
  <2>2. \A v \in Units, j \in Items : inventory'[v][j] > 0 <=> inventory[v][j] > 0
    BY <1>3, <2>1 DEF CarryOK
  <2>3. StampsInOrder'
    BY <2>1, <2>2 DEF CarryOK, StampsInOrder
  <2>4. ArrivalStep
    BY <2>1, <2>2 DEF CarryOK, ArrivalStep
  <2> QED BY <1>1, <2>1, <2>3, <2>4 DEF CarryOK
<1> QED BY <1>2, <1>3

LEMMA SpendSound ==
  ASSUME CarryOK, NEW u \in Units, NEW i \in Items, NEW n \in Nat,
         n <= inventory[u][i], Spend(u, i, n)
  PROVE  CarryOK' /\ ArrivalStep /\ OnlyCarrier(u)
<1>1. inventory' = [inventory EXCEPT ![u][i] = inventory[u][i] - n]
  BY DEF Spend
<1>2. inventory' \in [Units -> [Items -> Nat]] /\ OnlyCarrier(u)
  BY <1>1 DEF CarryOK, OnlyCarrier
<1>3. CASE inventory[u][i] = n
  <2>1. /\ item_order_seq' = item_order_seq
        /\ item_order' = [item_order EXCEPT ![u][i] = 0]
        /\ inventory' = [inventory EXCEPT ![u][i] = 0]
    BY <1>3, <1>1 DEF Spend, CarryOK
  <2>2. item_order' \in [Units -> [Items -> Nat]]
    BY <2>1 DEF CarryOK
  <2>3. StampsInOrder'
    BY <2>1 DEF CarryOK, StampsInOrder
  <2>4. ArrivalStep
    BY <2>1 DEF CarryOK, StampsInOrder, ArrivalStep
  <2> QED BY <1>2, <2>1, <2>2, <2>3, <2>4 DEF CarryOK
<1>4. CASE inventory[u][i] # n
  <2>1. item_order_seq' = item_order_seq /\ item_order' = item_order
    <3>1. inventory[u][i] \in Nat
      BY DEF CarryOK
    <3>2. ~(inventory[u][i] <= n)
      BY <1>4, <3>1
    <3> QED BY <3>2 DEF Spend
  <2>2. \A v \in Units, j \in Items : inventory'[v][j] > 0 <=> inventory[v][j] > 0
    BY <1>4, <1>1 DEF CarryOK
  <2>3. StampsInOrder'
    BY <2>1, <2>2 DEF CarryOK, StampsInOrder
  <2>4. ArrivalStep
    BY <2>1, <2>2 DEF CarryOK, ArrivalStep
  <2> QED BY <1>2, <2>1, <2>3, <2>4 DEF CarryOK
<1> QED BY <1>3, <1>4

LEMMA StoreItemSound ==
  ASSUME ShedOK, CarryOK, NEW u \in Units, NEW i \in Items, StoreItem(u, i)
  PROVE  ShedOK' /\ CarryOK' /\ ArrivalStep /\ OnlyCarrier(u)
<1>1. inventory[u][i] \in Nat /\ MoveToShed(i, inventory[u][i])
  BY DEF CarryOK, StoreItem
<1>2. ShedOK'
  BY <1>1, MoveToShedSound
<1>3. /\ item_order_seq' = item_order_seq
      /\ item_order' = [item_order EXCEPT ![u][i] = 0]
      /\ inventory' = [inventory EXCEPT ![u][i] = 0]
  BY DEF StoreItem
<1>4. /\ item_order' \in [Units -> [Items -> Nat]]
      /\ inventory' \in [Units -> [Items -> Nat]]
      /\ OnlyCarrier(u)
  BY <1>3 DEF CarryOK, OnlyCarrier
<1>5. StampsInOrder'
  BY <1>3 DEF CarryOK, StampsInOrder
<1>6. ArrivalStep
  BY <1>3 DEF CarryOK, StampsInOrder, ArrivalStep
<1> QED BY <1>2, <1>3, <1>4, <1>5, <1>6 DEF CarryOK

LEMMA CarryUnchanged ==
  ASSUME CarryOK, UNCHANGED carry
  PROVE  CarryOK' /\ ArrivalStep /\ \A u \in Units : OnlyCarrier(u)
BY DEF CarryOK, carry, StampsInOrder, ArrivalStep, OnlyCarrier

-----------------------------------------------------------------------------
(* THE FARM *)

(* The units, the clock and the bookkeeping of a turn. *)
ClockOK ==
    /\ seeds \in [Crops -> Nat]
    /\ position \in [Units -> Board]
    /\ hand_count \in 0..MaxHands
    /\ unlocked \in [Quadrants -> BOOLEAN]
    /\ day \in Nat
    /\ hour \in 0..(TurnsPerDay - 1)
    /\ done \in BOOLEAN
    /\ phase \in {"agent", "units", "market", "night"}
    /\ orders \in [Units -> UnitOrder]
    /\ blocked \in SUBSET Crops
    /\ next \in 0..(MaxHands + 1)
    /\ slot \in 0..MaxMarketOrders
    /\ phase = "market" => next = 0

FieldOK == /\ field \in [Board -> Tile]
           /\ TilesOneUse
           /\ LockedLandBare

\* IdleHandsEmpty alone is not inductive: hands are dismissed at dawn because the night
\* has emptied everybody below next.
IdleOK == /\ IdleHandsEmpty
          /\ phase = "night" => \A u \in Units : u < next => EmptyHanded(u)

Inv == ClockOK /\ FieldOK /\ ShedOK /\ CarryOK /\ IdleOK /\ SeedsReserved

LEMMA InvTypeOK == Inv => TypeOK
BY DEF Inv, ClockOK, FieldOK, ShedOK, CarryOK, TypeOK, StoresTypeOK

-----------------------------------------------------------------------------
(* The board and the orders. *)

LEMMA BoardFacts == /\ Home \in Board /\ Corner \in Board
                    /\ \A k \in 1..4 : Access[k] \in Board
                    /\ \A p \in Board : Quadrant(p) \in Quadrants
<1>1. 2 * Half \in Nat /\ Half >= 1 /\ Half \in Nat
  BY FarmAssumption
<1>2. 0 \in Line /\ (Half - 1) \in Line /\ Half \in Line
  BY <1>1 DEF Line
<1>3. Home \in Board /\ Corner \in Board
  BY <1>2 DEF Home, Corner, Board
<1>4. ASSUME NEW k \in 1..4 PROVE Access[k] \in Board
  <2>1. k = 1 \/ k = 2 \/ k = 3 \/ k = 4
    OBVIOUS
  <2>2. /\ Access[1] = Home /\ Access[2] = <<Half, Half - 1>>
        /\ Access[3] = <<Half - 1, Half>> /\ Access[4] = <<Half, Half>>
    BY DEF Access
  <2> QED BY <1>2, <1>3, <2>1, <2>2 DEF Board
<1>5. ASSUME NEW p \in Board PROVE Quadrant(p) \in Quadrants
  BY DEF Quadrant, Quadrants
<1> QED BY <1>3, <1>4, <1>5

LEMMA SteppedOnBoard == ASSUME NEW p \in Board, NEW move PROVE Stepped(p, move) \in Board
BY DEF Stepped

LEMMA OrderFields ==
  ASSUME NEW o \in UnitOrder
  PROVE  /\ o.op = "PLANT" => o.target \in Crops
         /\ o.op = "BUILD" => o.target \in Structures
         /\ o.op \in {"PLACE", "PICKUP"} => o.target \in Items /\ o.n \in Nat
BY DEF UnitOrder, Moves

LEMMA PassIsOrder == Pass \in UnitOrder
BY DEF Pass, UnitOrder

LEMMA ServingFacts ==
  ASSUME ClockOK, Serving
  PROVE  /\ next \in Units /\ next <= hand_count /\ next + 1 \in 0..(MaxHands + 1)
         /\ here \in Board /\ order \in UnitOrder /\ phase = "units"
<1>1. next \in Units /\ next <= hand_count /\ next + 1 \in 0..(MaxHands + 1)
  BY StoresAssumption DEF ClockOK, Serving, Units
<1> QED BY <1>1 DEF ClockOK, Serving, here, order

\* What an order needs to have an effect.
LEMMA EffectiveFacts ==
  /\ Acts("PLANT") => /\ open /\ Vacant(tile) /\ seeds[order.target] > 0
                      /\ order.target \notin blocked
  /\ Acts("HARVEST") => /\ open
                        /\ IF tile.animal # None THEN tile.animal_yield > 0 ELSE Ripe(tile)
  /\ Acts("FEED") => open /\ tile.animal # None /\ holds(Wheat)
  /\ Acts("WATER") => open /\ tile.crop # None
  /\ Acts("BUILD") => open /\ Vacant(tile)
  /\ Acts("FERTILIZE") => open /\ tile.crop # None /\ holds(Fertilizer)
  /\ Acts("CARE") => open /\ tile.animal # None
  /\ Acts("COLLECT_FERTILIZER") => open /\ tile.animal # None
  /\ Acts("DIG") => open
BY DEF Acts, Effective, Moves

-----------------------------------------------------------------------------
(* The clock. *)

LEMMA ServedClock ==
  ASSUME ClockOK, Serving, Served, UNCHANGED <<seeds, position>>
  PROVE  ClockOK'
BY ServingFacts DEF ClockOK, Served

LEMMA ClockUnits == ASSUME ClockOK, UnitActs PROVE ClockOK'
<1>1. CASE Skip
  BY <1>1, ServedClock DEF Skip
<1>2. CASE Move
  <2>1. next \in Units /\ here \in Board /\ next + 1 \in 0..(MaxHands + 1) /\ phase = "units"
    BY <1>2, ServingFacts DEF Move
  <2>2. Stepped(here, order.op) \in Board
    BY <2>1, SteppedOnBoard
  <2> QED BY <1>2, <2>1, <2>2 DEF ClockOK, Move, Served
<1>3. CASE Plant
  <2>1. /\ order.target \in Crops /\ seeds[order.target] > 0
        /\ next + 1 \in 0..(MaxHands + 1) /\ phase = "units"
    BY <1>3, ServingFacts, OrderFields, EffectiveFacts DEF Plant, Acts
  <2>2. seeds' \in [Crops -> Nat]
    BY <1>3, <2>1 DEF ClockOK, Plant
  <2> QED BY <1>3, <2>1, <2>2 DEF ClockOK, Plant, Served
<1>4. CASE Harvest
  BY <1>4, ServedClock DEF Harvest, Acts
<1>5. CASE Feed
  BY <1>5, ServedClock DEF Feed, Acts
<1>6. CASE Water
  BY <1>6, ServedClock DEF Water, Acts
<1>7. CASE Build
  BY <1>7, ServedClock DEF Build, Acts
<1>8. CASE Fertilize
  BY <1>8, ServedClock DEF Fertilize, Acts
<1>9. CASE Care
  BY <1>9, ServedClock DEF Care, Acts
<1>10. CASE CollectFertilizer
  BY <1>10, ServedClock DEF CollectFertilizer, Acts
<1>11. CASE Dig
  BY <1>11, ServedClock DEF Dig, Acts
<1>12. CASE Place
  BY <1>12, ServedClock DEF Place, Acts
<1>13. CASE PickUp
  BY <1>13, ServedClock DEF PickUp, Acts
<1>14. CASE Drop
  BY <1>14 DEF Drop, turn, ClockOK
<1> QED BY <1>1, <1>2, <1>3, <1>4, <1>5, <1>6, <1>7, <1>8, <1>9, <1>10, <1>11, <1>12,
           <1>13, <1>14 DEF UnitActs

LEMMA ClockMarket == ASSUME ClockOK, MarketServes PROVE ClockOK'
<1>a. ASSUME NEW op, NEW target, Trades(op, target)
      PROVE  /\ slot' \in 0..MaxMarketOrders
             /\ UNCHANGED <<day, hour, done, phase, orders, blocked, next>>
  BY <1>a, FarmAssumption DEF Trades, ClockOK
<1>1. CASE PassSlot
  BY <1>1, FarmAssumption DEF PassSlot, ClockOK
<1>2. CASE BuySeed
  BY <1>2, <1>a DEF BuySeed, ClockOK
<1>3. CASE BuyGoods
  BY <1>3, <1>a DEF BuyGoods, ClockOK
<1>4. CASE Sell
  BY <1>4, <1>a DEF Sell, ClockOK
<1>5. CASE Hire
  <2>1. Trades("HIRE", None) /\ hand_count < MaxHands /\ hand_count' = hand_count + 1
        /\ UNCHANGED <<seeds, unlocked>>
    BY <1>5 DEF Hire
  <2>2. PICK k \in 1..4 : position' = [position EXCEPT ![hand_count + 1] = Access[k]]
    BY <1>5 DEF Hire
  <2>3. position' \in [Units -> Board]
    BY <2>2, BoardFacts DEF ClockOK
  <2>4. hand_count' \in 0..MaxHands
    BY <2>1, StoresAssumption DEF ClockOK
  <2> QED BY <1>a, <2>1, <2>3, <2>4 DEF ClockOK
<1>6. CASE BuyLand
  BY <1>6, <1>a DEF BuyLand, ClockOK
<1> QED BY <1>1, <1>2, <1>3, <1>4, <1>5, <1>6 DEF MarketServes

(* A turn of the farm, whichever legal orders the agent submits. *)

Submits == \E o \in [Units -> UnitOrder] : Submitted(o)
Plays == \/ Submits \/ UnitActs \/ UnitsDone \/ MarketServes
         \/ EndTurn \/ Dusk \/ StoreCarried \/ Dawn
         \/ SubmitWhenDone

LEMMA NextPlays == Next => Plays
BY FarmAssumption DEF Next, Plays, Submit, Submits

LEMMA ClockStep == ASSUME ClockOK, [Plays]_vars PROVE ClockOK'
<1>1. CASE Submits
  <2>1. orders' \in [Units -> UnitOrder]
    BY <1>1, FarmAssumption DEF Submits, Submitted
  <2>2. blocked' \in SUBSET Crops
    BY <1>1 DEF Submits, Submitted, OverRequested
  <2> QED BY <1>1, <2>1, <2>2, StoresAssumption DEF Submits, Submitted, ClockOK, Farmer
<1>2. CASE UnitActs
  BY <1>2, ClockUnits
<1>3. CASE UnitsDone
  BY <1>3, PassIsOrder, StoresAssumption, FarmAssumption DEF UnitsDone, ClockOK
<1>4. CASE MarketServes
  BY <1>4, ClockMarket
<1>5. CASE EndTurn
  BY <1>5, FieldAssumption, FarmAssumption
     DEF EndTurn, Closing, LastHour, Finished, ClockOK
<1>6. CASE Dusk
  BY <1>6, FarmAssumption DEF Dusk, ClockOK
<1>7. CASE StoreCarried
  <2>1. next' \in 0..(MaxHands + 1)
    BY <1>7, StoresAssumption DEF StoreCarried, AllStored, ClockOK
  <2> QED BY <1>7, <2>1 DEF StoreCarried, ClockOK
<1>8. CASE Dawn
  BY <1>8, BoardFacts, FieldAssumption, StoresAssumption DEF Dawn, Finished, ClockOK
<1>9. CASE SubmitWhenDone \/ UNCHANGED vars
  BY <1>9 DEF SubmitWhenDone, vars, turn, ClockOK
<1> QED BY <1>1, <1>2, <1>3, <1>4, <1>5, <1>6, <1>7, <1>8, <1>9 DEF Plays

LEMMA ClockInit == Init => ClockOK
<1> SUFFICES ASSUME Init PROVE ClockOK
  OBVIOUS
<1>1. position \in [Units -> Board]
  BY BoardFacts DEF Init
<1>2. orders \in [Units -> UnitOrder]
  BY PassIsOrder DEF Init
<1>3. /\ seeds \in [Crops -> Nat] /\ hand_count \in 0..MaxHands
      /\ unlocked \in [Quadrants -> BOOLEAN] /\ next \in 0..(MaxHands + 1)
      /\ slot \in 0..MaxMarketOrders
  BY StoresAssumption, FarmAssumption DEF Init
<1>4. day \in Nat /\ hour \in 0..(TurnsPerDay - 1)
  BY FieldAssumption DEF Init
<1>5. /\ phase \in {"agent", "units", "market", "night"} /\ phase # "market"
      /\ done \in BOOLEAN /\ blocked \in SUBSET Crops
  BY DEF Init
<1> QED BY <1>1, <1>2, <1>3, <1>4, <1>5 DEF ClockOK

-----------------------------------------------------------------------------
(* The field. *)

\* Writing one tile, when the land is open.
LEMMA BecomesSound ==
  ASSUME FieldOK, NEW t \in Tile, OneUse(t), here \in Board, open, Becomes(t),
         UNCHANGED unlocked
  PROVE  FieldOK'
<1>1. field' \in [Board -> Tile]
  BY DEF FieldOK, Becomes
<1>2. \A p \in Board : field'[p] = IF p = here THEN t ELSE field[p]
  BY DEF FieldOK, Becomes
<1>3. TilesOneUse'
  BY <1>2 DEF FieldOK, TilesOneUse
<1>4. LockedLandBare'
  BY <1>2 DEF FieldOK, LockedLandBare, open
<1> QED BY <1>1, <1>3, <1>4 DEF FieldOK

LEMMA FieldUnchanged ==
  ASSUME FieldOK, UNCHANGED <<field, unlocked>> PROVE FieldOK'
BY DEF FieldOK, TilesOneUse, LockedLandBare

\* The end of a turn treats every tile alike.
LEMMA AllTilesSound ==
  ASSUME FieldOK, NEW Tended, Tended \in [Board -> Tile],
         \A p \in Board : /\ OneUse(field[p]) => OneUse(Tended[p])
                          /\ Vacant(field[p]) /\ ~unlocked[Quadrant(p)] => Vacant(Tended[p]),
         field' = Tended, UNCHANGED unlocked
  PROVE  FieldOK'
<1>1. TilesOneUse'
  BY DEF FieldOK, TilesOneUse
<1>2. LockedLandBare'
  BY DEF FieldOK, LockedLandBare
<1> QED BY <1>1, <1>2 DEF FieldOK

LEMMA HereSound ==
  ASSUME ClockOK, FieldOK, Serving
  PROVE  /\ here \in Board /\ tile \in Tile /\ OneUse(tile)
         /\ Vacant(tile) => tile.animal = None
         /\ ~Vacant(tile) => open
<1>1. here \in Board /\ tile \in Tile /\ OneUse(tile)
  BY ServingFacts DEF FieldOK, TilesOneUse, tile
<1>2. Vacant(tile) => tile.animal = None
  BY <1>1, FieldAssumption DEF Vacant, OneUse, Tile
<1>3. ~Vacant(tile) => open
  BY <1>1 DEF FieldOK, LockedLandBare, open, tile
<1> QED BY <1>1, <1>2, <1>3

LEMMA FieldUnits == ASSUME ClockOK, FieldOK, UnitActs PROVE FieldOK'
<1>1. CASE Skip
  BY <1>1, FieldUnchanged DEF Skip, Served
<1>2. CASE Move
  BY <1>2, FieldUnchanged DEF Move, Served
<1>3. CASE Plant
  <2>1. Serving /\ order.target \in Crops /\ open /\ Vacant(tile)
    BY <1>3, EffectiveFacts, ServingFacts, OrderFields DEF Plant, Acts
  <2>2. /\ Planted(tile, order.target, day) \in Tile
        /\ OneUse(Planted(tile, order.target, day))
    BY <2>1, HereSound, PlantedSound DEF ClockOK
  <2> QED BY <1>3, <2>1, <2>2, HereSound, BecomesSound DEF Plant, Served
<1>4. CASE Harvest
  <2>1. Serving /\ open /\ UNCHANGED unlocked
    BY <1>4, EffectiveFacts DEF Harvest, Acts, Served
  <2>2. CASE tile.animal # None
    BY <1>4, <2>1, <2>2, HereSound, ServiceSound, BecomesSound DEF Harvest
  <2>3. CASE tile.animal = None
    BY <1>4, <2>1, <2>3, HereSound, CropHarvestedSound, BecomesSound DEF Harvest
  <2> QED BY <2>2, <2>3
<1>5. CASE Feed
  BY <1>5, HereSound, EffectiveFacts, ServiceSound, BecomesSound DEF Feed, Acts, Served
<1>6. CASE Water
  <2>1. Serving /\ open /\ tile.crop # None /\ UNCHANGED unlocked
    BY <1>6, EffectiveFacts DEF Water, Acts, Served
  <2>2. CropWatered(tile, day) \in Tile /\ OneUse(CropWatered(tile, day))
    BY <2>1, HereSound, CropWateredSound DEF ClockOK
  <2> QED BY <1>6, <2>1, <2>2, HereSound, BecomesSound DEF Water
<1>7. CASE Build
  <2>1. /\ Serving /\ order.target \in Structures /\ open /\ Vacant(tile)
        /\ UNCHANGED unlocked
    BY <1>7, EffectiveFacts, ServingFacts, OrderFields DEF Build, Acts, Served
  <2>2. Built(tile, order.target) \in Tile /\ OneUse(Built(tile, order.target))
    BY <2>1, HereSound, BuiltSound
  <2> QED BY <1>7, <2>1, <2>2, HereSound, BecomesSound DEF Build
<1>8. CASE Fertilize
  <2>1. Serving /\ open /\ UNCHANGED unlocked
    BY <1>8, EffectiveFacts DEF Fertilize, Acts, Served
  <2>2. CropFertilized(tile, day) \in Tile /\ OneUse(CropFertilized(tile, day))
    BY <2>1, HereSound, CropFertilizedSound DEF ClockOK
  <2> QED BY <1>8, <2>1, <2>2, HereSound, BecomesSound DEF Fertilize
<1>9. CASE Care
  BY <1>9, HereSound, EffectiveFacts, ServiceSound, BecomesSound DEF Care, Acts, Served
<1>10. CASE CollectFertilizer
  BY <1>10, HereSound, EffectiveFacts, ServiceSound, BecomesSound
     DEF CollectFertilizer, Acts, Served
<1>11. CASE Dig
  BY <1>11, HereSound, EffectiveFacts, DugSound, BecomesSound DEF Dig, Acts, Served
<1>12. CASE Place
  <2>1. Serving /\ UNCHANGED unlocked
    BY <1>12 DEF Place, Acts, Served
  <2>2. CASE Houses
    <3>1. order.target \in Animals /\ Welcomes(tile, order.target)
      BY <2>2 DEF Houses
    <3>2. open
      BY <2>1, <3>1, HereSound, FieldAssumption DEF Welcomes, Vacant
    <3>3. /\ AnimalPlaced(tile, order.target) \in Tile
          /\ OneUse(AnimalPlaced(tile, order.target))
      BY <2>1, <3>1, HereSound, AnimalPlacedSound
    <3> QED BY <1>12, <2>1, <2>2, <3>2, <3>3, HereSound, BecomesSound DEF Place
  <2>3. CASE ~Houses
    BY <1>12, <2>1, <2>3, FieldUnchanged DEF Place
  <2> QED BY <2>2, <2>3
<1>13. CASE PickUp
  BY <1>13, FieldUnchanged DEF PickUp, Served
<1>14. CASE Drop
  BY <1>14, FieldUnchanged DEF Drop
<1> QED BY <1>1, <1>2, <1>3, <1>4, <1>5, <1>6, <1>7, <1>8, <1>9, <1>10, <1>11, <1>12,
           <1>13, <1>14 DEF UnitActs

LEMMA FieldStep == ASSUME ClockOK, FieldOK, [Plays]_vars PROVE FieldOK'
<1>0. step \in Nat /\ day \in Nat
  BY FieldAssumption DEF ClockOK, step
<1>1. CASE Submits \/ UnitsDone \/ StoreCarried \/ SubmitWhenDone \/ UNCHANGED vars
  BY <1>1, FieldUnchanged DEF Submits, Submitted, UnitsDone, StoreCarried, SubmitWhenDone, vars
<1>2. CASE UnitActs
  BY <1>2, FieldUnits
<1>3. CASE MarketServes
  <2>1. CASE BuyLand
    <3>1. field' = field
      BY <2>1 DEF BuyLand, Trades
    <3>2. \A q \in Quadrants : unlocked[q] => unlocked'[q]
      BY <2>1 DEF BuyLand, ClockOK
    <3> QED BY <3>1, <3>2, BoardFacts DEF FieldOK, TilesOneUse, LockedLandBare
  <2>2. CASE ~BuyLand
    BY <1>3, <2>2, FieldUnchanged
       DEF MarketServes, PassSlot, BuySeed, BuyGoods, Sell, Hire, Trades
  <2> QED BY <2>1, <2>2
<1>4. CASE EndTurn
  <2> DEFINE Tended == [p \in Board |-> Decayed(field[p], step)]
  <2>1. ASSUME NEW p \in Board
        PROVE  /\ Decayed(field[p], step) \in Tile
               /\ OneUse(field[p]) => OneUse(Decayed(field[p], step))
               /\ Vacant(field[p]) => Vacant(Decayed(field[p], step))
    BY <1>0, <2>1, DecayedSound DEF FieldOK
  <2>2. /\ Tended \in [Board -> Tile]
        /\ \A p \in Board : Tended[p] = Decayed(field[p], step)
    BY <2>1
  <2>3. field' = Tended /\ UNCHANGED unlocked
    BY <1>4 DEF EndTurn
  <2> HIDE DEF Tended
  <2> QED BY <2>1, <2>2, <2>3, AllTilesSound
<1>5. CASE Dusk
  <2> DEFINE Tended == [p \in Board |-> Overnight(Decayed(field[p], step), day)]
  <2>1. ASSUME NEW p \in Board
        PROVE  /\ Overnight(Decayed(field[p], step), day) \in Tile
               /\ OneUse(field[p]) => OneUse(Overnight(Decayed(field[p], step), day))
               /\ Vacant(field[p]) => Vacant(Overnight(Decayed(field[p], step), day))
    <3>1. field[p] \in Tile
      BY <2>1 DEF FieldOK
    <3> DEFINE t == Decayed(field[p], step)
    <3>2. /\ t \in Tile
          /\ OneUse(field[p]) => OneUse(t)
          /\ Vacant(field[p]) => Vacant(t)
      BY <1>0, <3>1, DecayedSound
    <3> HIDE DEF t
    <3>3. /\ Overnight(t, day) \in Tile
          /\ OneUse(t) => OneUse(Overnight(t, day))
          /\ Vacant(t) => Vacant(Overnight(t, day))
      BY <1>0, <3>2, OvernightSound
    <3> QED BY <3>2, <3>3 DEF t
  <2>2. /\ Tended \in [Board -> Tile]
        /\ \A p \in Board : Tended[p] = Overnight(Decayed(field[p], step), day)
    BY <2>1
  <2>3. field' = Tended /\ UNCHANGED unlocked
    BY <1>5 DEF Dusk
  <2> HIDE DEF Tended
  <2> QED BY <2>1, <2>2, <2>3, AllTilesSound
<1>6. CASE Dawn
  <2>1. PICK sprouts \in SUBSET {p \in Board : Vacant(field[p]) /\ unlocked[Quadrant(p)]} :
           field' = [p \in Board |-> [field[p] EXCEPT !.weed = @ \/ p \in sprouts]]
    BY <1>6 DEF Dawn
  <2> DEFINE Sprouted(p) == [field[p] EXCEPT !.weed = @ \/ p \in sprouts]
             Tended == [p \in Board |-> Sprouted(p)]
  <2>2. ASSUME NEW p \in Board
        PROVE  /\ Sprouted(p) \in Tile
               /\ OneUse(field[p]) => OneUse(Sprouted(p))
               /\ Vacant(field[p]) /\ ~unlocked[Quadrant(p)] => Vacant(Sprouted(p))
    <3>1. field[p] \in Tile
      BY <2>2 DEF FieldOK
    <3>2. PICK b \in BOOLEAN : b <=> p \in sprouts
      BY Zenon
    <3>3. (b => Vacant(field[p])) /\ (~unlocked[Quadrant(p)] => ~b)
      BY <3>2
    <3> DEFINE s == [field[p] EXCEPT !.weed = @ \/ b]
    <3>4. /\ s \in Tile
          /\ OneUse(field[p]) => OneUse(s)
          /\ Vacant(field[p]) /\ ~b => Vacant(s)
      BY <3>1, <3>3, WeedSound
    <3>5. Sprouted(p) = s
      BY <3>2
    <3> HIDE DEF Sprouted, s
    <3> QED BY <3>3, <3>4, <3>5
  <2> HIDE DEF Sprouted
  <2>3. /\ Tended \in [Board -> Tile]
        /\ \A p \in Board : Tended[p] = Sprouted(p)
    BY <2>2
  <2>4. field' = Tended /\ UNCHANGED unlocked
    BY <1>6, <2>1 DEF Dawn, Sprouted
  <2> HIDE DEF Tended
  <2> QED BY <2>2, <2>3, <2>4, AllTilesSound
<1> QED BY <1>1, <1>2, <1>3, <1>4, <1>5, <1>6 DEF Plays

LEMMA FieldInit == Init => FieldOK
BY BareTileSound DEF Init, FieldOK, TilesOneUse, LockedLandBare

-----------------------------------------------------------------------------
(* The goods. *)

LEMMA GoodsUnchanged ==
  ASSUME ShedOK, CarryOK, UNCHANGED stores
  PROVE  ShedOK' /\ CarryOK' /\ ArrivalStep /\ \A u \in Units : OnlyCarrier(u)
BY ShedUnchanged, CarryUnchanged DEF stores, carry

LEMMA ReceiveGoods ==
  ASSUME ShedOK, CarryOK, NEW u \in Units, NEW i \in Items, NEW n \in Nat,
         Receive(u, i, n), UNCHANGED <<shed, shed_used>>
  PROVE  ShedOK' /\ CarryOK' /\ ArrivalStep /\ OnlyCarrier(u)
BY ShedUnchanged, ReceiveSound

LEMMA SpendGoods ==
  ASSUME ShedOK, CarryOK, NEW u \in Units, NEW i \in Items, NEW n \in Nat,
         n <= inventory[u][i], Spend(u, i, n), UNCHANGED <<shed, shed_used>>
  PROVE  ShedOK' /\ CarryOK' /\ ArrivalStep /\ OnlyCarrier(u)
BY ShedUnchanged, SpendSound

LEMMA GoodsUnits ==
  ASSUME ClockOK, FieldOK, ShedOK, CarryOK, UnitActs
  PROVE  ShedOK' /\ CarryOK' /\ ArrivalStep /\ OnlyCarrier(next)
<1>0. Serving
  BY DEF UnitActs, Skip, Move, Plant, Harvest, Feed, Water, Build, Fertilize, Care,
         CollectFertilizer, Dig, Place, PickUp, Drop, Acts
<1>a. next \in Units /\ order \in UnitOrder /\ tile \in Tile
  BY <1>0, ServingFacts, HereSound
<1>b. Wheat \in Items /\ Fertilizer \in Items /\ Crops \subseteq Items /\ Animals \subseteq Items
  BY FarmAssumption
<1>c. \A i \in Items : inventory[next][i] \in Nat
  BY <1>a DEF CarryOK
<1>1. CASE Skip \/ Move \/ Plant \/ Water \/ Build \/ Care \/ Dig
  <2>1. UNCHANGED stores
    BY <1>1 DEF Skip, Move, Plant, Water, Build, Care, Dig
  <2> QED BY <2>1, <1>a, GoodsUnchanged
<1>2. CASE Harvest
  <2>1. CASE tile.animal # None
    <3>1. AnimalProduct[tile.animal] \in Items /\ tile.animal_yield \in Nat
      BY <2>1, <1>a, FarmAssumption DEF Tile
    <3> QED BY <1>2, <1>a, <2>1, <3>1, ReceiveGoods DEF Harvest
  <2>2. CASE tile.animal = None
    <3>1. tile.crop \in Items /\ tile.yield \in Nat
      BY <1>2, <1>a, <1>b, <2>2, EffectiveFacts DEF Harvest, Ripe, Tile
    <3> QED BY <1>2, <1>a, <2>2, <3>1, ReceiveGoods DEF Harvest
  <2> QED BY <2>1, <2>2
<1>3. CASE Feed
  <2>1. 1 <= inventory[next][Wheat]
    BY <1>3, <1>b, <1>c, EffectiveFacts DEF Feed, holds
  <2> QED BY <1>3, <1>a, <1>b, <2>1, SpendGoods DEF Feed
<1>4. CASE Fertilize
  <2>1. 1 <= inventory[next][Fertilizer]
    BY <1>4, <1>b, <1>c, EffectiveFacts DEF Fertilize, holds
  <2> QED BY <1>4, <1>a, <1>b, <2>1, SpendGoods DEF Fertilize
<1>5. CASE CollectFertilizer
  BY <1>5, <1>a, <1>b, ReceiveGoods DEF CollectFertilizer
<1>6. CASE Place
  <2>1. order.target \in Items /\ order.n \in Nat /\ inventory[next][order.target] \in Nat
    BY <1>6, <1>a, <1>c, OrderFields DEF Place, Acts
  <2>2. CASE Houses
    <3>1. 1 <= inventory[next][order.target]
      BY <2>1, <2>2 DEF Houses, holds
    <3> QED BY <1>6, <1>a, <2>1, <2>2, <3>1, SpendGoods DEF Place
  <2>3. CASE ~Houses
    <3> DEFINE fits == Lesser(inventory[next][order.target], ShedRoom)
               moved == Lesser(fits, order.n)
    <3>1. fits \in Nat /\ fits <= inventory[next][order.target]
      BY <2>1, ShedRoomSound, LesserSound
    <3>2. MoveToShed(order.target, moved) /\ Spend(next, order.target, moved)
      BY <1>6, <2>3 DEF Place
    <3> HIDE DEF fits
    <3>3. moved \in Nat /\ moved <= fits
      BY <2>1, <3>1, LesserSound
    <3> HIDE DEF moved
    <3>4. moved <= inventory[next][order.target]
      BY <2>1, <3>1, <3>3
    <3> QED BY <1>a, <2>1, <3>2, <3>3, <3>4, MoveToShedSound, SpendSound
  <2> QED BY <2>2, <2>3
<1>7. CASE PickUp
  <2>1. order.target \in Items /\ order.n \in Nat /\ shed[order.target] \in Nat
    BY <1>7, <1>a, OrderFields, StoresAssumption DEF PickUp, Acts, ShedOK
  <2>2. Lesser(order.n, shed[order.target]) \in Nat
    BY <2>1, LesserSound
  <2>3. /\ MoveFromShed(order.target, order.n)
        /\ Receive(next, order.target, Lesser(order.n, shed[order.target]))
    BY <1>7 DEF PickUp
  <2> QED BY <1>a, <2>1, <2>2, <2>3, MoveFromShedSound, ReceiveSound
<1>8. CASE Drop
  BY <1>8, <1>a, StoreItemSound DEF Drop
<1> QED BY <1>1, <1>2, <1>3, <1>4, <1>5, <1>6, <1>7, <1>8 DEF UnitActs

LEMMA GoodsMarket ==
  ASSUME ClockOK, ShedOK, CarryOK, MarketServes
  PROVE  ShedOK' /\ UNCHANGED carry
<1>1. CASE PassSlot \/ BuySeed \/ Hire \/ BuyLand
  <2>1. UNCHANGED stores
    BY <1>1 DEF PassSlot, BuySeed, Hire, BuyLand
  <2> QED BY <2>1, ShedUnchanged DEF stores, carry
<1>2. CASE BuyGoods
  <2>1. PICK i \in {Wheat, Fertilizer} \cup Animals, n \in 1..OrderUnits :
           MoveToShed(i, n) /\ UNCHANGED carry
    BY <1>2 DEF BuyGoods, carry
  <2>2. i \in Items /\ n \in Nat
    BY <2>1, FarmAssumption
  <2> QED BY <2>1, <2>2, MoveToShedSound
<1>3. CASE Sell
  <2>1. PICK i \in Items \ Animals, n \in 1..OrderUnits :
           MoveFromShed(i, n) /\ UNCHANGED carry
    BY <1>3 DEF Sell, carry
  <2>2. i \in Items /\ n \in Nat
    BY <2>1, FarmAssumption
  <2> QED BY <2>1, <2>2, MoveFromShedSound
<1> QED BY <1>1, <1>2, <1>3 DEF MarketServes

LEMMA GoodsStep ==
  ASSUME ClockOK, FieldOK, ShedOK, CarryOK, [Plays]_vars
  PROVE  ShedOK' /\ CarryOK' /\ ArrivalStep
<1>1. CASE UnitActs
  BY <1>1, GoodsUnits
<1>2. CASE MarketServes
  BY <1>2, GoodsMarket, CarryUnchanged
<1>3. CASE StoreCarried
  <2>1. CASE EmptyHanded(next)
    BY <1>3, <2>1, GoodsUnchanged DEF StoreCarried
  <2>2. CASE ~EmptyHanded(next)
    <3>1. next \in Units
      BY <1>3, StoresAssumption DEF StoreCarried, AllStored, ClockOK, Units
    <3> QED BY <1>3, <2>2, <3>1, StoreItemSound DEF StoreCarried
  <2> QED BY <2>1, <2>2
<1>4. CASE Submits \/ UnitsDone \/ EndTurn \/ Dusk \/ Dawn \/ SubmitWhenDone \/ UNCHANGED vars
  <2>1. UNCHANGED stores
    BY <1>4 DEF Submits, Submitted, UnitsDone, EndTurn, Dusk, Dawn, SubmitWhenDone, vars
  <2> QED BY <2>1, GoodsUnchanged
<1> QED BY <1>1, <1>2, <1>3, <1>4 DEF Plays

-----------------------------------------------------------------------------
(* Idle hands. *)

LEMMA OnlyCarrierEmpty ==
  ASSUME NEW u \in Units, OnlyCarrier(u), NEW v \in Units, v # u, EmptyHanded(v)
  PROVE  EmptyHanded(v)'
BY DEF OnlyCarrier, EmptyHanded, Carried

LEMMA IdleStep ==
  ASSUME ClockOK, FieldOK, ShedOK, CarryOK, IdleOK, [Plays]_vars
  PROVE  IdleOK'
<1>u. \A u \in Units : u \in Nat
  BY DEF Units
<1>1. CASE UnitActs
  <2>1. Serving
    BY <1>1 DEF UnitActs, Skip, Move, Plant, Harvest, Feed, Water, Build, Fertilize, Care,
                CollectFertilizer, Dig, Place, PickUp, Drop, Acts
  <2>2. next \in Units /\ next <= hand_count /\ phase = "units"
    BY <2>1, ServingFacts
  <2>3. OnlyCarrier(next)
    BY <1>1, GoodsUnits
  <2>4. hand_count' = hand_count /\ phase' = phase
    BY <1>1 DEF UnitActs, Skip, Move, Plant, Harvest, Feed, Water, Build, Fertilize, Care,
                CollectFertilizer, Dig, Place, PickUp, Drop, Served, turn
  <2>5. ASSUME NEW u \in Units, u > hand_count PROVE EmptyHanded(u)'
    BY <2>2, <2>3, <2>5, <1>u, OnlyCarrierEmpty DEF IdleOK, IdleHandsEmpty, ClockOK
  <2> QED BY <2>2, <2>4, <2>5 DEF IdleOK, IdleHandsEmpty
<1>2. CASE MarketServes
  <2>1. UNCHANGED carry
    BY <1>2, GoodsMarket
  <2>2. phase' = "market" /\ hand_count' >= hand_count /\ hand_count' \in Nat
    <3>1. phase' = "market"
      BY <1>2 DEF MarketServes, PassSlot, BuySeed, BuyGoods, Sell, Hire, BuyLand, Trades
    <3>2. hand_count' = hand_count \/ hand_count' = hand_count + 1
      BY <1>2 DEF MarketServes, PassSlot, BuySeed, BuyGoods, Sell, Hire, BuyLand
    <3>3. hand_count \in Nat
      BY DEF ClockOK
    <3> QED BY <3>1, <3>2, <3>3
  <2> QED BY <2>1, <2>2, <1>u
          DEF IdleOK, IdleHandsEmpty, EmptyHanded, Carried, carry, ClockOK
<1>3. CASE StoreCarried
  <2>1. /\ next \in Units /\ next <= hand_count /\ phase = "night"
        /\ UNCHANGED <<hand_count, phase>>
    BY <1>3, StoresAssumption DEF StoreCarried, AllStored, ClockOK, Units
  <2>2. CASE EmptyHanded(next)
    <3>1. next' = next + 1 /\ UNCHANGED stores
      BY <1>3, <2>2 DEF StoreCarried
    <3>2. ASSUME NEW u \in Units PROVE EmptyHanded(u)' <=> EmptyHanded(u)
      BY <3>1 DEF EmptyHanded, Carried, stores
    <3>3. ASSUME NEW u \in Units, u < next + 1 PROVE EmptyHanded(u)
      BY <2>1, <2>2, <3>3, <1>u DEF IdleOK
    <3> QED BY <2>1, <3>1, <3>2, <3>3 DEF IdleOK, IdleHandsEmpty
  <2>3. CASE ~EmptyHanded(next)
    <3>1. OnlyCarrier(next) /\ next' = next
      BY <1>3, <2>1, <2>3, StoreItemSound DEF StoreCarried
    <3>2. ASSUME NEW u \in Units, u > hand_count \/ u < next PROVE EmptyHanded(u)'
      <4>1. u # next /\ EmptyHanded(u)
        BY <2>1, <3>2, <1>u DEF IdleOK, IdleHandsEmpty, ClockOK
      <4> QED BY <2>1, <3>1, <4>1, OnlyCarrierEmpty
    <3> QED BY <2>1, <3>1, <3>2 DEF IdleOK, IdleHandsEmpty
  <2> QED BY <2>2, <2>3
<1>4. CASE Dusk
  <2>1. next' = 0 /\ UNCHANGED <<hand_count, stores>>
    BY <1>4 DEF Dusk, Closing, ClockOK
  <2>2. \A u \in Units : EmptyHanded(u)' <=> EmptyHanded(u)
    BY <2>1 DEF EmptyHanded, Carried, stores
  <2> QED BY <2>1, <2>2, <1>u DEF IdleOK, IdleHandsEmpty
<1>5. CASE Dawn
  <2>1. /\ phase = "night" /\ next > hand_count /\ hand_count' = 0 /\ phase' = "agent"
        /\ UNCHANGED stores
    BY <1>5 DEF Dawn, AllStored
  <2>2. ASSUME NEW u \in Units PROVE EmptyHanded(u)
    <3>1. u < next \/ u > hand_count
      BY <2>1, <1>u DEF ClockOK
    <3> QED BY <2>1, <3>1 DEF IdleOK, IdleHandsEmpty
  <2>3. \A u \in Units : EmptyHanded(u)' <=> EmptyHanded(u)
    BY <2>1 DEF EmptyHanded, Carried, stores
  <2> QED BY <2>1, <2>2, <2>3 DEF IdleOK, IdleHandsEmpty
<1>6. CASE Submits \/ UnitsDone \/ EndTurn
  <2>1. phase' # "night" /\ UNCHANGED <<hand_count, stores>>
    BY <1>6 DEF Submits, Submitted, UnitsDone, EndTurn
  <2>2. \A u \in Units : EmptyHanded(u)' <=> EmptyHanded(u)
    BY <2>1 DEF EmptyHanded, Carried, stores
  <2> QED BY <2>1, <2>2 DEF IdleOK, IdleHandsEmpty
<1>7. CASE SubmitWhenDone \/ UNCHANGED vars
  <2>1. UNCHANGED <<hand_count, phase, next, stores>>
    BY <1>7 DEF SubmitWhenDone, vars, turn
  <2>2. \A u \in Units : EmptyHanded(u)' <=> EmptyHanded(u)
    BY <2>1 DEF EmptyHanded, Carried, stores
  <2> QED BY <2>1, <2>2 DEF IdleOK, IdleHandsEmpty
<1> QED BY <1>1, <1>2, <1>3, <1>4, <1>5, <1>6, <1>7 DEF Plays

LEMMA GoodsInit == Init => ShedOK /\ CarryOK /\ IdleOK
<1>1. Init => ShedOK /\ CarryOK
  BY ShedInitSound, CarryInitSound DEF Init
<1>2. Init => IdleOK
  BY DEF Init, StoresInit, IdleOK, IdleHandsEmpty, EmptyHanded, Carried
<1> QED BY <1>1, <1>2

-----------------------------------------------------------------------------
(* Seeds. *)

LEMMA ToComeFinite ==
  ASSUME NEW o, NEW c, NEW n
  PROVE  LET toCome == {u \in Requests(o, c) : u >= n} IN
         IsFiniteSet(toCome) /\ Cardinality(toCome) \in Nat
<1>1. IsFiniteSet(Units)
  BY FS_Interval, StoresAssumption DEF Units
<1>2. {u \in Requests(o, c) : u >= n} \in SUBSET Units
  BY DEF Requests
<1>3. IsFiniteSet({u \in Requests(o, c) : u >= n})
  BY <1>1, <1>2, FS_Subset
<1> QED BY <1>3, FS_CardinalityType

\* A unit that has been served only takes a request away.
LEMMA SeedsServed ==
  ASSUME ClockOK, SeedsReserved, Serving, Served, UNCHANGED seeds
  PROVE  SeedsReserved'
<1>1. next' = next + 1 /\ orders' = orders /\ phase' = phase /\ blocked' = blocked
  BY DEF Served
<1>2. ASSUME phase = "units", NEW c \in Crops \ blocked
      PROVE  Cardinality({u \in Requests(orders, c) : u >= next + 1}) <= seeds[c]
  <2> DEFINE before == {u \in Requests(orders, c) : u >= next}
             after  == {u \in Requests(orders, c) : u >= next + 1}
  <2>1. after \in SUBSET before
    BY DEF Requests, Units, ClockOK
  <2>2. IsFiniteSet(before) /\ Cardinality(before) \in Nat /\ Cardinality(after) \in Nat
    BY ToComeFinite
  <2>3. Cardinality(before) <= seeds[c]
    BY <1>2 DEF SeedsReserved
  <2> HIDE DEF before, after
  <2>4. Cardinality(after) <= Cardinality(before)
    BY <2>1, <2>2, FS_Subset
  <2>5. Cardinality(after) <= seeds[c]
    BY <2>2, <2>3, <2>4 DEF ClockOK
  <2> QED BY <2>5 DEF after
<1> QED BY <1>1, <1>2 DEF SeedsReserved, Requests

\* The seed a unit plants is the one its own request was counted for.
LEMMA SeedsPlanted ==
  ASSUME ClockOK, SeedsReserved, Plant
  PROVE  SeedsReserved'
<1>1. /\ next' = next + 1 /\ orders' = orders /\ phase' = phase /\ blocked' = blocked
      /\ seeds' = [seeds EXCEPT ![order.target] = @ - 1]
  BY DEF Plant, Served
<1>2. next \in Units /\ order.op = "PLANT" /\ order.target \in Crops /\ seeds[order.target] > 0
  BY ServingFacts, OrderFields, EffectiveFacts DEF Plant, Acts
<1>3. ASSUME phase = "units", NEW c \in Crops \ blocked
      PROVE  Cardinality({u \in Requests(orders, c) : u >= next + 1}) <= seeds'[c]
  <2> DEFINE before == {u \in Requests(orders, c) : u >= next}
             after  == {u \in Requests(orders, c) : u >= next + 1}
  <2>1. IsFiniteSet(before) /\ Cardinality(before) \in Nat /\ Cardinality(after) \in Nat
    BY ToComeFinite
  <2>2. Cardinality(before) <= seeds[c] /\ seeds[c] \in Nat
    BY <1>3 DEF SeedsReserved, ClockOK
  <2>3. CASE c = order.target
    <3>1. next \in before
      BY <1>2, <2>3 DEF Requests, order, Units
    <3>2. after = before \ {next}
      BY <1>2 DEF Requests, Units
    <3> HIDE DEF before, after
    <3>3. Cardinality(after) = Cardinality(before) - 1
      BY <2>1, <3>1, <3>2, FS_RemoveElement
    <3>4. seeds'[c] = seeds[c] - 1
      BY <1>1, <1>3, <2>3 DEF ClockOK
    <3>5. Cardinality(after) <= seeds'[c]
      BY <2>1, <2>2, <3>3, <3>4
    <3> QED BY <3>5 DEF after
  <2>4. CASE c # order.target
    <3>1. after \in SUBSET before
      BY <1>2 DEF Requests, Units
    <3> HIDE DEF before, after
    <3>2. Cardinality(after) <= Cardinality(before)
      BY <2>1, <3>1, FS_Subset
    <3>3. seeds'[c] = seeds[c]
      BY <1>1, <1>3, <2>4 DEF ClockOK
    <3>4. Cardinality(after) <= seeds'[c]
      BY <2>1, <2>2, <3>2, <3>3
    <3> QED BY <3>4 DEF after
  <2> QED BY <2>3, <2>4
<1> QED BY <1>1, <1>3 DEF SeedsReserved, Requests

LEMMA SeedsStep ==
  ASSUME ClockOK, SeedsReserved, [Plays]_vars
  PROVE  SeedsReserved'
<1>1. CASE Submits
  <2>1. phase' = "units" /\ next' = 0 /\ UNCHANGED seeds
    BY <1>1 DEF Submits, Submitted, Farmer
  <2>2. ASSUME NEW c \in Crops \ blocked'
        PROVE  Cardinality({u \in Requests(orders', c) : u >= 0}) <= seeds[c]
    <3>1. {u \in Requests(orders', c) : u >= 0} = Requests(orders', c)
      BY DEF Requests, Units
    <3>2. blocked' = OverRequested(orders')
      BY <1>1 DEF Submits, Submitted
    <3>3. ~(Cardinality(Requests(orders', c)) > seeds[c])
      BY <2>2, <3>2 DEF OverRequested
    <3>4. Cardinality({u \in Requests(orders', c) : u >= 0}) \in Nat
      BY ToComeFinite
    <3> DEFINE requests == Requests(orders', c)
    <3> HIDE DEF requests
    <3>5. Cardinality(requests) \in Nat /\ ~(Cardinality(requests) > seeds[c])
      BY <3>1, <3>3, <3>4 DEF requests
    <3>6. seeds[c] \in Nat
      BY <2>2 DEF ClockOK
    <3>7. Cardinality(requests) <= seeds[c]
      BY <3>5, <3>6
    <3> QED BY <3>1, <3>7 DEF requests
  <2> QED BY <2>1, <2>2 DEF SeedsReserved, Requests
<1>2. CASE UnitActs
  <2>1. CASE Plant
    BY <2>1, SeedsPlanted
  <2>2. CASE Drop
    BY <2>2 DEF Drop, turn, SeedsReserved, Requests
  <2>3. CASE ~Plant /\ ~Drop
    <3>1. Serving /\ Served /\ UNCHANGED seeds
      BY <1>2, <2>3 DEF UnitActs, Skip, Move, Harvest, Feed, Water, Build, Fertilize, Care,
                        CollectFertilizer, Dig, Place, PickUp, Acts
    <3> QED BY <3>1, SeedsServed
  <2> QED BY <2>1, <2>2, <2>3
<1>3. CASE UnitsDone \/ MarketServes \/ EndTurn \/ Dusk \/ StoreCarried \/ Dawn
  <2>1. phase' # "units"
    BY <1>3 DEF UnitsDone, MarketServes, PassSlot, BuySeed, BuyGoods, Sell, Hire, BuyLand,
                Trades, EndTurn, Dusk, StoreCarried, Dawn
  <2> QED BY <2>1 DEF SeedsReserved
<1>4. CASE SubmitWhenDone \/ UNCHANGED vars
  BY <1>4 DEF SubmitWhenDone, vars, turn, SeedsReserved, Requests
<1> QED BY <1>1, <1>2, <1>3, <1>4 DEF Plays

-----------------------------------------------------------------------------
(* The theorems. *)

\* The parts of Inv hold together in every reachable state; what follows are its
\* consequences.
THEOREM InvInductive == Spec => []Inv
<1>1. Init => Inv
  <2>1. Init => SeedsReserved
    BY DEF Init, SeedsReserved
  <2> QED BY <2>1, ClockInit, FieldInit, GoodsInit DEF Inv
<1>2. Inv /\ [Plays]_vars => Inv'
  BY ClockStep, FieldStep, GoodsStep, IdleStep, SeedsStep DEF Inv
<1>3. [Next]_vars => [Plays]_vars
  BY NextPlays
<1> QED BY <1>1, <1>2, <1>3, PTL DEF Spec

\* Every variable keeps its type; in particular no stock of seeds or goods and no counter
\* of a tile is ever negative (the engine subtracts without a check).
THEOREM Typed == Spec => []TypeOK
BY InvInductive, InvTypeOK, PTL

\* The running total of the shed, kept by move_to_shed and move_from_shed, is the number
\* of pieces in it and never exceeds the capacity.
THEOREM ShedAccounts == Spec => []ShedAccounted
<1>1. Inv => ShedAccounted
  BY DEF Inv, ShedOK
<1> QED BY <1>1, InvInductive, PTL

\* Stamps sit exactly on carried items, differ within a unit and are never ahead of the
\* sequence (mark_item_added, clear_item_if_empty).
THEOREM StampsOrdered == Spec => []StampsInOrder
<1>1. Inv => StampsInOrder
  BY DEF Inv, CarryOK
<1> QED BY <1>1, InvInductive, PTL

\* Every step keeps the stamps of what stays carried and stamps newcomers last, so that
\* DROP and the day's end store goods in the order of their arrival.
THEOREM ArrivalOrder == Spec => ArrivalOrderKept
<1>1. Inv /\ [Next]_vars => [ArrivalStep]_stores
  BY GoodsStep, NextPlays DEF Inv
<1>2. Spec => [][ArrivalStep]_stores
  BY <1>1, InvInductive, PTL DEF Spec
<1> QED BY <1>2 DEF ArrivalOrderKept, ArrivalStep

\* Crop, weed and structure exclude each other on a tile and an animal lives only in the
\* structure of its kind, whatever the agent orders (apply_unit_action, decay_plants,
\* advance_farm_growth).
THEOREM OneUsePerTile == Spec => []TilesOneUse
<1>1. Inv => TilesOneUse
  BY DEF Inv, FieldOK
<1> QED BY <1>1, InvInductive, PTL

\* Land that was not bought stays bare although PLACE, the moves and the growth ignore
\* the lock.
THEOREM LandLocked == Spec => []LockedLandBare
<1>1. Inv => LockedLandBare
  BY DEF Inv, FieldOK
<1> QED BY <1>1, InvInductive, PTL

\* A hand slot nobody was hired for holds no goods: the night empties every hired unit
\* before the hands leave.
THEOREM HandsLeaveEmpty == Spec => []IdleHandsEmpty
<1>1. Inv => IdleHandsEmpty
  BY DEF Inv, IdleOK
<1> QED BY <1>1, InvInductive, PTL

\* While the units act the seeds cover every PLANT still to come of a crop that was not
\* blocked at the start of the turn.
THEOREM SeedsCoverPlants == Spec => []SeedsReserved
<1>1. Inv => SeedsReserved
  BY DEF Inv
<1> QED BY <1>1, InvInductive, PTL
\* The seven invariants of the farm together.
THEOREM FarmHolds == Spec => []FarmOK
BY Typed, ShedAccounts, StampsOrdered, HandsLeaveEmpty, OneUsePerTile, LandLocked,
   SeedsCoverPlants, PTL DEF FarmOK

-----------------------------------------------------------------------------
(* LIVES                                                                   *)
(*                                                                         *)
(* The engine changes a tile in four ways: a unit's order, the rot at the  *)
(* end of a turn, the growth at dusk and the weeds at dawn.  What holds of *)
(* one tile is a predicate of the tile, the day it lives in (Today) and    *)
(* the turns that are over (Elapsed); there is one lemma per part of it    *)
(* and way of change, and FieldSteps says that there are no other ways.    *)

(* At dusk the turn is over for the field, and only at dawn for the clock. *)
Elapsed == IF phase = "night" THEN step + 1 ELSE step

\* The parts of CropLife, of one tile.
Calendar(t, today) ==
    t.crop # None => /\ t.age >= 0
                     /\ t.decay_step = DecayStep(t.crop, today - t.age)
OwnCover(t, today) ==
    t.crop # None => \/ t.fertilized_until = -1
                     \/ t.fertilized_until >= today - t.age + 2
Earned(t) ==
    t.crop # None /\ ~Ongoing(t.crop)
        => t.yield <= 1 + Cardinality(Waterings(t)) *
                          (IF t.fertilized_until = -1 THEN 1 ELSE 2)
RotBounded(t, elapsed) ==
    t.crop # None /\ elapsed >= t.decay_step
        => 2 * t.yield + (elapsed - t.decay_step) <= 2 * MaxYield[t.crop]
Thriving(t) == t.crop # None => t.yield \in 0..MaxYield[t.crop] /\ t.unwatered <= 1

CropSound(t, today, elapsed) ==
    /\ Calendar(t, today) /\ OwnCover(t, today) /\ Earned(t)
    /\ RotBounded(t, elapsed) /\ Thriving(t)

\* The parts of AnimalLife, of one tile.
Nourished(t) ==
    t.animal # None => t.animal_yield \in 0..MaxHeld[t.animal] /\ t.unfed <= 1
CareRecent(t) ==
    t.animal # None =>
        t.pending_care <=
            IF t.animal_age < AnimalFirstDay[t.animal] THEN t.animal_age
            ELSE ((t.animal_age - AnimalFirstDay[t.animal]) % AnimalInterval[t.animal]) + 1
AnimalSound(t) == Nourished(t) /\ CareRecent(t)

LifeOK == /\ phase = "night" => hour = TurnsPerDay - 1
          /\ \A p \in Board : CropSound(field[p], Today, Elapsed) /\ AnimalSound(field[p])

-----------------------------------------------------------------------------
(* What a unit's order may make of the tile it stands on. *)

Planting(t, s) == \E c \in Crops : Vacant(t) /\ s = Planted(t, c, day)
Watering(t, s) == t.crop # None /\ s = CropWatered(t, day)
Fertilizing(t, s) == t.crop # None /\ s = CropFertilized(t, day)
Reaping(t, s) == t.crop # None /\ s = CropHarvested(t)
Digging(t, s) == s = Dug(t)
Building(t, s) == \E b \in Structures : Vacant(t) /\ s = Built(t, b)
Housing(t, s) == \E a \in Animals : Welcomes(t, a) /\ s = AnimalPlaced(t, a)
Gathering(t, s) == t.animal # None /\ s = [t EXCEPT !.animal_yield = 0]
Feeding(t, s) == t.animal # None /\ s = [t EXCEPT !.fed = TRUE]
Caring(t, s) == t.animal # None /\ s = [t EXCEPT !.cared = TRUE]
Mucking(t, s) == t.animal # None /\ s = [t EXCEPT !.fertilizer = FALSE]

\* Only these four give something that BenefitsGiven is about.
Given(t, s) ==
    \/ Acts("WATER") /\ Watering(t, s)
    \/ Acts("FERTILIZE") /\ Fertilizing(t, s)
    \/ Acts("FEED") /\ Feeding(t, s)
    \/ Acts("CARE") /\ Caring(t, s)
NotGiven(t, s) ==
    \/ Planting(t, s) \/ Reaping(t, s) \/ Digging(t, s) \/ Building(t, s)
    \/ Housing(t, s) \/ Gathering(t, s) \/ Mucking(t, s)
Work(t, s) == Given(t, s) \/ NotGiven(t, s)

\* The four ways, and that nothing happens.
Idles == field' = field /\ Today' = Today /\ Elapsed' = Elapsed
Works == /\ phase = "units" /\ Today' = Today /\ Elapsed' = Elapsed
         /\ here \in Board /\ \E s : Work(tile, s) /\ Becomes(s)
Rots == /\ phase # "night" /\ Today' = Today /\ Elapsed' = Elapsed + 1
        /\ field' = [p \in Board |-> Decayed(field[p], step)]
Grows == /\ phase # "night" /\ phase' = "night"
         /\ Today' = Today + 1 /\ Elapsed' = Elapsed + 1 /\ Elapsed' = Today' * TurnsPerDay
         /\ field' = [p \in Board |-> Overnight(Decayed(field[p], step), day)]
Sprouts == /\ Today' = Today /\ Elapsed' = Elapsed
           /\ \E sprouts \in SUBSET {p \in Board : Vacant(field[p])} :
                 field' = [p \in Board |-> [field[p] EXCEPT !.weed = @ \/ p \in sprouts]]

LEMMA ClockFacts ==
  ASSUME ClockOK
  PROVE  /\ step \in Nat /\ day \in Nat /\ TurnsPerDay \in Nat /\ TurnsPerDay >= 1
         /\ phase # "night" => /\ Today = day /\ Elapsed = step
                               /\ step < (day + 1) * TurnsPerDay
         /\ Today \in Nat /\ Elapsed \in Nat
<1>1. TurnsPerDay \in Nat /\ TurnsPerDay >= 1 /\ day \in Nat /\ hour \in 0..(TurnsPerDay - 1)
  BY FieldAssumption DEF ClockOK
<1>2. /\ day * TurnsPerDay \in Nat
      /\ (day + 1) * TurnsPerDay = day * TurnsPerDay + TurnsPerDay
  BY <1>1
<1>3. step \in Nat /\ step < (day + 1) * TurnsPerDay
  BY <1>1, <1>2 DEF step
<1> QED BY <1>1, <1>3 DEF Today, Elapsed

LEMMA WorkDone ==
  ASSUME ClockOK, FieldOK, UnitActs
  PROVE  field' = field \/ (here \in Board /\ \E s : Work(tile, s) /\ Becomes(s))
<1> USE DEF Work, Given, NotGiven
<1>0. Serving => here \in Board
  BY ServingFacts
<1>1. CASE Skip \/ Move \/ PickUp \/ Drop
  BY <1>1 DEF Skip, Move, PickUp, Drop
<1>2. CASE Plant
  <2>1. Serving /\ order.target \in Crops /\ Vacant(tile)
    BY <1>2, EffectiveFacts, ServingFacts, OrderFields DEF Plant, Acts
  <2> QED BY <1>0, <1>2, <2>1 DEF Plant, Planting
<1>3. CASE Harvest
  <2>1. Serving /\ (tile.animal = None => tile.crop # None)
    BY <1>3, EffectiveFacts DEF Harvest, Acts, Ripe
  <2> QED BY <1>0, <1>3, <2>1 DEF Harvest, Gathering, Reaping
<1>4. CASE Feed
  BY <1>0, <1>4, EffectiveFacts DEF Feed, Feeding, Acts
<1>5. CASE Water
  BY <1>0, <1>5, EffectiveFacts DEF Water, Watering, Acts
<1>6. CASE Build
  <2>1. Serving /\ order.target \in Structures /\ Vacant(tile)
    BY <1>6, EffectiveFacts, ServingFacts, OrderFields DEF Build, Acts
  <2> QED BY <1>0, <1>6, <2>1 DEF Build, Building
<1>7. CASE Fertilize
  BY <1>0, <1>7, EffectiveFacts DEF Fertilize, Fertilizing, Acts
<1>8. CASE Care
  BY <1>0, <1>8, EffectiveFacts DEF Care, Caring, Acts
<1>9. CASE CollectFertilizer
  BY <1>0, <1>9, EffectiveFacts DEF CollectFertilizer, Mucking, Acts
<1>10. CASE Dig
  BY <1>0, <1>10 DEF Dig, Digging, Acts
<1>11. CASE Place
  BY <1>0, <1>11 DEF Place, Houses, Housing, Acts
<1> QED BY <1>1, <1>2, <1>3, <1>4, <1>5, <1>6, <1>7, <1>8, <1>9, <1>10, <1>11 DEF UnitActs

LEMMA FieldSteps ==
  ASSUME ClockOK, FieldOK, LifeOK, [Plays]_vars
  PROVE  /\ Idles \/ Works \/ Rots \/ Grows \/ Sprouts
         /\ phase' = "night" => hour' = TurnsPerDay - 1
<1>a. /\ step \in Nat /\ day \in Nat /\ TurnsPerDay \in Nat /\ TurnsPerDay >= 1
      /\ hour \in 0..(TurnsPerDay - 1)
  BY ClockFacts DEF ClockOK
<1>0. /\ day * TurnsPerDay \in Nat
      /\ (day + 1) * TurnsPerDay = day * TurnsPerDay + TurnsPerDay
  BY <1>a
<1>1. CASE Submits \/ UnitsDone \/ StoreCarried \/ SubmitWhenDone \/ UNCHANGED vars
  <2>1. field' = field /\ UNCHANGED <<day, hour>> /\ (phase' = "night" <=> phase = "night")
    BY <1>1 DEF Submits, Submitted, UnitsDone, StoreCarried, SubmitWhenDone, vars, turn
  <2> QED BY <2>1 DEF Idles, Today, Elapsed, step, LifeOK
<1>2. CASE MarketServes
  <2>1. UNCHANGED <<field, day, hour, phase>>
    BY <1>2 DEF MarketServes, PassSlot, BuySeed, BuyGoods, Sell, Hire, BuyLand, Trades
  <2> QED BY <2>1 DEF Idles, Today, Elapsed, step, LifeOK
<1>3. CASE UnitActs
  <2>1. UNCHANGED <<day, hour, phase>> /\ phase = "units"
    BY <1>3 DEF UnitActs, Skip, Move, Plant, Harvest, Feed, Water, Build, Fertilize, Care,
                CollectFertilizer, Dig, Place, PickUp, Drop, Served, Acts, Serving, turn
  <2>2. Today' = Today /\ Elapsed' = Elapsed
    BY <2>1 DEF Today, Elapsed, step
  <2> QED BY <1>3, <2>1, <2>2, WorkDone DEF Idles, Works
<1>4. CASE EndTurn
  BY <1>a, <1>0, <1>4 DEF EndTurn, Closing, Rots, Today, Elapsed, step
<1>5. CASE Dusk
  BY <1>a, <1>0, <1>5 DEF Dusk, Closing, LastHour, Grows, Today, Elapsed, step
<1>6. CASE Dawn
  <2>1. phase = "night" /\ hour = TurnsPerDay - 1
    BY <1>6 DEF Dawn, LifeOK
  <2>2. day' = day + 1 /\ hour' = 0 /\ phase' = "agent"
    BY <1>6 DEF Dawn
  <2>3. Today' = Today /\ Elapsed' = Elapsed
    BY <1>a, <1>0, <2>1, <2>2 DEF Today, Elapsed, step
  <2>4. \E sprouts \in SUBSET {p \in Board : Vacant(field[p])} :
           field' = [p \in Board |-> [field[p] EXCEPT !.weed = @ \/ p \in sprouts]]
    <3>1. PICK sprouts \in SUBSET {p \in Board : Vacant(field[p]) /\ unlocked[Quadrant(p)]} :
             field' = [p \in Board |-> [field[p] EXCEPT !.weed = @ \/ p \in sprouts]]
      BY <1>6 DEF Dawn
    <3> QED BY <3>1
  <2> QED BY <2>2, <2>3, <2>4 DEF Sprouts
<1> QED BY <1>1, <1>2, <1>3, <1>4, <1>5, <1>6 DEF Plays

-----------------------------------------------------------------------------
(* Calendars. *)

LEMMA Monotone ==
  ASSUME NEW m \in Int, NEW n \in Int, m <= n, NEW k \in Nat
  PROVE  m * k \in Int /\ n * k \in Int /\ m * k <= n * k
OBVIOUS

LEMMA Remainder ==
  ASSUME NEW n \in Int, NEW k \in Int, k > 0
  PROVE  n \div k \in Int /\ n % k = n - k * (n \div k) /\ n % k \in 0..(k - 1)
OBVIOUS

LEMMA ProductionDaysSound == ASSUME NEW c \in Crops PROVE ProductionDays(c) \in Nat
<1>1. /\ FirstYieldDay[c] \in Nat /\ MaxYieldDay[c] \in Nat
      /\ MaxYield[c] - 1 \in Nat /\ Interval[c] \in Nat
  BY FieldAssumption
<1>2. (MaxYield[c] - 1) * Interval[c] \in Nat
  BY <1>1
<1> QED BY <1>1, <1>2 DEF ProductionDays

\* A crop that is still to produce has not begun to rot.
LEMMA RotsLater ==
  ASSUME NEW c \in Crops, NEW planted \in Int, NEW today \in Nat,
         NEW elapsed \in Nat, elapsed <= (today + 1) * TurnsPerDay,
         today + 1 <= planted + ProductionDays(c)
  PROVE  elapsed < DecayStep(c, planted)
<1>1. TurnsPerDay \in Nat /\ TurnsPerDay >= 1 /\ ProductionDays(c) \in Nat
  BY FieldAssumption, ProductionDaysSound
<1> DEFINE d == planted + ProductionDays(c)
<1>2. d \in Int /\ today + 1 <= d
  BY <1>1
<1> HIDE DEF d
<1>3. /\ (today + 1) * TurnsPerDay <= d * TurnsPerDay
      /\ (d + 1) * TurnsPerDay = d * TurnsPerDay + TurnsPerDay
      /\ (today + 1) * TurnsPerDay \in Int /\ d * TurnsPerDay \in Int
  BY <1>1, <1>2, Monotone
<1>4. elapsed < (d + 1) * TurnsPerDay
  BY <1>1, <1>3
<1> QED BY <1>4 DEF DecayStep, d

LEMMA RotsNotToday ==
  ASSUME NEW c \in Crops, NEW planted \in Int, NEW today \in Nat,
         NEW elapsed \in Nat, elapsed < (today + 1) * TurnsPerDay,
         today <= planted + ProductionDays(c)
  PROVE  elapsed < DecayStep(c, planted)
<1>1. TurnsPerDay \in Nat /\ TurnsPerDay >= 1 /\ ProductionDays(c) \in Nat
  BY FieldAssumption, ProductionDaysSound
<1> DEFINE d == planted + ProductionDays(c)
<1>2. d + 1 \in Int /\ today + 1 <= d + 1
  BY <1>1
<1> HIDE DEF d
<1>3. /\ (today + 1) * TurnsPerDay <= (d + 1) * TurnsPerDay
      /\ (today + 1) * TurnsPerDay \in Int /\ (d + 1) * TurnsPerDay \in Int
  BY <1>1, <1>2, Monotone
<1>4. elapsed < (d + 1) * TurnsPerDay
  BY <1>1, <1>3
<1> QED BY <1>4 DEF DecayStep, d

LEMMA BearsInTime ==
  ASSUME NEW c \in Crops, NEW age \in Int, BearsAt(c, age)
  PROVE  Ongoing(c) /\ age <= ProductionDays(c)
<1> DEFINE since == age - FirstYieldDay[c]
           k == since \div Interval[c]
<1>1. /\ FirstYieldDay[c] \in Nat /\ MaxYield[c] - 1 \in Nat /\ Interval[c] \in Nat
      /\ Interval[c] > 0 /\ Ongoing(c)
  BY FieldAssumption DEF BearsAt, Ongoing
<1>2. since \in Nat /\ since % Interval[c] = 0 /\ k + 1 <= MaxYield[c]
  BY <1>1 DEF BearsAt
<1>3. since % Interval[c] = since - Interval[c] * k /\ k \in Int
  BY <1>1, <1>2, Remainder
<1> HIDE DEF k
<1>4. k * Interval[c] <= (MaxYield[c] - 1) * Interval[c]
  <2>1. MaxYield[c] \in Int
    BY FieldAssumption
  <2> QED BY <1>1, <1>2, <1>3, <2>1, Monotone
<1>5. since = k * Interval[c]
  BY <1>1, <1>2, <1>3
<1>6. since <= (MaxYield[c] - 1) * Interval[c]
  BY <1>4, <1>5
<1> QED BY <1>1, <1>6 DEF ProductionDays

-----------------------------------------------------------------------------
(* What does not touch a crop or an animal leaves it as it is. *)

SameCrop(t, s) ==
    /\ s.crop = t.crop /\ s.age = t.age /\ s.yield = t.yield /\ s.decay_step = t.decay_step
    /\ s.unwatered = t.unwatered /\ s.watered = t.watered
    /\ s.fertilized_until = t.fertilized_until

SameAnimal(t, s) ==
    /\ s.animal = t.animal /\ s.animal_age = t.animal_age
    /\ s.animal_yield = t.animal_yield /\ s.unfed = t.unfed
    /\ s.pending_care = t.pending_care

LEMMA SameCropSound ==
  ASSUME NEW t, NEW s, NEW today, NEW elapsed, SameCrop(t, s), CropSound(t, today, elapsed)
  PROVE  CropSound(s, today, elapsed)
<1>1. t.crop # None => Waterings(s) = Waterings(t)
  BY DEF Waterings, SameCrop
<1> QED BY <1>1 DEF SameCrop, CropSound, Calendar, OwnCover, Earned, RotBounded, Thriving

LEMMA SameAnimalSound ==
  ASSUME NEW t, NEW s, SameAnimal(t, s), AnimalSound(t) PROVE AnimalSound(s)
BY DEF SameAnimal, AnimalSound, Nourished, CareRecent

LEMMA NoCropSound ==
  ASSUME NEW t, t.crop = None, NEW today, NEW elapsed PROVE CropSound(t, today, elapsed)
BY DEF CropSound, Calendar, OwnCover, Earned, RotBounded, Thriving

LEMMA NoAnimalSound == ASSUME NEW t, t.animal = None PROVE AnimalSound(t)
BY DEF AnimalSound, Nourished, CareRecent

\* The waterings a crop can have had are the days of its window.
LEMMA WateringsFinite ==
  ASSUME NEW t, t.crop \in Crops
  PROVE  /\ IsFiniteSet(Waterings(t)) /\ Cardinality(Waterings(t)) \in Nat
         /\ Waterings(t) \subseteq Int
<1> DEFINE lo == (MaxYieldDay[t.crop] + 1) \div 2
           hi == MaxYieldDay[t.crop]
<1>1. lo \in Int /\ hi \in Int
  BY FieldAssumption
<1>2. IsFiniteSet(lo..hi)
  BY <1>1, FS_Interval
<1>3. Waterings(t) \subseteq lo..hi
  BY DEF Waterings
<1>4. IsFiniteSet(Waterings(t))
  BY <1>2, <1>3, FS_Subset
<1> QED BY <1>1, <1>3, <1>4, FS_CardinalityType

-----------------------------------------------------------------------------
(* Crops: each way of change. *)

LEMMA PlantedLives ==
  ASSUME NEW t \in Tile, NEW c \in Crops, NEW today \in Nat,
         NEW elapsed \in Nat, elapsed < (today + 1) * TurnsPerDay
  PROVE  CropSound(Planted(t, c, today), today, elapsed)
<1> DEFINE s == Planted(t, c, today)
<1>1. /\ s.crop = c /\ s.age = 0 /\ s.decay_step = DecayStep(c, today)
      /\ s.yield = (IF Ongoing(c) THEN 0 ELSE 1) /\ s.unwatered = 1
      /\ s.fertilized_until = -1
  BY DEF Planted, Tile
<1> HIDE DEF s
<1>2. Calendar(s, today) /\ OwnCover(s, today)
  BY <1>1 DEF Calendar, OwnCover
<1>3. Thriving(s)
  <2>1. MaxYield[c] \in Nat /\ MaxYield[c] >= 1
    BY FieldAssumption
  <2> QED BY <1>1, <2>1 DEF Thriving
<1>4. Earned(s)
  <2>1. Cardinality(Waterings(s)) \in Nat
    BY <1>1, WateringsFinite
  <2> QED BY <1>1, <2>1 DEF Earned
<1>5. RotBounded(s, elapsed)
  <2>1. today <= today + ProductionDays(c)
    BY ProductionDaysSound
  <2>2. elapsed < DecayStep(c, today)
    BY <2>1, RotsNotToday
  <2>3. DecayStep(c, today) \in Int
    BY DecayStepSound
  <2> QED BY <1>1, <2>2, <2>3 DEF RotBounded
<1> QED BY <1>2, <1>3, <1>4, <1>5 DEF CropSound, s

\* One more watering, of a crop in its window that was dry.
LEMMA WateringAdds ==
  ASSUME NEW t \in Tile, t.crop \in Crops, ~t.watered, InWateringWindow(t),
         NEW s, s.crop = t.crop, s.age = t.age, s.watered
  PROVE  Cardinality(Waterings(s)) = Cardinality(Waterings(t)) + 1
<1>1. t.age \in Int
  BY DEF Tile
<1>2. Waterings(s) = Waterings(t) \cup {t.age}
  <2> DEFINE window == ((MaxYieldDay[t.crop] + 1) \div 2)..MaxYieldDay[t.crop]
  <2>1. t.age \in window
    BY <1>1, FieldAssumption DEF InWateringWindow
  <2>2. /\ Waterings(t) = {a \in window : a < t.age}
        /\ Waterings(s) = {a \in window : a < t.age \/ a = t.age}
    BY DEF Waterings
  <2> HIDE DEF window
  <2> QED BY <2>1, <2>2
<1>3. t.age \notin Waterings(t)
  BY <1>1 DEF Waterings
<1> QED BY <1>2, <1>3, WateringsFinite, FS_AddElement

LEMMA WateredLives ==
  ASSUME NEW t \in Tile, t.crop # None, NEW today \in Nat,
         NEW elapsed \in Nat, elapsed < (today + 1) * TurnsPerDay,
         CropSound(t, today, elapsed)
  PROVE  CropSound(CropWatered(t, today), today, elapsed)
<1> DEFINE s == CropWatered(t, today)
           c == t.crop
           bonus == IF t.fertilized_until >= today THEN 2 ELSE 1
           grows == ~t.watered /\ InWateringWindow(t)
<1>1. /\ s.crop = c /\ s.age = t.age /\ s.decay_step = t.decay_step
      /\ s.unwatered = t.unwatered /\ s.fertilized_until = t.fertilized_until
      /\ s.watered = TRUE
      /\ s.yield = IF grows THEN AtMost(t.yield + bonus, MaxYield[c]) ELSE t.yield
  BY DEF CropWatered, Tile
<1>2. /\ c \in Crops /\ t.age \in Int /\ t.yield \in 0..MaxYield[c] /\ t.unwatered <= 1
      /\ MaxYield[c] \in Nat /\ t.fertilized_until \in Int /\ t.watered \in BOOLEAN
      /\ bonus \in {1, 2}
  BY FieldAssumption DEF Tile, CropSound, Thriving
<1>3. /\ AtMost(t.yield + bonus, MaxYield[c]) \in 0..MaxYield[c]
      /\ AtMost(t.yield + bonus, MaxYield[c]) <= t.yield + bonus
  BY <1>2 DEF AtMost
<1> HIDE DEF s, c, bonus
<1>4. Calendar(s, today) /\ OwnCover(s, today)
  BY <1>1 DEF CropSound, Calendar, OwnCover, c
<1>5. Thriving(s)
  BY <1>1, <1>2, <1>3 DEF Thriving
<1>6. RotBounded(s, elapsed)
  <2>1. CASE grows
    <3>1. t.age <= ProductionDays(c)
      BY <2>1 DEF InWateringWindow, ProductionDays, c
    <3>2. t.decay_step = DecayStep(c, today - t.age)
      BY <1>2, FieldAssumption DEF CropSound, Calendar, c
    <3>3. today - t.age \in Int /\ today <= (today - t.age) + ProductionDays(c)
      BY <1>2, <3>1, ProductionDaysSound
    <3>4. elapsed < t.decay_step
      BY <1>2, <3>2, <3>3, RotsNotToday
    <3> QED BY <1>1, <3>4 DEF RotBounded, Tile
  <2>2. CASE ~grows
    BY <1>1, <2>2 DEF CropSound, RotBounded, c
  <2> QED BY <2>1, <2>2
<1>7. Earned(s)
  <2> SUFFICES ASSUME ~Ongoing(c)
               PROVE  s.yield <= 1 + Cardinality(Waterings(s)) *
                                     (IF t.fertilized_until = -1 THEN 1 ELSE 2)
    BY <1>1 DEF Earned
  <2> DEFINE w == Cardinality(Waterings(t))
             worth == IF t.fertilized_until = -1 THEN 1 ELSE 2
  <2>1. t.yield <= 1 + w * worth
    BY DEF CropSound, Earned, c
  <2>2. w \in Nat /\ worth \in {1, 2}
    BY <1>2, WateringsFinite DEF c
  <2>3. CASE grows
    <3>1. Cardinality(Waterings(s)) = w + 1
      BY <1>1, <1>2, <2>3, WateringAdds DEF c
    <3>2. bonus <= worth
      BY <1>2 DEF bonus
    <3> HIDE DEF w, worth
    <3>3. t.yield + bonus <= 1 + (w + 1) * worth
      BY <1>2, <2>1, <2>2, <3>2
    <3>4. s.yield <= t.yield + bonus /\ s.yield \in Int
      BY <1>1, <1>2, <1>3, <2>3
    <3>5. s.yield <= 1 + (w + 1) * worth
      BY <1>2, <2>2, <3>3, <3>4
    <3> QED BY <3>1, <3>5 DEF worth
  <2>4. CASE t.watered
    <3>1. Waterings(s) = Waterings(t)
      BY <1>1, <2>4 DEF Waterings, c
    <3> QED BY <1>1, <2>1, <2>4, <3>1
  <2>5. CASE ~InWateringWindow(t)
    <3>1. t.age \notin ((MaxYieldDay[c] + 1) \div 2)..MaxYieldDay[c]
      BY <1>2, <2>5 DEF InWateringWindow, c
    <3>2. Waterings(s) = Waterings(t)
      BY <1>1, <3>1 DEF Waterings, c
    <3> QED BY <1>1, <2>1, <2>5, <3>2
  <2> QED BY <1>2, <2>3, <2>4, <2>5
<1> QED BY <1>4, <1>5, <1>6, <1>7 DEF CropSound, s

LEMMA FertilizedLives ==
  ASSUME NEW t \in Tile, t.crop # None, NEW today \in Nat, NEW elapsed \in Nat,
         CropSound(t, today, elapsed)
  PROVE  CropSound(CropFertilized(t, today), today, elapsed)
<1> DEFINE s == CropFertilized(t, today)
<1>1. /\ s.crop = t.crop /\ s.age = t.age /\ s.decay_step = t.decay_step
      /\ s.unwatered = t.unwatered /\ s.watered = t.watered /\ s.yield = t.yield
      /\ s.fertilized_until =
            IF t.fertilized_until >= today + 2 THEN t.fertilized_until ELSE today + 2
  BY DEF CropFertilized, Tile
<1>2. t.age \in Int /\ t.age >= 0 /\ t.fertilized_until \in Int /\ t.yield \in Int
      /\ t.crop \in Crops
  BY DEF Tile, CropSound, Calendar
<1> HIDE DEF s
<1>3. s.fertilized_until >= today - s.age + 2 /\ s.fertilized_until # -1
  BY <1>1, <1>2
<1>4. Earned(s)
  <2>1. Waterings(s) = Waterings(t) /\ Cardinality(Waterings(t)) \in Nat
    BY <1>1, <1>2, WateringsFinite DEF Waterings
  <2>2. Cardinality(Waterings(t)) * (IF t.fertilized_until = -1 THEN 1 ELSE 2)
           <= Cardinality(Waterings(t)) * 2
    BY <2>1
  <2> DEFINE w == Cardinality(Waterings(t))
             worth == IF t.fertilized_until = -1 THEN 1 ELSE 2
  <2>3. ~Ongoing(t.crop) => t.yield <= 1 + w * worth
    BY <1>2, FieldAssumption DEF CropSound, Earned
  <2>4. w \in Nat /\ worth \in {1, 2} /\ w * worth <= w * 2
    BY <2>1
  <2> HIDE DEF w, worth
  <2>5. ~Ongoing(t.crop) => t.yield <= 1 + w * 2
    BY <1>2, <2>3, <2>4
  <2> QED BY <1>1, <1>3, <2>1, <2>5 DEF Earned, w
<1> QED BY <1>1, <1>3, <1>4 DEF CropSound, Calendar, OwnCover, RotBounded, Thriving, s

LEMMA HarvestedLives ==
  ASSUME NEW t \in Tile, t.crop # None, NEW today \in Nat, NEW elapsed \in Nat,
         CropSound(t, today, elapsed)
  PROVE  CropSound(CropHarvested(t), today, elapsed)
<1>1. CASE ~Ongoing(t.crop)
  <2>1. CropHarvested(t).crop = None
    BY <1>1 DEF CropHarvested, Uprooted, Tile
  <2> QED BY <2>1, NoCropSound
<1>2. CASE Ongoing(t.crop)
  <2> DEFINE s == CropHarvested(t)
  <2>1. /\ s.crop = t.crop /\ s.age = t.age /\ s.decay_step = t.decay_step
        /\ s.unwatered = t.unwatered /\ s.fertilized_until = t.fertilized_until
        /\ s.yield = 0
    BY <1>2 DEF CropHarvested, Tile
  <2>2. /\ t.yield \in Nat /\ MaxYield[t.crop] \in Nat /\ t.decay_step \in Int
        /\ t.unwatered <= 1
    BY FieldAssumption DEF CropSound, Thriving, Tile
  <2> HIDE DEF s
  <2>3. Earned(s)
    BY <1>2, <2>1 DEF Earned
  <2>4. RotBounded(s, elapsed)
    BY <2>1, <2>2 DEF CropSound, RotBounded
  <2> QED BY <2>1, <2>2, <2>3, <2>4 DEF CropSound, Calendar, OwnCover, Thriving, s
<1> QED BY <1>1, <1>2

LEMMA DugFields ==
  ASSUME NEW t \in Tile
  PROVE  LET s == Dug(t) IN
         /\ s.crop = None
         /\ s.watered = (IF t.crop = None THEN t.watered ELSE FALSE)
         /\ ~s.weed /\ SameAnimal(t, s)
         /\ s.fed = t.fed /\ s.cared = t.cared /\ s.fertilizer = t.fertilizer
<1>1. CASE t.crop = None
  BY <1>1 DEF Dug, Tile, SameAnimal
<1>2. CASE t.crop # None
  <2> DEFINE u == [Uprooted(t) EXCEPT !.yield = 0, !.watered = FALSE, !.unwatered = 0,
                                      !.fertilized_until = -1]
             s == [u EXCEPT !.weed = FALSE,
                            !.structure = IF t.animal = None THEN None ELSE @]
  <2>1. /\ u.crop = None /\ u.watered = FALSE /\ SameAnimal(t, u)
        /\ u.fed = t.fed /\ u.cared = t.cared /\ u.fertilizer = t.fertilizer
    BY DEF Uprooted, Tile, SameAnimal
  <2>2. Dug(t) = s
    BY <1>2 DEF Dug
  <2>3. /\ s.crop = u.crop /\ s.watered = u.watered /\ ~s.weed /\ SameAnimal(u, s)
        /\ s.fed = u.fed /\ s.cared = u.cared /\ s.fertilizer = u.fertilizer
    BY DEF Uprooted, Tile, SameAnimal
  <2> HIDE DEF u, s
  <2> QED BY <1>2, <2>1, <2>2, <2>3 DEF SameAnimal
<1> QED BY <1>1, <1>2

\* Every second step past its decay step costs a crop one unit.
LEMMA DecayedFields ==
  ASSUME NEW t \in Tile, NEW now \in Nat
  PROVE  LET s == Decayed(t, now) IN
         /\ SameAnimal(t, s)
         /\ s.fed = t.fed /\ s.cared = t.cared /\ s.fertilizer = t.fertilizer
         /\ \/ ~Rotting(t, now) /\ s = t
            \/ Rotting(t, now) /\ s.crop = None /\ s.weed
            \/ /\ Rotting(t, now) /\ t.yield > 1 /\ s.yield = t.yield - 1
               /\ s.crop = t.crop /\ s.age = t.age /\ s.decay_step = t.decay_step
               /\ s.unwatered = t.unwatered /\ s.watered = t.watered /\ s.weed = t.weed
               /\ s.fertilized_until = t.fertilized_until
<1>1. CASE ~Rotting(t, now)
  BY <1>1 DEF Decayed, SameAnimal
<1>2. CASE Rotting(t, now)
  <2> DEFINE rotten == [t EXCEPT !.yield = @ - 1]
             weedy == [Uprooted(rotten) EXCEPT !.weed = TRUE]
  <2>1. /\ rotten.yield = t.yield - 1 /\ rotten.crop = t.crop /\ rotten.age = t.age
        /\ rotten.decay_step = t.decay_step /\ rotten.weed = t.weed
        /\ rotten.unwatered = t.unwatered /\ rotten.watered = t.watered
        /\ rotten.fertilized_until = t.fertilized_until /\ SameAnimal(t, rotten)
        /\ rotten.fed = t.fed /\ rotten.cared = t.cared /\ rotten.fertilizer = t.fertilizer
    BY DEF Tile, SameAnimal
  <2>2. /\ weedy.crop = None /\ weedy.weed /\ SameAnimal(t, weedy)
        /\ weedy.fed = t.fed /\ weedy.cared = t.cared /\ weedy.fertilizer = t.fertilizer
    BY DEF Uprooted, Tile, SameAnimal
  <2>3. Decayed(t, now) = IF rotten.yield <= 0 THEN weedy ELSE rotten
    BY <1>2 DEF Decayed
  <2>4. t.yield \in Int
    BY DEF Tile
  <2> HIDE DEF rotten, weedy
  <2>5. CASE t.yield <= 1
    BY <1>2, <2>1, <2>2, <2>3, <2>4, <2>5
  <2>6. CASE t.yield > 1
    <3>1. Decayed(t, now) = rotten
      BY <2>1, <2>3, <2>4, <2>6
    <3> QED BY <1>2, <2>1, <2>6, <3>1
  <2> QED BY <2>4, <2>5, <2>6
<1> QED BY <1>1, <1>2

LEMMA DecayedLives ==
  ASSUME NEW t \in Tile, NEW today \in Nat, NEW now \in Nat, CropSound(t, today, now)
  PROVE  CropSound(Decayed(t, now), today, now + 1)
<1> DEFINE s == Decayed(t, now)
<1>1. CASE s.crop = None
  BY <1>1, NoCropSound
<1>2. CASE s.crop # None
  <2>1. /\ s.crop = t.crop /\ s.age = t.age /\ s.decay_step = t.decay_step
        /\ s.unwatered = t.unwatered /\ s.watered = t.watered
        /\ s.fertilized_until = t.fertilized_until
        /\ \/ ~Rotting(t, now) /\ s.yield = t.yield
           \/ Rotting(t, now) /\ t.yield > 1 /\ s.yield = t.yield - 1
    BY <1>2, DecayedFields
  <2>2. /\ t.crop \in Crops /\ t.yield \in 0..MaxYield[t.crop] /\ t.unwatered <= 1
        /\ MaxYield[t.crop] \in Nat /\ t.decay_step \in Int /\ s.yield \in 0..MaxYield[t.crop]
        /\ s.yield <= t.yield
    BY <1>2, <2>1, FieldAssumption DEF Tile, CropSound, Thriving
  <2> HIDE DEF s
  <2>3. Earned(s)
    <3>1. Waterings(s) = Waterings(t) /\ Cardinality(Waterings(t)) \in Nat
      BY <2>1, <2>2, WateringsFinite DEF Waterings
    <3> DEFINE w == Cardinality(Waterings(t))
               worth == IF t.fertilized_until = -1 THEN 1 ELSE 2
    <3>2. ~Ongoing(t.crop) => t.yield <= 1 + w * worth
      BY <1>2, <2>1 DEF CropSound, Earned
    <3>3. w * worth \in Nat
      BY <3>1
    <3> HIDE DEF w, worth
    <3>4. ~Ongoing(t.crop) => s.yield <= 1 + w * worth
      BY <2>2, <3>2, <3>3
    <3> QED BY <2>1, <3>1, <3>4 DEF Earned, w, worth
  <2>4. RotBounded(s, now + 1)
    <3>1. CASE Rotting(t, now)
      BY <1>2, <2>1, <2>2, <3>1 DEF CropSound, RotBounded, Rotting
    <3>2. CASE ~Rotting(t, now)
      <4>0. s.yield = t.yield /\ s.decay_step = t.decay_step /\ s.crop = t.crop
        BY <2>1, <3>2
      <4> SUFFICES ASSUME now + 1 >= t.decay_step
                   PROVE  2 * t.yield + ((now + 1) - t.decay_step) <= 2 * MaxYield[t.crop]
        BY <4>0 DEF RotBounded
      <4>1. CASE now + 1 = t.decay_step
        BY <2>2, <4>1
      <4>2. CASE now >= t.decay_step
        <5>1. 2 * t.yield + (now - t.decay_step) <= 2 * MaxYield[t.crop]
          BY <1>2, <2>1, <4>2 DEF CropSound, RotBounded
        <5>2. (now - t.decay_step) % 2 # 0
          BY <1>2, <2>1, <3>2, <4>2 DEF Rotting
        <5> QED BY <2>2, <5>1, <5>2
      <4> QED BY <2>2, <4>1, <4>2
    <3> QED BY <3>1, <3>2
  <2> QED BY <2>1, <2>2, <2>3, <2>4 DEF CropSound, Calendar, OwnCover, Thriving, s
<1> QED BY <1>1, <1>2

LEMMA NightLives ==
  ASSUME NEW t \in Tile, NEW today \in Nat, NEW elapsed \in Nat,
         elapsed <= (today + 1) * TurnsPerDay, CropSound(t, today, elapsed)
  PROVE  CropSound(CropNight(t, today), today + 1, elapsed)
<1> DEFINE s == CropNight(t, today)
           dry == IF t.watered THEN 0 ELSE t.unwatered + 1
           bonus == IF t.watered /\ t.fertilized_until >= today THEN 2 ELSE 1
           bears == BearsAt(t.crop, t.age + 1)
<1>1. CASE s.crop = None
  BY <1>1, NoCropSound
<1>2. CASE s.crop # None
  <2>1. t.crop # None /\ t.crop \in Crops
    BY <1>2 DEF CropNight, Tile
  <2>2. dry < 2
    <3> SUFFICES ASSUME dry >= 2 PROVE s.crop = None
      BY <1>2 DEF Tile
    <3>1. s = [Uprooted(t) EXCEPT !.yield = 0, !.unwatered = dry,
                                  !.weed = TRUE, !.watered = FALSE]
      BY <2>1 DEF CropNight
    <3> QED BY <3>1 DEF Uprooted, Tile
  <2>3. /\ s.crop = t.crop /\ s.age = t.age + 1 /\ s.decay_step = t.decay_step
        /\ s.unwatered = dry /\ s.watered = FALSE
        /\ s.fertilized_until = t.fertilized_until
        /\ s.yield = IF bears THEN AtMost(t.yield + bonus, MaxYield[t.crop]) ELSE t.yield
    <3>1. ~(dry >= 2)
      BY <2>2 DEF Tile
    <3> QED BY <2>1, <3>1 DEF CropNight, Tile
  <2>4. /\ t.age \in Int /\ t.age >= 0 /\ t.yield \in 0..MaxYield[t.crop]
        /\ MaxYield[t.crop] \in Nat /\ t.fertilized_until \in Int /\ dry <= 1
        /\ t.decay_step = DecayStep(t.crop, today - t.age) /\ t.decay_step \in Int
        /\ bonus \in {1, 2}
    BY <2>1, <2>2, FieldAssumption DEF CropSound, Calendar, Thriving, Tile
  <2>5. AtMost(t.yield + bonus, MaxYield[t.crop]) \in 0..MaxYield[t.crop]
    BY <2>4 DEF AtMost
  <2> HIDE DEF s, dry, bonus, bears
  <2>6. (today + 1) - s.age = today - t.age
    BY <2>3, <2>4
  <2>7. Calendar(s, today + 1) /\ OwnCover(s, today + 1)
    BY <2>1, <2>3, <2>4, <2>6 DEF CropSound, Calendar, OwnCover
  <2>8. Thriving(s)
    BY <2>3, <2>4, <2>5 DEF Thriving
  <2>9. RotBounded(s, elapsed)
    <3>1. CASE bears
      <4>1. t.age + 1 <= ProductionDays(t.crop)
        BY <2>1, <2>4, <3>1, BearsInTime DEF bears
      <4>2. today - t.age \in Int /\ today + 1 <= (today - t.age) + ProductionDays(t.crop)
        BY <2>1, <2>4, <4>1, ProductionDaysSound
      <4>3. elapsed < t.decay_step
        BY <2>1, <2>4, <4>2, RotsLater
      <4> QED BY <2>3, <2>4, <4>3 DEF RotBounded
    <3>2. CASE ~bears
      BY <2>3, <3>2 DEF CropSound, RotBounded
    <3> QED BY <3>1, <3>2
  <2>10. Earned(s)
    <3> SUFFICES ASSUME ~Ongoing(t.crop)
                 PROVE  s.yield <= 1 + Cardinality(Waterings(s)) *
                                       (IF t.fertilized_until = -1 THEN 1 ELSE 2)
      BY <2>3 DEF Earned
    <3> DEFINE w == Cardinality(Waterings(t))
               v == Cardinality(Waterings(s))
               worth == IF t.fertilized_until = -1 THEN 1 ELSE 2
    <3>1. s.yield = t.yield
      BY <2>3 DEF bears, BearsAt
    <3>2. Waterings(t) \subseteq Waterings(s)
      <4>1. \A a \in Int : a < t.age \/ a = t.age => a < s.age
        BY <2>3, <2>4
      <4> QED BY <2>1, <2>3, <4>1, FieldAssumption DEF Waterings
    <3>3. w \in Nat /\ v \in Nat /\ w <= v
      BY <2>1, <2>3, <3>2, WateringsFinite, FS_Subset
    <3>4. t.yield <= 1 + w * worth
      BY <2>1 DEF CropSound, Earned
    <3>5. worth \in Nat
      OBVIOUS
    <3> HIDE DEF w, v, worth
    <3>6. w * worth \in Int /\ v * worth \in Int /\ w * worth <= v * worth
      BY <3>3, <3>5, Monotone
    <3>7. s.yield <= 1 + v * worth
      BY <2>4, <3>1, <3>4, <3>6
    <3> QED BY <3>7 DEF v, worth
  <2> QED BY <2>7, <2>8, <2>9, <2>10 DEF CropSound, s
<1> QED BY <1>1, <1>2

LEMMA AnimalNightKeepsCrop == ASSUME NEW t \in Tile PROVE SameCrop(t, AnimalNight(t))
<1>1. CASE t.animal = None
  BY <1>1 DEF AnimalNight, SameCrop
<1>2. CASE t.animal # None /\ (IF t.fed THEN 0 ELSE t.unfed + 1) >= 2
  <2>1. AnimalNight(t) = [t EXCEPT !.animal = None,
                                   !.unfed = IF t.fed THEN 0 ELSE t.unfed + 1]
    BY <1>2 DEF AnimalNight
  <2> QED BY <2>1 DEF SameCrop, Tile
<1>3. CASE t.animal # None /\ ~((IF t.fed THEN 0 ELSE t.unfed + 1) >= 2)
  BY <1>3 DEF AnimalNight, SameCrop, Tile
<1> QED BY <1>1, <1>2, <1>3

LEMMA CropNightKeepsAnimal ==
  ASSUME NEW t \in Tile, NEW today \in Nat
  PROVE  LET s == CropNight(t, today) IN
         /\ SameAnimal(t, s) /\ s.fed = t.fed /\ s.cared = t.cared
         /\ s.fertilizer = t.fertilizer /\ ~s.watered
         /\ s.fertilized_until = t.fertilized_until
         /\ s.crop \in {t.crop, None}
         /\ t.crop # None /\ s.weed => t.weed \/ ~t.watered
<1>1. CASE t.crop = None
  BY <1>1 DEF CropNight, SameAnimal, Tile
<1>2. CASE t.crop # None /\ (IF t.watered THEN 0 ELSE t.unwatered + 1) >= 2
  <2>1. CropNight(t, today) =
           [Uprooted(t) EXCEPT !.yield = 0,
                               !.unwatered = IF t.watered THEN 0 ELSE t.unwatered + 1,
                               !.weed = TRUE, !.watered = FALSE]
    BY <1>2 DEF CropNight
  <2> QED BY <1>2, <2>1 DEF Uprooted, SameAnimal, Tile
<1>3. CASE t.crop # None /\ ~((IF t.watered THEN 0 ELSE t.unwatered + 1) >= 2)
  BY <1>3 DEF CropNight, SameAnimal, Tile
<1> QED BY <1>1, <1>2, <1>3

-----------------------------------------------------------------------------
(* Animals: each way of change. *)

LEMMA NextRemainder ==
  ASSUME NEW n \in Nat, NEW k \in Nat, k > 0, (n + 1) % k # 0
  PROVE  (n + 1) % k = (n % k) + 1
<1> DEFINE q == n \div k
           r == (n + 1) \div k
<1>1. /\ q \in Int /\ r \in Int
      /\ n % k = n - k * q /\ n % k \in 0..(k - 1)
      /\ (n + 1) % k = (n + 1) - k * r /\ (n + 1) % k \in 0..(k - 1)
  BY Remainder
<1> HIDE DEF q, r
<1>2. k * q \in Int /\ k * r \in Int /\ k * (q + 1) = k * q + k /\ k * (r + 1) = k * r + k
  BY <1>1
<1>3. CASE r = q
  BY <1>1, <1>3
<1>4. CASE r >= q + 1
  <2>1. (q + 1) * k <= r * k
    BY <1>1, <1>4, Monotone
  <2> QED BY <1>1, <1>2, <2>1
<1>5. CASE q >= r + 1
  <2>1. (r + 1) * k <= q * k
    BY <1>1, <1>5, Monotone
  <2> QED BY <1>1, <1>2, <2>1
<1> QED BY <1>1, <1>3, <1>4, <1>5

LEMMA PlacedLives ==
  ASSUME NEW t \in Tile, NEW a \in Animals PROVE AnimalSound(AnimalPlaced(t, a))
<1> DEFINE s == AnimalPlaced(t, a)
<1>1. /\ s.animal = a /\ s.animal_age = 0 /\ s.animal_yield = 0 /\ s.unfed = 0
      /\ s.pending_care = 0
  BY DEF AnimalPlaced, Tile
<1>2. /\ MaxHeld[a] \in Nat /\ AnimalFirstDay[a] \in Nat
      /\ AnimalInterval[a] \in Nat /\ AnimalInterval[a] > 0
  BY FieldAssumption
<1> HIDE DEF s
<1>3. CASE AnimalFirstDay[a] > 0
  BY <1>1, <1>2, <1>3 DEF AnimalSound, Nourished, CareRecent, s
<1>4. CASE AnimalFirstDay[a] = 0
  <2>1. 0 % AnimalInterval[a] \in 0..(AnimalInterval[a] - 1)
    BY <1>2, Remainder
  <2> QED BY <1>1, <1>2, <1>4, <2>1 DEF AnimalSound, Nourished, CareRecent, s
<1> QED BY <1>2, <1>3, <1>4

LEMMA GatheredLives ==
  ASSUME NEW t \in Tile, t.animal # None, AnimalSound(t)
  PROVE  AnimalSound([t EXCEPT !.animal_yield = 0])
<1>1. MaxHeld[t.animal] \in Nat
  BY FieldAssumption DEF Tile
<1> QED BY <1>1 DEF AnimalSound, Nourished, CareRecent, Tile

LEMMA AnimalNightLives ==
  ASSUME NEW t \in Tile, AnimalSound(t) PROVE AnimalSound(AnimalNight(t))
<1> DEFINE s == AnimalNight(t)
           a == t.animal
           age == t.animal_age + 1
           produces == ProducesAt(a, age)
           hungry == IF t.fed THEN 0 ELSE t.unfed + 1
           bonus == IF t.fed THEN t.pending_care ELSE 0
           kept == CareLeft(t, produces)
<1>1. CASE s.animal = None
  BY <1>1, NoAnimalSound
<1>2. CASE s.animal # None
  <2>1. a # None /\ a \in Animals
    BY <1>2 DEF AnimalNight, Tile
  <2>2. hungry < 2 /\ ~(hungry >= 2)
    <3> SUFFICES ASSUME hungry >= 2 PROVE s.animal = None
      BY <1>2 DEF Tile
    <3>1. s = [t EXCEPT !.animal = None, !.unfed = hungry]
      BY <2>1 DEF AnimalNight
    <3> QED BY <3>1 DEF Tile
  <2>3. /\ s.animal = a /\ s.animal_age = age /\ s.unfed = hungry
        /\ s.animal_yield = IF produces THEN AtMost(t.animal_yield + 1 + bonus, MaxHeld[a])
                                        ELSE t.animal_yield
        /\ s.pending_care = IF t.fed /\ t.cared THEN kept + 1 ELSE kept
    BY <2>1, <2>2 DEF AnimalNight, Tile
  <2>4. /\ t.animal_age \in Nat /\ age \in Nat /\ t.animal_yield \in 0..MaxHeld[a]
        /\ bonus \in Nat /\ t.pending_care \in Nat /\ kept \in Nat /\ hungry \in 0..1
        /\ MaxHeld[a] \in Nat /\ AnimalFirstDay[a] \in Nat /\ AnimalInterval[a] \in Nat
        /\ AnimalInterval[a] > 0
    BY <2>1, <2>2, FieldAssumption DEF AnimalSound, Nourished, Tile, CareLeft
  <2>5. kept = (IF produces THEN 0 ELSE t.pending_care) /\ age = t.animal_age + 1
    BY DEF CareLeft
  <2> DEFINE since == age - AnimalFirstDay[a]
             before == t.animal_age - AnimalFirstDay[a]
  <2>6. /\ produces <=> age >= AnimalFirstDay[a] /\ since % AnimalInterval[a] = 0
        /\ since = before + 1
    BY <2>4 DEF ProducesAt
  <2>7. t.pending_care <= IF t.animal_age < AnimalFirstDay[a] THEN t.animal_age
                          ELSE (before % AnimalInterval[a]) + 1
    BY <2>1 DEF AnimalSound, CareRecent
  <2> HIDE DEF s, age, produces, hungry, bonus, kept
  <2>8. Nourished(s)
    <3>1. AtMost(t.animal_yield + 1 + bonus, MaxHeld[a]) \in 0..MaxHeld[a]
      BY <2>4 DEF AtMost
    <3> QED BY <2>3, <2>4, <3>1 DEF Nourished, a
  <2>9. s.pending_care <= IF age < AnimalFirstDay[a] THEN age
                          ELSE (since % AnimalInterval[a]) + 1
    <3>1. s.pending_care <= kept + 1 /\ s.pending_care \in Nat
      BY <2>3, <2>4
    <3>2. CASE age < AnimalFirstDay[a]
      BY <2>4, <2>5, <2>6, <2>7, <3>1, <3>2
    <3>3. CASE produces
      BY <2>4, <2>5, <2>6, <3>1, <3>3
    <3>4. CASE age >= AnimalFirstDay[a] /\ ~produces
      <4>1. since # 0
        <5>1. 0 % AnimalInterval[a] = 0
          BY <2>4
        <5> QED BY <2>6, <3>4, <5>1
      <4>2. before \in Nat /\ t.animal_age >= AnimalFirstDay[a]
        BY <2>4, <2>6, <3>4, <4>1
      <4> HIDE DEF since, before
      <4>3. since % AnimalInterval[a] = (before % AnimalInterval[a]) + 1
        BY <2>4, <2>6, <3>4, <4>2, NextRemainder
      <4>4. before % AnimalInterval[a] \in 0..(AnimalInterval[a] - 1)
        BY <2>4, <4>2, Remainder
      <4>5. kept = t.pending_care /\ ~(age < AnimalFirstDay[a])
            /\ ~(t.animal_age < AnimalFirstDay[a])
        BY <2>4, <2>5, <3>4, <4>2
      <4> QED BY <2>4, <2>7, <3>1, <4>3, <4>4, <4>5
    <3> QED BY <2>4, <3>2, <3>3, <3>4
  <2>10. CareRecent(s)
    BY <2>3, <2>9 DEF CareRecent, a
  <2> QED BY <2>8, <2>10 DEF AnimalSound, s
<1> QED BY <1>1, <1>2

-----------------------------------------------------------------------------
(* One tile under a unit's order, the rot, the night and the weeds. *)

\* What a service leaves alone.
LEMMA WorkOnFields ==
  ASSUME NEW t \in Tile, NEW s, Work(t, s)
  PROVE  /\ Planting(t, s) \/ Watering(t, s) \/ Fertilizing(t, s) \/ Reaping(t, s)
            \/ Digging(t, s) \/ Housing(t, s)
            \/ SameCrop(t, s)
         /\ Gathering(t, s) \/ Housing(t, s) \/ SameAnimal(t, s)
<1>1. CASE \/ Planting(t, s) \/ Watering(t, s) \/ Fertilizing(t, s) \/ Housing(t, s)
           \/ Building(t, s) \/ Gathering(t, s) \/ Feeding(t, s) \/ Caring(t, s)
           \/ Mucking(t, s)
  BY <1>1 DEF Planting, Planted, Watering, CropWatered, Fertilizing, CropFertilized, Housing,
              Building, Built, Gathering, Feeding, Caring, Mucking, SameCrop, SameAnimal, Tile
<1>2. CASE Reaping(t, s)
  <2>1. CASE Ongoing(t.crop)
    BY <1>2, <2>1 DEF Reaping, CropHarvested, SameAnimal, Tile
  <2>2. CASE ~Ongoing(t.crop)
    BY <1>2, <2>2 DEF Reaping, CropHarvested, Uprooted, SameAnimal, Tile
  <2> QED BY <1>2, <2>1, <2>2
<1>3. CASE Digging(t, s)
  BY <1>3, DugFields DEF Digging
<1> QED BY <1>1, <1>2, <1>3 DEF Work, Given, NotGiven

LEMMA WorkLives ==
  ASSUME NEW t \in Tile, NEW s, Work(t, s), ClockOK, phase = "units",
         CropSound(t, day, step), AnimalSound(t)
  PROVE  CropSound(s, day, step) /\ AnimalSound(s)
<1>0. day \in Nat /\ step \in Nat /\ step < (day + 1) * TurnsPerDay
  BY ClockFacts
<1>1. CropSound(s, day, step)
  <2>1. CASE Planting(t, s)
    BY <1>0, <2>1, PlantedLives DEF Planting
  <2>2. CASE Watering(t, s)
    BY <1>0, <2>2, WateredLives DEF Watering
  <2>3. CASE Fertilizing(t, s)
    BY <1>0, <2>3, FertilizedLives DEF Fertilizing
  <2>4. CASE Reaping(t, s)
    BY <1>0, <2>4, HarvestedLives DEF Reaping
  <2>5. CASE Digging(t, s)
    BY <2>5, DugFields, NoCropSound DEF Digging
  <2>6. CASE Housing(t, s)
    <3>1. SameCrop(t, s)
      BY <2>6 DEF Housing, AnimalPlaced, SameCrop, Tile
    <3> QED BY <3>1, SameCropSound
  <2>7. CASE SameCrop(t, s)
    BY <2>7, SameCropSound
  <2> QED BY <2>1, <2>2, <2>3, <2>4, <2>5, <2>6, <2>7, WorkOnFields
<1>2. AnimalSound(s)
  <2>1. CASE Gathering(t, s)
    BY <2>1, GatheredLives DEF Gathering
  <2>2. CASE Housing(t, s)
    BY <2>2, PlacedLives DEF Housing
  <2>3. CASE SameAnimal(t, s)
    BY <2>3, SameAnimalSound
  <2> QED BY <2>1, <2>2, <2>3, WorkOnFields
<1> QED BY <1>1, <1>2

LEMMA SproutFields ==
  ASSUME NEW t \in Tile, NEW P
  PROVE  LET s == [t EXCEPT !.weed = @ \/ P] IN
         /\ SameCrop(t, s) /\ SameAnimal(t, s)
         /\ s.fed = t.fed /\ s.cared = t.cared /\ s.fertilizer = t.fertilizer
         /\ s.weed => t.weed \/ P
BY DEF Tile, SameCrop, SameAnimal

LEMMA LifeStep == ASSUME ClockOK, FieldOK, LifeOK, [Plays]_vars PROVE LifeOK'
<1> DEFINE Lives(t, today, elapsed) == CropSound(t, today, elapsed) /\ AnimalSound(t)
<1>0. /\ step \in Nat /\ day \in Nat /\ Today \in Nat /\ Elapsed \in Nat
      /\ phase # "night" => Today = day /\ Elapsed = step
      /\ \A p \in Board : field[p] \in Tile /\ Lives(field[p], Today, Elapsed)
  BY ClockFacts DEF FieldOK, LifeOK
<1>1. SUFFICES \A p \in Board : Lives(field'[p], Today', Elapsed')
  <2> HIDE DEF Lives
  <2>1. phase' = "night" => hour' = TurnsPerDay - 1
    BY FieldSteps
  <2>2. (\A p \in Board : Lives(field'[p], Today', Elapsed'))
           => \A p \in Board : (CropSound(field[p], Today, Elapsed) /\ AnimalSound(field[p]))'
    BY DEF Lives, CropSound, AnimalSound, Calendar, OwnCover, Earned, RotBounded, Thriving,
           Nourished, CareRecent
  <2> QED BY <1>1, <2>1, <2>2 DEF LifeOK
<1>2. CASE Idles
  BY <1>0, <1>2 DEF Idles
<1>3. CASE Works
  <2>1. /\ phase = "units" /\ Today' = Today /\ Elapsed' = Elapsed /\ here \in Board
        /\ Today = day /\ Elapsed = step
    BY <1>0, <1>3 DEF Works
  <2>2. PICK s : Work(tile, s) /\ Becomes(s)
    BY <1>3 DEF Works
  <2>3. \A p \in Board : field'[p] = IF p = here THEN s ELSE field[p]
    BY <2>2 DEF Becomes, FieldOK
  <2>4. tile \in Tile /\ CropSound(tile, day, step) /\ AnimalSound(tile)
    BY <1>0, <2>1 DEF tile
  <2>5. Lives(s, day, step)
    BY <2>1, <2>2, <2>4, WorkLives
  <2> HIDE DEF Lives
  <2> QED BY <1>0, <2>1, <2>3, <2>5
<1>4. CASE Rots
  <2> SUFFICES ASSUME NEW p \in Board PROVE Lives(Decayed(field[p], step), Today, Elapsed + 1)
    BY <1>4 DEF Rots
  <2>1. CropSound(Decayed(field[p], step), day, step + 1)
    BY <1>0, <1>4, DecayedLives DEF Rots
  <2>2. AnimalSound(Decayed(field[p], step))
    BY <1>0, DecayedFields, SameAnimalSound
  <2> QED BY <1>0, <1>4, <2>1, <2>2 DEF Rots
<1>5. CASE Grows
  <2> SUFFICES ASSUME NEW p \in Board
               PROVE  Lives(Overnight(Decayed(field[p], step), day), day + 1, step + 1)
    BY <1>0, <1>5 DEF Grows
  <2> DEFINE t == field[p]
             u == Decayed(t, step)
             v == AnimalNight(u)
  <2>1. t \in Tile /\ u \in Tile /\ v \in Tile
    BY <1>0, DecayedSound, AnimalNightSound
  <2>2. CropSound(u, day, step + 1) /\ AnimalSound(u)
    <3>1. CropSound(u, day, step + 1)
      BY <1>0, <1>5, <2>1, DecayedLives DEF Grows
    <3>2. SameAnimal(t, u)
      BY <1>0, <2>1, DecayedFields
    <3> QED BY <1>0, <3>1, <3>2, SameAnimalSound
  <2>3. step + 1 = (day + 1) * TurnsPerDay
    BY <1>0, <1>5 DEF Grows
  <2> HIDE DEF u
  <2>4. CropSound(v, day, step + 1) /\ AnimalSound(v)
    BY <2>1, <2>2, AnimalNightKeepsCrop, AnimalNightLives, SameCropSound
  <2> HIDE DEF v
  <2>5. step + 1 \in Nat /\ step + 1 <= (day + 1) * TurnsPerDay
    BY <1>0, <2>3
  <2>6. CropSound(CropNight(v, day), day + 1, step + 1)
    BY <1>0, <2>1, <2>4, <2>5, NightLives
  <2>7. AnimalSound(CropNight(v, day))
    BY <1>0, <2>1, <2>4, CropNightKeepsAnimal, SameAnimalSound
  <2> QED BY <2>6, <2>7 DEF Overnight, u, v
<1>6. CASE Sprouts
  <2>1. PICK sprouts : field' = [p \in Board |-> [field[p] EXCEPT !.weed = @ \/ p \in sprouts]]
    BY <1>6 DEF Sprouts
  <2> SUFFICES ASSUME NEW p \in Board
               PROVE  Lives([field[p] EXCEPT !.weed = @ \/ p \in sprouts], Today, Elapsed)
    BY <1>6, <2>1 DEF Sprouts
  <2> DEFINE s == [field[p] EXCEPT !.weed = @ \/ p \in sprouts]
  <2>2. SameCrop(field[p], s) /\ SameAnimal(field[p], s)
    BY <1>0, SproutFields
  <2> HIDE DEF s
  <2>3. Lives(s, Today, Elapsed)
    BY <1>0, <2>2, SameCropSound, SameAnimalSound
  <2> QED BY <2>3 DEF s
<1> QED BY <1>2, <1>3, <1>4, <1>5, <1>6, FieldSteps

LEMMA LifeInit == Init => LifeOK
<1> SUFFICES ASSUME Init PROVE LifeOK
  OBVIOUS
<1>1. phase # "night"
  BY DEF Init
<1>2. \A p \in Board : field[p].crop = None /\ field[p].animal = None
  BY DEF Init, BareTile
<1>3. \A p \in Board : CropSound(field[p], Today, Elapsed) /\ AnimalSound(field[p])
  BY <1>2, NoCropSound, NoAnimalSound
<1> QED BY <1>1, <1>3 DEF LifeOK

\* What the parts of every tile's life say of the farm.
LEMMA LifeTells == ASSUME ClockOK, FieldOK, LifeOK PROVE CropLife /\ AnimalLife
<1>1. \A p \in Board : CropSound(field[p], Today, Elapsed) /\ AnimalSound(field[p])
  BY DEF LifeOK
<1>2. CropCalendar /\ FertilizerOwnLife /\ YieldEarned /\ CropsThrive
  BY <1>1 DEF CropSound, Calendar, OwnCover, Earned, Thriving, CropCalendar,
              FertilizerOwnLife, YieldEarned, CropsThrive, PlantedOn
<1>3. RotRunsOut
  <2> SUFFICES ASSUME NEW p \in Board, field[p].crop # None, step >= field[p].decay_step
               PROVE  2 * field[p].yield + (step - field[p].decay_step)
                         <= 2 * MaxYield[field[p].crop]
    BY DEF RotRunsOut
  <2>1. /\ field[p].decay_step \in Int /\ field[p].yield \in Int /\ field[p].crop \in Crops
        /\ step \in Nat /\ (Elapsed = step \/ Elapsed = step + 1)
    BY ClockFacts DEF FieldOK, Tile, Elapsed
  <2>2. MaxYield[field[p].crop] \in Nat
    BY <2>1, FieldAssumption
  <2>3. 2 * field[p].yield + (Elapsed - field[p].decay_step) <= 2 * MaxYield[field[p].crop]
    BY <1>1, <2>1 DEF CropSound, RotBounded
  <2> QED BY <2>1, <2>2, <2>3
<1>4. AnimalLife
  BY <1>1 DEF AnimalSound, Nourished, CareRecent, AnimalLife, AnimalsThrive, CareNotBanked
<1> QED BY <1>2, <1>3, <1>4 DEF CropLife

-----------------------------------------------------------------------------
(* Benefits are given. *)

\* What a change of one tile may not bring about; the way of change says what it may.
Bestowed(t, s, watering, fertilizing, feeding, caring, night) ==
    /\ ~Wet(t) /\ Wet(s) => watering
    /\ ~Covered(t) /\ Covered(s) => fertilizing
    /\ ~Fed(t) /\ Fed(s) => feeding
    /\ ~Cared(t) /\ Cared(s) => caring
    /\ ~Manured(t) /\ Manured(s) => night

Withers(t, s) ==
    t.crop # None /\ s.weed => step >= t.decay_step \/ ~t.watered

LEMMA WorkBestows ==
  ASSUME NEW t \in Tile, NEW s, Work(t, s), OneUse(t), day \in Nat
  PROVE  /\ Bestowed(t, s, Acts("WATER"), Acts("FERTILIZE"), Acts("FEED"), Acts("CARE"), FALSE)
         /\ Withers(t, s)
<1> USE DEF Bestowed, Wet, Covered, Fed, Cared, Manured, Withers
<1>1. CASE Given(t, s)
  BY <1>1 DEF Given, Watering, CropWatered, Fertilizing, CropFertilized, Feeding, Caring,
              OneUse, Tile
<1>2. CASE Planting(t, s)
  BY <1>2 DEF Planting, Planted, Vacant, Tile
<1>3. CASE Building(t, s) \/ Housing(t, s) \/ Gathering(t, s) \/ Mucking(t, s)
  BY <1>3 DEF Building, Built, Housing, AnimalPlaced, Gathering, Mucking, OneUse, Tile
<1>4. CASE Reaping(t, s)
  <2>1. CASE Ongoing(t.crop)
    BY <1>4, <2>1 DEF Reaping, CropHarvested, OneUse, Tile
  <2>2. CASE ~Ongoing(t.crop)
    BY <1>4, <2>2 DEF Reaping, CropHarvested, Uprooted, OneUse, Tile
  <2> QED BY <2>1, <2>2
<1>5. CASE Digging(t, s)
  BY <1>5, DugFields DEF Digging, SameAnimal
<1> QED BY <1>1, <1>2, <1>3, <1>4, <1>5 DEF Work, NotGiven

LEMMA RotBestows ==
  ASSUME NEW t \in Tile, OneUse(t), step \in Nat
  PROVE  LET s == Decayed(t, step) IN
         Bestowed(t, s, FALSE, FALSE, FALSE, FALSE, FALSE) /\ Withers(t, s)
<1> DEFINE s == Decayed(t, step)
<1>1. /\ SameAnimal(t, s)
      /\ s.fed = t.fed /\ s.cared = t.cared /\ s.fertilizer = t.fertilizer
      /\ \/ s = t
         \/ Rotting(t, step) /\ s.crop = None
         \/ /\ s.crop = t.crop /\ s.watered = t.watered /\ s.weed = t.weed
            /\ s.fertilized_until = t.fertilized_until
  BY DecayedFields
<1>2. Rotting(t, step) => step >= t.decay_step
  BY DEF Rotting
<1> HIDE DEF s
<1>3. Bestowed(t, s, FALSE, FALSE, FALSE, FALSE, FALSE) /\ Withers(t, s)
  BY <1>1, <1>2 DEF SameAnimal, Bestowed, Wet, Covered, Fed, Cared, Manured, Withers, OneUse
<1> QED BY <1>3 DEF s

\* The animal's night, and what it leaves of a crop.
LEMMA AnimalNightFields ==
  ASSUME NEW t \in Tile
  PROVE  LET s == AnimalNight(t) IN
         s.weed = t.weed /\ (s.animal # None => s.fed = FALSE /\ s.cared = FALSE)
<1>1. CASE t.animal = None
  BY <1>1 DEF AnimalNight
<1>2. CASE t.animal # None /\ (IF t.fed THEN 0 ELSE t.unfed + 1) >= 2
  <2>1. AnimalNight(t) = [t EXCEPT !.animal = None,
                                   !.unfed = IF t.fed THEN 0 ELSE t.unfed + 1]
    BY <1>2 DEF AnimalNight
  <2> QED BY <2>1 DEF Tile
<1>3. CASE t.animal # None /\ ~((IF t.fed THEN 0 ELSE t.unfed + 1) >= 2)
  BY <1>3 DEF AnimalNight, Tile
<1> QED BY <1>1, <1>2, <1>3

LEMMA NightBestows ==
  ASSUME NEW t \in Tile, OneUse(t), step \in Nat, day \in Nat
  PROVE  LET s == Overnight(Decayed(t, step), day) IN
         Bestowed(t, s, FALSE, FALSE, FALSE, FALSE, TRUE) /\ Withers(t, s)
<1> DEFINE u == Decayed(t, step)
           v == AnimalNight(u)
           s == CropNight(v, day)
<1>1. u \in Tile /\ v \in Tile
  BY DecayedSound, AnimalNightSound
<1>2. /\ Bestowed(t, u, FALSE, FALSE, FALSE, FALSE, FALSE) /\ Withers(t, u)
      /\ u.crop # None => u.crop = t.crop /\ u.watered = t.watered /\ u.weed = t.weed
      /\ u.crop = None => t.crop = None \/ step >= t.decay_step
  BY RotBestows, DecayedFields DEF Rotting
<1> HIDE DEF u
<1>3. /\ v.crop = u.crop /\ v.watered = u.watered /\ v.weed = u.weed
      /\ v.fertilized_until = u.fertilized_until
      /\ v.animal # None => v.fed = FALSE /\ v.cared = FALSE
  BY <1>1, AnimalNightKeepsCrop, AnimalNightFields DEF SameCrop
<1> HIDE DEF v
<1>4. /\ s.animal = v.animal /\ s.fed = v.fed /\ s.cared = v.cared
      /\ s.watered = FALSE /\ s.fertilized_until = v.fertilized_until
      /\ s.crop \in {v.crop, None}
      /\ v.crop # None /\ s.weed => v.weed \/ ~v.watered
  BY <1>1, CropNightKeepsAnimal DEF SameAnimal
<1> HIDE DEF s
<1>5. Bestowed(t, s, FALSE, FALSE, FALSE, FALSE, TRUE)
  BY <1>2, <1>3, <1>4 DEF Bestowed, Wet, Covered, Fed, Cared, Manured
<1>6. Withers(t, s)
  <2> SUFFICES ASSUME t.crop # None, s.weed PROVE step >= t.decay_step \/ ~t.watered
    BY DEF Withers
  <2>1. CASE u.crop = None
    BY <1>2, <2>1
  <2>2. CASE u.crop # None
    BY <1>2, <1>3, <1>4, <2>2 DEF OneUse
  <2> QED BY <2>1, <2>2
<1> QED BY <1>5, <1>6 DEF Overnight, s, v, u

LEMMA BenefitsStep ==
  ASSUME ClockOK, FieldOK, LifeOK, [Plays]_vars, NEW p \in Board
  PROVE  /\ Bestowed(field[p], field'[p], Acts("WATER"), Acts("FERTILIZE"), Acts("FEED"),
                     Acts("CARE"), phase' = "night")
         /\ Withers(field[p], field'[p])
<1>0. /\ step \in Nat /\ day \in Nat /\ field[p] \in Tile /\ OneUse(field[p])
  BY ClockFacts DEF FieldOK, TilesOneUse
<1>1. ASSUME field'[p] = field[p] PROVE Bestowed(field[p], field'[p], Acts("WATER"),
             Acts("FERTILIZE"), Acts("FEED"), Acts("CARE"), phase' = "night")
             /\ Withers(field[p], field'[p])
  BY <1>0, <1>1 DEF Bestowed, Withers, OneUse
<1>2. CASE Idles
  BY <1>1, <1>2 DEF Idles
<1>3. CASE Works
  <2>1. PICK s : here \in Board /\ Work(tile, s) /\ Becomes(s)
    BY <1>3 DEF Works
  <2>2. field'[p] = IF p = here THEN s ELSE field[p]
    BY <2>1 DEF Becomes, FieldOK
  <2>3. CASE p = here
    <3>1. tile = field[p] /\ field'[p] = s
      BY <2>2, <2>3 DEF tile
    <3>2. /\ Bestowed(tile, s, Acts("WATER"), Acts("FERTILIZE"), Acts("FEED"), Acts("CARE"),
                      FALSE)
          /\ Withers(tile, s)
      BY <1>0, <2>1, <3>1, WorkBestows
    <3> QED BY <3>1, <3>2 DEF Bestowed
  <2> QED BY <1>1, <2>2, <2>3
<1>4. CASE Rots
  <2>1. field'[p] = Decayed(field[p], step)
    BY <1>4 DEF Rots
  <2>2. /\ Bestowed(field[p], field'[p], FALSE, FALSE, FALSE, FALSE, FALSE)
        /\ Withers(field[p], field'[p])
    BY <1>0, <2>1, RotBestows
  <2> QED BY <2>2 DEF Bestowed
<1>5. CASE Grows
  <2>1. field'[p] = Overnight(Decayed(field[p], step), day) /\ phase' = "night"
    BY <1>5 DEF Grows
  <2>2. /\ Bestowed(field[p], field'[p], FALSE, FALSE, FALSE, FALSE, TRUE)
        /\ Withers(field[p], field'[p])
    BY <1>0, <2>1, NightBestows
  <2> QED BY <2>1, <2>2 DEF Bestowed
<1>6. CASE Sprouts
  <2>1. PICK sprouts \in SUBSET {q \in Board : Vacant(field[q])} :
           field' = [q \in Board |-> [field[q] EXCEPT !.weed = @ \/ q \in sprouts]]
    BY <1>6 DEF Sprouts
  <2> DEFINE s == [field[p] EXCEPT !.weed = @ \/ p \in sprouts]
  <2>2. field'[p] = s
    BY <2>1
  <2>3. /\ SameCrop(field[p], s) /\ SameAnimal(field[p], s) /\ s.fed = field[p].fed
        /\ s.cared = field[p].cared /\ s.fertilizer = field[p].fertilizer
        /\ s.weed => field[p].weed \/ p \in sprouts
    BY <1>0, SproutFields
  <2>4. p \in sprouts => field[p].crop = None
    BY <2>1 DEF Vacant
  <2> HIDE DEF s
  <2> QED BY <1>0, <2>2, <2>3, <2>4
          DEF SameCrop, SameAnimal, Bestowed, Wet, Covered, Fed, Cared, Manured, Withers, OneUse
<1> QED BY <1>2, <1>3, <1>4, <1>5, <1>6, FieldSteps

-----------------------------------------------------------------------------
(* The theorems. *)

LEMMA LifeInductive == Spec => [](Inv /\ LifeOK)
<1>1. Inv /\ LifeOK /\ [Next]_vars => LifeOK'
  BY LifeStep, NextPlays DEF Inv
<1> QED BY <1>1, LifeInit, InvInductive, PTL DEF Spec

\* From seed to rot: a crop's age and decay step tell one planting day, its fertilizer and
\* its yield are its own, it never holds more than its kind can nor outlives its decay
\* step by more than two turns a unit (apply_unit_action, advance_farm_growth,
\* decay_plants).
THEOREM CropsLive == Spec => []CropLife
<1>1. Inv /\ LifeOK => CropLife
  BY LifeTells DEF Inv
<1> QED BY <1>1, LifeInductive, PTL

\* An animal that is there was hungry for one night at most, holds no more than its kind
\* can, and its care bonus never counts more nights than passed since its last
\* production day (PLACE, advance_farm_growth).
THEOREM AnimalsLive == Spec => []AnimalLife
<1>1. Inv /\ LifeOK => AnimalLife
  BY LifeTells DEF Inv
<1> QED BY <1>1, LifeInductive, PTL

\* No plant or animal inherits water, fertilizer, food, care or manure from what stood on
\* its tile before, and no crop turns to weed without a cause (the leaks the comments at
\* PLANT tell of).
THEOREM BenefitsAreGiven == Spec => BenefitsGiven
<1> DEFINE Crop(p) ==
             /\ ~Wet(field[p]) /\ Wet(field'[p]) => Acts("WATER")
             /\ ~Covered(field[p]) /\ Covered(field'[p]) => Acts("FERTILIZE")
           Animal(p) ==
             /\ ~Fed(field[p]) /\ Fed(field'[p]) => Acts("FEED")
             /\ ~Cared(field[p]) /\ Cared(field'[p]) => Acts("CARE")
             /\ ~Manured(field[p]) /\ Manured(field'[p]) => phase' = "night"
           Weed(p) ==
             field[p].crop # None /\ field'[p].weed
                => step >= field[p].decay_step \/ ~field[p].watered
<1>1. Inv /\ LifeOK /\ [Next]_vars => \A p \in Board : Crop(p) /\ Animal(p) /\ Weed(p)
  BY BenefitsStep, NextPlays DEF Inv, Bestowed, Withers
<1>2. Inv /\ LifeOK /\ [Next]_vars => [\A p \in Board : Crop(p)]_vars
  BY <1>1
<1>3. Inv /\ LifeOK /\ [Next]_vars => [\A p \in Board : Animal(p)]_vars
  BY <1>1
<1>4. Inv /\ LifeOK /\ [Next]_vars => [\A p \in Board : Weed(p)]_vars
  BY <1>1
<1>5. Spec => [][\A p \in Board : Crop(p)]_vars
  BY <1>2, LifeInductive, PTL DEF Spec
<1>6. Spec => [][\A p \in Board : Animal(p)]_vars
  BY <1>3, LifeInductive, PTL DEF Spec
<1>7. Spec => [][\A p \in Board : Weed(p)]_vars
  BY <1>4, LifeInductive, PTL DEF Spec
<1> QED BY <1>5, <1>6, <1>7
        DEF BenefitsGiven, CropBenefitsGiven, AnimalBenefitsGiven, WeedHasCause

-----------------------------------------------------------------------------
(* THE MASKS *)

\* The masks of a turn against the state they were not written from: of a unit that has
\* not acted yet, what it can do and carries was told; seeds were told to everybody; and
\* what lies in the shed was told or has been brought there by a unit that has acted.
TurnMasked ==
    \A u \in Units : u <= hand_count =>
        /\ next <= u => /\ operation_mask[u] = OperationMask(u)
                        /\ \A i \in Items : inventory[u][i] > 0 => i \in target_mask[u]
        /\ \A c \in Crops : seeds[c] > 0 => c \in target_mask[u]
        /\ \A i \in Items : shed[i] > 0 =>
              i \in target_mask[u] \/ \E w \in 0..next : w <= hand_count /\ Brings(w, i)

MasksCurrent ==
    /\ phase = "agent" => operation_mask = OperationMasks /\ target_mask = TargetMasks
    /\ phase = "units" => TurnMasked

-----------------------------------------------------------------------------
(* The units. *)

\* What a served unit is not offered: a step off the board, or a target it was not told of.
LEMMA NotOffered ==
  ASSUME ClockOK, TurnMasked, Serving, ~Offered(next, order)
  PROVE  \/ order.op \in Moves /\ Stepped(here, order.op) = here
         \/ order.op \in {"PLANT", "PLACE", "PICKUP"} /\ order.target \notin target_mask[next]
<1>1. /\ order.op \in Operations /\ here \in Board /\ next <= hand_count
      /\ next \in Units /\ hand_count \in Units
  BY ServingFacts DEF ClockOK, Units, UnitOrder, Operations
<1>2. ~(next > hand_count) /\ next <= next
  BY <1>1 DEF Units
<1>a. operation_mask[next] = OperationMask(next)
  BY <1>1, <1>2 DEF TurnMasked
<1>3. CASE order.op \notin OperationMask(next)
  <2>1. /\ here[1] \in Line /\ here[2] \in Line
        /\ here[1] \in Int /\ here[2] \in Int
    BY <1>1, FarmAssumption DEF Board, Line
  <2>2. \/ order.op = "NORTH" /\ here[2] <= 0
        \/ order.op = "SOUTH" /\ here[2] >= 2 * Half - 1
        \/ order.op = "EAST" /\ here[1] >= 2 * Half - 1
        \/ order.op = "WEST" /\ here[1] <= 0
    BY <1>1, <1>2, <1>3 DEF OperationMask, here
  <2>3. /\ here[2] <= 0 => <<here[1], here[2] - 1>> \notin Board
        /\ here[2] >= 2 * Half - 1 => <<here[1], here[2] + 1>> \notin Board
        /\ here[1] >= 2 * Half - 1 => <<here[1] + 1, here[2]>> \notin Board
        /\ here[1] <= 0 => <<here[1] - 1, here[2]>> \notin Board
    BY <2>1, FarmAssumption DEF Board, Line
  <2> QED BY <2>2, <2>3 DEF Moves, Stepped
<1>4. CASE order.op \in OperationMask(next)
  BY <1>a, <1>4 DEF Offered
<1> QED BY <1>3, <1>4

\* A target that was not told of is not carried, is no seed in stock, and lies in the shed
\* only if a unit has brought it.
LEMMA NobodyHas ==
  ASSUME Inv, TurnMasked, Serving, order.target \notin target_mask[next]
  PROVE  /\ order.target \in Items =>
              /\ inventory[next][order.target] = 0
              /\ item_order[next][order.target] = 0
              /\ \/ shed[order.target] = 0
                 \/ order.op \in {"DROP", "PLACE"}
                 \/ \E u \in 0..(next - 1) : Brings(u, order.target)
         /\ order.target \in Crops => seeds[order.target] = 0
<1>1. next \in Units /\ next <= hand_count /\ next <= next /\ next \in Nat
  BY ServingFacts DEF Inv, ClockOK, Units
<1>2. ASSUME order.target \in Items
      PROVE  /\ inventory[next][order.target] = 0
             /\ item_order[next][order.target] = 0
             /\ \/ shed[order.target] = 0
                \/ order.op \in {"DROP", "PLACE"}
                \/ \E u \in 0..(next - 1) : Brings(u, order.target)
  <2>1. ~(inventory[next][order.target] > 0)
    BY <1>1, <1>2 DEF TurnMasked
  <2>2. shed[order.target] \in Nat /\ inventory[next][order.target] \in Nat
    BY <1>1, <1>2, StoresAssumption DEF Inv, ShedOK, CarryOK
  <2>3. item_order[next][order.target] # 0 <=> inventory[next][order.target] > 0
    BY <1>1, <1>2 DEF Inv, CarryOK, StampsInOrder
  <2>4. ASSUME shed[order.target] # 0, order.op \notin {"DROP", "PLACE"}
        PROVE  \E u \in 0..(next - 1) : Brings(u, order.target)
    <3>1. PICK w \in 0..next : Brings(w, order.target)
      BY <1>1, <1>2, <2>2, <2>4 DEF TurnMasked
    <3>2. w # next
      BY <2>4, <3>1 DEF Brings, order
    <3>3. w \in 0..(next - 1)
      BY <1>1, <3>2
    <3> QED BY <3>1, <3>3
  <2> QED BY <2>1, <2>2, <2>3, <2>4
<1>3. ASSUME order.target \in Crops PROVE seeds[order.target] = 0
  BY <1>1, <1>3 DEF TurnMasked, Inv, ClockOK
<1> QED BY <1>2, <1>3

\* Moving none of an item that nobody has is no move.
LEMMA NothingStored ==
  ASSUME Inv, NEW u \in Units, NEW i \in Items,
         inventory[u][i] = 0, item_order[u][i] = 0,
         MoveToShed(i, 0), Spend(u, i, 0)
  PROVE  UNCHANGED stores
<1>1. ShedRoom \in Nat /\ shed[i] \in Nat /\ shed_used \in Nat
  BY ShedRoomSound, StoresAssumption DEF Inv, ShedOK
<1>2. Lesser(0, ShedRoom) = 0
  BY <1>1 DEF Lesser
<1>3. shed' = shed /\ shed_used' = shed_used
  BY <1>1, <1>2 DEF MoveToShed, Inv, ShedOK
<1>4. inventory' = inventory
  BY DEF Spend, Inv, CarryOK
<1>5. item_order' = item_order /\ item_order_seq' = item_order_seq
  BY DEF Spend, Inv, CarryOK
<1> QED BY <1>3, <1>4, <1>5 DEF stores

LEMMA NothingTaken ==
  ASSUME Inv, NEW u \in Units, NEW i \in Items, NEW n \in Nat, shed[i] = 0,
         MoveFromShed(i, n), Receive(u, i, Lesser(n, shed[i]))
  PROVE  UNCHANGED stores
<1>1. Lesser(n, shed[i]) = 0
  BY DEF Lesser
<1>2. shed' = shed /\ shed_used' = shed_used
  BY <1>1, StoresAssumption DEF MoveFromShed, Inv, ShedOK
<1>3. inventory' = inventory /\ item_order' = item_order /\ item_order_seq' = item_order_seq
  BY <1>1 DEF Receive, Inv, CarryOK
<1> QED BY <1>2, <1>3 DEF stores

LEMMA IdleUnits ==
  ASSUME Inv, TurnMasked, Next, Serving, ~Offered(next, order)
  PROVE  \/ UNCHANGED <<field, seeds, position, stores>>
         \/ order.op = "PICKUP" /\ \E u \in 0..(next - 1) : Brings(u, order.target)
<1>0. ClockOK
  BY DEF Inv
<1>1. next \in Units /\ order \in UnitOrder /\ here \in Board /\ phase = "units"
  BY <1>0, ServingFacts
<1>2. UnitActs \/ SubmitWhenDone
  BY <1>1 DEF Next, Serving, Submit, Submitted, UnitsDone, MarketServes, Trades, PassSlot, BuySeed,
              BuyGoods, Sell, Hire, BuyLand, EndTurn, Dusk, Closing, StoreCarried, Dawn,
              Inv, ClockOK
<1>3. CASE Skip \/ SubmitWhenDone
  BY <1>3 DEF Skip, SubmitWhenDone, vars
<1>4. CASE Move
  <2>1. Stepped(here, order.op) = here
    BY <1>0, <1>4, NotOffered DEF Move, Moves
  <2> QED BY <1>4, <2>1, <1>1 DEF Move, here, Inv, ClockOK
<1>5. CASE Plant
  <2>1. order.target \notin target_mask[next] /\ order.target \in Crops
    BY <1>0, <1>1, <1>5, NotOffered, OrderFields DEF Plant, Acts, Moves
  <2>2. seeds[order.target] > 0
    BY <1>5, EffectiveFacts DEF Plant
  <2> QED BY <2>1, <2>2, NobodyHas
<1>6. CASE Place
  <2>1. order.target \notin target_mask[next] /\ order.target \in Items /\ order.n \in Nat
    BY <1>0, <1>1, <1>6, NotOffered, OrderFields DEF Place, Acts, Moves
  <2>2. inventory[next][order.target] = 0 /\ item_order[next][order.target] = 0
    BY <2>1, NobodyHas
  <2>3. ~Houses
    BY <2>2 DEF Houses, holds
  <2>4. ShedRoom \in Nat
    BY ShedRoomSound DEF Inv
  <2>5. Lesser(Lesser(inventory[next][order.target], ShedRoom), order.n) = 0
    BY <2>1, <2>2, <2>4 DEF Lesser
  <2>6. MoveToShed(order.target, 0) /\ Spend(next, order.target, 0)
    BY <1>6, <2>3, <2>5 DEF Place
  <2>7. UNCHANGED stores
    BY <1>1, <2>1, <2>2, <2>6, NothingStored
  <2> QED BY <1>6, <2>3, <2>7 DEF Place
<1>7. CASE PickUp
  <2>1. order.target \notin target_mask[next] /\ order.target \in Items /\ order.n \in Nat
    BY <1>0, <1>1, <1>7, NotOffered, OrderFields DEF PickUp, Acts, Moves
  <2>2. order.op = "PICKUP"
    BY <1>7 DEF PickUp, Acts
  <2>3. shed[order.target] = 0 \/ \E u \in 0..(next - 1) : Brings(u, order.target)
    BY <2>1, <2>2, NobodyHas
  <2>4. CASE shed[order.target] = 0
    <3>1. UNCHANGED stores
      BY <1>1, <1>7, <2>1, <2>4, NothingTaken DEF PickUp
    <3> QED BY <1>7, <3>1 DEF PickUp
  <2> QED BY <2>2, <2>3, <2>4
<1>8. CASE Harvest \/ Feed \/ Water \/ Build \/ Fertilize \/ Care \/ CollectFertilizer \/ Dig
           \/ Drop
  BY <1>0, <1>8, NotOffered
     DEF Harvest, Feed, Water, Build, Fertilize, Care, CollectFertilizer, Dig, Drop, Acts, Moves
<1> QED BY <1>2, <1>3, <1>4, <1>5, <1>6, <1>7, <1>8 DEF UnitActs

-----------------------------------------------------------------------------
(* The masks through the turn. *)

\* Goods that are new to the shed were carried by the unit that has just put them there.
LEMMA BroughtByNext ==
  ASSUME Inv, UnitActs, NEW i \in Items, shed'[i] > 0
  PROVE  \/ shed[i] > 0
         \/ /\ inventory[next][i] > 0
            /\ order.op = "DROP" \/ (order.op = "PLACE" /\ order.target = i)
<1>0. Serving
  BY DEF UnitActs, Skip, Move, Plant, Harvest, Feed, Water, Build, Fertilize, Care,
         CollectFertilizer, Dig, Place, PickUp, Drop, Acts
<1>1. /\ next \in Units /\ order \in UnitOrder /\ shed \in [Items -> Int] /\ ShedRoom \in Nat
      /\ \A j \in Items : shed[j] \in Nat /\ inventory[next][j] \in Nat
  BY <1>0, ServingFacts, ShedRoomSound, StoresAssumption DEF Inv, ShedOK, CarryOK
<1>2. CASE Skip \/ Move \/ Plant \/ Harvest \/ Feed \/ Water \/ Build \/ Fertilize \/ Care
           \/ CollectFertilizer \/ Dig
  BY <1>2 DEF Skip, Move, Plant, Harvest, Feed, Water, Build, Fertilize, Care,
              CollectFertilizer, Dig, stores
<1>3. CASE Place
  <2>1. order.op = "PLACE" /\ order.target \in Items /\ order.n \in Nat
    BY <1>1, <1>3, OrderFields DEF Place, Acts
  <2>2. CASE Houses
    BY <1>3, <2>2 DEF Place
  <2>3. CASE ~Houses
    <3> DEFINE held == inventory[next][order.target]
               moved == Lesser(Lesser(held, ShedRoom), order.n)
    <3>1. MoveToShed(order.target, moved)
      BY <1>3, <2>3 DEF Place
    <3>2. held = 0 => Lesser(moved, ShedRoom) = 0
      BY <1>1, <2>1 DEF Lesser
    <3>3. shed' = [shed EXCEPT ![order.target] = @ + Lesser(moved, ShedRoom)]
      BY <3>1 DEF MoveToShed
    <3> HIDE DEF moved
    <3>4. CASE order.target = i
      <4>1. held = 0 => shed'[i] = shed[i]
        BY <1>1, <3>2, <3>3, <3>4
      <4> QED BY <1>1, <2>1, <3>4, <4>1
    <3>5. CASE order.target # i
      BY <1>1, <3>3, <3>5
    <3> QED BY <3>4, <3>5
  <2> QED BY <2>2, <2>3
<1>4. CASE PickUp
  <2>1. order.target \in Items /\ order.n \in Nat
    BY <1>1, <1>4, OrderFields DEF PickUp, Acts
  <2> DEFINE moved == Lesser(order.n, shed[order.target])
  <2>2. moved \in Nat
    BY <1>1, <2>1 DEF Lesser
  <2>3. shed' = [shed EXCEPT ![order.target] = @ - moved]
    BY <1>4 DEF PickUp, MoveFromShed
  <2> HIDE DEF moved
  <2> QED BY <1>1, <2>1, <2>2, <2>3
<1>5. CASE Drop
  <2>1. PICK j \in Items : StoreItem(next, j)
    BY <1>5 DEF Drop
  <2>2. /\ inventory[next][j] > 0 /\ order.op = "DROP"
        /\ shed' = [shed EXCEPT ![j] = @ + Lesser(inventory[next][j], ShedRoom)]
    BY <1>5, <2>1 DEF StoreItem, FirstCarried, Carried, MoveToShed, Drop, Acts
  <2> QED BY <1>1, <2>2
<1> QED BY <1>2, <1>3, <1>4, <1>5 DEF UnitActs

\* What a unit's order leaves alone: the other units, the hands, the orders of the turn.
LEMMA OthersKept ==
  ASSUME Inv, UnitActs
  PROVE  /\ next \in Units /\ next <= hand_count
         /\ hand_count' = hand_count /\ orders' = orders /\ phase' = "units"
         /\ \A u \in Units \ {next} : position'[u] = position[u] /\ inventory'[u] = inventory[u]
         /\ \A c \in Crops : seeds'[c] > 0 => seeds[c] > 0
         /\ \/ next' = next + 1
            \/ /\ next' = next /\ position' = position
               /\ \A i \in Items : inventory'[next][i] > 0 => inventory[next][i] > 0
<1>0. Serving
  BY DEF UnitActs, Skip, Move, Plant, Harvest, Feed, Water, Build, Fertilize, Care,
         CollectFertilizer, Dig, Place, PickUp, Drop, Acts
<1>1. /\ next \in Units /\ next <= hand_count /\ phase = "units" /\ order \in UnitOrder
      /\ seeds \in [Crops -> Nat] /\ position \in [Units -> Board]
      /\ inventory \in [Units -> [Items -> Nat]]
  BY <1>0, ServingFacts DEF Inv, ClockOK, CarryOK
<1>2. hand_count' = hand_count /\ orders' = orders /\ phase' = "units"
  BY <1>1 DEF UnitActs, Skip, Move, Plant, Harvest, Feed, Water, Build, Fertilize, Care,
              CollectFertilizer, Dig, Place, PickUp, Drop, Served, turn
<1>3. \A u \in Units \ {next} : inventory'[u] = inventory[u]
  <2>1. OnlyCarrier(next)
    BY GoodsUnits DEF Inv
  <2> QED BY <2>1 DEF OnlyCarrier
<1>4. \A u \in Units \ {next} : position'[u] = position[u]
  BY <1>1 DEF UnitActs, Skip, Move, Plant, Harvest, Feed, Water, Build, Fertilize, Care,
              CollectFertilizer, Dig, Place, PickUp, Drop
<1>5. \A c \in Crops : seeds'[c] > 0 => seeds[c] > 0
  <2>1. CASE Plant
    <3>1. order.target \in Crops /\ seeds' = [seeds EXCEPT ![order.target] = @ - 1]
      BY <1>1, <2>1, OrderFields DEF Plant, Acts
    <3> QED BY <1>1, <3>1
  <2>2. CASE ~Plant
    BY <2>2 DEF UnitActs, Skip, Move, Harvest, Feed, Water, Build, Fertilize, Care,
                CollectFertilizer, Dig, Place, PickUp, Drop
  <2> QED BY <2>1, <2>2
<1>6. \/ next' = next + 1
      \/ /\ next' = next /\ position' = position
         /\ \A i \in Items : inventory'[next][i] > 0 => inventory[next][i] > 0
  <2>1. CASE Drop
    <3>1. PICK j \in Items : inventory' = [inventory EXCEPT ![next][j] = 0]
      BY <2>1 DEF Drop, StoreItem
    <3>2. next' = next /\ position' = position
      BY <2>1 DEF Drop, turn
    <3>3. \A i \in Items : inventory'[next][i] > 0 => inventory[next][i] > 0
      BY <1>1, <3>1
    <3> QED BY <3>2, <3>3
  <2>2. CASE ~Drop
    BY <2>2 DEF UnitActs, Skip, Move, Plant, Harvest, Feed, Water, Build, Fertilize, Care,
                CollectFertilizer, Dig, Place, PickUp, Served
  <2> QED BY <2>1, <2>2
<1> QED BY <1>1, <1>2, <1>3, <1>4, <1>5, <1>6

LEMMA TurnMaskedKept ==
  ASSUME Inv, UnitActs, TurnMasked, UNCHANGED masks
  PROVE  TurnMasked'
<1>1. /\ next \in Units /\ next \in Nat /\ next <= hand_count /\ hand_count \in Nat
      /\ hand_count' = hand_count /\ orders' = orders
      /\ operation_mask' = operation_mask /\ target_mask' = target_mask
      /\ \A u \in Units : u \in Nat
  BY OthersKept, StoresAssumption DEF masks, Inv, ClockOK, Units
<1>2. next' \in {next, next + 1}
  BY OthersKept
<1> SUFFICES ASSUME NEW u \in Units, u <= hand_count
             PROVE  /\ next' <= u => /\ operation_mask[u] = OperationMask(u)'
                                     /\ \A i \in Items : inventory'[u][i] > 0 => i \in target_mask[u]
                    /\ \A c \in Crops : seeds'[c] > 0 => c \in target_mask[u]
                    /\ \A i \in Items : shed'[i] > 0 =>
                          \/ i \in target_mask[u]
                          \/ \E w \in 0..next' : w <= hand_count /\ Brings(w, i)'
  BY <1>1 DEF TurnMasked
<1>3. \A i \in Items, w \in Units : Brings(w, i)' <=> Brings(w, i)
  BY <1>1 DEF Brings
<1>4. ASSUME next' <= u
      PROVE  /\ operation_mask[u] = OperationMask(u)'
             /\ \A i \in Items : inventory'[u][i] > 0 => i \in target_mask[u]
  <2>1. next <= u
    BY <1>1, <1>2, <1>4
  <2>2. /\ operation_mask[u] = OperationMask(u)
        /\ \A i \in Items : inventory[u][i] > 0 => i \in target_mask[u]
    BY <2>1 DEF TurnMasked
  <2>3. /\ position'[u] = position[u]
        /\ \A i \in Items : inventory'[u][i] > 0 => inventory[u][i] > 0
    <3>1. CASE u = next
      <4>1. next' # next + 1
        BY <1>1, <1>4, <3>1
      <4> QED BY <3>1, <4>1, OthersKept
    <3>2. CASE u # next
      BY <3>2, OthersKept
    <3> QED BY <3>1, <3>2
  <2>4. OperationMask(u)' = OperationMask(u)
    BY <1>1, <2>3 DEF OperationMask
  <2> QED BY <2>2, <2>3, <2>4
<1>5. \A c \in Crops : seeds'[c] > 0 => c \in target_mask[u]
  BY OthersKept DEF TurnMasked
<1>6. ASSUME NEW i \in Items, shed'[i] > 0, i \notin target_mask[u]
      PROVE  \E w \in 0..next' : w <= hand_count /\ Brings(w, i)'
  <2>1. 0..next \subseteq 0..next' /\ next \in 0..next'
    BY <1>1, <1>2
  <2>2. CASE shed[i] > 0
    <3>1. PICK w \in 0..next : w <= hand_count /\ Brings(w, i)
      BY <1>6, <2>2 DEF TurnMasked
    <3>2. w \in Units
      BY <1>1, <3>1, StoresAssumption DEF Units
    <3> QED BY <1>3, <2>1, <3>1, <3>2
  <2>3. CASE ~(shed[i] > 0)
    <3>1. /\ inventory[next][i] > 0
          /\ order.op = "DROP" \/ (order.op = "PLACE" /\ order.target = i)
      BY <1>6, <2>3, BroughtByNext
    <3>2. i \in target_mask[next]
      BY <1>1, <3>1 DEF TurnMasked
    <3>3. Brings(next, i)
      BY <3>1, <3>2 DEF Brings, order
    <3> QED BY <1>1, <1>3, <2>1, <3>3
  <2> QED BY <2>2, <2>3
<1> QED BY <1>4, <1>5, <1>6

\* The masks are current when the agents are asked, and good for the turn that follows.
LEMMA MasksInductive ==
  ASSUME Inv, Inv', MasksCurrent, [MaskedNext]_<<vars, masks>>
  PROVE  MasksCurrent'
<1>1. CASE UNCHANGED <<vars, masks>>
  BY <1>1 DEF MasksCurrent, TurnMasked, OperationMasks, TargetMasks, OperationMask, TargetMask,
              Brings, vars, turn, stores, masks
<1>2. CASE MaskedNext
  <2>1. phase' = "agent" => operation_mask' = OperationMasks' /\ target_mask' = TargetMasks'
    BY <1>2 DEF MaskedNext
  <2>2. ASSUME phase' = "units" PROVE TurnMasked'
    <3>0. UNCHANGED masks
      BY <1>2, <2>2 DEF MaskedNext, masks
    <3>1. CASE Submit
      <4>1. /\ operation_mask = OperationMasks /\ target_mask = TargetMasks
            /\ next' = 0
            /\ UNCHANGED <<seeds, position, hand_count, shed, inventory>>
        BY <3>1 DEF Submit, Submitted, MasksCurrent, Farmer, stores
      <4>2. /\ \A u \in Units : operation_mask[u] = OperationMask(u)
            /\ \A u \in Units : target_mask[u] = TargetMask(u)
            /\ \A u \in Units : OperationMask(u)' = OperationMask(u)
        BY <4>1 DEF OperationMasks, TargetMasks, OperationMask
      <4>3. \A u \in Units : u <= hand_count => ~(u > hand_count)
        BY DEF Units, Inv, ClockOK
      <4> QED BY <3>0, <4>1, <4>2, <4>3 DEF TurnMasked, TargetMask, masks
    <3>2. CASE UnitActs
      <4>1. phase = "units"
        BY <3>2 DEF UnitActs, Skip, Move, Plant, Harvest, Feed, Water, Build, Fertilize, Care,
                    CollectFertilizer, Dig, Place, PickUp, Drop, Acts, Serving
      <4> QED BY <3>0, <3>2, <4>1, TurnMaskedKept DEF MasksCurrent
    <3>3. CASE SubmitWhenDone
      BY <2>2, <3>0, <3>3 DEF SubmitWhenDone, MasksCurrent, TurnMasked, OperationMask,
              Brings, vars, turn, stores, masks
    <3>4. CASE UnitsDone \/ MarketServes \/ EndTurn \/ Dusk \/ StoreCarried \/ Dawn
      BY <2>2, <3>4 DEF UnitsDone, MarketServes, PassSlot, BuySeed, BuyGoods, Sell, Hire, BuyLand,
                        Trades, EndTurn, Dusk, StoreCarried, Dawn
    <3> QED BY <1>2, <3>1, <3>2, <3>3, <3>4 DEF MaskedNext, Next
  <2> QED BY <2>1, <2>2 DEF MasksCurrent
<1> QED BY <1>1, <1>2

LEMMA MasksAlways ==
  MaskedSpec => Spec /\ [](Inv /\ MasksCurrent)
<1>1. MaskedSpec => MaskedInit /\ [][MaskedNext]_<<vars, masks>>
  BY PTL DEF MaskedSpec
<1>2. MaskedInit => Init /\ MasksCurrent
  BY DEF MaskedInit, MasksCurrent, Init
<1>3. [MaskedNext]_<<vars, masks>> => [Next]_vars
  BY DEF MaskedNext
<1>4. MaskedSpec => Spec
  BY <1>1, <1>2, <1>3, PTL DEF Spec
<1>5. Inv /\ Inv' /\ MasksCurrent /\ [MaskedNext]_<<vars, masks>> => MasksCurrent'
  BY MasksInductive
<1> QED BY <1>1, <1>2, <1>4, <1>5, InvInductive, PTL

-----------------------------------------------------------------------------
(* The theorem. *)

\* The step of MaskedIsIdle.
MaskStep ==
    Serving /\ ~Offered(next, order) =>
        \/ UNCHANGED <<field, seeds, position, stores>>
        \/ order.op = "PICKUP" /\ \E u \in 0..(next - 1) : Brings(u, order.target)

\* An order that the masks of the turn, written before any unit has acted, do not offer
\* changes nothing when it is given all the same: they hide no useful order from a policy,
\* but for the PICKUP of goods that a unit before has brought to the shed in this turn
\* (write_action_masks against apply_unit_action).
THEOREM MaskedIdle == MaskedSpec => MaskedIsIdle
<1>1. Inv /\ MasksCurrent /\ [Next]_vars => [MaskStep]_vars
  <2> SUFFICES ASSUME Inv, MasksCurrent, Next, Serving, ~Offered(next, order)
               PROVE  \/ UNCHANGED <<field, seeds, position, stores>>
                      \/ order.op = "PICKUP" /\ \E u \in 0..(next - 1) : Brings(u, order.target)
    BY DEF MaskStep
  <2>1. TurnMasked
    BY DEF MasksCurrent, Serving
  <2> QED BY <2>1, IdleUnits
<1>2. MaskedSpec => [][MaskStep]_vars
  BY <1>1, MasksAlways, PTL DEF Spec
<1> QED BY <1>2 DEF MaskedIsIdle, MaskStep

-----------------------------------------------------------------------------
(* FORECASTS: what a sight of a tile promises comes true (Lifecycle.tla). *)

\* A remainder and its quotient are told by any sum that has them.
LEMMA RemainderIs ==
  ASSUME NEW k \in Nat, k > 0, NEW q \in Int, NEW r \in 0..(k - 1), NEW n \in Int,
         n = k * q + r
  PROVE  n % k = r
<1> DEFINE d == n \div k
<1>1. d \in Int /\ n % k = n - k * d /\ n % k \in 0..(k - 1)
  BY Remainder
<1> HIDE DEF d
<1>2. /\ k * q \in Int /\ k * d \in Int
      /\ k * (q + 1) = k * q + k /\ k * (d + 1) = k * d + k
  BY <1>1
<1>3. CASE d = q
  BY <1>1, <1>2, <1>3
<1>4. CASE d >= q + 1
  <2>1. (q + 1) * k <= d * k
    BY <1>1, <1>4, Monotone
  <2> QED BY <1>1, <1>2, <2>1
<1>5. CASE q >= d + 1
  <2>1. (d + 1) * k <= q * k
    BY <1>1, <1>5, Monotone
  <2> QED BY <1>1, <1>2, <2>1
<1> QED BY <1>1, <1>3, <1>4, <1>5

\* From since to the next multiple of k, and none on the way.
LEMMA NextMultiple ==
  ASSUME NEW k \in Nat, k > 0, NEW since \in Nat
  PROVE  LET gap == (k - (since % k)) % k IN
         /\ gap \in Nat /\ (since + gap) % k = 0
         /\ \A j \in 0..(gap - 1) : (since + j) % k # 0
<1> DEFINE r == since % k
           q == since \div k
           gap == (k - r) % k
<1>1. r \in 0..(k - 1) /\ q \in Int /\ since = k * q + r /\ k * q \in Int
  BY Remainder
<1>2. k * (q + 1) = k * q + k /\ k * 1 = k /\ k * 0 = 0
  BY <1>1
<1> HIDE DEF r, q
<1>3. CASE r = 0
  <2>1. k = k * 1 + 0 /\ 0 \in 0..(k - 1) /\ k - r = k
    BY <1>2, <1>3
  <2>2. k % k = 0
    BY <2>1, RemainderIs
  <2>3. gap = 0
    BY <2>1, <2>2
  <2>4. since % k = 0
    BY <1>3 DEF r
  <2>5. since + 0 = since /\ (\A j \in 0..(0 - 1) : FALSE)
    OBVIOUS
  <2> HIDE DEF gap
  <2>6. gap \in Nat /\ since + gap = since /\ \A j \in 0..(gap - 1) : FALSE
    BY <2>3, <2>5
  <2> QED BY <2>4, <2>6 DEF gap, r
<1>4. CASE r # 0
  <2>1. k - r \in 0..(k - 1) /\ k - r = k * 0 + (k - r) /\ k - r \in Int
    BY <1>1, <1>2, <1>4
  <2>2. gap = k - r
    BY <2>1, RemainderIs
  <2> HIDE DEF gap
  <2>3. since + gap \in Int /\ since + gap = k * (q + 1) + 0 /\ 0 \in 0..(k - 1) /\ q + 1 \in Int
    BY <1>1, <1>2, <2>2
  <2>4. (since + gap) % k = 0
    BY <2>3, RemainderIs
  <2>5. ASSUME NEW j \in 0..(gap - 1) PROVE (since + j) % k # 0
    <3>1. /\ since + j \in Int /\ since + j = k * q + (r + j)
          /\ r + j \in 0..(k - 1) /\ r + j # 0
      BY <1>1, <1>4, <2>2
    <3>2. (since + j) % k = r + j
      BY <1>1, <3>1, RemainderIs
    <3> QED BY <3>1, <3>2
  <2>6. gap \in Nat
    BY <2>1, <2>2
  <2> QED BY <2>4, <2>5, <2>6 DEF gap, r
<1> QED BY <1>3, <1>4

\* In n days, and on no day before, a rhythm that starts at age first and has the given
\* interval comes round, and no more often than most times.
Due(n, age, first, interval, most) ==
  /\ n \in Nat /\ n > 0 /\ age + n >= first /\ (age + n - first) % interval = 0
  /\ most # None => (age + n - first) \div interval + 1 <= most
  /\ \A k \in 1..(n - 1) : ~(age + k >= first /\ (age + k - first) % interval = 0)

\* The day that is named is the first after today on which the rhythm comes round.
LEMMA NextDayIs ==
  ASSUME NEW today \in Int, NEW age \in Nat, NEW first \in Nat, NEW interval \in Nat,
         interval > 0, NEW most, most = None \/ most \in Int,
         NextProductionDay(today, today - age, first, interval, most) # None
  PROVE  Due(NextProductionDay(today, today - age, first, interval, most) - today,
             age, first, interval, most)
<1> DEFINE origin == today - age
           start == Later(today + 1, origin + first)
           since == start - origin - first
           gap == (interval - (since % interval)) % interval
           found == start + gap
           n == found - today
<1> DEFINE named == NextProductionDay(today, today - age, first, interval, most)
           spent == most # None /\ (found - origin - first) \div interval + 1 > most
<1>1. named = found /\ (most # None => ~spent)
  <2>1. named = IF interval <= 0 \/ spent THEN None ELSE found
    BY DEF NextProductionDay
  <2>2. ~(interval <= 0) /\ named # None
    OBVIOUS
  <2> HIDE DEF named, spent, found
  <2> QED BY <2>1, <2>2
<1>2. /\ origin \in Int /\ start \in Int /\ since \in Nat /\ start > today
      /\ start = today + 1 \/ (start = origin + first /\ since = 0)
  BY DEF Later
<1>4. start - today + age - first = since
  BY <1>2
<1> HIDE DEF start, since
<1>5. /\ gap \in Nat /\ (since + gap) % interval = 0
      /\ \A j \in 0..(gap - 1) : (since + j) % interval # 0
  BY <1>2, NextMultiple
<1> HIDE DEF gap
<1>6. /\ n \in Nat /\ n > 0 /\ age + n - first = since + gap /\ age + n >= first
      /\ found - origin - first = since + gap
  BY <1>2, <1>4, <1>5 DEF since
<1>7. ASSUME NEW k \in 1..(n - 1), age + k >= first, (age + k - first) % interval = 0
      PROVE  FALSE
  <2> DEFINE j == today + k - start
  <2>1. j \in Int /\ age + k - first = since + j /\ j < gap
    BY <1>2, <1>4, <1>5, <1>7 DEF since
  <2>2. CASE j >= 0
    <3>1. j \in 0..(gap - 1)
      BY <2>1, <2>2, <1>5
    <3> HIDE DEF j
    <3> QED BY <1>5, <1>7, <2>1, <3>1
  <2>3. CASE j < 0
    <3>1. start # today + 1
      BY <1>2, <2>3
    <3>2. since = 0
      BY <1>2, <3>1
    <3> QED BY <1>2, <1>7, <2>1, <2>3, <3>2
  <2> QED BY <2>1, <2>2, <2>3
<1> HIDE DEF found
<1>8. /\ (age + n - first) % interval = 0
      /\ most # None => (age + n - first) \div interval + 1 <= most
  <2> DEFINE w == age + n - first
  <2>1. w = since + gap /\ found - origin - first = w /\ w \in Int
    BY <1>2, <1>5, <1>6
  <2>2. most # None => ~(w \div interval + 1 > most)
    BY <1>1, <2>1
  <2> HIDE DEF w
  <2>3. w \div interval \in Int
    BY <2>1, Remainder
  <2>4. most # None => w \div interval + 1 <= most
    BY <2>2, <2>3
  <2> QED BY <1>5, <2>1, <2>4 DEF w
<1> HIDE DEF n, named
<1>9. Due(n, age, first, interval, most)
  BY <1>6, <1>7, <1>8 DEF Due
<1> QED BY <1>1, <1>9 DEF n, named

-----------------------------------------------------------------------------
(* Nights on which a tile is kept watered and fed. *)

\* Tile u is tile s a night later.
Fared(s, u) ==
    /\ s.crop # None =>
          /\ u.crop = s.crop /\ u.age = s.age + 1
          /\ BearsAt(s.crop, s.age + 1) /\ s.yield >= 0 => u.yield > 0
          /\ ~BearsAt(s.crop, s.age + 1) => u.yield = s.yield
    /\ s.animal # None =>
          /\ u.animal = s.animal /\ u.animal_age = s.animal_age + 1
          /\ ProducesAt(s.animal, s.animal_age + 1) => u.animal_yield > 0
          /\ ~ProducesAt(s.animal, s.animal_age + 1) => u.animal_yield = s.animal_yield

LEMMA WateredNight ==
  ASSUME NEW t \in Tile, t.crop # None, t.watered, NEW today \in Nat
  PROVE  LET u == CropNight(t, today) IN
         /\ u.crop = t.crop /\ u.age = t.age + 1
         /\ BearsAt(t.crop, t.age + 1) /\ t.yield >= 0 => u.yield > 0
         /\ ~BearsAt(t.crop, t.age + 1) => u.yield = t.yield
<1> DEFINE age   == t.age + 1
           bonus == IF t.fertilized_until >= today THEN 2 ELSE 1
           sum   == t.yield + bonus
           lot   == IF BearsAt(t.crop, age) THEN AtMost(sum, MaxYield[t.crop]) ELSE t.yield
           u     == [t EXCEPT !.age = age, !.unwatered = 0, !.watered = FALSE, !.yield = lot]
<1>1. CropNight(t, today) = u
  BY DEF CropNight, Tile
<1>2. u.crop = t.crop /\ u.age = age /\ u.yield = lot
  BY DEF Tile
<1>3. MaxYield[t.crop] \in Nat \ {0} /\ t.yield \in Int /\ sum \in Int /\ sum > t.yield
  BY FieldAssumption DEF Tile
<1> HIDE DEF u, sum
<1>4. t.yield >= 0 => AtMost(sum, MaxYield[t.crop]) > 0
  BY <1>3 DEF AtMost
<1> HIDE DEF age
<1>5. BearsAt(t.crop, age) /\ t.yield >= 0 => lot > 0
  BY <1>4
<1>6. ~BearsAt(t.crop, age) => lot = t.yield
  OBVIOUS
<1> HIDE DEF lot
<1> QED BY <1>1, <1>2, <1>5, <1>6 DEF age

LEMMA FedNight ==
  ASSUME NEW t \in Tile, t.animal # None, t.fed
  PROVE  LET u == AnimalNight(t) IN
         /\ u.animal = t.animal /\ u.animal_age = t.animal_age + 1
         /\ ProducesAt(t.animal, t.animal_age + 1) => u.animal_yield > 0
         /\ ~ProducesAt(t.animal, t.animal_age + 1) => u.animal_yield = t.animal_yield
<1> DEFINE age  == t.animal_age + 1
           sum  == t.animal_yield + 1 + t.pending_care
           care == CareLeft(t, ProducesAt(t.animal, age))
           kept == IF t.cared THEN care + 1 ELSE care
           lot  == IF ProducesAt(t.animal, age) THEN AtMost(sum, MaxHeld[t.animal])
                   ELSE t.animal_yield
           u    == [t EXCEPT !.unfed = 0, !.animal_age = age, !.animal_yield = lot,
                             !.pending_care = kept, !.fertilizer = TRUE, !.cared = FALSE,
                             !.fed = FALSE]
<1>1. AnimalNight(t) = u
  BY DEF AnimalNight, Tile
<1>2. u.animal = t.animal /\ u.animal_age = age /\ u.animal_yield = lot
  BY DEF Tile
<1>3. MaxHeld[t.animal] \in Nat \ {0} /\ sum \in Nat /\ sum > 0
  BY FieldAssumption DEF Tile
<1> HIDE DEF u, sum
<1>4. AtMost(sum, MaxHeld[t.animal]) > 0
  BY <1>3 DEF AtMost
<1> HIDE DEF age
<1>5. ProducesAt(t.animal, age) => lot > 0
  BY <1>4
<1>6. ~ProducesAt(t.animal, age) => lot = t.animal_yield
  OBVIOUS
<1> HIDE DEF lot
<1> QED BY <1>1, <1>2, <1>5, <1>6 DEF age

LEMMA NightKept ==
  ASSUME NEW s \in Tile, NEW today \in Nat
  PROVE  LET u == Overnight([s EXCEPT !.watered = TRUE, !.fed = TRUE], today) IN
         u \in Tile /\ Fared(s, u)
<1> DEFINE t == [s EXCEPT !.watered = TRUE, !.fed = TRUE]
           a == AnimalNight(t)
           u == CropNight(a, today)
<1>1. t \in Tile
  BY SetWatered, SetFed
<1>2. /\ t.watered /\ t.fed /\ t.crop = s.crop /\ t.age = s.age /\ t.yield = s.yield
      /\ t.animal = s.animal /\ t.animal_age = s.animal_age
      /\ t.animal_yield = s.animal_yield
  BY DEF Tile
<1> HIDE DEF t
<1>3. a \in Tile /\ SameCrop(t, a)
  BY <1>1, AnimalNightSound, AnimalNightKeepsCrop
<1>4. s.animal # None => /\ a.animal = t.animal /\ a.animal_age = t.animal_age + 1
                         /\ ProducesAt(t.animal, t.animal_age + 1) => a.animal_yield > 0
                         /\ ~ProducesAt(t.animal, t.animal_age + 1)
                                => a.animal_yield = t.animal_yield
  BY <1>1, <1>2, FedNight
<1> HIDE DEF a
<1>5. u \in Tile /\ SameAnimal(a, u)
  BY <1>3, CropNightSound, CropNightKeepsAnimal
<1>6. s.crop # None => /\ u.crop = a.crop /\ u.age = a.age + 1
                       /\ BearsAt(a.crop, a.age + 1) /\ a.yield >= 0 => u.yield > 0
                       /\ ~BearsAt(a.crop, a.age + 1) => u.yield = a.yield
  BY <1>2, <1>3, WateredNight DEF SameCrop
<1>7. Overnight(t, today) = u
  BY DEF Overnight, a
<1> HIDE DEF u
<1>8. Fared(s, u)
  BY <1>2, <1>3, <1>4, <1>5, <1>6 DEF Fared, SameCrop, SameAnimal
<1> QED BY <1>5, <1>7, <1>8 DEF t

\* f goes through the nights from tile t.
Nights(f, n, t) ==
  f \in [0..n -> Tile] /\ f[0] = t /\ \A k \in 1..n : Fared(f[k - 1], f[k])

LEMMA KeptIs ==
  ASSUME NEW t \in Tile, NEW today \in Nat, NEW n \in Nat
  PROVE  \E f : Nights(f, n, t) /\ f[n] = Kept(t, today, n)
<1> DEFINE night(s, k) == Overnight([s EXCEPT !.watered = TRUE, !.fed = TRUE], today + k - 1)
           step_(f) == [k \in 0..n |-> IF k = 0 THEN t ELSE night(f[k - 1], k)]
           kept == CHOOSE f : f = step_(f)
           G == [k \in 1..n |-> [s \in Tile |-> night(s, k)]]
<1>1. Kept(t, today, n) = kept[n]
  BY DEF Kept
<1>2. ASSUME NEW k \in 1..n, NEW s \in Tile
      PROVE  night(s, k) \in Tile /\ Fared(s, night(s, k))
  <2>1. today + k - 1 \in Nat
    OBVIOUS
  <2> QED BY <2>1, NightKept
<1> HIDE DEF night
<1>3. G \in [1..n -> [Tile -> Tile]]
  BY <1>2
<1> HIDE DEF G
<1>4. PICK f : Unfolds(f, n, Tile, t, G)
  BY <1>3, Recursion
<1>5. f = step_(f)
  <2>0. f = [k \in 0..n |-> f[k]]
    BY <1>4 DEF Unfolds
  <2>1. ASSUME NEW k \in 0..n PROVE f[k] = step_(f)[k]
    <3>1. CASE k = 0
      BY <3>1, <1>4 DEF Unfolds
    <3>2. CASE k # 0
      <4>1. k \in 1..n /\ k - 1 \in 0..n /\ f[k - 1] \in Tile
        BY <3>2, <1>4 DEF Unfolds
      <4> QED BY <4>1, <1>4, <3>2 DEF G, Unfolds
    <3> QED BY <3>1, <3>2
  <2> QED BY <2>0, <2>1
<1>6. kept = step_(kept)
  <2> HIDE DEF step_
  <2> QED BY <1>5
<1> HIDE DEF kept
<1>7. /\ kept = [k \in 0..n |-> kept[k]] /\ kept[0] = t
      /\ \A k \in 1..n : kept[k] = night(kept[k - 1], k)
  <2>1. ASSUME NEW k \in 0..n PROVE kept[k] = step_(kept)[k]
    <3> HIDE DEF step_
    <3> QED BY <1>6
  <2>2. kept[0] = t
    BY <2>1
  <2>3. ASSUME NEW k \in 1..n PROVE kept[k] = night(kept[k - 1], k)
    <3>1. k \in 0..n /\ k # 0
      OBVIOUS
    <3> QED BY <3>1, <2>1
  <2>4. DOMAIN kept = 0..n /\ kept = [k \in DOMAIN kept |-> kept[k]]
    <3>1. DOMAIN step_(kept) = 0..n /\ step_(kept) = [k \in DOMAIN step_(kept) |-> step_(kept)[k]]
      OBVIOUS
    <3> HIDE DEF step_
    <3> QED BY <3>1, <1>6
  <2>5. kept = [k \in 0..n |-> kept[k]]
    BY <2>4
  <2> QED BY <2>2, <2>3, <2>5
<1>8. \A k \in 0..n : kept[k] \in Tile
  <2>1. kept[0] \in Tile
    BY <1>7
  <2>2. ASSUME NEW k \in 1..n, kept[k - 1] \in Tile PROVE kept[k] \in Tile
    BY <2>2, <1>2, <1>7
  <2> QED BY <2>1, <2>2, Closure
<1>9. \A k \in 1..n : Fared(kept[k - 1], kept[k])
  <2>1. ASSUME NEW k \in 1..n PROVE Fared(kept[k - 1], kept[k])
    <3>1. k - 1 \in 0..n
      OBVIOUS
    <3> QED BY <3>1, <1>2, <1>7, <1>8
  <2> QED BY <2>1
<1>10. kept \in [0..n -> Tile]
  BY <1>7, <1>8
<1>11. Nights(kept, n, t)
  BY <1>7, <1>9, <1>10 DEF Nights
<1> HIDE DEF step_
<1> QED BY <1>1, <1>11

\* What a crop has come to after k nights, and an animal.
CropAfter(t, s, k) ==
  /\ s.crop = t.crop /\ s.age = t.age + k /\ s.yield >= 0
  /\ k > 0 /\ BearsAt(t.crop, t.age + k) => s.yield > 0
  /\ t.yield > 0 => s.yield > 0
  /\ (\A j \in 1..k : ~BearsAt(t.crop, t.age + j)) => s.yield = t.yield

AnimalAfter(t, s, k) ==
  /\ s.animal = t.animal /\ s.animal_age = t.animal_age + k
  /\ k > 0 /\ ProducesAt(t.animal, t.animal_age + k) => s.animal_yield > 0
  /\ (\A j \in 1..k : ~ProducesAt(t.animal, t.animal_age + j))
        => s.animal_yield = t.animal_yield

LEMMA CropNights ==
  ASSUME NEW t \in Tile, NEW n \in Nat, NEW f, Nights(f, n, t), t.crop # None, t.yield >= 0
  PROVE  CropAfter(t, f[n], n)
<1> DEFINE T == {k \in Nat : k <= n => CropAfter(t, f[k], k)}
<1>1. 0 \in T
  <2>1. t.age + 0 = t.age /\ t.age \in Int
    BY DEF Tile
  <2>2. CropAfter(t, t, 0)
    BY <2>1 DEF CropAfter
  <2> QED BY <2>2 DEF Nights
<1>2. ASSUME NEW k \in T PROVE k + 1 \in T
  <2>1. SUFFICES ASSUME k + 1 <= n PROVE CropAfter(t, f[k + 1], k + 1)
    OBVIOUS
  <2> DEFINE s == f[k]
             u == f[k + 1]
  <2>2. k \in 0..n /\ k + 1 \in 1..n /\ k + 1 \in 0..n /\ (k + 1) - 1 = k /\ k <= n /\ k \in Nat
    BY <2>1
  <2>3. CropAfter(t, s, k) /\ s \in Tile /\ u \in Tile /\ Fared(s, u)
    BY <2>2 DEF Nights
  <2> HIDE DEF s, u
  <2>4. /\ s.crop # None /\ s.age + 1 = t.age + (k + 1) /\ u.age = t.age + (k + 1)
        /\ u.crop = t.crop /\ s.yield \in Int /\ t.age \in Int /\ u.yield \in Int
    BY <2>2, <2>3 DEF CropAfter, Fared, Tile
  <2>5. /\ BearsAt(t.crop, t.age + (k + 1)) => u.yield > 0
        /\ ~BearsAt(t.crop, t.age + (k + 1)) => u.yield = s.yield
    BY <2>3, <2>4 DEF CropAfter, Fared
  <2>6. ASSUME \A j \in 1..(k + 1) : ~BearsAt(t.crop, t.age + j)
        PROVE  u.yield = t.yield
    <3>1. /\ ~BearsAt(t.crop, t.age + (k + 1))
          /\ \A j \in 1..k : ~BearsAt(t.crop, t.age + j)
      BY <2>2, <2>6
    <3> QED BY <3>1, <2>3, <2>5 DEF CropAfter
  <2>7. u.yield >= 0 /\ (t.yield > 0 => u.yield > 0)
    BY <2>3, <2>4, <2>5 DEF CropAfter
  <2>8. CropAfter(t, u, k + 1)
    BY <2>4, <2>5, <2>6, <2>7 DEF CropAfter
  <2> QED BY <2>8 DEF u
<1> HIDE DEF T
<1>3. T = Nat
  <2>1. T \subseteq Nat
    BY DEF T
  <2> QED BY <2>1, <1>1, <1>2, Induction
<1> QED BY <1>3 DEF T

LEMMA AnimalNights ==
  ASSUME NEW t \in Tile, NEW n \in Nat, NEW f, Nights(f, n, t), t.animal # None
  PROVE  AnimalAfter(t, f[n], n)
<1> DEFINE T == {k \in Nat : k <= n => AnimalAfter(t, f[k], k)}
<1>1. 0 \in T
  <2>1. t.animal_age + 0 = t.animal_age
    BY DEF Tile
  <2>2. AnimalAfter(t, t, 0)
    BY <2>1 DEF AnimalAfter
  <2> QED BY <2>2 DEF Nights
<1>2. ASSUME NEW k \in T PROVE k + 1 \in T
  <2>1. SUFFICES ASSUME k + 1 <= n PROVE AnimalAfter(t, f[k + 1], k + 1)
    OBVIOUS
  <2> DEFINE s == f[k]
             u == f[k + 1]
  <2>2. k \in 0..n /\ k + 1 \in 1..n /\ k + 1 \in 0..n /\ (k + 1) - 1 = k /\ k <= n /\ k \in Nat
    BY <2>1
  <2>3. AnimalAfter(t, s, k) /\ s \in Tile /\ u \in Tile /\ Fared(s, u)
    BY <2>2 DEF Nights
  <2> HIDE DEF s, u
  <2>4. /\ s.animal # None /\ s.animal_age + 1 = t.animal_age + (k + 1)
        /\ u.animal_age = t.animal_age + (k + 1) /\ u.animal = t.animal
    BY <2>2, <2>3 DEF AnimalAfter, Fared, Tile
  <2>5. /\ ProducesAt(t.animal, t.animal_age + (k + 1)) => u.animal_yield > 0
        /\ ~ProducesAt(t.animal, t.animal_age + (k + 1)) => u.animal_yield = s.animal_yield
    BY <2>3, <2>4 DEF AnimalAfter, Fared
  <2>6. ASSUME \A j \in 1..(k + 1) : ~ProducesAt(t.animal, t.animal_age + j)
        PROVE  u.animal_yield = t.animal_yield
    <3>1. /\ ~ProducesAt(t.animal, t.animal_age + (k + 1))
          /\ \A j \in 1..k : ~ProducesAt(t.animal, t.animal_age + j)
      BY <2>2, <2>6
    <3> QED BY <3>1, <2>3, <2>5 DEF AnimalAfter
  <2>8. AnimalAfter(t, u, k + 1)
    BY <2>4, <2>5, <2>6 DEF AnimalAfter
  <2> QED BY <2>8 DEF u
<1> HIDE DEF T
<1>3. T = Nat
  <2>1. T \subseteq Nat
    BY DEF T
  <2> QED BY <2>1, <1>1, <1>2, Induction
<1> QED BY <1>3 DEF T

LEMMA KeptCrop ==
  ASSUME NEW t \in Tile, NEW today \in Nat, NEW n \in Nat, t.crop # None, t.yield >= 0
  PROVE  CropAfter(t, Kept(t, today, n), n)
<1>1. PICK f : Nights(f, n, t) /\ f[n] = Kept(t, today, n)
  BY KeptIs
<1> QED BY <1>1, CropNights

LEMMA KeptAnimal ==
  ASSUME NEW t \in Tile, NEW today \in Nat, NEW n \in Nat, t.animal # None
  PROVE  AnimalAfter(t, Kept(t, today, n), n)
<1>1. PICK f : Nights(f, n, t) /\ f[n] = Kept(t, today, n)
  BY KeptIs
<1> QED BY <1>1, AnimalNights

-----------------------------------------------------------------------------
(* The forecasts. *)

LEMMA HarvestForetold ==
  ASSUME NEW t \in Tile, t.crop # None, t.age >= 0, t.yield >= 0, NEW today \in Nat,
         NEW now \in Nat, NEW seen, Shows(seen, t)
  PROVE  HarvestComesTrue(seen, t, today, now)
<1> DEFINE c == t.crop
           first == FirstYieldDay[c]
           named == NextProductionDay(today, today - t.age, first, Interval[c], MaxYield[c])
           n == PlantNext(seen, today)
<1>1. /\ seen.crop = c /\ seen.age = t.age /\ seen.yield = t.yield
      /\ seen.watered = t.watered
  BY DEF Shows
<1>2. /\ first \in Nat /\ Interval[c] \in Nat /\ MaxYield[c] \in Nat /\ t.age \in Nat
      /\ t.yield \in Nat /\ c # None
  BY FieldAssumption DEF Tile
<1>3. n = IF t.yield > 0 THEN IF t.age >= first THEN 0 ELSE first - t.age
          ELSE IF Ongoing(c) /\ t.watered /\ named # None THEN named - today ELSE None
  BY <1>1 DEF PlantNext
<1>4. (t.yield > 0 /\ t.age >= first) = Ripe(t)
  BY <1>2 DEF Ripe
<1> DEFINE ripe(k) == Ripe(Kept(t, today, k))
<1>5. ASSUME NEW k \in Nat PROVE /\ CropAfter(t, Kept(t, today, k), k)
                                 /\ ripe(k) <=> /\ Kept(t, today, k).yield > 0
                                                /\ t.age + k >= first
  <2>1. CropAfter(t, Kept(t, today, k), k)
    BY KeptCrop
  <2> QED BY <2>1 DEF CropAfter, Ripe
<1> HIDE DEF ripe
<1>6. n # None => n \in Nat /\ ripe(n) /\ \A k \in 0..(n - 1) : ~ripe(k)
  <2>1. CASE t.yield > 0
    <3>1. n \in Nat /\ t.age + n >= first /\ (\A k \in 0..(n - 1) : k \in Nat /\ t.age + k < first)
      BY <1>2, <1>3, <2>1
    <3>2. ripe(n)
      BY <1>5, <2>1, <3>1 DEF CropAfter
    <3>3. ASSUME NEW k \in 0..(n - 1) PROVE ~ripe(k)
      <4>1. k \in Nat /\ ~(t.age + k >= first)
        BY <1>2, <3>1
      <4> QED BY <1>5, <4>1
    <3> QED BY <3>1, <3>2, <3>3
  <2>2. CASE ~(t.yield > 0)
    <3>0. SUFFICES ASSUME n # None
                   PROVE  n \in Nat /\ ripe(n) /\ \A k \in 0..(n - 1) : ~ripe(k)
      OBVIOUS
    <3>1. Ongoing(c) /\ named # None /\ n = named - today
      BY <1>3, <2>2, <3>0
    <3>2. Interval[c] > 0 /\ MaxYield[c] # None /\ MaxYield[c] \in Int
      BY <1>2, <3>1, LifecycleAssumption DEF Ongoing
    <3>a. Due(named - today, t.age, first, Interval[c], MaxYield[c])
      <4> HIDE DEF first
      <4> QED BY <1>2, <3>1, <3>2, NextDayIs
    <3> HIDE DEF named, n
    <3>3. /\ n \in Nat /\ n > 0 /\ t.age + n >= first /\ (t.age + n - first) % Interval[c] = 0
          /\ (t.age + n - first) \div Interval[c] + 1 <= MaxYield[c]
          /\ \A k \in 1..(n - 1) :
                ~(t.age + k >= first /\ (t.age + k - first) % Interval[c] = 0)
      BY <3>1, <3>2, <3>a DEF Due
    <3>4. BearsAt(c, t.age + n)
      BY <1>2, <3>1, <3>3 DEF BearsAt
    <3>5. ASSUME NEW k \in 1..(n - 1) PROVE ~BearsAt(c, t.age + k)
      BY <1>2, <3>3 DEF BearsAt
    <3>6. ripe(n)
      BY <1>5, <3>3, <3>4 DEF CropAfter
    <3>7. ASSUME NEW k \in 0..(n - 1) PROVE ~ripe(k)
      <4>1. k \in Nat /\ \A j \in 1..k : j \in 1..(n - 1)
        BY <3>3
      <4>2. Kept(t, today, k).yield = t.yield
        BY <1>5, <3>5, <4>1 DEF CropAfter
      <4> QED BY <1>5, <2>2, <4>1, <4>2
    <3> QED BY <3>3, <3>6, <3>7
  <2> QED BY <2>1, <2>2
<1> DEFINE plant == DerivePlant(seen, today, now)
<1>7. /\ plant.days_until_next_harvest = n
      /\ plant.currently_harvestable = (t.yield > 0 /\ t.age >= first)
  BY <1>1 DEF DerivePlant
<1> HIDE DEF plant, n, first, c
<1> QED BY <1>4, <1>6, <1>7 DEF HarvestComesTrue, plant, ripe

LEMMA ProductForetold ==
  ASSUME NEW t \in Tile, t.animal # None, NEW today \in Nat, NEW seen, Shows(seen, t)
  PROVE  ProductComesTrue(seen, t, today)
<1> DEFINE a == t.animal
           first == AnimalFirstDay[a]
           named == NextProductionDay(today, today - t.animal_age, first, AnimalInterval[a], None)
           animal == DeriveAnimal(seen, today)
           n == animal.days_until_next_product
           held(k) == Kept(t, today, k).animal_yield
<1>1. /\ seen.animal = a /\ seen.animal_age = t.animal_age
      /\ seen.animal_yield = t.animal_yield /\ seen.unfed = t.unfed /\ seen.fed = t.fed
  BY DEF Shows
<1>2. /\ first \in Nat /\ AnimalInterval[a] \in Nat /\ AnimalInterval[a] > 0
      /\ t.animal_age \in Nat /\ t.animal_yield \in Nat /\ a # None
  BY FieldAssumption DEF Tile
<1>3. /\ animal.currently_harvestable = (t.animal_yield > 0)
      /\ n = IF t.animal_yield > 0 THEN 0
             ELSE IF (t.unfed < 1 \/ t.fed) /\ named # None THEN named - today ELSE None
  BY <1>1 DEF DeriveAnimal
<1>4. ASSUME NEW k \in Nat PROVE AnimalAfter(t, Kept(t, today, k), k)
  BY KeptAnimal
<1> HIDE DEF animal
<1>5. n # None => n \in Nat /\ held(n) > 0 /\ \A k \in 0..(n - 1) : held(k) = 0
  <2> HIDE DEF n, first
  <2>1. CASE t.animal_yield > 0
    <3>1. n = 0
      BY <1>3, <2>1
    <3>2. \A j \in 1..0 : FALSE
      OBVIOUS
    <3>3. held(0) = t.animal_yield
      BY <1>4, <3>2 DEF AnimalAfter
    <3> HIDE DEF held
    <3>4. \A k \in 0..(0 - 1) : FALSE
      OBVIOUS
    <3> QED BY <2>1, <3>1, <3>3, <3>4
  <2>2. CASE ~(t.animal_yield > 0)
    <3>0. SUFFICES ASSUME n # None
                   PROVE  n \in Nat /\ held(n) > 0 /\ \A k \in 0..(n - 1) : held(k) = 0
      OBVIOUS
    <3>1. named # None /\ n = named - today /\ t.animal_yield = 0
      BY <1>2, <1>3, <2>2, <3>0
    <3>a. Due(named - today, t.animal_age, first, AnimalInterval[a], None)
      <4> DEFINE interval == AnimalInterval[a]
                 age == t.animal_age
      <4>1. /\ age \in Nat /\ first \in Nat /\ interval \in Nat /\ interval > 0
            /\ named # None /\ today \in Int
            /\ named = NextProductionDay(today, today - age, first, interval, None)
        BY <1>2, <3>1
      <4> HIDE DEF named, interval, age
      <4>2. NextProductionDay(today, today - age, first, interval, None) # None
        BY <4>1
      <4>3. Due(NextProductionDay(today, today - age, first, interval, None) - today,
                age, first, interval, None)
        BY <4>1, <4>2, NextDayIs
      <4> QED BY <4>1, <4>3 DEF interval, age
    <3> HIDE DEF named
    <3>3. /\ n \in Nat /\ n > 0 /\ t.animal_age + n >= first
          /\ (t.animal_age + n - first) % AnimalInterval[a] = 0
          /\ \A k \in 1..(n - 1) :
                ~(t.animal_age + k >= first
                    /\ (t.animal_age + k - first) % AnimalInterval[a] = 0)
      BY <3>1, <3>a DEF Due
    <3>4. ProducesAt(a, t.animal_age + n)
      BY <1>2, <3>3 DEF ProducesAt, first
    <3>5. ASSUME NEW k \in 1..(n - 1) PROVE ~ProducesAt(a, t.animal_age + k)
      BY <1>2, <3>3 DEF ProducesAt, first
    <3>6. held(n) > 0
      BY <1>4, <3>3, <3>4 DEF AnimalAfter
    <3>7. ASSUME NEW k \in 0..(n - 1) PROVE held(k) = 0
      <4>1. k \in Nat /\ \A j \in 1..k : j \in 1..(n - 1)
        BY <3>3
      <4> QED BY <1>4, <3>1, <3>5, <4>1 DEF AnimalAfter
    <3> QED BY <3>3, <3>6, <3>7
  <2> QED BY <2>1, <2>2
<1> HIDE DEF first, named
<1> QED BY <1>3, <1>5 DEF ProductComesTrue, animal

\* An observer who sees what stands on a tile, and how it fares, is told the day of the next
\* harvest or product: on it, and on no day before, a tile that is kept watered and fed has
\* something to give (replay_daily/lifecycle.py against advance_farm_growth).
THEOREM ForecastsAreTrue ==
  Spec => [](\A p \in Board, seen \in Tile :
                Shows(seen, field[p]) => ComesTrue(seen, field[p], day, step))
<1>1. ASSUME Inv, LifeOK, NEW p \in Board, NEW seen \in Tile, Shows(seen, field[p])
      PROVE  ComesTrue(seen, field[p], day, step)
  <2> DEFINE t == field[p]
  <2>1. t \in Tile /\ day \in Nat /\ step \in Nat
    BY <1>1, ClockFacts DEF Inv, FieldOK, ClockOK, LifeOK
  <2>2. t.crop # None => t.age >= 0 /\ t.yield >= 0
    BY <1>1 DEF LifeOK, CropSound, Calendar, Thriving
  <2>3. t.crop # None => HarvestComesTrue(seen, t, day, step)
    BY <1>1, <2>1, <2>2, HarvestForetold
  <2>4. t.animal # None => ProductComesTrue(seen, t, day)
    BY <1>1, <2>1, ProductForetold
  <2> QED BY <2>3, <2>4 DEF ComesTrue
<1>2. Inv /\ LifeOK => \A p \in Board, seen \in Tile :
                          Shows(seen, field[p]) => ComesTrue(seen, field[p], day, step)
  BY <1>1
<1> QED BY <1>2, LifeInductive, PTL
-----------------------------------------------------------------------------
(* HANDLING: goods go from hands to shelves and back, and none is made. *)

LEMMA UnitsFinite == IsFiniteSet(Units)
<1>1. MaxHands \in Int /\ 0 \in Int
  BY StoresAssumption
<1> QED BY <1>1, FS_Interval DEF Units

\* What is owned after unit u has w and the shed x of item i.
LEMMA OwnedMoves ==
  ASSUME NEW u \in Units, NEW i \in Items, NEW w \in Nat, NEW x \in Int,
         inventory \in [Units -> [Items -> Nat]], shed \in [Items -> Int],
         inventory' = [inventory EXCEPT ![u][i] = w], shed' = [shed EXCEPT ![i] = x]
  PROVE  /\ Owned(i) \in Int
         /\ Owned(i)' = Owned(i) + (x - shed[i]) + (w - inventory[u][i])
         /\ \A j \in Items \ {i} : Owned(j)' = Owned(j)
<1> DEFINE all(j) == [v \in Units |-> inventory[v][j]]
           now(j) == [v \in Units |-> inventory'[v][j]]
<1>1. /\ \A j \in Items \ {i}, v \in Units : inventory'[v][j] = inventory[v][j]
      /\ \A v \in Units \ {u} : inventory'[v][i] = inventory[v][i]
      /\ inventory'[u][i] = w
      /\ shed'[i] = x /\ \A j \in Items \ {i} : shed'[j] = shed[j]
  OBVIOUS
<1>2. /\ \A v \in Units : all(i)[v] \in Int /\ now(i)[v] \in Int
      /\ all(i)[u] = inventory[u][i] /\ now(i)[u] = w
      /\ \A v \in Units \ {u} : now(i)[v] = all(i)[v]
  BY <1>1
<1>3. \A j \in Items \ {i} : now(j) = all(j)
  BY <1>1
<1>4. \A j \in Items : /\ Owned(j) = shed[j] + SumFunctionOnSet(all(j), Units)
                       /\ Owned(j)' = shed'[j] + SumFunctionOnSet(now(j), Units)
  BY DEF Owned
<1>5. ASSUME NEW f, NEW g, \A v \in Units : f[v] \in Int /\ g[v] \in Int,
             \A v \in Units \ {u} : g[v] = f[v]
      PROVE  /\ SumFunctionOnSet(f, Units) \in Int
             /\ SumFunctionOnSet(g, Units) = SumFunctionOnSet(f, Units) + (g[u] - f[u])
  BY <1>5, UnitsFinite, SumType, SumShift
<1> HIDE DEF all, now
<1>6. /\ SumFunctionOnSet(all(i), Units) \in Int
      /\ SumFunctionOnSet(now(i), Units)
            = SumFunctionOnSet(all(i), Units) + (w - inventory[u][i])
  BY <1>2, <1>5
<1>7. inventory[u][i] \in Int /\ shed[i] \in Int
  OBVIOUS
<1> QED BY <1>1, <1>3, <1>4, <1>6, <1>7

\* What a transfer may do to what is owned.
Handled == \A i \in Items :
              /\ Owned(i)' <= Owned(i)
              /\ Owned(i)' < Owned(i) => shed_used' = ShedCapacity \/ field' # field

LEMMA OwnedIs ==
  ASSUME inventory \in [Units -> [Items -> Nat]], shed \in [Items -> Int], NEW i \in Items
  PROVE  Owned(i) \in Int
<1> DEFINE f == [v \in Units |-> inventory[v][i]]
<1>1. \A v \in Units : f[v] \in Int
  OBVIOUS
<1>2. Owned(i) = shed[i] + SumFunctionOnSet(f, Units)
  BY DEF Owned
<1> HIDE DEF f
<1>3. SumFunctionOnSet(f, Units) \in Int
  BY <1>1, UnitsFinite, SumType
<1> QED BY <1>2, <1>3

LEMMA NothingHandled ==
  ASSUME ShedOK, CarryOK, UNCHANGED <<shed, inventory>>
  PROVE  Handled
<1>1. \A i \in Items : Owned(i)' = Owned(i)
  BY DEF Owned
<1>2. \A i \in Items : Owned(i) \in Int
  BY OwnedIs DEF ShedOK, CarryOK
<1> QED BY <1>1, <1>2 DEF Handled

LEMMA StoredHandled ==
  ASSUME ShedOK, CarryOK, NEW u \in Units, NEW i \in Items, StoreItem(u, i)
  PROVE  Handled
<1> DEFINE n == inventory[u][i]
           moved == Lesser(n, ShedRoom)
<1>1. /\ inventory \in [Units -> [Items -> Nat]] /\ shed \in [Items -> Int] /\ n \in Nat
      /\ shed[i] \in Int /\ shed_used \in Int /\ ShedCapacity \in Int
  BY StoresAssumption DEF ShedOK, CarryOK
<1>2. ShedRoom \in Nat /\ shed_used + ShedRoom = ShedCapacity
  BY ShedRoomSound
<1>3. moved \in Nat /\ moved <= n /\ (moved < n => moved = ShedRoom)
  BY <1>1, <1>2 DEF Lesser
<1>4. /\ shed' = [shed EXCEPT ![i] = shed[i] + moved] /\ shed_used' = shed_used + moved
      /\ inventory' = [inventory EXCEPT ![u][i] = 0]
  BY DEF StoreItem, MoveToShed
<1>z. PICK z \in Nat : z = 0
  OBVIOUS
<1> DEFINE x == shed[i] + moved
<1>5. x \in Int /\ x - shed[i] = moved
  BY <1>1, <1>3
<1> HIDE DEF x, moved, n
<1>6. /\ Owned(i) \in Int /\ Owned(i)' = Owned(i) + (x - shed[i]) + (z - inventory[u][i])
      /\ \A j \in Items \ {i} : Owned(j)' = Owned(j)
  <2>1. inventory' = [inventory EXCEPT ![u][i] = z] /\ shed' = [shed EXCEPT ![i] = x]
    BY <1>4, <1>z DEF x
  <2> QED BY <1>1, <1>5, <2>1, OwnedMoves
<1>7. Owned(i)' = Owned(i) + moved - n
  BY <1>1, <1>3, <1>5, <1>6, <1>z DEF n
<1>8. /\ Owned(i)' <= Owned(i)
      /\ Owned(i)' < Owned(i) => shed_used' = ShedCapacity
  BY <1>1, <1>2, <1>3, <1>4, <1>6, <1>7
<1>9. \A j \in Items : Owned(j) \in Int
  BY <1>1, OwnedIs
<1> QED BY <1>6, <1>8, <1>9 DEF Handled

LEMMA PlacedHandled ==
  ASSUME ClockOK, FieldOK, ShedOK, CarryOK, Place
  PROVE  Handled
<1>a. next \in Units /\ order.target \in Items /\ order.n \in Nat
  BY ServingFacts, OrderFields DEF Place, Acts
<1>b. PICK i \in Items : i = order.target
  BY <1>a
<1>c. PICK u \in Units : u = next
  BY <1>a
<1> DEFINE n == inventory[u][i]
<1>0. u \in Units /\ i \in Items /\ order.n \in Nat
  BY <1>a
<1>1. /\ inventory \in [Units -> [Items -> Nat]] /\ shed \in [Items -> Int] /\ n \in Nat
      /\ shed[i] \in Int
  BY <1>0 DEF ShedOK, CarryOK
<1>9. \A j \in Items : Owned(j) \in Int
  BY <1>1, OwnedIs
<1>2. CASE Houses
  <2>1. /\ inventory' = [inventory EXCEPT ![u][i] = n - 1] /\ shed' = shed
        /\ Becomes(AnimalPlaced(tile, i)) /\ n > 0 /\ i \in Animals /\ Welcomes(tile, i)
    BY <1>0, <1>1, <1>2, <1>b, <1>c DEF Place, Spend, Houses, holds
  <2>2. field' # field
    <3>1. here \in Board /\ tile \in Tile
      BY HereSound, <1>0 DEF Place, Acts
    <3>2. AnimalPlaced(tile, i).animal = i /\ tile.animal = None /\ i # None
      BY <2>1, <3>1, FieldAssumption DEF AnimalPlaced, Welcomes, Tile
    <3>3. field'[here] = AnimalPlaced(tile, i) /\ field[here] = tile
      BY <2>1, <3>1 DEF Becomes, FieldOK, tile
    <3> QED BY <3>2, <3>3
  <2> DEFINE x == shed[i]
  <2>3. x \in Int /\ x - shed[i] = 0 /\ shed' = [shed EXCEPT ![i] = x] /\ n - 1 \in Nat
    BY <1>0, <1>1, <2>1
  <2>4. /\ Owned(i)' = Owned(i) + (x - shed[i]) + ((n - 1) - inventory[u][i])
        /\ \A j \in Items \ {i} : Owned(j)' = Owned(j)
    BY <1>0, <1>1, <2>1, <2>3, OwnedMoves
  <2>5. Owned(i)' = Owned(i) - 1
    BY <1>0, <1>1, <1>9, <2>3, <2>4
  <2> QED BY <1>0, <1>9, <2>2, <2>4, <2>5 DEF Handled
<1>3. CASE ~Houses
  <2> DEFINE moved == Lesser(Lesser(n, ShedRoom), order.n)
  <2>1. /\ MoveToShed(i, moved) /\ inventory' = [inventory EXCEPT ![u][i] = n - moved]
    BY <1>3, <1>b, <1>c DEF Place, Spend
  <2>2. ShedRoom \in Nat
    BY ShedRoomSound
  <2>3. moved \in Nat /\ moved <= n /\ Lesser(moved, ShedRoom) = moved
    BY <1>0, <1>1, <2>2 DEF Lesser
  <2> DEFINE x == shed[i] + moved
             w == n - moved
  <2>4. shed' = [shed EXCEPT ![i] = x]
    BY <2>1, <2>3 DEF MoveToShed
  <2>5. x \in Int /\ w \in Nat /\ x - shed[i] = moved /\ w - n = 0 - moved
    BY <1>1, <2>3
  <2> HIDE DEF x, w, moved
  <2>6. /\ Owned(i)' = Owned(i) + (x - shed[i]) + (w - inventory[u][i])
        /\ \A j \in Items \ {i} : Owned(j)' = Owned(j)
    BY <1>0, <1>1, <2>1, <2>4, <2>5, OwnedMoves DEF w
  <2>7. Owned(i)' = Owned(i)
    BY <1>0, <1>9, <2>3, <2>5, <2>6
  <2> QED BY <1>0, <1>9, <2>6, <2>7 DEF Handled
<1> QED BY <1>2, <1>3

LEMMA PickedHandled ==
  ASSUME ClockOK, ShedOK, CarryOK, PickUp
  PROVE  Handled
<1>a. next \in Units /\ order.target \in Items /\ order.n \in Nat
  BY ServingFacts, OrderFields DEF PickUp, Acts
<1>b. PICK i \in Items : i = order.target
  BY <1>a
<1>c. PICK u \in Units : u = next
  BY <1>a
<1> DEFINE n == inventory[u][i]
           moved == Lesser(order.n, shed[i])
           x == shed[i] - moved
           w == n + moved
<1>0. u \in Units /\ i \in Items /\ order.n \in Nat
  BY <1>a
<1>1. /\ inventory \in [Units -> [Items -> Nat]] /\ shed \in [Items -> Int] /\ n \in Nat
      /\ shed[i] \in Nat
  BY <1>0, StoresAssumption DEF ShedOK, CarryOK
<1>9. \A j \in Items : Owned(j) \in Int
  BY <1>1, OwnedIs
<1>2. moved \in Nat
  BY <1>0, <1>1 DEF Lesser
<1>3. shed' = [shed EXCEPT ![i] = x] /\ inventory' = [inventory EXCEPT ![u][i] = w]
  BY <1>b, <1>c DEF PickUp, MoveFromShed, Receive
<1> HIDE DEF moved
<1>4. x \in Int /\ w \in Nat /\ x - shed[i] = 0 - moved /\ w - n = moved
  BY <1>1, <1>2
<1> HIDE DEF x, w
<1>5. /\ Owned(i)' = Owned(i) + (x - shed[i]) + (w - inventory[u][i])
      /\ \A j \in Items \ {i} : Owned(j)' = Owned(j)
  BY <1>0, <1>1, <1>3, <1>4, OwnedMoves
<1>6. Owned(i)' = Owned(i)
  BY <1>0, <1>2, <1>4, <1>5, <1>9
<1> QED BY <1>0, <1>5, <1>6, <1>9 DEF Handled

HandleStep ==
  phase = "night" \/ Acts("DROP") \/ Acts("PLACE") \/ Acts("PICKUP") => Handled

LEMMA HandledStep ==
  ASSUME Inv, [Next]_vars
  PROVE  HandleStep
<1> USE DEF Inv
<1>1. CASE UNCHANGED <<shed, inventory>>
  BY <1>1, NothingHandled DEF HandleStep
<1>2. CASE StoreCarried
  <2>1. next \in Units
    BY <1>2, StoresAssumption DEF StoreCarried, AllStored, ClockOK, Units
  <2>2. CASE EmptyHanded(next)
    BY <1>1, <1>2, <2>2 DEF StoreCarried, stores
  <2>3. CASE ~EmptyHanded(next)
    BY <1>2, <2>1, <2>3, StoredHandled DEF StoreCarried, HandleStep
  <2> QED BY <2>2, <2>3
<1>3. CASE Drop
  <2>1. next \in Units
    BY <1>3, ServingFacts DEF Drop, Acts
  <2> QED BY <1>3, <2>1, StoredHandled DEF Drop, HandleStep
<1>4. CASE Place
  BY <1>4, PlacedHandled DEF HandleStep
<1>5. CASE PickUp
  BY <1>5, PickedHandled DEF HandleStep
<1>6. CASE Harvest \/ Feed \/ Fertilize \/ CollectFertilizer
  BY <1>6 DEF HandleStep, Harvest, Feed, Fertilize, CollectFertilizer, Acts, Serving
<1>7. CASE MarketServes
  <2>1. phase = "market"
    BY <1>7 DEF MarketServes, PassSlot, BuySeed, BuyGoods, Sell, Hire, BuyLand, Trades
  <2> QED BY <2>1 DEF HandleStep, Acts, Serving
<1>8. CASE Skip \/ Move \/ Plant \/ Water \/ Build \/ Care \/ Dig
  BY <1>1, <1>8 DEF Skip, Move, Plant, Water, Build, Care, Dig, stores
<1>9. CASE Submit \/ UnitsDone \/ EndTurn \/ Dusk \/ Dawn
  BY <1>1, <1>9 DEF Submit, Submitted, UnitsDone, EndTurn, Dusk, Dawn, stores
<1>10. CASE SubmitWhenDone \/ UNCHANGED vars
  BY <1>1, <1>10 DEF SubmitWhenDone, vars, stores
<1> QED BY <1>2, <1>3, <1>4, <1>5, <1>6, <1>7, <1>8, <1>9, <1>10 DEF Next, UnitActs

\* Handling goods neither makes nor loses any, save what a full shed has no place for, and an
\* order that the masks of the turn do not offer is idle, but for goods that came in the turn
\* (DROP, PLACE, PICKUP, the end of the day and write_action_masks).
THEOREM HandlingHolds == MaskedSpec => HandlingSound
<1>1. Inv /\ [Next]_vars => [HandleStep]_vars
  BY HandledStep
<1>2. Spec => [][HandleStep]_vars
  BY <1>1, InvInductive, PTL DEF Spec
<1>3. Spec => StorageConserves
  BY <1>2 DEF StorageConserves, HandleStep, Handled
<1> QED BY <1>3, MaskedIdle, MasksAlways, PTL DEF HandlingSound

-----------------------------------------------------------------------------
(* THE WIRE: what is observed is what stands there, and an order is taken for what it is. *)

\* No plant is older than the game.
Sprung == \A p \in Board : field[p].crop # None => field[p].age <= Today

LEMMA SprungStep == ASSUME ClockOK, FieldOK, LifeOK, Sprung, [Plays]_vars PROVE Sprung'
<1>0. /\ Today \in Nat /\ (phase # "night" => Today = day)
      /\ \A p \in Board : /\ field[p] \in Tile
                          /\ field[p].crop # None => field[p].age \in Int /\ field[p].age <= Today
  BY ClockFacts DEF FieldOK, Sprung, Tile
<1>1. SUFFICES ASSUME NEW p \in Board, field'[p].crop # None PROVE field'[p].age <= Today'
  BY DEF Sprung
<1> DEFINE t == field[p]
<1>t. /\ t \in Tile /\ t.age \in Int /\ t.crop \in Crops \cup {None} /\ t.yield \in Int
      /\ t.crop # None => t.age <= Today
  BY <1>0 DEF Tile
<1>2. CASE Idles
  BY <1>0, <1>1, <1>2 DEF Idles
<1>3. CASE Works
  <2>1. PICK s : Work(tile, s) /\ Becomes(s)
    BY <1>3 DEF Works
  <2>2. Today' = Today /\ here \in Board /\ field' = [field EXCEPT ![here] = s]
    BY <1>3, <2>1 DEF Works, Becomes
  <2>3. CASE p # here
    BY <1>0, <1>1, <2>2, <2>3 DEF FieldOK
  <2>4. CASE p = here
    <3>1. field'[p] = s /\ t = tile
      BY <2>2, <2>4 DEF FieldOK, tile
    <3>2. \/ \E c \in Crops : s = Planted(t, c, day)
          \/ s = CropWatered(t, day) \/ s = CropFertilized(t, day)
          \/ (t.crop # None /\ s = CropHarvested(t)) \/ s = Dug(t)
          \/ \E b \in Structures : s = Built(t, b)
          \/ \E a \in Animals : s = AnimalPlaced(t, a)
          \/ s = [t EXCEPT !.animal_yield = 0] \/ s = [t EXCEPT !.fed = TRUE]
          \/ s = [t EXCEPT !.cared = TRUE] \/ s = [t EXCEPT !.fertilizer = FALSE]
      BY <2>1, <3>1 DEF Work, Given, NotGiven, Planting, Watering, Fertilizing, Reaping, Digging,
                        Building, Housing, Gathering, Feeding, Caring, Mucking
    <3>3. s.crop # None => s.age = 0 \/ (s.age = t.age /\ t.crop # None)
      BY <3>2, <1>t DEF Tile, Planted, CropWatered, CropFertilized, CropHarvested, Uprooted, Dug,
                        Built, AnimalPlaced
    <3> QED BY <1>0, <1>1, <1>t, <2>2, <3>1, <3>3
  <2> QED BY <2>3, <2>4
<1>4. ASSUME NEW n \in Nat
      PROVE  LET s == Decayed(t, n)
             IN  /\ s \in Tile
                 /\ s.crop # None => s.age = t.age /\ t.crop # None
  <2>1. Decayed(t, n) \in Tile
    BY <1>t, DecayedSound
  <2>2. Decayed(t, n).crop # None => Decayed(t, n).age = t.age /\ t.crop # None
    BY <1>t DEF Decayed, Uprooted, Tile
  <2> QED BY <2>1, <2>2
<1>5. CASE Rots
  <2>1. step \in Nat /\ Today' = Today /\ field'[p] = Decayed(t, step)
    BY <1>5, ClockFacts DEF Rots
  <2> QED BY <1>1, <1>t, <1>4, <2>1
<1>6. CASE Grows
  <2> DEFINE s == Decayed(t, step)
  <2>1. /\ step \in Nat /\ Today' = Today + 1 /\ field'[p] = Overnight(s, day)
        /\ s \in Tile /\ (s.crop # None => s.age = t.age /\ t.crop # None)
    BY <1>4, <1>6, ClockFacts DEF Grows
  <2> HIDE DEF s
  <2>2. Overnight(s, day).crop # None
           => s.crop # None /\ Overnight(s, day).age = s.age + 1
    <3> DEFINE a == AnimalNight(s)
    <3>1. a.crop = s.crop /\ a.age = s.age /\ DOMAIN a = DOMAIN s
      BY <2>1 DEF AnimalNight, Tile
    <3>2. a.crop # None /\ Overnight(s, day).crop # None
             => Overnight(s, day).age = a.age + 1
      BY <2>1, <3>1 DEF Overnight, CropNight, Uprooted, Tile, AnimalNight
    <3>3. a.crop = None => Overnight(s, day).crop = None
      BY <2>1 DEF Overnight, CropNight, AnimalNight, Tile
    <3> QED BY <3>1, <3>2, <3>3
  <2> QED BY <1>0, <1>1, <1>t, <2>1, <2>2
<1>7. CASE Sprouts
  <2>1. PICK w \in SUBSET {q \in Board : Vacant(field[q])} :
           field' = [q \in Board |-> [field[q] EXCEPT !.weed = @ \/ q \in w]]
    BY <1>7 DEF Sprouts
  <2>2. field'[p] = [t EXCEPT !.weed = @ \/ p \in w] /\ Today' = Today
    BY <1>7, <2>1 DEF Sprouts
  <2> QED BY <1>1, <1>t, <2>2 DEF Tile
<1> QED BY <1>2, <1>3, <1>5, <1>6, <1>7, FieldSteps

\* The game is played to its last turn and no further; one of no turns is noticed too late.
OnTime ==
    /\ phase # "agent" => ~done
    /\ ~done => step = 0 \/ step + 1 < EpisodeSteps
    /\ step <= 1 \/ step < EpisodeSteps

LEMMA OnTimeStep == ASSUME ClockOK, LifeOK, OnTime, [Plays]_vars PROVE OnTime'
<1>0. /\ step \in Nat /\ EpisodeSteps \in Nat /\ day \in Nat /\ TurnsPerDay \in Nat
      /\ hour \in Nat /\ day * TurnsPerDay \in Nat
      /\ (day + 1) * TurnsPerDay = day * TurnsPerDay + TurnsPerDay
  BY ClockFacts, FarmAssumption DEF ClockOK
<1>1. CASE Submits \/ UnitsDone \/ StoreCarried \/ SubmitWhenDone \/ UNCHANGED vars
  <2>1. /\ UNCHANGED <<day, hour, done>>
        /\ phase' # "agent" => ~done
    BY <1>1 DEF Submits, Submitted, UnitsDone, StoreCarried, SubmitWhenDone, vars, turn, OnTime
  <2> QED BY <2>1 DEF OnTime, step
<1>2. CASE MarketServes
  <2>1. UNCHANGED <<day, hour, phase, done>>
    BY <1>2 DEF MarketServes, PassSlot, BuySeed, BuyGoods, Sell, Hire, BuyLand, Trades
  <2> QED BY <2>1 DEF OnTime, step
<1>3. CASE UnitActs
  <2>1. UNCHANGED <<day, hour, phase, done>>
    BY <1>3 DEF UnitActs, Skip, Move, Plant, Harvest, Feed, Water, Build, Fertilize, Care,
                CollectFertilizer, Dig, Place, PickUp, Drop, Served, Acts, Serving, turn
  <2> QED BY <2>1 DEF OnTime, step
<1>4. CASE Dusk
  <2>1. UNCHANGED <<day, hour, done>> /\ phase = "market"
    BY <1>4 DEF Dusk, Closing
  <2> QED BY <2>1 DEF OnTime, step
<1>5. CASE EndTurn \/ Dawn
  <2>1. phase # "agent" /\ phase' = "agent" /\ done' = Finished(step + 1)
    BY <1>5 DEF EndTurn, Dawn, Closing
  <2>2. step' = step + 1
    <3>1. CASE EndTurn
      BY <1>0, <3>1 DEF EndTurn, step
    <3>2. CASE Dawn
      <4>1. hour = TurnsPerDay - 1 /\ day' = day + 1 /\ hour' = 0
        BY <3>2 DEF Dawn, LifeOK
      <4>2. step' = (day + 1) * TurnsPerDay
        BY <1>0, <4>1 DEF step
      <4> QED BY <1>0, <4>1, <4>2 DEF step
    <3> QED BY <1>5, <3>1, <3>2
  <2>3. step = 0 \/ step + 1 < EpisodeSteps
    BY <2>1 DEF OnTime
  <2>4. done' <=> step' + 1 >= EpisodeSteps
    BY <2>1, <2>2 DEF Finished
  <2>5. step' \in Nat /\ (step' <= 1 \/ step' < EpisodeSteps)
    BY <1>0, <2>2, <2>3
  <2>6. ~done' => step' + 1 < EpisodeSteps
    <3>1. ~done' => ~(step' + 1 >= EpisodeSteps)
      BY <2>4, Zenon
    <3>a. EpisodeSteps \in Nat
      BY <1>0
    <3>2. ASSUME NEW n \in Nat PROVE ~(n + 1 >= EpisodeSteps) => n + 1 < EpisodeSteps
      BY <3>a
    <3> QED BY <2>5, <3>1, <3>2, Zenon
  <2> QED BY <2>1, <2>5, <2>6 DEF OnTime
<1> QED BY <1>1, <1>2, <1>3, <1>4, <1>5 DEF Plays

\* What the scales and the calendar of the wire need.
WireOK == Inv /\ LifeOK /\ Sprung /\ OnTime

LEMMA WireInductive == Spec => []WireOK
<1>1. Init => Sprung /\ OnTime
  <2>1. Init => step = 0 /\ ~done /\ phase = "agent"
    BY FieldAssumption DEF Init, step
  <2>2. Init => Sprung
    BY DEF Init, Sprung, BareTile
  <2> QED BY <2>1, <2>2 DEF OnTime
<1>2. Inv /\ LifeOK /\ Sprung /\ OnTime /\ [Next]_vars => Sprung' /\ OnTime'
  BY SprungStep, OnTimeStep, NextPlays DEF Inv
<1>3. Spec => [](Sprung /\ OnTime)
  BY <1>1, <1>2, LifeInductive, PTL DEF Spec
<1> QED BY <1>3, LifeInductive, PTL DEF WireOK

\* A name of a table is found by its number.
LEMMA NumberIs ==
  ASSUME NEW table, NEW n \in Nat, Lists(table, n), NEW kind, IsIn(table, kind)
  PROVE  Number(table, kind) \in 0..(n - 1) /\ table[Number(table, kind) + 1] = kind
<1>1. PICK k \in 1..n : table[k] = kind
  BY DEF Lists, IsIn
<1>2. k - 1 \in 0..(n - 1) /\ table[(k - 1) + 1] = kind
  BY <1>1
<1>3. Len(table) = n
  BY DEF Lists
<1> QED BY <1>2, <1>3 DEF Number

\* A slot that alone is set among size is the one that is found.
LEMMA FirstSetIs ==
  ASSUME NEW raw, NEW first \in Nat, NEW size \in Nat, NEW n \in 0..(size - 1),
         raw[first + n] = 1, \A i \in 0..(size - 1) : i # n => raw[first + i] = 0
  PROVE  FirstSet(raw, first, size) = n
<1> DEFINE Is(i) == raw[first + i] > 0 /\ \A j \in 0..(i - 1) : raw[first + j] = 0
<1>1. Is(n)
  <2>1. \A j \in 0..(n - 1) : j \in 0..(size - 1) /\ j # n
    OBVIOUS
  <2> QED BY <2>1
<1>2. ASSUME NEW i \in 0..(size - 1), Is(i) PROVE i = n
  BY <1>2
<1> QED BY <1>1, <1>2 DEF FirstSet

\* Where the clock of a day's first question stands.
LEMMA WithinScale ==
  ASSUME WireOK, phase = "agent"
  PROVE  day <= SeasonDays
<1>1. /\ step \in Nat /\ day \in Nat /\ TurnsPerDay \in Nat /\ TurnsPerDay >= 1 /\ hour \in Nat
      /\ SeasonDays \in Nat /\ SeasonDays >= 1 /\ EpisodeSteps \in Nat
      /\ EpisodeSteps <= SeasonDays * TurnsPerDay
  BY ClockFacts, FarmAssumption, WireAssumption DEF WireOK, Inv, ClockOK
<1>2. step <= 1 \/ step < EpisodeSteps
  BY DEF WireOK, OnTime
<1>3. day * TurnsPerDay <= step /\ day * TurnsPerDay \in Nat
  BY <1>1 DEF step
<1>4. SUFFICES ASSUME SeasonDays + 1 <= day PROVE FALSE
  BY <1>1
<1>5. (SeasonDays + 1) * TurnsPerDay <= day * TurnsPerDay
  BY <1>1, <1>4, Monotone
<1>6. /\ (SeasonDays + 1) * TurnsPerDay = SeasonDays * TurnsPerDay + TurnsPerDay
      /\ SeasonDays * TurnsPerDay \in Nat /\ 1 * TurnsPerDay <= SeasonDays * TurnsPerDay
  BY <1>1, Monotone
<1> QED BY <1>1, <1>2, <1>3, <1>5, <1>6

\* The numbers of a plant.
LEMMA CropSlotsAre ==
  ASSUME NEW t, NEW now, Number(CropTable, t.crop) \in 0..4
  PROVE  LET raw == CropSlots(t, now)
             n == Number(CropTable, t.crop)
         IN  /\ DOMAIN raw = Slots
             /\ raw[2] = 1 /\ raw[7 + n] = 1
             /\ \A i \in 0..4 : i # n => raw[7 + i] = 0
             /\ raw[14] = AtMost(t.age, SeasonDays) /\ raw[15] = t.yield
             /\ raw[16] = LifespanStep(t, now) /\ raw[17] = Flag(t.watered)
             /\ raw[18] = t.unwatered /\ raw[19] = t.fertilized_until
<1> DEFINE n == Number(CropTable, t.crop)
           raw == CropSlots(t, now)
<1>1. n \in 0..4 /\ 7 + n \in 7..11 /\ 7 + n \in Slots
  BY DEF Slots
<1> HIDE DEF n
<1>2. raw = [i \in Slots |->
        CASE i \in {2, 6, 7 + n} -> 1
          [] i = 14 -> AtMost(t.age, SeasonDays)
          [] i = 15 -> t.yield
          [] i = 16 -> LifespanStep(t, now)
          [] i = 17 -> Flag(t.watered)
          [] i = 18 -> t.unwatered
          [] i = 19 -> t.fertilized_until
          [] OTHER -> 0]
  BY DEF CropSlots, n
<1> HIDE DEF raw
<1>3. DOMAIN raw = Slots
  BY <1>2
<1>4. {2, 14, 15, 16, 17, 18, 19} \subseteq Slots
  BY DEF Slots
<1>5. raw[2] = 1 /\ raw[7 + n] = 1
  BY <1>1, <1>2, <1>4
<1>6. /\ raw[14] = AtMost(t.age, SeasonDays) /\ raw[15] = t.yield
      /\ raw[16] = LifespanStep(t, now) /\ raw[17] = Flag(t.watered)
      /\ raw[18] = t.unwatered /\ raw[19] = t.fertilized_until
  BY <1>1, <1>2, <1>4
<1>7. ASSUME NEW i \in 0..4, i # n PROVE raw[7 + i] = 0
  <2>1. /\ 7 + i \in Slots /\ 7 + i \notin {2, 6, 7 + n}
        /\ 7 + i # 14 /\ 7 + i # 15 /\ 7 + i # 16 /\ 7 + i # 17 /\ 7 + i # 18 /\ 7 + i # 19
    BY <1>1, <1>7 DEF Slots
  <2> QED BY <1>2, <2>1
<1> QED BY <1>3, <1>5, <1>6, <1>7 DEF raw, n

\* The numbers of an animal.
LEMMA AnimalSlotsAre ==
  ASSUME NEW t, Number(AnimalTable, t.animal) \in 0..2
  PROVE  LET raw == AnimalSlots(t)
             n == Number(AnimalTable, t.animal)
         IN  /\ DOMAIN raw = Slots
             /\ raw[2] = 0 /\ raw[3] = 0 /\ raw[4] = 0 /\ raw[5] = 0 /\ raw[11] = 1
             /\ raw[12 + n] = 1
             /\ \A i \in 0..2 : i # n => raw[12 + i] = 0
             /\ raw[15] = AtMost(t.animal_yield, MaxQuantity) /\ raw[20] = t.animal_age
             /\ raw[21] = Flag(t.fed) /\ raw[22] = t.unfed /\ raw[23] = Flag(t.cared)
             /\ raw[24] = Flag(t.fertilizer)
             /\ raw[25] = AtMost(t.pending_care, MaxQuantity)
<1> DEFINE n == Number(AnimalTable, t.animal)
           raw == AnimalSlots(t)
<1>1. n \in 0..2 /\ 12 + n \in 12..14 /\ 12 + n \in Slots
  BY DEF Slots
<1> HIDE DEF n
<1>2. raw = [i \in Slots |->
        CASE i \in {11, 12 + n} -> 1
          [] i = 15 -> AtMost(t.animal_yield, MaxQuantity)
          [] i = 20 -> t.animal_age
          [] i = 21 -> Flag(t.fed)
          [] i = 22 -> t.unfed
          [] i = 23 -> Flag(t.cared)
          [] i = 24 -> Flag(t.fertilizer)
          [] i = 25 -> AtMost(t.pending_care, MaxQuantity)
          [] OTHER -> 0]
  BY DEF AnimalSlots, n
<1> HIDE DEF raw
<1>3. DOMAIN raw = Slots
  BY <1>2
<1>4. {2, 3, 4, 5, 11, 15, 20, 21, 22, 23, 24, 25} \subseteq Slots
  BY DEF Slots
<1>5. raw[11] = 1 /\ raw[12 + n] = 1 /\ raw[2] = 0 /\ raw[3] = 0 /\ raw[4] = 0 /\ raw[5] = 0
  BY <1>1, <1>2, <1>4
<1>6. /\ raw[15] = AtMost(t.animal_yield, MaxQuantity) /\ raw[20] = t.animal_age
      /\ raw[21] = Flag(t.fed) /\ raw[22] = t.unfed /\ raw[23] = Flag(t.cared)
      /\ raw[24] = Flag(t.fertilizer) /\ raw[25] = AtMost(t.pending_care, MaxQuantity)
  BY <1>1, <1>2, <1>4
<1>7. ASSUME NEW i \in 0..2, i # n PROVE raw[12 + i] = 0
  <2>1. /\ 12 + i \in Slots /\ 12 + i \notin {11, 12 + n}
        /\ 12 + i # 15 /\ 12 + i # 20 /\ 12 + i # 21 /\ 12 + i # 22 /\ 12 + i # 23
        /\ 12 + i # 24 /\ 12 + i # 25
    BY <1>1, <1>7 DEF Slots
  <2> QED BY <1>2, <2>1
<1> QED BY <1>3, <1>5, <1>6, <1>7 DEF raw, n

LEMMA ZeroSlots == DOMAIN Zeros = Slots /\ \A i \in 0..25 : i \in Slots /\ Zeros[i] = 0
BY DEF Zeros, Slots

\* What is seen of a tile in each of its uses.
LEMMA LockedSeen ==
  ASSUME NEW t, t.weed = FALSE, t.crop = None, t.structure = None, NEW now
  PROVE  Decoded(ObservedTile(t, FALSE, now, "COOP"), "COOP", "PASTURE") = BareTile
<1> DEFINE raw == ObservedTile(t, FALSE, now, "COOP")
<1>1. raw = [[Zeros EXCEPT ![0] = 0] EXCEPT ![1] = 1]
  BY DEF ObservedTile, Flag
<1> HIDE DEF raw
<1>2. raw[1] = 1
  BY <1>1, ZeroSlots
<1>3. Decoded(raw, "COOP", "PASTURE") = BareTile
  BY <1>2 DEF Decoded
<1> QED BY <1>3 DEF raw

LEMMA WeedSeen ==
  ASSUME NEW t, t.weed = TRUE, NEW now
  PROVE  Decoded(ObservedTile(t, TRUE, now, "COOP"), "COOP", "PASTURE")
            = [BareTile EXCEPT !.weed = TRUE]
<1> DEFINE raw == ObservedTile(t, TRUE, now, "COOP")
<1>1. raw = [[Zeros EXCEPT ![3] = 1] EXCEPT ![1] = 0]
  BY DEF ObservedTile, Flag
<1> HIDE DEF raw
<1>2. raw[1] = 0 /\ raw[2] = 0 /\ raw[3] = 1
  BY <1>1, ZeroSlots
<1>3. Decoded(raw, "COOP", "PASTURE") = [BareTile EXCEPT !.weed = TRUE]
  BY <1>2 DEF Decoded
<1> QED BY <1>3 DEF raw

LEMMA BareSeen ==
  ASSUME NEW t, t.weed = FALSE, t.crop = None, t.structure = None, NEW now
  PROVE  Decoded(ObservedTile(t, TRUE, now, "COOP"), "COOP", "PASTURE") = BareTile
<1> DEFINE raw == ObservedTile(t, TRUE, now, "COOP")
<1>1. raw = [[Zeros EXCEPT ![0] = 1] EXCEPT ![1] = 0]
  BY DEF ObservedTile, Flag
<1> HIDE DEF raw
<1>2. raw[1] = 0 /\ raw[2] = 0 /\ raw[3] = 0 /\ raw[4] = 0 /\ raw[5] = 0
  BY <1>1, ZeroSlots
<1>3. Decoded(raw, "COOP", "PASTURE") = BareTile
  BY <1>2 DEF Decoded
<1> QED BY <1>3 DEF raw

LEMMA PlantSeen ==
  ASSUME NEW t, t.weed = FALSE, t.crop # None, IsIn(CropTable, t.crop), NEW now
  PROVE  Decoded(ObservedTile(t, TRUE, now, "COOP"), "COOP", "PASTURE")
            = [BareTile EXCEPT !.crop = t.crop, !.age = AtMost(t.age, SeasonDays),
                               !.decay_step = LifespanStep(t, now), !.yield = t.yield,
                               !.watered = Flag(t.watered) > 0, !.unwatered = t.unwatered,
                               !.fertilized_until = t.fertilized_until]
<1> DEFINE raw == ObservedTile(t, TRUE, now, "COOP")
           crop == CropSlots(t, now)
           n == Number(CropTable, t.crop)
<1>1. n \in 0..4 /\ CropTable[n + 1] = t.crop
  BY NumberIs, WireAssumption
<1>2. raw = [crop EXCEPT ![1] = 0]
  BY DEF ObservedTile, Flag
<1>3. /\ DOMAIN crop = Slots /\ crop[2] = 1 /\ crop[7 + n] = 1
      /\ \A i \in 0..4 : i # n => crop[7 + i] = 0
      /\ crop[14] = AtMost(t.age, SeasonDays) /\ crop[15] = t.yield
      /\ crop[16] = LifespanStep(t, now) /\ crop[17] = Flag(t.watered)
      /\ crop[18] = t.unwatered /\ crop[19] = t.fertilized_until
  BY <1>1, CropSlotsAre
<1> HIDE DEF raw, crop, n
<1>4. /\ DOMAIN raw = Slots /\ raw[1] = 0 /\ \A i \in 2..25 : raw[i] = crop[i]
      /\ \A i \in 0..4 : 7 + i \in 2..25
  BY <1>2, <1>3 DEF Slots
<1>5. raw[7 + n] = 1 /\ \A i \in 0..4 : i # n => raw[7 + i] = 0
  BY <1>1, <1>3, <1>4
<1>6. FirstSet(raw, 7, 5) = n
  <2>1. /\ 7 \in Nat /\ 5 \in Nat /\ n \in 0..(5 - 1)
        /\ \A i \in 0..(5 - 1) : i # n => raw[7 + i] = 0
    BY <1>1, <1>5
  <2> QED BY <1>5, <2>1, FirstSetIs
<1>7. /\ raw[2] = 1 /\ raw[14] = AtMost(t.age, SeasonDays) /\ raw[15] = t.yield
      /\ raw[16] = LifespanStep(t, now) /\ raw[17] = Flag(t.watered)
      /\ raw[18] = t.unwatered /\ raw[19] = t.fertilized_until
  BY <1>3, <1>4
<1>8. Decoded(raw, "COOP", "PASTURE") =
           [BareTile EXCEPT !.crop = CropTable[FirstSet(raw, 7, 5) + 1], !.age = raw[14],
                            !.decay_step = raw[16], !.yield = raw[15],
                            !.watered = raw[17] > 0, !.unwatered = raw[18],
                            !.fertilized_until = raw[19]]
  BY <1>4, <1>7 DEF Decoded
<1> QED BY <1>1, <1>6, <1>7, <1>8 DEF raw

LEMMA HousedSeen ==
  ASSUME NEW t, t.weed = FALSE, t.crop = None, t.structure \in {"COOP", "PASTURE"},
         t.structure # None, t.animal = None, NEW now
  PROVE  Decoded(ObservedTile(t, TRUE, now, "COOP"), "COOP", "PASTURE")
            = [BareTile EXCEPT !.structure = t.structure]
<1> DEFINE raw == ObservedTile(t, TRUE, now, "COOP")
           k == IF t.structure = "COOP" THEN 4 ELSE 5
<1>1. raw = [[Zeros EXCEPT ![k] = 1] EXCEPT ![1] = 0]
  BY DEF ObservedTile, Flag
<1> HIDE DEF raw
<1>2. /\ raw[1] = 0 /\ raw[2] = 0 /\ raw[3] = 0 /\ raw[11] = 0
      /\ raw[4] = (IF t.structure = "COOP" THEN 1 ELSE 0)
      /\ raw[5] = (IF t.structure = "COOP" THEN 0 ELSE 1)
  BY <1>1, ZeroSlots
<1>3. (IF raw[4] > 0 THEN "COOP" ELSE "PASTURE") = t.structure /\ (raw[4] > 0 \/ raw[5] > 0)
  BY <1>2
<1>4. Decoded(raw, "COOP", "PASTURE")
        = [BareTile EXCEPT !.structure = IF raw[4] > 0 THEN "COOP" ELSE "PASTURE"]
  BY <1>2, <1>3 DEF Decoded
<1> QED BY <1>3, <1>4 DEF raw

LEMMA AnimalSeen ==
  ASSUME NEW t, t.weed = FALSE, t.crop = None, t.structure \in {"COOP", "PASTURE"},
         t.structure # None, t.animal # None, IsIn(AnimalTable, t.animal), NEW now
  PROVE  Decoded(ObservedTile(t, TRUE, now, "COOP"), "COOP", "PASTURE")
            = [BareTile EXCEPT !.structure = t.structure, !.animal = t.animal,
                               !.animal_yield = AtMost(t.animal_yield, MaxQuantity),
                               !.animal_age = t.animal_age,
                               !.fed = Flag(t.fed) > 0, !.unfed = t.unfed,
                               !.cared = Flag(t.cared) > 0,
                               !.fertilizer = Flag(t.fertilizer) > 0,
                               !.pending_care = AtMost(t.pending_care, MaxQuantity)]
<1> DEFINE raw == ObservedTile(t, TRUE, now, "COOP")
           k == IF t.structure = "COOP" THEN 4 ELSE 5
           animal == AnimalSlots(t)
           n == Number(AnimalTable, t.animal)
<1>1. n \in 0..2 /\ AnimalTable[n + 1] = t.animal
  BY NumberIs, WireAssumption
<1>2. raw = [[animal EXCEPT ![k] = 1] EXCEPT ![1] = 0]
  BY DEF ObservedTile, Flag
<1>3. /\ DOMAIN animal = Slots
      /\ animal[2] = 0 /\ animal[3] = 0 /\ animal[4] = 0 /\ animal[5] = 0 /\ animal[11] = 1
      /\ animal[12 + n] = 1
      /\ \A i \in 0..2 : i # n => animal[12 + i] = 0
      /\ animal[15] = AtMost(t.animal_yield, MaxQuantity) /\ animal[20] = t.animal_age
      /\ animal[21] = Flag(t.fed) /\ animal[22] = t.unfed /\ animal[23] = Flag(t.cared)
      /\ animal[24] = Flag(t.fertilizer)
      /\ animal[25] = AtMost(t.pending_care, MaxQuantity)
  BY <1>1, AnimalSlotsAre
<1> HIDE DEF raw, animal, n
<1>4. /\ raw[1] = 0 /\ \A i \in {2, 3} \cup 6..25 : raw[i] = animal[i]
      /\ raw[4] = (IF t.structure = "COOP" THEN 1 ELSE 0)
      /\ raw[5] = (IF t.structure = "COOP" THEN 0 ELSE 1)
      /\ \A i \in 0..2 : 12 + i \in 6..25
  BY <1>2, <1>3 DEF Slots
<1>5. /\ raw[12 + n] = 1 /\ 12 \in Nat /\ 3 \in Nat /\ n \in 0..(3 - 1)
      /\ \A i \in 0..(3 - 1) : i # n => raw[12 + i] = 0
  BY <1>1, <1>3, <1>4
<1>6. FirstSet(raw, 12, 3) = n
  BY <1>5, FirstSetIs
<1>7. /\ raw[2] = 0 /\ raw[3] = 0 /\ raw[11] = 1
      /\ raw[15] = AtMost(t.animal_yield, MaxQuantity) /\ raw[20] = t.animal_age
      /\ raw[21] = Flag(t.fed) /\ raw[22] = t.unfed /\ raw[23] = Flag(t.cared)
      /\ raw[24] = Flag(t.fertilizer)
      /\ raw[25] = AtMost(t.pending_care, MaxQuantity)
  BY <1>3, <1>4
<1>8. (IF raw[4] > 0 THEN "COOP" ELSE "PASTURE") = t.structure /\ (raw[4] > 0 \/ raw[5] > 0)
  BY <1>4
<1> DEFINE housed == [BareTile EXCEPT !.structure = IF raw[4] > 0 THEN "COOP" ELSE "PASTURE"]
<1>9. Decoded(raw, "COOP", "PASTURE")
        = [housed EXCEPT !.animal = AnimalTable[FirstSet(raw, 12, 3) + 1],
                         !.animal_yield = raw[15], !.animal_age = raw[20],
                         !.fed = raw[21] > 0, !.unfed = raw[22],
                         !.cared = raw[23] > 0, !.fertilizer = raw[24] > 0,
                         !.pending_care = raw[25]]
  BY <1>4, <1>7, <1>8 DEF Decoded
<1>10. housed = [BareTile EXCEPT !.structure = t.structure]
  BY <1>8
<1> HIDE DEF housed
<1> QED BY <1>1, <1>6, <1>7, <1>9, <1>10 DEF raw

\* A flag comes back as it was.
LEMMA FlagIs == ASSUME NEW b \in BOOLEAN PROVE (Flag(b) > 0) = b
BY DEF Flag

LEMMA CareFits ==
  ASSUME WireOK, NEW p \in Board, field[p].animal # None
  PROVE  field[p].animal_yield <= MaxQuantity /\ field[p].pending_care <= MaxQuantity
<1> DEFINE t == field[p]
           first == AnimalFirstDay[t.animal]
           interval == AnimalInterval[t.animal]
<1>1. t \in Tile /\ AnimalSound(t)
  BY DEF WireOK, Inv, FieldOK, LifeOK
<1>2. /\ t.animal \in Animals /\ t.animal_age \in Nat /\ t.animal_yield \in Nat
      /\ t.pending_care \in Nat
      /\ first \in Nat /\ interval \in Nat /\ interval > 0 /\ MaxHeld[t.animal] \in Nat
      /\ MaxQuantity \in Nat
  BY <1>1, FieldAssumption, WireAssumption DEF Tile
<1>3. MaxHeld[t.animal] <= MaxQuantity /\ first <= MaxQuantity /\ interval <= MaxQuantity
  BY <1>2, WireAssumption
<1>4. t.animal_yield <= MaxHeld[t.animal]
  BY <1>1 DEF AnimalSound, Nourished
<1>5. t.pending_care <= IF t.animal_age < first THEN t.animal_age
                        ELSE ((t.animal_age - first) % interval) + 1
  BY <1>1 DEF AnimalSound, CareRecent
<1> HIDE DEF t, first, interval
<1>6. (t.animal_age - first) % interval \in 0..(interval - 1)
  <2> DEFINE n == t.animal_age - first
  <2>1. n \in Int /\ interval \in Int /\ interval > 0
    BY <1>2
  <2> HIDE DEF n
  <2>2. n % interval \in 0..(interval - 1)
    BY <2>1, Remainder
  <2> QED BY <2>2 DEF n
<1>7. t.animal_yield <= MaxQuantity /\ t.pending_care <= MaxQuantity
  BY <1>2, <1>3, <1>4, <1>5, <1>6
<1> QED BY <1>7 DEF t

\* A crop's time comes when the game says so, whatever the observation tells before it.
LEMMA LifespanTold ==
  ASSUME NEW t \in Tile, t.crop # None, NEW now \in Nat, NEW planted \in Nat,
         t.decay_step = DecayStep(t.crop, planted)
  PROVE  LifespanStep(t, now) >= 0 /\ now >= LifespanStep(t, now) <=> t.decay_step \in 0..now
<1> DEFINE d == t.decay_step
           s == LifespanStep(t, now)
<1>1. TurnsPerDay \in Nat /\ TurnsPerDay > 0 /\ t.crop \in Crops
  BY FieldAssumption DEF Tile
<1>2. d \in Nat
  <2>1. ProductionDays(t.crop) \in Nat
    BY <1>1, ProductionDaysSound
  <2>2. planted + ProductionDays(t.crop) + 1 \in Nat
    BY <2>1
  <2> QED BY <1>1, <2>2 DEF DecayStep
<1>3. /\ s = -1 \/ s = d
      /\ s = -1 => now \div TurnsPerDay < d \div TurnsPerDay - 1
  BY <1>2 DEF LifespanStep
<1> HIDE DEF d, s
<1>4. now \div TurnsPerDay < d \div TurnsPerDay - 1 => now < d
  <2> DEFINE q == now \div TurnsPerDay
             r == d \div TurnsPerDay
  <2>1. /\ q \in Int /\ now % TurnsPerDay = now - TurnsPerDay * q
        /\ now % TurnsPerDay \in 0..(TurnsPerDay - 1)
        /\ r \in Int /\ d % TurnsPerDay = d - TurnsPerDay * r
        /\ d % TurnsPerDay \in 0..(TurnsPerDay - 1)
    BY <1>1, <1>2, Remainder
  <2> HIDE DEF q, r
  <2>2. SUFFICES ASSUME q < r - 1 PROVE now < d
    BY DEF q, r
  <2>3. (q + 1) * TurnsPerDay <= r * TurnsPerDay
    BY <1>1, <2>1, <2>2, Monotone
  <2>4. /\ (q + 1) * TurnsPerDay = TurnsPerDay * q + TurnsPerDay
        /\ r * TurnsPerDay = TurnsPerDay * r
        /\ TurnsPerDay * q \in Int /\ TurnsPerDay * r \in Int
    BY <1>1, <2>1
  <2>5. now < TurnsPerDay * q + TurnsPerDay /\ TurnsPerDay * r <= d
    BY <1>1, <1>2, <2>1, <2>4
  <2> QED BY <1>1, <1>2, <2>3, <2>4, <2>5
<1>5. s >= 0 /\ now >= s <=> d \in 0..now
  BY <1>2, <1>3, <1>4
<1> QED BY <1>5 DEF d, s

LEMMA SightIs ==
  ASSUME WireOK, phase = "agent", NEW p \in Board
  PROVE  TileFaithful(p)
<1> DEFINE t == field[p]
           seen == Sight(p)
           u == unlocked[Quadrant(p)]
           look == Decoded(ObservedTile(t, u, step, "COOP"), "COOP", "PASTURE")
<1>1. /\ t \in Tile /\ OneUse(t) /\ u \in BOOLEAN /\ (~u => Vacant(t))
      /\ step \in Nat /\ Today = day /\ day \in Nat
      /\ t.crop # None => /\ t.age \in Nat /\ t.age <= day
                          /\ t.decay_step = DecayStep(t.crop, day - t.age)
  <2>1. Inv /\ LifeOK /\ Sprung
    BY DEF WireOK
  <2>2. /\ t \in Tile /\ OneUse(t) /\ u \in BOOLEAN /\ (~u => Vacant(t))
    BY <2>1, BoardFacts DEF Inv, FieldOK, ClockOK, TilesOneUse, LockedLandBare
  <2>3. step \in Nat /\ Today = day /\ day \in Nat
    BY <2>1, ClockFacts DEF Inv
  <2>4. t.crop # None => /\ t.age >= 0 /\ t.age <= day
                         /\ t.decay_step = DecayStep(t.crop, day - t.age)
    BY <2>1, <2>3 DEF LifeOK, CropSound, Calendar, Sprung
  <2> QED BY <2>2, <2>3, <2>4 DEF Tile
<1>2. /\ t.weed \in BOOLEAN /\ t.fed \in BOOLEAN /\ t.cared \in BOOLEAN
      /\ t.fertilizer \in BOOLEAN /\ t.watered \in BOOLEAN
      /\ t.crop \in Crops \cup {None} /\ t.structure \in Structures \cup {None}
      /\ t.animal \in Animals \cup {None} /\ t.animal_yield \in Nat /\ t.pending_care \in Nat
  BY <1>1 DEF Tile
<1>3. /\ t.structure # None => t.structure \in {"COOP", "PASTURE"}
      /\ t.crop # None => IsIn(CropTable, t.crop)
      /\ t.animal # None => IsIn(AnimalTable, t.animal) /\ t.structure # None
  <2>1. t.structure # None => t.structure \in {"COOP", "PASTURE"}
    BY <1>2, WireAssumption
  <2>2. t.crop # None => IsIn(CropTable, t.crop)
    BY <1>2, WireAssumption
  <2>3. t.animal # None => t.animal \in Animals /\ t.structure = StructureOf[t.animal]
    BY <1>1, <1>2 DEF OneUse
  <2>4. \A a \in Animals : IsIn(AnimalTable, a) /\ StructureOf[a] # None
    BY WireAssumption, FieldAssumption
  <2> QED BY <2>1, <2>2, <2>3, <2>4
<1>4. day <= SeasonDays /\ SeasonDays \in Nat /\ MaxQuantity \in Nat
  BY WithinScale, WireAssumption
<1>5. t.crop # None => ~t.weed /\ t.structure = None /\ t.animal = None
  BY <1>1, <1>3 DEF OneUse
<1>6. t.weed => t.structure = None /\ t.animal = None
  BY <1>1, <1>3 DEF OneUse
<1>7. seen = look
  BY DEF Sight
<1> DEFINE Same(F) == \A f \in F : seen[f] = t[f]
           Shown == {"crop", "weed", "structure", "animal"}
           OfCrop == {"age", "yield", "watered", "unwatered", "fertilized_until"}
           OfAnimal == {"animal_yield", "animal_age", "fed", "unfed", "cared", "fertilizer",
                        "pending_care"}
           Told == DerivePlant(seen, day, step).past_lifespan <=> t.decay_step \in 0..step
<1>8. SUFFICES /\ Same(Shown) /\ (t.crop # None => Same(OfCrop) /\ Told)
               /\ (t.animal # None => Same(OfAnimal))
  BY DEF TileFaithful
<1> HIDE DEF t, u, seen
<1>9. CASE ~u
  <2>1. seen = BareTile
    <3>1. u = FALSE /\ t.weed = FALSE /\ t.crop = None /\ t.structure = None
      BY <1>1, <1>2, <1>9 DEF Vacant
    <3>2. Decoded(ObservedTile(t, FALSE, step, "COOP"), "COOP", "PASTURE") = BareTile
      BY <3>1, LockedSeen
    <3> QED BY <1>7, <3>1, <3>2
  <2>2. t.crop = None /\ t.weed = FALSE /\ t.structure = None /\ t.animal = None
    BY <1>1, <1>2, <1>3, <1>9 DEF Vacant
  <2>3. seen.crop = None /\ seen.weed = FALSE /\ seen.structure = None /\ seen.animal = None
    BY <2>1 DEF BareTile
  <2> QED BY <2>2, <2>3
<1>10. CASE u /\ t.weed
  <2>1. seen = [BareTile EXCEPT !.weed = TRUE]
    <3>1. u = TRUE /\ t.weed = TRUE
      BY <1>1, <1>2, <1>10
    <3> QED BY <1>7, <3>1, WeedSeen
  <2>2. t.crop = None /\ t.weed = TRUE /\ t.structure = None /\ t.animal = None
    BY <1>2, <1>5, <1>6, <1>10
  <2>3. seen.crop = None /\ seen.weed = TRUE /\ seen.structure = None /\ seen.animal = None
    BY <2>1 DEF BareTile
  <2> QED BY <2>2, <2>3
<1>11. CASE u /\ t.crop # None
  <2>1. t.weed = FALSE /\ t.structure = None /\ t.animal = None /\ u = TRUE
    BY <1>1, <1>2, <1>5, <1>11
  <2>2. seen = [BareTile EXCEPT !.crop = t.crop, !.age = AtMost(t.age, SeasonDays),
                                !.decay_step = LifespanStep(t, step), !.yield = t.yield,
                                !.watered = Flag(t.watered) > 0, !.unwatered = t.unwatered,
                                !.fertilized_until = t.fertilized_until]
    BY <1>3, <1>7, <1>11, <2>1, PlantSeen
  <2>3. AtMost(t.age, SeasonDays) = t.age /\ (Flag(t.watered) > 0) = t.watered
    BY <1>1, <1>2, <1>4, <1>11, FlagIs DEF AtMost
  <2>4. /\ seen.crop = t.crop /\ seen.weed = FALSE /\ seen.structure = None
        /\ seen.animal = None /\ seen.age = t.age /\ seen.yield = t.yield
        /\ seen.watered = t.watered /\ seen.unwatered = t.unwatered
        /\ seen.fertilized_until = t.fertilized_until
        /\ seen.decay_step = LifespanStep(t, step)
    BY <2>2, <2>3 DEF BareTile
  <2>5. Told
    <3>1. DerivePlant(seen, day, step).past_lifespan
             = (LifespanStep(t, step) >= 0 /\ step >= LifespanStep(t, step))
      BY <2>4 DEF DerivePlant
    <3>2. day - t.age \in Nat
      BY <1>1, <1>11
    <3>3. LifespanStep(t, step) >= 0 /\ step >= LifespanStep(t, step)
            <=> t.decay_step \in 0..step
      BY <1>1, <1>11, <3>2, LifespanTold
    <3> QED BY <3>1, <3>3
  <2> QED BY <2>1, <2>4, <2>5
<1>12. CASE u /\ ~t.weed /\ t.crop = None /\ t.structure # None
  <2>1. u = TRUE /\ t.weed = FALSE
    BY <1>1, <1>2, <1>12
  <2>2. CASE t.animal = None
    <3>1. seen = [BareTile EXCEPT !.structure = t.structure]
      BY <1>3, <1>7, <1>12, <2>1, <2>2, HousedSeen
    <3>2. /\ seen.crop = None /\ seen.weed = FALSE /\ seen.structure = t.structure
          /\ seen.animal = None
      BY <3>1 DEF BareTile
    <3> QED BY <1>12, <2>1, <2>2, <3>2
  <2>3. CASE t.animal # None
    <3>1. seen = [BareTile EXCEPT !.structure = t.structure, !.animal = t.animal,
                               !.animal_yield = AtMost(t.animal_yield, MaxQuantity),
                               !.animal_age = t.animal_age,
                               !.fed = Flag(t.fed) > 0, !.unfed = t.unfed,
                               !.cared = Flag(t.cared) > 0,
                               !.fertilizer = Flag(t.fertilizer) > 0,
                               !.pending_care = AtMost(t.pending_care, MaxQuantity)]
      BY <1>3, <1>7, <1>12, <2>1, <2>3, AnimalSeen
    <3>2. t.animal_yield <= MaxQuantity /\ t.pending_care <= MaxQuantity
      BY <2>3, CareFits DEF t
    <3>3. /\ AtMost(t.animal_yield, MaxQuantity) = t.animal_yield
          /\ AtMost(t.pending_care, MaxQuantity) = t.pending_care
      BY <1>2, <1>4, <3>2 DEF AtMost
    <3>4. /\ (Flag(t.fed) > 0) = t.fed /\ (Flag(t.cared) > 0) = t.cared
          /\ (Flag(t.fertilizer) > 0) = t.fertilizer
      BY <1>2, FlagIs
    <3>5. /\ seen.crop = None /\ seen.weed = FALSE /\ seen.structure = t.structure
          /\ seen.animal = t.animal /\ seen.animal_yield = t.animal_yield
          /\ seen.animal_age = t.animal_age /\ seen.fed = t.fed /\ seen.unfed = t.unfed
          /\ seen.cared = t.cared /\ seen.fertilizer = t.fertilizer
          /\ seen.pending_care = t.pending_care
      BY <3>1, <3>3, <3>4 DEF BareTile
    <3> QED BY <1>12, <2>1, <3>5
  <2> QED BY <2>2, <2>3
<1>13. CASE u /\ ~t.weed /\ t.crop = None /\ t.structure = None
  <2>1. u = TRUE /\ t.weed = FALSE /\ t.animal = None
    BY <1>1, <1>2, <1>3, <1>13
  <2>2. seen = BareTile
    BY <1>7, <1>13, <2>1, BareSeen
  <2>3. seen.crop = None /\ seen.weed = FALSE /\ seen.structure = None /\ seen.animal = None
    BY <2>2 DEF BareTile
  <2> QED BY <1>13, <2>1, <2>3
<1> QED BY <1>9, <1>10, <1>11, <1>12, <1>13

\* An order of each kind comes out of the wire as it went in.
LEMMA PlainTaken ==
  ASSUME NEW op \in Moves \cup {"PASS", "HARVEST", "FEED", "WATER", "FERTILIZE", "CARE",
                                "COLLECT_FERTILIZER", "DROP", "DIG"}
  PROVE  UnitDispatched(UnitRow(Entry(op, None, 0))) = Entry(op, None, 0)
<1> DEFINE e == Entry(op, None, 0)
<1>1. e.op = op /\ e.target = None /\ e.n = 0
  BY DEF Entry
<1>2. op \notin {"PLANT", "PICKUP", "PLACE", "BUILD_PASTURE"} /\ op \in DOMAIN UnitCodes
  BY DEF Moves, UnitCodes
<1>3. UnitRow(e) = <<UnitCodes[op], 0, 0>>
  <2>1. UnitTarget(e) = 0
    BY <1>1, <1>2 DEF UnitTarget
  <2> HIDE DEF e
  <2> QED BY <1>1, <1>2, <2>1 DEF UnitRow
<1>4. /\ op = "PASS" => UnitCodes[op] = 0
      /\ op # "PASS" => /\ UnitCodes[op] \in {1, 2, 3, 4, 6, 7, 10, 12, 13, 14, 15, 17}
                        /\ PlainArm(UnitCodes[op]) = op
  BY DEF Moves, UnitCodes, PlainArm
<1> HIDE DEF e
<1>5. CASE op = "PASS"
  <2>1. UnitRow(e)[1] = 0
    BY <1>3, <1>4, <1>5
  <2> QED BY <1>5, <2>1 DEF UnitDispatched, e
<1>6. CASE op # "PASS"
  <2>1. UnitRow(e)[1] = UnitCodes[op]
    BY <1>3
  <2> QED BY <1>4, <1>6, <2>1 DEF UnitDispatched, e
<1> QED BY <1>5, <1>6 DEF e

LEMMA PlantTaken ==
  ASSUME NEW c \in Crops
  PROVE  UnitDispatched(UnitRow(Entry("PLANT", c, 0))) = Entry("PLANT", c, 0)
<1> DEFINE e == Entry("PLANT", c, 0)
           n == Number(CropTable, c)
<1>1. e.op = "PLANT" /\ e.target = c /\ e.n = 0
  BY DEF Entry
<1>2. IsIn(CropTable, c) /\ n \in 0..4 /\ CropTable[n + 1] = c
  BY NumberIs, WireAssumption
<1> HIDE DEF e, n
<1>3. UnitTarget(e) = n
  BY <1>1 DEF UnitTarget, n
<1>4. UnitCodes["PLANT"] = 5 /\ "PLANT" \in DOMAIN UnitCodes
  BY DEF UnitCodes
<1>5. UnitRow(e) = <<5, n, 0>>
  BY <1>1, <1>2, <1>3, <1>4 DEF UnitRow
<1>6. UnitRow(e)[1] = 5 /\ UnitRow(e)[2] = n
  BY <1>5
<1>7. UnitDispatched(UnitRow(e)) = Entry("PLANT", CropTable[n + 1], 0)
  BY <1>2, <1>6 DEF UnitDispatched
<1> QED BY <1>2, <1>7 DEF e

LEMMA BuildTaken ==
  ASSUME NEW op \in {"BUILD_COOP", "BUILD_PASTURE"}
  PROVE  UnitDispatched(UnitRow(Entry(op, None, 0))) = Entry(op, None, 0)
<1> DEFINE e == Entry(op, None, 0)
           n == IF op = "BUILD_PASTURE" THEN 1 ELSE 0
<1>1. e.op = op /\ e.target = None /\ e.n = 0
  BY DEF Entry
<1> HIDE DEF e
<1>2. UnitTarget(e) = n
  BY <1>1 DEF UnitTarget
<1>3. UnitCodes[op] = 8 /\ op \in DOMAIN UnitCodes
  BY DEF UnitCodes
<1>4. UnitRow(e) = <<8, n, 0>>
  BY <1>1, <1>2, <1>3 DEF UnitRow
<1>5. UnitRow(e)[1] = 8 /\ UnitRow(e)[2] = n
  BY <1>4
<1>6. UnitDispatched(UnitRow(e))
         = Entry(IF n = 0 THEN "BUILD_COOP" ELSE "BUILD_PASTURE", None, 0)
  BY <1>5 DEF UnitDispatched
<1> QED BY <1>6 DEF e

LEMMA HandledTaken ==
  ASSUME NEW op \in {"PLACE", "PICKUP"}, NEW i \in Items, NEW m \in Nat
  PROVE  UnitDispatched(UnitRow(Entry(op, i, m))) = Entry(op, i, m)
<1> DEFINE e == Entry(op, i, m)
           code == IF op = "PLACE" THEN 9 ELSE 11
           a == Number(AnimalTable, i)
           g == Number(ProductTable, i)
<1>1. e.op = op /\ e.target = i /\ e.n = m
  BY DEF Entry
<1>2. IsIn(AnimalTable, i) => a \in 0..2 /\ AnimalTable[a + 1] = i
  BY NumberIs, WireAssumption
<1>3. ~IsIn(AnimalTable, i) => IsIn(ProductTable, i)
  BY WireAssumption
<1>4. IsIn(ProductTable, i) => g \in 0..8 /\ ProductTable[g + 1] = i
  BY NumberIs, WireAssumption
<1>5. UnitCodes[op] = code /\ op \in DOMAIN UnitCodes
  BY DEF UnitCodes
<1> DEFINE target == UnitTarget(e)
<1>6. target = IF IsIn(AnimalTable, i) THEN a + Flag(op = "PICKUP") ELSE g + 4
  BY <1>1 DEF UnitTarget
<1>7. UnitRow(e) = <<code, target, m>>
  BY <1>1, <1>3, <1>5 DEF UnitRow
<1> HIDE DEF e, a, g, target
<1>8. UnitRow(e)[1] = code /\ UnitRow(e)[2] = target /\ UnitRow(e)[3] = m
  BY <1>7
<1> DEFINE row == UnitRow(e)
<1> HIDE DEF row
<1>9. row[1] = code /\ row[2] = target /\ row[3] = m
  BY <1>8 DEF row
<1>10. CASE IsIn(AnimalTable, i) /\ op = "PLACE"
  <2>1. target = a /\ a \in 0..2 /\ AnimalTable[target + 1] = i
    BY <1>2, <1>6, <1>10 DEF Flag
  <2>2. UnitDispatched(row) = Entry("PLACE", AnimalTable[target + 1], m)
    BY <1>9, <1>10, <2>1 DEF UnitDispatched
  <2> QED BY <1>10, <2>1, <2>2 DEF row, e
<1>11. CASE IsIn(AnimalTable, i) /\ op = "PICKUP"
  <2>1. target = a + 1 /\ target \in 1..3 /\ AnimalTable[target] = i
    BY <1>2, <1>6, <1>11 DEF Flag
  <2>2. UnitDispatched(row) = Entry("PICKUP", AnimalTable[target], m)
    BY <1>9, <1>11, <2>1 DEF UnitDispatched
  <2> QED BY <1>11, <2>1, <2>2 DEF row, e
<1>12. CASE ~IsIn(AnimalTable, i)
  <2>1. target = g + 4 /\ target \in 4..12 /\ target - 3 = g + 1 /\ ProductTable[target - 3] = i
    BY <1>3, <1>4, <1>6, <1>12
  <2>2. UnitDispatched(row) = Entry(op, ProductTable[target - 3], m)
    <3>1. CASE op = "PLACE"
      BY <1>9, <2>1, <3>1 DEF UnitDispatched
    <3>2. CASE op = "PICKUP"
      BY <1>9, <2>1, <3>2 DEF UnitDispatched
    <3> QED BY <3>1, <3>2
  <2> QED BY <2>1, <2>2 DEF row, e
<1> QED BY <1>10, <1>11, <1>12

LEMMA UnitTaken ==
  ASSUME NEW o \in UnitOrders
  PROVE  UnitDispatched(UnitRow(UnitEntry(o))) = UnitEntry(o)
<1>1. o \in UnitOrder
  BY FarmAssumption
<1>2. CASE o \in [op: Moves \cup {"PASS", "HARVEST", "FEED", "WATER", "FERTILIZE", "CARE",
                                  "COLLECT_FERTILIZER", "DROP", "DIG"},
                  target: {None}, n: {0}]
  <2>1. o.op # "BUILD" /\ o.target = None /\ o.n = 0
    BY <1>2 DEF Moves
  <2>2. UnitEntry(o) = Entry(o.op, None, 0)
    BY <2>1 DEF UnitEntry
  <2> QED BY <1>2, <2>2, PlainTaken
<1>3. CASE o \in [op: {"PLANT"}, target: Crops, n: {0}]
  <2>1. UnitEntry(o) = Entry("PLANT", o.target, 0) /\ o.target \in Crops
    BY <1>3 DEF UnitEntry
  <2> QED BY <2>1, PlantTaken
<1>4. CASE o \in [op: {"BUILD"}, target: Structures, n: {0}]
  <2>1. \E op \in {"BUILD_COOP", "BUILD_PASTURE"} : UnitEntry(o) = Entry(op, None, 0)
    BY <1>4 DEF UnitEntry
  <2> QED BY <2>1, BuildTaken
<1>5. CASE o \in [op: {"PLACE", "PICKUP"}, target: Items, n: Nat]
  <2>1. UnitEntry(o) = Entry(o.op, o.target, o.n)
    BY <1>5 DEF UnitEntry
  <2> QED BY <1>5, <2>1, HandledTaken
<1> QED BY <1>1, <1>2, <1>3, <1>4, <1>5 DEF UnitOrder

LEMMA TradeTaken ==
  ASSUME NEW o \in MarketOrders
  PROVE  MarketDispatched(MarketRow(MarketEntry(o))) = MarketEntry(o)
<1> DEFINE e == MarketEntry(o)
           row == MarketRow(e)
<1>1. o \in MarketOrder
  BY FarmAssumption
<1>a. /\ MarketCodes["BUY_SEED"] = 1 /\ MarketCodes["BUY_PRODUCT"] = 2
      /\ MarketCodes["BUY_ANIMAL"] = 3 /\ MarketCodes["SELL"] = 4 /\ MarketCodes["HIRE"] = 5
      /\ MarketCodes["BUY_LAND"] = 6
      /\ DOMAIN MarketCodes = {"BUY_SEED", "BUY_PRODUCT", "BUY_ANIMAL", "SELL", "HIRE",
                               "BUY_LAND"}
  BY DEF MarketCodes
<1>2. CASE o.op \in {"HIRE", "BUY_LAND"}
  <2>1. e = Entry(o.op, None, 1) /\ e.op = o.op
    BY <1>1, <1>2 DEF MarketEntry, MarketOrder, Entry
  <2> HIDE DEF e
  <2>2. row = <<MarketCodes[o.op], 0, 1>>
    BY <1>2, <2>1 DEF MarketRow
  <2> HIDE DEF row
  <2>3. row[1] = IF o.op = "HIRE" THEN 5 ELSE 6
    BY <1>2, <1>a, <2>2
  <2>4. MarketDispatched(row) = Entry(o.op, None, 1)
    BY <1>2, <2>3 DEF MarketDispatched
  <2> QED BY <2>1, <2>4 DEF row, e
<1>3. CASE o \in [op: {"BUY_SEED"}, target: Crops]
  <2> DEFINE n == Number(CropTable, o.target)
  <2>1. e = Entry("BUY_SEED", o.target, 1)
    BY <1>3 DEF MarketEntry
  <2>2. e.op = "BUY_SEED" /\ e.target = o.target /\ e.n = 1
    BY <2>1 DEF Entry
  <2>3. IsIn(CropTable, o.target) /\ n \in 0..4 /\ CropTable[n + 1] = o.target
    BY <1>3, NumberIs, WireAssumption
  <2> HIDE DEF e
  <2>4. row = <<1, n, 1>>
    BY <1>a, <2>2, <2>3 DEF MarketRow
  <2> HIDE DEF row, n
  <2>5. MarketDispatched(row) = Entry("BUY_SEED", CropTable[n + 1], 1)
    BY <2>3, <2>4 DEF MarketDispatched
  <2> QED BY <2>1, <2>3, <2>5 DEF row, e
<1>4. CASE o \in [op: {"BUY"}, target: {Wheat, Fertilizer} \cup Animals] /\ o.target \in Animals
  <2> DEFINE n == Number(AnimalTable, o.target)
  <2>1. e = Entry("BUY_ANIMAL", o.target, 1)
    BY <1>4 DEF MarketEntry
  <2>2. e.op = "BUY_ANIMAL" /\ e.target = o.target /\ e.n = 1
    BY <2>1 DEF Entry
  <2>3. IsIn(AnimalTable, o.target) /\ n \in 0..2 /\ AnimalTable[n + 1] = o.target
    BY <1>4, NumberIs, WireAssumption
  <2> HIDE DEF e
  <2>4. row = <<3, n, 1>>
    BY <1>a, <2>2, <2>3 DEF MarketRow
  <2> HIDE DEF row, n
  <2>5. MarketDispatched(row) = Entry("BUY_ANIMAL", AnimalTable[n + 1], 1)
    BY <2>3, <2>4 DEF MarketDispatched
  <2> QED BY <2>1, <2>3, <2>5 DEF row, e
<1>b. ASSUME IsIn(ProductTable, o.target)
      PROVE  LET n == Number(ProductTable, o.target)
             IN  n \in 0..8 /\ ProductTable[n + 1] = o.target
  BY <1>b, NumberIs, WireAssumption
<1>5. CASE o \in [op: {"BUY"}, target: {Wheat, Fertilizer} \cup Animals] /\ o.target \notin Animals
  <2> DEFINE n == Number(ProductTable, o.target)
  <2>1. e = Entry("BUY_PRODUCT", o.target, 1)
    BY <1>5 DEF MarketEntry
  <2>2. e.op = "BUY_PRODUCT" /\ e.target = o.target /\ e.n = 1
    BY <2>1 DEF Entry
  <2>3. /\ o.target = ProductTable[1] \/ o.target = ProductTable[9]
        /\ DOMAIN ProductTable = 1..9
        /\ \A k, l \in 1..9 : ProductTable[k] = ProductTable[l] => k = l
    BY <1>5, WireAssumption DEF Lists
  <2>4. IsIn(ProductTable, o.target)
    BY <2>3 DEF IsIn
  <2>5. n \in 0..8 /\ ProductTable[n + 1] = o.target
    BY <1>b, <2>4
  <2> HIDE DEF e
  <2>6. row = <<2, n, 1>>
    BY <1>a, <2>2, <2>4 DEF MarketRow
  <2> HIDE DEF row, n
  <2>7. n \in {0, 8}
    <3>1. n + 1 \in 1..9 /\ 1 \in 1..9 /\ 9 \in 1..9
      BY <2>5
    <3>2. n + 1 = 1 \/ n + 1 = 9
      BY <2>3, <2>5, <3>1
    <3> QED BY <2>5, <3>2
  <2>8. MarketDispatched(row) = Entry("BUY_PRODUCT", ProductTable[n + 1], 1)
    BY <2>6, <2>7 DEF MarketDispatched
  <2> QED BY <2>1, <2>5, <2>8 DEF row, e
<1>6. CASE o \in [op: {"SELL"}, target: Items \ Animals]
  <2> DEFINE n == Number(ProductTable, o.target)
  <2>1. e = Entry("SELL", o.target, 1)
    BY <1>6 DEF MarketEntry
  <2>2. e.op = "SELL" /\ e.target = o.target /\ e.n = 1
    BY <2>1 DEF Entry
  <2>3. IsIn(ProductTable, o.target)
    BY <1>6, WireAssumption
  <2>4. n \in 0..8 /\ ProductTable[n + 1] = o.target
    BY <1>b, <2>3
  <2> HIDE DEF e
  <2>5. row = <<4, n, 1>>
    BY <1>a, <2>2, <2>3 DEF MarketRow
  <2> HIDE DEF row, n
  <2>6. MarketDispatched(row) = Entry("SELL", ProductTable[n + 1], 1)
    BY <2>4, <2>5 DEF MarketDispatched
  <2> QED BY <2>1, <2>4, <2>6 DEF row, e
<1>7. o.op \in {"HIRE", "BUY_LAND"} \/ o \in [op: {"BUY_SEED"}, target: Crops]
      \/ o \in [op: {"BUY"}, target: {Wheat, Fertilizer} \cup Animals]
      \/ o \in [op: {"SELL"}, target: Items \ Animals]
  BY <1>1 DEF MarketOrder
<1> QED BY <1>2, <1>3, <1>4, <1>5, <1>6, <1>7

\* What a caller sees of a farm is what stands on it and how it fares, every order it gives
\* reaches the engine as what it is, and what the observer derives from an observation comes
\* true (GameState::observe, _tile, _unit_row, _market_row, replay_daily/lifecycle.py).
THEOREM ForecastsAlwaysHold == Spec => []ForecastsHold
<1>1. ASSUME WireOK PROVE WireFaithful
  BY <1>1, SightIs, UnitTaken, TradeTaken DEF WireFaithful
<1>2. ASSUME WireOK, phase = "agent", NEW p \in Board
      PROVE  ComesTrue(Sight(p), field[p], day, step)
  <2> DEFINE t == field[p]
  <2>1. Shows(Sight(p), t)
    <3>1. TileFaithful(p)
      BY <1>2, SightIs
    <3> QED BY <3>1 DEF TileFaithful, Shows
  <2>2. t \in Tile /\ day \in Nat /\ step \in Nat
    BY <1>2, ClockFacts DEF WireOK, Inv, FieldOK, ClockOK
  <2>3. t.crop # None => t.age >= 0 /\ t.yield >= 0
    BY <1>2 DEF WireOK, LifeOK, CropSound, Calendar, Thriving
  <2>4. t.crop # None => HarvestComesTrue(Sight(p), t, day, step)
    BY <2>1, <2>2, <2>3, HarvestForetold
  <2>5. t.animal # None => ProductComesTrue(Sight(p), t, day)
    BY <2>1, <2>2, ProductForetold
  <2> QED BY <2>4, <2>5 DEF ComesTrue
<1>3. WireOK => ForecastsHold
  BY <1>1, <1>2 DEF ForecastsHold, ForecastsComeTrue
<1> QED BY <1>3, WireInductive, PTL
=============================================================================
