------------------------------ MODULE IrisSums -------------------------------
(***************************************************************************)
(* Sums over finite sets of sessions and of instances, and the induction   *)
(* they and the queue's recursive functions need.  The library's induction *)
(* theorems take a predicate as a parameter, which cannot be instantiated  *)
(* here; a set in place of the predicate can.                              *)
(***************************************************************************)
EXTENDS FiniteSetsExt, FiniteSetTheorems, TLAPS

(* Induction over the natural numbers, the predicate being a set.          *)
LEMMA InductionOnNat ==
  ASSUME NEW Q, 0 \in Q, \A n \in Nat : n \in Q => n + 1 \in Q
  PROVE  Nat \subseteq Q
  <1> DEFINE R == {ss \in Nat \X Nat : ss[1] < ss[2]}
             B == Nat \ Q
  <1>1. IsWellFoundedOn(R, Nat)
    BY NatLessThanWellFounded DEF OpToRel
  <1>2. SUFFICES ASSUME B # {}
                 PROVE  FALSE
    OBVIOUS
  <1>3. B \subseteq Nat
    OBVIOUS
  <1>4. PICK x \in B : \A y \in B : ~ (<<y, x>> \in R)
    <2> HIDE DEF R, B
    <2>1. QED
      BY <1>1, <1>2, <1>3, WFMin
  <1>5. x # 0 /\ x \in Nat
    OBVIOUS
  <1>6. x - 1 \in Nat /\ x - 1 < x /\ (x - 1) + 1 = x
    BY <1>5
  <1>7. x - 1 \notin B
    BY <1>4, <1>5, <1>6
  <1>8. QED
    BY <1>6, <1>7

(* Induction over the subsets of a finite set.                             *)
LEMMA InductionOnSubsets ==
  ASSUME NEW S, IsFiniteSet(S), NEW Q, {} \in Q,
         \A T \in SUBSET S, x \in S : T \in Q /\ x \notin T => T \cup {x} \in Q
  PROVE  SUBSET S \subseteq Q
  <1> DEFINE R == StrictSubsetOrdering(S)
             B == (SUBSET S) \ Q
  <1>1. IsWellFoundedOn(R, SUBSET S)
    BY FS_StrictSubsetOrderingWellFounded, FS_FiniteSubsetsOfFinite
  <1>2. SUFFICES ASSUME B # {}
                 PROVE  FALSE
    OBVIOUS
  <1>3. B \subseteq SUBSET S
    OBVIOUS
  <1>4. PICK T \in B : \A U \in B : ~ (<<U, T>> \in R)
    <2> HIDE DEF R, B
    <2>1. QED
      BY <1>1, <1>2, <1>3, WFMin
  <1>5. PICK x : x \in T
    BY <1>4
  <1>6. T \ {x} \in SUBSET S /\ x \in S /\ (T \ {x}) \cup {x} = T
    BY <1>4, <1>5
  <1>7. <<T \ {x}, T>> \in R
    BY <1>4, <1>5, <1>6 DEF StrictSubsetOrdering
  <1>8. T \ {x} \in Q
    BY <1>4, <1>6, <1>7
  <1>9. QED
    BY <1>4, <1>6, <1>8

-----------------------------------------------------------------------------
(* The equation of the sum.                                                *)

First(s) == CHOOSE x \in s : TRUE

SumOfSet(f, it, s) == IF s = {} THEN 0 ELSE f[First(s)] + it[s \ {First(s)}]

Summing(f, S, it) == it = [s \in SUBSET S |-> SumOfSet(f, it, s)]

(* A set that is not empty has a first element.                            *)
LEMMA FirstIn ==
  ASSUME NEW s, s # {}
  PROVE  First(s) \in s
  BY DEF First

(* Some function satisfies the equation.                                   *)
LEMMA SummingExists ==
  ASSUME NEW S, IsFiniteSet(S), NEW f, \A x \in S : f[x] \in Int
  PROVE  \E it \in [SUBSET S -> Int] : Summing(f, S, it)
  <1> DEFINE Upto(n, it) == \A s \in SUBSET S : Cardinality(s) <= n => it[s] = SumOfSet(f, it, s)
             Q == {n \in Nat : \E it \in [SUBSET S -> Int] : Upto(n, it)}
  <1>0. \A s \in SUBSET S :
          /\ IsFiniteSet(s) /\ Cardinality(s) \in Nat /\ Cardinality(s) <= Cardinality(S)
          /\ s # {} => /\ First(s) \in s /\ s \ {First(s)} \in SUBSET S
                       /\ Cardinality(s \ {First(s)}) = Cardinality(s) - 1
          /\ Cardinality(s) = 0 => s = {}
    BY FS_Subset, FS_CardinalityType, FS_RemoveElement, FS_EmptySet, FirstIn
  <1>1. 0 \in Q
    <2> DEFINE it == [s \in SUBSET S |-> 0]
    <2>1. ASSUME NEW s \in SUBSET S, Cardinality(s) <= 0
          PROVE  it[s] = SumOfSet(f, it, s)
      <3>1. Cardinality(s) = 0
        <4>1. Cardinality(s) \in Nat
          BY <1>0
        <4>2. QED
          BY <2>1, <4>1
      <3>2. s = {}
        BY <1>0, <3>1
      <3>3. QED
        BY <3>2 DEF SumOfSet
    <2>3. it \in [SUBSET S -> Int]
      OBVIOUS
    <2> HIDE DEF it
    <2>2. QED
      BY <2>1, <2>3
  <1>2. ASSUME NEW n \in Nat, n \in Q
        PROVE  n + 1 \in Q
    <2>1. PICK it \in [SUBSET S -> Int] : Upto(n, it)
      BY <1>2
    <2> DEFINE new == [s \in SUBSET S |-> IF Cardinality(s) <= n THEN it[s]
                                          ELSE SumOfSet(f, it, s)]
    <2>2. ASSUME NEW s \in SUBSET S
          PROVE  SumOfSet(f, it, s) \in Int
      <3>1. CASE s = {}
        BY <3>1 DEF SumOfSet
      <3>2. CASE s # {}
        <4>1. f[First(s)] \in Int /\ it[s \ {First(s)}] \in Int
          BY <1>0, <3>2
        <4>2. QED
          BY <3>2, <4>1 DEF SumOfSet
      <3>3. QED
        BY <3>1, <3>2
    <2>3. new \in [SUBSET S -> Int]
      BY <2>2
    <2>4. ASSUME NEW s \in SUBSET S, Cardinality(s) <= n + 1
          PROVE  new[s] = SumOfSet(f, new, s)
      <3>1. new[s] = SumOfSet(f, it, s)
        BY <2>1
      <3>2. s # {} => new[s \ {First(s)}] = it[s \ {First(s)}]
        <4>1. s # {} => Cardinality(s \ {First(s)}) <= n /\ s \ {First(s)} \in SUBSET S
          BY <1>0, <2>4
        <4>2. QED
          BY <4>1
      <3> HIDE DEF new
      <3>3. QED
        BY <3>1, <3>2 DEF SumOfSet
    <2> HIDE DEF new
    <2>5. QED
      BY <2>3, <2>4
  <1>3. Cardinality(S) \in Nat
    BY FS_CardinalityType
  <1>4. Nat \subseteq Q
    <2> HIDE DEF Q
    <2>1. QED
      BY <1>1, <1>2, InductionOnNat
  <1>5. PICK it \in [SUBSET S -> Int] : Upto(Cardinality(S), it)
    BY <1>3, <1>4
  <1>6. \A s \in SUBSET S : it[s] = SumOfSet(f, it, s)
    BY <1>0, <1>5
  <1>7. it = [s \in SUBSET S |-> SumOfSet(f, it, s)]
    BY <1>6
  <1>8. QED
    BY <1>7 DEF Summing

(* Two functions that satisfy it agree where both are defined.             *)
LEMMA SummingAgrees ==
  ASSUME NEW S, IsFiniteSet(S), NEW f, NEW T \in SUBSET S,
         NEW it, Summing(f, S, it), NEW jt, Summing(f, T, jt)
  PROVE  it[T] = jt[T]
  <1> DEFINE Q == {s \in SUBSET T : it[s] = jt[s]}
             R == StrictSubsetOrdering(T)
             B == (SUBSET T) \ Q
  <1>1. IsFiniteSet(T)
    BY FS_Subset
  <1>2. IsWellFoundedOn(R, SUBSET T)
    BY <1>1, FS_StrictSubsetOrderingWellFounded, FS_FiniteSubsetsOfFinite
  <1>3. SUFFICES ASSUME B # {}
                 PROVE  FALSE
    OBVIOUS
  <1>4. B \subseteq SUBSET T
    OBVIOUS
  <1>5. PICK s \in B : \A u \in B : ~ (<<u, s>> \in R)
    <2> HIDE DEF R, B
    <2>1. QED
      BY <1>2, <1>3, <1>4, WFMin
  <1>6. s \in SUBSET T /\ s \in SUBSET S
    BY <1>5
  <1>7. it[s] = SumOfSet(f, it, s) /\ jt[s] = SumOfSet(f, jt, s)
    BY <1>6 DEF Summing
  <1>8. CASE s = {}
    BY <1>5, <1>7, <1>8 DEF SumOfSet
  <1>9. CASE s # {}
    <2> DEFINE u == s \ {First(s)}
    <2>1. First(s) \in s /\ u \in SUBSET T
      BY <1>6, <1>9, FirstIn
    <2>2. <<u, s>> \in R
      BY <1>6, <2>1 DEF StrictSubsetOrdering
    <2>3. it[u] = jt[u]
      BY <1>5, <2>1, <2>2
    <2>4. QED
      BY <1>5, <1>7, <1>9, <2>3 DEF SumOfSet
  <1>10. QED
    BY <1>8, <1>9

(* The sum of the library is the value of such a function.                 *)
LEMMA SumIsSumming ==
  ASSUME NEW S, IsFiniteSet(S), NEW f, \A x \in S : f[x] \in Int
  PROVE  \E it \in [SUBSET S -> Int] : Summing(f, S, it) /\ SumFunctionOnSet(f, S) = it[S]
  <1> DEFINE jt == CHOOSE it : it = [s \in SUBSET S |-> SumOfSet(f, it, s)]
  <1>1. PICK it \in [SUBSET S -> Int] : Summing(f, S, it)
    BY SummingExists
  <1>2. it = [s \in SUBSET S |-> SumOfSet(f, it, s)]
    BY <1>1 DEF Summing
  <1>3. jt = [s \in SUBSET S |-> SumOfSet(f, jt, s)]
    BY <1>2
  <1>4. SumFunctionOnSet(f, S) = jt[S]
    BY DEF SumFunctionOnSet, FoldFunctionOnSet, MapThenFoldSet, SumOfSet, First
  <1>6. Summing(f, S, jt)
    BY <1>3 DEF Summing
  <1> HIDE DEF jt
  <1>5. it[S] = jt[S]
    <2>1. S \in SUBSET S
      OBVIOUS
    <2>2. QED
      BY <1>1, <1>6, <2>1, SummingAgrees
  <1>7. QED
    BY <1>1, <1>4, <1>5

(* The sum over no element.                                                *)
LEMMA SumOfNone ==
  ASSUME NEW f
  PROVE  SumFunctionOnSet(f, {}) = 0
  <1>1. PICK it \in [SUBSET {} -> Int] : Summing(f, {}, it) /\ SumFunctionOnSet(f, {}) = it[{}]
    BY SumIsSumming, FS_EmptySet
  <1>2. QED
    BY <1>1 DEF Summing, SumOfSet

(* The sum without its first element.                                      *)
LEMMA SumOfFirst ==
  ASSUME NEW S, IsFiniteSet(S), S # {}, NEW f, \A x \in S : f[x] \in Int
  PROVE  SumFunctionOnSet(f, S) = f[First(S)] + SumFunctionOnSet(f, S \ {First(S)})
  <1> DEFINE T == S \ {First(S)}
  <1>1. PICK it \in [SUBSET S -> Int] : Summing(f, S, it) /\ SumFunctionOnSet(f, S) = it[S]
    BY SumIsSumming
  <1>2. T \in SUBSET S /\ IsFiniteSet(T)
    BY FS_Subset
  <1>3. PICK jt \in [SUBSET T -> Int] : Summing(f, T, jt) /\ SumFunctionOnSet(f, T) = jt[T]
    BY <1>2, SumIsSumming
  <1>4. it[T] = jt[T]
    BY <1>1, <1>2, <1>3, SummingAgrees
  <1>5. it[S] = f[First(S)] + it[T]
    BY <1>1 DEF Summing, SumOfSet
  <1>6. QED
    BY <1>1, <1>3, <1>4, <1>5

-----------------------------------------------------------------------------
(* What the proofs use.                                                    *)

(* A sum of integers is an integer.                                        *)
LEMMA SumIsInt ==
  ASSUME NEW S, IsFiniteSet(S), NEW f, \A x \in S : f[x] \in Int
  PROVE  SumFunctionOnSet(f, S) \in Int
  <1>1. PICK it \in [SUBSET S -> Int] : Summing(f, S, it) /\ SumFunctionOnSet(f, S) = it[S]
    BY SumIsSumming
  <1>2. S \in SUBSET S
    OBVIOUS
  <1>3. QED
    BY <1>1, <1>2

(* Any element may be taken out of the sum.                                *)
LEMMA SumWithout ==
  ASSUME NEW S, IsFiniteSet(S), NEW f, \A x \in S : f[x] \in Int, NEW a \in S
  PROVE  SumFunctionOnSet(f, S) = f[a] + SumFunctionOnSet(f, S \ {a})
  <1> DEFINE G(s) == SumFunctionOnSet(f, s)
             P(s) == \A b \in s : G(s) = f[b] + G(s \ {b})
             Q == {n \in Nat : \A s \in SUBSET S : Cardinality(s) <= n => P(s)}
  <1>0. \A s \in SUBSET S :
          /\ IsFiniteSet(s) /\ Cardinality(s) \in Nat /\ Cardinality(s) <= Cardinality(S)
          /\ \A x \in s : Cardinality(s \ {x}) = Cardinality(s) - 1
          /\ Cardinality(s) = 0 => s = {}
          /\ G(s) \in Int
          /\ s # {} => First(s) \in s /\ G(s) = f[First(s)] + G(s \ {First(s)})
    BY FS_Subset, FS_CardinalityType, FS_RemoveElement, FS_EmptySet, FirstIn, SumIsInt, SumOfFirst
  <1> HIDE DEF G
  <1>1. 0 \in Q
    <2>1. ASSUME NEW s \in SUBSET S, Cardinality(s) <= 0
          PROVE  P(s)
      <3>1. Cardinality(s) = 0
        <4>1. Cardinality(s) \in Nat
          BY <1>0
        <4>2. QED
          BY <2>1, <4>1
      <3>2. s = {}
        BY <1>0, <3>1
      <3>3. QED
        BY <3>2
    <2> HIDE DEF P
    <2>2. QED
      BY <2>1
  <1>2. ASSUME NEW n \in Nat, n \in Q
        PROVE  n + 1 \in Q
    <2> SUFFICES ASSUME NEW s \in SUBSET S, Cardinality(s) <= n + 1, NEW b \in s
                 PROVE  G(s) = f[b] + G(s \ {b})
      OBVIOUS
    <2> DEFINE c == First(s)
               u == s \ {b}
               v == s \ {c}
    <2>1. c \in s /\ G(s) = f[c] + G(v)
      BY <1>0
    <2>2. CASE b = c
      BY <2>1, <2>2
    <2>3. CASE b # c
      <3>1. /\ u \in SUBSET S /\ v \in SUBSET S
            /\ Cardinality(u) <= n /\ Cardinality(v) <= n
        BY <1>0, <2>1
      <3>2. b \in v /\ c \in u /\ v \ {b} = u \ {c}
        BY <2>1, <2>3
      <3>3. P(u) /\ P(v)
        BY <1>2, <3>1
      <3>4. G(v) = f[b] + G(v \ {b}) /\ G(u) = f[c] + G(u \ {c})
        BY <3>2, <3>3
      <3>5. /\ f[b] \in Int /\ f[c] \in Int
            /\ G(v \ {b}) \in Int
        <4>1. v \ {b} \in SUBSET S
          OBVIOUS
        <4>2. QED
          BY <1>0, <2>1, <4>1
      <3>6. G(u \ {c}) = G(v \ {b})
        BY <3>2
      <3> HIDE DEF c, u, v
      <3>7. QED
        <4>1. G(s) = f[c] + (f[b] + G(v \ {b})) /\ G(u) = f[c] + G(v \ {b})
          BY <2>1, <3>4, <3>6
        <4>2. G(s) = f[b] + G(u)
          BY <3>5, <4>1
        <4>3. QED
          BY <4>2 DEF u
    <2>4. QED
      BY <2>2, <2>3
  <1>3. Nat \subseteq Q
    <2> HIDE DEF Q
    <2>1. QED
      BY <1>1, <1>2, InductionOnNat
  <1>4. S \in SUBSET S /\ Cardinality(S) \in Nat
    BY <1>0
  <1>5. P(S)
    BY <1>3, <1>4
  <1>6. QED
    BY <1>5 DEF G

(* A term more.                                                            *)
LEMMA SumWith ==
  ASSUME NEW S, IsFiniteSet(S), NEW f, NEW a, a \notin S, \A x \in S \cup {a} : f[x] \in Int
  PROVE  SumFunctionOnSet(f, S \cup {a}) = f[a] + SumFunctionOnSet(f, S)
  <1> DEFINE T == S \cup {a}
  <1>1. IsFiniteSet(T) /\ a \in T /\ T \ {a} = S
    BY FS_AddElement
  <1> HIDE DEF T
  <1>2. \A x \in T : f[x] \in Int
    BY DEF T
  <1>3. SumFunctionOnSet(f, T) = f[a] + SumFunctionOnSet(f, T \ {a})
    BY <1>1, <1>2, SumWithout
  <1>4. QED
    BY <1>1, <1>3 DEF T

(* What holds of every sum that holds of its parts: the smaller function   *)
(* has the smaller sum.                                                    *)
LEMMA SumMonotone ==
  ASSUME NEW S, IsFiniteSet(S), NEW f, NEW g,
         \A x \in S : f[x] \in Int /\ g[x] \in Int /\ f[x] <= g[x]
  PROVE  SumFunctionOnSet(f, S) <= SumFunctionOnSet(g, S)
  <1> DEFINE F(s) == SumFunctionOnSet(f, s)
             G(s) == SumFunctionOnSet(g, s)
             Q == {s \in SUBSET S : F(s) <= G(s)}
  <1>1. {} \in Q
    <2>1. F({}) = 0 /\ G({}) = 0
      BY SumOfNone
    <2> HIDE DEF F, G
    <2>2. QED
      BY <2>1
  <1>2. ASSUME NEW T \in SUBSET S, NEW x \in S, T \in Q, x \notin T
        PROVE  T \cup {x} \in Q
    <2>1. IsFiniteSet(T) /\ (\A y \in T : f[y] \in Int /\ g[y] \in Int)
          /\ (\A y \in T \cup {x} : f[y] \in Int /\ g[y] \in Int)
      BY FS_Subset
    <2>2. F(T) \in Int /\ G(T) \in Int
      BY <2>1, SumIsInt
    <2>3. F(T \cup {x}) = f[x] + F(T) /\ G(T \cup {x}) = g[x] + G(T)
      BY <1>2, <2>1, SumWith
    <2>4. F(T) <= G(T) /\ f[x] \in Int /\ g[x] \in Int /\ f[x] <= g[x]
      BY <1>2
    <2> HIDE DEF F, G
    <2>5. F(T \cup {x}) <= G(T \cup {x})
      BY <2>2, <2>3, <2>4
    <2>6. QED
      BY <2>5
  <1>3. SUBSET S \subseteq Q
    <2> HIDE DEF Q
    <2>1. QED
      BY <1>1, <1>2, InductionOnSubsets
  <1>4. QED
    BY <1>3

(* Equal terms, equal sums.                                                *)
LEMMA SumSame ==
  ASSUME NEW S, IsFiniteSet(S), NEW f, NEW g,
         \A x \in S : f[x] \in Int /\ g[x] = f[x]
  PROVE  SumFunctionOnSet(f, S) = SumFunctionOnSet(g, S)
  <1>1. SumFunctionOnSet(f, S) \in Int /\ SumFunctionOnSet(g, S) \in Int
    BY SumIsInt
  <1>2. SumFunctionOnSet(f, S) <= SumFunctionOnSet(g, S)
        /\ SumFunctionOnSet(g, S) <= SumFunctionOnSet(f, S)
    BY SumMonotone
  <1>3. QED
    BY <1>1, <1>2

(* A sum of natural numbers is one, and none of them exceeds it.           *)
LEMMA SumIsNat ==
  ASSUME NEW S, IsFiniteSet(S), NEW f, \A x \in S : f[x] \in Nat
  PROVE  /\ SumFunctionOnSet(f, S) \in Nat
         /\ \A x \in S : f[x] <= SumFunctionOnSet(f, S)
  <1> DEFINE F(s) == SumFunctionOnSet(f, s)
             Q == {s \in SUBSET S : F(s) \in Nat}
  <1>1. {} \in Q
    BY SumOfNone
  <1>2. ASSUME NEW T \in SUBSET S, NEW x \in S, T \in Q, x \notin T
        PROVE  T \cup {x} \in Q
    <2>1. IsFiniteSet(T) /\ \A y \in T \cup {x} : f[y] \in Int
      BY FS_Subset
    <2>2. F(T \cup {x}) = f[x] + F(T)
      BY <1>2, <2>1, SumWith
    <2>3. F(T) \in Nat /\ f[x] \in Nat
      BY <1>2
    <2> HIDE DEF F
    <2>4. F(T \cup {x}) \in Nat
      BY <2>2, <2>3
    <2>5. QED
      BY <2>4
  <1>3. SUBSET S \subseteq Q
    <2> HIDE DEF Q
    <2>1. QED
      BY <1>1, <1>2, InductionOnSubsets
  <1>4. ASSUME NEW x \in S
        PROVE  f[x] <= F(S)
    <2>1. F(S) = f[x] + F(S \ {x})
      BY SumWithout
    <2>2. F(S) \in Nat /\ F(S \ {x}) \in Nat /\ f[x] \in Nat
      BY <1>3
    <2> HIDE DEF F
    <2>3. QED
      BY <2>1, <2>2
  <1>5. QED
    BY <1>3, <1>4

(* Fewer terms, a smaller sum.                                             *)
LEMMA SumOfFewer ==
  ASSUME NEW S, IsFiniteSet(S), NEW f, \A x \in S : f[x] \in Nat, NEW T \in SUBSET S
  PROVE  SumFunctionOnSet(f, T) <= SumFunctionOnSet(f, S)
  <1> DEFINE F(s) == SumFunctionOnSet(f, s)
             R == S \ T
             Q == {s \in SUBSET R : F(T) <= F(T \cup s)}
  <1>1. IsFiniteSet(T) /\ IsFiniteSet(R) /\ F(T) \in Nat
    BY FS_Subset, SumIsNat
  <1>2. {} \in Q
    <2>1. T \cup {} = T
      OBVIOUS
    <2> HIDE DEF F
    <2>2. F(T) <= F(T \cup {})
      BY <1>1, <2>1
    <2>3. QED
      BY <2>2
  <1>3. ASSUME NEW s \in SUBSET R, NEW x \in R, s \in Q, x \notin s
        PROVE  s \cup {x} \in Q
    <2> DEFINE U == T \cup s
    <2>1. U \in SUBSET S /\ x \in S /\ x \notin U /\ T \cup (s \cup {x}) = U \cup {x}
      <3>1. U \in SUBSET S /\ x \in S
        OBVIOUS
      <3>2. x \notin U
        BY <1>3
      <3>3. T \cup (s \cup {x}) = U \cup {x}
        OBVIOUS
      <3>4. QED
        BY <3>1, <3>2, <3>3
    <2>2. F(T) <= F(U)
      BY <1>3
    <2> HIDE DEF U
    <2>3. IsFiniteSet(U) /\ \A y \in U \cup {x} : f[y] \in Nat
      BY <2>1, FS_Subset
    <2>4. F(U \cup {x}) = f[x] + F(U) /\ F(U) \in Nat
      <3>1. \A y \in U \cup {x} : f[y] \in Int
        BY <2>3
      <3>2. F(U \cup {x}) = f[x] + F(U)
        BY <2>1, <2>3, <3>1, SumWith
      <3>3. F(U) \in Nat
        BY <2>3, SumIsNat
      <3>4. QED
        BY <3>2, <3>3
    <2> HIDE DEF F
    <2>5. F(T) <= F(U \cup {x})
      BY <1>1, <2>1, <2>2, <2>4
    <2>6. F(T) <= F(T \cup (s \cup {x}))
      BY <2>1, <2>5
    <2>7. QED
      BY <2>6
  <1>4. R \in Q
    <2> HIDE DEF Q, R
    <2>1. QED
      BY <1>1, <1>2, <1>3, InductionOnSubsets
  <1>5. T \cup R = S
    OBVIOUS
  <1> HIDE DEF F
  <1>6. F(T) <= F(T \cup R)
    BY <1>4
  <1>7. QED
    BY <1>5, <1>6 DEF F

(* A sum of natural numbers over fewer elements, which are the same, is    *)
(* less.                                                                   *)
LEMMA SumOfPart ==
  ASSUME NEW S, IsFiniteSet(S), NEW f, \A x \in S : f[x] \in Nat,
         NEW T \in SUBSET S, NEW g, \A x \in T : g[x] = f[x]
  PROVE  /\ SumFunctionOnSet(g, T) \in Nat /\ SumFunctionOnSet(f, S) \in Nat
         /\ SumFunctionOnSet(g, T) <= SumFunctionOnSet(f, S)
  <1>1. IsFiniteSet(T)
    BY FS_Subset
  <1>2. SumFunctionOnSet(f, T) = SumFunctionOnSet(g, T)
    BY <1>1, SumSame
  <1>3. SumFunctionOnSet(f, T) \in Nat /\ SumFunctionOnSet(f, S) \in Nat
    BY <1>1, SumIsNat
  <1>4. QED
    BY <1>2, <1>3, SumOfFewer
=============================================================================
