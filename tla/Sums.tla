-------------------------------- MODULE Sums --------------------------------
(***************************************************************************)
(* The sum over a finite set, SumFunctionOnSet of the community modules:   *)
(* it is a number, it does not depend on the order, an element more adds   *)
(* its value.  What wallets and coupons hold is such a sum.                *)
(*                                                                         *)
(* The induction on the size of a set is an argument about the smallest    *)
(* counterexample: the numbers are well-founded (NatLessThanWellFounded),  *)
(* so a set of numbers has a least member.                                 *)
(***************************************************************************)
EXTENDS Integers, FiniteSets, Functions, FiniteSetTheorems, WellFoundedInduction,
        TLAPS

(* A set of numbers has a least member. *)
LEMMA SmallestNumber ==
  ASSUME NEW T \in SUBSET Nat, T # {}
  PROVE  \E m \in T : \A n \in T : m <= n
<1> DEFINE R == {ss \in Nat \X Nat : ss[1] < ss[2]}
<1>1. IsWellFoundedOn(R, Nat)
  BY NatLessThanWellFounded DEF OpToRel
<1>2. \A m, n \in Nat : n < m => <<n, m>> \in R
  OBVIOUS
<1> HIDE DEF R
<1>3. PICK m \in T : \A n \in T : ~(<<n, m>> \in R)
  BY <1>1, WFMin
<1>4. \A n \in T : ~(n < m)
  BY <1>2, <1>3
<1>5. \A n \in T : m <= n
  BY <1>4
<1> QED
  BY <1>5

(* The element the sum over a set takes next, and how it goes on. *)
AnyOf(s) == CHOOSE x \in s : TRUE
Rec(f, S, g) ==
  [s \in SUBSET S |-> IF s = {} THEN 0 ELSE f[AnyOf(s)] + g[s \ {AnyOf(s)}]]

LEMMA SumIs ==
  ASSUME NEW f, NEW S
  PROVE SumFunctionOnSet(f, S) = (CHOOSE g : g = Rec(f, S, g))[S]
BY DEF SumFunctionOnSet, FoldFunctionOnSet, MapThenFoldSet, Rec, AnyOf

LEMMA AnyIn ==
  ASSUME NEW s, s # {}
  PROVE  AnyOf(s) \in s
BY DEF AnyOf

(* Of a finite set's subsets, one has the fewest members. *)
LEMMA SmallestSet ==
  ASSUME NEW S, IsFiniteSet(S), NEW F \in SUBSET (SUBSET S), F # {}
  PROVE  \E T \in F : \A U \in F : Cardinality(T) <= Cardinality(U)
<1> DEFINE N == {Cardinality(T) : T \in F}
<1>1. \A T \in F : Cardinality(T) \in Nat
  BY FS_Subset, FS_CardinalityType
<1>2. N \in SUBSET Nat /\ N # {}
  BY <1>1
<1>3. PICK m \in N : \A n \in N : m <= n
  <2> HIDE DEF N
  <2> QED
    BY <1>2, SmallestNumber
<1> QED
  BY <1>3

SubsetsUpTo(S, n) == {T \in SUBSET S : Cardinality(T) <= n}

(* g[s] adds the values of f over s, for each s in F. *)
Adds(f, F, g) ==
  \A s \in F : g[s] = IF s = {} THEN 0 ELSE f[AnyOf(s)] + g[s \ {AnyOf(s)}]

(* There is a function that adds: by induction on the size of the sets it  *)
(* is defined for.                                                         *)
LEMMA Summed ==
  ASSUME NEW f, NEW S, IsFiniteSet(S), \A x \in S : f[x] \in Int
  PROVE  \E g \in [SUBSET S -> Int] : Adds(f, SUBSET S, g)
<1> DEFINE Ok(n) == \E g \in [SubsetsUpTo(S, n) -> Int] : Adds(f, SubsetsUpTo(S, n), g)
           Bad == {n \in Nat : ~Ok(n)}
<1>1. Ok(0)
  <2> DEFINE g == [T \in SubsetsUpTo(S, 0) |-> 0]
  <2>1. \A T \in SubsetsUpTo(S, 0) : T = {}
    <3>1. SUFFICES ASSUME NEW T \in SUBSET S, Cardinality(T) <= 0 PROVE T = {}
      BY DEF SubsetsUpTo
    <3> QED
      BY <3>1, FS_Subset, FS_CardinalityType, FS_EmptySet
  <2>2. g \in [SubsetsUpTo(S, 0) -> Int] /\ Adds(f, SubsetsUpTo(S, 0), g)
    BY <2>1 DEF Adds
  <2> QED
    BY <2>2
<1>2. ASSUME NEW n \in Nat, Ok(n)
      PROVE  Ok(n + 1)
  <2>1. PICK h \in [SubsetsUpTo(S, n) -> Int] : Adds(f, SubsetsUpTo(S, n), h)
    BY <1>2
  <2> DEFINE g == [T \in SubsetsUpTo(S, n + 1) |->
                     IF T \in SubsetsUpTo(S, n) THEN h[T] ELSE f[AnyOf(T)] + h[T \ {AnyOf(T)}]]
  <2>2. ASSUME NEW T \in SubsetsUpTo(S, n + 1), T # {}
        PROVE  /\ AnyOf(T) \in S /\ T \ {AnyOf(T)} \in SubsetsUpTo(S, n)
    <3>1. IsFiniteSet(T) /\ Cardinality(T) \in Nat /\ Cardinality(T) <= n + 1
      BY FS_Subset, FS_CardinalityType DEF SubsetsUpTo
    <3>2. AnyOf(T) \in T
      BY <2>2, AnyIn
    <3>3. Cardinality(T \ {AnyOf(T)}) = Cardinality(T) - 1
      BY <3>1, <3>2, FS_RemoveElement
    <3> QED
      BY <3>1, <3>2, <3>3 DEF SubsetsUpTo
  <2>3. {} \in SubsetsUpTo(S, n)
    BY FS_EmptySet DEF SubsetsUpTo
  <2>4. \A T \in SubsetsUpTo(S, n) : g[T] = h[T] /\ T \in SubsetsUpTo(S, n + 1)
    BY FS_Subset, FS_CardinalityType DEF SubsetsUpTo
  <2>5. g \in [SubsetsUpTo(S, n + 1) -> Int]
    <3>1. ASSUME NEW T \in SubsetsUpTo(S, n + 1), T \notin SubsetsUpTo(S, n)
          PROVE  f[AnyOf(T)] + h[T \ {AnyOf(T)}] \in Int
      <4>1. T # {}
        BY <2>3, <3>1
      <4>2. f[AnyOf(T)] \in Int /\ h[T \ {AnyOf(T)}] \in Int
        BY <2>1, <2>2, <4>1
      <4> QED
        BY <4>2
    <3> QED
      BY <3>1
  <2>6. ASSUME NEW T \in SubsetsUpTo(S, n + 1)
        PROVE  g[T] = IF T = {} THEN 0 ELSE f[AnyOf(T)] + g[T \ {AnyOf(T)}]
    <3>1. CASE T \in SubsetsUpTo(S, n)
      <4>1. h[T] = IF T = {} THEN 0 ELSE f[AnyOf(T)] + h[T \ {AnyOf(T)}]
        BY <2>1, <3>1 DEF Adds
      <4> HIDE DEF g
      <4> QED
        BY <2>2, <2>4, <3>1, <4>1
    <3>2. CASE T \notin SubsetsUpTo(S, n)
      <4>1. g[T] = f[AnyOf(T)] + h[T \ {AnyOf(T)}] /\ T # {}
        BY <2>3, <3>2
      <4> HIDE DEF g
      <4> QED
        BY <2>2, <2>4, <4>1
    <3> QED
      BY <3>1, <3>2
  <2> HIDE DEF g
  <2> QED
    BY <2>5, <2>6 DEF Adds
<1> HIDE DEF Ok
<1>3. \A n \in Nat : Ok(n)
  <2>1. SUFFICES ASSUME Bad # {} PROVE FALSE
    OBVIOUS
  <2>2. PICK m \in Bad : \A n \in Bad : m <= n
    <3>1. Bad \in SUBSET Nat
      OBVIOUS
    <3> HIDE DEF Bad
    <3> QED
      BY <2>1, <3>1, SmallestNumber
  <2>3. m # 0 /\ m - 1 \in Nat /\ Ok(m - 1)
    BY <1>1, <2>2
  <2>4. Ok(m - 1 + 1)
    BY <1>2, <2>3
  <2> QED
    BY <2>2, <2>3, <2>4
<1>4. SubsetsUpTo(S, Cardinality(S)) = SUBSET S
  BY FS_Subset DEF SubsetsUpTo
<1>5. Ok(Cardinality(S))
  BY <1>3, FS_CardinalityType
<1> QED
  BY <1>4, <1>5 DEF Ok

(* Two functions that add the same values give the same sums. *)
LEMMA Agree ==
  ASSUME NEW S, IsFiniteSet(S), NEW f, NEW h, \A x \in S : f[x] = h[x],
         NEW a, NEW b, Adds(f, SUBSET S, a), Adds(h, SUBSET S, b)
  PROVE  \A T \in SUBSET S : a[T] = b[T]
<1> DEFINE Bad == {T \in SUBSET S : a[T] # b[T]}
<1>1. SUFFICES ASSUME Bad # {} PROVE FALSE
  OBVIOUS
<1>2. PICK T \in Bad : \A U \in Bad : Cardinality(T) <= Cardinality(U)
  <2>1. Bad \in SUBSET (SUBSET S)
    OBVIOUS
  <2> HIDE DEF Bad
  <2> QED
    BY <1>1, <2>1, SmallestSet
<1>3. T \in SUBSET S /\ a[T] # b[T]
  BY <1>2
<1>4. T # {}
  BY <1>3 DEF Adds
<1>5. AnyOf(T) \in T /\ f[AnyOf(T)] = h[AnyOf(T)]
  BY <1>3, <1>4, AnyIn
<1>6. a[T \ {AnyOf(T)}] # b[T \ {AnyOf(T)}]
  BY <1>3, <1>4, <1>5 DEF Adds
<1>7. T \ {AnyOf(T)} \in Bad
  BY <1>3, <1>6
<1>8. Cardinality(T) <= Cardinality(T \ {AnyOf(T)})
  BY <1>2, <1>7
<1>9. /\ Cardinality(T) \in Nat
      /\ Cardinality(T \ {AnyOf(T)}) = Cardinality(T) - 1
  BY <1>3, <1>5, FS_Subset, FS_CardinalityType, FS_RemoveElement
<1> QED
  BY <1>8, <1>9

LEMMA Smaller ==
  ASSUME NEW f, NEW g, NEW S, NEW T \in SUBSET S, Adds(f, SUBSET S, g)
  PROVE  Adds(f, SUBSET T, g)
<1>1. SUBSET T \subseteq SUBSET S
  OBVIOUS
<1> QED
  BY <1>1 DEF Adds

(* The sum is that of a function that adds. *)
LEMMA SumAdds ==
  ASSUME NEW f, NEW S, IsFiniteSet(S), \A x \in S : f[x] \in Int
  PROVE  \E g \in [SUBSET S -> Int] :
           Adds(f, SUBSET S, g) /\ SumFunctionOnSet(f, S) = g[S]
<1>1. PICK g \in [SUBSET S -> Int] : Adds(f, SUBSET S, g)
  BY Summed
<1>2. g = Rec(f, S, g)
  BY <1>1 DEF Adds, Rec
<1> DEFINE c == CHOOSE e : e = Rec(f, S, e)
<1>3. c = Rec(f, S, c)
  BY <1>2
<1>4. SumFunctionOnSet(f, S) = c[S]
  BY SumIs
<1> HIDE DEF c
<1>5. Adds(f, SUBSET S, c)
  BY <1>3 DEF Adds, Rec
<1>6. c[S] = g[S]
  BY <1>1, <1>5, Agree
<1> QED
  BY <1>1, <1>4, <1>6

TakesAny(f, S, g) == \A T \in SUBSET S : \A x \in T : g[T] = f[x] + g[T \ {x}]

(* The sum may take any member first. *)
LEMMA AnyOrder ==
  ASSUME NEW f, NEW S, IsFiniteSet(S), \A x \in S : f[x] \in Int,
         NEW g \in [SUBSET S -> Int], Adds(f, SUBSET S, g)
  PROVE  TakesAny(f, S, g)
<1> DEFINE Bad == {T \in SUBSET S : \E x \in T : g[T] # f[x] + g[T \ {x}]}
<1>1. SUFFICES ASSUME Bad # {} PROVE FALSE
  BY DEF TakesAny
<1>2. PICK T \in Bad : \A U \in Bad : Cardinality(T) <= Cardinality(U)
  <2>1. Bad \in SUBSET (SUBSET S)
    OBVIOUS
  <2> HIDE DEF Bad
  <2> QED
    BY <1>1, <2>1, SmallestSet
<1>3. PICK x \in T : g[T] # f[x] + g[T \ {x}]
  BY <1>2
<1> DEFINE y == AnyOf(T)
<1>4. T \in SUBSET S /\ y \in T
  BY <1>2, <1>3, AnyIn
<1>5. g[T] = f[y] + g[T \ {y}] /\ x # y
  BY <1>3, <1>4 DEF Adds
<1>6. \A z \in T : T \ {z} \in SUBSET S /\ T \ {z} \notin Bad
  <2>1. SUFFICES ASSUME NEW z \in T, T \ {z} \in Bad PROVE FALSE
    BY <1>4
  <2>2. Cardinality(T) <= Cardinality(T \ {z})
    BY <1>2, <2>1
  <2>3. /\ Cardinality(T) \in Nat
        /\ Cardinality(T \ {z}) = Cardinality(T) - 1
    BY <1>4, <2>1, FS_Subset, FS_CardinalityType, FS_RemoveElement
  <2> QED
    BY <2>2, <2>3
<1>7. /\ g[T \ {y}] = f[x] + g[(T \ {y}) \ {x}]
      /\ g[T \ {x}] = f[y] + g[(T \ {x}) \ {y}]
  BY <1>4, <1>5, <1>6
<1>8. (T \ {x}) \ {y} = (T \ {y}) \ {x} /\ (T \ {y}) \ {x} \in SUBSET S
  BY <1>4
<1>9. /\ f[x] \in Int /\ f[y] \in Int /\ g[(T \ {y}) \ {x}] \in Int
  BY <1>4, <1>8
<1>10. \A i, j, k \in Int : i + (j + k) = j + (i + k)
  OBVIOUS
<1> HIDE DEF Bad, y
<1> DEFINE k == g[(T \ {y}) \ {x}]
<1>11. /\ g[T] = f[y] + (f[x] + k) /\ g[T \ {x}] = f[y] + k
       /\ k \in Int
  BY <1>5, <1>7, <1>8, <1>9, Zenon
<1> HIDE DEF k
<1>12. f[y] + (f[x] + k) = f[x] + (f[y] + k)
  BY <1>9, <1>10, <1>11, Zenon
<1> QED
  BY <1>3, <1>11, <1>12, Zenon

(* The sum over a set that x belongs to. *)
LEMMA SumTake ==
  ASSUME NEW f, NEW S, IsFiniteSet(S), \A y \in S : f[y] \in Int, NEW x \in S
  PROVE  SumFunctionOnSet(f, S) = f[x] + SumFunctionOnSet(f, S \ {x})
<1>1. PICK g \in [SUBSET S -> Int] :
        Adds(f, SUBSET S, g) /\ SumFunctionOnSet(f, S) = g[S]
  BY SumAdds
<1> DEFINE T == S \ {x}
<1>2. T \in SUBSET S /\ IsFiniteSet(T) /\ \A y \in T : f[y] \in Int
  BY FS_Subset
<1>3. TakesAny(f, S, g)
  BY <1>1, AnyOrder
<1>7. g[S] = f[x] + g[T]
  BY <1>3 DEF TakesAny
<1> HIDE DEF T
<1>4. PICK h \in [SUBSET T -> Int] :
        Adds(f, SUBSET T, h) /\ SumFunctionOnSet(f, T) = h[T]
  BY <1>2, SumAdds
<1>5. Adds(f, SUBSET T, g)
  BY <1>1, <1>2, Smaller
<1>6. h[T] = g[T]
  BY <1>2, <1>4, <1>5, Agree
<1> QED
  BY <1>1, <1>4, <1>6, <1>7 DEF T

(* The sum of numbers is a number. *)
LEMMA SumType ==
  ASSUME NEW f, NEW S, IsFiniteSet(S), \A y \in S : f[y] \in Int
  PROVE  SumFunctionOnSet(f, S) \in Int
<1>1. PICK g \in [SUBSET S -> Int] :
        Adds(f, SUBSET S, g) /\ SumFunctionOnSet(f, S) = g[S]
  BY SumAdds
<1> QED
  BY <1>1

LEMMA SumEmpty ==
  ASSUME NEW f
  PROVE  SumFunctionOnSet(f, {}) = 0
<1>1. IsFiniteSet({}) /\ \A y \in {} : f[y] \in Int
  BY FS_EmptySet
<1>2. PICK g \in [SUBSET {} -> Int] :
        Adds(f, SUBSET {}, g) /\ SumFunctionOnSet(f, {}) = g[{}]
  BY <1>1, SumAdds
<1> QED
  BY <1>2 DEF Adds

(* The sum of zeros. *)
LEMMA SumZero ==
  ASSUME NEW f, NEW S, IsFiniteSet(S), \A y \in S : f[y] = 0
  PROVE  SumFunctionOnSet(f, S) = 0
<1> DEFINE Bad == {T \in SUBSET S : SumFunctionOnSet(f, T) # 0}
<1>1. SUFFICES ASSUME Bad # {} PROVE FALSE
  OBVIOUS
<1>2. PICK T \in Bad : \A U \in Bad : Cardinality(T) <= Cardinality(U)
  <2>1. Bad \in SUBSET (SUBSET S)
    OBVIOUS
  <2> HIDE DEF Bad
  <2> QED
    BY <1>1, <2>1, SmallestSet
<1>3. /\ T \in SUBSET S /\ SumFunctionOnSet(f, T) # 0
      /\ IsFiniteSet(T) /\ Cardinality(T) \in Nat
  BY <1>2, FS_Subset, FS_CardinalityType
<1>4. PICK x : x \in T
  BY <1>3, SumEmpty
<1> DEFINE U == T \ {x}
<1>5. Cardinality(U) = Cardinality(T) - 1 /\ IsFiniteSet(U) /\ U \in SUBSET S
  BY <1>3, <1>4, FS_RemoveElement
<1>6. SumFunctionOnSet(f, U) = 0
  <2>1. U \notin Bad
    BY <1>2, <1>3, <1>5
  <2> QED
    BY <1>5, <2>1
<1>7. \A y \in T : f[y] \in Int /\ f[y] = 0
  BY <1>3
<1>8. SumFunctionOnSet(f, T) = f[x] + SumFunctionOnSet(f, U)
  BY <1>3, <1>4, <1>7, SumTake
<1> HIDE DEF U, Bad
<1> QED
  BY <1>3, <1>4, <1>6, <1>7, <1>8

(* One element more. *)
LEMMA SumOneMore ==
  ASSUME NEW f, NEW S, IsFiniteSet(S), NEW x, x \notin S,
         \A y \in S \cup {x} : f[y] \in Int
  PROVE  SumFunctionOnSet(f, S \cup {x}) = f[x] + SumFunctionOnSet(f, S)
<1>1. IsFiniteSet(S \cup {x})
  BY FS_AddElement
<1>2. (S \cup {x}) \ {x} = S
  OBVIOUS
<1> QED
  BY <1>1, <1>2, SumTake

(* The sum is that of the values. *)
LEMMA SumSame ==
  ASSUME NEW f, NEW h, NEW S, IsFiniteSet(S),
         \A y \in S : f[y] \in Int /\ h[y] = f[y]
  PROVE  SumFunctionOnSet(h, S) = SumFunctionOnSet(f, S)
<1>1. PICK g \in [SUBSET S -> Int] :
        Adds(f, SUBSET S, g) /\ SumFunctionOnSet(f, S) = g[S]
  BY SumAdds
<1>2. PICK e \in [SUBSET S -> Int] :
        Adds(h, SUBSET S, e) /\ SumFunctionOnSet(h, S) = e[S]
  BY SumAdds
<1>3. e[S] = g[S]
  BY <1>1, <1>2, Agree
<1> QED
  BY <1>1, <1>2, <1>3
=============================================================================
