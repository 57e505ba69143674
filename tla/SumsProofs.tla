----------------------------- MODULE SumsProofs -----------------------------
(***************************************************************************)
(* The facts about sums, and about finite sets and numbers, that the other *)
(* proofs rest on.  A sum is a fold, so each of them is an induction.  The *)
(* provers cannot instantiate the induction theorems of the library, which *)
(* take a predicate as a parameter; well-foundedness they can use: of what *)
(* fails a claim there is a smallest one, and it cannot fail.              *)
(***************************************************************************)
EXTENDS Sums, FiniteSetTheorems, WellFoundedInduction, TLAPS

-----------------------------------------------------------------------------
(* Smallest counterexamples *)

(* A non-empty collection of subsets of a finite set has a smallest member:
   what the lemmas below use for induction. *)
LEMMA SmallestSubset ==
    ASSUME NEW S, IsFiniteSet(S), NEW C, C \subseteq SUBSET S, C # {}
    PROVE  \E U \in C : \A W \in C : W \subseteq U => W = U
<1> DEFINE R == StrictSubsetOrdering(S)
<1>1. IsWellFoundedOn(R, SUBSET S)
  BY FS_StrictSubsetOrderingWellFounded, FS_FiniteSubsetsOfFinite
<1>2. \A x, y \in SUBSET S : x \subseteq y /\ x # y => <<x, y>> \in R
  BY DEF StrictSubsetOrdering
<1>3. PICK x \in C : \A y \in C : ~(<<y, x>> \in R)
  <2> HIDE DEF R
  <2>1. QED
    BY <1>1, WFMin
<1>4. QED
  BY <1>2, <1>3

(* A non-empty collection of natural numbers has a smallest member. *)
LEMMA LeastNumber ==
    ASSUME NEW C, C \subseteq Nat, C # {}
    PROVE  \E m \in C : \A k \in C : m <= k
<1> DEFINE R == OpToRel(<, Nat)
<1>1. \A x, y \in Nat : x < y => <<x, y>> \in R
  BY DEF OpToRel
<1>2. IsWellFoundedOn(R, Nat)
  BY NatLessThanWellFounded
<1>3. PICK m \in C : \A k \in C : ~(<<k, m>> \in R)
  <2> HIDE DEF R
  <2>1. QED
    BY <1>2, WFMin
<1> HIDE DEF R
<1>4. \A k \in C : m \in Nat /\ k \in Nat /\ ~(k < m)
  BY <1>1, <1>3
<1>5. QED
  BY <1>4

(* Counting up from 0 reaches every natural number: induction, for a set. *)
LEMMA CountingUp ==
    ASSUME NEW S, 0 \in S, \A n \in Nat : n \in S => n + 1 \in S
    PROVE  \A n \in Nat : n \in S
<1> DEFINE C == {n \in Nat : n \notin S}
<1> SUFFICES ASSUME C # {} PROVE FALSE
  OBVIOUS
<1>1. PICK m \in C : \A k \in C : m <= k
  <2>1. C \subseteq Nat
    OBVIOUS
  <2> HIDE DEF C
  <2>2. QED
    BY <2>1, LeastNumber
<1>2. m \in Nat /\ m # 0 /\ m \notin S
  BY <1>1
<1>3. m - 1 \in Nat /\ m - 1 \in S
  BY <1>1, <1>2
<1>4. (m - 1) + 1 \in S
  BY <1>3
<1>5. QED
  BY <1>2, <1>4

(* What never rises from one number to the next never rises. *)
LEMMA Descends ==
    ASSUME NEW n \in Nat, NEW g, \A i \in 1 .. n + 1 : g[i] \in Int,
           \A i \in 1 .. n : g[i + 1] <= g[i],
           NEW a \in 1 .. n + 1, NEW b \in 1 .. n + 1, a <= b
    PROVE  g[b] <= g[a]
<1> DEFINE S == {k \in Nat : a + k <= n + 1 => g[a + k] <= g[a]}
<1>1. 0 \in S
  <2>1. a + 0 = a /\ g[a] <= g[a]
    OBVIOUS
  <2>2. QED
    BY <2>1
<1>2. ASSUME NEW k \in Nat, k \in S PROVE k + 1 \in S
  <2> SUFFICES ASSUME a + (k + 1) <= n + 1 PROVE g[a + (k + 1)] <= g[a]
    OBVIOUS
  <2>1. a + k \in 1 .. n /\ (a + k) + 1 = a + (k + 1) /\ a + (k + 1) \in 1 .. n + 1
    OBVIOUS
  <2>2. g[a + k] <= g[a]
    BY <1>2, <2>1
  <2>3. g[a + (k + 1)] <= g[a + k]
    BY <2>1
  <2>4. g[a + (k + 1)] \in Int /\ g[a + k] \in Int /\ g[a] \in Int
    BY <2>1
  <2>5. QED
    BY <2>2, <2>3, <2>4
<1>3. \A k \in Nat : k \in S
  <2> HIDE DEF S
  <2>1. QED
    BY <1>1, <1>2, CountingUp
<1> DEFINE k == b - a
<1>4. k \in Nat /\ a + k = b /\ b <= n + 1
  OBVIOUS
<1>5. a + k <= n + 1 => g[a + k] <= g[a]
  BY <1>3, <1>4
<1> HIDE DEF k
<1>6. QED
  BY <1>4, <1>5

-----------------------------------------------------------------------------
(* The fold is what it says: a function on the subsets, value by value *)

Picked(S) == CHOOSE x \in S : TRUE

IsSum(g, f, S) ==
    g = [s \in SUBSET S |-> IF s = {} THEN 0 ELSE g[s \ {Picked(s)}] + f[Picked(s)]]

SumTable(f, S) == CHOOSE g : IsSum(g, f, S)

LEMMA SumOverIsTable ==
    ASSUME NEW S, NEW f
    PROVE  SumOver(f, S) = SumTable(f, S)[S]
BY DEF SumOver, FoldSet, MapThenFoldSet, SumTable, IsSum, Picked

LEMMA PickedIsThere == ASSUME NEW S, S # {} PROVE Picked(S) \in S
BY DEF Picked

LEMMA IsSumAt ==
    ASSUME NEW S, NEW f, NEW g, IsSum(g, f, S), NEW U \in SUBSET S
    PROVE  /\ U = {} => g[U] = 0
           /\ U # {} => g[U] = g[U \ {Picked(U)}] + f[Picked(U)]
BY DEF IsSum

(* two such functions agree where both are defined *)
LEMMA TablesAgree ==
    ASSUME NEW A, NEW B, IsFiniteSet(A), NEW f, NEW g, NEW h,
           IsSum(g, f, A), IsSum(h, f, B), NEW V \in SUBSET A, V \in SUBSET B
    PROVE  g[V] = h[V]
<1> DEFINE C == {U \in SUBSET A : U \in SUBSET B /\ g[U] # h[U]}
<1> SUFFICES C = {}
  OBVIOUS
<1> SUFFICES ASSUME C # {} PROVE FALSE
  OBVIOUS
<1>1. PICK U \in C : \A W \in C : W \subseteq U => W = U
  <2>1. C \subseteq SUBSET A
    OBVIOUS
  <2> HIDE DEF C
  <2>2. QED
    BY <2>1, SmallestSubset
<1>2. U # {}
  BY <1>1, IsSumAt
<1>3. U \ {Picked(U)} \notin C
  BY <1>1, <1>2, PickedIsThere
<1>4. g[U \ {Picked(U)}] = h[U \ {Picked(U)}]
  BY <1>1, <1>3
<1>5. QED
  BY <1>1, <1>2, <1>4, IsSumAt

LEMMA TableExists ==
    ASSUME NEW S, IsFiniteSet(S), NEW f
    PROVE  IsSum(SumTable(f, S), f, S)
<1> DEFINE C == {U \in SUBSET S : ~IsSum(SumTable(f, U), f, U)}
<1> SUFFICES C = {}
  OBVIOUS
<1> SUFFICES ASSUME C # {} PROVE FALSE
  OBVIOUS
<1>1. PICK U \in C : \A W \in C : W \subseteq U => W = U
  <2>1. C \subseteq SUBSET S
    OBVIOUS
  <2> HIDE DEF C
  <2>2. QED
    BY <2>1, SmallestSubset
<1> DEFINE Value(W) == SumTable(f, W)[W]
           h == [W \in SUBSET U |->
                    IF W = {} THEN 0 ELSE Value(W \ {Picked(W)}) + f[Picked(W)]]
<1>2. ASSUME NEW W \in SUBSET U, W # {}
      PROVE  Value(W \ {Picked(W)}) = h[W \ {Picked(W)}]
  <2> DEFINE X == W \ {Picked(W)}
             Y == X \ {Picked(X)}
  <2>1. X \in SUBSET U /\ X # U /\ IsFiniteSet(X)
    BY <1>2, PickedIsThere, FS_Subset
  <2>2. IsSum(SumTable(f, X), f, X)
    BY <1>1, <2>1
  <2>3. CASE X = {}
    BY <2>1, <2>2, <2>3, IsSumAt
  <2>4. CASE X # {}
    <3>1. Y \in SUBSET X /\ Y # U /\ IsFiniteSet(Y)
      BY <2>1, <2>4, FS_Subset
    <3>2. IsSum(SumTable(f, Y), f, Y)
      BY <1>1, <2>1, <3>1
    <3>3. SumTable(f, X)[Y] = SumTable(f, Y)[Y]
      BY <2>1, <2>2, <3>1, <3>2, TablesAgree
    <3>4. SumTable(f, X)[X] = SumTable(f, X)[Y] + f[Picked(X)]
      <4>1. X \in SUBSET X
        OBVIOUS
      <4> HIDE DEF X
      <4>2. QED
        BY <2>2, <2>4, <4>1, IsSumAt
    <3>5. h[X] = SumTable(f, Y)[Y] + f[Picked(X)]
      BY <2>1, <2>4
    <3>6. QED
      BY <3>3, <3>4, <3>5
  <2>5. QED
    BY <2>3, <2>4
<1>3. IsSum(h, f, U)
  <2>1. \A W \in SUBSET U : h[W] = IF W = {} THEN 0 ELSE h[W \ {Picked(W)}] + f[Picked(W)]
    BY <1>2
  <2>2. h = [W \in SUBSET U |-> h[W]]
    OBVIOUS
  <2> HIDE DEF h
  <2>3. QED
    BY <2>1, <2>2 DEF IsSum
<1>4. IsSum(SumTable(f, U), f, U)
  <2> HIDE DEF h
  <2>1. QED
    BY <1>3 DEF SumTable
<1>5. QED
  BY <1>1, <1>4

(* SumOver, one element after the other *)
LEMMA SumUnfolds ==
    ASSUME NEW S, IsFiniteSet(S), NEW f
    PROVE  /\ S = {} => SumOver(f, S) = 0
           /\ S # {} => SumOver(f, S) = SumOver(f, S \ {Picked(S)}) + f[Picked(S)]
<1> DEFINE X == S \ {Picked(S)}
<1>1. IsFiniteSet(X) /\ X \in SUBSET S
  BY FS_Subset
<1>2. IsSum(SumTable(f, S), f, S) /\ IsSum(SumTable(f, X), f, X)
  BY <1>1, TableExists
<1>3. SumTable(f, S)[X] = SumTable(f, X)[X]
  <2> DEFINE g == SumTable(f, S)
             h == SumTable(f, X)
  <2>1. IsSum(g, f, S) /\ IsSum(h, f, X) /\ X \in SUBSET X
    BY <1>2
  <2> HIDE DEF X, g, h
  <2>2. g[X] = h[X]
    BY <1>1, <2>1, TablesAgree
  <2>3. QED
    BY <2>2 DEF g, h
<1>4. S \in SUBSET S
  OBVIOUS
<1>5. /\ S = {} => SumTable(f, S)[S] = 0
      /\ S # {} => SumTable(f, S)[S] = SumTable(f, S)[X] + f[Picked(S)]
  <2>1. IsSum(SumTable(f, S), f, S)
    BY <1>2
  <2> DEFINE g == SumTable(f, S)
  <2>2. IsSum(g, f, S)
    BY <2>1
  <2> HIDE DEF g
  <2>3. /\ S = {} => g[S] = 0
        /\ S # {} => g[S] = g[S \ {Picked(S)}] + f[Picked(S)]
    BY <1>4, <2>2, IsSumAt
  <2>4. QED
    BY <2>3 DEF g
<1>6. SumOver(f, S) = SumTable(f, S)[S] /\ SumOver(f, X) = SumTable(f, X)[X]
  BY SumOverIsTable
<1>7. QED
  BY <1>3, <1>5, <1>6

-----------------------------------------------------------------------------
(* What the proofs use *)

LEMMA SumOfNone ==
    ASSUME NEW f, NEW U, U = {}
    PROVE  SumOver(f, U) = 0
<1>1. IsFiniteSet(U)
  BY FS_EmptySet
<1>2. QED
  BY <1>1, SumUnfolds

LEMMA SumType ==
    ASSUME NEW S, IsFiniteSet(S), NEW f, \A x \in S : f[x] \in Int
    PROVE  SumOver(f, S) \in Int
<1> DEFINE C == {U \in SUBSET S : SumOver(f, U) \notin Int}
<1> SUFFICES ASSUME C # {} PROVE FALSE
  OBVIOUS
<1>1. PICK U \in C : \A W \in C : W \subseteq U => W = U
  <2>1. C \subseteq SUBSET S
    OBVIOUS
  <2> HIDE DEF C
  <2>2. QED
    BY <2>1, SmallestSubset
<1>2. IsFiniteSet(U)
  BY <1>1, FS_Subset
<1>3. U # {}
  <2> SUFFICES ASSUME U = {} PROVE FALSE
    OBVIOUS
  <2>1. SumOver(f, U) = 0
    BY SumOfNone
  <2>2. QED
    BY <1>1, <2>1
<1>4. Picked(U) \in U
  BY <1>3, PickedIsThere
<1>5. SumOver(f, U \ {Picked(U)}) \in Int
  BY <1>1, <1>4
<1>6. SumOver(f, U) = SumOver(f, U \ {Picked(U)}) + f[Picked(U)]
  BY <1>2, <1>3, SumUnfolds
<1>7. f[Picked(U)] \in Int /\ SumOver(f, U) \notin Int
  BY <1>1, <1>4
<1>8. QED
  BY <1>5, <1>6, <1>7

(* any element may be the last one *)
LEMMA SumRemoves ==
    ASSUME NEW S, IsFiniteSet(S), NEW f, \A x \in S : f[x] \in Int, NEW e \in S
    PROVE  SumOver(f, S) = SumOver(f, S \ {e}) + f[e]
<1> DEFINE C == {U \in SUBSET S : \E x \in U : SumOver(f, U) # SumOver(f, U \ {x}) + f[x]}
<1> SUFFICES ASSUME C # {} PROVE FALSE
  OBVIOUS
<1>1. PICK U \in C : \A W \in C : W \subseteq U => W = U
  <2>1. C \subseteq SUBSET S
    OBVIOUS
  <2> HIDE DEF C
  <2>2. QED
    BY <2>1, SmallestSubset
<1>2. PICK x \in U : SumOver(f, U) # SumOver(f, U \ {x}) + f[x]
  BY <1>1
<1> DEFINE c == Picked(U)
<1>3. IsFiniteSet(U) /\ c \in U
  BY <1>1, <1>2, FS_Subset, PickedIsThere
<1>4. SumOver(f, U) = SumOver(f, U \ {c}) + f[c]
  BY <1>2, <1>3, SumUnfolds
<1>5. x # c
  BY <1>2, <1>4
<1>6. U \ {c} \notin C /\ U \ {x} \notin C
  BY <1>1, <1>2, <1>3
<1> DEFINE rest == (U \ {c}) \ {x}
<1>7. SumOver(f, U \ {c}) = SumOver(f, rest) + f[x]
  BY <1>1, <1>2, <1>5, <1>6
<1>8. SumOver(f, U \ {x}) = SumOver(f, (U \ {x}) \ {c}) + f[c]
  BY <1>1, <1>3, <1>5, <1>6
<1>9. (U \ {x}) \ {c} = rest
  OBVIOUS
<1>10. SumOver(f, rest) \in Int /\ f[x] \in Int /\ f[c] \in Int
  <2>1. IsFiniteSet(rest) /\ rest \subseteq S
    BY <1>1, <1>3, FS_Subset
  <2>2. QED
    BY <1>1, <1>2, <1>3, <2>1, SumType
<1>11. SumOver(f, U \ {x}) = SumOver(f, rest) + f[c]
  BY <1>8, <1>9
<1>12. SumOver(f, U) # SumOver(f, U \ {x}) + f[x]
  BY <1>2
<1> HIDE DEF rest, c
<1>13. QED
  BY <1>4, <1>7, <1>10, <1>11, <1>12

LEMMA SumMonotone ==
    ASSUME NEW S, IsFiniteSet(S), NEW f, NEW g,
           \A x \in S : f[x] \in Int /\ g[x] \in Int /\ f[x] <= g[x]
    PROVE  SumOver(f, S) <= SumOver(g, S)
<1> DEFINE C == {U \in SUBSET S : ~(SumOver(f, U) <= SumOver(g, U))}
<1> SUFFICES ASSUME C # {} PROVE FALSE
  OBVIOUS
<1>1. PICK U \in C : \A W \in C : W \subseteq U => W = U
  <2>1. C \subseteq SUBSET S
    OBVIOUS
  <2> HIDE DEF C
  <2>2. QED
    BY <2>1, SmallestSubset
<1>2. IsFiniteSet(U)
  BY <1>1, FS_Subset
<1>3. U # {}
  <2> SUFFICES ASSUME U = {} PROVE FALSE
    OBVIOUS
  <2>1. SumOver(f, U) = 0 /\ SumOver(g, U) = 0
    BY SumOfNone
  <2>2. QED
    BY <1>1, <2>1
<1> DEFINE x == Picked(U)
           X == U \ {x}
<1>4. x \in U /\ x \in S
  BY <1>1, <1>3, PickedIsThere
<1>5. X \notin C /\ X \subseteq S /\ IsFiniteSet(X)
  BY <1>1, <1>2, <1>4, FS_Subset
<1>6. SumOver(f, X) <= SumOver(g, X) /\ SumOver(f, X) \in Int /\ SumOver(g, X) \in Int
  BY <1>5, SumType
<1>7. SumOver(f, U) = SumOver(f, X) + f[x] /\ SumOver(g, U) = SumOver(g, X) + g[x]
  BY <1>2, <1>3, SumUnfolds
<1>8. f[x] \in Int /\ g[x] \in Int /\ f[x] <= g[x]
  BY <1>4
<1>9. ~(SumOver(f, U) <= SumOver(g, U))
  BY <1>1
<1> HIDE DEF x, X
<1>10. QED
  BY <1>6, <1>7, <1>8, <1>9

LEMMA SumEqual ==
    ASSUME NEW S, IsFiniteSet(S), NEW f, NEW g,
           \A x \in S : f[x] \in Int /\ g[x] = f[x]
    PROVE  SumOver(f, S) = SumOver(g, S)
<1>1. SumOver(f, S) <= SumOver(g, S) /\ SumOver(g, S) <= SumOver(f, S)
  BY SumMonotone
<1>2. SumOver(f, S) \in Int /\ SumOver(g, S) \in Int
  BY SumType
<1>3. QED
  BY <1>1, <1>2

(* a sum moves as its one element moves *)
LEMMA SumChanges ==
    ASSUME NEW S, IsFiniteSet(S), NEW f, NEW g, NEW e \in S,
           \A x \in S : f[x] \in Int /\ g[x] \in Int,
           \A x \in S \ {e} : g[x] = f[x]
    PROVE  SumOver(g, S) = SumOver(f, S) + g[e] - f[e]
<1> DEFINE X == S \ {e}
<1>1. IsFiniteSet(X)
  BY FS_Subset
<1>2. SumOver(f, X) = SumOver(g, X)
  BY <1>1, SumEqual
<1>3. SumOver(f, X) \in Int
  BY <1>1, SumType
<1>4. SumOver(f, S) = SumOver(f, X) + f[e] /\ SumOver(g, S) = SumOver(g, X) + g[e]
  BY SumRemoves
<1> HIDE DEF X
<1>5. QED
  BY <1>2, <1>3, <1>4

(* the sum of sums *)
LEMMA SumAdds ==
    ASSUME NEW S, IsFiniteSet(S), NEW f, NEW g, NEW h,
           \A x \in S : f[x] \in Int /\ g[x] \in Int /\ h[x] = f[x] + g[x]
    PROVE  SumOver(h, S) = SumOver(f, S) + SumOver(g, S)
<1> DEFINE C == {U \in SUBSET S : SumOver(h, U) # SumOver(f, U) + SumOver(g, U)}
<1> SUFFICES ASSUME C # {} PROVE FALSE
  OBVIOUS
<1>1. PICK U \in C : \A W \in C : W \subseteq U => W = U
  <2>1. C \subseteq SUBSET S
    OBVIOUS
  <2> HIDE DEF C
  <2>2. QED
    BY <2>1, SmallestSubset
<1>2. IsFiniteSet(U)
  BY <1>1, FS_Subset
<1>3. U # {}
  <2> SUFFICES ASSUME U = {} PROVE FALSE
    OBVIOUS
  <2>1. SumOver(f, U) = 0 /\ SumOver(g, U) = 0 /\ SumOver(h, U) = 0
    BY SumOfNone
  <2>2. QED
    BY <1>1, <2>1
<1> DEFINE x == Picked(U)
           X == U \ {x}
<1>4. x \in U /\ x \in S
  BY <1>1, <1>3, PickedIsThere
<1>5. X \notin C /\ X \subseteq S /\ IsFiniteSet(X)
  BY <1>1, <1>2, <1>4, FS_Subset
<1>6. /\ SumOver(h, X) = SumOver(f, X) + SumOver(g, X)
      /\ SumOver(f, X) \in Int /\ SumOver(g, X) \in Int
  BY <1>5, SumType
<1>7. /\ SumOver(f, U) = SumOver(f, X) + f[x] /\ SumOver(g, U) = SumOver(g, X) + g[x]
      /\ SumOver(h, U) = SumOver(h, X) + h[x]
  BY <1>2, <1>3, SumUnfolds
<1>8. f[x] \in Int /\ g[x] \in Int /\ h[x] = f[x] + g[x]
  BY <1>4
<1>9. SumOver(h, U) # SumOver(f, U) + SumOver(g, U)
  BY <1>1
<1> HIDE DEF x, X
<1>10. QED
  BY <1>6, <1>7, <1>8, <1>9

LEMMA SumOfZeros ==
    ASSUME NEW S, IsFiniteSet(S), NEW f, \A x \in S : f[x] = 0
    PROVE  SumOver(f, S) = 0
<1>1. \A x \in S : f[x] \in Int /\ f[x] \in Int /\ f[x] = f[x] + f[x]
  <2>1. \A x \in S : f[x] = 0
    OBVIOUS
  <2>2. 0 \in Int /\ 0 = 0 + 0
    OBVIOUS
  <2>3. QED
    BY <2>1, <2>2
<1>2. SumOver(f, S) = SumOver(f, S) + SumOver(f, S)
  BY <1>1, SumAdds
<1>3. SumOver(f, S) \in Int
  BY <1>1, SumType
<1> DEFINE n == SumOver(f, S)
<1>4. n \in Int /\ n = n + n
  BY <1>2, <1>3
<1> HIDE DEF n
<1>5. n = 0
  BY <1>4
<1>6. QED
  BY <1>5 DEF n

(* what is left over from one number to the next adds up *)
LEMMA SumTelescopes ==
    ASSUME NEW n \in Nat, NEW f, NEW g, \A i \in 1 .. n + 1 : g[i] \in Int,
           \A i \in 1 .. n : f[i] \in Int /\ g[i + 1] = g[i] - f[i]
    PROVE  SumOver(f, 1 .. n) = g[1] - g[n + 1]
<1> DEFINE S == {k \in Nat : k <= n => SumOver(f, 1 .. k) = g[1] - g[k + 1]}
<1>1. 0 \in S
  <2>1. SumOver(f, 1 .. 0) = 0
    BY SumOfNone
  <2>2. g[1] - g[0 + 1] = 0
    OBVIOUS
  <2>3. QED
    BY <2>1, <2>2
<1>2. ASSUME NEW k \in Nat, k \in S PROVE k + 1 \in S
  <2> SUFFICES ASSUME k + 1 <= n PROVE SumOver(f, 1 .. k + 1) = g[1] - g[(k + 1) + 1]
    OBVIOUS
  <2>1. SumOver(f, 1 .. k) = g[1] - g[k + 1]
    BY <1>2
  <2>2. SumOver(f, 1 .. k + 1) = SumOver(f, 1 .. k) + f[k + 1]
    <3> DEFINE T == 1 .. k + 1
               e == k + 1
    <3>1. T \ {e} = 1 .. k /\ e \in T
      OBVIOUS
    <3>2. IsFiniteSet(T)
      BY FS_Interval
    <3>3. \A x \in T : f[x] \in Int
      OBVIOUS
    <3> HIDE DEF T, e
    <3>4. SumOver(f, T) = SumOver(f, T \ {e}) + f[e]
      BY <3>1, <3>2, <3>3, SumRemoves
    <3>5. QED
      BY <3>1, <3>4 DEF T, e
  <2>3. f[k + 1] \in Int /\ g[(k + 1) + 1] = g[k + 1] - f[k + 1]
    OBVIOUS
  <2>4. g[1] \in Int /\ g[k + 1] \in Int
    OBVIOUS
  <2>5. QED
    BY <2>1, <2>2, <2>3, <2>4
<1>3. \A k \in Nat : k \in S
  <2> HIDE DEF S
  <2>1. QED
    BY <1>1, <1>2, CountingUp
<1>4. QED
  BY <1>3

LEMMA SumNotNegative ==
    ASSUME NEW S, IsFiniteSet(S), NEW f, \A x \in S : f[x] \in Nat
    PROVE  SumOver(f, S) \in Nat
<1> DEFINE none == [x \in S |-> 0]
<1>1. \A x \in S : none[x] = 0 /\ none[x] \in Int /\ f[x] \in Int /\ none[x] <= f[x]
  OBVIOUS
<1> HIDE DEF none
<1>2. SumOver(none, S) <= SumOver(f, S)
  BY <1>1, SumMonotone
<1>3. SumOver(none, S) = 0
  BY <1>1, SumOfZeros
<1>4. SumOver(f, S) \in Int
  BY <1>1, SumType
<1>5. QED
  BY <1>2, <1>3, <1>4

(* what adds nothing can be left out *)
LEMMA SumIgnoresZeros ==
    ASSUME NEW S, IsFiniteSet(S), NEW U \in SUBSET S, NEW f,
           \A x \in S : f[x] \in Int, \A x \in S \ U : f[x] = 0
    PROVE  SumOver(f, S) = SumOver(f, U)
<1> DEFINE C == {W \in SUBSET S : U \subseteq W /\ SumOver(f, W) # SumOver(f, U)}
<1> SUFFICES ASSUME C # {} PROVE FALSE
  OBVIOUS
<1>1. C \subseteq SUBSET S
  OBVIOUS
<1>2. PICK W \in C : \A V \in C : V \subseteq W => V = W
  <2> HIDE DEF C
  <2>1. QED
    BY <1>1, SmallestSubset
<1>3. W \subseteq S /\ U \subseteq W /\ SumOver(f, W) # SumOver(f, U)
  OBVIOUS
<1>4. PICK e \in W : e \notin U
  BY <1>3
<1>5. SumOver(f, W \ {e}) = SumOver(f, U)
  <2>1. W \ {e} \subseteq W /\ W \ {e} # W /\ W \ {e} \in SUBSET S /\ U \subseteq W \ {e}
    BY <1>3, <1>4
  <2>2. W \ {e} \notin C
    <3> HIDE DEF C
    <3>1. QED
      BY <1>2, <2>1
  <2>3. QED
    BY <2>1, <2>2
<1>6. IsFiniteSet(W) /\ IsFiniteSet(W \ {e})
  BY <1>3, FS_Subset
<1>7. \A x \in W : f[x] \in Int
  BY <1>3
<1>8. SumOver(f, W) = SumOver(f, W \ {e}) + f[e]
  BY <1>4, <1>6, <1>7, SumRemoves
<1>9. SumOver(f, W \ {e}) \in Int
  BY <1>6, <1>7, SumType
<1>10. f[e] = 0
  BY <1>3, <1>4
<1>11. QED
  BY <1>3, <1>5, <1>8, <1>9, <1>10
=============================================================================
