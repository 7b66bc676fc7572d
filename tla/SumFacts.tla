------------------------------ MODULE SumFacts ------------------------------
(***************************************************************************)
(* Facts about SumFunctionOnSet, which adds up every ledger of the model   *)
(* (stakes of the validators, debts of the windows).  The library computes *)
(* it by a recursive function on the subsets of a finite set, and these    *)
(* facts come from a smallest subset on which one of them would fail.      *)
(***************************************************************************)
EXTENDS Integers, Functions, FiniteSets, FiniteSetTheorems,
        WellFoundedInduction, TLAPS

Pick(s) == CHOOSE x \in s : TRUE

\* g sums f over every subset of T, an element at a time.
IsSum(g, f, T) ==
    g = [s \in SUBSET T |->
            IF s = {} THEN 0 ELSE f[Pick(s)] + g[s \ {Pick(s)}]]

(* The sum over T is the value at T of a solution of the fold's equation.  *)
LEMMA SumIsASolution ==
    ASSUME NEW f, NEW T
    PROVE  SumFunctionOnSet(f, T) = (CHOOSE g : IsSum(g, f, T))[T]
  BY DEF SumFunctionOnSet, FoldFunctionOnSet, MapThenFoldSet, IsSum, Pick

(* What Pick chooses is a member.                                          *)
LEMMA PickInSet == ASSUME NEW s, s # {} PROVE Pick(s) \in s
  BY DEF Pick

(* Induction on the subsets of a finite set: a collection of them that is  *)
(* not empty has a member none of whose proper subsets is in it.           *)
LEMMA SmallestSubset ==
    ASSUME NEW T, IsFiniteSet(T), NEW B \in SUBSET SUBSET T, B # {}
    PROVE  \E m \in B : \A s \in B : s \subseteq m => s = m
  <1>1. IsWellFoundedOn(StrictSubsetOrdering(T), SUBSET T)
    BY FS_StrictSubsetOrderingWellFounded, FS_FiniteSubsetsOfFinite
  <1>2. PICK m \in B : \A s \in B : ~(<<s, m>> \in StrictSubsetOrdering(T))
    BY <1>1, WFMin
  <1>3. ASSUME NEW s \in B, s \subseteq m, s # m PROVE FALSE
    <2>1. <<s, m>> \in (SUBSET T) \X (SUBSET T)
      OBVIOUS
    <2> QED BY <1>2, <1>3, <2>1 DEF StrictSubsetOrdering
  <1> QED BY <1>3

(* Two solutions of the equation agree on every subset.                    *)
LEMMA SolutionsAgree ==
    ASSUME NEW f, NEW T, IsFiniteSet(T),
           NEW g, IsSum(g, f, T), NEW h, IsSum(h, f, T), NEW s \in SUBSET T
    PROVE  g[s] = h[s]
  <1> DEFINE B == {u \in SUBSET T : g[u] # h[u]}
  <1>1. ASSUME B # {} PROVE FALSE
    <2>1. PICK m \in B : \A u \in B : u \subseteq m => u = m
      <3>1. B \in SUBSET SUBSET T
        OBVIOUS
      <3> HIDE DEF B
      <3> QED BY <1>1, <3>1, SmallestSubset
    <2>2. m \in SUBSET T /\ g[m] # h[m]
      BY <2>1
    <2>3. m # {}
      BY <2>2 DEF IsSum
    <2> DEFINE r == m \ {Pick(m)}
    <2>4. r \in SUBSET T /\ r \subseteq m /\ r # m
      BY <2>2, <2>3, PickInSet
    <2>5. g[r] = h[r]
      BY <2>1, <2>4
    <2>6. g[m] = f[Pick(m)] + g[r] /\ h[m] = f[Pick(m)] + h[r]
      BY <2>2, <2>3 DEF IsSum
    <2> QED BY <2>2, <2>5, <2>6
  <1> QED BY <1>1

(* A solution over a set is one over each of its subsets.                  *)
LEMMA SolutionRestricts ==
    ASSUME NEW f, NEW T, NEW g, IsSum(g, f, T), NEW U \in SUBSET T
    PROVE  IsSum([s \in SUBSET U |-> g[s]], f, U)
  <1> DEFINE h == [s \in SUBSET U |-> g[s]]
  <1>1. ASSUME NEW s \in SUBSET U
        PROVE  h[s] = IF s = {} THEN 0 ELSE f[Pick(s)] + h[s \ {Pick(s)}]
    <2>1. s \in SUBSET T /\ s \ {Pick(s)} \in SUBSET U
      OBVIOUS
    <2> QED BY <2>1 DEF IsSum
  <1> HIDE DEF h
  <1>2. h = [s \in SUBSET U |-> h[s]]
    BY DEF h
  <1>3. IsSum(h, f, U)
    BY <1>1, <1>2 DEF IsSum
  <1> QED BY <1>3 DEF h

(* One element more: solutions on the proper subsets of m make one on m.   *)
LEMMA SolutionExtends ==
    ASSUME NEW f, NEW m, IsFiniteSet(m),
           \A u \in SUBSET m : u # m => \E g : IsSum(g, f, u)
    PROVE  \E g : IsSum(g, f, m)
  <1> DEFINE Sol(u) == CHOOSE g : IsSum(g, f, u)
             G == [s \in SUBSET m |->
                     IF s = {} THEN 0
                     ELSE f[Pick(s)] + Sol(s \ {Pick(s)})[s \ {Pick(s)}]]
  <1>1. ASSUME NEW u \in SUBSET m, u # m PROVE IsSum(Sol(u), f, u)
    BY <1>1
  <1>2. ASSUME NEW u \in SUBSET m, u # m PROVE G[u] = Sol(u)[u]
    <2>1. CASE u = {}
      <3>1. Sol(u)[u] = 0
        <4> HIDE DEF Sol
        <4> QED BY <1>1, <1>2, <2>1 DEF IsSum
      <3> QED BY <2>1, <3>1
    <2>2. CASE u # {}
      <3> DEFINE r == u \ {Pick(u)}
      <3>1. r \in SUBSET u /\ r \in SUBSET m /\ r # m
        BY <1>2, <2>2, PickInSet
      <3>2. IsSum(Sol(u), f, u) /\ IsSum(Sol(r), f, r) /\ IsFiniteSet(r)
        BY <1>1, <1>2, <3>1, FS_Subset
      <3>3. IsSum([s \in SUBSET r |-> Sol(u)[s]], f, r)
        <4> HIDE DEF Sol
        <4> QED BY <3>1, <3>2, SolutionRestricts
      <3>4. Sol(u)[r] = Sol(r)[r]
        <4> HIDE DEF Sol
        <4>1. [s \in SUBSET r |-> Sol(u)[s]][r] = Sol(r)[r]
          BY <3>2, <3>3, SolutionsAgree
        <4> QED BY <4>1
      <3>5. Sol(u)[u] = f[Pick(u)] + Sol(u)[r]
        <4> HIDE DEF Sol
        <4> QED BY <2>2, <3>2 DEF IsSum
      <3> QED BY <2>2, <3>4, <3>5
    <2> QED BY <2>1, <2>2
  <1>3. ASSUME NEW s \in SUBSET m
        PROVE  G[s] = IF s = {} THEN 0 ELSE f[Pick(s)] + G[s \ {Pick(s)}]
    <2>1. CASE s = {}
      BY <2>1
    <2>2. CASE s # {}
      <3>1. s \ {Pick(s)} \in SUBSET m /\ s \ {Pick(s)} # m
        BY <2>2, PickInSet
      <3>2. G[s \ {Pick(s)}] = Sol(s \ {Pick(s)})[s \ {Pick(s)}]
        BY <1>2, <3>1
      <3>3. G[s] = f[Pick(s)] + Sol(s \ {Pick(s)})[s \ {Pick(s)}]
        BY <2>2
      <3> HIDE DEF G, Sol
      <3> QED BY <2>2, <3>2, <3>3
    <2> QED BY <2>1, <2>2
  <1>4. G = [s \in SUBSET m |-> G[s]]
    OBVIOUS
  <1> HIDE DEF G
  <1>5. IsSum(G, f, m)
    BY <1>3, <1>4 DEF IsSum
  <1> QED BY <1>5

(* The equation of the fold has a solution over every finite set.          *)
LEMMA SolutionExists ==
    ASSUME NEW f, NEW T, IsFiniteSet(T)
    PROVE  \E g : IsSum(g, f, T)
  <1> DEFINE B == {u \in SUBSET T : ~ \E g : IsSum(g, f, u)}
  <1>1. ASSUME B # {} PROVE FALSE
    <2>1. PICK m \in B : \A u \in B : u \subseteq m => u = m
      <3>1. B \in SUBSET SUBSET T
        OBVIOUS
      <3> HIDE DEF B
      <3> QED BY <1>1, <3>1, SmallestSubset
    <2>2. m \in SUBSET T /\ IsFiniteSet(m)
      BY <2>1, FS_Subset
    <2>3. \A u \in SUBSET m : u # m => \E g : IsSum(g, f, u)
      BY <2>1, <2>2
    <2> QED BY <2>1, <2>2, <2>3, SolutionExtends
  <1> QED BY <1>1

-----------------------------------------------------------------------------
(* The sum is the chosen element's part and the sum of the rest.           *)
LEMMA SumUnfolds ==
    ASSUME NEW f, NEW T, IsFiniteSet(T)
    PROVE  SumFunctionOnSet(f, T) =
             IF T = {} THEN 0
             ELSE f[Pick(T)] + SumFunctionOnSet(f, T \ {Pick(T)})
  <1> DEFINE g == CHOOSE h : IsSum(h, f, T)
             r == T \ {Pick(T)}
             k == CHOOSE h : IsSum(h, f, r)
  <1>1. IsSum(g, f, T)
    BY SolutionExists
  <1>2. IsFiniteSet(r) /\ r \in SUBSET T
    BY FS_Subset
  <1>3. IsSum(k, f, r)
    BY <1>2, SolutionExists
  <1>4. SumFunctionOnSet(f, T) = g[T] /\ SumFunctionOnSet(f, r) = k[r]
    BY SumIsASolution
  <1> HIDE DEF g, k
  <1>5. g[r] = k[r]
    <2>1. IsSum([s \in SUBSET r |-> g[s]], f, r)
      BY <1>1, <1>2, SolutionRestricts
    <2>2. [s \in SUBSET r |-> g[s]][r] = k[r]
      BY <1>2, <1>3, <2>1, SolutionsAgree
    <2> QED BY <2>2
  <1>6. g[T] = IF T = {} THEN 0 ELSE f[Pick(T)] + g[r]
    BY <1>1 DEF IsSum
  <1> QED BY <1>4, <1>5, <1>6

(* The sum over nothing is zero.                                           *)
LEMMA SumEmpty == ASSUME NEW f PROVE SumFunctionOnSet(f, {}) = 0
  BY SumUnfolds, FS_EmptySet

(* The sum of natural numbers is one.                                      *)
LEMMA SumNat ==
    ASSUME NEW T, IsFiniteSet(T), NEW f, \A x \in T : f[x] \in Nat
    PROVE  SumFunctionOnSet(f, T) \in Nat
  <1> DEFINE B == {u \in SUBSET T : SumFunctionOnSet(f, u) \notin Nat}
  <1>1. ASSUME B # {} PROVE FALSE
    <2>1. PICK m \in B : \A u \in B : u \subseteq m => u = m
      <3>1. B \in SUBSET SUBSET T
        OBVIOUS
      <3> HIDE DEF B
      <3> QED BY <1>1, <3>1, SmallestSubset
    <2>2. m \in SUBSET T /\ IsFiniteSet(m)
      BY <2>1, FS_Subset
    <2>3. m # {} /\ Pick(m) \in m
      <3>1. ASSUME m = {} PROVE FALSE
        <4>1. SumFunctionOnSet(f, m) = 0
          BY <3>1, SumEmpty
        <4> QED BY <2>1, <3>1, <4>1
      <3> QED BY <3>1, PickInSet
    <2> DEFINE r == m \ {Pick(m)}
    <2>4. r \in SUBSET T /\ r \subseteq m /\ r # m
      BY <2>2, <2>3
    <2>5. SumFunctionOnSet(f, r) \in Nat
      BY <2>1, <2>4
    <2>6. SumFunctionOnSet(f, m) = f[Pick(m)] + SumFunctionOnSet(f, r)
      BY <2>2, <2>3, SumUnfolds
    <2>7. f[Pick(m)] \in Nat
      BY <2>2, <2>3
    <2> QED BY <2>1, <2>5, <2>6, <2>7
  <1>2. T \notin B
    BY <1>1
  <1> QED BY <1>2

(* A sum of zeros is zero.                                                 *)
LEMMA SumZero ==
    ASSUME NEW T, IsFiniteSet(T), NEW f, \A x \in T : f[x] = 0
    PROVE  SumFunctionOnSet(f, T) = 0
  <1> DEFINE B == {u \in SUBSET T : SumFunctionOnSet(f, u) # 0}
  <1>1. ASSUME B # {} PROVE FALSE
    <2>1. PICK m \in B : \A u \in B : u \subseteq m => u = m
      <3>1. B \in SUBSET SUBSET T
        OBVIOUS
      <3> HIDE DEF B
      <3> QED BY <1>1, <3>1, SmallestSubset
    <2>2. m \in SUBSET T /\ IsFiniteSet(m) /\ SumFunctionOnSet(f, m) # 0
      BY <2>1, FS_Subset
    <2>3. m # {} /\ Pick(m) \in m
      <3>1. m # {}
        BY <2>2, SumEmpty
      <3> QED BY <3>1, PickInSet
    <2> DEFINE r == m \ {Pick(m)}
    <2>4. r \in SUBSET T /\ r \subseteq m /\ r # m
      BY <2>2, <2>3
    <2>5. SumFunctionOnSet(f, r) = 0 /\ f[Pick(m)] = 0
      BY <2>1, <2>2, <2>3, <2>4
    <2>6. SumFunctionOnSet(f, m) = f[Pick(m)] + SumFunctionOnSet(f, r)
      BY <2>2, <2>3, SumUnfolds
    <2> QED BY <2>2, <2>5, <2>6
  <1>2. T \notin B
    BY <1>1
  <1> QED BY <1>2

(* A common factor of the elements is one of the sum.                      *)
LEMMA SumScaled ==
    ASSUME NEW T, IsFiniteSet(T), NEW k \in Nat, NEW f, NEW h,
           \A x \in T : h[x] \in Nat /\ f[x] = k * h[x]
    PROVE  SumFunctionOnSet(f, T) = k * SumFunctionOnSet(h, T)
  <1> DEFINE B == {u \in SUBSET T :
                      SumFunctionOnSet(f, u) # k * SumFunctionOnSet(h, u)}
  <1>1. ASSUME B # {} PROVE FALSE
    <2>1. PICK m \in B : \A u \in B : u \subseteq m => u = m
      <3>1. B \in SUBSET SUBSET T
        OBVIOUS
      <3> HIDE DEF B
      <3> QED BY <1>1, <3>1, SmallestSubset
    <2>2. /\ m \in SUBSET T /\ IsFiniteSet(m)
          /\ SumFunctionOnSet(f, m) # k * SumFunctionOnSet(h, m)
      BY <2>1, FS_Subset
    <2>3. m # {} /\ Pick(m) \in m
      <3>1. ASSUME m = {} PROVE FALSE
        <4>1. SumFunctionOnSet(f, m) = 0 /\ SumFunctionOnSet(h, m) = 0
          BY <3>1, SumEmpty
        <4> QED BY <2>2, <4>1
      <3> QED BY <3>1, PickInSet
    <2> DEFINE r == m \ {Pick(m)}
    <2>4. r \in SUBSET T /\ r \subseteq m /\ r # m /\ IsFiniteSet(r)
      BY <2>2, <2>3, FS_Subset
    <2>5. SumFunctionOnSet(f, r) = k * SumFunctionOnSet(h, r)
      BY <2>1, <2>4
    <2>6. /\ SumFunctionOnSet(f, m) = f[Pick(m)] + SumFunctionOnSet(f, r)
          /\ SumFunctionOnSet(h, m) = h[Pick(m)] + SumFunctionOnSet(h, r)
      BY <2>2, <2>3, SumUnfolds
    <2>7. SumFunctionOnSet(h, r) \in Nat
      BY <2>4, SumNat
    <2>8. h[Pick(m)] \in Nat /\ f[Pick(m)] = k * h[Pick(m)]
      BY <2>2, <2>3
    <2>9. \A a, b \in Nat : k * (a + b) = k * a + k * b
      OBVIOUS
    <2> QED BY <2>2, <2>5, <2>6, <2>7, <2>8, <2>9
  <1>2. T \notin B
    BY <1>1
  <1> QED BY <1>2

(* Two functions that agree on a finite set have the same sum over it.     *)
LEMMA SumExt ==
    ASSUME NEW T, IsFiniteSet(T), NEW f, NEW h, \A x \in T : f[x] = h[x]
    PROVE  SumFunctionOnSet(f, T) = SumFunctionOnSet(h, T)
  <1> DEFINE B == {u \in SUBSET T :
                      SumFunctionOnSet(f, u) # SumFunctionOnSet(h, u)}
  <1>1. ASSUME B # {} PROVE FALSE
    <2>1. PICK m \in B : \A u \in B : u \subseteq m => u = m
      <3>1. B \in SUBSET SUBSET T
        OBVIOUS
      <3> HIDE DEF B
      <3> QED BY <1>1, <3>1, SmallestSubset
    <2>2. m \in SUBSET T /\ IsFiniteSet(m)
      BY <2>1, FS_Subset
    <2>3. m # {} /\ Pick(m) \in m
      <3>1. ASSUME m = {} PROVE FALSE
        <4>1. SumFunctionOnSet(f, m) = 0 /\ SumFunctionOnSet(h, m) = 0
          BY <3>1, SumEmpty
        <4> QED BY <2>1, <3>1, <4>1
      <3> QED BY <3>1, PickInSet
    <2> DEFINE r == m \ {Pick(m)}
    <2>4. r \in SUBSET T /\ r \subseteq m /\ r # m
      BY <2>2, <2>3
    <2>5. SumFunctionOnSet(f, r) = SumFunctionOnSet(h, r)
      BY <2>1, <2>4
    <2>6. /\ SumFunctionOnSet(f, m) = f[Pick(m)] + SumFunctionOnSet(f, r)
          /\ SumFunctionOnSet(h, m) = h[Pick(m)] + SumFunctionOnSet(h, r)
      BY <2>2, <2>3, SumUnfolds
    <2>7. f[Pick(m)] = h[Pick(m)]
      BY <2>2, <2>3
    <2> QED BY <2>1, <2>5, <2>6, <2>7
  <1>2. T \notin B
    BY <1>1
  <1> QED BY <1>2

(* Any element of a finite set can be taken out of the sum first.          *)
LEMMA SumElement ==
    ASSUME NEW T, IsFiniteSet(T), NEW f, \A x \in T : f[x] \in Int,
           NEW e \in T
    PROVE  /\ SumFunctionOnSet(f, T) \in Int
           /\ SumFunctionOnSet(f, T \ {e}) \in Int
           /\ SumFunctionOnSet(f, T) = f[e] + SumFunctionOnSet(f, T \ {e})
  <1> DEFINE S(u) == SumFunctionOnSet(f, u)
             B == {u \in SUBSET T :
                     \/ S(u) \notin Int
                     \/ \E x \in u : S(u) # f[x] + S(u \ {x})}
  <1>1. ASSUME B # {} PROVE FALSE
    <2>1. PICK m \in B : \A u \in B : u \subseteq m => u = m
      <3>1. B \in SUBSET SUBSET T
        OBVIOUS
      <3> HIDE DEF B
      <3> QED BY <1>1, <3>1, SmallestSubset
    <2>2. m \in SUBSET T /\ IsFiniteSet(m)
      BY <2>1, FS_Subset
    <2>3. m # {} /\ Pick(m) \in m
      <3>1. ASSUME m = {} PROVE FALSE
        <4>1. SumFunctionOnSet(f, m) = 0
          BY <3>1, SumEmpty
        <4>2. S(m) \notin Int \/ \E x \in m : S(m) # f[x] + S(m \ {x})
          BY <2>1
        <4>3. 0 \in Int /\ S(m) = 0
          BY <4>1
        <4> HIDE DEF S, B
        <4> QED BY <3>1, <4>2, <4>3
      <3> QED BY <3>1, PickInSet
    <2> DEFINE p == Pick(m)
               r == m \ {p}
    <2>4. r \in SUBSET T /\ r \subseteq m /\ r # m
      BY <2>2, <2>3
    <2>5. S(r) \in Int /\ \A x \in r : S(r) = f[x] + S(r \ {x})
      BY <2>1, <2>4
    <2>6. S(m) = f[p] + S(r)
      BY <2>2, <2>3, SumUnfolds
    <2>7. f[p] \in Int /\ S(m) \in Int
      BY <2>2, <2>3, <2>5, <2>6
    <2>8. PICK x \in m : S(m) # f[x] + S(m \ {x})
      BY <2>1, <2>7
    <2>9. x # p
      BY <2>6, <2>8
    <2> DEFINE q == m \ {x}
    <2>10. q \in SUBSET T /\ q \subseteq m /\ q # m /\ p \in q
      BY <2>2, <2>3, <2>8, <2>9
    <2>11. S(q) = f[p] + S(q \ {p})
      BY <2>1, <2>10
    <2>12. r \ {x} = q \ {p} /\ x \in r /\ r \ {x} \in SUBSET T
           /\ r \ {x} \subseteq m /\ r \ {x} # m
      BY <2>2, <2>3, <2>8, <2>9
    <2>13. S(r) = f[x] + S(q \ {p}) /\ S(q \ {p}) \in Int /\ f[x] \in Int
      BY <2>1, <2>2, <2>5, <2>8, <2>12
    <2> HIDE DEF S, q, r, p
    <2>14. S(m) = f[x] + S(q)
      BY <2>6, <2>7, <2>11, <2>13
    <2> QED BY <2>8, <2>14 DEF q
  <1>2. T \notin B /\ T \ {e} \notin B
    BY <1>1
  <1> QED BY <1>2

(* A sum does not depend on how its terms are numbered.                    *)
LEMMA SumReindexed ==
    ASSUME NEW T, IsFiniteSet(T), NEW f, NEW g, NEW b, DOMAIN b = T,
           \A x \in T : f[x] \in Int /\ g[b[x]] = f[x],
           \A x, y \in T : b[x] = b[y] => x = y
    PROVE  SumFunctionOnSet(f, T) = SumFunctionOnSet(g, {b[x] : x \in T})
  <1> DEFINE Img(u) == {b[x] : x \in u}
             B == {u \in SUBSET T : SumFunctionOnSet(f, u) # SumFunctionOnSet(g, Img(u))}
  <1>1. ASSUME B # {} PROVE FALSE
    <2>1. PICK m \in B : \A u \in B : u \subseteq m => u = m
      <3>1. B \in SUBSET SUBSET T
        OBVIOUS
      <3> HIDE DEF B
      <3> QED BY <1>1, <3>1, SmallestSubset
    <2>2. m \in SUBSET T /\ IsFiniteSet(m)
      BY <2>1, FS_Subset
    <2>3. m # {}
      <3>1. ASSUME m = {} PROVE FALSE
        <4>1. SumFunctionOnSet(f, m) = 0
          BY <3>1, SumEmpty
        <4>2. Img(m) = {}
          BY <3>1
        <4>3. SumFunctionOnSet(g, Img(m)) = 0
          BY <4>2, SumEmpty
        <4> QED BY <2>1, <4>1, <4>3
      <3> QED BY <3>1
    <2>4. PICK e \in m : TRUE
      BY <2>3
    <2> DEFINE r == m \ {e}
    <2>5. r \in SUBSET T /\ r \subseteq m /\ r # m
      BY <2>2, <2>4
    <2>6. SumFunctionOnSet(f, r) = SumFunctionOnSet(g, Img(r))
      BY <2>1, <2>5
    <2>7. /\ SumFunctionOnSet(f, m) = f[e] + SumFunctionOnSet(f, r)
          /\ f[e] = g[b[e]]
      BY <2>2, <2>4, SumElement
    <2>8. SumFunctionOnSet(g, Img(m)) = g[b[e]] + SumFunctionOnSet(g, Img(r))
      <3>1. IsFiniteSet(Img(m))
        <4> DEFINE c == [x \in m |-> b[x]]
        <4>1. c \in Surjection(m, Img(m))
          BY DEF Surjection
        <4> HIDE DEF c
        <4> QED BY <2>2, <4>1, FS_Surjection
      <3>2. b[e] \in Img(m) /\ \A y \in Img(m) : g[y] \in Int
        BY <2>2, <2>4
      <3>3. Img(m) \ {b[e]} = Img(r)
        BY <2>2, <2>4
      <3> HIDE DEF Img, r
      <3> QED BY <3>1, <3>2, <3>3, SumElement
    <2> QED BY <2>1, <2>6, <2>7, <2>8
  <1>2. T \notin B
    BY <1>1
  <1> QED BY <1>2

-----------------------------------------------------------------------------
(* The sum of what two ledgers hold together is the sum of their sums.     *)
LEMMA SumAdded ==
    ASSUME NEW T, IsFiniteSet(T), NEW f, NEW g, NEW h,
           \A x \in T : g[x] \in Nat /\ h[x] \in Nat /\ f[x] = g[x] + h[x]
    PROVE  SumFunctionOnSet(f, T) = SumFunctionOnSet(g, T) + SumFunctionOnSet(h, T)
  <1> DEFINE S(k, u) == SumFunctionOnSet(k, u)
             B == {u \in SUBSET T : S(f, u) # S(g, u) + S(h, u)}
  <1>1. ASSUME B # {} PROVE FALSE
    <2>1. PICK m \in B : \A u \in B : u \subseteq m => u = m
      <3>1. B \in SUBSET SUBSET T
        OBVIOUS
      <3> HIDE DEF B
      <3> QED BY <1>1, <3>1, SmallestSubset
    <2>2. m \in SUBSET T /\ IsFiniteSet(m) /\ S(f, m) # S(g, m) + S(h, m)
      BY <2>1, FS_Subset
    <2>3. m # {} /\ Pick(m) \in m
      <3>1. ASSUME m = {} PROVE FALSE
        <4>1. S(f, m) = 0 /\ S(g, m) = 0 /\ S(h, m) = 0
          BY <3>1, SumEmpty
        <4> QED BY <2>2, <4>1
      <3> QED BY <3>1, PickInSet
    <2> DEFINE r == m \ {Pick(m)}
    <2>4. r \in SUBSET T /\ r \subseteq m /\ r # m /\ IsFiniteSet(r)
      BY <2>2, <2>3, FS_Subset
    <2>5. S(f, r) = S(g, r) + S(h, r)
      BY <2>1, <2>4
    <2>6. /\ S(f, m) = f[Pick(m)] + S(f, r) /\ S(g, m) = g[Pick(m)] + S(g, r)
          /\ S(h, m) = h[Pick(m)] + S(h, r)
      BY <2>2, <2>3, SumUnfolds
    <2>7. S(g, r) \in Nat /\ S(h, r) \in Nat
      BY <2>4, SumNat
    <2>8. /\ g[Pick(m)] \in Nat /\ h[Pick(m)] \in Nat
          /\ f[Pick(m)] = g[Pick(m)] + h[Pick(m)]
      BY <2>2, <2>3
    <2> HIDE DEF r, S
    <2> QED BY <2>2, <2>5, <2>6, <2>7, <2>8
  <1>2. T \notin B
    BY <1>1
  <1> QED BY <1>2

(* A ledger whose entries are no larger has no larger sum.                 *)
LEMMA SumAtMost ==
    ASSUME NEW T, IsFiniteSet(T), NEW f, NEW h,
           \A x \in T : f[x] \in Nat /\ h[x] \in Nat /\ f[x] <= h[x]
    PROVE  SumFunctionOnSet(f, T) <= SumFunctionOnSet(h, T)
  <1> DEFINE d == [x \in T |-> h[x] - f[x]]
  <1>1. \A x \in T : f[x] \in Nat /\ d[x] \in Nat /\ h[x] = f[x] + d[x]
    OBVIOUS
  <1> HIDE DEF d
  <1>2. SumFunctionOnSet(h, T) = SumFunctionOnSet(f, T) + SumFunctionOnSet(d, T)
    BY <1>1, SumAdded
  <1>3. SumFunctionOnSet(f, T) \in Nat /\ SumFunctionOnSet(d, T) \in Nat
    BY <1>1, SumNat
  <1> QED BY <1>2, <1>3

(* A set in two parts: the sum is the sum of the parts'.                   *)
LEMMA SumSplit ==
    ASSUME NEW W, IsFiniteSet(W), NEW f, \A x \in W : f[x] \in Nat,
           NEW T \in SUBSET W
    PROVE  SumFunctionOnSet(f, W) =
             SumFunctionOnSet(f, T) + SumFunctionOnSet(f, W \ T)
  <1> DEFINE S(u) == SumFunctionOnSet(f, u)
             rest == W \ T
             B == {u \in SUBSET T : S(u \cup rest) # S(u) + S(rest)}
  <1>0. IsFiniteSet(T) /\ IsFiniteSet(rest) /\ S(rest) \in Nat
    BY FS_Subset, SumNat
  <1>1. ASSUME B # {} PROVE FALSE
    <2>1. PICK m \in B : \A u \in B : u \subseteq m => u = m
      <3>1. B \in SUBSET SUBSET T
        OBVIOUS
      <3> HIDE DEF B
      <3> QED BY <1>0, <1>1, <3>1, SmallestSubset
    <2>2. m \in SUBSET T /\ S(m \cup rest) # S(m) + S(rest)
      BY <2>1
    <2>3. m # {} /\ Pick(m) \in m
      <3>1. ASSUME m = {} PROVE FALSE
        <4>1. S(m) = 0 /\ m \cup rest = rest
          BY <3>1, SumEmpty
        <4> QED BY <1>0, <2>2, <4>1
      <3> QED BY <3>1, PickInSet
    <2> DEFINE e == Pick(m)
               r == m \ {e}
               a == m \cup rest
    <2>4. r \in SUBSET T /\ r \subseteq m /\ r # m
      BY <2>2, <2>3
    <2>5. S(r \cup rest) = S(r) + S(rest)
      BY <2>1, <2>4
    <2>6. a \in SUBSET W /\ IsFiniteSet(a) /\ e \in a /\ a \ {e} = r \cup rest
      BY <2>2, <2>3, FS_Subset
    <2>7. IsFiniteSet(m) /\ \A x \in W : f[x] \in Int
      BY <1>0, <2>2, FS_Subset
    <2> HIDE DEF e, a, r, rest
    <2>8. S(a) = f[e] + S(a \ {e})
      BY <2>6, <2>7, SumElement
    <2>9. S(m) = f[e] + S(r) /\ S(r) \in Int /\ f[e] \in Int
      <3>1. \A x \in m : f[x] \in Int
        BY <2>2, <2>7
      <3>2. e \in m
        BY <2>3 DEF e
      <3>3. S(m \ {e}) \in Int /\ S(m) = f[e] + S(m \ {e})
        BY <2>7, <3>1, <3>2, SumElement
      <3> QED BY <3>1, <3>2, <3>3 DEF r
    <2>10. S(a) # S(m) + S(rest)
      BY <2>2 DEF a
    <2>11. S(a) = f[e] + (S(r) + S(rest))
      BY <2>5, <2>6, <2>8
    <2> QED BY <1>0, <2>9, <2>10, <2>11
  <1>2. T \notin B
    BY <1>1
  <1>3. T \cup rest = W
    OBVIOUS
  <1> QED BY <1>2, <1>3

(* Entries that hold nothing do not matter to a sum.                       *)
LEMMA SumOfSupport ==
    ASSUME NEW W, IsFiniteSet(W), NEW T \in SUBSET W, NEW f, NEW g,
           \A x \in T : f[x] \in Nat /\ g[x] = f[x],
           \A x \in W \ T : g[x] = 0
    PROVE  SumFunctionOnSet(f, T) = SumFunctionOnSet(g, W)
  <1>1. IsFiniteSet(T) /\ IsFiniteSet(W \ T) /\ \A x \in W : g[x] \in Nat
    BY FS_Subset
  <1>2. SumFunctionOnSet(g, W) = SumFunctionOnSet(g, T) + SumFunctionOnSet(g, W \ T)
    BY <1>1, SumSplit
  <1>3. SumFunctionOnSet(g, W \ T) = 0
    BY <1>1, SumZero
  <1>4. SumFunctionOnSet(f, T) = SumFunctionOnSet(g, T)
    BY <1>1, SumExt
  <1>5. SumFunctionOnSet(g, T) \in Nat
    BY <1>1, SumNat
  <1> QED BY <1>2, <1>3, <1>4, <1>5

(* Of a finite set of indices with a figure each, one has the largest      *)
(* figure and among those the smallest index.                              *)
LEMMA FirstLargest ==
    ASSUME NEW I, IsFiniteSet(I), I # {}, NEW D,
           \A i \in I : i \in Int /\ D[i] \in Int
    PROVE  \E i \in I : \A j \in I : D[j] < D[i] \/ (D[j] = D[i] /\ i <= j)
  <1> DEFINE First(u, i) == \A j \in u : D[j] < D[i] \/ (D[j] = D[i] /\ i <= j)
             B == {u \in SUBSET I : u # {} /\ ~ \E i \in u : First(u, i)}
  <1>1. ASSUME B # {} PROVE FALSE
    <2>1. PICK m \in B : \A u \in B : u \subseteq m => u = m
      <3>1. B \in SUBSET SUBSET I
        OBVIOUS
      <3>2. IsFiniteSet(I) /\ B # {}
        BY <1>1
      <3> HIDE DEF B
      <3> QED BY <3>1, <3>2, SmallestSubset
    <2>2. m \in SUBSET I /\ m # {} /\ ~ \E i \in m : First(m, i)
      BY <2>1
    <2>3. PICK x \in m : TRUE
      BY <2>2
    <2> DEFINE r == m \ {x}
    <2>4. r # {}
      <3>1. ASSUME r = {} PROVE First(m, x)
        <4>1. \A j \in m : j = x
          BY <3>1
        <4>2. x \in Int /\ D[x] \in Int
          BY <2>2
        <4> QED BY <4>1, <4>2
      <3> QED BY <2>2, <3>1
    <2>5. r \in SUBSET I /\ r \subseteq m /\ r # m
      BY <2>2, <2>3
    <2>6. PICK i \in r : First(r, i)
      BY <2>1, <2>4, <2>5
    <2>7. i \in Int /\ x \in Int /\ D[i] \in Int /\ D[x] \in Int /\ i # x
      BY <2>2, <2>6
    <2>8. CASE D[x] < D[i] \/ (D[x] = D[i] /\ i <= x)
      <3>1. First(m, i)
        BY <2>6, <2>8
      <3> QED BY <2>2, <2>6, <3>1
    <2>9. CASE ~(D[x] < D[i] \/ (D[x] = D[i] /\ i <= x))
      <3>1. D[i] < D[x] \/ (D[i] = D[x] /\ x < i)
        BY <2>7, <2>9
      <3>2. ASSUME NEW j \in m PROVE D[j] < D[x] \/ (D[j] = D[x] /\ x <= j)
        <4>1. j \in Int /\ D[j] \in Int
          BY <2>2
        <4>2. CASE j = x
          BY <2>7, <4>1, <4>2
        <4>3. CASE j # x
          <5>1. D[j] < D[i] \/ (D[j] = D[i] /\ i <= j)
            BY <2>6, <4>3
          <5> QED BY <2>7, <3>1, <4>1, <5>1
        <4> QED BY <4>2, <4>3
      <3> QED BY <2>2, <3>2
    <2> QED BY <2>8, <2>9
  <1>2. I \notin B
    BY <1>1
  <1> QED BY <1>2

-----------------------------------------------------------------------------
(* Amounts taken in turn, each no more than is left when everybody before  *)
(* has had all he may take: together they are no more than there was.      *)
LEMMA TakenInTurn ==
    ASSUME NEW T, IsFiniteSet(T), \A x \in T : x \in Int, NEW f, NEW g, NEW A \in Nat,
           \A x \in T : f[x] \in Nat /\ g[x] \in Nat /\ g[x] <= f[x],
           \A x \in T : \/ g[x] = 0
                        \/ g[x] + SumFunctionOnSet(f, {k \in T : k < x}) <= A
    PROVE  SumFunctionOnSet(g, T) <= A
  <1> DEFINE S(h, u) == SumFunctionOnSet(h, u)
             First(u) == \A x \in u : \A k \in T : k < x => k \in u
             B == {u \in SUBSET T : First(u) /\ ~ (S(g, u) <= A)}
  <1>1. ASSUME B # {} PROVE FALSE
    <2>1. PICK m \in B : \A u \in B : u \subseteq m => u = m
      <3>1. B \in SUBSET SUBSET T
        OBVIOUS
      <3>2. IsFiniteSet(T) /\ B # {}
        BY <1>1
      <3> HIDE DEF B
      <3> QED BY <3>1, <3>2, SmallestSubset
    <2>2. m \in SUBSET T /\ IsFiniteSet(m) /\ First(m) /\ ~ (S(g, m) <= A)
      BY <2>1, FS_Subset
    <2>3. m # {}
      <3>1. ASSUME m = {} PROVE FALSE
        <4>1. S(g, m) = 0
          BY <3>1, SumEmpty
        <4> QED BY <2>2, <4>1
      <3> QED BY <3>1
    <2>4. PICK e \in m : \A j \in m : j <= e
      <3> DEFINE D == [i \in m |-> i]
      <3>1. \A i \in m : i \in Int /\ D[i] \in Int /\ D[i] = i
        BY <2>2
      <3> HIDE DEF D
      <3>2. \E i \in m : \A j \in m : D[j] < D[i] \/ (D[j] = D[i] /\ i <= j)
        BY <2>2, <2>3, <3>1, FirstLargest
      <3> QED BY <3>1, <3>2
    <2> DEFINE r == m \ {e}
    <2>5. r \in SUBSET T /\ r \subseteq m /\ r # m /\ IsFiniteSet(r)
      BY <2>2, <2>4, FS_Subset
    <2>6. First(r) /\ r = {k \in T : k < e}
      <3>1. ASSUME NEW k \in T, k < e PROVE k \in r
        BY <2>2, <2>4, <3>1
      <3>2. ASSUME NEW k \in r PROVE k \in T /\ k < e
        <4>1. k \in Int /\ e \in Int /\ k <= e /\ k # e /\ k \in T
          BY <2>2, <2>4, <3>2
        <4> QED BY <4>1
      <3>3. ASSUME NEW x \in r, NEW k \in T, k < x PROVE k \in r
        <4>1. k \in Int /\ x \in Int /\ e \in Int /\ x < e
          BY <2>2, <2>4, <3>2
        <4>2. k < e
          BY <3>3, <4>1
        <4> QED BY <3>1, <4>2
      <3> QED BY <3>1, <3>2, <3>3
    <2>7. S(g, r) <= A
      BY <2>1, <2>5, <2>6
    <2>8. S(g, m) = g[e] + S(g, r)
      <3>1. \A x \in m : g[x] \in Int
        BY <2>2
      <3>2. S(g, m) = g[e] + S(g, m \ {e}) /\ S(g, m \ {e}) \in Int
        BY <2>2, <2>4, <3>1, SumElement
      <3> QED BY <3>2
    <2>9. S(g, r) <= S(f, r) /\ S(g, r) \in Nat /\ S(f, r) \in Nat
      BY <2>5, SumAtMost, SumNat
    <2>10. g[e] \in Nat /\ (g[e] = 0 \/ g[e] + S(f, r) <= A)
      BY <2>2, <2>4, <2>6
    <2>11. g[e] + S(g, r) <= A
      BY <2>7, <2>9, <2>10
    <2> QED BY <2>2, <2>8, <2>11
  <1>2. T \notin B
    BY <1>1
  <1>3. First(T)
    OBVIOUS
  <1> QED BY <1>2, <1>3

(* Counted from the smallest, the members of a finite set of numbers have  *)
(* different numbers, up to its cardinality.                               *)
LEMMA CountUpTo ==
    ASSUME NEW S, IsFiniteSet(S), \A i \in S : i \in Int, NEW i \in S
    PROVE  /\ Cardinality({j \in S : j <= i}) \in 1 .. Cardinality(S)
           /\ \A l \in S : Cardinality({j \in S : j <= l}) = Cardinality({j \in S : j <= i})
                             => l = i
  <1> DEFINE UpTo(x) == {j \in S : j <= x}
  <1>1. ASSUME NEW x \in S
        PROVE  IsFiniteSet(UpTo(x)) /\ Cardinality(UpTo(x)) \in 1 .. Cardinality(S)
    <2>1. UpTo(x) \in SUBSET S /\ x \in UpTo(x)
      OBVIOUS
    <2>2. IsFiniteSet(UpTo(x)) /\ Cardinality(UpTo(x)) <= Cardinality(S)
      BY <2>1, FS_Subset
    <2>3. Cardinality(UpTo(x)) \in Nat /\ Cardinality(UpTo(x)) # 0
      BY <2>1, <2>2, FS_CardinalityType, FS_EmptySet
    <2> QED BY <2>2, <2>3, FS_CardinalityType
  <1>2. ASSUME NEW x \in S, NEW y \in S, x < y
        PROVE  Cardinality(UpTo(x)) # Cardinality(UpTo(y))
    <2>1. UpTo(x) \in SUBSET UpTo(y) /\ y \in UpTo(y) /\ y \notin UpTo(x)
      BY <1>2
    <2> QED BY <1>1, <2>1, FS_Subset
  <1>3. ASSUME NEW l \in S, Cardinality(UpTo(l)) = Cardinality(UpTo(i)) PROVE l = i
    <2>1. l \in Int /\ i \in Int /\ ~(i < l) /\ ~(l < i)
      BY <1>2, <1>3
    <2> QED BY <2>1
  <1> QED BY <1>1, <1>3

(* Every number up to its cardinality numbers one of them.                 *)
LEMMA KthMember ==
    ASSUME NEW S, IsFiniteSet(S), \A i \in S : i \in Int,
           NEW k \in 1 .. Cardinality(S)
    PROVE  \E i \in S : Cardinality({j \in S : j <= i}) = k
  <1> DEFINE n == Cardinality(S)
             f == [i \in S |-> Cardinality({j \in S : j <= i})]
  <1>1. n \in Nat
    BY FS_CardinalityType
  <1>2. f \in Injection(S, 1 .. n)
    <2>1. f \in [S -> 1 .. n]
      BY CountUpTo
    <2>2. \A i, l \in S : f[i] = f[l] => i = l
      BY CountUpTo
    <2> HIDE DEF f
    <2> QED BY <2>1, <2>2 DEF Injection, IsInjective
  <1>3. IsFiniteSet(1 .. n) /\ Cardinality(1 .. n) = n
    BY <1>1, FS_Interval
  <1>4. f \in Surjection(S, 1 .. n)
    <2> HIDE DEF f
    <2> QED BY <1>2, <1>3, FS_Injection
  <1>5. \E i \in S : f[i] = k
    <2> HIDE DEF f
    <2> QED BY <1>4 DEF Surjection
  <1> QED BY <1>5
=============================================================================
