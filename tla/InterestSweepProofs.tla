------------------------ MODULE InterestSweepProofs ------------------------
(***************************************************************************)
(* Theorems about InterestSweep, for all values of its constants.  Its     *)
(* figures are sums over accounts, days and transfers, so the first part   *)
(* is what sums over finite sets satisfy.                                  *)
(***************************************************************************)
EXTENDS InterestSweep, FiniteSetTheorems, WellFoundedInduction, TLAPS

\* A non-empty collection of subsets of a finite set has a least member:
\* induction over finite sets, in a form without an operator parameter.
LEMMA LeastSet ==
    ASSUME NEW S, IsFiniteSet(S), NEW B, B \subseteq SUBSET S, B # {}
    PROVE  \E T \in B : \A U \in B : U \subseteq T => U = T
<1>1. IsWellFoundedOn(StrictSubsetOrdering(S), SUBSET S)
  BY FS_StrictSubsetOrderingWellFounded, FS_FiniteSubsetsOfFinite
<1>2. PICK T \in B : \A U \in B : ~ (<<U, T>> \in StrictSubsetOrdering(S))
  BY <1>1, WFMin
<1>3. \A U \in B : U \subseteq T => U = T
  BY <1>2 DEF StrictSubsetOrdering
<1> QED BY <1>3

\* Induction that adds one element at a time.
LEMMA SetInduction ==
    ASSUME NEW S, IsFiniteSet(S), NEW G, {} \in G,
           \A T \in SUBSET S : \A x \in S \ T : T \in G => T \cup {x} \in G
    PROVE  S \in G
<1> SUFFICES ASSUME S \notin G PROVE FALSE
  OBVIOUS
<1> DEFINE B == (SUBSET S) \ G
<1>1. PICK T \in B : \A U \in B : U \subseteq T => U = T
  <2>1. B \subseteq SUBSET S /\ B # {}
    OBVIOUS
  <2> HIDE DEF B
  <2> QED BY <2>1, LeastSet
<1>2. PICK x \in T : TRUE
  OBVIOUS
<1>3. T \ {x} \in G
  BY <1>1
<1>4. (T \ {x}) \cup {x} \in G
  BY <1>3
<1>5. (T \ {x}) \cup {x} = T
  OBVIOUS
<1> QED BY <1>4, <1>5

-----------------------------------------------------------------------------
(* The sum of a function over a finite set (SumFunctionOnSet) is defined   *)
(* by a recursive function on the subsets of the set.                      *)

Pick(s) == CHOOSE x \in s : TRUE
SumsOf(f, S, g) ==
    g = [s \in SUBSET S |-> IF s = {} THEN 0 ELSE f[Pick(s)] + g[s \ {Pick(s)}]]

LEMMA SumIsChosen ==
    ASSUME NEW f, NEW S
    PROVE  SumFunctionOnSet(f, S) = (CHOOSE g : SumsOf(f, S, g))[S]
BY DEF SumsOf, Pick, SumFunctionOnSet, FoldFunctionOnSet, MapThenFoldSet

LEMMA PickIn == ASSUME NEW s, s # {} PROVE Pick(s) \in s
BY DEF Pick

\* Two such functions agree where both are defined.
LEMMA SumsAgree ==
    ASSUME NEW f, NEW S, IsFiniteSet(S), NEW T, NEW g, NEW h,
           SumsOf(f, S, g), SumsOf(f, T, h), S \subseteq T
    PROVE  g[S] = h[S]
<1> DEFINE B == {s \in SUBSET S : g[s] # h[s]}
<1> SUFFICES ASSUME B # {} PROVE FALSE
  OBVIOUS
<1>1. PICK s \in B : \A u \in B : u \subseteq s => u = s
  <2>1. B \subseteq SUBSET S
    OBVIOUS
  <2> HIDE DEF B
  <2> QED BY <2>1, LeastSet
<1>2. s # {}
  BY DEF SumsOf
<1>3. s \ {Pick(s)} \notin B
  BY <1>1, <1>2, PickIn
<1>4. g[s \ {Pick(s)}] = h[s \ {Pick(s)}]
  BY <1>3
<1>5. g[s] = f[Pick(s)] + g[s \ {Pick(s)}]
  BY <1>2 DEF SumsOf
<1>6. h[s] = f[Pick(s)] + h[s \ {Pick(s)}]
  BY <1>2 DEF SumsOf
<1> QED BY <1>4, <1>5, <1>6

\* There is such a function for every finite set.
LEMMA SumsExist ==
    ASSUME NEW f, NEW S, IsFiniteSet(S)
    PROVE  \E g : SumsOf(f, S, g)
<1> DEFINE B == {T \in SUBSET S : ~ \E g : SumsOf(f, T, g)}
<1> SUFFICES ASSUME B # {} PROVE FALSE
  OBVIOUS
<1>1. PICK T \in B : \A U \in B : U \subseteq T => U = T
  <2>1. B \subseteq SUBSET S
    OBVIOUS
  <2> HIDE DEF B
  <2> QED BY <2>1, LeastSet
<1> DEFINE G(s) == CHOOSE g : SumsOf(f, s, g)
<1>2. \A s \in SUBSET T : s # T => SumsOf(f, s, G(s))
  BY <1>1
<1> DEFINE V(s) == IF s = T THEN IF T = {} THEN 0 ELSE f[Pick(T)] + G(T \ {Pick(T)})[T \ {Pick(T)}]
                   ELSE G(s)[s]
<1> DEFINE h == [s \in SUBSET T |-> V(s)]
<1>3. ASSUME NEW s \in SUBSET T
      PROVE  h[s] = IF s = {} THEN 0 ELSE f[Pick(s)] + h[s \ {Pick(s)}]
  <2>1. CASE s = {} /\ s # T
    <3>1. SumsOf(f, s, G(s))
      BY <1>2, <2>1
    <3>2. G(s)[s] = 0
      <4> HIDE DEF G
      <4> QED BY <3>1, <2>1 DEF SumsOf
    <3> QED BY <2>1, <3>2
  <2>2. CASE s = {} /\ s = T
    BY <2>2
  <2>3. CASE s # {} /\ s # T
    <3> DEFINE r == s \ {Pick(s)}
    <3>1. r \in SUBSET T /\ r # T /\ r \in SUBSET s
      BY PickIn, <2>3
    <3>2. h[s] = G(s)[s] /\ h[r] = G(r)[r]
      BY <3>1, <2>3
    <3>3. G(s)[s] = f[Pick(s)] + G(s)[r]
      <4>1. SumsOf(f, s, G(s))
        BY <1>2, <2>3
      <4> HIDE DEF G
      <4> QED BY <4>1, <2>3 DEF SumsOf
    <3>4. SumsOf(f, s, G(s)) /\ SumsOf(f, r, G(r))
      BY <1>2, <2>3, <3>1
    <3>5. IsFiniteSet(r)
      BY FS_Subset
    <3>6. G(r)[r] = G(s)[r]
      <4> HIDE DEF G
      <4> QED BY <3>1, <3>4, <3>5, SumsAgree
    <3> QED BY <2>3, <3>2, <3>3, <3>6
  <2>4. CASE s # {} /\ s = T
    <3>1. T \ {Pick(T)} # T
      BY PickIn, <2>4
    <3> QED BY <2>4, <3>1
  <2> QED BY <2>1, <2>2, <2>3, <2>4
<1>4. SumsOf(f, T, h)
  <2> HIDE DEF V
  <2>1. h = [s \in SUBSET T |-> h[s]]
    OBVIOUS
  <2> DEFINE W(s) == IF s = {} THEN 0 ELSE f[Pick(s)] + h[s \ {Pick(s)}]
  <2>2. \A s \in SUBSET T : h[s] = W(s)
    BY <1>3
  <2> HIDE DEF h, W
  <2>3. h = [s \in SUBSET T |-> W(s)]
    BY <2>1, <2>2
  <2> QED BY <2>3 DEF SumsOf, W
<1> QED BY <1>1, <1>4

LEMMA SumEmpty == ASSUME NEW f PROVE SumFunctionOnSet(f, {}) = 0
<1>1. SumsOf(f, {}, CHOOSE g : SumsOf(f, {}, g))
  BY SumsExist, FS_EmptySet
<1> QED BY <1>1, SumIsChosen DEF SumsOf

LEMMA SumPick ==
    ASSUME NEW f, NEW S, IsFiniteSet(S), S # {}
    PROVE  SumFunctionOnSet(f, S) = f[Pick(S)] + SumFunctionOnSet(f, S \ {Pick(S)})
<1> DEFINE G(s) == CHOOSE g : SumsOf(f, s, g)
           r == S \ {Pick(S)}
<1>1. IsFiniteSet(r)
  BY FS_Subset
<1>2. SumsOf(f, S, G(S)) /\ SumsOf(f, r, G(r))
  BY <1>1, SumsExist
<1>3. SumFunctionOnSet(f, S) = G(S)[S] /\ SumFunctionOnSet(f, r) = G(r)[r]
  BY SumIsChosen
<1> HIDE DEF G
<1>4. G(S)[S] = f[Pick(S)] + G(S)[r]
  BY <1>2 DEF SumsOf
<1>5. G(r)[r] = G(S)[r]
  BY <1>1, <1>2, SumsAgree
<1> QED BY <1>3, <1>4, <1>5

-----------------------------------------------------------------------------
(* Facts about sums.                                                       *)

LEMMA SumInt ==
    ASSUME NEW f, NEW S, IsFiniteSet(S), \A x \in S : f[x] \in Int
    PROVE  SumFunctionOnSet(f, S) \in Int
<1> DEFINE B == {s \in SUBSET S : SumFunctionOnSet(f, s) \notin Int}
<1> SUFFICES ASSUME B # {} PROVE FALSE
  OBVIOUS
<1>1. PICK s \in B : \A u \in B : u \subseteq s => u = s
  <2>1. B \subseteq SUBSET S
    OBVIOUS
  <2> HIDE DEF B
  <2> QED BY <2>1, LeastSet
<1>2. s # {}
  BY SumEmpty
<1>3. SumFunctionOnSet(f, s \ {Pick(s)}) \in Int
  BY <1>1, <1>2, PickIn
<1>4. f[Pick(s)] \in Int
  BY <1>2, PickIn
<1>5. IsFiniteSet(s)
  BY FS_Subset
<1> QED BY <1>2, <1>3, <1>4, <1>5, SumPick

\* Any element may be taken out first.
LEMMA SumTake ==
    ASSUME NEW f, NEW S, IsFiniteSet(S), \A x \in S : f[x] \in Int, NEW x \in S
    PROVE  SumFunctionOnSet(f, S) = f[x] + SumFunctionOnSet(f, S \ {x})
<1> DEFINE Good(s) == \A y \in s : SumFunctionOnSet(f, s) = f[y] + SumFunctionOnSet(f, s \ {y})
           B == {s \in SUBSET S : ~ Good(s)}
<1> SUFFICES ASSUME B # {} PROVE FALSE
  OBVIOUS
<1>1. PICK s \in B : \A u \in B : u \subseteq s => u = s
  <2>1. B \subseteq SUBSET S
    OBVIOUS
  <2> HIDE DEF B
  <2> QED BY <2>1, LeastSet
<1>2. PICK y \in s : SumFunctionOnSet(f, s) # f[y] + SumFunctionOnSet(f, s \ {y})
  BY <1>1
<1> DEFINE p == Pick(s)
<1>3. p \in s
  BY PickIn
<1> HIDE DEF p
<1>4. IsFiniteSet(s) /\ IsFiniteSet((s \ {p}) \ {y})
  BY FS_Subset
<1>5. SumFunctionOnSet(f, s) = f[p] + SumFunctionOnSet(f, s \ {p})
  BY <1>3, <1>4, SumPick DEF p
<1>6. y # p
  BY <1>2, <1>5
<1>7. Good(s \ {p}) /\ Good(s \ {y})
  BY <1>1, <1>3
<1>8. /\ SumFunctionOnSet(f, s \ {p}) = f[y] + SumFunctionOnSet(f, (s \ {p}) \ {y})
      /\ SumFunctionOnSet(f, s \ {y}) = f[p] + SumFunctionOnSet(f, (s \ {y}) \ {p})
  BY <1>3, <1>6, <1>7
<1>9. (s \ {y}) \ {p} = (s \ {p}) \ {y}
  OBVIOUS
<1>10. SumFunctionOnSet(f, (s \ {p}) \ {y}) \in Int
  BY <1>4, SumInt
<1>11. f[p] \in Int /\ f[y] \in Int
  BY <1>3
<1> DEFINE q == SumFunctionOnSet(f, (s \ {p}) \ {y})
<1>12. SumFunctionOnSet(f, s \ {p}) = f[y] + q /\ SumFunctionOnSet(f, s \ {y}) = f[p] + q
  BY <1>8, <1>9
<1>13. q \in Int
  BY <1>10
<1> HIDE DEF q
<1>14. SumFunctionOnSet(f, s) = f[y] + (f[p] + q)
  BY <1>5, <1>11, <1>12, <1>13
<1> QED BY <1>2, <1>12, <1>14

\* An element is added.
LEMMA SumAdd ==
    ASSUME NEW f, NEW S, IsFiniteSet(S), NEW x, x \notin S, \A y \in S \cup {x} : f[y] \in Int
    PROVE  SumFunctionOnSet(f, S \cup {x}) = f[x] + SumFunctionOnSet(f, S)
<1>1. IsFiniteSet(S \cup {x})
  BY FS_AddElement
<1>2. (S \cup {x}) \ {x} = S
  OBVIOUS
<1> QED BY <1>1, <1>2, SumTake

\* The sum is determined, monotonically, by the values that are summed.
LEMMA SumSame ==
    ASSUME NEW f, NEW g, NEW S, IsFiniteSet(S), \A x \in S : f[x] \in Int /\ f[x] = g[x]
    PROVE  SumFunctionOnSet(f, S) = SumFunctionOnSet(g, S)
<1> DEFINE G == {s \in SUBSET S : SumFunctionOnSet(f, s) = SumFunctionOnSet(g, s)}
<1>1. {} \in G
  BY SumEmpty
<1>2. ASSUME NEW T \in SUBSET S, NEW x \in S \ T, T \in G PROVE T \cup {x} \in G
  <2>1. IsFiniteSet(T)
    BY FS_Subset
  <2>2. SumFunctionOnSet(f, T \cup {x}) = f[x] + SumFunctionOnSet(f, T)
    BY <2>1, SumAdd
  <2>3. SumFunctionOnSet(g, T \cup {x}) = g[x] + SumFunctionOnSet(g, T)
    BY <2>1, SumAdd
  <2> QED BY <1>2, <2>2, <2>3
<1>3. S \in G
  <2> HIDE DEF G
  <2> QED BY <1>1, <1>2, SetInduction
<1> QED BY <1>3

LEMMA SumMonotone ==
    ASSUME NEW f, NEW g, NEW S, IsFiniteSet(S),
           \A x \in S : f[x] \in Int /\ g[x] \in Int /\ f[x] <= g[x]
    PROVE  SumFunctionOnSet(f, S) <= SumFunctionOnSet(g, S)
<1> DEFINE G == {s \in SUBSET S : SumFunctionOnSet(f, s) <= SumFunctionOnSet(g, s)}
<1>1. {} \in G
  BY SumEmpty
<1>2. ASSUME NEW T \in SUBSET S, NEW x \in S \ T, T \in G PROVE T \cup {x} \in G
  <2>1. IsFiniteSet(T)
    BY FS_Subset
  <2>2. SumFunctionOnSet(f, T \cup {x}) = f[x] + SumFunctionOnSet(f, T)
    BY <2>1, SumAdd
  <2>3. SumFunctionOnSet(g, T \cup {x}) = g[x] + SumFunctionOnSet(g, T)
    BY <2>1, SumAdd
  <2>4. SumFunctionOnSet(f, T) \in Int /\ SumFunctionOnSet(g, T) \in Int
    BY <2>1, SumInt
  <2> QED BY <1>2, <2>2, <2>3, <2>4
<1>3. S \in G
  <2> HIDE DEF G
  <2> QED BY <1>1, <1>2, SetInduction
<1> QED BY <1>3

\* Sums add up pointwise.
LEMMA SumPlus ==
    ASSUME NEW f, NEW g, NEW h, NEW S, IsFiniteSet(S),
           \A x \in S : f[x] \in Int /\ g[x] \in Int /\ h[x] = f[x] + g[x]
    PROVE  SumFunctionOnSet(h, S) = SumFunctionOnSet(f, S) + SumFunctionOnSet(g, S)
<1> DEFINE G == {s \in SUBSET S :
                   SumFunctionOnSet(h, s) = SumFunctionOnSet(f, s) + SumFunctionOnSet(g, s)}
<1>1. {} \in G
  BY SumEmpty
<1>2. ASSUME NEW T \in SUBSET S, NEW x \in S \ T, T \in G PROVE T \cup {x} \in G
  <2>1. IsFiniteSet(T)
    BY FS_Subset
  <2>2. SumFunctionOnSet(f, T \cup {x}) = f[x] + SumFunctionOnSet(f, T)
    BY <2>1, SumAdd
  <2>3. SumFunctionOnSet(g, T \cup {x}) = g[x] + SumFunctionOnSet(g, T)
    BY <2>1, SumAdd
  <2>4. SumFunctionOnSet(h, T \cup {x}) = h[x] + SumFunctionOnSet(h, T)
    BY <2>1, SumAdd
  <2>5. SumFunctionOnSet(f, T) \in Int /\ SumFunctionOnSet(g, T) \in Int
    BY <2>1, SumInt
  <2> QED BY <1>2, <2>2, <2>3, <2>4, <2>5
<1>3. S \in G
  <2> HIDE DEF G
  <2> QED BY <1>1, <1>2, SetInduction
<1> QED BY <1>3

LEMMA SumOfZero ==
    ASSUME NEW f, NEW S, IsFiniteSet(S), \A x \in S : f[x] = 0
    PROVE  SumFunctionOnSet(f, S) = 0
<1> DEFINE G == {s \in SUBSET S : SumFunctionOnSet(f, s) = 0}
<1>1. {} \in G
  BY SumEmpty
<1>2. ASSUME NEW T \in SUBSET S, NEW x \in S \ T, T \in G PROVE T \cup {x} \in G
  <2>1. IsFiniteSet(T)
    BY FS_Subset
  <2> QED BY <1>2, <2>1, SumAdd
<1>3. S \in G
  <2> HIDE DEF G
  <2> QED BY <1>1, <1>2, SetInduction
<1> QED BY <1>3

LEMMA SumNat ==
    ASSUME NEW f, NEW S, IsFiniteSet(S), \A x \in S : f[x] \in Nat
    PROVE  SumFunctionOnSet(f, S) \in Nat
<1> DEFINE z == [x \in S |-> 0]
<1>1. SumFunctionOnSet(z, S) = 0
  BY SumOfZero
<1>2. SumFunctionOnSet(z, S) <= SumFunctionOnSet(f, S)
  BY SumMonotone
<1>3. SumFunctionOnSet(f, S) \in Int
  BY SumInt
<1> QED BY <1>1, <1>2, <1>3

\* The sum over two sets without a common element.
LEMMA SumUnion ==
    ASSUME NEW f, NEW S, NEW T, IsFiniteSet(S), IsFiniteSet(T), S \cap T = {},
           \A x \in S \cup T : f[x] \in Int
    PROVE  SumFunctionOnSet(f, S \cup T) = SumFunctionOnSet(f, S) + SumFunctionOnSet(f, T)
<1> DEFINE G == {t \in SUBSET T :
                   SumFunctionOnSet(f, S \cup t) = SumFunctionOnSet(f, S) + SumFunctionOnSet(f, t)}
<1>0. SumFunctionOnSet(f, S) \in Int
  BY SumInt
<1>1. {} \in G
  <2>1. S \cup {} = S
    OBVIOUS
  <2> QED BY <1>0, <2>1, SumEmpty
<1>2. ASSUME NEW t \in SUBSET T, NEW x \in T \ t, t \in G PROVE t \cup {x} \in G
  <2>1. IsFiniteSet(t) /\ IsFiniteSet(S \cup t)
    BY FS_Subset, FS_Union
  <2>2. SumFunctionOnSet(f, t \cup {x}) = f[x] + SumFunctionOnSet(f, t)
    BY <2>1, SumAdd
  <2>3. SumFunctionOnSet(f, (S \cup t) \cup {x}) = f[x] + SumFunctionOnSet(f, S \cup t)
    BY <2>1, SumAdd
  <2>4. SumFunctionOnSet(f, t) \in Int /\ f[x] \in Int
    BY <2>1, SumInt
  <2>5. (S \cup t) \cup {x} = S \cup (t \cup {x})
    OBVIOUS
  <2>6. SumFunctionOnSet(f, S \cup t) = SumFunctionOnSet(f, S) + SumFunctionOnSet(f, t)
    BY <1>2
  <2>7. SumFunctionOnSet(f, S \cup (t \cup {x}))
           = f[x] + (SumFunctionOnSet(f, S) + SumFunctionOnSet(f, t))
    BY <2>3, <2>5, <2>6
  <2>8. @ = SumFunctionOnSet(f, S) + (f[x] + SumFunctionOnSet(f, t))
    BY <1>0, <2>4
  <2>9. @ = SumFunctionOnSet(f, S) + SumFunctionOnSet(f, t \cup {x})
    BY <2>2
  <2> QED BY <2>7, <2>8, <2>9
<1>3. T \in G
  <2> HIDE DEF G
  <2> QED BY <1>1, <1>2, SetInduction
<1> QED BY <1>3

\* What is left out of a sum counts for the rest of the set.
LEMMA SumSplit ==
    ASSUME NEW f, NEW S, NEW T \in SUBSET S, IsFiniteSet(S), \A x \in S : f[x] \in Int
    PROVE  SumFunctionOnSet(f, S) = SumFunctionOnSet(f, T) + SumFunctionOnSet(f, S \ T)
<1>1. IsFiniteSet(T) /\ IsFiniteSet(S \ T)
  BY FS_Subset
<1>2. T \cup (S \ T) = S /\ T \cap (S \ T) = {}
  OBVIOUS
<1> QED BY <1>1, <1>2, SumUnion

LEMMA SumSubset ==
    ASSUME NEW f, NEW S, NEW T \in SUBSET S, IsFiniteSet(S), \A x \in S : f[x] \in Nat
    PROVE  SumFunctionOnSet(f, T) <= SumFunctionOnSet(f, S)
<1>1. IsFiniteSet(T) /\ IsFiniteSet(S \ T)
  BY FS_Subset
<1>2. SumFunctionOnSet(f, T) \in Nat /\ SumFunctionOnSet(f, S \ T) \in Nat
  BY <1>1, SumNat
<1>3. SumFunctionOnSet(f, S) = SumFunctionOnSet(f, T) + SumFunctionOnSet(f, S \ T)
  BY SumSplit
<1> QED BY <1>2, <1>3

\* One value changes.
LEMMA SumChange ==
    ASSUME NEW f, NEW g, NEW S, IsFiniteSet(S), NEW x \in S, g[x] \in Int,
           \A y \in S : f[y] \in Int, \A y \in S \ {x} : g[y] = f[y]
    PROVE  SumFunctionOnSet(g, S) = SumFunctionOnSet(f, S) + (g[x] - f[x])
<1>1. IsFiniteSet(S \ {x})
  BY FS_Subset
<1>2. SumFunctionOnSet(f, S) = f[x] + SumFunctionOnSet(f, S \ {x})
  BY SumTake
<1>3. SumFunctionOnSet(g, S) = g[x] + SumFunctionOnSet(g, S \ {x})
  BY SumTake
<1>4. SumFunctionOnSet(g, S \ {x}) = SumFunctionOnSet(f, S \ {x})
  BY <1>1, SumSame
<1>5. SumFunctionOnSet(f, S \ {x}) \in Int
  BY <1>1, SumInt
<1> QED BY <1>2, <1>3, <1>4, <1>5

LEMMA SumElement ==
    ASSUME NEW f, NEW S, IsFiniteSet(S), \A y \in S : f[y] \in Nat, NEW x \in S
    PROVE  f[x] <= SumFunctionOnSet(f, S)
<1>1. IsFiniteSet(S \ {x})
  BY FS_Subset
<1>2. SumFunctionOnSet(f, S \ {x}) \in Nat
  BY <1>1, SumNat
<1> QED BY <1>2, SumTake

LEMMA MaxOfTwo ==
    ASSUME NEW x \in Int, NEW y \in Int
    PROVE  Max({x, y}) = IF x >= y THEN x ELSE y
<1> DEFINE m == IF x >= y THEN x ELSE y
<1>1. m \in {x, y} /\ \A z \in {x, y} : m >= z
  OBVIOUS
<1>2. \A w \in {x, y} : (\A z \in {x, y} : w >= z) => w = m
  OBVIOUS
<1> HIDE DEF m
<1>3. (CHOOSE w \in {x, y} : \A z \in {x, y} : w >= z) = m
  BY <1>1, <1>2
<1> QED BY <1>3 DEF Max, m

LEMMA MinOfTwo ==
    ASSUME NEW x \in Int, NEW y \in Int
    PROVE  Min({x, y}) = IF x <= y THEN x ELSE y
<1> DEFINE m == IF x <= y THEN x ELSE y
<1>1. m \in {x, y} /\ \A z \in {x, y} : m <= z
  OBVIOUS
<1>2. \A w \in {x, y} : (\A z \in {x, y} : w <= z) => w = m
  OBVIOUS
<1> HIDE DEF m
<1>3. (CHOOSE w \in {x, y} : \A z \in {x, y} : w <= z) = m
  BY <1>1, <1>2
<1> QED BY <1>3 DEF Min, m

-----------------------------------------------------------------------------
LEMMA Sizes ==
    /\ Savings \in Nat \ {0} /\ Checkings \in Nat /\ MaxDay \in Nat
    /\ Account \subseteq Int /\ Saving \subseteq Account /\ Security \subseteq Saving
    /\ IsFiniteSet(Account) /\ IsFiniteSet(Saving) /\ IsFiniteSet(Security)
    /\ IsFiniteSet(Day) /\ Day \subseteq Nat /\ 0 \in Day
    /\ Float \in Nat /\ EarnLimit \in Nat
<1>1. Savings \in Nat \ {0} /\ Checkings \in Nat /\ MaxDay \in Nat /\ Float \in Nat /\ EarnLimit \in Nat
  BY SweepAssumption
<1>2. IsFiniteSet(1 .. (Savings + Checkings)) /\ IsFiniteSet(1 .. Savings) /\ IsFiniteSet(0 .. MaxDay)
  BY <1>1, FS_Interval
<1>3. Security \subseteq Saving
  BY SweepAssumption
<1>4. IsFiniteSet(Security)
  BY <1>2, <1>3, FS_Subset DEF Saving
<1> QED BY <1>1, <1>2, <1>3, <1>4 DEF Account, Saving, Day

\* The sum of a function that is written out for the set it is summed over.
LEMMA SumWritten ==
    ASSUME NEW f, NEW S, IsFiniteSet(S), \A x \in S : f[x] \in Int
    PROVE  SumFunction([x \in S |-> f[x]]) = SumFunctionOnSet(f, S)
<1> DEFINE g == [x \in S |-> f[x]]
<1>1. SumFunction(g) = SumFunctionOnSet(g, S)
  BY DEF SumFunction
<1>2. \A x \in S : f[x] \in Int /\ f[x] = g[x]
  OBVIOUS
<1> HIDE DEF g
<1>3. SumFunctionOnSet(f, S) = SumFunctionOnSet(g, S)
  BY <1>2, SumSame
<1> QED BY <1>1, <1>3 DEF g

-----------------------------------------------------------------------------
(* What a set of transfers takes.                                          *)

amountOf == [t \in Plan |-> t.amount]

LEMMA AmountIs ==
    ASSUME NEW S \in SUBSET Plan, IsFiniteSet(S)
    PROVE  /\ \A t \in S : amountOf[t] = t.amount /\ amountOf[t] \in Nat /\ t.amount > 0
           /\ Amount(S) = SumFunctionOnSet(amountOf, S)
<1>1. \A t \in S : amountOf[t] = t.amount /\ amountOf[t] \in Nat /\ t.amount > 0
  BY DEF amountOf, Plan
<1>2. [t \in S |-> t.amount] = [t \in S |-> amountOf[t]]
  BY <1>1
<1>3. SumFunction([t \in S |-> amountOf[t]]) = SumFunctionOnSet(amountOf, S)
  BY <1>1, SumWritten
<1> QED BY <1>1, <1>2, <1>3 DEF Amount

LEMMA AmountNat ==
    ASSUME NEW S \in SUBSET Plan, IsFiniteSet(S)
    PROVE  Amount(S) \in Nat
BY AmountIs, SumNat

LEMMA AmountEmpty == Amount({}) = 0
<1>1. IsFiniteSet({})
  BY FS_EmptySet
<1> QED BY <1>1, AmountIs, SumEmpty

LEMMA AmountSubset ==
    ASSUME NEW S \in SUBSET Plan, IsFiniteSet(S), NEW T \in SUBSET S
    PROVE  Amount(T) <= Amount(S)
<1>1. IsFiniteSet(T)
  BY FS_Subset
<1> QED BY <1>1, AmountIs, SumSubset

LEMMA AmountTake ==
    ASSUME NEW S \in SUBSET Plan, IsFiniteSet(S), NEW t \in S
    PROVE  Amount(S) = t.amount + Amount(S \ {t})
<1>1. IsFiniteSet(S \ {t})
  BY FS_Subset
<1> QED BY <1>1, AmountIs, SumTake

LEMMA AmountAdd ==
    ASSUME NEW S \in SUBSET Plan, IsFiniteSet(S), NEW t \in Plan, t \notin S
    PROVE  Amount(S \cup {t}) = t.amount + Amount(S)
<1>1. IsFiniteSet(S \cup {t})
  BY FS_AddElement
<1>2. (S \cup {t}) \ {t} = S
  OBVIOUS
<1> QED BY <1>1, <1>2, AmountTake

LEMMA OutNat ==
    ASSUME NEW S \in SUBSET Plan, IsFiniteSet(S), NEW a
    PROVE  Out(a, S) \in Nat
<1>1. IsFiniteSet({t \in S : t.src = a})
  BY FS_Subset
<1> QED BY <1>1, AmountNat DEF Out

LEMMA OutSubset ==
    ASSUME NEW S \in SUBSET Plan, IsFiniteSet(S), NEW T \in SUBSET S, NEW a
    PROVE  Out(a, T) <= Out(a, S)
<1>1. IsFiniteSet({t \in S : t.src = a})
  BY FS_Subset
<1>2. {t \in T : t.src = a} \subseteq {t \in S : t.src = a}
  OBVIOUS
<1> QED BY <1>1, <1>2, AmountSubset DEF Out

LEMMA OutAdd ==
    ASSUME NEW S \in SUBSET Plan, IsFiniteSet(S), NEW t \in Plan, t \notin S, NEW a
    PROVE  Out(a, S \cup {t}) = Out(a, S) + IF t.src = a THEN t.amount ELSE 0
<1>1. IsFiniteSet({u \in S : u.src = a})
  BY FS_Subset
<1>2. Out(a, S) \in Nat
  BY OutNat
<1>3. CASE t.src = a
  <2>1. {u \in S \cup {t} : u.src = a} = {u \in S : u.src = a} \cup {t}
    BY <1>3
  <2>2. Out(a, S \cup {t}) = t.amount + Out(a, S)
    BY <1>1, <2>1, AmountAdd DEF Out
  <2>3. t.amount \in Nat
    BY DEF Plan
  <2> QED BY <1>2, <1>3, <2>2, <2>3
<1>4. CASE t.src # a
  <2>1. {u \in S \cup {t} : u.src = a} = {u \in S : u.src = a}
    BY <1>4
  <2>2. Out(a, S \cup {t}) = Out(a, S)
    BY <2>1 DEF Out
  <2> QED BY <1>2, <1>4, <2>2
<1> QED BY <1>3, <1>4

LEMMA OutTake ==
    ASSUME NEW S \in SUBSET Plan, IsFiniteSet(S), NEW t \in S, NEW a
    PROVE  Out(a, S) = Out(a, S \ {t}) + IF t.src = a THEN t.amount ELSE 0
<1>1. IsFiniteSet(S \ {t}) /\ S \ {t} \in SUBSET Plan
  BY FS_Subset
<1>2. (S \ {t}) \cup {t} = S
  OBVIOUS
<1> QED BY <1>1, <1>2, OutAdd

\* What the accounts give, taken together, is the amount of the transfers.
LEMMA OutOfAll ==
    ASSUME NEW S \in SUBSET Plan, IsFiniteSet(S), NEW A \in SUBSET Account
    PROVE  SumFunctionOnSet([a \in Account |-> Out(a, S)], A) = Amount({t \in S : t.src \in A})
<1> DEFINE f == [a \in Account |-> Out(a, S)]
           G == {B \in SUBSET A : SumFunctionOnSet(f, B) = Amount({t \in S : t.src \in B})}
<1>0. IsFiniteSet(A)
  BY Sizes, FS_Subset
<1>1. \A a \in Account : f[a] = Out(a, S) /\ f[a] \in Int
  BY OutNat
<1>2. {} \in G
  <2>1. {t \in S : t.src \in {}} = {}
    OBVIOUS
  <2> QED BY <2>1, SumEmpty, AmountEmpty
<1>3. ASSUME NEW B \in SUBSET A, NEW a \in A \ B, B \in G PROVE B \cup {a} \in G
  <2> DEFINE P == {t \in S : t.src \in B}
             Q == {t \in S : t.src = a}
  <2>1. IsFiniteSet(B) /\ IsFiniteSet(P) /\ IsFiniteSet(Q)
    BY <1>0, FS_Subset
  <2>2. SumFunctionOnSet(f, B \cup {a}) = f[a] + SumFunctionOnSet(f, B)
    <3>1. \A y \in B \cup {a} : f[y] \in Int
      BY <1>1
    <3> HIDE DEF f
    <3> QED BY <2>1, <3>1, SumAdd
  <2>3. P \cap Q = {} /\ {t \in S : t.src \in B \cup {a}} = P \cup Q
    OBVIOUS
  <2>4. Amount(P \cup Q) = Amount(P) + Amount(Q)
    <3>1. IsFiniteSet(P \cup Q) /\ P \cup Q \in SUBSET Plan
      BY <2>1, FS_Union
    <3>2. \A t \in P \cup Q : amountOf[t] \in Int
      BY <3>1, AmountIs
    <3> HIDE DEF P, Q
    <3>3. SumFunctionOnSet(amountOf, P \cup Q) = SumFunctionOnSet(amountOf, P) + SumFunctionOnSet(amountOf, Q)
      BY <2>1, <2>3, <3>2, SumUnion
    <3> QED BY <2>1, <3>1, <3>3, AmountIs
  <2>5. f[a] = Amount(Q) /\ Amount(Q) \in Nat /\ Amount(P) \in Nat
    BY <1>1, <2>1, AmountNat DEF Out
  <2>6. SumFunctionOnSet(f, B) = Amount(P)
    BY <1>3
  <2> HIDE DEF f, P, Q
  <2>7. SumFunctionOnSet(f, B \cup {a}) = Amount(P \cup Q)
    BY <2>2, <2>4, <2>5, <2>6
  <2>8. SumFunctionOnSet(f, B \cup {a}) = Amount({t \in S : t.src \in B \cup {a}})
    BY <2>3, <2>7
  <2> QED BY <2>8
<1>4. A \in G
  <2> HIDE DEF G
  <2> QED BY <1>0, <1>2, <1>3, SetInduction
<1> QED BY <1>4

-----------------------------------------------------------------------------
(* The balances, as functions of the three parts of the bank's state they  *)
(* are made of, so that one lemma serves a state and its successor.        *)

CreditsOf(i, a)       == IF a \in Saving THEN SumFunctionOnSet(i[a], Day) ELSE 0
OtherOf(o, a)         == SumFunctionOnSet(o[a], Day)
BalanceOf(i, o, m, a) == CreditsOf(i, a) + OtherOf(o, a) - Out(a, m)

InterestType == [Saving -> [Day -> Nat]]
OtherType    == [Account -> [Day -> Int]]
Transfers(S) == S \in SUBSET Plan /\ IsFiniteSet(S)

LEMMA CreditsWithin ==
    ASSUME NEW i \in InterestType, NEW a, NEW D \in SUBSET Day
    PROVE  LET c == IF a \in Saving THEN SumFunction([d \in D |-> i[a][d]]) ELSE 0
           IN  c \in Nat /\ c <= CreditsOf(i, a) /\ (D = Day => c = CreditsOf(i, a))
<1>1. CASE a \in Saving
  <2>1. \A d \in Day : i[a][d] \in Nat
    BY <1>1 DEF InterestType
  <2>2. IsFiniteSet(D)
    BY Sizes, FS_Subset
  <2>3. SumFunction([d \in D |-> i[a][d]]) = SumFunctionOnSet(i[a], D)
    BY <2>1, <2>2, SumWritten
  <2>4. SumFunctionOnSet(i[a], D) \in Nat
    BY <2>1, <2>2, SumNat
  <2>5. SumFunctionOnSet(i[a], D) <= SumFunctionOnSet(i[a], Day)
    BY <2>1, Sizes, SumSubset
  <2> QED BY <1>1, <2>3, <2>4, <2>5 DEF CreditsOf
<1>2. CASE a \notin Saving
  BY <1>2 DEF CreditsOf
<1> QED BY <1>1, <1>2

LEMMA CreditsNat ==
    ASSUME NEW i \in InterestType, NEW a
    PROVE  CreditsOf(i, a) \in Nat
<1>1. CASE a \in Saving
  <2>1. \A d \in Day : i[a][d] \in Nat
    BY <1>1 DEF InterestType
  <2> QED BY <1>1, <2>1, Sizes, SumNat DEF CreditsOf
<1>2. CASE a \notin Saving
  BY <1>2 DEF CreditsOf
<1> QED BY <1>1, <1>2

LEMMA CreditsIs ==
    ASSUME interest \in InterestType, NEW a
    PROVE  Credits(a, Day) = CreditsOf(interest, a)
BY CreditsWithin DEF Credits

LEMMA OtherInt ==
    ASSUME NEW o \in OtherType, NEW a \in Account
    PROVE  OtherOf(o, a) \in Int
<1>1. \A d \in Day : o[a][d] \in Int
  BY DEF OtherType
<1> QED BY <1>1, Sizes, SumInt DEF OtherOf

LEMMA OtherWritten ==
    ASSUME NEW o \in OtherType, NEW a \in Account
    PROVE  SumFunction([d \in Day |-> o[a][d]]) = OtherOf(o, a)
<1>1. \A d \in Day : o[a][d] \in Int
  BY DEF OtherType
<1> QED BY <1>1, Sizes, SumWritten DEF OtherOf

\* Row g is row f with the entry of day d changed by k.
RowStep(f, g, d, k) ==
    f \in [Day -> Int] /\ g \in [Day -> Int] /\ g[d] = f[d] + k /\ \A e \in Day \ {d} : g[e] = f[e]

LEMMA RowChange ==
    ASSUME NEW f, NEW g, NEW d \in Day, NEW k \in Int, RowStep(f, g, d, k)
    PROVE  SumFunctionOnSet(g, Day) = SumFunctionOnSet(f, Day) + k
<1>1. \A e \in Day : f[e] \in Int
  BY DEF RowStep
<1>2. \A e \in Day \ {d} : g[e] = f[e]
  BY DEF RowStep
<1>3. g[d] = f[d] + k /\ g[d] \in Int
  BY DEF RowStep
<1>4. SumFunctionOnSet(f, Day) \in Int
  BY <1>1, Sizes, SumInt
<1>5. IsFiniteSet(Day)
  BY Sizes
<1>6. SumFunctionOnSet(g, Day) = SumFunctionOnSet(f, Day) + (g[d] - f[d])
  BY ONLY <1>1, <1>2, <1>3, <1>5, d \in Day, SumChange
<1> QED BY <1>1, <1>3, <1>4, <1>6

\* A credit of one unit.
LEMMA CreditsEarn ==
    ASSUME NEW i \in InterestType, NEW b \in Saving, NEW d \in Day, NEW j \in InterestType,
           RowStep(i[b], j[b], d, 1), \A a \in Saving \ {b} : j[a] = i[a]
    PROVE  \A a : CreditsOf(j, a) = CreditsOf(i, a) + IF a = b THEN 1 ELSE 0
<1>1. SumFunctionOnSet(j[b], Day) = SumFunctionOnSet(i[b], Day) + 1
  BY RowChange, 1 \in Int
<1>2. CreditsOf(j, b) = CreditsOf(i, b) + 1
  BY <1>1 DEF CreditsOf
<1>3. ASSUME NEW a, a # b PROVE CreditsOf(j, a) = CreditsOf(i, a) + 0
  <2>1. CreditsOf(j, a) = CreditsOf(i, a)
    BY <1>3 DEF CreditsOf
  <2> QED BY <2>1, CreditsNat
<1> QED BY <1>2, <1>3

\* Other money of one unit, received or paid.
LEMMA OtherPaid ==
    ASSUME NEW o \in OtherType, NEW b \in Account, NEW d \in Day, NEW k \in Int,
           NEW p \in OtherType, RowStep(o[b], p[b], d, k)
    PROVE  OtherOf(p, b) = OtherOf(o, b) + k
BY RowChange DEF OtherOf

LEMMA BalanceInt ==
    ASSUME NEW i \in InterestType, NEW o \in OtherType, NEW m, Transfers(m), NEW a \in Account
    PROVE  BalanceOf(i, o, m, a) \in Int
<1>1. CreditsOf(i, a) \in Nat /\ OtherOf(o, a) \in Int /\ Out(a, m) \in Nat
  BY CreditsNat, OtherInt, OutNat DEF Transfers
<1> QED BY <1>1 DEF BalanceOf

LEMMA BalanceIs ==
    ASSUME interest \in InterestType, other \in OtherType, NEW a \in Account
    PROVE  Balance(a) = BalanceOf(interest, other, moved, a)
BY CreditsIs, OtherWritten DEF Balance, BalanceOf, Other

\* A transfer is carried out.
LEMMA BalanceMoved ==
    ASSUME NEW i \in InterestType, NEW o \in OtherType, NEW m, Transfers(m),
           NEW t \in Plan, t \notin m, NEW a \in Account
    PROVE  BalanceOf(i, o, m \cup {t}, a)
             = BalanceOf(i, o, m, a) - IF t.src = a THEN t.amount ELSE 0
<1>1. Out(a, m \cup {t}) = Out(a, m) + IF t.src = a THEN t.amount ELSE 0
  BY OutAdd DEF Transfers
<1>2. CreditsOf(i, a) \in Nat /\ OtherOf(o, a) \in Int /\ Out(a, m) \in Nat
  BY CreditsNat, OtherInt, OutNat DEF Transfers
<1>3. t.amount \in Nat
  BY DEF Plan
<1> QED BY <1>1, <1>2, <1>3 DEF BalanceOf

LEMMA BalanceNext ==
    ASSUME interest' \in InterestType, other' \in OtherType, NEW a \in Account
    PROVE  Balance(a)' = BalanceOf(interest', other', moved', a)
<1>1. Credits(a, Day)' = CreditsOf(interest', a)
  BY CreditsWithin DEF Credits
<1>2. Other(a, Day)' = OtherOf(other', a)
  BY OtherWritten DEF Other
<1> QED BY <1>1, <1>2 DEF Balance, BalanceOf

ReportType == [cut : Day, share : [Account -> Nat]]

\* Every value has its type and every set of transfers is finite.
TypeInv ==
    /\ TypeOK
    /\ IsFiniteSet(moved) /\ IsFiniteSet(flight) /\ IsFiniteSet(left)
    /\ pc # "idle" => report \in ReportType

LEMMA Types ==
    ASSUME TypeInv
    PROVE  /\ interest \in InterestType /\ other \in OtherType
           /\ Transfers(moved) /\ Transfers(shown) /\ Transfers(flight) /\ Transfers(left)
           /\ day \in Day /\ \A a \in Account : Balance(a) \in Nat
<1>1. interest \in InterestType
  <2>1. 0 .. EarnLimit \subseteq Nat
    BY Sizes
  <2> QED BY <2>1 DEF TypeInv, TypeOK, InterestType
<1>2. other \in OtherType
  BY DEF TypeInv, TypeOK, OtherType
<1>3. Transfers(moved) /\ Transfers(flight) /\ Transfers(left)
  BY DEF TypeInv, TypeOK, Transfers
<1>4. Transfers(shown)
  BY <1>3, FS_Subset DEF TypeInv, TypeOK, Transfers
<1>5. \A a \in Account : Balance(a) \in Nat
  <2> TAKE a \in Account
  <2>1. Balance(a) \in Int
    BY <1>1, <1>2, <1>3, BalanceIs, BalanceInt
  <2> QED BY <2>1 DEF TypeInv, TypeOK
<1> QED BY <1>1, <1>2, <1>3, <1>4, <1>5 DEF TypeInv, TypeOK

-----------------------------------------------------------------------------
(* The figures of the reconciliation.                                      *)

LEMMA FigureTypes ==
    ASSUME TypeInv, NEW cut \in Day, NEW a \in Account
    PROVE  /\ Gross(a, cut) \in Nat /\ Gross(a, cut) <= CreditsOf(interest, a)
           /\ Swept(a, cut) \in Nat /\ AsOf(a, cut) \in Int /\ InterestCash(a, cut) \in Int
<1> USE Types
<1> DEFINE later == {d \in Day : d > cut}
           late == {t \in shown : t.day > cut}
           made == {t \in shown : t.day <= cut}
<1>1. Gross(a, cut) \in Nat /\ Gross(a, cut) <= CreditsOf(interest, a)
  <2>1. 0 .. cut \in SUBSET Day
    BY Sizes DEF Day
  <2> QED BY <2>1, CreditsWithin DEF Gross, Credits
<1>2. Swept(a, cut) \in Nat
  <2>1. made \in SUBSET Plan /\ IsFiniteSet(made)
    BY FS_Subset DEF Transfers
  <2> HIDE DEF made
  <2>2. Out(a, made) \in Nat
    BY <2>1, OutNat
  <2> QED BY <2>2 DEF Swept, made
<1>3. Credits(a, later) \in Nat
  <2>1. later \in SUBSET Day
    OBVIOUS
  <2> HIDE DEF later
  <2> QED BY <2>1, CreditsWithin DEF Credits
<1>4. Other(a, later) \in Int
  <2>1. later \in SUBSET Day /\ IsFiniteSet(later)
    BY Sizes, FS_Subset
  <2>2. \A d \in later : other[a][d] \in Int
    BY DEF OtherType
  <2> HIDE DEF later
  <2>3. SumFunctionOnSet(other[a], later) \in Int
    BY <2>1, <2>2, SumInt
  <2>4. SumFunction([d \in later |-> other[a][d]]) = SumFunctionOnSet(other[a], later)
    BY <2>1, <2>2, SumWritten
  <2> QED BY <2>3, <2>4 DEF Other
<1>5. Out(a, late) \in Nat
  <2>1. late \in SUBSET Plan /\ IsFiniteSet(late)
    BY FS_Subset DEF Transfers
  <2> HIDE DEF late
  <2> QED BY <2>1, OutNat
<1>6. Balance(a) \in Nat
  OBVIOUS
<1>7. AsOf(a, cut) \in Int
  <2>1. AsOf(a, cut) = Balance(a) - Credits(a, later) - Other(a, later) + Out(a, late)
    BY DEF AsOf
  <2> HIDE DEF later, late
  <2> QED BY <2>1, <1>3, <1>4, <1>5, <1>6
<1>8. InterestCash(a, cut) \in Int
  <2>1. a \in Saving => Principal[a] \in Nat
    BY SweepAssumption
  <2>2. Looked(a, cut) => a \in Saving
    BY DEF Looked
  <2>3. CASE ~ Looked(a, cut)
    BY <2>3 DEF InterestCash
  <2>4. CASE Looked(a, cut)
    <3> DEFINE free == AsOf(a, cut) - Principal[a]
               some == Max({0, free})
    <3>1. free \in Int
      BY <1>7, <2>1, <2>2, <2>4
    <3>2. some \in Int
      <4> HIDE DEF free
      <4> QED BY <3>1, 0 \in Int, MaxOfTwo
    <3>3. Min({some, Gross(a, cut)}) \in Int
      <4> HIDE DEF some
      <4> QED BY <3>2, <1>1, MinOfTwo
    <3>4. InterestCash(a, cut) = IF a \in Security THEN free ELSE Min({some, Gross(a, cut)})
      BY <2>4 DEF InterestCash
    <3> HIDE DEF free, some
    <3> QED BY <3>1, <3>3, <3>4
  <2> QED BY <2>3, <2>4
<1> QED BY <1>1, <1>2, <1>7, <1>8

LEMMA SumFunctionInt ==
    ASSUME NEW g, NEW S, IsFiniteSet(S), DOMAIN g = S, \A x \in S : g[x] \in Int
    PROVE  SumFunction(g) \in Int /\ SumFunction(g) = SumFunctionOnSet(g, S)
BY SumInt DEF SumFunction

LEMMA ProtectedNat == Protected \in Nat
<1> DEFINE g == [a \in Security |-> Principal[a]]
<1>1. DOMAIN g = Security /\ \A a \in Security : g[a] \in Nat
  BY SweepAssumption
<1>2. Protected = Float + SumFunction(g)
  BY DEF Protected
<1> HIDE DEF g
<1>3. SumFunction(g) \in Nat
  BY <1>1, Sizes, SumNat DEF SumFunction
<1> QED BY <1>2, <1>3, Sizes

LEMMA SourceType ==
    ASSUME TypeInv, NEW cut \in Day, NEW a \in Account
    PROVE  Source(a, cut) \in Int
<1>1. CASE a \in Saving
  BY <1>1, FigureTypes DEF Source
<1>2. CASE a \notin Saving
  <2> DEFINE before == {c \in Account \ Saving : c < a}
             g == [b \in before |-> AsOf(b, cut)]
             earlier == SumFunction(g)
             rest == Max({0, Float - earlier})
  <2>1. Source(a, cut) = AsOf(a, cut) - Min({AsOf(a, cut), rest})
    BY <1>2 DEF Source
  <2>2. AsOf(a, cut) \in Int /\ \A b \in before : AsOf(b, cut) \in Int
    BY FigureTypes
  <2>3. DOMAIN g = before /\ \A b \in before : g[b] \in Int
    BY <2>2
  <2>4. IsFiniteSet(before)
    BY Sizes, FS_Subset
  <2> HIDE DEF g, before
  <2>5. earlier \in Int
    BY <2>3, <2>4, SumFunctionInt
  <2> HIDE DEF earlier
  <2>6. rest \in Int
    BY <2>5, Sizes, 0 \in Int, Float - earlier \in Int, MaxOfTwo
  <2> HIDE DEF rest
  <2>7. Min({AsOf(a, cut), rest}) \in Int
    BY <2>2, <2>6, MinOfTwo
  <2> QED BY <2>1, <2>2, <2>7
<1> QED BY <1>1, <1>2

\* What is due, as two sums.
LEMMA DueType ==
    ASSUME TypeInv, NEW cut \in Day
    PROVE  /\ SumFunction([a \in Security |-> InterestCash(a, cut)]) \in Int
           /\ ReserveDue(cut) \in Nat
           /\ Due(cut) \in Int
<1>1. SumFunction([a \in Security |-> InterestCash(a, cut)]) \in Int
  <2> DEFINE g == [a \in Security |-> InterestCash(a, cut)]
  <2>1. DOMAIN g = Security /\ \A a \in Security : g[a] \in Int
    BY Sizes, FigureTypes
  <2> HIDE DEF g
  <2>2. SumFunction(g) \in Int
    BY <2>1, Sizes, SumFunctionInt
  <2> QED BY <2>2 DEF g
<1>2. ReserveDue(cut) \in Nat
  <2> DEFINE seen == {b \in Saving \ Security : Looked(b, cut)}
             g == [a \in seen |-> Gross(a, cut)]
             h == [a \in Account \ Security |-> Swept(a, cut)]
  <2>1. DOMAIN g = seen /\ \A a \in seen : g[a] \in Int
    BY Sizes, FigureTypes
  <2>2. DOMAIN h = Account \ Security /\ \A a \in Account \ Security : h[a] \in Int
    BY FigureTypes
  <2>3. IsFiniteSet(seen) /\ IsFiniteSet(Account \ Security)
    BY Sizes, FS_Subset
  <2>4. ReserveDue(cut) = Max({0, SumFunction(g) - SumFunction(h)})
    BY DEF ReserveDue
  <2> HIDE DEF g, h, seen
  <2>5. SumFunction(g) \in Int /\ SumFunction(h) \in Int
    BY <2>1, <2>2, <2>3, SumFunctionInt
  <2> DEFINE x == SumFunction(g) - SumFunction(h)
  <2>6. x \in Int
    BY <2>5
  <2> HIDE DEF x
  <2>7. Max({0, x}) \in Nat
    BY <2>6, 0 \in Int, MaxOfTwo
  <2> QED BY <2>4, <2>7 DEF x
<1> QED BY <1>1, <1>2 DEF Due

LEMMA AvailableType ==
    ASSUME TypeInv, NEW cut \in Day
    PROVE  Available(cut) \in Int /\ Available(cut) <= Due(cut)
<1> DEFINE g == [a \in Account |-> AsOf(a, cut)]
           x == Total(cut) - Protected
           y == Max({0, x})
<1>1. DOMAIN g = Account /\ \A a \in Account : g[a] \in Int
  BY FigureTypes
<1>2. Total(cut) = SumFunction(g)
  BY DEF Total
<1> HIDE DEF g
<1>3. Total(cut) \in Int
  BY <1>1, <1>2, Sizes, SumFunctionInt
<1>4. x \in Int
  BY <1>3, ProtectedNat
<1> HIDE DEF x
<1>5. y \in Int
  BY <1>4, 0 \in Int, MaxOfTwo
<1>6. Available(cut) = Min({Due(cut), y})
  BY DEF Available, x
<1> HIDE DEF y
<1>7. Due(cut) \in Int
  BY DueType
<1>8. Min({Due(cut), y}) = IF Due(cut) <= y THEN Due(cut) ELSE y
  BY <1>5, <1>7, MinOfTwo
<1> QED BY <1>5, <1>6, <1>7, <1>8

\* An account's share is covered by its source and by what the accounts
\* before it leave.
LEMMA ShareType ==
    ASSUME TypeInv, NEW cut \in Day, NEW a \in Account
    PROVE  LET sources == [b \in Account |-> Source(b, cut)]
               room    == Available(cut) - SumFunctionOnSet(sources, 1 .. (a - 1))
           IN  /\ room \in Int
               /\ Share(a, cut) = IF room <= 0 \/ Source(a, cut) <= 0 THEN 0
                                  ELSE IF Source(a, cut) <= room THEN Source(a, cut) ELSE room
<1> DEFINE sources == [b \in Account |-> Source(b, cut)]
           before == 1 .. (a - 1)
           room == Available(cut) - SumFunctionOnSet(sources, before)
<1>1. before \subseteq Account /\ IsFiniteSet(before)
  BY Sizes, FS_Interval DEF Account
<1>2. \A b \in before : sources[b] = Source(b, cut) /\ sources[b] \in Int
  BY <1>1, SourceType
<1>3. SumFunctionOnSet(sources, before) \in Int
  <2> HIDE DEF sources, before
  <2> QED BY <1>1, <1>2, SumInt
<1>4. room \in Int
  <2> HIDE DEF sources, before
  <2> QED BY <1>3, AvailableType
<1>5. SumFunction([b \in before |-> Source(b, cut)]) = SumFunctionOnSet(sources, before)
  <2>1. [b \in before |-> Source(b, cut)] = [b \in before |-> sources[b]]
    BY <1>2
  <2> HIDE DEF sources, before
  <2>2. SumFunction([b \in before |-> sources[b]]) = SumFunctionOnSet(sources, before)
    BY <1>1, <1>2, SumWritten
  <2> QED BY <2>1, <2>2
<1>6. Share(a, cut) = Max({0, Min({Source(a, cut), room})})
  BY <1>5 DEF Share
<1>7. Source(a, cut) \in Int
  BY SourceType
<1>8. Share(a, cut) = IF room <= 0 \/ Source(a, cut) <= 0 THEN 0
                      ELSE IF Source(a, cut) <= room THEN Source(a, cut) ELSE room
  <2> HIDE DEF room
  <2> DEFINE m == Min({Source(a, cut), room})
  <2>1. m = IF Source(a, cut) <= room THEN Source(a, cut) ELSE room
    BY <1>4, <1>7, MinOfTwo
  <2>2. m \in Int
    BY <2>1, <1>4, <1>7
  <2>3. Share(a, cut) = IF 0 >= m THEN 0 ELSE m
    <3>1. Share(a, cut) = Max({0, m})
      BY <1>6
    <3> HIDE DEF m
    <3> QED BY <3>1, <2>2, 0 \in Int, MaxOfTwo
  <2> HIDE DEF m
  <2> QED BY <2>1, <2>2, <2>3, <1>4, <1>7
<1> QED BY <1>4, <1>8

LEMMA ReconciledType ==
    ASSUME TypeInv, NEW cut \in Day
    PROVE  Reconciled(cut) \in ReportType
<1>1. \A a \in Account : Share(a, cut) \in Nat
  <2> TAKE a \in Account
  <2>1. Source(a, cut) \in Int
    BY SourceType
  <2> DEFINE room == Available(cut) - SumFunctionOnSet([b \in Account |-> Source(b, cut)], 1 .. (a - 1))
  <2>2. /\ room \in Int
        /\ Share(a, cut) = IF room <= 0 \/ Source(a, cut) <= 0 THEN 0
                           ELSE IF Source(a, cut) <= room THEN Source(a, cut) ELSE room
    BY ShareType
  <2> HIDE DEF room
  <2> QED BY <2>1, <2>2
<1> QED BY <1>1 DEF Reconciled, ReportType

LEMMA OutOfNone == ASSUME NEW a PROVE Out(a, {}) = 0
<1>1. {t \in {} : t.src = a} = {}
  OBVIOUS
<1> QED BY <1>1, AmountEmpty DEF Out

LEMMA TypeInit == Init => TypeInv
<1> SUFFICES ASSUME Init PROVE TypeInv
  OBVIOUS
<1>1. interest \in InterestType /\ interest \in [Saving -> [Day -> 0 .. EarnLimit]]
  <2>1. 0 \in 0 .. EarnLimit
    BY Sizes
  <2> QED BY <2>1 DEF Init, InterestType
<1>2. other \in OtherType /\ \A a \in Account, d \in Day : other[a][d] \in Nat
  <2>1. \A a \in Account : Opening[a] \in Nat
    BY SweepAssumption
  <2> QED BY <2>1 DEF Init, OtherType
<1>3. \A a \in Account : Balance(a) >= 0
  <2> TAKE a \in Account
  <2>1. Balance(a) = CreditsOf(interest, a) + OtherOf(other, a) - Out(a, {})
    BY <1>1, <1>2, BalanceIs DEF BalanceOf, Init
  <2>2. CreditsOf(interest, a) \in Nat
    BY <1>1, CreditsNat
  <2>3. OtherOf(other, a) \in Nat
    BY <1>2, Sizes, SumNat DEF OtherOf
  <2> QED BY <2>1, <2>2, <2>3, OutOfNone
<1>4. IsFiniteSet({})
  BY FS_EmptySet
<1> QED BY <1>1, <1>2, <1>3, <1>4, Sizes DEF Init, TypeInv, TypeOK, OtherType

\* A step that leaves the bank alone, or only adds money or shows a row.
LEMMA BankSame ==
    ASSUME TypeInv, UNCHANGED <<interest, other, moved>>
    PROVE  \A a \in Account : Balance(a)' = Balance(a)
BY Types, BalanceIs, BalanceNext

\* Interest of one unit.
LEMMA EarnStep ==
    ASSUME TypeInv, NEW b \in Saving, Earn(b)
    PROVE  /\ interest' \in [Saving -> [Day -> 0 .. EarnLimit]]
           /\ \A a : CreditsOf(interest', a) = CreditsOf(interest, a) + IF a = b THEN 1 ELSE 0
           /\ \A a \in Account : Balance(a)' = Balance(a) + IF a = b THEN 1 ELSE 0
<1> USE Types
<1> DEFINE g == [a \in Saving |-> Credits(a, Day)]
<1>1. \A a \in Saving : g[a] = CreditsOf(interest, a) /\ g[a] \in Nat
  BY CreditsIs, CreditsNat
<1>2. Earned = SumFunctionOnSet(g, Saving)
  BY DEF Earned, SumFunction
<1>3. g[b] <= Earned
  <2> HIDE DEF g
  <2> QED BY <1>1, <1>2, Sizes, SumElement
<1>4. interest[b][day] <= CreditsOf(interest, b) /\ interest[b][day] \in Nat
  <2>1. \A d \in Day : interest[b][d] \in Nat
    BY DEF InterestType
  <2>2. interest[b][day] <= SumFunctionOnSet(interest[b], Day)
    BY <2>1, Sizes, SumElement
  <2> QED BY <2>1, <2>2 DEF CreditsOf
<1>5. Earned \in Int
  <2>1. \A a \in Saving : g[a] \in Int
    BY <1>1
  <2> HIDE DEF g
  <2> QED BY <1>2, <2>1, Sizes, SumInt
<1>6. interest[b][day] + 1 \in 0 .. EarnLimit
  <2>1. g[b] = CreditsOf(interest, b) /\ g[b] \in Nat
    BY <1>1
  <2>2. Earned < EarnLimit
    BY DEF Earn
  <2> HIDE DEF g
  <2> QED BY <1>3, <1>4, <1>5, <2>1, <2>2, Sizes
<1>7. interest' = [interest EXCEPT ![b][day] = interest[b][day] + 1]
  BY DEF Earn
<1>8. interest' \in [Saving -> [Day -> 0 .. EarnLimit]]
  BY <1>6, <1>7 DEF TypeInv, TypeOK
<1>9. interest' \in InterestType
  <2>1. 0 .. EarnLimit \subseteq Nat
    BY Sizes
  <2> QED BY <1>8, <2>1 DEF InterestType
<1>10. RowStep(interest[b], interest'[b], day, 1) /\ \A a \in Saving \ {b} : interest'[a] = interest[a]
  BY <1>7 DEF InterestType, RowStep
<1>11. \A a : CreditsOf(interest', a) = CreditsOf(interest, a) + IF a = b THEN 1 ELSE 0
  BY <1>9, <1>10, CreditsEarn
<1>12. ASSUME NEW a \in Account PROVE Balance(a)' = Balance(a) + IF a = b THEN 1 ELSE 0
  <2>1. UNCHANGED <<other, moved>>
    BY DEF Earn
  <2>2. Balance(a)' = BalanceOf(interest', other, moved, a)
    BY <1>9, <2>1, BalanceNext
  <2>3. Balance(a) = BalanceOf(interest, other, moved, a)
    BY BalanceIs
  <2>4. CreditsOf(interest, a) \in Int /\ Out(a, moved) \in Int
    BY CreditsNat, OutNat DEF Transfers
  <2>5. OtherOf(other, a) \in Int
    BY OtherInt
  <2> QED BY <1>11, <2>2, <2>3, <2>4, <2>5 DEF BalanceOf
<1> QED BY <1>8, <1>11, <1>12

\* The balances after a step that changes other alone.
LEMMA OtherStep ==
    ASSUME TypeInv, other' \in OtherType, UNCHANGED <<interest, moved>>, NEW a \in Account
    PROVE  Balance(a)' = Balance(a) + (OtherOf(other', a) - OtherOf(other, a))
<1> USE Types
<1>1. Balance(a)' = BalanceOf(interest, other', moved, a)
  BY BalanceNext
<1>2. Balance(a) = BalanceOf(interest, other, moved, a)
  BY BalanceIs
<1>3. CreditsOf(interest, a) \in Int /\ Out(a, moved) \in Int
  BY CreditsNat, OutNat DEF Transfers
<1>4. OtherOf(other, a) \in Int /\ OtherOf(other', a) \in Int
  BY OtherInt
<1> QED BY <1>1, <1>2, <1>3, <1>4 DEF BalanceOf

LEMMA PayStep ==
    ASSUME TypeInv, NEW b \in Paid, Pay(b)
    PROVE  /\ other' \in OtherType /\ b \in Account
           /\ \A a \in Account \ {b} : other'[a] = other[a]
           /\ \A a \in Account : Balance(a)' = Balance(a) + IF a = b THEN 1 ELSE 0
<1> USE Types
<1>0. b \in Account
  BY SweepAssumption
<1>1. other' = [other EXCEPT ![b][day] = other[b][day] + 1] /\ UNCHANGED <<interest, moved>>
  BY DEF Pay
<1>2. other' \in OtherType
  BY <1>0, <1>1 DEF OtherType
<1>3. RowStep(other[b], other'[b], day, 1) /\ \A a \in Account \ {b} : other'[a] = other[a]
  BY <1>0, <1>1 DEF OtherType, RowStep
<1>4. OtherOf(other', b) = OtherOf(other, b) + 1
  BY <1>0, <1>2, <1>3, 1 \in Int, OtherPaid
<1>5. \A a \in Account : OtherOf(other', a) \in Int /\ OtherOf(other, a) \in Int /\ Balance(a) \in Int
  BY <1>2, OtherInt
<1>6. \A a \in Account \ {b} : OtherOf(other', a) = OtherOf(other, a)
  BY <1>3 DEF OtherOf
<1>7. ASSUME NEW a \in Account PROVE Balance(a)' = Balance(a) + IF a = b THEN 1 ELSE 0
  <2>1. Balance(a)' = Balance(a) + (OtherOf(other', a) - OtherOf(other, a))
    BY <1>1, <1>2, OtherStep
  <2> QED BY <1>4, <1>5, <1>6, <2>1
<1> QED BY <1>0, <1>2, <1>3, <1>7

LEMMA WithdrawStep ==
    ASSUME TypeInv, NEW b \in Saving \ Security, NEW c \in Account \ Saving, Withdraw(b, c)
    PROVE  /\ other' \in OtherType
           /\ \A a \in Account \ {b, c} : other'[a] = other[a]
           /\ Balance(b) > 0
           /\ \A a \in Account : Balance(a)' = Balance(a) + IF a = b THEN -1 ELSE IF a = c THEN 1 ELSE 0
<1> USE Types
<1>0. b \in Account /\ c \in Account /\ b # c
  BY Sizes
<1>1. /\ other' = [other EXCEPT ![b][day] = @ - 1, ![c][day] = @ + 1]
      /\ UNCHANGED <<interest, moved>> /\ Balance(b) > 0
  BY DEF Withdraw
<1> DEFINE q == [other EXCEPT ![b][day] = @ - 1]
<1>2. q \in OtherType
  BY <1>0 DEF OtherType
<1>3. RowStep(other[b], q[b], day, -1) /\ \A a \in Account \ {b} : q[a] = other[a]
  <2>1. RowStep(other[b], q[b], day, -1)
    BY <1>0 DEF OtherType, RowStep
  <2>2. \A a \in Account \ {b} : q[a] = other[a]
    BY <1>0 DEF OtherType
  <2> QED BY <2>1, <2>2
<1>4. other' = [q EXCEPT ![c][day] = @ + 1]
  BY <1>1
<1> HIDE DEF q
<1>5. other' \in OtherType
  BY <1>0, <1>2, <1>4 DEF OtherType
<1>6. RowStep(q[c], other'[c], day, 1) /\ \A a \in Account \ {c} : other'[a] = q[a]
  <2>1. RowStep(q[c], other'[c], day, 1)
    BY <1>0, <1>2, <1>4 DEF OtherType, RowStep
  <2>2. \A a \in Account \ {c} : other'[a] = q[a]
    BY <1>0, <1>2, <1>4 DEF OtherType
  <2> QED BY <2>1, <2>2
<1>7. OtherOf(q, b) = OtherOf(other, b) + (-1)
  <2>1. -1 \in Int
    OBVIOUS
  <2> QED BY <1>0, <1>2, <1>3, <2>1, OtherPaid
<1>8. OtherOf(other', c) = OtherOf(q, c) + 1
  BY <1>0, <1>2, <1>5, <1>6, 1 \in Int, OtherPaid
<1>9. \A a \in Account \ {b} : OtherOf(q, a) = OtherOf(other, a)
  BY <1>3 DEF OtherOf
<1>10. \A a \in Account \ {c} : OtherOf(other', a) = OtherOf(q, a)
  BY <1>6 DEF OtherOf
<1>11. ASSUME NEW a \in Account
       PROVE  Balance(a)' = Balance(a) + IF a = b THEN -1 ELSE IF a = c THEN 1 ELSE 0
  <2>1. OtherOf(other', a) \in Int /\ OtherOf(other, a) \in Int /\ OtherOf(q, a) \in Int /\ Balance(a) \in Int
    BY <1>2, <1>5, OtherInt
  <2>2. OtherOf(other', a) = OtherOf(other, a) + IF a = b THEN -1 ELSE IF a = c THEN 1 ELSE 0
    BY <1>0, <1>7, <1>8, <1>9, <1>10, <2>1
  <2>3. Balance(a)' = Balance(a) + (OtherOf(other', a) - OtherOf(other, a))
    BY <1>1, <1>5, OtherStep
  <2> QED BY <2>1, <2>2, <2>3
<1>12. \A a \in Account \ {b, c} : other'[a] = other[a]
  BY <1>3, <1>6
<1> QED BY <1>1, <1>5, <1>11, <1>12

\* A transfer is carried out that was not before.
LEMMA MoveStep ==
    ASSUME TypeInv, NEW t \in Plan, moved' = moved \cup {t}, UNCHANGED <<interest, other>>
    PROVE  /\ Transfers(moved') /\ t.src \in Account /\ t.amount \in Nat
           /\ t \in moved => \A a \in Account : Balance(a)' = Balance(a)
           /\ t \notin moved => \A a \in Account :
                 Balance(a)' = Balance(a) - IF t.src = a THEN t.amount ELSE 0
<1> USE Types
<1>1. Transfers(moved') /\ t.src \in Account /\ t.amount \in Nat
  BY FS_AddElement DEF Transfers, Plan
<1>2. ASSUME t \in moved PROVE \A a \in Account : Balance(a)' = Balance(a)
  <2>1. moved' = moved
    BY <1>2
  <2> QED BY <2>1, BankSame
<1>3. ASSUME t \notin moved, NEW a \in Account
      PROVE  Balance(a)' = Balance(a) - IF t.src = a THEN t.amount ELSE 0
  <2>1. Balance(a)' = BalanceOf(interest, other, moved \cup {t}, a)
    BY BalanceNext
  <2>2. Balance(a) = BalanceOf(interest, other, moved, a)
    BY BalanceIs
  <2> QED BY <1>3, <2>1, <2>2, BalanceMoved
<1> QED BY <1>1, <1>2, <1>3

\* The plan has one transfer for each account that gives something.
LEMMA WantedType ==
    ASSUME TypeInv, pc # "idle"
    PROVE  /\ Transfers(Wanted)
           /\ \A t \in Wanted : t.src \in Account /\ t.amount = report.share[t.src] /\ t.day = day
           /\ \A t, u \in Wanted : t.src = u.src => t = u
<1> DEFINE givers == {b \in Account : report.share[b] > 0}
           T(a) == [src |-> a, amount |-> report.share[a], through |-> Month(report.cut), day |-> day]
           f == [a \in givers |-> T(a)]
<1>1. report.cut \in Nat /\ \A a \in Account : report.share[a] \in Nat
  BY Sizes DEF TypeInv, ReportType
<1>2. Month(report.cut) \in Nat
  <2>1. MonthLength \in Nat \ {0}
    BY SweepAssumption
  <2> QED BY <1>1, <2>1 DEF Month
<1>3. \A a \in givers : T(a) \in Plan
  BY <1>1, <1>2, Types DEF Plan
<1>4. Wanted = {T(a) : a \in givers}
  BY DEF Wanted
<1>5. IsFiniteSet(givers)
  BY Sizes, FS_Subset
<1>6. IsFiniteSet(Wanted)
  <2>1. f \in Surjection(givers, Wanted)
    BY <1>4 DEF Surjection
  <2> HIDE DEF givers, f
  <2> QED BY <1>5, <2>1, FS_Surjection
<1>7. Wanted \subseteq Plan
  <2> HIDE DEF givers, T
  <2> QED BY <1>3, <1>4
<1>8. \A t \in Wanted : t.src \in Account /\ t.amount = report.share[t.src] /\ t.day = day /\ t = T(t.src)
  BY <1>4
<1> QED BY <1>6, <1>7, <1>8 DEF Transfers

LEMMA SpecsType ==
    ASSUME TypeInv, pc # "idle"
    PROVE  Transfers(Specs) /\ Specs \subseteq Plan \ done /\ Specs \subseteq Wanted
<1>1. IsFiniteSet(Specs)
  BY WantedType, FS_Subset DEF Specs, Transfers
<1> QED BY <1>1, WantedType DEF Specs, Transfers

LEMMA TypeStep == TypeInv /\ [Next]_vars => TypeInv'
<1> SUFFICES ASSUME TypeInv, [Next]_vars PROVE TypeInv'
  OBVIOUS
<1> USE Types
<1>1. ASSUME NEW cut \in Day, Reconcile(cut) PROVE TypeInv'
  <2>1. report' \in ReportType /\ left' = left /\ pc' = "reported" /\ UNCHANGED <<day, bank, file>>
    BY <1>1, ReconciledType DEF Reconcile
  <2>2. \A a \in Account : Balance(a)' = Balance(a)
    BY <2>1, BankSame DEF bank
  <2> QED BY <2>1, <2>2 DEF TypeInv, TypeOK, bank, file
<1>2. ASSUME DryRun \/ Fail \/ Tomorrow PROVE TypeInv'
  <2>0. day' \in Day
    <3>1. CASE Tomorrow
      BY <3>1, Sizes DEF Tomorrow, Day
    <3>2. CASE DryRun \/ Fail
      BY <3>2 DEF DryRun, Fail
    <3> QED BY <1>2, <3>1, <3>2
  <2>1. UNCHANGED <<bank, file, report>> /\ day' \in Day
    BY <1>2, <2>0 DEF DryRun, Fail, Tomorrow, close
  <2>2. /\ pc' \in {"idle", "reported", "planned", "sweeping"} /\ (pc' # "idle" => pc # "idle")
        /\ left' \in {left, {}}
    BY <1>2 DEF DryRun, Fail, Tomorrow, close, TypeInv, TypeOK
  <2>3. \A a \in Account : Balance(a)' = Balance(a)
    BY <2>1, BankSame DEF bank
  <2>4. IsFiniteSet({})
    BY FS_EmptySet
  <2> QED BY <2>1, <2>2, <2>3, <2>4 DEF TypeInv, TypeOK, bank, file
<1>3. ASSUME Apply PROVE TypeInv'
  <2>1. UNCHANGED <<day, bank, file, report>> /\ left' = Specs /\ pc' = "sweeping" /\ pc # "idle"
    BY <1>3 DEF Apply
  <2>2. \A a \in Account : Balance(a)' = Balance(a)
    BY <2>1, BankSame DEF bank
  <2>3. Transfers(left') /\ left' \subseteq Plan \ done
    BY <2>1, SpecsType
  <2> QED BY <2>1, <2>2, <2>3 DEF TypeInv, TypeOK, bank, file, Transfers
<1>4. ASSUME Finish PROVE TypeInv'
  <2>1. UNCHANGED <<day, bank, file, left>> /\ pc' = "idle"
    BY <1>4 DEF Finish
  <2>2. \A a \in Account : Balance(a)' = Balance(a)
    BY <2>1, BankSame DEF bank
  <2> QED BY <2>1, <2>2 DEF TypeInv, TypeOK, bank, file
<1>5. ASSUME NEW t \in left, Completed(t) PROVE TypeInv'
  <2>1. /\ moved' = moved \cup {t} /\ done' = done \cup {t} /\ left' = left \ {t}
        /\ UNCHANGED <<day, interest, other, shown, flight, uncertain, pc, report>>
    BY <1>5 DEF Completed
  <2>2. t \in Plan
    BY DEF TypeInv, TypeOK
  <2>3. Balance(t.src) >= t.amount
    BY <1>5 DEF Completed, MaySubmit
  <2>4. \A a \in Account : Balance(a)' >= 0
    BY <2>1, <2>2, <2>3, MoveStep
  <2>5. IsFiniteSet(left') /\ Transfers(moved')
    BY <2>1, <2>2, MoveStep, FS_Subset DEF TypeInv
  <2> QED BY <2>1, <2>2, <2>4, <2>5 DEF TypeInv, TypeOK, Transfers
<1>6. ASSUME NEW t \in left, Uncertain(t) PROVE TypeInv'
  <2>1. /\ flight' = flight \cup {t} /\ uncertain' = uncertain \cup {t} /\ left' = {} /\ pc' = "idle"
        /\ UNCHANGED <<day, interest, other, moved, shown, done>>
    BY <1>6 DEF Uncertain
  <2>2. t \in Plan
    BY DEF TypeInv, TypeOK
  <2>3. \A a \in Account : Balance(a)' = Balance(a)
    BY <2>1, BankSame
  <2>4. IsFiniteSet(left') /\ IsFiniteSet(flight')
    BY <2>1, FS_AddElement, FS_EmptySet DEF TypeInv
  <2> QED BY <2>1, <2>2, <2>3, <2>4 DEF TypeInv, TypeOK
<1>7. ASSUME NEW b \in Saving, Earn(b) PROVE TypeInv'
  <2>1. UNCHANGED <<day, other, moved, shown, flight, file, close>>
    BY <1>7 DEF Earn
  <2>2. interest' \in [Saving -> [Day -> 0 .. EarnLimit]] /\ \A a \in Account : Balance(a)' >= 0
    BY <1>7, EarnStep
  <2> QED BY <2>1, <2>2 DEF TypeInv, TypeOK, file, close
<1>8. ASSUME NEW b \in Paid, Pay(b) PROVE TypeInv'
  <2>1. UNCHANGED <<day, interest, moved, shown, flight, file, close>>
    BY <1>8 DEF Pay
  <2>2. other' \in OtherType /\ \A a \in Account : Balance(a)' >= 0
    BY <1>8, PayStep
  <2> QED BY <2>1, <2>2 DEF TypeInv, TypeOK, file, close, OtherType
<1>9. ASSUME NEW b \in Saving \ Security, NEW c \in Account \ Saving, Withdraw(b, c) PROVE TypeInv'
  <2>1. UNCHANGED <<day, interest, moved, shown, flight, file, close>>
    BY <1>9 DEF Withdraw
  <2>2. other' \in OtherType /\ \A a \in Account : Balance(a)' >= 0
    BY <1>9, WithdrawStep
  <2> QED BY <2>1, <2>2 DEF TypeInv, TypeOK, file, close, OtherType
<1>10. ASSUME NEW t \in moved \ shown, Show(t) PROVE TypeInv'
  <2>1. shown' = shown \cup {t} /\ UNCHANGED <<day, interest, other, moved, flight, file, close>>
    BY <1>10 DEF Show
  <2>2. \A a \in Account : Balance(a)' = Balance(a)
    BY <2>1, BankSame
  <2> QED BY <2>1, <2>2 DEF TypeInv, TypeOK, file, close
<1>11. ASSUME NEW t \in flight, Land(t) PROVE TypeInv'
  <2>1. flight' = flight \ {t} /\ UNCHANGED <<day, interest, other, shown, file, close>>
    BY <1>11 DEF Land
  <2>2. IsFiniteSet(flight')
    BY <2>1, FS_Subset DEF TypeInv
  <2>3. t \in Plan
    BY DEF TypeInv, TypeOK
  <2>4. (Balance(t.src) >= t.amount /\ moved' = moved \cup {t}) \/ moved' = moved
    BY <1>11 DEF Land
  <2>5. Transfers(moved') /\ moved \subseteq moved' /\ \A a \in Account : Balance(a)' >= 0
    <3>1. CASE Balance(t.src) >= t.amount /\ moved' = moved \cup {t}
      <4>1. Transfers(moved') /\ moved \subseteq moved'
        BY <2>1, <2>3, <3>1, MoveStep
      <4>2. \A a \in Account : Balance(a)' >= 0
        BY <2>1, <2>3, <3>1, MoveStep
      <4> QED BY <4>1, <4>2
    <3>2. CASE moved' = moved
      BY <2>1, <3>2, BankSame
    <3> QED BY <2>4, <3>1, <3>2
  <2> QED BY <2>1, <2>2, <2>5 DEF TypeInv, TypeOK, file, close, Transfers
<1>12. ASSUME UNCHANGED vars PROVE TypeInv'
  <2>1. UNCHANGED <<day, interest, other, moved, shown, flight, done, uncertain, pc, report, left>>
    BY <1>12 DEF vars, bank, file, close
  <2>2. \A a \in Account : Balance(a)' = Balance(a)
    BY <2>1, BankSame
  <2> QED BY <2>1, <2>2 DEF TypeInv, TypeOK
<1> QED BY <1>1, <1>2, <1>3, <1>4, <1>5, <1>6, <1>7, <1>8, <1>9, <1>10, <1>11, <1>12 DEF Next

\* Every variable keeps its type in every run, and no account is overdrawn.
THEOREM TypeCorrect == Spec => []TypeOK
<1>1. Spec => []TypeInv
  BY TypeInit, TypeStep, PTL DEF Spec
<1>2. TypeInv => TypeOK
  BY DEF TypeInv
<1> QED BY <1>1, <1>2, PTL

-----------------------------------------------------------------------------
(* Only what was reviewed is submitted.                                    *)

Reviewed ==
    /\ pc # "sweeping" => left = {}
    /\ left \subseteq plan.specs

LEMMA ReviewedStep == Reviewed /\ [Next]_vars => Reviewed'
<1> SUFFICES ASSUME Reviewed, [Next]_vars PROVE Reviewed'
  OBVIOUS
<1>1. CASE \E cut \in Day : Reconcile(cut)
  BY <1>1 DEF Reviewed, Reconcile
<1>2. CASE DryRun
  BY <1>2 DEF Reviewed, DryRun
<1>3. CASE Apply
  BY <1>3 DEF Reviewed, Apply, DigestMatches, PublicPlan
<1>4. CASE Finish \/ Fail
  BY <1>4 DEF Reviewed, Finish, Fail
<1>5. CASE \E t \in left : Completed(t) \/ Uncertain(t)
  BY <1>5 DEF Reviewed, Completed, Uncertain, MaySubmit
<1>6. CASE UNCHANGED close
  BY <1>6 DEF Reviewed, close
<1>7. UNCHANGED vars => UNCHANGED close
  BY DEF vars
<1>8. (\E a \in Saving : Earn(a)) \/ (\E a \in Paid : Pay(a)) => UNCHANGED close
  BY DEF Earn, Pay
<1>9. (\E a \in Saving \ Security, c \in Account \ Saving : Withdraw(a, c)) => UNCHANGED close
  BY DEF Withdraw
<1>10. (\E t \in moved \ shown : Show(t)) \/ (\E t \in flight : Land(t)) \/ Tomorrow => UNCHANGED close
  BY DEF Show, Land, Tomorrow
<1> QED BY <1>1, <1>2, <1>3, <1>4, <1>5, <1>6, <1>7, <1>8, <1>9, <1>10 DEF Next

\* A transfer is submitted only if the plan whose digest the close was given
\* lists it: --apply plans anew and goes on only when the digests agree.
THEOREM OnlyReviewedTransfers == Spec => AppliesReviewedPlan
<1>1. Init => Reviewed
  BY DEF Init, Reviewed
<1>2. Reviewed /\ [Next]_vars =>
        [\A t \in (done' \cup uncertain') \ (done \cup uncertain) : t \in plan.specs]_vars
  <2> SUFFICES ASSUME Reviewed, Next
               PROVE  \A t \in (done' \cup uncertain') \ (done \cup uncertain) : t \in plan.specs
    OBVIOUS
  <2>1. CASE \E t \in left : Completed(t) \/ Uncertain(t)
    <3>1. PICK t \in left : Completed(t) \/ Uncertain(t)
      BY <2>1
    <3>2. (done' \cup uncertain') \subseteq (done \cup uncertain) \cup {t}
      BY <3>1 DEF Completed, Uncertain
    <3> QED BY <3>2 DEF Reviewed
  <2>2. CASE UNCHANGED file
    BY <2>2 DEF file
  <2>3. ~ (\E t \in left : Completed(t) \/ Uncertain(t)) => UNCHANGED file
    BY DEF Next, Reconcile, DryRun, Apply, Finish, Fail, Earn, Pay, Withdraw, Show, Land, Tomorrow
  <2> QED BY <2>1, <2>2, <2>3
<1> QED BY <1>1, <1>2, ReviewedStep, PTL DEF Spec, AppliesReviewedPlan

-----------------------------------------------------------------------------
(* The floors.  Money is pending from the moment a plan is applied until   *)
(* the bank has carried its transfers out or dropped them; what makes the  *)
(* floors inductive is that the balances cover everything pending, and     *)
(* that nothing is planned while a transfer is in flight.                  *)

LEMMA LiveStep ==
    ASSUME TypeInv, NEW b \in Account, NEW k \in Int,
           \A a \in Account : Balance(a)' = Balance(a) + IF a = b THEN k ELSE 0
    PROVE  Live' = Live + k
<1> DEFINE f == [a \in Account |-> Balance(a)]
           g == [a \in Account |-> Balance(a)']
<1>1. \A a \in Account : f[a] \in Int
  BY Types
<1>2. \A a \in Account \ {b} : g[a] = f[a]
  BY Types
<1>3. g[b] = f[b] + k /\ g[b] \in Int
  BY Types
<1>4. Live = SumFunctionOnSet(f, Account)
  BY DEF Live, SumFunction
<1>5. Live' = SumFunctionOnSet(g, Account)
  BY DEF Live, SumFunction
<1>6. IsFiniteSet(Account)
  BY Sizes
<1> HIDE DEF f, g
<1>7. Live' = Live + (g[b] - f[b])
  BY ONLY <1>1, <1>2, <1>3, <1>4, <1>5, <1>6, b \in Account, SumChange
<1>8. Live \in Int
  BY <1>1, <1>4, <1>6, SumInt
<1> QED BY <1>1, <1>3, <1>7, <1>8

LEMMA LiveSame ==
    ASSUME TypeInv, \A a \in Account : Balance(a)' = Balance(a)
    PROVE  Live' = Live
<1>1. [a \in Account |-> Balance(a)'] = [a \in Account |-> Balance(a)]
  OBVIOUS
<1> QED BY <1>1 DEF Live

LEMMA LiveInt == TypeInv => Live \in Int
<1> SUFFICES ASSUME TypeInv PROVE Live \in Int
  OBVIOUS
<1> DEFINE f == [a \in Account |-> Balance(a)]
<1>1. DOMAIN f = Account /\ \A a \in Account : f[a] \in Int
  BY Types
<1>2. Live = SumFunction(f)
  BY DEF Live
<1> HIDE DEF f
<1> QED BY <1>1, <1>2, Sizes, SumFunctionInt

NoOverdraft == \A a \in Account : Balance(a) \in Nat

LEMMA BalancesNat == TypeInv => NoOverdraft
BY Types DEF NoOverdraft

\* A withdrawal moves money within the property.
LEMMA LiveWithdraw ==
    ASSUME TypeInv, NEW b \in Account, NEW c \in Account, b # c,
           \A a \in Account : Balance(a)' = Balance(a) + IF a = b THEN -1 ELSE IF a = c THEN 1 ELSE 0
    PROVE  Live' = Live
<1> DEFINE f == [a \in Account |-> Balance(a)]
           h == [a \in Account |-> Balance(a) + IF a = b THEN -1 ELSE 0]
           g == [a \in Account |-> Balance(a)']
<1>1. \A a \in Account : f[a] \in Int /\ h[a] \in Int /\ g[a] \in Int
  BY Types
<1>2. \A a \in Account \ {b} : h[a] = f[a]
  BY Types
<1>3. \A a \in Account \ {c} : g[a] = h[a]
  BY Types
<1>4. h[b] = f[b] - 1 /\ g[c] = h[c] + 1
  BY Types
<1>5. Live = SumFunctionOnSet(f, Account)
  BY DEF Live, SumFunction
<1>6. Live' = SumFunctionOnSet(g, Account)
  BY DEF Live, SumFunction
<1>7. IsFiniteSet(Account)
  BY Sizes
<1> HIDE DEF f, g, h
<1>8. SumFunctionOnSet(h, Account) = SumFunctionOnSet(f, Account) + (h[b] - f[b])
  BY ONLY <1>1, <1>2, <1>7, b \in Account, SumChange
<1>9. SumFunctionOnSet(g, Account) = SumFunctionOnSet(h, Account) + (g[c] - h[c])
  BY ONLY <1>1, <1>3, <1>7, c \in Account, SumChange
<1>10. SumFunctionOnSet(f, Account) \in Int
  BY <1>1, <1>7, SumInt
<1> QED BY <1>1, <1>4, <1>5, <1>6, <1>8, <1>9, <1>10

\* What the accounts have to keep: tenants' deposits and the operating float.
Kept == Float + SumFunction([a \in Security |-> Principal[a]])

LEMMA KeptIs == Kept = Protected /\ Kept \in Int
BY ProtectedNat DEF Kept, Protected

Pending == (flight \cup left) \ moved

Covered ==
    /\ Pending # {} => Live - Amount(Pending) >= Kept
    /\ \A a \in Security : Balance(a) - Out(a, Pending) >= Principal[a]

\* Nothing is planned while the bank may still carry out an earlier transfer.
Quiet == (pc # "idle" => flight = {}) /\ (pc # "sweeping" => left = {})

FloorInv == TypeInv /\ Quiet /\ Covered

LEMMA PendingType == ASSUME TypeInv PROVE Transfers(Pending)
<1>1. IsFiniteSet(flight \cup left) /\ flight \cup left \in SUBSET Plan
  BY Types, FS_Union DEF Transfers
<1> QED BY <1>1, FS_Subset DEF Pending, Transfers

\* Less is pending and no account has less.
LEMMA CoveredShrinks ==
    ASSUME TypeInv, TypeInv', Covered, Pending' \subseteq Pending,
           Live' >= Live, \A a \in Security : Balance(a)' >= Balance(a)
    PROVE  Covered'
<1> USE PendingType
<1>1. Live \in Int /\ Live' \in Int /\ Kept \in Int
  <2>1. (TypeInv => Live \in Int)'
    BY LiveInt, PTL
  <2> QED BY <2>1, LiveInt, KeptIs
<1>2. Amount(Pending) \in Nat /\ Amount(Pending') \in Nat /\ Amount(Pending') <= Amount(Pending)
  <2>1. IsFiniteSet(Pending')
    BY FS_Subset DEF Transfers
  <2> QED BY <2>1, AmountNat, AmountSubset DEF Transfers
<1>3. Pending' # {} => Live' - Amount(Pending') >= Kept
  BY <1>1, <1>2 DEF Covered
<1>4. ASSUME NEW a \in Security PROVE Balance(a)' - Out(a, Pending') >= Principal[a]
  <2>1. Out(a, Pending') <= Out(a, Pending) /\ Out(a, Pending) \in Nat
    BY OutSubset, OutNat DEF Transfers
  <2>2. Out(a, Pending') \in Nat
    <3>1. IsFiniteSet(Pending') /\ Pending' \in SUBSET Plan
      BY FS_Subset DEF Transfers
    <3> QED BY <3>1, OutNat
  <2>3. Balance(a) \in Int /\ Principal[a] \in Int
    BY Types, Sizes, SweepAssumption
  <2>4. Balance(a)' \in Int
    <3>1. a \in Account
      BY Sizes
    <3>2. (TypeInv => NoOverdraft)'
      BY BalancesNat, PTL
    <3> QED BY <3>1, <3>2 DEF NoOverdraft
  <2>5. Balance(a)' >= Balance(a) /\ Balance(a) - Out(a, Pending) >= Principal[a]
    BY DEF Covered
  <2> QED BY <2>1, <2>2, <2>3, <2>4, <2>5
<1>5. Kept' = Kept
  BY DEF Kept
<1> QED BY <1>3, <1>4, <1>5 DEF Covered

\* A pending transfer is carried out.
LEMMA CoveredMoves ==
    ASSUME TypeInv, TypeInv', Covered, NEW t \in Pending,
           moved' = moved \cup {t}, UNCHANGED <<interest, other>>, Pending' = Pending \ {t}
    PROVE  Covered' /\ Live' >= Kept /\ \A a \in Security : Balance(a)' >= Principal[a]
<1> USE PendingType
<1>1. t \in Plan /\ t \notin moved
  BY DEF Pending, Transfers
<1>2. t.src \in Account /\ t.amount \in Nat /\ -t.amount \in Int
  BY <1>1 DEF Plan
<1>3. \A a \in Account : Balance(a)' = Balance(a) - IF t.src = a THEN t.amount ELSE 0
  BY <1>1, MoveStep
<1>4. Live' = Live + (-t.amount)
  <2> DEFINE k == -t.amount
  <2>1. \A a \in Account : Balance(a)' = Balance(a) + IF a = t.src THEN k ELSE 0
    BY <1>2, <1>3, Types
  <2>2. k \in Int
    BY <1>2
  <2> HIDE DEF k
  <2>3. Live' = Live + k
    BY <1>2, <2>1, <2>2, LiveStep
  <2> QED BY <2>3 DEF k
<1>5. Amount(Pending) = t.amount + Amount(Pending') /\ Amount(Pending') \in Nat
  <2>1. IsFiniteSet(Pending') /\ Pending' \in SUBSET Plan
    BY FS_Subset DEF Transfers
  <2>2. Amount(Pending') \in Nat
    BY <2>1, AmountNat
  <2>3. Amount(Pending) = t.amount + Amount(Pending \ {t})
    BY AmountTake DEF Transfers
  <2> QED BY <2>2, <2>3
<1>6. Live' - Amount(Pending') >= Kept /\ Live' >= Kept
  <2>1. Live - Amount(Pending) >= Kept
    BY DEF Covered
  <2> QED BY <2>1, <1>2, <1>4, <1>5, LiveInt, KeptIs
<1>7. ASSUME NEW a \in Security
      PROVE  Balance(a)' - Out(a, Pending') >= Principal[a] /\ Balance(a)' >= Principal[a]
  <2>1. Out(a, Pending) = Out(a, Pending \ {t}) + IF t.src = a THEN t.amount ELSE 0
    BY OutTake DEF Transfers
  <2>2. Out(a, Pending') \in Nat
    <3>1. IsFiniteSet(Pending') /\ Pending' \in SUBSET Plan
      BY FS_Subset DEF Transfers
    <3> QED BY <3>1, OutNat
  <2>3. Balance(a) \in Int /\ Principal[a] \in Int /\ a \in Account
    BY Types, Sizes, SweepAssumption
  <2>4. Balance(a)' = Balance(a) - IF t.src = a THEN t.amount ELSE 0
    BY <1>3, <2>3
  <2>5. Balance(a) - Out(a, Pending) >= Principal[a]
    BY DEF Covered
  <2>6. Out(a, Pending \ {t}) = Out(a, Pending')
    OBVIOUS
  <2> QED BY <1>2, <2>1, <2>2, <2>3, <2>4, <2>5, <2>6
<1>8. Kept' = Kept
  BY DEF Kept
<1> QED BY <1>6, <1>7, <1>8 DEF Covered

\* Out of the plan an account gives the one transfer that is drawn on it.
LEMMA OutOfPlan ==
    ASSUME TypeInv, pc # "idle", NEW S \in SUBSET Wanted, NEW a
    PROVE  /\ (\A t \in S : t.src # a) => Out(a, S) = 0
           /\ \A t \in S : t.src = a => Out(a, S) = t.amount
<1> USE WantedType
<1>1. ASSUME \A t \in S : t.src # a PROVE Out(a, S) = 0
  <2>1. {t \in S : t.src = a} = {}
    BY <1>1
  <2> QED BY <2>1, AmountEmpty DEF Out
<1>2. ASSUME NEW t \in S, t.src = a PROVE Out(a, S) = t.amount
  <2>1. {u \in S : u.src = a} = {t}
    BY <1>2
  <2>2. t \in Plan /\ IsFiniteSet({t}) /\ {t} \in SUBSET Plan
    BY FS_Singleton DEF Transfers
  <2>3. Amount({t}) = t.amount + Amount({t} \ {t})
    BY <2>2, AmountTake
  <2>4. {t} \ {t} = {}
    OBVIOUS
  <2>5. t.amount \in Nat
    BY <2>2 DEF Plan
  <2>6. Amount({t}) = t.amount
    BY <2>3, <2>4, <2>5, AmountEmpty
  <2> QED BY <2>1, <2>6 DEF Out
<1> QED BY <1>1, <1>2

\* The checks of the plan make what is applied covered.
LEMMA CoveredApply ==
    ASSUME TypeInv, Quiet, Covered, Apply
    PROVE  Covered'
<1>1. /\ UNCHANGED <<interest, other, moved, flight>> /\ left' = Specs
      /\ pc = "planned" /\ pc # "idle" /\ flight = {} /\ left = {} /\ PlanIsClean
  BY DEF Apply, bank, Quiet
<1>2. Pending = {} /\ Pending' = Specs \ moved
  BY <1>1 DEF Pending
<1>3. (\A a \in Account : Balance(a)' = Balance(a)) /\ Live' = Live
  BY <1>1, BankSame, LiveSame
<1>4. Specs \ moved \in SUBSET Wanted /\ Specs \ moved \subseteq Specs
  BY <1>1, SpecsType
<1>5. ASSUME Specs \ moved # {} PROVE Live - Amount(Specs \ moved) >= Kept
  <2>1. PICK t \in Wanted : TRUE
    BY <1>4, <1>5
  <2>2. Wanted \in SUBSET Plan /\ IsFiniteSet(Wanted) /\ t \in Plan
    BY <1>1, WantedType DEF Transfers
  <2>3. Amount(Wanted) = t.amount + Amount(Wanted \ {t})
    BY <2>2, AmountTake
  <2>4. Amount(Wanted \ {t}) \in Nat
    <3>1. IsFiniteSet(Wanted \ {t}) /\ Wanted \ {t} \in SUBSET Plan
      BY <2>2, FS_Subset
    <3> QED BY <3>1, AmountNat
  <2>5. t.amount \in Nat /\ t.amount > 0
    BY <2>2 DEF Plan
  <2>6. Live - Amount(Wanted) >= Kept
    BY <1>1, <2>3, <2>4, <2>5, KeptIs DEF PlanIsClean
  <2>7. Amount(Specs \ moved) <= Amount(Wanted)
    BY <1>4, <2>2, AmountSubset
  <2>8. Amount(Specs \ moved) \in Nat
    <3>1. IsFiniteSet(Specs \ moved) /\ Specs \ moved \in SUBSET Plan
      BY <1>4, <2>2, FS_Subset
    <3> QED BY <3>1, AmountNat
  <2> QED BY <2>3, <2>4, <2>5, <2>6, <2>7, <2>8, LiveInt, KeptIs
<1>6. ASSUME NEW a \in Security PROVE Balance(a) - Out(a, Specs \ moved) >= Principal[a]
  <2>1. Balance(a) \in Int /\ Principal[a] \in Int /\ a \in Saving /\ a \in Account
    BY Types, Sizes, SweepAssumption
  <2>2. CASE \A t \in Specs \ moved : t.src # a
    <3>1. Out(a, Specs \ moved) = 0
      BY <1>1, <1>4, <2>2, OutOfPlan
    <3>2. Out(a, Pending) = 0
      BY <1>2, OutOfNone
    <3>3. Balance(a) - Out(a, Pending) >= Principal[a]
      BY DEF Covered
    <3> QED BY <2>1, <3>1, <3>2, <3>3
  <2>3. CASE \E t \in Specs \ moved : t.src = a
    <3>1. PICK t \in Specs \ moved : t.src = a
      BY <2>3
    <3>2. Out(a, Specs \ moved) = t.amount
      BY <1>1, <1>4, <3>1, OutOfPlan
    <3>3. Balance(t.src) - t.amount >= PrincipalFloor(t.src)
      BY <1>1, <1>4 DEF PlanIsClean
    <3> QED BY <2>1, <3>1, <3>2, <3>3 DEF PrincipalFloor
  <2> QED BY <2>2, <2>3
<1>7. \A a \in Security : Balance(a)' = Balance(a)
  BY <1>3, Sizes
<1>8. Kept' = Kept
  BY DEF Kept
<1> QED BY <1>2, <1>3, <1>5, <1>6, <1>7, <1>8 DEF Covered

\* A step that moves money into an account or between accounts, or shows a row.
LEMMA CoveredBank ==
    ASSUME TypeInv, TypeInv', Covered,
           \/ \E b \in Saving : Earn(b)
           \/ \E b \in Paid : Pay(b)
           \/ \E b \in Saving \ Security, c \in Account \ Saving : Withdraw(b, c)
    PROVE  Covered'
<1>1. Pending' = Pending
  BY DEF Earn, Pay, Withdraw, close, Pending
<1>2. ASSUME NEW b \in Account, \A a \in Account : Balance(a)' = Balance(a) + IF a = b THEN 1 ELSE 0
      PROVE  Covered'
  <2>1. Live' = Live + 1
    BY <1>2, 1 \in Int, LiveStep
  <2>2. Live' >= Live
    BY <2>1, LiveInt
  <2>3. \A a \in Security : Balance(a)' >= Balance(a)
    BY <1>2, Types, Sizes
  <2> QED BY <1>1, <2>2, <2>3, CoveredShrinks
<1>3. ASSUME NEW b \in Saving, Earn(b) PROVE Covered'
  BY <1>2, <1>3, EarnStep, Sizes
<1>4. ASSUME NEW b \in Paid, Pay(b) PROVE Covered'
  BY <1>2, <1>4, PayStep
<1>5. ASSUME NEW b \in Saving \ Security, NEW c \in Account \ Saving, Withdraw(b, c) PROVE Covered'
  <2>1. \A a \in Account : Balance(a)' = Balance(a) + IF a = b THEN -1 ELSE IF a = c THEN 1 ELSE 0
    BY <1>5, WithdrawStep
  <2>2. b \in Account /\ c \in Account /\ b # c /\ Security \subseteq Account
    BY Sizes
  <2>3. Live' = Live
    BY <2>1, <2>2, LiveWithdraw
  <2>4. Live' >= Live
    BY <2>3, LiveInt
  <2>5. \A a \in Security : Balance(a)' >= Balance(a)
    BY <2>1, <2>2, Types, Sizes
  <2> QED BY <1>1, <2>4, <2>5, CoveredShrinks
<1> QED BY <1>3, <1>4, <1>5

DepositsIn == \A a \in Security : Opening[a] >= Principal[a]

\* The opening balance is the only other money of an account on the first day.
LEMMA OpeningIs ==
    ASSUME NEW a \in Account, NEW o \in OtherType, o[a] = [d \in Day |-> IF d = 0 THEN Opening[a] ELSE 0]
    PROVE  OtherOf(o, a) = Opening[a]
<1>1. o[a][0] = Opening[a] /\ \A d \in Day \ {0} : o[a][d] = 0
  BY Sizes
<1>2. \A d \in Day : o[a][d] \in Int
  BY DEF OtherType
<1>3. SumFunctionOnSet(o[a], Day) = o[a][0] + SumFunctionOnSet(o[a], Day \ {0})
  <2> DEFINE f == o[a]
  <2>1. (\A d \in Day : f[d] \in Int) /\ IsFiniteSet(Day) /\ 0 \in Day
    BY <1>2, Sizes
  <2> HIDE DEF f
  <2>2. SumFunctionOnSet(f, Day) = f[0] + SumFunctionOnSet(f, Day \ {0})
    BY ONLY <2>1, SumTake
  <2> QED BY <2>2 DEF f
<1>4. IsFiniteSet(Day \ {0})
  BY Sizes, FS_Subset
<1>5. SumFunctionOnSet(o[a], Day \ {0}) = 0
  BY <1>1, <1>4, SumOfZero
<1>6. Opening[a] \in Nat
  BY SweepAssumption
<1> QED BY <1>1, <1>3, <1>5, <1>6 DEF OtherOf

LEMMA FloorInit == ASSUME DepositsIn PROVE Init => FloorInv
<1> SUFFICES ASSUME Init PROVE FloorInv
  OBVIOUS
<1>1. TypeInv
  BY TypeInit
<1>2. Quiet
  BY DEF Init, Quiet
<1>3. Pending = {}
  BY DEF Init, Pending
<1>4. ASSUME NEW a \in Security PROVE Balance(a) - Out(a, Pending) >= Principal[a]
  <2>1. a \in Account /\ Principal[a] \in Nat /\ Opening[a] \in Nat /\ Opening[a] >= Principal[a]
    BY Sizes, SweepAssumption DEF DepositsIn
  <2>2. Balance(a) = CreditsOf(interest, a) + OtherOf(other, a) - Out(a, {})
    BY <1>1, <2>1, Types, BalanceIs DEF BalanceOf, Init
  <2>3. other[a] = [d \in Day |-> IF d = 0 THEN Opening[a] ELSE 0]
    BY <2>1 DEF Init
  <2>4. OtherOf(other, a) = Opening[a]
    BY <1>1, <2>1, <2>3, Types, OpeningIs
  <2>5. CreditsOf(interest, a) \in Nat
    BY <1>1, Types, CreditsNat
  <2> QED BY <1>3, <2>1, <2>2, <2>4, <2>5, OutOfNone
<1> QED BY <1>1, <1>2, <1>3, <1>4 DEF FloorInv, Covered

LEMMA QuietStep == ASSUME Settled, Quiet, [Next]_vars PROVE Quiet'
<1>1. CASE \E cut \in Day : Reconcile(cut)
  BY <1>1 DEF Quiet, Reconcile, bank
<1>2. CASE DryRun \/ Apply \/ Finish \/ Fail
  BY <1>2 DEF Quiet, DryRun, Apply, Finish, Fail, bank
<1>3. CASE \E t \in left : Completed(t) \/ Uncertain(t)
  BY <1>3 DEF Quiet, Completed, Uncertain
<1>4. CASE UNCHANGED <<pc, left>> /\ flight' \subseteq flight
  BY <1>4 DEF Quiet
<1>5. CASE UNCHANGED vars
  BY <1>4, <1>5 DEF vars, bank, close
<1>6. CASE \/ \E a \in Saving : Earn(a)
           \/ \E a \in Paid : Pay(a)
           \/ \E a \in Saving \ Security, c \in Account \ Saving : Withdraw(a, c)
  BY <1>4, <1>6 DEF Earn, Pay, Withdraw, close
<1>7. CASE (\E t \in moved \ shown : Show(t)) \/ (\E t \in flight : Land(t)) \/ Tomorrow
  BY <1>4, <1>7 DEF Show, Land, Tomorrow, bank, close
<1> QED BY <1>1, <1>2, <1>3, <1>5, <1>6, <1>7 DEF Next

\* One step of the system, and what it says of the floors when money leaves.
LEMMA FloorStep ==
    ASSUME Settled, FloorInv, [Next]_vars
    PROVE  /\ FloorInv'
           /\ moved' # moved => Live' >= Kept /\ \A a \in Security : Balance(a)' >= Principal[a]
<1> DEFINE Rich == Live' >= Kept /\ \A a \in Security : Balance(a)' >= Principal[a]
<1>0. TypeInv /\ TypeInv' /\ Quiet /\ Quiet' /\ Covered
  BY TypeStep, QuietStep DEF FloorInv
<1>1. ASSUME UNCHANGED <<interest, other, moved>>, Pending' \subseteq Pending
      PROVE  Covered' /\ moved' = moved
  <2>1. (\A a \in Account : Balance(a)' = Balance(a)) /\ Live' = Live
    BY <1>0, <1>1, BankSame, LiveSame
  <2>2. Live' >= Live /\ \A a \in Security : Balance(a)' >= Balance(a)
    BY <1>0, <2>1, LiveInt, Types, Sizes
  <2> QED BY <1>0, <1>1, <2>2, CoveredShrinks
<1>2. ASSUME \/ \E cut \in Day : Reconcile(cut)
             \/ DryRun \/ Finish \/ Fail \/ Tomorrow
             \/ \E t \in moved \ shown : Show(t)
             \/ UNCHANGED vars
      PROVE  Covered' /\ moved' = moved
  <2>1. UNCHANGED <<interest, other, moved, flight>> /\ left' \in {left, {}}
    BY <1>2 DEF Reconcile, DryRun, Finish, Fail, Tomorrow, Show, vars, bank, close
  <2>2. Pending' \subseteq Pending
    BY <2>1 DEF Pending
  <2> QED BY <1>1, <2>1, <2>2
<1>3. ASSUME Apply PROVE Covered' /\ moved' = moved
  BY <1>0, <1>3, CoveredApply DEF Apply, bank
<1>4. ASSUME NEW t \in left, Uncertain(t) PROVE Covered' /\ moved' = moved
  <2>1. UNCHANGED <<interest, other, moved>> /\ flight' = flight \cup {t} /\ left' = {}
    BY <1>4 DEF Uncertain
  <2>2. Pending' \subseteq Pending
    BY <2>1 DEF Pending
  <2> QED BY <1>1, <2>1, <2>2
<1>5. ASSUME NEW t \in flight \cup left, UNCHANGED <<interest, other>>, moved' = moved \cup {t},
             (flight' = flight /\ left' = left \ {t}) \/ (flight' = flight \ {t} /\ left' = left)
      PROVE  Covered' /\ (moved' # moved => Rich)
  <2>1. CASE t \in moved
    <3>1. moved' = moved /\ Pending' \subseteq Pending
      BY <1>5, <2>1 DEF Pending
    <3> QED BY <1>1, <1>5, <3>1
  <2>2. CASE t \notin moved
    <3>1. t \in Pending /\ Pending' = Pending \ {t}
      BY <1>5, <2>2 DEF Pending
    <3> QED BY <1>0, <1>5, <3>1, CoveredMoves
  <2> QED BY <2>1, <2>2
<1>6. ASSUME NEW t \in left, Completed(t) PROVE Covered' /\ (moved' # moved => Rich)
  <2>1. /\ UNCHANGED <<interest, other, flight>> /\ left' = left \ {t} /\ moved' = moved \cup {t}
        /\ t \in flight \cup left
    BY <1>6 DEF Completed
  <2> QED BY <1>5, <2>1
<1>7. ASSUME NEW t \in flight, Land(t) PROVE Covered' /\ (moved' # moved => Rich)
  <2>1. /\ UNCHANGED <<interest, other, left>> /\ flight' = flight \ {t}
        /\ moved' = moved \cup {t} \/ moved' = moved
        /\ t \in flight \cup left
    BY <1>7 DEF Land, close
  <2>2. CASE moved' = moved
    <3>1. Pending' \subseteq Pending
      BY <2>1, <2>2 DEF Pending
    <3> QED BY <1>1, <2>1, <2>2, <3>1
  <2>3. CASE moved' = moved \cup {t}
    BY <1>5, <2>1, <2>3
  <2> QED BY <2>1, <2>2, <2>3
<1>8. ASSUME \/ \E b \in Saving : Earn(b)
             \/ \E b \in Paid : Pay(b)
             \/ \E b \in Saving \ Security, c \in Account \ Saving : Withdraw(b, c)
      PROVE  Covered' /\ moved' = moved
  <2>1. Covered'
    BY <1>0, <1>8, CoveredBank
  <2>2. moved' = moved
    BY <1>8 DEF Earn, Pay, Withdraw
  <2> QED BY <2>1, <2>2
<1>9. Covered' /\ (moved' # moved => Rich)
  BY <1>2, <1>3, <1>4, <1>6, <1>7, <1>8 DEF Next
<1> QED BY <1>0, <1>9 DEF FloorInv

\* However late the bank carries a transfer out, it leaves the property its
\* tenants' deposits and the operating float, and each security account its
\* principal, in every run in which a close waits for the earlier sweeps to
\* settle (Settled) and that starts with the deposits in their accounts.
THEOREM FloorsAreKept == (Settled /\ DepositsIn) => (Spec => FloorsKept)
<1> SUFFICES ASSUME Settled, DepositsIn PROVE Spec => FloorsKept
  OBVIOUS
<1>1. Init => FloorInv
  BY FloorInit
<1>2. FloorInv /\ [Next]_vars => FloorInv'
  BY FloorStep
<1>3. FloorInv /\ [Next]_vars =>
        [moved' # moved =>
           (/\ Live >= Float + SumFunction([a \in Security |-> Principal[a]])
            /\ \A a \in Security : Balance(a) >= Principal[a])']_vars
  <2> SUFFICES ASSUME FloorInv, Next, moved' # moved
               PROVE  (/\ Live >= Float + SumFunction([a \in Security |-> Principal[a]])
                       /\ \A a \in Security : Balance(a) >= Principal[a])'
    OBVIOUS
  <2>1. Live' >= Kept /\ \A a \in Security : Balance(a)' >= Principal[a]
    BY FloorStep
  <2> QED BY <2>1 DEF Kept
<1> QED BY <1>1, <1>2, <1>3, PTL DEF Spec, FloorsKept

-----------------------------------------------------------------------------
(* Shares drawn in order.                                                  *)

LEMMA LeastNumber ==
    ASSUME NEW N \in Nat, NEW B, B \subseteq 0 .. N, B # {}
    PROVE  \E n \in B : \A m \in B : n <= m
<1> DEFINE C == {0 .. n : n \in B}
<1>1. C \subseteq SUBSET (0 .. N) /\ C # {}
  <2>1. \A n \in B : 0 .. n \subseteq 0 .. N
    OBVIOUS
  <2>2. C # {}
    OBVIOUS
  <2> QED BY <2>1, <2>2
<1>2. IsFiniteSet(0 .. N)
  BY FS_Interval
<1>3. PICK T \in C : \A U \in C : U \subseteq T => U = T
  <2> DEFINE M == 0 .. N
  <2>1. C \subseteq SUBSET M /\ C # {} /\ IsFiniteSet(M)
    BY <1>1, <1>2
  <2> HIDE DEF C, M
  <2> QED BY <2>1, LeastSet
<1>4. PICK n \in B : T = 0 .. n
  OBVIOUS
<1>5. ASSUME NEW m \in B, m < n PROVE FALSE
  <2>1. 0 .. m \subseteq 0 .. n /\ n \in 0 .. n /\ n \notin 0 .. m
    BY <1>5
  <2>2. 0 .. m \in C
    OBVIOUS
  <2> HIDE DEF C
  <2> QED BY <1>3, <1>4, <2>1, <2>2
<1>6. \A m \in B : n <= m
  BY <1>5
<1> QED BY <1>6

Positive(x) == IF x >= 0 THEN x ELSE 0

\* Accounts k + 1 .. N together give no more than the first k leave open.
LEMMA SharesBounded ==
    ASSUME NEW N \in Nat, NEW k \in 0 .. N, NEW A \in Int, NEW src, NEW share,
           \A a \in 1 .. N : src[a] \in Nat,
           \A a \in 1 .. N : share[a] =
               LET room == A - SumFunctionOnSet(src, 1 .. (a - 1))
               IN  IF room <= 0 THEN 0 ELSE IF src[a] <= room THEN src[a] ELSE room
    PROVE  SumFunctionOnSet(share, (k + 1) .. N) <= Positive(A - SumFunctionOnSet(src, 1 .. k))
<1> DEFINE R(n) == A - SumFunctionOnSet(src, 1 .. n)
           Q(n) == SumFunctionOnSet(share, (k + 1) .. n)
           B == {n \in k .. N : ~ (Q(n) <= Positive(R(k)) - Positive(R(n)))}
<1>1. \A n \in 0 .. N : SumFunctionOnSet(src, 1 .. n) \in Int
  <2> TAKE n \in 0 .. N
  <2>1. IsFiniteSet(1 .. n)
    BY FS_Interval
  <2>2. \A a \in 1 .. n : src[a] \in Int
    OBVIOUS
  <2> QED BY <2>1, <2>2, SumInt
<1>2. \A n \in 0 .. N : R(n) \in Int
  BY <1>1
<1>3. \A a \in 1 .. N : share[a] = IF R(a - 1) <= 0 THEN 0
                                   ELSE IF src[a] <= R(a - 1) THEN src[a] ELSE R(a - 1)
  OBVIOUS
<1>4. \A a \in 1 .. N : share[a] \in Int
  <2> TAKE a \in 1 .. N
  <2>1. a - 1 \in 0 .. N
    OBVIOUS
  <2>2. R(a - 1) \in Int /\ src[a] \in Int
    BY <1>2, <2>1
  <2>3. share[a] = IF R(a - 1) <= 0 THEN 0 ELSE IF src[a] <= R(a - 1) THEN src[a] ELSE R(a - 1)
    BY <1>3
  <2> HIDE DEF R
  <2> QED BY <2>2, <2>3
<1>5. ASSUME NEW n \in k .. N, n < N, n \notin B PROVE n + 1 \notin B
  <2>0. n + 1 \in 1 .. N /\ n \in 0 .. N /\ n + 1 \in 0 .. N /\ (n + 1) - 1 = n /\ n + 1 \in k .. N
    BY <1>5
  <2>1. R(n + 1) = R(n) - src[n + 1]
    <3>1. 1 .. (n + 1) = (1 .. n) \cup {n + 1} /\ n + 1 \notin 1 .. n
      BY <2>0
    <3>2. IsFiniteSet(1 .. n) /\ \A a \in (1 .. n) \cup {n + 1} : src[a] \in Int
      BY <2>0, FS_Interval
    <3>3. SumFunctionOnSet(src, (1 .. n) \cup {n + 1}) = src[n + 1] + SumFunctionOnSet(src, 1 .. n)
      BY <3>1, <3>2, SumAdd
    <3>4. src[n + 1] \in Int /\ SumFunctionOnSet(src, 1 .. n) \in Int
      BY <1>1, <2>0, <3>2
    <3> DEFINE x == SumFunctionOnSet(src, 1 .. n)
               y == SumFunctionOnSet(src, 1 .. (n + 1))
    <3>5. y = src[n + 1] + x
      BY <3>1, <3>3
    <3>6. x \in Int
      BY <3>4
    <3>7. R(n + 1) = A - y /\ R(n) = A - x
      OBVIOUS
    <3> HIDE DEF x, y, R
    <3> QED BY <3>4, <3>5, <3>6, <3>7
  <2>2. Q(n + 1) = share[n + 1] + Q(n) /\ Q(n) \in Int
    <3>1. (k + 1) .. (n + 1) = ((k + 1) .. n) \cup {n + 1} /\ n + 1 \notin (k + 1) .. n
      BY <2>0
    <3>2. IsFiniteSet((k + 1) .. n) /\ \A a \in ((k + 1) .. n) \cup {n + 1} : share[a] \in Int
      BY <1>4, <2>0, FS_Interval
    <3>3. SumFunctionOnSet(share, ((k + 1) .. n) \cup {n + 1})
            = share[n + 1] + SumFunctionOnSet(share, (k + 1) .. n)
      BY <3>1, <3>2, SumAdd
    <3>4. Q(n) \in Int
      BY <3>2, SumInt
    <3> QED BY <3>1, <3>3, <3>4
  <2>3. share[n + 1] = IF R(n) <= 0 THEN 0 ELSE IF src[n + 1] <= R(n) THEN src[n + 1] ELSE R(n)
    BY <1>3, <2>0
  <2>4. src[n + 1] \in Nat /\ R(n) \in Int /\ R(k) \in Int
    BY <1>2, <2>0
  <2>5. Q(n) <= Positive(R(k)) - Positive(R(n))
    BY <1>5
  <2>6. Q(n + 1) <= Positive(R(k)) - Positive(R(n + 1))
    <3> HIDE DEF R, Q
    <3> QED BY <2>1, <2>2, <2>3, <2>4, <2>5 DEF Positive
  <2> QED BY <2>6
<1>6. k \notin B
  <2>1. (k + 1) .. k = {}
    OBVIOUS
  <2>2. Q(k) = 0
    BY <2>1, SumEmpty
  <2>3. R(k) \in Int
    BY <1>2
  <2> HIDE DEF R, Q
  <2> QED BY <2>2, <2>3 DEF Positive
<1>7. B = {}
  <2> SUFFICES ASSUME B # {} PROVE FALSE
    OBVIOUS
  <2>1. PICK n \in B : \A m \in B : n <= m
    <3>1. B \subseteq 0 .. N
      OBVIOUS
    <3> HIDE DEF B
    <3> QED BY <3>1, LeastNumber
  <2>2. n \in k .. N /\ n # k
    BY <1>6
  <2>3. n - 1 \in k .. N /\ n - 1 < N /\ n - 1 \notin B /\ (n - 1) + 1 = n
    <3> HIDE DEF B
    <3>1. n - 1 \in k .. N /\ n - 1 < N /\ ~ (n <= n - 1) /\ (n - 1) + 1 = n
      BY <2>2
    <3> QED BY <2>1, <3>1
  <2> HIDE DEF B
  <2> QED BY <1>5, <2>1, <2>3
<1>8. Q(N) <= Positive(R(k)) - Positive(R(N))
  BY <1>7
<1>9. Q(N) \in Int /\ R(k) \in Int /\ R(N) \in Int
  <2>1. IsFiniteSet((k + 1) .. N) /\ \A a \in (k + 1) .. N : share[a] \in Int
    BY <1>4, FS_Interval
  <2>2. Q(N) \in Int
    BY <2>1, SumInt
  <2>3. k \in 0 .. N /\ N \in 0 .. N
    OBVIOUS
  <2> HIDE DEF Q, R
  <2> QED BY <1>2, <2>2, <2>3
<1> HIDE DEF Q, R
<1>10. Q(N) <= Positive(R(k))
  BY <1>8, <1>9 DEF Positive
<1> QED BY <1>10 DEF Q, R

-----------------------------------------------------------------------------
(* No more is swept than was earned.                                       *)

Reserves     == Account \ Security
AllCredits(i) == [a \in Account |-> CreditsOf(i, a)]
AllOut(S)     == [a \in Account |-> Out(a, S)]

\* What is taken, account by account, is within the interest of a security
\* account, and within the interest of all the others together.
Within(w, i) ==
    /\ \A a \in Security : w[a] <= CreditsOf(i, a)
    /\ SumFunctionOnSet(w, Reserves) <= SumFunctionOnSet(AllCredits(i), Reserves)

LEMMA ReservesAre == Reserves \subseteq Account /\ IsFiniteSet(Reserves) /\ Reserves \cap Security = {}
                     /\ Reserves \cup Security = Account
BY Sizes, FS_Subset DEF Reserves

LEMMA WithinLess ==
    ASSUME NEW w, NEW v, NEW i \in InterestType, NEW j \in InterestType, Within(w, i),
           \A a \in Account : w[a] \in Nat /\ v[a] \in Nat /\ v[a] <= w[a],
           \A a \in Account : CreditsOf(i, a) <= CreditsOf(j, a)
    PROVE  Within(v, j)
<1>1. \A a \in Account : CreditsOf(i, a) \in Nat /\ CreditsOf(j, a) \in Nat
  BY CreditsNat
<1>2. \A a \in Security : v[a] <= CreditsOf(j, a)
  <2> TAKE a \in Security
  <2>1. a \in Account /\ w[a] <= CreditsOf(i, a)
    BY Sizes DEF Within
  <2> QED BY <1>1, <2>1
<1>3. SumFunctionOnSet(v, Reserves) <= SumFunctionOnSet(w, Reserves)
  <2>1. \A a \in Reserves : v[a] \in Int /\ w[a] \in Int /\ v[a] <= w[a]
    BY ReservesAre
  <2> QED BY <2>1, ReservesAre, SumMonotone
<1>4. SumFunctionOnSet(AllCredits(i), Reserves) <= SumFunctionOnSet(AllCredits(j), Reserves)
  <2> DEFINE f == AllCredits(i)
             g == AllCredits(j)
  <2>1. \A a \in Reserves : f[a] \in Int /\ g[a] \in Int /\ f[a] <= g[a]
    BY <1>1, ReservesAre DEF AllCredits
  <2> HIDE DEF f, g
  <2>2. SumFunctionOnSet(f, Reserves) <= SumFunctionOnSet(g, Reserves)
    BY <2>1, ReservesAre, SumMonotone
  <2> QED BY <2>2 DEF f, g
<1>5. /\ SumFunctionOnSet(v, Reserves) \in Int /\ SumFunctionOnSet(w, Reserves) \in Int
      /\ SumFunctionOnSet(AllCredits(i), Reserves) \in Int
      /\ SumFunctionOnSet(AllCredits(j), Reserves) \in Int
  <2>1. \A a \in Reserves : v[a] \in Int /\ w[a] \in Int
    BY ReservesAre
  <2>2. \A a \in Reserves : AllCredits(i)[a] \in Int /\ AllCredits(j)[a] \in Int
    BY <1>1, ReservesAre DEF AllCredits
  <2> QED BY <2>1, <2>2, ReservesAre, SumInt
<1>6. SumFunctionOnSet(w, Reserves) <= SumFunctionOnSet(AllCredits(i), Reserves)
  BY DEF Within
<1> QED BY <1>2, <1>3, <1>4, <1>5, <1>6 DEF Within

Promised == moved \cup flight \cup left

LEMMA PromisedType == ASSUME TypeInv PROVE Transfers(Promised)
<1>1. IsFiniteSet(moved \cup flight)
  BY Types, FS_Union DEF Transfers
<1> QED BY <1>1, Types, FS_Union DEF Promised, Transfers

\* The promised transfers and the shares of the report that the close acts on.
Claimed == [a \in Account |-> Out(a, Promised) + report.share[a]]

Untouched == \A a \in Security : other[a] = [d \in Day |-> IF d = 0 THEN Opening[a] ELSE 0]

EarnInv ==
    /\ TypeInv /\ Quiet /\ Untouched
    /\ \A t \in Promised : t.day <= day
    /\ Within(AllOut(Promised), interest)
    /\ pc \in {"reported", "planned"} => Within(Claimed, interest)

\* A security account receives interest only, starts with no more than its
\* deposits, and is drawn on before the other accounts.
SecuritySetup ==
    /\ Paid \cap Security = {}
    /\ \A a \in Security : Opening[a] <= Principal[a]
    /\ \E k \in 0 .. Savings : Security = 1 .. k

LEMMA EarnInit == Init => EarnInv
<1> SUFFICES ASSUME Init PROVE EarnInv
  OBVIOUS
<1>1. TypeInv /\ Quiet /\ Promised = {} /\ pc = "idle"
  BY TypeInit DEF Init, Quiet, Promised
<1>2. Untouched
  BY Sizes DEF Init, Untouched
<1>3. \A a \in Account : CreditsOf(interest, a) \in Nat
  BY <1>1, Types, CreditsNat
<1>4. Within(AllOut({}), interest)
  <2>1. \A a \in Account : AllOut({})[a] = 0
    BY OutOfNone DEF AllOut
  <2>2. SumFunctionOnSet(AllOut({}), Reserves) = 0
    BY <2>1, ReservesAre, SumOfZero
  <2>3. SumFunctionOnSet(AllCredits(interest), Reserves) \in Nat
    <3>1. \A a \in Reserves : AllCredits(interest)[a] \in Nat
      BY <1>3, ReservesAre DEF AllCredits
    <3> QED BY <3>1, ReservesAre, SumNat
  <2>4. \A a \in Security : AllOut({})[a] <= CreditsOf(interest, a)
    BY <1>3, <2>1, Sizes
  <2> QED BY <2>2, <2>3, <2>4 DEF Within
<1> QED BY <1>1, <1>2, <1>4 DEF EarnInv

\* What the invariant says of the property as a whole.
LEMMA EarnEnough ==
    ASSUME EarnInv
    PROVE  SweptAtMostEarned
<1> USE PromisedType
<1>1. TypeInv /\ interest \in InterestType /\ Transfers(moved) /\ Transfers(Promised) /\ moved \subseteq Promised
  BY Types DEF EarnInv, Promised
<1> DEFINE f == AllOut(moved)
           g == AllOut(Promised)
           c == AllCredits(interest)
<1>2. \A a \in Account : f[a] \in Nat /\ g[a] \in Nat /\ f[a] <= g[a] /\ c[a] \in Nat
  BY <1>1, OutNat, OutSubset, CreditsNat DEF AllOut, AllCredits, Transfers
<1>3. Amount(moved) = SumFunctionOnSet(f, Account)
  <2>1. {t \in moved : t.src \in Account} = moved
    BY <1>1 DEF Transfers, Plan
  <2>2. SumFunctionOnSet([a \in Account |-> Out(a, moved)], Account) = Amount({t \in moved : t.src \in Account})
    BY <1>1, OutOfAll DEF Transfers
  <2> QED BY <2>1, <2>2 DEF AllOut
<1>4. Earned = SumFunctionOnSet(c, Account)
  <2> DEFINE e == [a \in Saving |-> Credits(a, Day)]
  <2>1. Earned = SumFunctionOnSet(e, Saving)
    BY DEF Earned, SumFunction
  <2>2. \A a \in Saving : e[a] = c[a] /\ e[a] \in Int
    BY <1>1, <1>2, CreditsIs, Sizes DEF AllCredits
  <2>3. \A a \in Account \ Saving : c[a] = 0
    BY DEF AllCredits, CreditsOf
  <2>4. \A a \in Account : c[a] \in Int
    BY <1>2
  <2>5. IsFiniteSet(Account \ Saving) /\ Saving \in SUBSET Account /\ IsFiniteSet(Saving) /\ IsFiniteSet(Account)
    BY Sizes, FS_Subset
  <2> HIDE DEF e, c
  <2>6. SumFunctionOnSet(e, Saving) = SumFunctionOnSet(c, Saving)
    BY <2>2, <2>5, SumSame
  <2>7. SumFunctionOnSet(c, Account \ Saving) = 0
    BY <2>3, <2>5, SumOfZero
  <2>8. SumFunctionOnSet(c, Account) = SumFunctionOnSet(c, Saving) + SumFunctionOnSet(c, Account \ Saving)
    BY <2>4, <2>5, SumSplit
  <2>9. SumFunctionOnSet(c, Saving) \in Int
    <3>1. \A a \in Saving : c[a] \in Int
      BY <2>4, <2>5
    <3> QED BY <2>5, <3>1, SumInt
  <2> QED BY <2>1, <2>6, <2>7, <2>8, <2>9
<1>5. \A a \in Security : g[a] <= c[a]
  BY Sizes DEF EarnInv, Within, AllCredits
<1>6. SumFunctionOnSet(g, Reserves) <= SumFunctionOnSet(c, Reserves)
  BY DEF EarnInv, Within
<1> HIDE DEF f, g, c
<1>7. SumFunctionOnSet(f, Account) <= SumFunctionOnSet(g, Account)
  BY <1>2, Sizes, SumMonotone, Nat \subseteq Int
<1>8. Security \in SUBSET Account /\ Account \ Security = Reserves /\ IsFiniteSet(Security)
  BY Sizes DEF Reserves
<1>9. SumFunctionOnSet(g, Account) = SumFunctionOnSet(g, Security) + SumFunctionOnSet(g, Reserves)
  <2>1. \A a \in Account : g[a] \in Int
    BY <1>2
  <2>2. IsFiniteSet(Account) /\ Security \in SUBSET Account
    BY <1>8, Sizes
  <2>3. SumFunctionOnSet(g, Account) = SumFunctionOnSet(g, Security) + SumFunctionOnSet(g, Account \ Security)
    BY ONLY <2>1, <2>2, SumSplit
  <2> QED BY <1>8, <2>3
<1>10. SumFunctionOnSet(c, Account) = SumFunctionOnSet(c, Security) + SumFunctionOnSet(c, Reserves)
  <2>1. \A a \in Account : c[a] \in Int
    BY <1>2
  <2>2. IsFiniteSet(Account) /\ Security \in SUBSET Account
    BY <1>8, Sizes
  <2>3. SumFunctionOnSet(c, Account) = SumFunctionOnSet(c, Security) + SumFunctionOnSet(c, Account \ Security)
    BY ONLY <2>1, <2>2, SumSplit
  <2> QED BY <1>8, <2>3
<1>11. SumFunctionOnSet(g, Security) <= SumFunctionOnSet(c, Security)
  <2>1. \A a \in Security : g[a] \in Int /\ c[a] \in Int /\ g[a] <= c[a]
    BY <1>2, <1>5, <1>8
  <2> QED BY <1>8, <2>1, SumMonotone
<1>12. /\ SumFunctionOnSet(f, Account) \in Int
       /\ SumFunctionOnSet(g, Security) \in Int /\ SumFunctionOnSet(g, Reserves) \in Int
       /\ SumFunctionOnSet(c, Security) \in Int /\ SumFunctionOnSet(c, Reserves) \in Int
  <2>1. \A a \in Account : f[a] \in Int /\ g[a] \in Int /\ c[a] \in Int
    BY <1>2
  <2>2. /\ \A a \in Security : g[a] \in Int /\ c[a] \in Int
        /\ \A a \in Reserves : g[a] \in Int /\ c[a] \in Int
    BY <1>8, <2>1, ReservesAre
  <2> QED BY <1>8, <2>1, <2>2, Sizes, ReservesAre, SumInt
<1> QED BY <1>3, <1>4, <1>6, <1>7, <1>9, <1>10, <1>11, <1>12 DEF SweptAtMostEarned

-----------------------------------------------------------------------------
(* A reconciliation claims what is earned and not yet swept.               *)

\* A reconciliation that is usable draws on no account for less than nothing.
LEMMA SourceNat ==
    ASSUME TypeInv, NEW cut \in Day, ReportIsOk(cut), NEW a \in Account
    PROVE  Source(a, cut) \in Nat
<1>1. Source(a, cut) \in Int /\ AsOf(a, cut) \in Int /\ Gross(a, cut) \in Nat
  BY SourceType, FigureTypes
<1>2. CASE a \in Security
  <2>1. a \in Saving /\ Principal[a] \in Nat
    BY <1>2, Sizes, SweepAssumption
  <2>2. Source(a, cut) = IF Looked(a, cut) THEN AsOf(a, cut) - Principal[a] ELSE 0
    BY <1>2, <2>1 DEF Source, InterestCash
  <2>3. Looked(a, cut) => AsOf(a, cut) >= Principal[a]
    BY <1>2 DEF ReportIsOk
  <2> QED BY <1>1, <2>1, <2>2, <2>3
<1>3. CASE a \in Saving \ Security
  <2> DEFINE free == AsOf(a, cut) - Principal[a]
             some == Max({0, free})
  <2>1. free \in Int
    BY <1>1, <1>3, SweepAssumption
  <2>2. Source(a, cut) = IF Looked(a, cut) THEN Min({some, Gross(a, cut)}) ELSE 0
    BY <1>3 DEF Source, InterestCash
  <2> HIDE DEF free
  <2>3. some \in Nat
    BY <2>1, 0 \in Int, MaxOfTwo
  <2> HIDE DEF some
  <2>4. Min({some, Gross(a, cut)}) \in Nat
    BY <1>1, <2>3, MinOfTwo
  <2> QED BY <2>2, <2>4
<1>4. CASE a \notin Saving
  <2> DEFINE earlier == SumFunction([b \in {c \in Account \ Saving : c < a} |-> AsOf(b, cut)])
             rest == Max({0, Float - earlier})
  <2>1. Source(a, cut) = AsOf(a, cut) - Min({AsOf(a, cut), rest})
    BY <1>4 DEF Source
  <2>2. rest \in Int
    <3> DEFINE before == {c \in Account \ Saving : c < a}
               g == [b \in before |-> AsOf(b, cut)]
    <3>1. DOMAIN g = before /\ \A b \in before : g[b] \in Int
      BY FigureTypes
    <3>2. IsFiniteSet(before)
      BY Sizes, FS_Subset
    <3>3. earlier = SumFunction(g)
      OBVIOUS
    <3> HIDE DEF g, before, earlier
    <3>4. earlier \in Int
      BY <3>1, <3>2, <3>3, SumFunctionInt
    <3> QED BY <3>4, Sizes, 0 \in Int, Float - earlier \in Int, MaxOfTwo
  <2> HIDE DEF rest
  <2>3. Min({AsOf(a, cut), rest}) = IF AsOf(a, cut) <= rest THEN AsOf(a, cut) ELSE rest
    BY <1>1, <2>2, MinOfTwo
  <2> QED BY <1>1, <2>1, <2>2, <2>3
<1> QED BY <1>2, <1>3, <1>4, Sizes

\* When every transfer is shown and none lies ahead, the rows of the debits
\* are the transfers that were made.
LEMMA RowsShown ==
    ASSUME TypeInv, moved = shown, \A t \in moved : t.day <= day, NEW a
    PROVE  Swept(a, day) = Out(a, moved) /\ Out(a, {t \in shown : t.day > day}) = 0
<1>0. day \in Day /\ moved \in SUBSET Plan
  BY Types DEF Transfers
<1>1. \A t \in moved : t.day \in Int
  <2> TAKE t \in moved
  <2>1. t \in Plan
    BY <1>0
  <2>2. t.day \in Day
    BY <2>1 DEF Plan
  <2>3. \A d \in Day : d \in Int
    BY Sizes
  <2> QED BY ONLY <2>2, <2>3
<1>2. day \in Int
  BY <1>0, Sizes
<1>3. {t \in shown : t.day <= day} = moved
  OBVIOUS
<1>4. {t \in shown : t.day > day} = {}
  BY <1>1, <1>2
<1>5. Out(a, {}) = 0
  BY OutOfNone
<1> QED BY <1>3, <1>4, <1>5 DEF Swept

\* A security account is asked for no more than its interest that is left.
LEMMA SecurityShare ==
    ASSUME TypeInv, Untouched, moved = shown, \A t \in moved : t.day <= day,
           NEW a \in Security, Opening[a] <= Principal[a],
           Out(a, moved) <= CreditsOf(interest, a)
    PROVE  Out(a, moved) + Share(a, day) <= CreditsOf(interest, a)
<1> DEFINE later == {d \in Day : d > day}
<1> USE Types
<1>1. a \in Saving /\ a \in Account /\ Principal[a] \in Nat /\ Opening[a] \in Nat /\ day \in Day
  BY Sizes, SweepAssumption
<1>2. CreditsOf(interest, a) \in Nat /\ Out(a, moved) \in Nat
  BY CreditsNat, OutNat DEF Transfers
<1>3. Balance(a) = CreditsOf(interest, a) + Opening[a] - Out(a, moved)
  <2>1. other[a] = [d \in Day |-> IF d = 0 THEN Opening[a] ELSE 0]
    BY DEF Untouched
  <2>2. OtherOf(other, a) = Opening[a]
    BY <1>1, <2>1, OpeningIs
  <2> QED BY <1>1, <2>2, BalanceIs DEF BalanceOf
<1>4. Credits(a, later) \in Nat
  <2>1. later \in SUBSET Day
    OBVIOUS
  <2> HIDE DEF later
  <2> QED BY <2>1, CreditsWithin DEF Credits
<1>5. Other(a, later) = 0
  <2>1. \A d \in later : other[a][d] = 0
    <3>1. other[a] = [d \in Day |-> IF d = 0 THEN Opening[a] ELSE 0]
      BY DEF Untouched
    <3>2. \A d \in later : d \in Day /\ d # 0
      <4>1. day \in Nat /\ \A d \in later : d \in Nat /\ d > day
        BY <1>1, Sizes
      <4> QED BY <4>1
    <3> QED BY <3>1, <3>2
  <2>2. IsFiniteSet(later)
    BY Sizes, FS_Subset
  <2> HIDE DEF later
  <2>3. SumFunction([d \in later |-> other[a][d]]) = SumFunctionOnSet(other[a], later)
    <3>1. \A d \in later : other[a][d] \in Int
      BY <2>1
    <3> QED BY <2>2, <3>1, SumWritten
  <2>4. SumFunctionOnSet(other[a], later) = 0
    BY <2>1, <2>2, SumOfZero
  <2> QED BY <2>3, <2>4 DEF Other
<1>6. AsOf(a, day) = Balance(a) - Credits(a, later) - Other(a, later) + 0
  <2>1. Out(a, {t \in shown : t.day > day}) = 0
    BY RowsShown
  <2> QED BY <2>1 DEF AsOf
<1>7. Source(a, day) = IF Looked(a, day) THEN AsOf(a, day) - Principal[a] ELSE 0
  BY <1>1 DEF Source, InterestCash
<1> HIDE DEF later
<1>8. Source(a, day) \in Int /\ Source(a, day) <= CreditsOf(interest, a) - Out(a, moved)
  BY <1>1, <1>2, <1>3, <1>4, <1>5, <1>6, <1>7
<1>9. Share(a, day) \in Int /\ (Share(a, day) <= Source(a, day) \/ Share(a, day) = 0)
  <2> DEFINE room == Available(day) - SumFunctionOnSet([b \in Account |-> Source(b, day)], 1 .. (a - 1))
  <2>1. /\ room \in Int
        /\ Share(a, day) = IF room <= 0 \/ Source(a, day) <= 0 THEN 0
                           ELSE IF Source(a, day) <= room THEN Source(a, day) ELSE room
    BY <1>1, ShareType
  <2> HIDE DEF room
  <2> QED BY <1>8, <2>1
<1> QED BY <1>2, <1>8, <1>9

\* The others are asked, all together, for no more than what is due from them.
LEMMA ReserveShares ==
    ASSUME TypeInv, NEW cut \in Day, ReportIsOk(cut), NEW k \in 0 .. Savings, Security = 1 .. k
    PROVE  SumFunctionOnSet([a \in Account |-> Share(a, cut)], Reserves) <= ReserveDue(cut)
<1> DEFINE N == Savings + Checkings
           A == Available(cut)
           src == [b \in Account |-> Source(b, cut)]
           share == [a \in Account |-> Share(a, cut)]
           cash == [a \in Security |-> InterestCash(a, cut)]
<1>1. N \in Nat /\ k \in 0 .. N /\ Account = 1 .. N /\ k \in Nat
  BY Sizes DEF Account
<1>2. Reserves = (k + 1) .. N
  BY <1>1 DEF Reserves
<1>3. \A a \in 1 .. N : src[a] \in Nat
  BY <1>1, SourceNat
<1>4. A \in Int /\ A <= Due(cut) /\ ReserveDue(cut) \in Nat
      /\ Due(cut) = SumFunction(cash) + ReserveDue(cut) /\ SumFunction(cash) \in Int
  BY AvailableType, DueType DEF Due
<1>5. \A a \in 1 .. N : share[a] = LET room == A - SumFunctionOnSet(src, 1 .. (a - 1))
                                   IN  IF room <= 0 THEN 0
                                       ELSE IF src[a] <= room THEN src[a] ELSE room
  <2> TAKE a \in 1 .. N
  <2> DEFINE room == A - SumFunctionOnSet(src, 1 .. (a - 1))
  <2>1. a \in Account
    BY <1>1
  <2>2. /\ room \in Int
        /\ Share(a, cut) = IF room <= 0 \/ Source(a, cut) <= 0 THEN 0
                           ELSE IF Source(a, cut) <= room THEN Source(a, cut) ELSE room
    BY <2>1, ShareType
  <2>3. share[a] = Share(a, cut) /\ src[a] = Source(a, cut) /\ src[a] \in Nat
    BY <1>3, <2>1
  <2> HIDE DEF src, share, A
  <2> HIDE DEF room
  <2>4. share[a] = IF room <= 0 THEN 0 ELSE IF src[a] <= room THEN src[a] ELSE room
    BY <2>2, <2>3
  <2> QED BY <2>4 DEF room
<1>6. SumFunctionOnSet(src, 1 .. k) = SumFunction(cash)
  <2>1. SumFunction(cash) = SumFunctionOnSet(cash, Security)
    BY DEF SumFunction
  <2>2. \A a \in Security : cash[a] = src[a] /\ cash[a] \in Int
    BY Sizes, FigureTypes DEF Source
  <2> HIDE DEF cash, src
  <2>3. SumFunctionOnSet(cash, Security) = SumFunctionOnSet(src, Security)
    BY <2>2, Sizes, SumSame
  <2> QED BY <2>1, <2>3
<1> HIDE DEF N, A, src, share, cash
<1>7. SumFunctionOnSet(share, (k + 1) .. N) <= Positive(A - SumFunctionOnSet(src, 1 .. k))
  BY ONLY <1>1, <1>3, <1>4, <1>5, SharesBounded
<1>8. SumFunctionOnSet(share, Reserves) <= Positive(A - SumFunction(cash))
  BY <1>2, <1>6, <1>7
<1>9. SumFunctionOnSet(share, Reserves) \in Int
  <2>1. \A a \in Reserves : share[a] \in Int
    <3> TAKE a \in Reserves
    <3>1. a \in Account
      BY ReservesAre
    <3>2. Reconciled(cut).share[a] \in Nat
      BY <3>1, ReconciledType DEF ReportType
    <3>3. share[a] = Share(a, cut) /\ Reconciled(cut).share[a] = Share(a, cut)
      BY <3>1 DEF share, Reconciled
    <3> QED BY <3>2, <3>3
  <2> QED BY <2>1, ReservesAre, SumInt
<1>10. SumFunctionOnSet(share, Reserves) <= ReserveDue(cut)
  <2> DEFINE s == SumFunctionOnSet(share, Reserves)
             c == SumFunction(cash)
  <2>1. s <= Positive(A - c) /\ s \in Int /\ c \in Int /\ Due(cut) = c + ReserveDue(cut)
    BY <1>4, <1>8, <1>9
  <2> HIDE DEF s, c
  <2>2. s <= ReserveDue(cut)
    BY <1>4, <2>1 DEF Positive
  <2> QED BY <2>2 DEF s
<1> QED BY <1>10 DEF share

\* What is due from the others is within what they earned and did not give.
LEMMA DueWithin ==
    ASSUME TypeInv, moved = shown, \A t \in moved : t.day <= day,
           SumFunctionOnSet(AllOut(moved), Reserves) <= SumFunctionOnSet(AllCredits(interest), Reserves)
    PROVE  SumFunctionOnSet(AllOut(moved), Reserves) + ReserveDue(day)
             <= SumFunctionOnSet(AllCredits(interest), Reserves)
<1> DEFINE seen == {b \in Saving \ Security : Looked(b, day)}
           g == [a \in seen |-> Gross(a, day)]
           h == [a \in Account \ Security |-> Swept(a, day)]
           o == AllOut(moved)
           c == AllCredits(interest)
           x == SumFunction(g) - SumFunction(h)
<1>0. day \in Day /\ Transfers(moved) /\ interest \in InterestType
  BY Types
<1>1. \A a \in Account : o[a] \in Nat /\ c[a] \in Nat /\ o[a] = Swept(a, day)
  <2>1. \A a \in Account : o[a] \in Nat /\ c[a] \in Nat
    BY <1>0, OutNat, CreditsNat DEF AllOut, AllCredits, Transfers
  <2>2. \A a \in Account : o[a] = Swept(a, day)
    BY RowsShown DEF AllOut
  <2> QED BY <2>1, <2>2
<1>2. seen \in SUBSET Reserves /\ IsFiniteSet(seen) /\ seen \subseteq Account
  BY Sizes, FS_Subset DEF Reserves
<1>3. \A a \in seen : g[a] \in Int /\ c[a] \in Int /\ g[a] <= c[a]
  BY <1>0, <1>1, <1>2, FigureTypes DEF AllCredits
<1>4. SumFunction(g) = SumFunctionOnSet(g, seen)
  BY DEF SumFunction
<1>5. SumFunction(h) = SumFunctionOnSet(o, Reserves)
  <2>1. SumFunction(h) = SumFunctionOnSet(h, Reserves)
    BY DEF SumFunction, Reserves
  <2>2. \A a \in Reserves : h[a] \in Int /\ h[a] = o[a]
    BY <1>1, ReservesAre DEF Reserves
  <2> HIDE DEF h, o
  <2>3. SumFunctionOnSet(h, Reserves) = SumFunctionOnSet(o, Reserves)
    BY <2>2, ReservesAre, SumSame
  <2> QED BY <2>1, <2>3
<1>6. ReserveDue(day) = Max({0, x})
  BY DEF ReserveDue
<1>7. \A a \in Reserves : o[a] \in Nat /\ c[a] \in Nat
  BY <1>1, ReservesAre
<1> HIDE DEF seen, g, h, o, c
<1>8. SumFunctionOnSet(g, seen) <= SumFunctionOnSet(c, seen)
  BY <1>2, <1>3, SumMonotone
<1>9. SumFunctionOnSet(c, seen) <= SumFunctionOnSet(c, Reserves)
  BY <1>2, <1>7, ReservesAre, SumSubset
<1>10. SumFunctionOnSet(c, seen) \in Int /\ SumFunctionOnSet(g, seen) \in Int
  BY <1>2, <1>3, SumInt
<1>11. SumFunctionOnSet(c, Reserves) \in Int /\ SumFunctionOnSet(o, Reserves) \in Int
  <2>1. \A a \in Reserves : o[a] \in Int /\ c[a] \in Int
    BY <1>7
  <2> QED BY <2>1, ReservesAre, SumInt
<1>12. x \in Int /\ x <= SumFunctionOnSet(c, Reserves) - SumFunctionOnSet(o, Reserves)
  BY <1>4, <1>5, <1>8, <1>9, <1>10, <1>11
<1> HIDE DEF x
<1>13. ReserveDue(day) = IF 0 >= x THEN 0 ELSE x
  BY <1>6, <1>12, 0 \in Int, MaxOfTwo
<1>14. SumFunctionOnSet(o, Reserves) <= SumFunctionOnSet(c, Reserves)
  BY DEF o, c
<1>15. SumFunctionOnSet(o, Reserves) + ReserveDue(day) <= SumFunctionOnSet(c, Reserves)
  BY <1>11, <1>12, <1>13, <1>14
<1> QED BY <1>15 DEF o, c

\* What the report of the day claims, with what was swept, is earned.
LEMMA ReconcileWithin ==
    ASSUME TypeInv, Untouched, SecuritySetup, moved = shown, \A t \in moved : t.day <= day,
           ReportIsOk(day), Within(AllOut(moved), interest)
    PROVE  Within([a \in Account |-> Out(a, moved) + Share(a, day)], interest)
<1> DEFINE o == AllOut(moved)
           s == [a \in Account |-> Share(a, day)]
           w == [a \in Account |-> Out(a, moved) + Share(a, day)]
<1>0. day \in Day /\ Transfers(moved) /\ interest \in InterestType
  BY Types
<1>1. \A a \in Account : o[a] = Out(a, moved) /\ o[a] \in Nat
  BY <1>0, OutNat DEF AllOut, Transfers
<1>2. \A a \in Account : s[a] = Share(a, day) /\ s[a] \in Nat
  BY <1>0, ReconciledType DEF ReportType, Reconciled
<1>3. \A a \in Security : w[a] <= CreditsOf(interest, a)
  <2> TAKE a \in Security
  <2>1. a \in Account /\ Opening[a] <= Principal[a]
    BY Sizes DEF SecuritySetup
  <2>2. Out(a, moved) <= CreditsOf(interest, a)
    BY <1>1, <2>1 DEF Within
  <2>3. Out(a, moved) + Share(a, day) <= CreditsOf(interest, a)
    BY <2>1, <2>2, SecurityShare
  <2> QED BY <2>1, <2>3
<1>4. SumFunctionOnSet(w, Reserves) = SumFunctionOnSet(o, Reserves) + SumFunctionOnSet(s, Reserves)
  <2>1. \A a \in Reserves : o[a] \in Int /\ s[a] \in Int /\ w[a] = o[a] + s[a]
    BY <1>1, <1>2, ReservesAre
  <2> HIDE DEF o, s, w
  <2> QED BY <2>1, ReservesAre, SumPlus
<1>5. SumFunctionOnSet(s, Reserves) <= ReserveDue(day)
  <2>1. PICK k \in 0 .. Savings : Security = 1 .. k
    BY DEF SecuritySetup
  <2> QED BY <1>0, <2>1, ReserveShares
<1>6. SumFunctionOnSet(o, Reserves) + ReserveDue(day) <= SumFunctionOnSet(AllCredits(interest), Reserves)
  BY DueWithin DEF Within
<1>7. ReserveDue(day) \in Nat
  BY <1>0, DueType
<1>8. SumFunctionOnSet(o, Reserves) \in Int /\ SumFunctionOnSet(s, Reserves) \in Int
  <2>1. \A a \in Reserves : o[a] \in Int /\ s[a] \in Int
    BY <1>1, <1>2, ReservesAre
  <2> HIDE DEF o, s
  <2> QED BY <2>1, ReservesAre, SumInt
<1>9. SumFunctionOnSet(AllCredits(interest), Reserves) \in Int
  <2>1. \A a \in Reserves : AllCredits(interest)[a] \in Int
    BY <1>0, ReservesAre, CreditsNat DEF AllCredits
  <2> QED BY <2>1, ReservesAre, SumInt
<1> HIDE DEF o, s, w
<1>10. SumFunctionOnSet(w, Reserves) <= SumFunctionOnSet(AllCredits(interest), Reserves)
  BY <1>4, <1>5, <1>6, <1>7, <1>8, <1>9
<1>11. Within(w, interest)
  BY <1>3, <1>10 DEF Within
<1> QED BY <1>11 DEF w

\* Two sets of transfers give no more than each of them.
LEMMA OutUnion ==
    ASSUME NEW S, NEW T, Transfers(S), Transfers(T), NEW a
    PROVE  Out(a, S \cup T) <= Out(a, S) + Out(a, T)
<1> DEFINE R == T \ S
           P == {t \in S : t.src = a}
           Q == {t \in R : t.src = a}
<1>1. IsFiniteSet(R) /\ R \in SUBSET Plan /\ R \in SUBSET T
  BY FS_Subset DEF Transfers
<1>2. IsFiniteSet(P) /\ IsFiniteSet(Q) /\ P \in SUBSET Plan /\ Q \in SUBSET Plan /\ P \cap Q = {}
  BY <1>1, FS_Subset DEF Transfers
<1>3. {t \in S \cup T : t.src = a} = P \cup Q
  OBVIOUS
<1>4. Out(a, R) <= Out(a, T) /\ Out(a, R) \in Nat /\ Out(a, S) \in Nat /\ Out(a, T) \in Nat
  BY <1>1, OutSubset, OutNat DEF Transfers
<1>5. Out(a, S) = Amount(P) /\ Out(a, R) = Amount(Q) /\ Out(a, S \cup T) = Amount(P \cup Q)
  BY <1>3 DEF Out
<1> HIDE DEF R, P, Q
<1>6. Amount(P \cup Q) = Amount(P) + Amount(Q)
  <2>1. IsFiniteSet(P \cup Q) /\ P \cup Q \in SUBSET Plan
    BY <1>2, FS_Union
  <2>2. \A t \in P \cup Q : amountOf[t] \in Int
    BY <2>1, AmountIs
  <2>3. SumFunctionOnSet(amountOf, P \cup Q) = SumFunctionOnSet(amountOf, P) + SumFunctionOnSet(amountOf, Q)
    BY <1>2, <2>2, SumUnion
  <2> QED BY <1>2, <2>1, <2>3, AmountIs
<1> QED BY <1>4, <1>5, <1>6

\* The transfers of a plan take from an account no more than its share.
LEMMA OutOfShare ==
    ASSUME TypeInv, pc # "idle", NEW a \in Account
    PROVE  Out(a, Specs) <= report.share[a]
<1>1. Specs \in SUBSET Wanted
  BY DEF Specs
<1>2. report.share[a] \in Nat
  BY DEF TypeInv, ReportType
<1>3. CASE \A t \in Specs : t.src # a
  BY <1>1, <1>2, <1>3, OutOfPlan
<1>4. CASE \E t \in Specs : t.src = a
  <2>1. PICK t \in Specs : t.src = a
    BY <1>4
  <2>2. Out(a, Specs) = t.amount
    BY <1>1, <2>1, OutOfPlan
  <2>3. t.amount = report.share[a]
    BY <1>1, <2>1 DEF Wanted
  <2> QED BY <1>2, <2>2, <2>3
<1> QED BY <1>3, <1>4

LEMMA DaysAreNumbers == \A d \in Day : d \in Int
BY Sizes

\* Nothing new is promised, and no account has earned less.
LEMMA PromisedLess ==
    ASSUME EarnInv, TypeInv', Quiet', Untouched', day <= day', Promised' \subseteq Promised,
           \A a \in Account : CreditsOf(interest, a) <= CreditsOf(interest', a),
           pc' \in {"reported", "planned"} => pc \in {"reported", "planned"} /\ report' = report
    PROVE  EarnInv'
<1> DEFINE P == Promised
           Q == Promised'
<1>1. TypeInv /\ interest \in InterestType /\ Transfers(P) /\ day \in Int
  BY Types, DaysAreNumbers, PromisedType DEF EarnInv
<1>2. interest' \in InterestType /\ day' \in Int
  <2>1. interest' \in [Saving -> [Day -> 0 .. EarnLimit]] /\ day' \in Day
    BY DEF TypeInv, TypeOK
  <2>2. 0 .. EarnLimit \subseteq Nat
    BY Sizes
  <2> QED BY <2>1, <2>2, Sizes DEF InterestType
<1>3. Q \in SUBSET P /\ Transfers(Q)
  <2> HIDE DEF P, Q
  <2>1. Q \in SUBSET P
    BY DEF P, Q
  <2> QED BY <1>1, <2>1, FS_Subset DEF Transfers
<1>4. \A t \in Q : t.day <= day'
  <2> TAKE t \in Q
  <2>1. t \in Plan
    BY <1>3 DEF Transfers
  <2>2. t.day \in Day
    BY <2>1 DEF Plan
  <2>4. t.day \in Int
    BY <2>2, DaysAreNumbers
  <2>5. t.day <= day
    BY <1>3 DEF EarnInv
  <2> HIDE DEF Q
  <2> QED BY <1>1, <1>2, <2>4, <2>5
<1>5. \A a \in Account : Out(a, P) \in Nat /\ Out(a, Q) \in Nat /\ Out(a, Q) <= Out(a, P)
  <2> HIDE DEF P, Q
  <2> QED BY <1>1, <1>3, OutNat, OutSubset DEF Transfers
<1>6. Within(AllOut(Q), interest')
  <2>1. \A a \in Account : AllOut(P)[a] \in Nat /\ AllOut(Q)[a] \in Nat /\ AllOut(Q)[a] <= AllOut(P)[a]
    <3> HIDE DEF P, Q
    <3> QED BY <1>5 DEF AllOut
  <2>2. Within(AllOut(P), interest)
    BY DEF EarnInv
  <2> HIDE DEF P, Q
  <2> QED BY <1>1, <1>2, <2>1, <2>2, WithinLess
<1>7. ASSUME pc' \in {"reported", "planned"} PROVE Within([a \in Account |-> Out(a, Q) + report'.share[a]], interest')
  <2> DEFINE w == [a \in Account |-> Out(a, P) + report.share[a]]
             v == [a \in Account |-> Out(a, Q) + report.share[a]]
  <2>1. pc \in {"reported", "planned"} /\ report' = report
    BY <1>7
  <2>2. \A a \in Account : report.share[a] \in Nat
    BY <1>1, <2>1 DEF TypeInv, ReportType
  <2>3. \A a \in Account : w[a] \in Nat /\ v[a] \in Nat /\ v[a] <= w[a]
    <3> HIDE DEF P, Q
    <3> QED BY <1>5, <2>2
  <2>4. Within(w, interest)
    BY <2>1 DEF EarnInv, Claimed
  <2> HIDE DEF w, v
  <2>5. Within(v, interest')
    BY <1>1, <1>2, <2>3, <2>4, WithinLess
  <2> QED BY <2>1, <2>5 DEF v
<1> QED BY <1>4, <1>6, <1>7 DEF EarnInv, Claimed

\* The reconciliation and the apply step, where something new is promised.
LEMMA ReconcileEarns ==
    ASSUME Settled, CutoffToday, SecuritySetup, EarnInv, TypeInv', Quiet', NEW cut \in Day, Reconcile(cut)
    PROVE  EarnInv'
<1>1. /\ cut = day /\ moved = shown /\ flight = {} /\ left = {} /\ ReportIsOk(day)
      /\ report' = Reconciled(day) /\ UNCHANGED <<day, interest, other, moved, flight, left>>
  BY DEF Reconcile, bank, EarnInv, Quiet
<1>2. Promised = moved /\ Promised' = moved
  BY <1>1 DEF Promised
<1>3. /\ TypeInv /\ Untouched /\ Within(AllOut(moved), interest)
      /\ \A t \in moved : t.day <= day
  BY <1>2 DEF EarnInv
<1>4. Within([a \in Account |-> Out(a, moved) + Share(a, day)], interest)
  BY <1>1, <1>3, ReconcileWithin
<1>5. [a \in Account |-> Out(a, Promised') + report'.share[a]] = [a \in Account |-> Out(a, moved) + Share(a, day)]
  BY <1>1, <1>2 DEF Reconciled
<1>6. Untouched'
  BY <1>1, <1>3 DEF Untouched
<1> QED BY <1>1, <1>2, <1>3, <1>4, <1>5, <1>6 DEF EarnInv, Claimed

LEMMA ApplyEarns ==
    ASSUME EarnInv, TypeInv', Quiet', Apply
    PROVE  EarnInv'
<1>1. /\ pc = "planned" /\ pc' = "sweeping" /\ left' = Specs /\ flight = {} /\ left = {}
      /\ UNCHANGED <<day, interest, other, moved, flight>>
  BY DEF Apply, bank, EarnInv, Quiet
<1>2. TypeInv /\ pc # "idle" /\ Untouched /\ interest \in InterestType /\ Transfers(moved)
  BY <1>1, Types DEF EarnInv
<1>3. Promised = moved /\ Promised' = moved \cup Specs
  BY <1>1 DEF Promised
<1>4. Transfers(Specs) /\ Transfers(moved \cup Specs)
  <2>1. Transfers(Specs)
    BY <1>2, SpecsType
  <2> QED BY <1>2, <2>1, FS_Union DEF Transfers
<1>5. \A t \in moved \cup Specs : t.day <= day
  <2>1. \A t \in moved : t.day <= day
    BY <1>3 DEF EarnInv
  <2>2. \A t \in Specs : t.day = day
    BY <1>2, WantedType DEF Specs
  <2>3. day \in Int
    BY <1>2, Types, DaysAreNumbers
  <2> QED BY <2>1, <2>2, <2>3
<1>6. Within(AllOut(moved \cup Specs), interest)
  <2> DEFINE w == [a \in Account |-> Out(a, moved) + report.share[a]]
             v == AllOut(moved \cup Specs)
  <2>1. Within(w, interest)
    BY <1>1, <1>3 DEF EarnInv, Claimed
  <2>2. \A a \in Account : w[a] \in Nat /\ v[a] \in Nat /\ v[a] <= w[a]
    <3> TAKE a \in Account
    <3>1. report.share[a] \in Nat
      BY <1>2 DEF TypeInv, ReportType
    <3>2. Out(a, Specs) <= report.share[a]
      BY <1>2, OutOfShare
    <3>3. Out(a, moved \cup Specs) <= Out(a, moved) + Out(a, Specs)
      BY <1>2, <1>4, OutUnion
    <3>4. Out(a, moved) \in Nat /\ Out(a, Specs) \in Nat /\ Out(a, moved \cup Specs) \in Nat
      BY <1>2, <1>4, OutNat DEF Transfers
    <3> QED BY <3>1, <3>2, <3>3, <3>4 DEF AllOut
  <2>3. \A a \in Account : CreditsOf(interest, a) <= CreditsOf(interest, a)
    BY <1>2, CreditsNat
  <2> HIDE DEF w, v
  <2>4. Within(v, interest)
    BY <1>2, <2>1, <2>2, <2>3, WithinLess
  <2> QED BY <2>4 DEF v
<1>7. Untouched'
  BY <1>1, <1>2 DEF Untouched
<1> QED BY <1>1, <1>3, <1>5, <1>6, <1>7 DEF EarnInv

LEMMA EarnInvStep ==
    ASSUME Settled, CutoffToday, SecuritySetup, EarnInv, [Next]_vars
    PROVE  EarnInv'
<1>0. /\ TypeInv /\ TypeInv' /\ Quiet /\ Quiet' /\ Untouched
      /\ interest \in InterestType /\ day \in Int /\ Security \subseteq Account
  <2>1. TypeInv /\ Quiet /\ Untouched
    BY DEF EarnInv
  <2>2. TypeInv'
    BY <2>1, TypeStep
  <2>3. Quiet'
    BY <2>1, QuietStep
  <2>4. day \in Int /\ interest \in InterestType
    BY <2>1, Types, DaysAreNumbers
  <2> QED BY <2>1, <2>2, <2>3, <2>4, Sizes
<1>1. ASSUME Untouched', day <= day', Promised' \subseteq Promised,
             interest' = interest \/ \E b \in Saving : Earn(b),
             pc' \in {"reported", "planned"} => pc \in {"reported", "planned"} /\ report' = report
      PROVE  EarnInv'
  <2>1. \A a \in Account : CreditsOf(interest, a) <= CreditsOf(interest', a)
    <3> TAKE a \in Account
    <3>1. CreditsOf(interest, a) \in Nat
      BY <1>0, CreditsNat
    <3>2. CASE interest' = interest
      BY <3>1, <3>2
    <3>3. CASE \E b \in Saving : Earn(b)
      <4>1. PICK b \in Saving : Earn(b)
        BY <3>3
      <4>2. CreditsOf(interest', a) = CreditsOf(interest, a) + IF a = b THEN 1 ELSE 0
        BY <1>0, <4>1, EarnStep
      <4> QED BY <3>1, <4>2
    <3> QED BY <1>1, <3>2, <3>3
  <2> QED BY <1>0, <1>1, <2>1, PromisedLess
<1>2. ASSUME UNCHANGED <<day, interest, other>>, Promised' \subseteq Promised,
             pc' \in {"reported", "planned"} => pc \in {"reported", "planned"} /\ report' = report
      PROVE  EarnInv'
  <2>1. Untouched'
    BY <1>0, <1>2 DEF Untouched
  <2> QED BY <1>0, <1>1, <1>2, <2>1
<1>3. CASE \E cut \in Day : Reconcile(cut)
  BY <1>0, <1>3, ReconcileEarns
<1>4. CASE Apply
  BY <1>0, <1>4, ApplyEarns
<1>5. CASE DryRun \/ Finish \/ Fail \/ (\E t \in moved \ shown : Show(t)) \/ UNCHANGED vars
  <2>1. UNCHANGED <<day, interest, other, moved, flight>> /\ left' \in {left, {}}
    BY <1>5 DEF DryRun, Finish, Fail, Show, vars, bank, close
  <2>2. pc' \in {"reported", "planned"} => pc \in {"reported", "planned"} /\ report' = report
    BY <1>5 DEF DryRun, Finish, Fail, Show, vars, bank, close
  <2>3. Promised' \subseteq Promised
    BY <2>1 DEF Promised
  <2> QED BY <1>2, <2>1, <2>2, <2>3
<1>6. CASE Tomorrow
  <2>1. UNCHANGED <<interest, other, moved, flight, left, pc, report>> /\ day' = day + 1
    BY <1>6 DEF Tomorrow, bank, close
  <2>2. Promised' \subseteq Promised /\ day <= day'
    BY <1>0, <2>1 DEF Promised
  <2>3. Untouched'
    BY <1>0, <2>1 DEF Untouched
  <2> QED BY <1>1, <2>1, <2>2, <2>3
<1>7. ASSUME NEW t \in left, Completed(t) \/ Uncertain(t) PROVE EarnInv'
  <2>1. UNCHANGED <<day, interest, other>> /\ pc' \notin {"reported", "planned"}
    BY <1>7 DEF Completed, Uncertain, MaySubmit
  <2>2. Promised' \subseteq Promised
    BY <1>7 DEF Completed, Uncertain, Promised
  <2> QED BY <1>2, <2>1, <2>2
<1>8. ASSUME NEW t \in flight, Land(t) PROVE EarnInv'
  <2>1. UNCHANGED <<day, interest, other, pc, report>>
    BY <1>8 DEF Land, close
  <2>2. Promised' \subseteq Promised
    BY <1>8 DEF Land, close, Promised
  <2> QED BY <1>2, <2>1, <2>2
<1>9. ASSUME NEW b \in Saving, Earn(b) PROVE EarnInv'
  <2>1. UNCHANGED <<day, other, moved, flight, left, pc, report>>
    BY <1>9 DEF Earn, close
  <2>2. Promised' \subseteq Promised /\ Untouched' /\ day <= day'
    BY <1>0, <2>1 DEF Promised, Untouched
  <2> QED BY <1>1, <1>9, <2>1, <2>2
<1>10. ASSUME UNCHANGED <<day, interest, moved, flight, left, pc, report>>,
              \A a \in Security : other'[a] = other[a]
       PROVE  EarnInv'
  <2>1. Promised' \subseteq Promised /\ Untouched' /\ day <= day'
    BY <1>0, <1>10 DEF Promised, Untouched
  <2> QED BY <1>1, <1>10, <2>1
<1>11. ASSUME NEW b \in Paid, Pay(b) PROVE EarnInv'
  <2>1. UNCHANGED <<day, interest, moved, flight, left, pc, report>> /\ \A a \in Account \ {b} : other'[a] = other[a]
    BY <1>0, <1>11, Types DEF Pay, close, OtherType
  <2>2. b \notin Security
    BY DEF SecuritySetup
  <2> QED BY <1>0, <1>10, <2>1, <2>2
<1>12. ASSUME NEW b \in Saving \ Security, NEW c \in Account \ Saving, Withdraw(b, c) PROVE EarnInv'
  <2>1. UNCHANGED <<day, interest, moved, flight, left, pc, report>> /\ \A a \in Account \ {b, c} : other'[a] = other[a]
    BY <1>0, <1>12, Types DEF Withdraw, close, OtherType
  <2>2. b \notin Security /\ c \notin Security
    BY Sizes
  <2> QED BY <1>0, <1>10, <2>1, <2>2
<1> QED BY <1>3, <1>4, <1>5, <1>6, <1>7, <1>8, <1>9, <1>11, <1>12 DEF Next

\* Over any number of closes, crashes and uncertain transfers, no more is swept
\* out of a property than its savings accounts have earned: in every run in
\* which a close waits for the earlier sweeps to settle and be shown (Settled)
\* and takes the current date as its cutoff (CutoffToday), for a property whose
\* security accounts receive interest only and are drawn on first (SecuritySetup).
THEOREM SweptIsEarned ==
    (Settled /\ CutoffToday /\ SecuritySetup) => (Spec => []SweptAtMostEarned)
<1> SUFFICES ASSUME Settled, CutoffToday, SecuritySetup PROVE Spec => []SweptAtMostEarned
  OBVIOUS
<1>1. Init => EarnInv
  BY EarnInit
<1>2. EarnInv /\ [Next]_vars => EarnInv'
  BY EarnInvStep
<1>3. EarnInv => SweptAtMostEarned
  BY EarnEnough
<1> QED BY <1>1, <1>2, <1>3, PTL DEF Spec
=============================================================================
