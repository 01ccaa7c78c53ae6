------------------------------ MODULE Sums_proofs ------------------------------
(* What every proof about a sum over a finite set needs.                       *)
EXTENDS Sums, FiniteSetTheorems, WellFoundedInduction, TLAPS

-------------------------------------------------------------------------------
(* Sets with a property have a smallest member, which is what a proof by     *)
(* induction over subsets comes to without an operator for its hypothesis.   *)

\* Among subsets of a finite set one is minimal: none of the others is a proper
\* part of it.
LEMMA MinimalSubset ==
    ASSUME NEW S, IsFiniteSet(S), NEW T \in SUBSET (SUBSET S), T # {}
    PROVE  \E x \in T : \A y \in T : ~(y \subseteq x /\ y # x)
<1>1. FiniteSubsetsOf(S) = SUBSET S
  BY FS_FiniteSubsetsOfFinite
<1>2. IsWellFoundedOn(StrictSubsetOrdering(S), SUBSET S)
  BY <1>1, FS_StrictSubsetOrderingWellFounded
<1>3. PICK x \in T : \A y \in T : <<y, x>> \notin StrictSubsetOrdering(S)
  BY <1>2, WFMin
<1>4. \A y \in T : ~(y \subseteq x /\ y # x)
  BY <1>3 DEF StrictSubsetOrdering
<1> QED BY <1>4

-------------------------------------------------------------------------------
(* TotalOver is a recursively defined function: that there is one.           *)

Pick(s) == CHOOSE x \in s : TRUE
Folds(f, S, g) ==
    g = [s \in SUBSET S |-> IF s = {} THEN 0 ELSE f[Pick(s)] + g[s \ {Pick(s)}]]

\* What the fold of the library comes to here.
LEMMA TotalOverDef ==
    ASSUME NEW f, NEW S
    PROVE  TotalOver(f, S) = (CHOOSE g : Folds(f, S, g))[S]
BY DEF TotalOver, FoldFunctionOnSet, MapThenFoldSet, Folds, Pick

\* A function that folds over a set folds over its subsets.
LEMMA FoldsOnSubset ==
    ASSUME NEW f, NEW S, NEW g, Folds(f, S, g), NEW T \in SUBSET S
    PROVE  Folds(f, T, [s \in SUBSET T |-> g[s]])
<1> DEFINE h == [s \in SUBSET T |-> g[s]]
<1>1. ASSUME NEW s \in SUBSET T
      PROVE  h[s] = IF s = {} THEN 0 ELSE f[Pick(s)] + h[s \ {Pick(s)}]
  <2>1. s \in SUBSET S /\ s \ {Pick(s)} \in SUBSET T
    OBVIOUS
  <2> HIDE DEF h
  <2>2. g[s] = IF s = {} THEN 0 ELSE f[Pick(s)] + g[s \ {Pick(s)}]
    BY <2>1 DEF Folds
  <2> QED BY <2>1, <2>2 DEF h
<1> QED BY <1>1 DEF Folds

\* At most one function folds over a finite set.
LEMMA FoldsUnique ==
    ASSUME NEW f, NEW S, IsFiniteSet(S), NEW g, NEW h, Folds(f, S, g), Folds(f, S, h)
    PROVE  \A s \in SUBSET S : g[s] = h[s]
<1> DEFINE T == {s \in SUBSET S : g[s] # h[s]}
<1> SUFFICES ASSUME T # {} PROVE FALSE
  OBVIOUS
<1>1. PICK x \in T : \A y \in T : ~(y \subseteq x /\ y # x)
  <2> HIDE DEF T
  <2>1. T \in SUBSET (SUBSET S)
    BY DEF T
  <2> QED BY <2>1, MinimalSubset
<1>2. x # {}
  BY <1>1 DEF Folds
<1>3. Pick(x) \in x
  BY <1>2 DEF Pick
<1>4. x \ {Pick(x)} \in SUBSET S /\ x \ {Pick(x)} # x
  BY <1>3
<1>5. g[x \ {Pick(x)}] = h[x \ {Pick(x)}]
  BY <1>1, <1>4
<1>6. /\ g[x] = f[Pick(x)] + g[x \ {Pick(x)}]
      /\ h[x] = f[Pick(x)] + h[x \ {Pick(x)}]
  BY <1>2 DEF Folds
<1> QED BY <1>1, <1>5, <1>6

\* Whatever folds over a finite set computes the totals of its subsets.
LEMMA FoldsIsTotal ==
    ASSUME NEW f, NEW S, IsFiniteSet(S), NEW g, Folds(f, S, g)
    PROVE  \A s \in SUBSET S : g[s] = TotalOver(f, s)
<1> TAKE s \in SUBSET S
<1> DEFINE h == [t \in SUBSET s |-> g[t]]
           c == CHOOSE k : Folds(f, s, k)
<1>1. Folds(f, s, h)
  BY FoldsOnSubset
<1>2. Folds(f, s, c)
  BY <1>1
<1>3. IsFiniteSet(s)
  BY FS_Subset
<1>4. h[s] = g[s]
  OBVIOUS
<1> HIDE DEF h, c
<1>5. h[s] = c[s]
  BY <1>1, <1>2, <1>3, FoldsUnique
<1> QED BY <1>4, <1>5, TotalOverDef DEF c

\* Some function folds over a finite set.
LEMMA FoldsExists ==
    ASSUME NEW f, NEW S, IsFiniteSet(S)
    PROVE  \E g : Folds(f, S, g)
<1> DEFINE T == {s \in SUBSET S : ~\E g : Folds(f, s, g)}
<1> SUFFICES ASSUME T # {} PROVE FALSE
  OBVIOUS
<1>1. PICK x \in T : \A y \in T : ~(y \subseteq x /\ y # x)
  <2> HIDE DEF T
  <2>1. T \in SUBSET (SUBSET S)
    BY DEF T
  <2> QED BY <2>1, MinimalSubset
<1> DEFINE g == [s \in SUBSET x |->
                    IF s = {} THEN 0 ELSE f[Pick(s)] + TotalOver(f, s \ {Pick(s)})]
<1>2. ASSUME NEW t \in SUBSET x, t # {}
      PROVE  g[t \ {Pick(t)}] = TotalOver(f, t \ {Pick(t)})
  <2> DEFINE u == t \ {Pick(t)}
  <2>1. Pick(t) \in t
    BY <1>2 DEF Pick
  <2>2. u \in SUBSET x /\ u # x
    BY <2>1
  <2>3. PICK k : Folds(f, u, k)
    BY <1>1, <2>2
  <2>4. IsFiniteSet(u)
    BY <2>2, FS_Subset
  <2> HIDE DEF u
  <2>5. \A s \in SUBSET u : k[s] = TotalOver(f, s)
    BY <2>3, <2>4, FoldsIsTotal
  <2>6. k[u] = IF u = {} THEN 0 ELSE f[Pick(u)] + k[u \ {Pick(u)}]
    BY <2>3 DEF Folds
  <2>7. TotalOver(f, u) = IF u = {} THEN 0 ELSE f[Pick(u)] + TotalOver(f, u \ {Pick(u)})
    BY <2>5, <2>6
  <2> QED BY <2>2, <2>7 DEF u
<1>3. Folds(f, x, g)
  <2>1. ASSUME NEW t \in SUBSET x
        PROVE  g[t] = IF t = {} THEN 0 ELSE f[Pick(t)] + g[t \ {Pick(t)}]
    <3>1. CASE t = {}
      BY <3>1
    <3>2. CASE t # {}
      <4>1. g[t \ {Pick(t)}] = TotalOver(f, t \ {Pick(t)})
        BY <1>2, <3>2
      <4>2. g[t] = f[Pick(t)] + TotalOver(f, t \ {Pick(t)})
        BY <3>2
      <4> QED BY <4>1, <4>2, <3>2
    <3> QED BY <3>1, <3>2
  <2> QED BY <2>1 DEF Folds
<1> QED BY <1>1, <1>3

\* The recursion that defines the sum, as an equation.
LEMMA TotalOverFold ==
    ASSUME NEW f, NEW S, IsFiniteSet(S)
    PROVE  TotalOver(f, S) =
               IF S = {} THEN 0 ELSE f[Pick(S)] + TotalOver(f, S \ {Pick(S)})
<1>1. PICK g : Folds(f, S, g)
  BY FoldsExists
<1>2. \A s \in SUBSET S : g[s] = TotalOver(f, s)
  BY <1>1, FoldsIsTotal
<1>3. g[S] = IF S = {} THEN 0 ELSE f[Pick(S)] + g[S \ {Pick(S)}]
  BY <1>1 DEF Folds
<1> QED BY <1>2, <1>3

-------------------------------------------------------------------------------
(* The laws of a sum                                                         *)

\* The sum over nothing.
LEMMA TotalOverEmpty ==
    ASSUME NEW f
    PROVE  TotalOver(f, {}) = 0
BY TotalOverFold, FS_EmptySet

\* A sum of integers is an integer.
LEMMA TotalOverInt ==
    ASSUME NEW S, IsFiniteSet(S), NEW f, \A x \in S : f[x] \in Int
    PROVE  TotalOver(f, S) \in Int
<1> DEFINE T == {s \in SUBSET S : TotalOver(f, s) \notin Int}
<1> SUFFICES ASSUME T # {} PROVE FALSE
  OBVIOUS
<1>1. PICK s \in T : \A y \in T : ~(y \subseteq s /\ y # s)
  <2> HIDE DEF T
  <2>1. T \in SUBSET (SUBSET S)
    BY DEF T
  <2> QED BY <2>1, MinimalSubset
<1>2. IsFiniteSet(s)
  BY FS_Subset
<1>3. s # {}
  BY TotalOverEmpty
<1>4. Pick(s) \in s
  BY <1>3 DEF Pick
<1>5. TotalOver(f, s \ {Pick(s)}) \in Int
  BY <1>1, <1>4
<1> QED BY <1>2, <1>3, <1>4, <1>5, TotalOverFold

\* Any summand may be taken out.
LEMMA TotalOverRemove ==
    ASSUME NEW S, IsFiniteSet(S), NEW f, \A x \in S : f[x] \in Int, NEW a \in S
    PROVE  TotalOver(f, S) = f[a] + TotalOver(f, S \ {a})
<1> DEFINE T == {s \in SUBSET S : \E x \in s :
                     TotalOver(f, s) # f[x] + TotalOver(f, s \ {x})}
<1> SUFFICES ASSUME T # {} PROVE FALSE
  OBVIOUS
<1>1. PICK s \in T : \A y \in T : ~(y \subseteq s /\ y # s)
  <2> HIDE DEF T
  <2>1. T \in SUBSET (SUBSET S)
    BY DEF T
  <2> QED BY <2>1, MinimalSubset
<1>2. PICK x \in s : TotalOver(f, s) # f[x] + TotalOver(f, s \ {x})
  OBVIOUS
<1> DEFINE p == Pick(s)
<1>3. p \in s
  BY DEF Pick
<1> HIDE DEF p
<1>4. IsFiniteSet(s) /\ IsFiniteSet(s \ {p}) /\ IsFiniteSet(s \ {x})
      /\ IsFiniteSet(s \ {p, x})
  BY FS_Subset
<1>5. TotalOver(f, s) = f[p] + TotalOver(f, s \ {p})
  BY <1>2, <1>4, TotalOverFold DEF p
<1>6. p # x
  BY <1>2, <1>5
<1>7. (s \ {p}) \ {x} = s \ {p, x} /\ (s \ {x}) \ {p} = s \ {p, x}
  OBVIOUS
<1>8. s \ {p} \notin T /\ s \ {x} \notin T
  BY <1>1, <1>2, <1>3
<1>9. TotalOver(f, s \ {p}) = f[x] + TotalOver(f, s \ {p, x})
  BY <1>6, <1>7, <1>8
<1>10. TotalOver(f, s \ {x}) = f[p] + TotalOver(f, s \ {p, x})
  BY <1>3, <1>6, <1>7, <1>8
<1>11. f[p] \in Int /\ f[x] \in Int
  BY <1>3
<1>12. TotalOver(f, s \ {p, x}) \in Int
  BY <1>4, TotalOverInt
<1> QED BY <1>2, <1>5, <1>9, <1>10, <1>11, <1>12

\* A summand that was not there is added.
LEMMA TotalOverAdd ==
    ASSUME NEW S, IsFiniteSet(S), NEW a, a \notin S,
           NEW f, \A x \in S \cup {a} : f[x] \in Int
    PROVE  TotalOver(f, S \cup {a}) = f[a] + TotalOver(f, S)
<1>1. IsFiniteSet(S \cup {a}) /\ (S \cup {a}) \ {a} = S
  BY FS_AddElement
<1> QED BY <1>1, TotalOverRemove

\* A sum grows with its summands.
LEMMA TotalOverMonotone ==
    ASSUME NEW S, IsFiniteSet(S), NEW f, NEW g,
           \A x \in S : f[x] \in Int /\ g[x] \in Int /\ f[x] <= g[x]
    PROVE  TotalOver(f, S) <= TotalOver(g, S)
<1> DEFINE T == {s \in SUBSET S : ~(TotalOver(f, s) <= TotalOver(g, s))}
<1> SUFFICES ASSUME T # {} PROVE FALSE
  OBVIOUS
<1>1. PICK s \in T : \A y \in T : ~(y \subseteq s /\ y # s)
  <2> HIDE DEF T
  <2>1. T \in SUBSET (SUBSET S)
    BY DEF T
  <2> QED BY <2>1, MinimalSubset
<1>2. IsFiniteSet(s)
  BY FS_Subset
<1>3. PICK x : x \in s
  BY TotalOverEmpty
<1>4. TotalOver(f, s \ {x}) <= TotalOver(g, s \ {x})
  BY <1>1, <1>3
<1>5. /\ TotalOver(f, s) = f[x] + TotalOver(f, s \ {x})
      /\ TotalOver(g, s) = g[x] + TotalOver(g, s \ {x})
  BY <1>2, <1>3, TotalOverRemove
<1>6. IsFiniteSet(s \ {x})
  BY <1>2, FS_RemoveElement
<1>7. TotalOver(f, s \ {x}) \in Int /\ TotalOver(g, s \ {x}) \in Int
  BY <1>6, TotalOverInt
<1> QED BY <1>3, <1>4, <1>5, <1>7

\* A sum depends on its summands only.
LEMMA TotalOverSame ==
    ASSUME NEW S, IsFiniteSet(S), NEW f, NEW g,
           \A x \in S : f[x] \in Int /\ f[x] = g[x]
    PROVE  TotalOver(f, S) = TotalOver(g, S)
<1>1. TotalOver(f, S) <= TotalOver(g, S) /\ TotalOver(g, S) <= TotalOver(f, S)
  BY TotalOverMonotone
<1>2. TotalOver(f, S) \in Int /\ TotalOver(g, S) \in Int
  BY TotalOverInt
<1> QED BY <1>1, <1>2

\* A sum of zeros.
LEMMA TotalOverZero ==
    ASSUME NEW S, IsFiniteSet(S), NEW f, \A x \in S : f[x] = 0
    PROVE  TotalOver(f, S) = 0
<1> DEFINE T == {s \in SUBSET S : TotalOver(f, s) # 0}
<1> SUFFICES ASSUME T # {} PROVE FALSE
  OBVIOUS
<1>1. PICK s \in T : \A y \in T : ~(y \subseteq s /\ y # s)
  <2> HIDE DEF T
  <2>1. T \in SUBSET (SUBSET S)
    BY DEF T
  <2> QED BY <2>1, MinimalSubset
<1>2. IsFiniteSet(s)
  BY FS_Subset
<1>3. PICK x : x \in s
  BY TotalOverEmpty
<1>4. TotalOver(f, s) = f[x] + TotalOver(f, s \ {x})
  BY <1>2, <1>3, TotalOverRemove
<1>5. TotalOver(f, s \ {x}) = 0
  BY <1>1, <1>3
<1> QED BY <1>3, <1>4, <1>5

\* Natural numbers add up to one.
LEMMA TotalOverNat ==
    ASSUME NEW S, IsFiniteSet(S), NEW f, \A x \in S : f[x] \in Nat
    PROVE  TotalOver(f, S) \in Nat
<1> DEFINE z == [x \in S |-> 0]
<1>1. TotalOver(z, S) = 0
  BY TotalOverZero
<1>2. TotalOver(z, S) <= TotalOver(f, S)
  BY TotalOverMonotone
<1> HIDE DEF z
<1>3. TotalOver(f, S) \in Int
  BY TotalOverInt
<1> QED BY <1>1, <1>2, <1>3

\* What is not negative is not less over a larger set.
LEMMA TotalOverSubset ==
    ASSUME NEW S, IsFiniteSet(S), NEW T \in SUBSET S, NEW f, \A x \in S : f[x] \in Nat
    PROVE  TotalOver(f, T) <= TotalOver(f, S)
<1> DEFINE R == {s \in SUBSET S : T \subseteq s /\ ~(TotalOver(f, T) <= TotalOver(f, s))}
<1> SUFFICES ASSUME R # {} PROVE FALSE
  OBVIOUS
<1>1. PICK s \in R : \A y \in R : ~(y \subseteq s /\ y # s)
  <2> HIDE DEF R
  <2>1. R \in SUBSET (SUBSET S)
    BY DEF R
  <2> QED BY <2>1, MinimalSubset
<1>2. IsFiniteSet(s) /\ IsFiniteSet(T)
  BY FS_Subset
<1>3. TotalOver(f, T) \in Nat /\ TotalOver(f, s) \in Nat
  BY <1>2, TotalOverNat
<1>4. PICK x : x \in s \ T
  <2>1. s # T
    BY <1>3
  <2> QED BY <2>1
<1>5. TotalOver(f, T) <= TotalOver(f, s \ {x})
  BY <1>1, <1>4
<1>6. TotalOver(f, s) = f[x] + TotalOver(f, s \ {x})
  BY <1>2, <1>4, TotalOverRemove
<1>7. IsFiniteSet(s \ {x})
  BY <1>2, FS_RemoveElement
<1>8. TotalOver(f, s \ {x}) \in Nat /\ f[x] \in Nat
  BY <1>4, <1>7, TotalOverNat
<1> QED BY <1>1, <1>3, <1>5, <1>6, <1>8

\* Summands may be added up one function after the other.
LEMMA TotalOverPlus ==
    ASSUME NEW S, IsFiniteSet(S), NEW f, NEW g, NEW h,
           \A x \in S : f[x] \in Int /\ g[x] \in Int /\ h[x] = f[x] + g[x]
    PROVE  TotalOver(h, S) = TotalOver(f, S) + TotalOver(g, S)
<1> DEFINE T == {s \in SUBSET S : TotalOver(h, s) # TotalOver(f, s) + TotalOver(g, s)}
<1> SUFFICES ASSUME T # {} PROVE FALSE
  OBVIOUS
<1>1. PICK s \in T : \A y \in T : ~(y \subseteq s /\ y # s)
  <2> HIDE DEF T
  <2>1. T \in SUBSET (SUBSET S)
    BY DEF T
  <2> QED BY <2>1, MinimalSubset
<1>2. IsFiniteSet(s)
  BY FS_Subset
<1>3. PICK x : x \in s
  <2>1. TotalOver(f, {}) = 0 /\ TotalOver(g, {}) = 0 /\ TotalOver(h, {}) = 0
    BY TotalOverEmpty
  <2>2. TotalOver(h, s) # TotalOver(f, s) + TotalOver(g, s)
    OBVIOUS
  <2> HIDE DEF T
  <2>3. s # {}
    BY <2>1, <2>2
  <2> QED BY <2>3
<1>4. TotalOver(h, s \ {x}) = TotalOver(f, s \ {x}) + TotalOver(g, s \ {x})
  BY <1>1, <1>3
<1>5. /\ TotalOver(f, s) = f[x] + TotalOver(f, s \ {x})
      /\ TotalOver(g, s) = g[x] + TotalOver(g, s \ {x})
      /\ TotalOver(h, s) = h[x] + TotalOver(h, s \ {x})
  BY <1>2, <1>3, TotalOverRemove
<1>6. IsFiniteSet(s \ {x})
  BY <1>2, FS_RemoveElement
<1>7. TotalOver(f, s \ {x}) \in Int /\ TotalOver(g, s \ {x}) \in Int
  BY <1>6, TotalOverInt
<1> QED BY <1>3, <1>4, <1>5, <1>7

\* A common factor may be taken out.
LEMMA TotalOverScale ==
    ASSUME NEW S, IsFiniteSet(S), NEW k \in Int, NEW f, NEW g,
           \A x \in S : f[x] \in Int /\ g[x] = k * f[x]
    PROVE  TotalOver(g, S) = k * TotalOver(f, S)
<1> DEFINE T == {s \in SUBSET S : TotalOver(g, s) # k * TotalOver(f, s)}
<1> SUFFICES ASSUME T # {} PROVE FALSE
  OBVIOUS
<1>1. PICK s \in T : \A y \in T : ~(y \subseteq s /\ y # s)
  <2> HIDE DEF T
  <2>1. T \in SUBSET (SUBSET S)
    BY DEF T
  <2> QED BY <2>1, MinimalSubset
<1>2. IsFiniteSet(s) /\ TotalOver(g, s) # k * TotalOver(f, s)
  BY FS_Subset
<1> HIDE DEF T
<1>3. s # {}
  BY <1>2, TotalOverEmpty
<1>4. PICK x : x \in s
  BY <1>3
<1>5. TotalOver(g, s \ {x}) = k * TotalOver(f, s \ {x})
  BY <1>1, <1>4 DEF T
<1>6. /\ TotalOver(f, s) = f[x] + TotalOver(f, s \ {x})
      /\ TotalOver(g, s) = g[x] + TotalOver(g, s \ {x})
  BY <1>1, <1>2, <1>4, TotalOverRemove DEF T
<1>7. IsFiniteSet(s \ {x})
  BY <1>2, FS_RemoveElement
<1>8. TotalOver(f, s \ {x}) \in Int /\ f[x] \in Int /\ g[x] = k * f[x]
  BY <1>1, <1>4, <1>7, TotalOverInt DEF T
<1>9. k * (f[x] + TotalOver(f, s \ {x})) = k * f[x] + k * TotalOver(f, s \ {x})
  BY <1>8
<1> QED BY <1>2, <1>5, <1>6, <1>8, <1>9

\* A sum of one summand.
LEMMA TotalOverOne ==
    ASSUME NEW a, NEW f, f[a] \in Int
    PROVE  TotalOver(f, {a}) = f[a]
<1>1. IsFiniteSet({a}) /\ {a} \ {a} = {}
  BY FS_Singleton
<1> QED BY <1>1, TotalOverRemove, TotalOverEmpty

Transposes(g, f, S, T) == \A x \in S, y \in T : f[x][y] \in Int /\ g[y][x] = f[x][y]
SumsRows(r, f, S, T) == \A x \in S : r[x] = TotalOver(f[x], T)

\* The order of two sums does not matter: rows first, or columns first.
LEMMA TotalOverSwap ==
    ASSUME NEW S, IsFiniteSet(S), NEW T, IsFiniteSet(T), NEW f, NEW g, NEW r, NEW c,
           Transposes(g, f, S, T), SumsRows(r, f, S, T), SumsRows(c, g, T, S)
    PROVE  TotalOver(r, S) = TotalOver(c, T)
<1> USE DEF Transposes, SumsRows
<1> DEFINE Part(s) == [y \in T |-> TotalOver(g[y], s)]
           R == {s \in SUBSET S : TotalOver(r, s) # TotalOver(Part(s), T)}
<1>1. \A x \in S : r[x] \in Int
  BY TotalOverInt
<1>2. ASSUME NEW s \in SUBSET S, NEW y \in T PROVE Part(s)[y] \in Int
  <2>1. IsFiniteSet(s) /\ \A x \in s : g[y][x] \in Int
    BY FS_Subset
  <2> QED BY <2>1, TotalOverInt
<1>3. R = {}
  <2> SUFFICES ASSUME R # {} PROVE FALSE
    OBVIOUS
  <2>1. PICK s \in R : \A y \in R : ~(y \subseteq s /\ y # s)
    <3> HIDE DEF R
    <3>1. R \in SUBSET (SUBSET S)
      BY DEF R
    <3> QED BY <3>1, MinimalSubset
  <2>2. IsFiniteSet(s) /\ s \in SUBSET S /\ TotalOver(r, s) # TotalOver(Part(s), T)
    BY FS_Subset
  <2>3. s # {}
    <3>1. \A y \in T : Part({})[y] = 0
      BY TotalOverEmpty
    <3> HIDE DEF Part
    <3>2. TotalOver(Part({}), T) = 0 /\ TotalOver(r, {}) = 0
      BY <3>1, TotalOverZero, TotalOverEmpty
    <3> HIDE DEF R
    <3> QED BY <2>2, <3>2
  <2>4. PICK x : x \in s
    BY <2>3
  <2> DEFINE u == s \ {x}
  <2>5. IsFiniteSet(u) /\ u \in SUBSET S /\ u \notin R
    <3> HIDE DEF R
    <3>1. u \notin R /\ IsFiniteSet(u)
      BY <2>1, <2>2, <2>4, FS_RemoveElement
    <3> QED BY <2>2, <3>1
  <2>6. TotalOver(r, s) = r[x] + TotalOver(r, u)
    BY <1>1, <2>2, <2>4, TotalOverRemove, ZenonT(60)
  <2>7. ASSUME NEW y \in T
        PROVE  Part(s)[y] = f[x][y] + Part(u)[y]
    <3>1. \A z \in s : g[y][z] \in Int
      BY <2>2
    <3>2. TotalOver(g[y], s) = g[y][x] + TotalOver(g[y], u)
      BY <2>2, <2>4, <3>1, TotalOverRemove
    <3> QED BY <2>2, <2>4, <3>2
  <2>8. \A y \in T : f[x][y] \in Int /\ Part(u)[y] \in Int
    BY <1>2, <2>2, <2>4, <2>5
  <2>9. TotalOver(r, u) = TotalOver(Part(u), T)
    BY <2>5
  <2> HIDE DEF Part, u
  <2>10. TotalOver(Part(s), T) = TotalOver(f[x], T) + TotalOver(Part(u), T)
    BY <2>7, <2>8, TotalOverPlus
  <2> QED BY <2>2, <2>4, <2>6, <2>9, <2>10
<1>4. TotalOver(r, S) = TotalOver(Part(S), T)
  BY <1>3
<1>5. \A y \in T : Part(S)[y] \in Int /\ Part(S)[y] = c[y]
  BY <1>2
<1> HIDE DEF Part
<1> QED BY <1>4, <1>5, TotalOverSame

\* The sum over what two sets hold that share nothing.
LEMMA TotalOverUnion ==
    ASSUME NEW S, IsFiniteSet(S), NEW T, IsFiniteSet(T), S \cap T = {}, NEW f,
           \A x \in S \cup T : f[x] \in Int
    PROVE  TotalOver(f, S \cup T) = TotalOver(f, S) + TotalOver(f, T)
<1> DEFINE R == {t \in SUBSET T : TotalOver(f, S \cup t) # TotalOver(f, S) + TotalOver(f, t)}
<1> SUFFICES ASSUME R # {} PROVE FALSE
  OBVIOUS
<1>1. PICK t \in R : \A y \in R : ~(y \subseteq t /\ y # t)
  <2> HIDE DEF R
  <2>1. R \in SUBSET (SUBSET T)
    BY DEF R
  <2> QED BY <2>1, MinimalSubset
<1>2. IsFiniteSet(t) /\ t \in SUBSET T
      /\ TotalOver(f, S \cup t) # TotalOver(f, S) + TotalOver(f, t)
  BY FS_Subset
<1>3. TotalOver(f, S) \in Int
  BY TotalOverInt
<1>4. t # {}
  <2>1. S \cup {} = S
    OBVIOUS
  <2> QED BY <1>2, <1>3, <2>1, TotalOverEmpty
<1>5. PICK x : x \in t
  BY <1>4
<1> HIDE DEF R
<1> DEFINE r == t \ {x}
<1>6. /\ IsFiniteSet(r) /\ IsFiniteSet(S \cup r) /\ x \notin r /\ x \notin S \cup r
      /\ t = r \cup {x} /\ S \cup t = (S \cup r) \cup {x}
      /\ r \in SUBSET T /\ r # t /\ r \subseteq t
  <2>1. IsFiniteSet(r)
    BY <1>2, FS_RemoveElement
  <2>2. IsFiniteSet(S \cup r)
    BY <2>1, FS_Union
  <2>3. x \notin S
    BY <1>2, <1>5
  <2> QED BY <1>2, <1>5, <2>1, <2>2, <2>3
<1>7. TotalOver(f, S \cup r) = TotalOver(f, S) + TotalOver(f, r)
  BY <1>1, <1>6 DEF R
<1> HIDE DEF r
<1>8. \A y \in S \cup t : f[y] \in Int
  BY <1>2
<1>9. TotalOver(f, t) = f[x] + TotalOver(f, r)
  BY <1>6, <1>8, TotalOverAdd
<1>10. TotalOver(f, S \cup t) = f[x] + TotalOver(f, S \cup r)
  BY <1>6, <1>8, TotalOverAdd
<1>11. f[x] \in Int /\ TotalOver(f, r) \in Int
  <2>1. \A y \in r : f[y] \in Int
    BY <1>6, <1>8
  <2> QED BY <1>5, <1>6, <1>8, <2>1, TotalOverInt
<1> QED BY <1>2, <1>3, <1>7, <1>9, <1>10, <1>11

\* Summands that are taken to zero are taken out of the sum.
LEMMA TotalOverWithout ==
    ASSUME NEW S, IsFiniteSet(S), NEW H \in SUBSET S, NEW f, NEW g,
           \A x \in S : f[x] \in Int /\ g[x] = IF x \in H THEN 0 ELSE f[x]
    PROVE  TotalOver(g, S) = TotalOver(f, S) - TotalOver(f, H)
<1> DEFINE R == S \ H
<1>1. /\ IsFiniteSet(H) /\ IsFiniteSet(R) /\ R \cap H = {} /\ S = R \cup H
  BY FS_Subset
<1>2. /\ \A x \in R : f[x] \in Int /\ g[x] = f[x]
      /\ \A x \in H : f[x] \in Int /\ g[x] = 0
  OBVIOUS
<1> HIDE DEF R
<1>3. TotalOver(f, S) = TotalOver(f, R) + TotalOver(f, H)
  <2>1. \A x \in R \cup H : f[x] \in Int
    BY <1>2
  <2> QED BY <1>1, <2>1, TotalOverUnion
<1>4. TotalOver(g, S) = TotalOver(g, R) + TotalOver(g, H)
  <2>1. \A x \in R \cup H : g[x] \in Int
    BY <1>2
  <2> QED BY <1>1, <2>1, TotalOverUnion
<1>5. TotalOver(g, R) = TotalOver(f, R) /\ TotalOver(g, H) = 0
  BY <1>1, <1>2, TotalOverSame, TotalOverZero
<1>6. TotalOver(f, R) \in Int /\ TotalOver(f, H) \in Int
  BY <1>1, <1>2, TotalOverInt
<1> QED BY <1>3, <1>4, <1>5, <1>6

\* The members of S of a class in C.
Class(S, k, C) == {x \in S : k[x] \in C}
SumsClasses(g, f, S, k, K) == \A c \in K : g[c] = TotalOver(f, Class(S, k, {c}))

\* The sums over the classes of a finite set add up to the sum over the classes'
\* members, whatever the classes that are looked at.
LEMMA TotalOverClasses ==
    ASSUME NEW S, IsFiniteSet(S), NEW K, IsFiniteSet(K), NEW f, \A x \in S : f[x] \in Int,
           NEW k, NEW g, SumsClasses(g, f, S, k, K)
    PROVE  /\ TotalOver(g, K) = TotalOver(f, Class(S, k, K))
           /\ \A c \in K : g[c] \in Int
<1> USE DEF Class, SumsClasses
<1> DEFINE In(C) == Class(S, k, C)
           R == {C \in SUBSET K : TotalOver(g, C) # TotalOver(f, In(C))}
<1>1. \A c \in K : g[c] \in Int
  <2> TAKE c \in K
  <2> DEFINE T == Class(S, k, {c})
  <2>1. T \in SUBSET S
    OBVIOUS
  <2>2. g[c] = TotalOver(f, T)
    OBVIOUS
  <2> HIDE DEF T
  <2>3. IsFiniteSet(T) /\ \A x \in T : f[x] \in Int
    BY <2>1, FS_Subset
  <2> QED BY <2>2, <2>3, TotalOverInt
<1>2. ASSUME R # {} PROVE FALSE
  <2>1. PICK C \in R : \A y \in R : ~(y \subseteq C /\ y # C)
    <3> HIDE DEF R
    <3>1. R \in SUBSET (SUBSET K)
      BY DEF R
    <3> QED BY <1>2, <3>1, MinimalSubset
  <2>2. C \in SUBSET K /\ IsFiniteSet(C)
    BY <2>1, FS_Subset
  <2>3. C # {}
    <3>1. SUFFICES ASSUME C = {} PROVE FALSE
      OBVIOUS
    <3>2. In(C) = {}
      BY <3>1
    <3> HIDE DEF In
    <3>3. TotalOver(g, C) = TotalOver(f, In(C))
      BY <3>1, <3>2, TotalOverEmpty
    <3> QED BY <2>1, <3>3
  <2>4. PICK c \in C : TRUE
    BY <2>3
  <2> DEFINE A == In(C \ {c})
             B == Class(S, k, {c})
  <2>5. /\ A \in SUBSET S /\ B \in SUBSET S /\ A \cap B = {} /\ In(C) = A \cup B
    BY <2>4
  <2>6. C \ {c} \in SUBSET K /\ C \ {c} \notin R
    BY <2>1, <2>2, <2>4
  <2>7. TotalOver(g, C \ {c}) = TotalOver(f, A)
    BY <2>6
  <2>8. g[c] = TotalOver(f, B) /\ c \in K
    BY <2>2, <2>4
  <2>9. TotalOver(g, C) # TotalOver(f, In(C))
    BY <2>1
  <2> HIDE DEF A, B, In, R
  <2>10. TotalOver(g, C) = g[c] + TotalOver(g, C \ {c})
    BY <1>1, <2>2, <2>4, TotalOverRemove
  <2>11. IsFiniteSet(A) /\ IsFiniteSet(B) /\ \A x \in A \cup B : f[x] \in Int
    BY <2>5, FS_Subset
  <2>12. TotalOver(f, A \cup B) = TotalOver(f, A) + TotalOver(f, B)
    BY <2>5, <2>11, TotalOverUnion
  <2>13. TotalOver(f, A) \in Int /\ TotalOver(f, B) \in Int
    BY <2>11, TotalOverInt
  <2> QED BY <2>5, <2>7, <2>8, <2>9, <2>10, <2>12, <2>13
<1>3. TotalOver(g, K) = TotalOver(f, In(K))
  BY <1>2
<1> QED BY <1>1, <1>3

\* A sum of ones counts.
LEMMA TotalOverOnes ==
    ASSUME NEW S, IsFiniteSet(S), NEW f, \A x \in S : f[x] = 1
    PROVE  TotalOver(f, S) = Cardinality(S)
<1> DEFINE T == {s \in SUBSET S : TotalOver(f, s) # Cardinality(s)}
<1> SUFFICES ASSUME T # {} PROVE FALSE
  OBVIOUS
<1>1. PICK x \in T : \A y \in T : ~(y \subseteq x /\ y # x)
  <2>1. T \in SUBSET (SUBSET S)
    OBVIOUS
  <2> HIDE DEF T
  <2> QED BY <2>1, MinimalSubset
<1>2. IsFiniteSet(x) /\ x \in SUBSET S /\ TotalOver(f, x) # Cardinality(x)
  BY FS_Subset
<1>3. x # {}
  BY <1>2, TotalOverEmpty, FS_EmptySet
<1>4. PICK a \in x : TRUE
  BY <1>3
<1>5. TotalOver(f, x) = f[a] + TotalOver(f, x \ {a})
  <2>1. \A y \in x : f[y] \in Int
    BY <1>2
  <2> HIDE DEF T
  <2> QED BY <1>2, <2>1, TotalOverRemove
<1>6. Cardinality(x \ {a}) = Cardinality(x) - 1 /\ Cardinality(x) \in Nat
  BY <1>2, FS_RemoveElement, FS_CardinalityType
<1>7. TotalOver(f, x \ {a}) = Cardinality(x \ {a})
  <2>1. x \ {a} \subseteq x /\ x \ {a} # x
    OBVIOUS
  <2>2. x \ {a} \notin T
    <3> HIDE DEF T
    <3> QED BY <1>1, <2>1
  <2> QED BY <1>2, <2>2
<1>8. f[a] = 1
  BY <1>2
<1> QED BY <1>2, <1>5, <1>6, <1>7, <1>8

\* A sum with one summand that is not zero.
LEMMA TotalOverLone ==
    ASSUME NEW S, IsFiniteSet(S), NEW a \in S, NEW k \in Int, NEW f,
           \A x \in S : f[x] = IF x = a THEN k ELSE 0
    PROVE  TotalOver(f, S) = k
<1>1. TotalOver(f, S) = f[a] + TotalOver(f, S \ {a})
  <2>1. \A x \in S : f[x] \in Int
    OBVIOUS
  <2> QED BY <2>1, TotalOverRemove
<1>2. TotalOver(f, S \ {a}) = 0
  <2>1. IsFiniteSet(S \ {a}) /\ \A x \in S \ {a} : f[x] = 0
    BY FS_RemoveElement
  <2> QED BY <2>1, TotalOverZero
<1> QED BY <1>1, <1>2

================================================================================
