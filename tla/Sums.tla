-------------------------------- MODULE Sums --------------------------------
(***************************************************************************)
(* Facts that proofs about totals and counts share.  The library leaves    *)
(* them to induction; here each is shown of a smallest counterexample,     *)
(* whose existence follows from the order of the naturals.                 *)
(*                                                                         *)
(* SumFunctionOnSet folds over a set in an order that only CHOOSE knows:   *)
(* FoldStep says that the fold exists, AddElement that the order is no     *)
(* matter, and the rest follows from these two.                            *)
(***************************************************************************)
EXTENDS FiniteSetsExt, FiniteSetTheorems, WellFoundedInduction, TLAPS

LEMMA LeastNatural ==
    ASSUME NEW S, S \subseteq Nat, S # {}
    PROVE  \E x \in S : \A y \in S : x <= y
<1> DEFINE Less == OpToRel(<, Nat)
<1>1. IsWellFoundedOn(Less, Nat)
  BY NatLessThanWellFounded
<1>2. \A y, x \in Nat : y < x => <<y, x>> \in Less
  BY DEF OpToRel
<1> HIDE DEF Less
<1>3. PICK x \in S : \A y \in S : <<y, x>> \notin Less
  BY <1>1, WFMin
<1>4. \A y \in S : ~(y < x)
  BY <1>2, <1>3
<1> QED
  BY <1>4

LEMMA MaxOfBounded ==
    ASSUME NEW b \in Nat, NEW S, S \subseteq 0..b, S # {}
    PROVE  Max(S) \in S /\ \A y \in S : Max(S) >= y
<1> DEFINE T == {b - y : y \in S}
<1>1. T \subseteq Nat
  OBVIOUS
<1>2. T # {}
  OBVIOUS
<1>3. PICK x \in T : \A y \in T : x <= y
  BY <1>1, <1>2, LeastNatural
<1>4. PICK m \in S : x = b - m
  OBVIOUS
<1>5. \A y \in S : x <= b - y
  BY <1>3
<1>6. \A y \in S : m >= y
  BY <1>4, <1>5
<1> QED
  BY <1>6 DEF Max

LEMMA UpToCount ==
    ASSUME NEW n \in Nat PROVE IsFiniteSet(1..n) /\ Cardinality(1..n) = n
<1>1. Cardinality(1..n) = IF 1 > n THEN 0 ELSE n - 1 + 1
  BY FS_Interval
<1>2. IsFiniteSet(1..n)
  BY FS_Interval
<1> QED
  BY <1>1, <1>2

LEMMA SmallestSet ==
    ASSUME NEW F, F # {}, \A S \in F : IsFiniteSet(S)
    PROVE  \E S \in F : \A T \in F : Cardinality(S) <= Cardinality(T)
<1> DEFINE Sizes == {Cardinality(S) : S \in F}
<1>1. Sizes \subseteq Nat
  BY FS_CardinalityType
<1>2. Sizes # {}
  OBVIOUS
<1>3. PICK n \in Sizes : \A m \in Sizes : n <= m
  BY <1>1, <1>2, LeastNatural
<1> QED
  BY <1>3

LEMMA Smaller ==
    ASSUME NEW S, IsFiniteSet(S), NEW x \in S
    PROVE  /\ IsFiniteSet(S \ {x})
           /\ Cardinality(S) \in Nat /\ Cardinality(S \ {x}) \in Nat
           /\ Cardinality(S \ {x}) < Cardinality(S)
<1>1. Cardinality(S) \in Nat
  BY FS_CardinalityType
<1>2. IsFiniteSet(S \ {x}) /\ Cardinality(S \ {x}) = Cardinality(S) - 1
  BY FS_RemoveElement
<1>3. Cardinality(S \ {x}) \in Nat
  BY <1>2, FS_CardinalityType
<1> QED
  BY <1>1, <1>2, <1>3

-----------------------------------------------------------------------------
(* The fold.                                                               *)
One(s) == CHOOSE x \in s : TRUE
Fold(g, f, S) ==
    g = [s \in SUBSET S |-> IF s = {} THEN 0 ELSE f[One(s)] + g[s \ {One(s)}]]

LEMMA OneIsIn == ASSUME NEW s, s # {} PROVE One(s) \in s
BY DEF One

LEMMA SumIsFold ==
    ASSUME NEW f, NEW S
    PROVE  SumFunctionOnSet(f, S) = (CHOOSE g : Fold(g, f, S))[S]
BY DEF SumFunctionOnSet, FoldFunctionOnSet, MapThenFoldSet, Fold, One

LEMMA FoldParts ==
    ASSUME NEW f, NEW S, NEW g, Fold(g, f, S), NEW T \in SUBSET S
    PROVE  /\ T = {} => g[T] = 0
           /\ T # {} => g[T] = f[One(T)] + g[T \ {One(T)}]
BY DEF Fold

(* Two folds agree wherever both are defined. *)
LEMMA FoldsAgree ==
    ASSUME NEW f, NEW S, NEW R, NEW g, NEW h, Fold(g, f, S), Fold(h, f, R),
           NEW T \in SUBSET S, T \subseteq R, IsFiniteSet(T)
    PROVE  g[T] = h[T]
<1> DEFINE Bad == {s \in SUBSET T : g[s] # h[s]}
<1>1. SUFFICES ASSUME Bad # {} PROVE FALSE
  OBVIOUS
<1>2. \A s \in Bad : IsFiniteSet(s)
  BY FS_Subset
<1>3. PICK s \in Bad : \A t \in Bad : Cardinality(s) <= Cardinality(t)
  BY <1>1, <1>2, SmallestSet
<1>4. s \in SUBSET S /\ s \in SUBSET R
  OBVIOUS
<1>5. s # {}
  <2>1. s = {} => g[s] = 0 /\ h[s] = 0
    BY <1>4, FoldParts
  <2> QED
    BY <1>3, <2>1
<1>6. One(s) \in s
  BY <1>5, OneIsIn
<1>7. s \ {One(s)} \notin Bad
  BY <1>2, <1>3, <1>6, Smaller
<1>8. g[s \ {One(s)}] = h[s \ {One(s)}]
  BY <1>7
<1> QED
  BY <1>3, <1>4, <1>5, <1>8, FoldParts

LEMMA FoldIsSum ==
    ASSUME NEW f, NEW S, NEW g, Fold(g, f, S), NEW T \in SUBSET S, IsFiniteSet(T)
    PROVE  SumFunctionOnSet(f, T) = g[T]
<1> DEFINE h == [s \in SUBSET T |-> g[s]]
<1>1. Fold(h, f, T)
  <2>1. \A s \in SUBSET T : s # {} => s \ {One(s)} \in SUBSET T
    OBVIOUS
  <2>2. \A s \in SUBSET T : h[s] = IF s = {} THEN 0 ELSE f[One(s)] + h[s \ {One(s)}]
    <3>1. SUFFICES ASSUME NEW s \in SUBSET T
                   PROVE  h[s] = IF s = {} THEN 0 ELSE f[One(s)] + h[s \ {One(s)}]
      OBVIOUS
    <3>2. g[s] = IF s = {} THEN 0 ELSE f[One(s)] + g[s \ {One(s)}]
      BY FoldParts
    <3> QED
      BY <2>1, <3>2
  <2> QED
    BY <2>2 DEF Fold
<1> HIDE DEF h
<1>2. Fold(CHOOSE k : Fold(k, f, T), f, T)
  BY <1>1
<1>3. (CHOOSE k : Fold(k, f, T))[T] = g[T]
  BY <1>2, FoldsAgree
<1> QED
  BY <1>3, SumIsFold

LEMMA FoldStep ==
    ASSUME NEW f, NEW S, IsFiniteSet(S)
    PROVE  \E g : Fold(g, f, S)
<1> DEFINE Bad == {s \in SUBSET S : ~ \E g : Fold(g, f, s)}
<1>1. SUFFICES ASSUME Bad # {} PROVE FALSE
  OBVIOUS
<1>2. \A s \in Bad : IsFiniteSet(s)
  BY FS_Subset
<1>3. PICK s \in Bad : \A t \in Bad : Cardinality(s) <= Cardinality(t)
  BY <1>1, <1>2, SmallestSet
<1>4. IsFiniteSet(s)
  BY <1>2
<1>5. ASSUME NEW t \in SUBSET s, t # s PROVE \E g : Fold(g, f, t)
  <2>1. Cardinality(t) < Cardinality(s) /\ Cardinality(t) \in Nat /\ Cardinality(s) \in Nat
    BY <1>4, <1>5, FS_Subset, FS_CardinalityType
  <2> QED
    BY <1>3, <2>1
<1> DEFINE Sum(t) == SumFunctionOnSet(f, t)
           h == [t \in SUBSET s |-> IF t = {} THEN 0 ELSE f[One(t)] + Sum(t \ {One(t)})]
<1> HIDE DEF Bad
<1>6. ASSUME NEW t \in SUBSET s, t # s
      PROVE  Sum(t) = IF t = {} THEN 0 ELSE f[One(t)] + Sum(t \ {One(t)})
  <2>1. PICK g : Fold(g, f, t)
    BY <1>5, <1>6
  <2>2. IsFiniteSet(t) /\ IsFiniteSet(t \ {One(t)}) /\ t \ {One(t)} \in SUBSET t /\ t \in SUBSET t
    BY <1>4, FS_Subset
  <2>3. Sum(t) = g[t] /\ Sum(t \ {One(t)}) = g[t \ {One(t)}]
    BY <2>1, <2>2, FoldIsSum
  <2>4. g[t] = IF t = {} THEN 0 ELSE f[One(t)] + g[t \ {One(t)}]
    BY <2>1, <2>2, FoldParts
  <2> QED
    BY <2>3, <2>4
<1>7. \A t \in SUBSET s : t # {} => t \ {One(t)} \in SUBSET s /\ t \ {One(t)} # s
  BY OneIsIn
<1>8. \A t \in SUBSET s : t # s => h[t] = Sum(t)
  BY <1>6
<1>9. \A t \in SUBSET s : h[t] = IF t = {} THEN 0 ELSE f[One(t)] + h[t \ {One(t)}]
  <2>1. SUFFICES ASSUME NEW t \in SUBSET s
                 PROVE  h[t] = IF t = {} THEN 0 ELSE f[One(t)] + h[t \ {One(t)}]
    OBVIOUS
  <2>2. t # {} => h[t \ {One(t)}] = Sum(t \ {One(t)})
    BY <1>7, <1>8
  <2> QED
    BY <2>2
<1>10. h = [t \in SUBSET s |-> h[t]]
  OBVIOUS
<1> HIDE DEF h
<1>11. Fold(h, f, s)
  BY <1>9, <1>10 DEF Fold
<1> QED
  BY <1>3, <1>11 DEF Bad

(* What the fold amounts to: one element at a time.                        *)
LEMMA SumParts ==
    ASSUME NEW f, NEW S, IsFiniteSet(S)
    PROVE  /\ S = {} => SumFunctionOnSet(f, S) = 0
           /\ S # {} => SumFunctionOnSet(f, S) = f[One(S)] + SumFunctionOnSet(f, S \ {One(S)})
<1>1. PICK g : Fold(g, f, S)
  BY FoldStep
<1>2. IsFiniteSet(S \ {One(S)}) /\ S \ {One(S)} \in SUBSET S /\ S \in SUBSET S
  BY FS_Subset
<1>3. SumFunctionOnSet(f, S) = g[S] /\ SumFunctionOnSet(f, S \ {One(S)}) = g[S \ {One(S)}]
  BY <1>1, <1>2, FoldIsSum
<1> QED
  BY <1>1, <1>2, <1>3, FoldParts

-----------------------------------------------------------------------------
(* The sum of integers.                                                    *)
LEMMA SumType ==
    ASSUME NEW f, NEW S, IsFiniteSet(S), \A x \in S : f[x] \in Int
    PROVE  SumFunctionOnSet(f, S) \in Int
<1> DEFINE Bad == {s \in SUBSET S : SumFunctionOnSet(f, s) \notin Int}
<1>1. SUFFICES ASSUME Bad # {} PROVE FALSE
  OBVIOUS
<1>2. \A s \in Bad : IsFiniteSet(s)
  BY FS_Subset
<1>3. PICK s \in Bad : \A t \in Bad : Cardinality(s) <= Cardinality(t)
  BY <1>1, <1>2, SmallestSet
<1>4. s # {}
  <2>1. s = {} => SumFunctionOnSet(f, s) = 0
    BY <1>2, <1>3, SumParts
  <2> QED
    BY <1>3, <2>1
<1>5. One(s) \in s
  BY <1>4, OneIsIn
<1>6. s \ {One(s)} \notin Bad
  BY <1>2, <1>3, <1>5, Smaller
<1>7. SumFunctionOnSet(f, s \ {One(s)}) \in Int
  BY <1>6
<1>8. SumFunctionOnSet(f, s) = f[One(s)] + SumFunctionOnSet(f, s \ {One(s)})
  BY <1>2, <1>3, <1>4, SumParts
<1> QED
  BY <1>3, <1>5, <1>7, <1>8

(* The order does not matter.                                              *)
LEMMA AddElement ==
    ASSUME NEW f, NEW S, IsFiniteSet(S), NEW x, x \notin S,
           \A y \in S \cup {x} : f[y] \in Int
    PROVE  SumFunctionOnSet(f, S \cup {x}) = SumFunctionOnSet(f, S) + f[x]
<1> DEFINE Sum(s) == SumFunctionOnSet(f, s)
           Bad == {s \in SUBSET S : \E y \in (S \cup {x}) \ s : Sum(s \cup {y}) # Sum(s) + f[y]}
<1>1. SUFFICES ASSUME Bad # {} PROVE FALSE
  OBVIOUS
<1>2. \A s \in Bad : IsFiniteSet(s)
  BY FS_Subset
<1>3. PICK s \in Bad : \A t \in Bad : Cardinality(s) <= Cardinality(t)
  BY <1>1, <1>2, SmallestSet
<1>4. PICK y \in (S \cup {x}) \ s : Sum(s \cup {y}) # Sum(s) + f[y]
  BY <1>3
<1> DEFINE all == s \cup {y}
           c == One(all)
<1>5. IsFiniteSet(s) /\ IsFiniteSet(all)
  BY <1>2, FS_AddElement
<1>6. all # {} /\ c \in all
  BY OneIsIn
<1>7. Sum(all) = f[c] + Sum(all \ {c})
  BY <1>5, <1>6, SumParts
<1>8. Sum(s) \in Int /\ f[y] \in Int /\ f[c] \in Int
  BY <1>5, <1>6, SumType
<1>9. CASE c = y
  <2>1. all \ {c} = s
    BY <1>9
  <2>2. Sum(all) = f[y] + Sum(s)
    BY <1>7, <1>9, <2>1
  <2> HIDE DEF Sum, c
  <2> QED
    BY <1>4, <1>8, <2>2
<1>10. CASE c # y
  <2> DEFINE rest == s \ {c}
  <2>1. c \in s /\ all \ {c} = rest \cup {y} /\ s = rest \cup {c} /\ y \notin rest /\ c \notin rest
    BY <1>6, <1>10
  <2>2. rest \notin Bad
    <3>1. Cardinality(rest) \in Nat /\ Cardinality(s) \in Nat /\ Cardinality(rest) < Cardinality(s)
      BY <1>5, <2>1, Smaller
    <3> HIDE DEF Bad, rest
    <3> QED
      BY <1>3, <3>1
  <2>3. Sum(rest \cup {y}) = Sum(rest) + f[y] /\ Sum(rest \cup {c}) = Sum(rest) + f[c]
    BY <2>1, <2>2
  <2>4. Sum(rest) \in Int
    BY <1>5, FS_Subset, SumType
  <2> QED
    BY <1>4, <1>7, <1>8, <2>1, <2>3, <2>4
<1> QED
  BY <1>9, <1>10

LEMMA EmptySum ==
    ASSUME NEW f PROVE SumFunctionOnSet(f, {}) = 0
BY FS_EmptySet, SumParts

LEMMA RemoveElement ==
    ASSUME NEW f, NEW S, IsFiniteSet(S), NEW x \in S, \A y \in S : f[y] \in Int
    PROVE  SumFunctionOnSet(f, S) = SumFunctionOnSet(f, S \ {x}) + f[x]
<1>1. IsFiniteSet(S \ {x}) /\ x \notin S \ {x} /\ S = (S \ {x}) \cup {x}
  BY FS_RemoveElement
<1> QED
  BY <1>1, AddElement

LEMMA SumOfNaturals ==
    ASSUME NEW f, NEW S, IsFiniteSet(S), \A x \in S : f[x] \in Nat
    PROVE  SumFunctionOnSet(f, S) \in Nat
<1> DEFINE Bad == {s \in SUBSET S : SumFunctionOnSet(f, s) \notin Nat}
<1>1. SUFFICES ASSUME Bad # {} PROVE FALSE
  OBVIOUS
<1>2. \A s \in Bad : IsFiniteSet(s)
  BY FS_Subset
<1>3. PICK s \in Bad : \A t \in Bad : Cardinality(s) <= Cardinality(t)
  BY <1>1, <1>2, SmallestSet
<1>4. PICK x \in s : TRUE
  <2>1. SumFunctionOnSet(f, {}) = 0
    BY EmptySum
  <2> QED
    BY <1>3, <2>1
<1>5. s \ {x} \notin Bad
  BY <1>2, <1>3, Smaller
<1>6. SumFunctionOnSet(f, s \ {x}) \in Nat /\ f[x] \in Nat
  BY <1>5
<1>7. SumFunctionOnSet(f, s) = SumFunctionOnSet(f, s \ {x}) + f[x]
  BY <1>2, RemoveElement
<1> QED
  BY <1>3, <1>6, <1>7

LEMMA SameSum ==
    ASSUME NEW f, NEW g, NEW S, IsFiniteSet(S), \A x \in S : f[x] \in Int /\ g[x] = f[x]
    PROVE  SumFunctionOnSet(g, S) = SumFunctionOnSet(f, S)
<1> DEFINE Bad == {s \in SUBSET S : SumFunctionOnSet(g, s) # SumFunctionOnSet(f, s)}
<1>1. SUFFICES ASSUME Bad # {} PROVE FALSE
  OBVIOUS
<1>2. \A s \in Bad : IsFiniteSet(s)
  BY FS_Subset
<1>3. PICK s \in Bad : \A t \in Bad : Cardinality(s) <= Cardinality(t)
  BY <1>1, <1>2, SmallestSet
<1>4. PICK x \in s : TRUE
  <2>1. SumFunctionOnSet(f, {}) = 0 /\ SumFunctionOnSet(g, {}) = 0
    BY EmptySum
  <2> QED
    BY <1>3, <2>1
<1>5. s \ {x} \notin Bad
  BY <1>2, <1>3, Smaller
<1>6. SumFunctionOnSet(g, s \ {x}) = SumFunctionOnSet(f, s \ {x})
  BY <1>5
<1>7. \A y \in s : f[y] \in Int /\ g[y] \in Int
  OBVIOUS
<1>8. SumFunctionOnSet(f, s) = SumFunctionOnSet(f, s \ {x}) + f[x]
  BY <1>2, <1>7, RemoveElement
<1>9. SumFunctionOnSet(g, s) = SumFunctionOnSet(g, s \ {x}) + g[x]
  BY <1>2, <1>7, RemoveElement
<1> QED
  BY <1>3, <1>6, <1>8, <1>9

LEMMA SumOfUnion ==
    ASSUME NEW f, NEW S, NEW T, IsFiniteSet(S), IsFiniteSet(T), S \cap T = {},
           \A x \in S \cup T : f[x] \in Int
    PROVE  SumFunctionOnSet(f, S \cup T) = SumFunctionOnSet(f, S) + SumFunctionOnSet(f, T)
<1> DEFINE Sum(s) == SumFunctionOnSet(f, s)
           Bad == {t \in SUBSET T : Sum(S \cup t) # Sum(S) + Sum(t)}
<1>1. SUFFICES ASSUME Bad # {} PROVE FALSE
  OBVIOUS
<1>2. \A t \in Bad : IsFiniteSet(t)
  BY FS_Subset
<1>3. PICK t \in Bad : \A u \in Bad : Cardinality(t) <= Cardinality(u)
  BY <1>1, <1>2, SmallestSet
<1>4. Sum(S) \in Int /\ Sum({}) = 0 /\ S \cup {} = S
  BY SumType, EmptySum
<1>5. PICK x \in t : TRUE
  <2> HIDE DEF Sum
  <2> QED
    BY <1>3, <1>4
<1> DEFINE rest == t \ {x}
<1>6. IsFiniteSet(rest) /\ IsFiniteSet(S \cup rest)
  BY <1>2, FS_RemoveElement, FS_Union
<1>7. x \notin rest /\ x \notin S \cup rest /\ t = rest \cup {x} /\ S \cup t = (S \cup rest) \cup {x}
  OBVIOUS
<1>8. Sum(S \cup rest) = Sum(S) + Sum(rest)
  <2>1. Cardinality(rest) \in Nat /\ Cardinality(t) \in Nat /\ Cardinality(rest) < Cardinality(t)
    BY <1>2, Smaller
  <2>2. rest \notin Bad
    <3> HIDE DEF Bad, rest
    <3> QED
      BY <1>3, <2>1
  <2> QED
    BY <2>2
<1>9. Sum(rest) \in Int /\ Sum(S \cup rest) \in Int /\ f[x] \in Int
  BY <1>6, SumType
<1>10. Sum(t) = Sum(rest) + f[x]
  BY <1>6, <1>7, AddElement
<1>11. Sum(S \cup t) = Sum(S \cup rest) + f[x]
  BY <1>6, <1>7, AddElement
<1>12. Sum(S \cup t) # Sum(S) + Sum(t)
  BY <1>3
<1> HIDE DEF Sum, rest
<1> QED
  BY <1>4, <1>8, <1>9, <1>10, <1>11, <1>12

LEMMA SumChanged ==
    ASSUME NEW f, NEW g, NEW S, IsFiniteSet(S), NEW x \in S, NEW c \in Int,
           \A y \in S : f[y] \in Int, \A y \in S \ {x} : g[y] = f[y], g[x] = f[x] + c
    PROVE  SumFunctionOnSet(g, S) = SumFunctionOnSet(f, S) + c
<1>1. IsFiniteSet(S \ {x})
  BY FS_RemoveElement
<1>2. SumFunctionOnSet(g, S \ {x}) = SumFunctionOnSet(f, S \ {x})
  BY <1>1, SameSum
<1>3. \A y \in S : g[y] \in Int
  OBVIOUS
<1>4. SumFunctionOnSet(f, S) = SumFunctionOnSet(f, S \ {x}) + f[x]
  BY RemoveElement
<1>5. SumFunctionOnSet(g, S) = SumFunctionOnSet(g, S \ {x}) + g[x]
  BY <1>3, RemoveElement
<1>6. SumFunctionOnSet(f, S \ {x}) \in Int
  BY <1>1, SumType
<1> QED
  BY <1>2, <1>4, <1>5, <1>6

LEMMA SumOfZeros ==
    ASSUME NEW f, NEW S, IsFiniteSet(S), \A x \in S : f[x] = 0
    PROVE  SumFunctionOnSet(f, S) = 0
<1> DEFINE Bad == {s \in SUBSET S : SumFunctionOnSet(f, s) # 0}
<1>1. SUFFICES ASSUME Bad # {} PROVE FALSE
  OBVIOUS
<1>2. \A s \in Bad : IsFiniteSet(s)
  BY FS_Subset
<1>3. PICK s \in Bad : \A t \in Bad : Cardinality(s) <= Cardinality(t)
  BY <1>1, <1>2, SmallestSet
<1>4. PICK x \in s : TRUE
  <2>1. SumFunctionOnSet(f, {}) = 0
    BY EmptySum
  <2> QED
    BY <1>3, <2>1
<1>5. s \ {x} \notin Bad
  BY <1>2, <1>3, Smaller
<1>6. SumFunctionOnSet(f, s \ {x}) = 0 /\ \A y \in s : f[y] = 0 /\ f[y] \in Int
  BY <1>5
<1>7. SumFunctionOnSet(f, s) = SumFunctionOnSet(f, s \ {x}) + f[x]
  BY <1>2, <1>6, RemoveElement
<1> QED
  BY <1>3, <1>6, <1>7
=============================================================================
