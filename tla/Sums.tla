--------------------------------- MODULE Sums --------------------------------
(***************************************************************************)
(* Lemmas about SumFunction, in which the other modules state what a       *)
(* contract owes in all.                                                   *)
(*                                                                         *)
(* The provers cannot instantiate an induction theorem that quantifies     *)
(* over a predicate, but strict inclusion is well founded on the subsets   *)
(* of a finite set, and that fact is about sets only.  So the induction is *)
(* on a set: the subsets for which a statement holds.                      *)
(***************************************************************************)
EXTENDS FiniteSetsExt, FiniteSetTheorems, WellFoundedInduction, TLAPS

(* A set of subsets of a finite set has a minimal member.                  *)
LEMMA MinimalSubset ==
  ASSUME NEW S, IsFiniteSet(S), NEW bad \in SUBSET (SUBSET S), bad # {}
  PROVE  \E T \in bad : \A U \in SUBSET T : U # T => U \notin bad
<1>1. IsWellFoundedOn(StrictSubsetOrdering(S), FiniteSubsetsOf(S))
  BY FS_StrictSubsetOrderingWellFounded, Zenon
<1>2. FiniteSubsetsOf(S) = SUBSET S
  BY FS_FiniteSubsetsOfFinite, Zenon
<1>3. \E T \in bad : \A U \in bad : ~(<<U, T>> \in StrictSubsetOrdering(S))
  BY <1>1, <1>2, WFMin, Zenon
<1>4. PICK T \in bad : \A U \in bad : ~(<<U, T>> \in StrictSubsetOrdering(S))
  BY <1>3, Zenon
<1>5. ASSUME NEW U \in SUBSET T, U # T, U \in bad PROVE FALSE
  <2>1. <<U, T>> \in StrictSubsetOrdering(S)
    BY <1>5 DEF StrictSubsetOrdering
  <2> QED
    BY <1>4, <1>5, <2>1, Zenon
<1> QED
  BY <1>4, <1>5, Zenon

-----------------------------------------------------------------------------
(* The recursive function behind a sum, and that there is one.             *)

(* The element a fold takes first.                                         *)
First(s) == CHOOSE x \in s : TRUE

Recurs(g, f, S) ==
  g = [s \in SUBSET S |-> IF s = {} THEN 0 ELSE f[First(s)] + g[s \ {First(s)}]]

(* A sum is the value of that function.                                    *)
LEMMA SumIs ==
  ASSUME NEW f, NEW S
  PROVE  SumFunctionOnSet(f, S) = (CHOOSE g : Recurs(g, f, S))[S]
BY DEF SumFunctionOnSet, FoldFunctionOnSet, MapThenFoldSet, Recurs, First

(* It is one of the set's.                                                 *)
LEMMA FirstIn == ASSUME NEW s, s # {} PROVE First(s) \in s
BY DEF First

(* Functions on smaller and on larger sets agree where both are defined.   *)
LEMMA RecursUnique ==
  ASSUME NEW f, NEW S, NEW T, NEW g, NEW h, Recurs(g, f, S), Recurs(h, f, T),
         IsFiniteSet(S), S \subseteq T
  PROVE  g[S] = h[S]
<1>0. PICK bad : bad = {s \in SUBSET S : g[s] # h[s]}
  OBVIOUS
<1>1. SUFFICES ASSUME bad # {} PROVE FALSE
  BY <1>0
<1>2. PICK s \in bad : \A U \in SUBSET s : U # s => U \notin bad
  <2>1. bad \in SUBSET (SUBSET S)
    BY <1>0
  <2> QED
    BY <1>1, <2>1, MinimalSubset, Zenon
<1>3. /\ g[s] = IF s = {} THEN 0 ELSE f[First(s)] + g[s \ {First(s)}]
      /\ h[s] = IF s = {} THEN 0 ELSE f[First(s)] + h[s \ {First(s)}]
  BY <1>0 DEF Recurs
<1>4. s # {}
  BY <1>0, <1>3
<1>5. s \ {First(s)} \in SUBSET s /\ s \ {First(s)} # s
  BY <1>4, FirstIn
<1>6. g[s \ {First(s)}] = h[s \ {First(s)}]
  <2>1. s \in SUBSET S
    BY <1>0
  <2> QED
    BY <1>0, <1>2, <1>5, <2>1
<1> QED
  BY <1>0, <1>3, <1>4, <1>6

(* The value it gives the whole set.                                       *)
SumBy(f, s) == (CHOOSE g : Recurs(g, f, s))[s]

(* In a minimal set without such a function, one can be put together from  *)
(* those of its proper subsets.                                            *)
LEMMA RecursExists ==
  ASSUME NEW f, NEW S, IsFiniteSet(S)
  PROVE  Recurs(CHOOSE g : Recurs(g, f, S), f, S)
<1> DEFINE G(s) == CHOOSE g : Recurs(g, f, s)
<1>0. PICK bad : bad = {s \in SUBSET S : ~Recurs(G(s), f, s)}
  BY Zenon
<1>1. SUFFICES ASSUME bad # {} PROVE FALSE
  <2>1. S \in SUBSET S
    OBVIOUS
  <2> QED
    BY <1>0, <2>1, Zenon
<1>2. PICK T \in bad : \A U \in SUBSET T : U # T => U \notin bad
  <2>1. bad \in SUBSET (SUBSET S)
    BY <1>0
  <2> QED
    BY <1>1, <2>1, MinimalSubset, Zenon
<1>3. \A s \in SUBSET T : s # T => Recurs(G(s), f, s)
  <2>1. T \in SUBSET S
    BY <1>0
  <2>2. \A s \in SUBSET T : s \in SUBSET S
    BY <2>1
  <2> HIDE DEF G
  <2> QED
    BY <1>0, <1>2, <2>2, Zenon
<1> DEFINE h == [s \in SUBSET T |->
              IF s # T THEN SumBy(f, s)
              ELSE IF T = {} THEN 0
              ELSE f[First(T)] + SumBy(f, T \ {First(T)})]
<1>4. ASSUME NEW s \in SUBSET T
      PROVE h[s] = IF s = {} THEN 0 ELSE f[First(s)] + h[s \ {First(s)}]
  <2>1. CASE s = T
    <3>1. CASE T # {}
      <4>1. T \ {First(T)} # T
        BY <3>1, FirstIn
      <4>2. h[T \ {First(T)}] = SumBy(f, T \ {First(T)})
        BY <4>1
      <4> QED
        BY <2>1, <3>1, <4>2
    <3> QED
      BY <2>1, <3>1
  <2>2. CASE s # T
    <3>1. Recurs(G(s), f, s) /\ h[s] = G(s)[s]
      BY <1>3, <2>2 DEF SumBy
    <3>2. CASE s = {}
      <4>1. G(s)[s] = 0
        BY <3>1, <3>2 DEF Recurs
      <4> QED
        BY <3>1, <3>2, <4>1
    <3>3. CASE s # {}
      <4>0. First(s) \in s
        BY <3>3, FirstIn
      <4>1. PICK t \in SUBSET T : t = s \ {First(s)} /\ t # T
        <5>1. First(s) \in T /\ First(s) \notin s \ {First(s)}
          BY <4>0
        <5>2. s \ {First(s)} \in SUBSET T
          OBVIOUS
        <5> QED
          BY <5>1, <5>2, Zenon
      <4>2. Recurs(G(t), f, t)
        BY <1>3, <4>1
      <4>3. h[t] = G(t)[t]
        BY <4>1 DEF SumBy
      <4>4. IsFiniteSet(t) /\ t \subseteq s
        <5>1. t \in SUBSET S /\ t \subseteq s
          BY <1>0, <4>1
        <5> QED
          BY FS_Subset, <5>1, Zenon
      <4>5. G(t)[t] = G(s)[t]
        <5>1. PICK gs, gt : gs = G(s) /\ gt = G(t)
          BY Zenon
        <5>2. Recurs(gs, f, s) /\ Recurs(gt, f, t)
          BY <3>1, <4>2, <5>1, Zenon
        <5>3. gt[t] = gs[t]
          BY <5>2, <4>4, RecursUnique
        <5> QED
          BY <5>1, <5>3, Zenon
      <4>6. PICK gs : gs = G(s)
        BY Zenon
      <4>7. gs[s] = f[First(s)] + gs[s \ {First(s)}]
        BY <3>1, <3>3, <4>6 DEF Recurs
      <4>8. G(s)[s] = f[First(s)] + G(s)[t]
        BY <4>7, <4>6, <4>1, Zenon
      <4>9. h[s] = f[First(s)] + h[t]
        BY <3>1, <4>8, <4>5, <4>3, Zenon
      <4> HIDE DEF h
      <4> QED
        BY <4>9, <4>1, <3>3, Zenon
    <3> QED
      BY <3>2, <3>3
  <2> QED
    BY <2>1, <2>2
<1>5. Recurs(h, f, T)
  BY <1>4 DEF Recurs
<1>6. Recurs(G(T), f, T)
  BY <1>5, Zenon
<1> QED
  BY <1>0, <1>2, <1>6, Zenon

-----------------------------------------------------------------------------
(* Sums over a set.                                                        *)

(* The recursion equation of a sum.                                        *)
LEMMA SumRecursion ==
  ASSUME NEW f, NEW S, IsFiniteSet(S)
  PROVE  SumFunctionOnSet(f, S) =
           IF S = {} THEN 0
           ELSE f[First(S)] + SumFunctionOnSet(f, S \ {First(S)})
<1> DEFINE t == S \ {First(S)}
<1>1. PICK gs, gt : gs = (CHOOSE g : Recurs(g, f, S)) /\ gt = (CHOOSE g : Recurs(g, f, t))
  BY Zenon
<1>2. t \subseteq S /\ IsFiniteSet(t)
  BY FS_Subset
<1>3. Recurs(gs, f, S) /\ Recurs(gt, f, t)
  BY <1>1, <1>2, RecursExists, Zenon
<1>4. gt[t] = gs[t]
  <2> HIDE DEF t
  <2> QED
    BY <1>2, <1>3, RecursUnique
<1>5. gs[S] = IF S = {} THEN 0 ELSE f[First(S)] + gs[t]
  BY <1>3 DEF Recurs
<1>6. SumFunctionOnSet(f, S) = gs[S] /\ SumFunctionOnSet(f, t) = gt[t]
  BY <1>1, SumIs, Zenon
<1> QED
  BY <1>4, <1>5, <1>6, Zenon

(* Induction over a finite set, with the set of the subsets for which a    *)
(* statement holds in the place of the statement.                          *)
LEMMA SubsetInduction ==
  ASSUME NEW S, IsFiniteSet(S), NEW good,
         {} \in good,
         \A T \in SUBSET S : T # {} /\ (\A x \in T : T \ {x} \in good) => T \in good
  PROVE  \A T \in SUBSET S : T \in good
<1>1. PICK bad : bad = {T \in SUBSET S : T \notin good}
  OBVIOUS
<1>2. SUFFICES ASSUME bad # {} PROVE FALSE
  BY <1>1
<1>3. bad \in SUBSET (SUBSET S)
  BY <1>1
<1>4. PICK T \in bad : \A U \in SUBSET T : U # T => U \notin bad
  BY <1>2, <1>3, MinimalSubset, Zenon
<1>5. T \in SUBSET S /\ T \notin good
  BY <1>1
<1>6. ASSUME NEW x \in T PROVE T \ {x} \in good
  <2>1. T \ {x} \in SUBSET T /\ T \ {x} # T /\ T \ {x} \in SUBSET S
    BY <1>5
  <2> QED
    BY <1>1, <1>4, <2>1
<1> QED
  BY <1>5, <1>6

(* Nothing sums up to 0.                                                   *)
LEMMA SumEmpty == ASSUME NEW f PROVE SumFunctionOnSet(f, {}) = 0
BY SumRecursion, FS_EmptySet

(* Integers sum up to an integer.                                          *)
LEMMA SumInt ==
  ASSUME NEW S, IsFiniteSet(S), NEW f, \A x \in S : f[x] \in Int
  PROVE  SumFunctionOnSet(f, S) \in Int
<1>1. PICK good : good = {T \in SUBSET S : SumFunctionOnSet(f, T) \in Int}
  OBVIOUS
<1>2. {} \in good
  BY <1>1, SumEmpty
<1>3. ASSUME NEW T \in SUBSET S, T # {}, \A x \in T : T \ {x} \in good
      PROVE  T \in good
  <2>1. IsFiniteSet(T) /\ First(T) \in T
    BY <1>3, FS_Subset, FirstIn
  <2>2. SumFunctionOnSet(f, T) = f[First(T)] + SumFunctionOnSet(f, T \ {First(T)})
    BY <1>3, <2>1, SumRecursion
  <2> QED
    BY <1>1, <1>3, <2>1, <2>2
<1>4. S \in good
  <2>1. \A T \in SUBSET S : T # {} /\ (\A x \in T : T \ {x} \in good) => T \in good
    BY <1>3
  <2>2. \A T \in SUBSET S : T \in good
    BY <1>2, <2>1, SubsetInduction
  <2> QED
    BY <2>2
<1> QED
  BY <1>1, <1>4

(* Any element may be taken out of a sum first.                            *)
LEMMA SumPick ==
  ASSUME NEW S, IsFiniteSet(S), NEW f, \A x \in S : f[x] \in Int
  PROVE  \A x \in S : SumFunctionOnSet(f, S) = f[x] + SumFunctionOnSet(f, S \ {x})
<1> DEFINE P(T) == \A x \in T : SumFunctionOnSet(f, T) = f[x] + SumFunctionOnSet(f, T \ {x})
<1>1. PICK good : good = {T \in SUBSET S : P(T)}
  OBVIOUS
<1>2. {} \in good
  BY <1>1
<1>3. ASSUME NEW T \in SUBSET S, T # {}, \A x \in T : T \ {x} \in good
      PROVE  T \in good
  <2>1. IsFiniteSet(T) /\ First(T) \in T
    BY <1>3, FS_Subset, FirstIn
  <2>2. PICK c \in T : SumFunctionOnSet(f, T) = f[c] + SumFunctionOnSet(f, T \ {c})
    BY <1>3, <2>1, SumRecursion
  <2>3. ASSUME NEW x \in T
        PROVE  SumFunctionOnSet(f, T) = f[x] + SumFunctionOnSet(f, T \ {x})
    <3>1. CASE x = c
      BY <2>2, <3>1
    <3>2. CASE x # c
      <4> DEFINE U == (T \ {x}) \ {c}
      <4>1. U = (T \ {c}) \ {x}
        OBVIOUS
      <4>2. SumFunctionOnSet(f, T \ {c}) = f[x] + SumFunctionOnSet(f, U)
        BY <1>1, <1>3, <3>2, <4>1
      <4>3. SumFunctionOnSet(f, T \ {x}) = f[c] + SumFunctionOnSet(f, U)
        BY <1>1, <1>3, <3>2
      <4>4. U \in SUBSET S /\ IsFiniteSet(U) /\ \A y \in U : f[y] \in Int
        BY <2>1, FS_Subset
      <4>5. SumFunctionOnSet(f, U) \in Int /\ f[x] \in Int /\ f[c] \in Int
        BY <4>4, SumInt
      <4> HIDE DEF U
      <4> QED
        BY <2>2, <4>2, <4>3, <4>5
    <3> QED
      BY <3>1, <3>2
  <2> QED
    BY <1>1, <2>3
<1>4. S \in good
  <2>1. \A T \in SUBSET S : T # {} /\ (\A x \in T : T \ {x} \in good) => T \in good
    BY <1>3
  <2>2. \A T \in SUBSET S : T \in good
    BY <1>2, <2>1, SubsetInduction
  <2> QED
    BY <2>2
<1> QED
  BY <1>1, <1>4

(* Two functions that agree have the same sum.                             *)
LEMMA SumSame ==
  ASSUME NEW S, IsFiniteSet(S), NEW f, NEW g, \A x \in S : f[x] = g[x]
  PROVE  SumFunctionOnSet(f, S) = SumFunctionOnSet(g, S)
<1>1. PICK good : good = {T \in SUBSET S : SumFunctionOnSet(f, T) = SumFunctionOnSet(g, T)}
  OBVIOUS
<1>2. {} \in good
  BY <1>1, SumEmpty
<1>3. ASSUME NEW T \in SUBSET S, T # {}, \A x \in T : T \ {x} \in good
      PROVE  T \in good
  <2>1. IsFiniteSet(T) /\ First(T) \in T
    BY <1>3, FS_Subset, FirstIn
  <2>2. /\ SumFunctionOnSet(f, T) = f[First(T)] + SumFunctionOnSet(f, T \ {First(T)})
        /\ SumFunctionOnSet(g, T) = g[First(T)] + SumFunctionOnSet(g, T \ {First(T)})
    BY <1>3, <2>1, SumRecursion
  <2> QED
    BY <1>1, <1>3, <2>1, <2>2
<1>4. S \in good
  <2>1. \A T \in SUBSET S : T # {} /\ (\A x \in T : T \ {x} \in good) => T \in good
    BY <1>3
  <2>2. \A T \in SUBSET S : T \in good
    BY <1>2, <2>1, SubsetInduction
  <2> QED
    BY <2>2
<1> QED
  BY <1>1, <1>4

(* A sum of smaller numbers is not greater.                                *)
LEMMA SumMonotone ==
  ASSUME NEW S, IsFiniteSet(S), NEW f, NEW g,
         \A x \in S : f[x] \in Int /\ g[x] \in Int /\ f[x] <= g[x]
  PROVE  SumFunctionOnSet(f, S) <= SumFunctionOnSet(g, S)
<1>1. PICK good : good = {T \in SUBSET S : SumFunctionOnSet(f, T) <= SumFunctionOnSet(g, T)}
  OBVIOUS
<1>2. {} \in good
  BY <1>1, SumEmpty
<1>3. ASSUME NEW T \in SUBSET S, T # {}, \A x \in T : T \ {x} \in good
      PROVE  T \in good
  <2>1. IsFiniteSet(T) /\ First(T) \in T
    BY <1>3, FS_Subset, FirstIn
  <2>2. PICK c \in T : c = First(T)
    BY <2>1
  <2>3. /\ SumFunctionOnSet(f, T) = f[c] + SumFunctionOnSet(f, T \ {c})
        /\ SumFunctionOnSet(g, T) = g[c] + SumFunctionOnSet(g, T \ {c})
    BY <1>3, <2>1, <2>2, SumRecursion
  <2>4. IsFiniteSet(T \ {c})
    BY <2>1, FS_Subset
  <2>5. /\ SumFunctionOnSet(f, T \ {c}) \in Int
        /\ SumFunctionOnSet(g, T \ {c}) \in Int
    BY <2>4, SumInt
  <2>6. SumFunctionOnSet(f, T \ {c}) <= SumFunctionOnSet(g, T \ {c})
    BY <1>1, <1>3
  <2>7. SumFunctionOnSet(f, T) <= SumFunctionOnSet(g, T)
    BY <2>3, <2>5, <2>6
  <2> QED
    BY <1>1, <2>7
<1>4. S \in good
  <2>1. \A T \in SUBSET S : T # {} /\ (\A x \in T : T \ {x} \in good) => T \in good
    BY <1>3
  <2>2. \A T \in SUBSET S : T \in good
    BY <1>2, <2>1, SubsetInduction
  <2> QED
    BY <2>2
<1> QED
  BY <1>1, <1>4

(* Sums are additive.                                                      *)
LEMMA SumAdditive ==
  ASSUME NEW S, IsFiniteSet(S), NEW f, NEW g, NEW h,
         \A x \in S : f[x] \in Int /\ g[x] \in Int /\ h[x] = f[x] + g[x]
  PROVE  SumFunctionOnSet(h, S) = SumFunctionOnSet(f, S) + SumFunctionOnSet(g, S)
<1>1. PICK good : good = {T \in SUBSET S : SumFunctionOnSet(h, T) =
                            SumFunctionOnSet(f, T) + SumFunctionOnSet(g, T)}
  OBVIOUS
<1>2. {} \in good
  BY <1>1, SumEmpty
<1>3. ASSUME NEW T \in SUBSET S, T # {}, \A x \in T : T \ {x} \in good
      PROVE  T \in good
  <2>1. IsFiniteSet(T) /\ First(T) \in T
    BY <1>3, FS_Subset, FirstIn
  <2>2. PICK c \in T : c = First(T)
    BY <2>1
  <2>3. /\ SumFunctionOnSet(f, T) = f[c] + SumFunctionOnSet(f, T \ {c})
        /\ SumFunctionOnSet(g, T) = g[c] + SumFunctionOnSet(g, T \ {c})
        /\ SumFunctionOnSet(h, T) = h[c] + SumFunctionOnSet(h, T \ {c})
    BY <1>3, <2>1, <2>2, SumRecursion
  <2>4. IsFiniteSet(T \ {c})
    BY <2>1, FS_Subset
  <2>5. /\ SumFunctionOnSet(f, T \ {c}) \in Int
        /\ SumFunctionOnSet(g, T \ {c}) \in Int
    BY <2>4, SumInt
  <2>6. SumFunctionOnSet(h, T \ {c}) =
          SumFunctionOnSet(f, T \ {c}) + SumFunctionOnSet(g, T \ {c})
    BY <1>1, <1>3
  <2>7. SumFunctionOnSet(h, T) = SumFunctionOnSet(f, T) + SumFunctionOnSet(g, T)
    BY <2>3, <2>5, <2>6
  <2> QED
    BY <1>1, <2>7
<1>4. S \in good
  <2>1. \A T \in SUBSET S : T # {} /\ (\A x \in T : T \ {x} \in good) => T \in good
    BY <1>3
  <2>2. \A T \in SUBSET S : T \in good
    BY <1>2, <2>1, SubsetInduction
  <2> QED
    BY <2>2
<1> QED
  BY <1>1, <1>4

-----------------------------------------------------------------------------
(* Sums of whole functions: what the other modules cite.                   *)

(* Integers sum up to an integer.                                          *)
LEMMA SumType ==
  ASSUME NEW S, IsFiniteSet(S), NEW f \in [S -> Int]
  PROVE  SumFunction(f) \in Int
<1>1. SumFunction(f) = SumFunctionOnSet(f, S)
  BY DEF SumFunction
<1> QED
  BY <1>1, SumInt

(* Zeros sum up to 0.                                                      *)
LEMMA SumZero ==
  ASSUME NEW S, IsFiniteSet(S), NEW f \in [S -> Int], \A x \in S : f[x] = 0
  PROVE  SumFunction(f) = 0
<1>1. SumFunction(f) = SumFunctionOnSet(f, S)
  BY DEF SumFunction
<1>2. SumFunctionOnSet(f, S) = SumFunctionOnSet(f, S) + SumFunctionOnSet(f, S)
  <2>1. \A x \in S : f[x] \in Int /\ f[x] \in Int /\ f[x] = f[x] + f[x]
    OBVIOUS
  <2> QED
    BY <2>1, SumAdditive, Zenon
<1>3. PICK n \in Int : n = SumFunctionOnSet(f, S)
  BY SumInt
<1>4. n = n + n
  BY <1>2, <1>3, Zenon
<1>5. n = 0
  BY <1>4
<1> QED
  BY <1>1, <1>3, <1>5, Zenon

(* A sum of naturals is one, and at least each of them.                    *)
LEMMA SumNat ==
  ASSUME NEW S, IsFiniteSet(S), NEW f \in [S -> Nat]
  PROVE  SumFunction(f) \in Nat /\ \A x \in S : f[x] <= SumFunction(f)
<1>1. SumFunction(f) = SumFunctionOnSet(f, S)
  BY DEF SumFunction
<1>2. ASSUME NEW T \in SUBSET S PROVE SumFunctionOnSet(f, T) \in Nat
  <2>1. PICK z : z = [x \in T |-> 0]
    OBVIOUS
  <2>2. IsFiniteSet(T) /\ z \in [T -> Int] /\ \A x \in T : z[x] = 0
    BY <2>1, FS_Subset
  <2>3. SumFunctionOnSet(z, T) = 0
    BY <2>2, SumZero DEF SumFunction
  <2>4. SumFunctionOnSet(z, T) <= SumFunctionOnSet(f, T)
    <3>1. \A x \in T : z[x] \in Int /\ f[x] \in Int /\ z[x] <= f[x]
      BY <2>2
    <3> QED
      BY <2>2, <3>1, SumMonotone
  <2>5. SumFunctionOnSet(f, T) \in Int
    BY <2>2, SumInt
  <2> QED
    BY <2>3, <2>4, <2>5
<1>3. ASSUME NEW x \in S PROVE f[x] <= SumFunctionOnSet(f, S)
  <2>1. SumFunctionOnSet(f, S) = f[x] + SumFunctionOnSet(f, S \ {x})
    BY SumPick
  <2>2. SumFunctionOnSet(f, S \ {x}) \in Nat
    BY <1>2
  <2> QED
    BY <2>1, <2>2
<1>4. SumFunctionOnSet(f, S) \in Nat
  BY <1>2
<1> QED
  BY <1>1, <1>3, <1>4

(* One value changes, and the sum with it.                                 *)
LEMMA SumChange ==
  ASSUME NEW S, IsFiniteSet(S), NEW f \in [S -> Int], NEW g \in [S -> Int],
         NEW x \in S, \A y \in S \ {x} : g[y] = f[y]
  PROVE  SumFunction(g) = SumFunction(f) + (g[x] - f[x])
<1>1. /\ SumFunction(f) = SumFunctionOnSet(f, S)
      /\ SumFunction(g) = SumFunctionOnSet(g, S)
  BY DEF SumFunction
<1>2. /\ SumFunctionOnSet(f, S) = f[x] + SumFunctionOnSet(f, S \ {x})
      /\ SumFunctionOnSet(g, S) = g[x] + SumFunctionOnSet(g, S \ {x})
  BY SumPick
<1>3. IsFiniteSet(S \ {x})
  BY FS_Subset
<1>4. SumFunctionOnSet(f, S \ {x}) = SumFunctionOnSet(g, S \ {x})
  BY <1>3, SumSame
<1>5. SumFunctionOnSet(f, S \ {x}) \in Int
  BY <1>3, SumInt
<1> QED
  BY <1>1, <1>2, <1>4, <1>5

(* Smaller values have a smaller sum.                                      *)
LEMMA SumAtMost ==
  ASSUME NEW S, IsFiniteSet(S), NEW f \in [S -> Int], NEW g \in [S -> Int],
         \A x \in S : f[x] <= g[x]
  PROVE  SumFunction(f) <= SumFunction(g)
<1>1. SumFunction(f) = SumFunctionOnSet(f, S) /\ SumFunction(g) = SumFunctionOnSet(g, S)
  BY DEF SumFunction
<1> QED
  BY <1>1, SumMonotone

(* The sum of two functions has the sum of both.                           *)
LEMMA SumOfSums ==
  ASSUME NEW S, IsFiniteSet(S), NEW f \in [S -> Int], NEW g \in [S -> Int],
         NEW h \in [S -> Int], \A x \in S : h[x] = f[x] + g[x]
  PROVE  SumFunction(h) = SumFunction(f) + SumFunction(g)
<1>1. /\ SumFunction(f) = SumFunctionOnSet(f, S)
      /\ SumFunction(g) = SumFunctionOnSet(g, S)
      /\ SumFunction(h) = SumFunctionOnSet(h, S)
  BY DEF SumFunction
<1> QED
  BY <1>1, SumAdditive
=============================================================================
