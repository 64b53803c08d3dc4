----------------------------- MODULE DataLemmas -----------------------------
(***************************************************************************)
(* Facts about sets and lists that the proofs about the stores share: the  *)
(* first and the last of a set of numbers, what is left of a list without  *)
(* one of its places, and what SumFunctionOnSet adds up, which gives the   *)
(* sizes of a memtable and of the read cache.                              *)
(***************************************************************************)
EXTENDS Integers, SequencesExt, FiniteSetTheorems, WellFoundedInduction, TLAPS

\* A bounded set of numbers has a last one.
LEMMA LastIsGreatest ==
  ASSUME NEW n \in Nat, NEW S \in SUBSET (0 .. n), S # {}
  PROVE  Max(S) \in S /\ \A j \in S : j <= Max(S)
<1> DEFINE R == {ss \in Nat \X Nat : ss[1] < ss[2]}
           T == {n - i : i \in S}
<1>1. IsWellFoundedOn(R, Nat)
  BY NatLessThanWellFounded DEF OpToRel
<1>2. \A i \in S : i \in Nat /\ n - i \in Nat
  OBVIOUS
<1>3. T \subseteq Nat /\ T # {}
  BY <1>2
<1>4. \E x \in T : \A y \in T : <<y, x>> \notin R
  BY <1>1, <1>3, WFMin
<1>5. PICK i \in S : \A j \in S : <<n - j, n - i>> \notin R
  BY <1>4
<1>6. ASSUME NEW j \in S PROVE i >= j
  <2>1. ~(n - j < n - i)
    BY <1>2, <1>5
  <2> QED
    BY <1>2, <2>1
<1> QED
  BY <1>6 DEF Max

LEMMA LastNumber ==
  ASSUME NEW n \in Nat, NEW S \in SUBSET (0 .. n), S # {}
  PROVE  Max(S) \in S
BY LastIsGreatest

LEMMA GreatestIs ==
  ASSUME NEW n \in Nat, NEW S \in SUBSET (0 .. n), NEW p \in S, \A j \in S : j <= p
  PROVE  Max(S) = p
<1> DEFINE last == Max(S)
<1>1. last \in S /\ \A j \in S : j <= last
  <2>1. S # {}
    OBVIOUS
  <2> QED
    BY <2>1, LastIsGreatest
<1> HIDE DEF last
<1>2. last \in Int /\ p \in Int
  BY <1>1
<1>3. last <= p /\ p <= last
  BY <1>1
<1> QED
  BY <1>2, <1>3 DEF last

\* So has a set of positions of a sequence.
LEMMA LastPosition ==
  ASSUME NEW n \in Nat, NEW S \in SUBSET (1 .. n), S # {}
  PROVE  Max(S) \in S
<1>1. 1 .. n \subseteq 0 .. n
  OBVIOUS
<1>2. S \in SUBSET (0 .. n)
  BY <1>1, Zenon
<1> QED
  BY <1>2, LastNumber

\* And a set of positions has a first one.
LEMMA FirstPosition ==
  ASSUME NEW n \in Nat, NEW S \in SUBSET (1 .. n), S # {}
  PROVE  Min(S) \in S /\ \A j \in S : Min(S) <= j
<1> DEFINE R == {ss \in Nat \X Nat : ss[1] < ss[2]}
<1>1. IsWellFoundedOn(R, Nat)
  BY NatLessThanWellFounded DEF OpToRel
<1>2. S \subseteq Nat
  OBVIOUS
<1>3. PICK i \in S : \A j \in S : <<j, i>> \notin R
  BY <1>1, <1>2, WFMin
<1>4. ASSUME NEW j \in S PROVE i <= j
  <2>1. i \in Nat /\ j \in Nat
    BY <1>2
  <2>2. ~(j < i)
    BY <1>3, <2>1
  <2> QED
    BY <2>1, <2>2
<1> QED
  BY <1>4 DEF Min

----------------------------------------------------------------------------
(* SumFunctionOnSet is defined by recursion over the subsets of a set,     *)
(* taking out a chosen element each time.  That such a function exists for *)
(* a finite set, and that the choice does not matter, is shown by looking  *)
(* at a smallest subset for which it would fail.                           *)

\* The element that is taken out of a set first.
Chosen(s) == CHOOSE x \in s : TRUE

\* What the recursion makes of the sums of smaller sets.
NextSum(f, s, sums) == IF s = {} THEN 0 ELSE f[Chosen(s)] + sums[s \ {Chosen(s)}]

\* sums is a solution of the recursion over the subsets of S.
Solves(f, S, sums) == sums = [s \in SUBSET S |-> NextSum(f, s, sums)]

LEMMA ChosenIn ==
  ASSUME NEW S, S # {}
  PROVE  Chosen(S) \in S
  BY DEF Chosen

\* A set of subsets of a finite set, if it is not empty, has a smallest element.
LEMMA SmallestSubset ==
  ASSUME NEW S, IsFiniteSet(S), NEW bad \in SUBSET SUBSET S, bad # {}
  PROVE  \E T \in bad : \A U \in SUBSET T : U # T => U \notin bad
<1>1. IsWellFoundedOn(StrictSubsetOrdering(S), SUBSET S)
  BY FS_StrictSubsetOrderingWellFounded, FS_FiniteSubsetsOfFinite
<1>2. PICK T \in bad : \A U \in bad : ~(<<U, T>> \in StrictSubsetOrdering(S))
  BY <1>1, WFMin
<1>3. ASSUME NEW U \in SUBSET T, U # T
      PROVE  U \notin bad
  <2>1. <<U, T>> \in StrictSubsetOrdering(S)
    <3>1. U \in SUBSET S /\ T \in SUBSET S /\ U \subseteq T /\ U # T
      BY <1>2, <1>3
    <3> QED
      BY <3>1 DEF StrictSubsetOrdering
  <2> QED
    BY <2>1, <1>2
<1> QED
  BY <1>2, <1>3

----------------------------------------------------------------------------
(* The recursion has one solution.                                         *)

LEMMA SolutionsAgree ==
  ASSUME NEW f, NEW S, IsFiniteSet(S), NEW T,
         NEW g, Solves(f, S, g), NEW h, Solves(f, T, h),
         NEW s \in SUBSET (S \cap T)
  PROVE  g[s] = h[s]
<1> DEFINE bad == {t \in SUBSET (S \cap T) : g[t] # h[t]}
<1>1. SUFFICES ASSUME bad # {} PROVE FALSE
  OBVIOUS
<1>2. bad \in SUBSET SUBSET S
  OBVIOUS
<1> HIDE DEF bad
<1>3. PICK t \in bad : \A u \in SUBSET t : u # t => u \notin bad
  BY <1>1, <1>2, SmallestSubset
<1>4. t \in SUBSET S /\ t \in SUBSET T /\ g[t] # h[t]
  BY DEF bad
<1>5. g[t] = NextSum(f, t, g) /\ h[t] = NextSum(f, t, h)
  BY <1>4 DEF Solves
<1>6. t # {}
  BY <1>4, <1>5 DEF NextSum
<1>7. g[t \ {Chosen(t)}] = h[t \ {Chosen(t)}]
  <2>1. t \ {Chosen(t)} # t /\ t \ {Chosen(t)} \in SUBSET (S \cap T)
    BY <1>4, <1>6, ChosenIn
  <2>2. t \ {Chosen(t)} \notin bad
    BY <1>3, <2>1
  <2> QED
    BY <2>1, <2>2 DEF bad
<1> QED
  BY <1>4, <1>5, <1>6, <1>7 DEF NextSum

LEMMA SolutionExists ==
  ASSUME NEW f, NEW S, IsFiniteSet(S)
  PROVE  \E g : Solves(f, S, g)
<1> DEFINE bad == {T \in SUBSET S : ~ \E g : Solves(f, T, g)}
<1>1. SUFFICES ASSUME bad # {} PROVE FALSE
  BY DEF bad
<1>2. bad \in SUBSET SUBSET S
  OBVIOUS
<1>3. PICK T \in bad : \A U \in SUBSET T : U # T => U \notin bad
  <2> HIDE DEF bad
  <2> QED
    BY <1>1, <1>2, SmallestSubset
<1>4. T \in SUBSET S /\ ~ \E g : Solves(f, T, g)
  BY <1>3
<1> DEFINE Of(U) == CHOOSE g : Solves(f, U, g)
<1>5. ASSUME NEW U \in SUBSET T, U # T
      PROVE  Solves(f, U, Of(U))
  <2>1. U \in SUBSET S
    BY <1>4
  <2>2. \E g : Solves(f, U, g)
    BY <1>3, <1>5, <2>1
  <2> QED
    BY <2>2
<1> HIDE DEF Of, bad
<1> DEFINE below == [s \in SUBSET T |-> Of(s)[s]]
           whole == [s \in SUBSET T |-> IF s = T THEN NextSum(f, T, below) ELSE below[s]]
<1>6. ASSUME NEW s \in SUBSET T
      PROVE  whole[s] = NextSum(f, s, whole)
  <2>1. CASE s = {}
    <3>1. CASE T = {}
      BY <2>1, <3>1 DEF NextSum
    <3>2. CASE T # {}
      <4>1. whole[s] = Of(s)[s] /\ Solves(f, s, Of(s))
        BY <2>1, <3>2, <1>5
      <4>2. Of(s)[s] = NextSum(f, s, Of(s))
        BY <4>1 DEF Solves
      <4> QED
        BY <4>1, <4>2, <2>1 DEF NextSum
    <3> QED
      BY <3>1, <3>2
  <2>2. CASE s # {}
    <3> DEFINE less == s \ {Chosen(s)}
    <3>1. less \in SUBSET T /\ less # s /\ less # T /\ less \in SUBSET s
      BY <2>2, ChosenIn
    <3>2. whole[less] = below[less] /\ below[less] = Of(less)[less]
      BY <3>1
    <3>3. CASE s = T
      <4>1. whole[s] = NextSum(f, s, below)
        BY <3>3
      <4> QED
        BY <4>1, <3>2, <2>2 DEF NextSum
    <3>4. CASE s # T
      <4>1. Solves(f, s, Of(s)) /\ Solves(f, less, Of(less))
        BY <3>1, <3>4, <1>5
      <4>2. IsFiniteSet(less)
        BY <3>1, <1>4, FS_Subset
      <4>3. Of(less)[less] = Of(s)[less]
        <5> HIDE DEF less
        <5> QED
          BY <4>1, <4>2, <3>1, SolutionsAgree
      <4>4. Of(s)[s] = NextSum(f, s, Of(s))
        BY <4>1 DEF Solves
      <4>5. whole[s] = Of(s)[s]
        BY <3>4
      <4> QED
        BY <4>3, <4>4, <4>5, <3>2, <2>2 DEF NextSum
    <3> QED
      BY <3>3, <3>4
  <2> QED
    BY <2>1, <2>2
<1>7. Solves(f, T, whole)
  <2>1. whole = [s \in SUBSET T |-> whole[s]]
    OBVIOUS
  <2> HIDE DEF whole
  <2> QED
    BY <1>6, <2>1 DEF Solves
<1> QED
  BY <1>4, <1>7

LEMMA SumIsSolution ==
  ASSUME NEW f, NEW S, IsFiniteSet(S)
  PROVE  \E g : Solves(f, S, g) /\ SumFunctionOnSet(f, S) = g[S]
<1> DEFINE g == CHOOSE h : Solves(f, S, h)
<1>1. Solves(f, S, g)
  BY SolutionExists
<1>2. SumFunctionOnSet(f, S) = g[S]
  BY Zenon DEF SumFunctionOnSet, FoldFunctionOnSet, MapThenFoldSet, Solves, NextSum, Chosen
<1> QED
  BY <1>1, <1>2

----------------------------------------------------------------------------
(* What the sum is.                                                        *)

LEMMA SumEmpty == ASSUME NEW f PROVE SumFunctionOnSet(f, {}) = 0
<1>1. PICK g : Solves(f, {}, g) /\ SumFunctionOnSet(f, {}) = g[{}]
  BY SumIsSolution, FS_EmptySet
<1>2. g[{}] = NextSum(f, {}, g)
  BY <1>1 DEF Solves
<1> QED
  BY <1>1, <1>2 DEF NextSum

LEMMA SumChosen ==
  ASSUME NEW f, NEW S, IsFiniteSet(S), S # {}
  PROVE  SumFunctionOnSet(f, S) = f[Chosen(S)] + SumFunctionOnSet(f, S \ {Chosen(S)})
<1> DEFINE less == S \ {Chosen(S)}
<1>1. IsFiniteSet(less) /\ less \in SUBSET S
  BY FS_Subset
<1>2. PICK g : Solves(f, S, g) /\ SumFunctionOnSet(f, S) = g[S]
  BY SumIsSolution
<1>3. PICK h : Solves(f, less, h) /\ SumFunctionOnSet(f, less) = h[less]
  <2> HIDE DEF less
  <2> QED
    BY <1>1, SumIsSolution
<1>4. g[less] = h[less]
  <2> HIDE DEF less
  <2> QED
    BY <1>1, <1>2, <1>3, SolutionsAgree
<1>5. g[S] = NextSum(f, S, g)
  BY <1>2 DEF Solves
<1> QED
  BY <1>2, <1>3, <1>4, <1>5 DEF NextSum

\* A sum of natural numbers is one.
LEMMA SumNat ==
  ASSUME NEW f, NEW S, IsFiniteSet(S), \A x \in S : f[x] \in Nat
  PROVE  SumFunctionOnSet(f, S) \in Nat
<1> DEFINE bad == {T \in SUBSET S : SumFunctionOnSet(f, T) \notin Nat}
<1>1. SUFFICES ASSUME bad # {} PROVE FALSE
  OBVIOUS
<1>2. bad \in SUBSET SUBSET S
  OBVIOUS
<1> HIDE DEF bad
<1>3. PICK T \in bad : \A U \in SUBSET T : U # T => U \notin bad
  BY <1>1, <1>2, SmallestSubset
<1>4. T \in SUBSET S /\ SumFunctionOnSet(f, T) \notin Nat
  BY DEF bad
<1>5. T # {}
  BY <1>4, SumEmpty
<1>6. IsFiniteSet(T) /\ Chosen(T) \in T
  BY <1>4, <1>5, FS_Subset, ChosenIn
<1>7. SumFunctionOnSet(f, T \ {Chosen(T)}) \in Nat
  <2>1. T \ {Chosen(T)} \notin bad
    BY <1>3, <1>6
  <2> QED
    BY <2>1, <1>4 DEF bad
<1>8. f[Chosen(T)] \in Nat
  BY <1>4, <1>6
<1> QED
  BY <1>4, <1>5, <1>6, <1>7, <1>8, SumChosen

\* And a sum of integers is an integer.
LEMMA SumInt ==
  ASSUME NEW f, NEW S, IsFiniteSet(S), \A x \in S : f[x] \in Int
  PROVE  SumFunctionOnSet(f, S) \in Int
<1> DEFINE bad == {T \in SUBSET S : SumFunctionOnSet(f, T) \notin Int}
<1>1. SUFFICES ASSUME bad # {} PROVE FALSE
  OBVIOUS
<1>2. bad \in SUBSET SUBSET S
  OBVIOUS
<1> HIDE DEF bad
<1>3. PICK T \in bad : \A U \in SUBSET T : U # T => U \notin bad
  BY <1>1, <1>2, SmallestSubset
<1>4. T \in SUBSET S /\ SumFunctionOnSet(f, T) \notin Int
  BY DEF bad
<1>5. T # {}
  BY <1>4, SumEmpty
<1>6. IsFiniteSet(T) /\ Chosen(T) \in T
  BY <1>4, <1>5, FS_Subset, ChosenIn
<1>7. SumFunctionOnSet(f, T \ {Chosen(T)}) \in Int
  <2>1. T \ {Chosen(T)} \notin bad
    BY <1>3, <1>6
  <2> QED
    BY <2>1, <1>4 DEF bad
<1>8. f[Chosen(T)] \in Int
  BY <1>4, <1>6
<1> QED
  BY <1>4, <1>5, <1>6, <1>7, <1>8, SumChosen

\* The element taken out first does not matter.
LEMMA SumElement ==
  ASSUME NEW f, NEW S, IsFiniteSet(S), \A x \in S : f[x] \in Int, NEW e \in S
  PROVE  SumFunctionOnSet(f, S) = f[e] + SumFunctionOnSet(f, S \ {e})
<1> DEFINE bad == {T \in SUBSET S : \E x \in T :
                     SumFunctionOnSet(f, T) # f[x] + SumFunctionOnSet(f, T \ {x})}
<1>1. SUFFICES ASSUME bad # {} PROVE FALSE
  OBVIOUS
<1>2. bad \in SUBSET SUBSET S
  OBVIOUS
<1> HIDE DEF bad
<1>3. PICK T \in bad : \A U \in SUBSET T : U # T => U \notin bad
  BY <1>1, <1>2, SmallestSubset
<1>4. PICK x \in T : SumFunctionOnSet(f, T) # f[x] + SumFunctionOnSet(f, T \ {x})
  BY DEF bad
<1>5. T \in SUBSET S /\ IsFiniteSet(T)
  BY FS_Subset DEF bad
<1>6. PICK c \in T : SumFunctionOnSet(f, T) = f[c] + SumFunctionOnSet(f, T \ {c})
  BY <1>5, ChosenIn, SumChosen
<1>7. c # x
  BY <1>4, <1>6
<1>8. SumFunctionOnSet(f, T \ {c}) = f[x] + SumFunctionOnSet(f, (T \ {c}) \ {x})
  <2>1. T \ {c} \notin bad /\ T \ {c} \in SUBSET S /\ x \in T \ {c}
    BY <1>3, <1>5, <1>6, <1>7
  <2> QED
    BY <2>1 DEF bad
<1>9. SumFunctionOnSet(f, T \ {x}) = f[c] + SumFunctionOnSet(f, (T \ {x}) \ {c})
  <2>1. T \ {x} \notin bad /\ T \ {x} \in SUBSET S /\ c \in T \ {x}
    BY <1>3, <1>5, <1>6, <1>7
  <2> QED
    BY <2>1 DEF bad
<1>10. (T \ {c}) \ {x} = (T \ {x}) \ {c}
  OBVIOUS
<1>11. SumFunctionOnSet(f, (T \ {x}) \ {c}) \in Int
  BY <1>5, FS_Subset, SumInt
<1>12. f[c] \in Int /\ f[x] \in Int
  BY <1>5
<1>13. PICK rest \in Int : rest = SumFunctionOnSet(f, (T \ {x}) \ {c})
  BY <1>11
<1>14. SumFunctionOnSet(f, T) = f[c] + (f[x] + rest)
  BY <1>6, <1>8, <1>10, <1>13
<1>15. f[x] + SumFunctionOnSet(f, T \ {x}) = f[x] + (f[c] + rest)
  BY <1>9, <1>13
<1>16. f[c] + (f[x] + rest) = f[x] + (f[c] + rest)
  BY <1>12, <1>13
<1> QED
  BY <1>4, <1>14, <1>15, <1>16

LEMMA SumAdded ==
  ASSUME NEW f, NEW S, IsFiniteSet(S), \A x \in S : f[x] \in Int, NEW e, e \notin S, f[e] \in Int
  PROVE  SumFunctionOnSet(f, S \cup {e}) = f[e] + SumFunctionOnSet(f, S)
<1>1. IsFiniteSet(S \cup {e}) /\ (S \cup {e}) \ {e} = S
  BY FS_AddElement
<1> QED
  BY <1>1, SumElement

\* Only the values on the set count.
LEMMA SumSame ==
  ASSUME NEW f, NEW g, NEW S, IsFiniteSet(S), \A x \in S : f[x] = g[x]
  PROVE  SumFunctionOnSet(f, S) = SumFunctionOnSet(g, S)
<1> DEFINE bad == {T \in SUBSET S : SumFunctionOnSet(f, T) # SumFunctionOnSet(g, T)}
<1>1. SUFFICES ASSUME bad # {} PROVE FALSE
  OBVIOUS
<1>2. bad \in SUBSET SUBSET S
  OBVIOUS
<1> HIDE DEF bad
<1>3. PICK T \in bad : \A U \in SUBSET T : U # T => U \notin bad
  BY <1>1, <1>2, SmallestSubset
<1>4. T \in SUBSET S /\ SumFunctionOnSet(f, T) # SumFunctionOnSet(g, T)
  BY DEF bad
<1>5. T # {}
  BY <1>4, SumEmpty
<1>6. IsFiniteSet(T) /\ Chosen(T) \in T
  BY <1>4, <1>5, FS_Subset, ChosenIn
<1>7. SumFunctionOnSet(f, T \ {Chosen(T)}) = SumFunctionOnSet(g, T \ {Chosen(T)})
  <2>1. T \ {Chosen(T)} \notin bad
    BY <1>3, <1>6
  <2> QED
    BY <2>1, <1>4 DEF bad
<1> QED
  BY <1>4, <1>5, <1>6, <1>7, SumChosen

\* The sum over two sets that have nothing in common.
LEMMA SumDisjoint ==
  ASSUME NEW f, NEW S, NEW T, IsFiniteSet(S), IsFiniteSet(T), S \cap T = {},
         \A x \in S \cup T : f[x] \in Nat
  PROVE  SumFunctionOnSet(f, S \cup T) = SumFunctionOnSet(f, S) + SumFunctionOnSet(f, T)
<1> DEFINE bad == {U \in SUBSET S :
                     SumFunctionOnSet(f, U \cup T) # SumFunctionOnSet(f, U) + SumFunctionOnSet(f, T)}
<1>1. SUFFICES ASSUME bad # {} PROVE FALSE
  OBVIOUS
<1>2. bad \in SUBSET SUBSET S
  OBVIOUS
<1> HIDE DEF bad
<1>3. PICK U \in bad : \A V \in SUBSET U : V # U => V \notin bad
  BY <1>1, <1>2, SmallestSubset
<1>4. /\ U \in SUBSET S
      /\ SumFunctionOnSet(f, U \cup T) # SumFunctionOnSet(f, U) + SumFunctionOnSet(f, T)
  BY DEF bad
<1>5. SumFunctionOnSet(f, T) \in Nat
  BY SumNat
<1>6. CASE U = {}
  BY <1>4, <1>5, <1>6, SumEmpty
<1>7. CASE U # {}
  <2>1. PICK e \in U : TRUE
    BY <1>7
  <2> DEFINE V == U \ {e}
  <2>2. SumFunctionOnSet(f, V \cup T) = SumFunctionOnSet(f, V) + SumFunctionOnSet(f, T)
    <3>1. V \notin bad /\ V \in SUBSET S
      BY <1>3, <1>4, <2>1
    <3> QED
      BY <3>1 DEF bad
  <2>3. IsFiniteSet(U) /\ IsFiniteSet(U \cup T) /\ IsFiniteSet(V)
    BY <1>4, FS_Subset, FS_Union
  <2>4. SumFunctionOnSet(f, U) = f[e] + SumFunctionOnSet(f, V)
    BY <1>4, <2>3, SumElement
  <2>5. SumFunctionOnSet(f, U \cup T) = f[e] + SumFunctionOnSet(f, (U \cup T) \ {e})
    BY <1>4, <2>3, SumElement
  <2>6. (U \cup T) \ {e} = V \cup T
    BY <1>4
  <2>7. f[e] \in Nat /\ SumFunctionOnSet(f, V) \in Nat
    BY <1>4, <2>3, SumNat
  <2>8. SumFunctionOnSet(f, U \cup T) = f[e] + (SumFunctionOnSet(f, V) + SumFunctionOnSet(f, T))
    BY <2>2, <2>5, <2>6
  <2> HIDE DEF V
  <2> QED
    BY <1>4, <1>5, <2>4, <2>7, <2>8
<1> QED
  BY <1>6, <1>7

----------------------------------------------------------------------------
(* Lists.                                                                  *)

LEMMA ConcatAt ==
  ASSUME NEW S, NEW a \in Seq(S), NEW b \in Seq(S)
  PROVE  /\ a \o b \in Seq(S) /\ Len(a \o b) = Len(a) + Len(b)
         /\ \A n \in 1 .. Len(a) : (a \o b)[n] = a[n]
         /\ \A n \in Len(a) + 1 .. Len(a) + Len(b) : (a \o b)[n] = b[n - Len(a)]
OBVIOUS

\* Taking a place out of a list leaves the others in their order.
LEMMA RemoveAtShape ==
  ASSUME NEW S, NEW list \in Seq(S), NEW p \in 1 .. Len(list)
  PROVE  /\ RemoveAt(list, p) \in Seq(S)
         /\ Len(RemoveAt(list, p)) = Len(list) - 1
         /\ \A n \in 1 .. Len(list) - 1 :
              RemoveAt(list, p)[n] = IF n < p THEN list[n] ELSE list[n + 1]
<1>1. /\ SubSeq(list, 1, p - 1) \in Seq(S) /\ SubSeq(list, p + 1, Len(list)) \in Seq(S)
      /\ Len(SubSeq(list, 1, p - 1)) = p - 1
      /\ Len(SubSeq(list, p + 1, Len(list))) = Len(list) - p
      /\ \A n \in 1 .. p - 1 : SubSeq(list, 1, p - 1)[n] = list[n]
      /\ \A n \in 1 .. Len(list) - p : SubSeq(list, p + 1, Len(list))[n] = list[n + p]
  OBVIOUS
<1> DEFINE front == SubSeq(list, 1, p - 1)
           back == SubSeq(list, p + 1, Len(list))
<1>2. RemoveAt(list, p) = front \o back
  BY DEF RemoveAt
<1> HIDE DEF front, back
<1>3. /\ front \in Seq(S) /\ back \in Seq(S)
      /\ Len(front) = p - 1 /\ Len(back) = Len(list) - p
      /\ \A n \in 1 .. p - 1 : front[n] = list[n]
      /\ \A n \in 1 .. Len(list) - p : back[n] = list[n + p]
  BY <1>1 DEF front, back
<1>4. /\ front \o back \in Seq(S) /\ Len(front \o back) = Len(front) + Len(back)
      /\ \A n \in 1 .. Len(front) : (front \o back)[n] = front[n]
      /\ \A n \in Len(front) + 1 .. Len(front) + Len(back) : (front \o back)[n] = back[n - Len(front)]
  BY <1>3, ConcatAt, Zenon
<1>5. Len(list) \in Nat
  OBVIOUS
<1>6. Len(front \o back) = Len(list) - 1
  BY <1>3, <1>4, <1>5
<1>7. ASSUME NEW n \in 1 .. Len(list) - 1
      PROVE  (front \o back)[n] = IF n < p THEN list[n] ELSE list[n + 1]
  <2>1. CASE n < p
    <3>1. n \in 1 .. Len(front) /\ n \in 1 .. p - 1
      BY <1>3, <1>5, <2>1
    <3> QED
      BY <1>3, <1>4, <2>1, <3>1
  <2>2. CASE ~(n < p)
    <3>1. /\ n \in Len(front) + 1 .. Len(front) + Len(back)
          /\ n - Len(front) \in 1 .. Len(list) - p /\ (n - Len(front)) + p = n + 1
      BY <1>3, <1>5, <2>2
    <3>2. back[n - Len(front)] = list[(n - Len(front)) + p]
      BY <1>3, <3>1
    <3> QED
      BY <1>4, <2>2, <3>1, <3>2
  <2> QED
    BY <2>1, <2>2
<1> QED
  BY <1>2, <1>4, <1>6, <1>7

\* A list without repetitions loses that one element.
LEMMA RemoveAtLeaves ==
  ASSUME NEW S, NEW list \in Seq(S), IsInjective(list), NEW p \in 1 .. Len(list)
  PROVE  /\ IsInjective(RemoveAt(list, p))
         /\ Range(RemoveAt(list, p)) = Range(list) \ {list[p]}
         /\ ToSet(RemoveAt(list, p)) = ToSet(list) \ {list[p]}
<1> DEFINE others == RemoveAt(list, p)
<1>1. Len(list) \in Nat /\ DOMAIN list = 1 .. Len(list)
  OBVIOUS
<1>2. \A i, j \in 1 .. Len(list) : list[i] = list[j] => i = j
  BY <1>1 DEF IsInjective
<1>3. /\ others \in Seq(S)
      /\ Len(others) = Len(list) - 1
      /\ \A n \in 1 .. Len(list) - 1 : others[n] = IF n < p THEN list[n] ELSE list[n + 1]
  BY RemoveAtShape
<1> HIDE DEF others
<1>4. DOMAIN others = 1 .. Len(list) - 1
  BY <1>3
<1>5. ASSUME NEW m \in 1 .. Len(list) - 1, NEW n \in 1 .. Len(list) - 1, others[m] = others[n]
      PROVE  m = n
  <2>1. /\ m \in 1 .. Len(list) /\ m + 1 \in 1 .. Len(list)
        /\ n \in 1 .. Len(list) /\ n + 1 \in 1 .. Len(list)
    BY <1>1
  <2>2. CASE m < p /\ n < p
    BY <1>2, <1>3, <1>5, <2>1, <2>2
  <2>3. CASE m < p /\ ~(n < p)
    BY <1>2, <1>3, <1>5, <2>1, <2>3
  <2>4. CASE ~(m < p) /\ n < p
    BY <1>2, <1>3, <1>5, <2>1, <2>4
  <2>5. CASE ~(m < p) /\ ~(n < p)
    BY <1>2, <1>3, <1>5, <2>1, <2>5
  <2> QED
    BY <2>2, <2>3, <2>4, <2>5
<1>6. ASSUME NEW n \in 1 .. Len(list) - 1
      PROVE  \E i \in 1 .. Len(list) : others[n] = list[i] /\ list[i] # list[p]
  <2>1. n \in 1 .. Len(list) /\ n + 1 \in 1 .. Len(list)
    BY <1>1
  <2>2. CASE n < p
    BY <1>1, <1>2, <1>3, <2>1, <2>2
  <2>3. CASE ~(n < p)
    BY <1>1, <1>2, <1>3, <2>1, <2>3
  <2> QED
    BY <2>2, <2>3
<1>7. ASSUME NEW i \in 1 .. Len(list), list[i] # list[p]
      PROVE  \E n \in 1 .. Len(list) - 1 : others[n] = list[i]
  <2>1. CASE i < p
    <3>1. i \in 1 .. Len(list) - 1
      BY <1>1, <2>1
    <3> QED
      BY <1>3, <2>1, <3>1
  <2>2. CASE ~(i < p)
    <3>1. i - 1 \in 1 .. Len(list) - 1 /\ ~(i - 1 < p) /\ (i - 1) + 1 = i
      BY <1>1, <1>7, <2>2
    <3>2. others[i - 1] = list[i]
      BY <1>3, <3>1
    <3> QED
      BY <3>1, <3>2
  <2> QED
    BY <2>1, <2>2
<1>8. IsInjective(others)
  BY <1>4, <1>5 DEF IsInjective
<1>9. Range(others) = Range(list) \ {list[p]}
  <2>1. \A x : x \in Range(others) <=> \E n \in 1 .. Len(list) - 1 : others[n] = x
    BY <1>4 DEF Range
  <2>2. \A x : x \in Range(list) <=> \E i \in 1 .. Len(list) : list[i] = x
    BY <1>1 DEF Range
  <2>3. \A x : x \in Range(others) => x \in Range(list) /\ x # list[p]
    BY <1>6, <2>1, <2>2, Zenon
  <2>4. \A x : x \in Range(list) /\ x # list[p] => x \in Range(others)
    BY <1>7, <2>1, <2>2, Zenon
  <2> QED
    BY <2>3, <2>4
<1>10. ToSet(others) = Range(others) /\ ToSet(list) = Range(list)
  BY DEF ToSet, Range
<1> QED
  BY <1>8, <1>9, <1>10 DEF others
=============================================================================
