--------------------------- MODULE TableNameLemmas --------------------------
(***************************************************************************)
(* What opening the files in the order of their names gives, whatever      *)
(* files there are: each of them once, and in the order of their numbers   *)
(* as long as these have one digit.                                        *)
(***************************************************************************)
EXTENDS TableNames, DataLemmas

\* The numbers with at most two digits.
Numbers == 0 .. 98

\* A number that orders as the names do.
NameRank(a) == IF a < 10 THEN 11 * a ELSE 11 * (a \div 10) + 1 + (a % 10)

LEMMA NamesOrdered ==
  ASSUME NEW a \in Numbers, NEW b \in Numbers
  PROVE  /\ NameRank(a) \in Nat
         /\ NameLess(a, b) <=> NameRank(a) < NameRank(b)
         /\ NameRank(a) = NameRank(b) => a = b
<1>1. a \in 0 .. 98 /\ b \in 0 .. 98
  BY DEF Numbers
<1>2. /\ a \div 10 \in 0 .. 9 /\ a % 10 \in 0 .. 9 /\ a = 10 * (a \div 10) + (a % 10)
      /\ b \div 10 \in 0 .. 9 /\ b % 10 \in 0 .. 9 /\ b = 10 * (b \div 10) + (b % 10)
  BY <1>1
<1> DEFINE ad == a \div 10
           am == a % 10
           bd == b \div 10
           bm == b % 10
<1>3. /\ NameRank(a) = IF a < 10 THEN 11 * a ELSE 11 * ad + 1 + am
      /\ NameRank(b) = IF b < 10 THEN 11 * b ELSE 11 * bd + 1 + bm
  BY DEF NameRank
<1>4. NameLess(a, b) <=> IF (a < 10) = (b < 10) THEN a < b ELSE IF a < 10 THEN a <= bd ELSE ad < b
  BY DEF NameLess
<1> HIDE DEF ad, am, bd, bm
<1>5. /\ ad \in 0 .. 9 /\ am \in 0 .. 9 /\ a = 10 * ad + am
      /\ bd \in 0 .. 9 /\ bm \in 0 .. 9 /\ b = 10 * bd + bm
  BY <1>2 DEF ad, am, bd, bm
<1>6. CASE a < 10 /\ b < 10
  BY <1>1, <1>3, <1>4, <1>6
<1>7. CASE a < 10 /\ ~(b < 10)
  BY <1>1, <1>3, <1>4, <1>5, <1>7
<1>8. CASE ~(a < 10) /\ b < 10
  BY <1>1, <1>3, <1>4, <1>5, <1>8
<1>9. CASE ~(a < 10) /\ ~(b < 10)
  BY <1>1, <1>3, <1>4, <1>5, <1>9
<1> QED
  BY <1>6, <1>7, <1>8, <1>9

\* The files whose names come before that of i.
Before(files, i) == {j \in files : NameLess(j, i)}

LEMMA FilesFinite ==
  ASSUME NEW files \in SUBSET Numbers
  PROVE  /\ IsFiniteSet(files) /\ Cardinality(files) \in Nat
         /\ \A S \in SUBSET files : IsFiniteSet(S) /\ Cardinality(S) \in Nat
<1>1. IsFiniteSet(Numbers)
  <2>1. 0 \in Int /\ 98 \in Int
    OBVIOUS
  <2> QED
    BY <2>1, FS_Interval DEF Numbers
<1>2. IsFiniteSet(files)
  BY <1>1, FS_Subset
<1> QED
  BY <1>2, FS_Subset, FS_CardinalityType

\* Among some files there is one whose name comes first.
LEMMA FirstByName ==
  ASSUME NEW S \in SUBSET Numbers, S # {}
  PROVE  \E i \in S : \A j \in S : ~NameLess(j, i)
<1> DEFINE R == {ss \in Nat \X Nat : ss[1] < ss[2]}
           T == {NameRank(i) : i \in S}
<1>1. IsWellFoundedOn(R, Nat)
  BY NatLessThanWellFounded DEF OpToRel
<1>2. \A i \in S : i \in Numbers /\ NameRank(i) \in Nat
  BY NamesOrdered
<1>3. T \subseteq Nat /\ T # {}
  BY <1>2
<1>4. \E x \in T : \A y \in T : <<y, x>> \notin R
  BY <1>1, <1>3, WFMin
<1>5. PICK i \in S : \A j \in S : <<NameRank(j), NameRank(i)>> \notin R
  BY <1>4
<1> HIDE DEF T
<1>6. ASSUME NEW j \in S PROVE ~NameLess(j, i)
  <2>1. NameRank(j) \in Nat /\ NameRank(i) \in Nat /\ <<NameRank(j), NameRank(i)>> \notin R
    BY <1>2, <1>5
  <2>2. ~(NameRank(j) < NameRank(i))
    BY <2>1
  <2> QED
    BY <1>2, <2>2, NamesOrdered
<1> QED
  BY <1>6

\* A file that comes later has more files before it.
LEMMA LaterHasMore ==
  ASSUME NEW files \in SUBSET Numbers, NEW i \in files, NEW j \in files, NameLess(i, j)
  PROVE  Cardinality(Before(files, i)) < Cardinality(Before(files, j))
<1>1. Before(files, i) \subseteq Before(files, j)
  <2> SUFFICES ASSUME NEW h \in files, NameLess(h, i) PROVE NameLess(h, j)
    BY DEF Before
  <2>1. NameRank(h) \in Nat /\ NameRank(i) \in Nat /\ NameRank(j) \in Nat
    BY NamesOrdered
  <2>2. NameRank(h) < NameRank(i) /\ NameRank(i) < NameRank(j)
    BY NamesOrdered
  <2>3. NameRank(h) < NameRank(j)
    BY <2>1, <2>2
  <2> QED
    BY <2>3, NamesOrdered
<1>2. i \in Before(files, j) /\ i \notin Before(files, i)
  <2>1. NameRank(i) \in Nat /\ (NameLess(i, i) <=> NameRank(i) < NameRank(i))
    BY NamesOrdered
  <2> QED
    BY <2>1 DEF Before
<1>3. Before(files, j) \in SUBSET files /\ Before(files, i) \in SUBSET files
  BY DEF Before
<1> QED
  BY <1>1, <1>2, <1>3, FilesFinite, FS_Subset

\* For each number there is a file with one less before it.
LEMMA NthExists ==
  ASSUME NEW files \in SUBSET Numbers, NEW n \in 1 .. Cardinality(files)
  PROVE  \E i \in files : Cardinality(Before(files, i)) = n - 1
<1> DEFINE R == {ss \in Nat \X Nat : ss[1] < ss[2]}
           bad == {m \in 1 .. Cardinality(files) : \A i \in files : Cardinality(Before(files, i)) # m - 1}
<1>1. IsWellFoundedOn(R, Nat)
  BY NatLessThanWellFounded DEF OpToRel
<1>2. Cardinality(files) \in Nat /\ IsFiniteSet(files)
  BY FilesFinite
<1>3. \A i \in files : IsFiniteSet(Before(files, i)) /\ Cardinality(Before(files, i)) \in Nat
  BY FilesFinite DEF Before
<1> SUFFICES ASSUME bad # {} PROVE FALSE
  BY <1>2
<1>4. bad \subseteq Nat
  BY <1>2
<1>5. PICK m \in bad : \A l \in bad : <<l, m>> \notin R
  BY <1>1, <1>4, WFMin
<1>6. m \in 1 .. Cardinality(files) /\ \A i \in files : Cardinality(Before(files, i)) # m - 1
  OBVIOUS
<1>7. ASSUME NEW l \in 1 .. Cardinality(files), l < m
      PROVE  \E i \in files : Cardinality(Before(files, i)) = l - 1
  <2>1. l \in Nat /\ m \in Nat
    BY <1>2, <1>4
  <2>2. <<l, m>> \in R
    BY <1>7, <2>1
  <2>3. l \notin bad
    BY <1>5, <2>2
  <2> QED
    BY <2>3
<1> HIDE DEF bad
<1>8. CASE m = 1
  <2>1. files # {}
    BY <1>2, <1>6, FS_EmptySet
  <2>2. PICK i \in files : \A j \in files : ~NameLess(j, i)
    BY <2>1, FirstByName
  <2>3. Before(files, i) = {}
    BY <2>2 DEF Before
  <2>4. Cardinality(Before(files, i)) = 0
    BY <2>3, FS_EmptySet
  <2> QED
    BY <1>6, <1>8, <2>4
<1>9. CASE m # 1
  <2>1. m - 1 \in 1 .. Cardinality(files) /\ m - 1 < m
    BY <1>2, <1>6, <1>9
  <2>2. PICK i \in files : Cardinality(Before(files, i)) = (m - 1) - 1
    BY <1>7, <2>1
  <2> DEFINE After == {j \in files : NameLess(i, j)}
             both == Before(files, i) \cup {i}
  <2>3. i \notin Before(files, i)
    <3>1. NameRank(i) \in Nat /\ (NameLess(i, i) <=> NameRank(i) < NameRank(i))
      BY NamesOrdered
    <3> QED
      BY <3>1 DEF Before
  <2>4. Cardinality(both) = m - 1
    <3>1. IsFiniteSet(Before(files, i))
      BY <1>3
    <3>2. Cardinality(both) = Cardinality(Before(files, i)) + 1
      BY <2>3, <3>1, FS_AddElement
    <3> QED
      BY <1>2, <1>6, <2>2, <3>2
  <2>5. \A j \in files : j \in both \/ j \in After
    <3> SUFFICES ASSUME NEW j \in files PROVE j \in both \/ j \in After
      OBVIOUS
    <3>1. NameRank(i) \in Nat /\ NameRank(j) \in Nat
      BY NamesOrdered
    <3>2. CASE NameRank(j) < NameRank(i)
      BY <3>2, NamesOrdered DEF Before
    <3>3. CASE NameRank(j) = NameRank(i)
      <4>1. j = i
        BY <3>3, NamesOrdered
      <4> QED
        BY <4>1
    <3>4. CASE NameRank(i) < NameRank(j)
      BY <3>4, NamesOrdered
    <3> QED
      BY <3>1, <3>2, <3>3, <3>4
  <2>6. After # {}
    <3>1. SUFFICES ASSUME After = {} PROVE FALSE
      OBVIOUS
    <3>2. files = both
      BY <2>5, <3>1 DEF Before
    <3> QED
      BY <1>2, <1>6, <2>4, <3>2
  <2>7. PICK j \in After : \A h \in After : ~NameLess(h, j)
    BY <2>6, FirstByName
  <2>8. Before(files, j) = both
    <3>1. ASSUME NEW h \in both PROVE h \in Before(files, j)
      <4>1. h \in files /\ NameRank(h) \in Nat /\ NameRank(i) \in Nat /\ NameRank(j) \in Nat
        BY <3>1, NamesOrdered DEF Before
      <4>2. NameRank(h) <= NameRank(i)
        BY <3>1, <4>1, NamesOrdered DEF Before
      <4>3. NameRank(i) < NameRank(j)
        BY NamesOrdered
      <4>4. NameRank(h) < NameRank(j)
        BY <4>1, <4>2, <4>3
      <4> QED
        BY <4>1, <4>4, NamesOrdered DEF Before
    <3>2. ASSUME NEW h \in Before(files, j) PROVE h \in both
      BY <2>5, <2>7, <3>2 DEF Before
    <3> QED
      BY <3>1, <3>2
  <2> QED
    BY <1>6, <2>4, <2>8
<1> QED
  BY <1>8, <1>9

----------------------------------------------------------------------------
(* The list of the files.                                                  *)

\* Each file is at the place that its name gives it.
LEMMA ByNamePlaces ==
  ASSUME NEW files \in SUBSET Numbers
  PROVE  /\ ByName(files) \in Seq(files) /\ Len(ByName(files)) = Cardinality(files)
         /\ \A n \in 1 .. Len(ByName(files)) : Cardinality(Before(files, ByName(files)[n])) = n - 1
<1> DEFINE pick(n) == CHOOSE i \in files : Cardinality({j \in files : NameLess(j, i)}) = n - 1
<1>1. Cardinality(files) \in Nat
  BY FilesFinite
<1>2. ASSUME NEW n \in 1 .. Cardinality(files)
      PROVE  pick(n) \in files /\ Cardinality(Before(files, pick(n))) = n - 1
  <2>1. \E i \in files : Cardinality(Before(files, i)) = n - 1
    BY <1>2, NthExists
  <2>2. \E i \in files : Cardinality({j \in files : NameLess(j, i)}) = n - 1
    BY <2>1 DEF Before
  <2>3. pick(n) \in files /\ Cardinality({j \in files : NameLess(j, pick(n))}) = n - 1
    BY <2>2, Zenon
  <2> QED
    BY <2>3 DEF Before
<1>3. ByName(files) = [n \in 1 .. Cardinality(files) |-> pick(n)]
  BY DEF ByName
<1> HIDE DEF pick
<1> QED
  BY <1>1, <1>2, <1>3

\* A file that comes later in the list is another one, and has not the smaller name.
LEMMA ByNameOrder ==
  ASSUME NEW files \in SUBSET Numbers,
         NEW m \in 1 .. Len(ByName(files)), NEW n \in 1 .. Len(ByName(files)), m < n
  PROVE  /\ ByName(files)[m] # ByName(files)[n]
         /\ ~NameLess(ByName(files)[n], ByName(files)[m])
<1> DEFINE a == ByName(files)[m]
           b == ByName(files)[n]
<1>1. m \in Nat /\ n \in Nat
  BY ByNamePlaces, FilesFinite
<1>2. /\ a \in files /\ Cardinality(Before(files, a)) = m - 1
      /\ b \in files /\ Cardinality(Before(files, b)) = n - 1
  BY ByNamePlaces
<1> HIDE DEF a, b
<1>3. a # b
  BY <1>1, <1>2
<1>4. ASSUME NameLess(b, a) PROVE FALSE
  <2>1. Cardinality(Before(files, b)) < Cardinality(Before(files, a))
    BY <1>2, <1>4, LaterHasMore
  <2> QED
    BY <1>1, <1>2, <2>1
<1> QED
  BY <1>3, <1>4 DEF a, b

\* Below ten, names order as the numbers do.
LEMMA ByNameAscends ==
  ASSUME NEW files \in SUBSET Numbers, \A i \in files : i < 10
  PROVE  Ascending(ByName(files))
<1> SUFFICES ASSUME NEW m \in 1 .. Len(ByName(files)), NEW n \in 1 .. Len(ByName(files)), m < n
             PROVE  ByName(files)[m] < ByName(files)[n]
  BY DEF Ascending
<1> DEFINE a == ByName(files)[m]
           b == ByName(files)[n]
<1>1. a # b /\ ~NameLess(b, a)
  BY ByNameOrder
<1>2. a \in files /\ b \in files
  BY ByNamePlaces
<1> HIDE DEF a, b
<1>3. a \in Nat /\ b \in Nat /\ a < 10 /\ b < 10
  BY <1>2 DEF Numbers
<1>4. ~(b < a)
  BY <1>1, <1>3 DEF NameLess
<1>5. a < b
  BY <1>1, <1>3, <1>4
<1> QED
  BY <1>5 DEF a, b

\* The list leaves no file out.
LEMMA ByNameHasAll ==
  ASSUME NEW files \in SUBSET Numbers
  PROVE  Range(ByName(files)) = files
<1> DEFINE s == ByName(files)
           at == 1 .. Cardinality(files)
<1>1. /\ s \in Seq(files) /\ Len(s) = Cardinality(files) /\ DOMAIN s = at
      /\ Cardinality(files) \in Nat /\ IsFiniteSet(files)
  BY ByNamePlaces, FilesFinite
<1>2. Range(s) \in SUBSET files
  BY <1>1 DEF Range
<1>3. \A m, n \in at : m < n => s[m] # s[n]
  BY <1>1, ByNameOrder
<1> HIDE DEF s
<1>4. \A m, n \in at : s[m] = s[n] => m = n
  BY <1>1, <1>3
<1>5. s \in [at -> Range(s)] /\ IsInjective(s) /\ \A i \in Range(s) : \E n \in at : s[n] = i
  BY <1>1, <1>4 DEF Range, IsInjective
<1> HIDE DEF at
<1>6. IsFiniteSet(at) /\ Cardinality(at) = Cardinality(files)
  BY <1>1, FS_Interval DEF at
<1>7. s \in Bijection(at, Range(s))
  BY <1>5 DEF Bijection, Injection, Surjection, IsInjective
<1>8. Cardinality(Range(s)) = Cardinality(files)
  <2>1. ExistsBijection(at, Range(s))
    BY <1>7 DEF ExistsBijection
  <2> QED
    BY <1>6, <2>1, FS_Bijection
<1> QED
  BY <1>1, <1>2, <1>8, FS_Subset DEF s

\* Of some files one has the last name.
LEMMA LastByName ==
  ASSUME NEW files \in SUBSET Numbers, files # {}
  PROVE  \E i \in files : \A j \in files \ {i} : NameLess(j, i)
<1> DEFINE s == ByName(files)
           last == s[Len(s)]
<1>1. s \in Seq(files) /\ Range(s) = files /\ DOMAIN s = 1 .. Len(s) /\ Len(s) \in Nat
  BY ByNamePlaces, ByNameHasAll
<1>2. \A j \in files : \E n \in 1 .. Len(s) : s[n] = j
  BY <1>1 DEF Range
<1>3. Len(s) \in 1 .. Len(s)
  BY <1>1, <1>2
<1>4. last \in files
  BY <1>1, <1>3
<1>5. \A n \in 1 .. Len(s) : n < Len(s) => ~NameLess(last, s[n])
  BY <1>3, ByNameOrder
<1> HIDE DEF s
<1>6. ASSUME NEW j \in files, j # last PROVE NameLess(j, last)
  <2>1. PICK n \in 1 .. Len(s) : s[n] = j
    BY <1>2
  <2>2. n < Len(s)
    BY <1>1, <1>6, <2>1
  <2>3. ~NameLess(last, j)
    BY <1>5, <2>1, <2>2
  <2>4. last \in Numbers /\ j \in Numbers
    BY <1>4
  <2> HIDE DEF last
  <2>5. /\ NameRank(j) \in Nat /\ NameRank(last) \in Nat /\ NameRank(j) # NameRank(last)
        /\ ~(NameRank(last) < NameRank(j))
    BY <1>6, <2>3, <2>4, NamesOrdered
  <2>6. NameRank(j) < NameRank(last)
    BY <2>5
  <2> QED
    BY <2>4, <2>6, NamesOrdered
<1> QED
  BY <1>4, <1>6

----------------------------------------------------------------------------
(* Lists in the order of their numbers.                                    *)

\* A table that was just written comes last.
LEMMA AppendAscends ==
  ASSUME NEW ids \in SUBSET Nat, NEW s \in Seq(ids), NEW i \in ids,
         Ascending(s), \A n \in 1 .. Len(s) : s[n] < i
  PROVE  Ascending(Append(s, i))
<1>1. /\ Len(Append(s, i)) = Len(s) + 1 /\ Len(s) \in Nat
      /\ \A n \in 1 .. Len(s) : Append(s, i)[n] = s[n]
      /\ Append(s, i)[Len(s) + 1] = i
  OBVIOUS
<1> QED
  BY <1>1 DEF Ascending

\* Two lists of the same numbers in ascending order agree, place by place.
LEMMA AscendingAgree ==
  ASSUME NEW a \in Seq(Nat), NEW b \in Seq(Nat), Ascending(a), Ascending(b), Range(a) = Range(b)
  PROVE  \A n \in 1 .. Len(a) : n \in 1 .. Len(b) /\ a[n] = b[n]
<1> DEFINE R == {ss \in Nat \X Nat : ss[1] < ss[2]}
           bad == {n \in 1 .. Len(a) : ~(n \in 1 .. Len(b) /\ a[n] = b[n])}
<1>1. /\ Len(a) \in Nat /\ DOMAIN a = 1 .. Len(a) /\ \A n \in 1 .. Len(a) : a[n] \in Nat
      /\ Len(b) \in Nat /\ DOMAIN b = 1 .. Len(b) /\ \A n \in 1 .. Len(b) : b[n] \in Nat
  OBVIOUS
<1>2. /\ \A n \in 1 .. Len(a) : \E m \in 1 .. Len(b) : b[m] = a[n]
      /\ \A n \in 1 .. Len(b) : \E m \in 1 .. Len(a) : a[m] = b[n]
  <2>1. \A n \in 1 .. Len(a) : a[n] \in Range(b)
    BY <1>1 DEF Range
  <2>2. \A n \in 1 .. Len(b) : b[n] \in Range(a)
    BY <1>1 DEF Range
  <2> QED
    BY <1>1, <2>1, <2>2 DEF Range
<1> SUFFICES ASSUME bad # {} PROVE FALSE
  OBVIOUS
<1>3. IsWellFoundedOn(R, Nat)
  BY NatLessThanWellFounded DEF OpToRel
<1>4. PICK n \in bad : \A m \in bad : <<m, n>> \notin R
  BY <1>1, <1>3, WFMin
<1>5. n \in 1 .. Len(a) /\ ~(n \in 1 .. Len(b) /\ a[n] = b[n])
  OBVIOUS
<1>6. ASSUME NEW m \in 1 .. Len(a), m < n
      PROVE  m \in 1 .. Len(b) /\ a[m] = b[m]
  <2>1. <<m, n>> \in R
    BY <1>1, <1>5, <1>6
  <2>2. m \notin bad
    BY <1>4, <2>1
  <2> QED
    BY <2>2
<1> HIDE DEF bad, R
<1>7. PICK i \in 1 .. Len(b) : b[i] = a[n]
  BY <1>2, <1>5
<1>8. n \in Nat /\ i \in Nat
  BY <1>1, <1>5
<1>9. ~(i < n)
  <2> SUFFICES ASSUME i < n PROVE FALSE
    OBVIOUS
  <2>1. i \in 1 .. Len(a)
    BY <1>1, <1>5, <1>8
  <2>2. a[i] < a[n]
    BY <1>5, <2>1 DEF Ascending
  <2>3. a[i] = a[n] /\ a[n] \in Nat
    BY <1>1, <1>5, <1>6, <1>7, <2>1
  <2> QED
    BY <2>2, <2>3
<1>10. n \in 1 .. Len(b) /\ n < i
  <2>1. n <= i
    BY <1>8, <1>9
  <2>2. n \in 1 .. Len(b)
    BY <1>1, <1>5, <1>8, <2>1
  <2>3. i # n
    BY <1>5, <1>7, <2>2
  <2> QED
    BY <1>8, <2>1, <2>2, <2>3
<1>11. PICK j \in 1 .. Len(a) : a[j] = b[n]
  BY <1>2, <1>10
<1>12. j \in Nat
  BY <1>1
<1>13. ~(j < n)
  <2> SUFFICES ASSUME j < n PROVE FALSE
    OBVIOUS
  <2>1. j \in 1 .. Len(b) /\ a[j] = b[j]
    BY <1>6
  <2>2. b[j] < b[n]
    BY <1>10, <2>1 DEF Ascending
  <2>3. b[j] = b[n] /\ b[n] \in Nat
    BY <1>1, <1>10, <1>11, <2>1
  <2> QED
    BY <2>2, <2>3
<1>14. b[n] < a[n] /\ a[n] \in Nat /\ b[n] \in Nat
  BY <1>1, <1>5, <1>7, <1>10 DEF Ascending
<1>15. j # n
  BY <1>11, <1>14
<1>16. n < j
  BY <1>8, <1>12, <1>13, <1>15
<1>17. a[n] < a[j]
  BY <1>5, <1>16 DEF Ascending
<1> QED
  BY <1>11, <1>14, <1>17

\* So they are the same list.
LEMMA AscendingSame ==
  ASSUME NEW a \in Seq(Nat), NEW b \in Seq(Nat), Ascending(a), Ascending(b), Range(a) = Range(b)
  PROVE  a = b
<1>1. /\ \A n \in 1 .. Len(a) : n \in 1 .. Len(b) /\ a[n] = b[n]
      /\ \A n \in 1 .. Len(b) : n \in 1 .. Len(a) /\ b[n] = a[n]
  BY AscendingAgree
<1>2. Len(a) \in Nat /\ Len(b) \in Nat
  OBVIOUS
<1>3. Len(a) = Len(b)
  <2>1. CASE Len(a) > Len(b)
    <3>1. Len(a) \in 1 .. Len(a) /\ Len(a) \notin 1 .. Len(b)
      BY <1>2, <2>1
    <3> QED
      BY <1>1, <3>1
  <2>2. CASE Len(b) > Len(a)
    <3>1. Len(b) \in 1 .. Len(b) /\ Len(b) \notin 1 .. Len(a)
      BY <1>2, <2>2
    <3> QED
      BY <1>1, <3>1
  <2> QED
    BY <1>2, <2>1, <2>2
<1> QED
  BY <1>1, <1>3

\* The last of some places has the greatest number.
LEMMA LastPlace ==
  ASSUME NEW s \in Seq(Nat), Ascending(s), NEW at \in SUBSET (1 .. Len(s)), at # {}
  PROVE  Max(at) \in at /\ \A n \in at : s[n] <= s[Max(at)]
<1> DEFINE last == Max(at)
<1>1. Len(s) \in Nat /\ at \in SUBSET (0 .. Len(s))
  OBVIOUS
<1>2. last \in at /\ \A n \in at : n <= last
  BY <1>1, LastIsGreatest
<1> HIDE DEF last
<1>3. ASSUME NEW n \in at PROVE s[n] <= s[last]
  <2>1. n \in 1 .. Len(s) /\ last \in 1 .. Len(s) /\ n \in Nat /\ last \in Nat /\ n <= last
    BY <1>1, <1>2
  <2>2. s[n] \in Nat /\ s[last] \in Nat
    BY <2>1
  <2>3. CASE n = last
    BY <2>2, <2>3
  <2>4. CASE n # last
    <3>1. n < last
      BY <2>1, <2>4
    <3>2. s[n] < s[last]
      BY <2>1, <3>1 DEF Ascending
    <3> QED
      BY <2>2, <3>2
  <2> QED
    BY <2>3, <2>4
<1> QED
  BY <1>2, <1>3 DEF last
=============================================================================
