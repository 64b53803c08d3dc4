--------------------------- MODULE LRUCacheProofs ---------------------------
(***************************************************************************)
(* Proofs about LRUCache, for any keys, entry sizes and capacity: list,    *)
(* map and byte count agree, the capacity is kept, and eviction goes from  *)
(* the back of the list, no further than needed.                           *)
(***************************************************************************)
EXTENDS LRUCache, DataLemmas

----------------------------------------------------------------------------
(* Lists.                                                                  *)

\* Taking a key out of a list takes out one place that has it.
LEMMA RemoveFirstShape ==
  ASSUME NEW S, NEW list \in Seq(S), NEW k,
         RemoveFirst(list, k) # list \/ k \in ToSet(list)
  PROVE  \E p \in 1 .. Len(list) :
           /\ list[p] = k
           /\ RemoveFirst(list, k) = RemoveAt(list, p)
           /\ RemoveFirst(list, k) \in Seq(S)
           /\ Len(RemoveFirst(list, k)) = Len(list) - 1
           /\ \A n \in 1 .. Len(list) - 1 :
                RemoveFirst(list, k)[n] = IF n < p THEN list[n] ELSE list[n + 1]
<1> DEFINE at == {n \in 1 .. Len(list) : list[n] = k}
           p == Min(at)
<1>1. at # {}
  BY DEF RemoveFirst, ToSet
<1>2. at \in SUBSET (1 .. Len(list)) /\ Len(list) \in Nat
  OBVIOUS
<1>3. p \in at
  <2> HIDE DEF at
  <2> QED
    BY <1>1, <1>2, FirstPosition
<1>4. RemoveFirst(list, k) = RemoveAt(list, p)
  BY <1>1 DEF RemoveFirst, SelectInSeq
<1>5. p \in 1 .. Len(list) /\ list[p] = k
  BY <1>3
<1> HIDE DEF p
<1> QED
  BY <1>4, <1>5, RemoveAtShape

\* The keys of a list are finitely many.
LEMMA ListFinite ==
  ASSUME NEW S, NEW list \in Seq(S)
  PROVE  IsFiniteSet(ToSet(list)) /\ ToSet(list) \subseteq S
<1>1. IsFiniteSet(1 .. Len(list))
  BY FS_Interval
<1>2. list \in Surjection(1 .. Len(list), ToSet(list))
  BY DEF Surjection, ToSet
<1> QED
  BY <1>1, <1>2, FS_Surjection DEF ToSet

LEMMA WithoutKey ==
  ASSUME NEW S, NEW list \in Seq(S), IsInjective(list), NEW k
  PROVE  /\ RemoveFirst(list, k) \in Seq(S)
         /\ IsInjective(RemoveFirst(list, k))
         /\ ToSet(RemoveFirst(list, k)) = ToSet(list) \ {k}
<1>1. CASE RemoveFirst(list, k) = list /\ k \notin ToSet(list)
  BY <1>1
<1>2. CASE RemoveFirst(list, k) # list \/ k \in ToSet(list)
  <2>1. PICK p \in 1 .. Len(list) : list[p] = k /\ RemoveFirst(list, k) = RemoveAt(list, p)
    BY <1>2, RemoveFirstShape
  <2> QED
    BY <2>1, RemoveAtShape, RemoveAtLeaves
<1> QED
  BY <1>1, <1>2

\* The front and the back part of a list without repetitions share nothing.
LEMMA ListParts ==
  ASSUME NEW S, NEW list \in Seq(S), IsInjective(list), NEW n \in 0 .. Len(list)
  PROVE  /\ SubSeq(list, 1, n) \in Seq(S) /\ Len(SubSeq(list, 1, n)) = n
         /\ \A i \in 1 .. n : SubSeq(list, 1, n)[i] = list[i]
         /\ IsInjective(SubSeq(list, 1, n))
         /\ ToSet(SubSeq(list, 1, n)) = {list[i] : i \in 1 .. n}
         /\ ToSet(SubSeq(list, n + 1, Len(list))) = ToSet(list) \ ToSet(SubSeq(list, 1, n))
<1>1. Len(list) \in Nat /\ DOMAIN list = 1 .. Len(list)
  OBVIOUS
<1>2. \A i, j \in 1 .. Len(list) : list[i] = list[j] => i = j
  BY <1>1 DEF IsInjective
<1> DEFINE front == SubSeq(list, 1, n)
           back == SubSeq(list, n + 1, Len(list))
<1>3. /\ front \in Seq(S) /\ Len(front) = n /\ DOMAIN front = 1 .. n
      /\ \A i \in 1 .. n : front[i] = list[i]
  BY <1>1
<1>4. /\ DOMAIN back = 1 .. Len(list) - n
      /\ \A i \in 1 .. Len(list) - n : back[i] = list[i + n]
  BY <1>1
<1> HIDE DEF front, back
<1>5. IsInjective(front)
  <2>1. \A i \in 1 .. n : i \in 1 .. Len(list)
    BY <1>1
  <2> QED
    BY <1>2, <1>3, <2>1 DEF IsInjective
<1>6. ToSet(front) = {list[i] : i \in 1 .. n}
  BY <1>3 DEF ToSet
<1>7. ASSUME NEW i \in 1 .. Len(list) - n
      PROVE  back[i] \in ToSet(list) \ ToSet(front)
  <2>1. i + n \in 1 .. Len(list) /\ \A j \in 1 .. n : j \in 1 .. Len(list) /\ j # i + n
    BY <1>1
  <2> QED
    BY <1>1, <1>2, <1>4, <1>6, <2>1 DEF ToSet
<1>8. ASSUME NEW i \in 1 .. Len(list), list[i] \notin ToSet(front)
      PROVE  list[i] \in ToSet(back)
  <2>1. i \notin 1 .. n
    BY <1>6, <1>8
  <2>2. i - n \in 1 .. Len(list) - n /\ (i - n) + n = i
    BY <1>1, <2>1
  <2>3. back[i - n] = list[i]
    BY <1>4, <2>2
  <2> QED
    BY <1>4, <2>2, <2>3 DEF ToSet
<1>9. ToSet(back) = ToSet(list) \ ToSet(front)
  <2>1. ToSet(back) \subseteq ToSet(list) \ ToSet(front)
    BY <1>4, <1>7 DEF ToSet
  <2>2. ToSet(list) \ ToSet(front) \subseteq ToSet(back)
    BY <1>1, <1>8 DEF ToSet
  <2> QED
    BY <2>1, <2>2
<1> QED
  BY <1>3, <1>5, <1>6, <1>9 DEF front, back

----------------------------------------------------------------------------
(* Bytes.                                                                  *)

LEMMA BytesNat ==
  ASSUME NEW keys, IsFiniteSet(keys), NEW entries, \A k \in keys : entries[k] \in Values
  PROVE  BytesOf(keys, entries) \in Nat
<1>1. \A k \in keys : [j \in keys |-> CacheBytes[entries[j]]][k] \in Nat
  BY CacheAssumption
<1> QED
  BY <1>1, SumNat DEF BytesOf

LEMMA BytesSame ==
  ASSUME NEW keys, IsFiniteSet(keys), NEW entries, NEW others, \A k \in keys : entries[k] = others[k]
  PROVE  BytesOf(keys, entries) = BytesOf(keys, others)
<1>1. \A k \in keys : [j \in keys |-> CacheBytes[entries[j]]][k] = [j \in keys |-> CacheBytes[others[j]]][k]
  OBVIOUS
<1> QED
  BY <1>1, SumSame DEF BytesOf

LEMMA BytesSplit ==
  ASSUME NEW keys, IsFiniteSet(keys), NEW part \in SUBSET keys,
         NEW entries, \A k \in keys : entries[k] \in Values
  PROVE  BytesOf(keys, entries) = BytesOf(part, entries) + BytesOf(keys \ part, entries)
<1> DEFINE rest == keys \ part
           f == [j \in keys |-> CacheBytes[entries[j]]]
           g == [j \in part |-> CacheBytes[entries[j]]]
           h == [j \in rest |-> CacheBytes[entries[j]]]
<1>1. IsFiniteSet(part) /\ IsFiniteSet(rest) /\ part \cap rest = {} /\ part \cup rest = keys
  BY FS_Subset, FS_Difference
<1>2. \A k \in part \cup rest : f[k] \in Nat
  BY CacheAssumption
<1>3. (\A k \in part : f[k] = g[k]) /\ (\A k \in rest : f[k] = h[k])
  OBVIOUS
<1>4. /\ BytesOf(keys, entries) = SumFunctionOnSet(f, part \cup rest)
      /\ BytesOf(part, entries) = SumFunctionOnSet(g, part)
      /\ BytesOf(rest, entries) = SumFunctionOnSet(h, rest)
  BY <1>1 DEF BytesOf
<1> HIDE DEF rest, f, g, h
<1>5. SumFunctionOnSet(f, part) = SumFunctionOnSet(g, part)
  BY <1>1, <1>3, SumSame
<1>6. SumFunctionOnSet(f, rest) = SumFunctionOnSet(h, rest)
  BY <1>1, <1>3, SumSame
<1>7. SumFunctionOnSet(f, part \cup rest) = SumFunctionOnSet(f, part) + SumFunctionOnSet(f, rest)
  BY <1>1, <1>2, SumDisjoint
<1> QED
  BY <1>4, <1>5, <1>6, <1>7 DEF rest

LEMMA BytesOne ==
  ASSUME NEW k, NEW entries, entries[k] \in Values
  PROVE  BytesOf({k}, entries) = CacheBytes[entries[k]]
<1> DEFINE f == [j \in {k} |-> CacheBytes[entries[j]]]
<1>1. \A j \in {k} : f[j] \in Nat /\ f[j] = CacheBytes[entries[k]]
  BY CacheAssumption
<1>2. IsFiniteSet({k}) /\ {k} \ {k} = {}
  BY FS_Singleton
<1>3. BytesOf({k}, entries) = SumFunctionOnSet(f, {k})
  BY DEF BytesOf
<1> HIDE DEF f
<1>4. SumFunctionOnSet(f, {k}) = f[k] + SumFunctionOnSet(f, {k} \ {k})
  BY <1>1, <1>2, SumElement
<1> QED
  BY <1>1, <1>2, <1>3, <1>4, SumEmpty

----------------------------------------------------------------------------
(* Making room.                                                            *)

\* What stays is a front part of the list: as long as it is not empty the new
\* value fits beside it, and it would not fit beside one entry more.
LEMMA SurvivorsShape ==
  ASSUME NEW list \in Seq(Keys), IsInjective(list),
         \A n \in 1 .. Len(list) : cached[list[n]] \in Values,
         NEW v \in Values
  PROVE  LET size == BytesOf(ToSet(list), cached)
             Part(n) == SubSeq(list, 1, n)
         IN \E kept \in 0 .. Len(list) :
              /\ Survivors(list, size, v) = Part(kept)
              /\ kept = 0 \/ BytesOf(ToSet(Part(kept)), cached) + CacheBytes[v] <= CacheCap
              /\ \A n \in kept + 1 .. Len(list) :
                   BytesOf(ToSet(Part(n)), cached) + CacheBytes[v] > CacheCap
<1> DEFINE size == BytesOf(ToSet(list), cached)
           Part(n) == SubSeq(list, 1, n)
           Left(n) == size - BytesOf(ToSet(SubSeq(list, n + 1, Len(list))), cached)
           Fits(n) == n = 0 \/ Left(n) + CacheBytes[v] <= CacheCap
           fitting == {n \in 0 .. Len(list) : Fits(n)}
           kept == CHOOSE n \in 0 .. Len(list) : Fits(n) /\ \A i \in n + 1 .. Len(list) : ~Fits(i)
<1>1. Len(list) \in Nat /\ IsFiniteSet(ToSet(list)) /\ \A k \in ToSet(list) : cached[k] \in Values
  BY ListFinite DEF ToSet
<1>2. ASSUME NEW n \in 0 .. Len(list)
      PROVE  Left(n) = BytesOf(ToSet(Part(n)), cached) /\ Left(n) \in Nat
  <2>1. ToSet(SubSeq(list, n + 1, Len(list))) = ToSet(list) \ ToSet(Part(n))
    BY ListParts
  <2>2. ToSet(Part(n)) \in SUBSET ToSet(list)
    <3>1. \A i \in 1 .. n : i \in DOMAIN list
      BY <1>1
    <3>2. ToSet(Part(n)) = {list[i] : i \in 1 .. n}
      BY ListParts
    <3> QED
      BY <3>1, <3>2 DEF ToSet
  <2> DEFINE front == ToSet(Part(n))
             back == ToSet(list) \ front
  <2> HIDE DEF Part
  <2>3. size = BytesOf(front, cached) + BytesOf(back, cached)
    BY <1>1, <2>2, BytesSplit
  <2>4. IsFiniteSet(front) /\ IsFiniteSet(back)
    BY <1>1, <2>2, FS_Subset
  <2>5. BytesOf(front, cached) \in Nat /\ BytesOf(back, cached) \in Nat
    BY <1>1, <2>2, <2>4, BytesNat
  <2>6. Left(n) = size - BytesOf(back, cached)
    BY <2>1
  <2> HIDE DEF front, back, size, Left
  <2>7. Left(n) = BytesOf(front, cached) /\ Left(n) \in Nat
    BY <2>3, <2>5, <2>6
  <2> QED
    BY <2>7 DEF front
<1>3. kept \in 0 .. Len(list) /\ Fits(kept) /\ \A i \in kept + 1 .. Len(list) : ~Fits(i)
  <2>1. fitting \in SUBSET (0 .. Len(list)) /\ fitting # {}
    <3>1. 0 \in fitting
      BY <1>1
    <3> QED
      BY <3>1
  <2>2. Max(fitting) \in fitting /\ \A j \in fitting : j <= Max(fitting)
    <3> HIDE DEF fitting
    <3> QED
      BY <1>1, <2>1, LastIsGreatest
  <2> HIDE DEF Fits
  <2>3. PICK m \in 0 .. Len(list) : Fits(m) /\ \A j \in 0 .. Len(list) : Fits(j) => j <= m
    BY <2>2
  <2>4. ASSUME NEW i \in m + 1 .. Len(list) PROVE ~Fits(i)
    <3>1. i \in 0 .. Len(list) /\ ~(i <= m)
      BY <1>1
    <3> QED
      BY <2>3, <3>1
  <2> QED
    BY <2>3, <2>4
<1>4. Survivors(list, size, v) = Part(kept)
  BY DEF Survivors
<1> HIDE DEF kept, Left, Part, size
<1>5. kept = 0 \/ BytesOf(ToSet(Part(kept)), cached) + CacheBytes[v] <= CacheCap
  BY <1>2, <1>3
<1>6. ASSUME NEW n \in kept + 1 .. Len(list)
      PROVE  BytesOf(ToSet(Part(n)), cached) + CacheBytes[v] > CacheCap
  <2>1. n \in 0 .. Len(list)
    BY <1>1, <1>3
  <2>2. ~(Left(n) + CacheBytes[v] <= CacheCap)
    BY <1>3
  <2> QED
    BY <1>2, <2>1, <2>2, CacheAssumption
<1> QED
  BY <1>3, <1>4, <1>5, <1>6 DEF Part, size

----------------------------------------------------------------------------
(* Type, consistency and capacity.                                         *)

CacheInv == CacheTypeOK /\ CacheConsistent /\ CacheBounded

\* The size without an entry is the size of the others.
LEMMA SizeWithoutIs ==
  ASSUME CacheTypeOK, CacheConsistent, NEW k \in Keys
  PROVE  /\ SizeWithout(k) = BytesOf(ToSet(lru) \ {k}, cached)
         /\ SizeWithout(k) \in Nat
         /\ k \in ToSet(lru) => SizeWithout(k) + CacheBytes[cached[k]] = cacheSize
<1>1. IsFiniteSet(ToSet(lru)) /\ \A j \in ToSet(lru) : cached[j] \in Values
  BY ListFinite DEF CacheTypeOK, CacheConsistent
<1>2. CASE k \notin ToSet(lru)
  <2>1. ToSet(lru) \ {k} = ToSet(lru)
    BY <1>2
  <2>2. SizeWithout(k) = cacheSize - 0
    BY <1>2 DEF SizeWithout, CacheConsistent
  <2>3. cacheSize \in Nat /\ cacheSize = BytesOf(ToSet(lru), cached)
    BY DEF CacheTypeOK, CacheConsistent
  <2>4. SizeWithout(k) = cacheSize
    BY <2>2, <2>3
  <2> QED
    BY <1>2, <2>1, <2>3, <2>4
<1>3. CASE k \in ToSet(lru)
  <2>1. cached[k] \in Values /\ cached[k] # Missing /\ CacheBytes[cached[k]] \in Nat
    BY <1>1, <1>3, EntriesAssumption, CacheAssumption DEF Contents
  <2>2. BytesOf(ToSet(lru), cached) = BytesOf({k}, cached) + BytesOf(ToSet(lru) \ {k}, cached)
    BY <1>1, <1>3, BytesSplit
  <2>3. BytesOf({k}, cached) = CacheBytes[cached[k]]
    BY <2>1, BytesOne
  <2>4. BytesOf(ToSet(lru) \ {k}, cached) \in Nat
    BY <1>1, FS_Subset, BytesNat
  <2>5. SizeWithout(k) = cacheSize - CacheBytes[cached[k]]
    BY <2>1 DEF SizeWithout
  <2> QED
    BY <2>1, <2>2, <2>3, <2>4, <2>5 DEF CacheConsistent
<1> QED
  BY <1>2, <1>3

\* What Put does: the new entry comes before a front part of the others.
LEMMA CachePutShape ==
  ASSUME CacheTypeOK, CacheConsistent, NEW k \in Keys, NEW v \in Values, CachePut(k, v)
  PROVE  LET others == RemoveFirst(lru, k)
             Part(n) == SubSeq(others, 1, n)
         IN \E kept \in 0 .. Len(others) :
              /\ lru' = <<k>> \o Part(kept)
              /\ cached' = [j \in Keys |-> IF j = k THEN v
                                           ELSE IF j \in ToSet(Part(kept)) THEN cached[j] ELSE Missing]
              /\ cacheSize' = BytesOf(ToSet(Part(kept)), cached) + CacheBytes[v]
              /\ kept = 0 \/ cacheSize' <= CacheCap
              /\ \A n \in kept + 1 .. Len(others) :
                   BytesOf(ToSet(Part(n)), cached) + CacheBytes[v] > CacheCap
<1> DEFINE others == RemoveFirst(lru, k)
           Part(n) == SubSeq(others, 1, n)
           size == BytesOf(ToSet(others), cached)
<1>1. others \in Seq(Keys) /\ IsInjective(others) /\ ToSet(others) = ToSet(lru) \ {k}
  BY WithoutKey DEF CacheTypeOK, CacheConsistent
<1>2. \A j \in ToSet(others) : cached[j] \in Values
  BY <1>1 DEF CacheTypeOK, CacheConsistent
<1>3. SizeWithout(k) = size
  BY <1>1, SizeWithoutIs
<1>4. \A n \in 1 .. Len(others) : cached[others[n]] \in Values
  <2> HIDE DEF others
  <2> QED
    BY <1>1, <1>2 DEF ToSet
<1>5. PICK kept \in 0 .. Len(others) :
        /\ Survivors(others, size, v) = Part(kept)
        /\ kept = 0 \/ BytesOf(ToSet(Part(kept)), cached) + CacheBytes[v] <= CacheCap
        /\ \A n \in kept + 1 .. Len(others) :
             BytesOf(ToSet(Part(n)), cached) + CacheBytes[v] > CacheCap
  <2> HIDE DEF others
  <2> QED
    BY <1>1, <1>4, SurvivorsShape
<1>6. /\ lru' = <<k>> \o Part(kept)
      /\ cached' = [j \in Keys |-> IF j = k THEN v
                                   ELSE IF j \in ToSet(Part(kept)) THEN cached[j] ELSE Missing]
      /\ cacheSize' = size - BytesOf(ToSet(others) \ ToSet(Part(kept)), cached) + CacheBytes[v]
  BY <1>3, <1>5 DEF CachePut
<1>7. cacheSize' = BytesOf(ToSet(Part(kept)), cached) + CacheBytes[v]
  <2>1. IsFiniteSet(ToSet(others)) /\ ToSet(Part(kept)) \in SUBSET ToSet(others)
    <3> HIDE DEF others
    <3>1. \A i \in 1 .. kept : i \in DOMAIN others
      BY <1>1
    <3>2. ToSet(Part(kept)) = {others[i] : i \in 1 .. kept}
      BY <1>1, ListParts
    <3>3. ToSet(Part(kept)) \subseteq ToSet(others)
      BY <3>1, <3>2 DEF ToSet
    <3> QED
      BY <1>1, <3>3, ListFinite
  <2> DEFINE stay == ToSet(Part(kept))
             gone == ToSet(others) \ stay
  <2>2. cacheSize' = size - BytesOf(gone, cached) + CacheBytes[v]
    BY <1>6
  <2> HIDE DEF Part, others
  <2>3. size = BytesOf(stay, cached) + BytesOf(gone, cached)
    BY <1>2, <2>1, BytesSplit
  <2>4. BytesOf(stay, cached) \in Nat /\ BytesOf(gone, cached) \in Nat
    <3>1. IsFiniteSet(stay) /\ IsFiniteSet(gone)
      BY <2>1, FS_Subset
    <3> QED
      BY <1>2, <2>1, <3>1, BytesNat
  <2>5. CacheBytes[v] \in Nat
    BY CacheAssumption
  <2> HIDE DEF stay, gone, size
  <2>6. cacheSize' = BytesOf(stay, cached) + CacheBytes[v]
    BY <2>2, <2>3, <2>4, <2>5
  <2> QED
    BY <2>6 DEF stay
<1> HIDE DEF others
<1> QED
  BY <1>5, <1>6, <1>7 DEF others

LEMMA ConsList ==
  ASSUME NEW S, NEW k \in S, NEW list \in Seq(S), IsInjective(list), k \notin ToSet(list)
  PROVE  /\ <<k>> \o list \in Seq(S) /\ IsInjective(<<k>> \o list)
         /\ ToSet(<<k>> \o list) = ToSet(list) \cup {k}
         /\ Len(<<k>> \o list) = Len(list) + 1
         /\ \A n \in 1 .. Len(list) : (<<k>> \o list)[n + 1] = list[n]
<1> DEFINE longer == <<k>> \o list
<1>1. Len(list) \in Nat /\ DOMAIN list = 1 .. Len(list)
  OBVIOUS
<1>2. <<k>> \in Seq(S) /\ Len(<<k>>) = 1 /\ <<k>>[1] = k
  OBVIOUS
<1>3. /\ longer \in Seq(S) /\ Len(longer) = 1 + Len(list)
      /\ \A n \in 1 .. 1 : longer[n] = <<k>>[n]
      /\ \A n \in 1 + 1 .. 1 + Len(list) : longer[n] = list[n - 1]
  <2>1. /\ longer \in Seq(S) /\ Len(longer) = Len(<<k>>) + Len(list)
        /\ \A n \in 1 .. Len(<<k>>) : longer[n] = <<k>>[n]
        /\ \A n \in Len(<<k>>) + 1 .. Len(<<k>>) + Len(list) : longer[n] = list[n - Len(<<k>>)]
    BY <1>2, ConcatAt
  <2> HIDE DEF longer
  <2> QED
    BY <1>2, <2>1
<1> HIDE DEF longer
<1>4. longer[1] = k /\ DOMAIN longer = 1 .. Len(list) + 1
  BY <1>1, <1>2, <1>3
<1>5. \A n \in 1 .. Len(list) : longer[n + 1] = list[n]
  <2>1. ASSUME NEW n \in 1 .. Len(list) PROVE longer[n + 1] = list[n]
    <3>1. n + 1 \in 1 + 1 .. 1 + Len(list) /\ (n + 1) - 1 = n
      BY <1>1
    <3> QED
      BY <1>3, <3>1
  <2> QED
    BY <2>1
<1>6. ASSUME NEW m \in 1 .. Len(list) + 1
      PROVE  m = 1 \/ \E n \in 1 .. Len(list) : m = n + 1
  <2>1. m = 1 \/ (m - 1 \in 1 .. Len(list) /\ m = (m - 1) + 1)
    BY <1>1
  <2> QED
    BY <2>1
<1>7. \A n \in 1 .. Len(list) : list[n] \in ToSet(list) /\ list[n] # k
  BY <1>1 DEF ToSet
<1>8. IsInjective(longer)
  <2>1. ASSUME NEW m \in 1 .. Len(list) + 1, NEW n \in 1 .. Len(list) + 1, longer[m] = longer[n]
        PROVE  m = n
    <3>1. \A i, j \in 1 .. Len(list) : list[i] = list[j] => i = j
      BY <1>1 DEF IsInjective
    <3> QED
      BY <1>4, <1>5, <1>6, <1>7, <2>1, <3>1
  <2> QED
    BY <1>4, <2>1 DEF IsInjective
<1>9. ToSet(longer) = ToSet(list) \cup {k}
  <2>1. ASSUME NEW m \in 1 .. Len(list) + 1 PROVE longer[m] \in ToSet(list) \cup {k}
    BY <1>4, <1>5, <1>6, <1>7
  <2>2. ASSUME NEW n \in 1 .. Len(list) PROVE list[n] \in ToSet(longer)
    <3>1. n + 1 \in 1 .. Len(list) + 1
      BY <1>1
    <3> QED
      BY <1>4, <1>5, <3>1 DEF ToSet
  <2>3. k \in ToSet(longer)
    <3>1. 1 \in 1 .. Len(list) + 1
      BY <1>1
    <3> QED
      BY <1>4, <3>1 DEF ToSet
  <2>4. ToSet(longer) \subseteq ToSet(list) \cup {k}
    BY <1>4, <2>1 DEF ToSet
  <2>5. ToSet(list) \subseteq ToSet(longer)
    BY <1>1, <2>2 DEF ToSet
  <2> QED
    BY <2>3, <2>4, <2>5
<1>10. Len(longer) = Len(list) + 1
  BY <1>1, <1>3
<1> QED
  BY <1>3, <1>5, <1>8, <1>9, <1>10 DEF longer

LEMMA HitStep ==
  ASSUME CacheInv, NEW k \in Keys, CacheHit(k)
  PROVE  CacheInv'
<1> DEFINE others == RemoveFirst(lru, k)
<1>1. others \in Seq(Keys) /\ IsInjective(others) /\ ToSet(others) = ToSet(lru) \ {k}
  BY WithoutKey DEF CacheInv, CacheTypeOK, CacheConsistent
<1>2. k \in ToSet(lru) /\ lru' = <<k>> \o others /\ cached' = cached /\ cacheSize' = cacheSize
  BY DEF CacheHit, CacheInv, CacheConsistent
<1>3. CacheTypeOK /\ CacheConsistent /\ CacheBounded /\ lru \in Seq(Keys)
  BY DEF CacheInv, CacheTypeOK
<1> HIDE DEF others
<1>4. lru' \in Seq(Keys) /\ IsInjective(lru') /\ ToSet(lru') = ToSet(others) \cup {k}
  BY <1>1, <1>2, ConsList
<1>5. ToSet(lru') = ToSet(lru)
  BY <1>1, <1>2, <1>4
<1>6. CacheTypeOK' /\ CacheConsistent'
  BY <1>2, <1>3, <1>4, <1>5 DEF CacheTypeOK, CacheConsistent, BytesOf
<1>7. CacheBounded'
  <2>1. CASE cacheSize <= CacheCap
    BY <1>2, <2>1 DEF CacheBounded
  <2>2. CASE Len(lru) = 1
    <3>1. ToSet(lru) = {lru[1]} /\ 1 \in 1 .. Len(lru)
      BY <1>3, <2>2 DEF ToSet
    <3>2. others = <<>>
      <4>1. ToSet(others) = {}
        BY <1>1, <1>2, <3>1
      <4> QED
        BY <1>1, <4>1 DEF ToSet
    <3> QED
      BY <1>2, <3>2 DEF CacheBounded
  <2> QED
    BY <1>3, <2>1, <2>2 DEF CacheBounded
<1> QED
  BY <1>6, <1>7 DEF CacheInv

LEMMA InvalidateStep ==
  ASSUME CacheInv, NEW k \in Keys, CacheInvalidate(k)
  PROVE  CacheInv'
<1> DEFINE others == RemoveFirst(lru, k)
<1>1. others \in Seq(Keys) /\ IsInjective(others) /\ ToSet(others) = ToSet(lru) \ {k}
  BY WithoutKey DEF CacheInv, CacheTypeOK, CacheConsistent
<1>2. lru' = others /\ cached' = [cached EXCEPT ![k] = Missing] /\ cacheSize' = SizeWithout(k)
  BY DEF CacheInvalidate
<1>3. CacheTypeOK /\ CacheConsistent /\ CacheBounded /\ lru \in Seq(Keys)
  BY DEF CacheInv, CacheTypeOK
<1>4. /\ SizeWithout(k) = BytesOf(ToSet(lru) \ {k}, cached)
      /\ SizeWithout(k) \in Nat
      /\ k \in ToSet(lru) => SizeWithout(k) + CacheBytes[cached[k]] = cacheSize
  BY <1>3, SizeWithoutIs
<1> HIDE DEF others
<1>5. CacheTypeOK'
  BY <1>1, <1>2, <1>3, <1>4 DEF CacheTypeOK
<1>6. BytesOf(ToSet(others), cached) = BytesOf(ToSet(others), cached')
  <2>1. \A j \in ToSet(others) : cached[j] = cached'[j]
    BY <1>1, <1>2, <1>3 DEF CacheTypeOK, CacheConsistent
  <2>2. IsFiniteSet(ToSet(others))
    BY <1>1, ListFinite
  <2> QED
    BY <2>1, <2>2, BytesSame
<1>7. CacheConsistent'
  <2>1. ToSet(others) = {j \in Keys : cached'[j] # Missing}
    BY <1>1, <1>2, <1>3 DEF CacheTypeOK, CacheConsistent
  <2>2. cacheSize' = BytesOf(ToSet(others), cached')
    BY <1>1, <1>2, <1>4, <1>6
  <2>3. IsInjective(lru') /\ lru' = others
    BY <1>1, <1>2
  <2> QED
    BY <2>1, <2>2, <2>3 DEF CacheConsistent, BytesOf
<1>8. CacheBounded'
  <2>1. CASE k \in ToSet(lru) /\ Len(lru) = 1
    <3>1. ToSet(lru) \ {k} = {}
      BY <1>3, <2>1 DEF ToSet
    <3>2. cacheSize' = 0
      BY <1>2, <1>4, <3>1, SumEmpty DEF BytesOf
    <3> QED
      BY <3>2, CacheAssumption DEF CacheBounded
  <2>2. CASE k \in ToSet(lru) /\ cacheSize <= CacheCap
    <3>1. cached[k] \in Values
      BY <1>3, <2>2 DEF CacheTypeOK, CacheConsistent
    <3>2. cacheSize' <= cacheSize
      BY <1>2, <1>4, <2>2, <3>1, CacheAssumption
    <3> QED
      BY <1>3, <1>2, <1>4, <2>2, <3>2, CacheAssumption DEF CacheBounded, CacheTypeOK
  <2>3. CASE k \notin ToSet(lru)
    <3>1. lru' = lru
      BY <1>2, <2>3, <1>3 DEF others, RemoveFirst, ToSet
    <3>2. cacheSize' = cacheSize
      <4>1. ToSet(lru) \ {k} = ToSet(lru)
        BY <2>3
      <4> QED
        BY <1>2, <1>3, <1>4, <4>1 DEF CacheConsistent
    <3> QED
      BY <1>3, <3>1, <3>2 DEF CacheBounded
  <2> QED
    BY <1>3, <2>1, <2>2, <2>3 DEF CacheBounded
<1> QED
  BY <1>5, <1>7, <1>8 DEF CacheInv

LEMMA PutStep ==
  ASSUME CacheInv, NEW k \in Keys, NEW v \in Values, CachePut(k, v)
  PROVE  CacheInv'
<1> DEFINE others == RemoveFirst(lru, k)
           Part(n) == SubSeq(others, 1, n)
<1>1. others \in Seq(Keys) /\ IsInjective(others) /\ ToSet(others) = ToSet(lru) \ {k}
  BY WithoutKey DEF CacheInv, CacheTypeOK, CacheConsistent
<1>2. CacheTypeOK /\ CacheConsistent
  BY DEF CacheInv
<1>3. PICK kept \in 0 .. Len(others) :
        /\ lru' = <<k>> \o Part(kept)
        /\ cached' = [j \in Keys |-> IF j = k THEN v
                                     ELSE IF j \in ToSet(Part(kept)) THEN cached[j] ELSE Missing]
        /\ cacheSize' = BytesOf(ToSet(Part(kept)), cached) + CacheBytes[v]
        /\ kept = 0 \/ cacheSize' <= CacheCap
  BY <1>2, CachePutShape
<1> HIDE DEF others
<1>4. PICK stay : stay = Part(kept)
  OBVIOUS
<1>5. /\ stay \in Seq(Keys) /\ Len(stay) = kept /\ IsInjective(stay)
      /\ ToSet(stay) = {others[i] : i \in 1 .. kept}
  BY <1>1, <1>4, ListParts
<1>6. ToSet(stay) \subseteq ToSet(lru) \ {k}
  <2>1. \A i \in 1 .. kept : i \in DOMAIN others
    BY <1>1
  <2>2. ToSet(stay) \subseteq ToSet(others)
    BY <1>5, <2>1 DEF ToSet
  <2> QED
    BY <1>1, <2>2
<1>7. \A j \in ToSet(stay) : j \in Keys /\ j # k /\ cached[j] \in Values /\ cached'[j] = cached[j]
  BY <1>2, <1>3, <1>4, <1>6 DEF CacheTypeOK, CacheConsistent
<1>8. /\ lru' \in Seq(Keys) /\ IsInjective(lru') /\ ToSet(lru') = ToSet(stay) \cup {k}
      /\ Len(lru') = Len(stay) + 1
  BY <1>3, <1>4, <1>5, <1>6, ConsList
<1>9. IsFiniteSet(ToSet(stay))
  BY <1>5, ListFinite
<1>10. BytesOf(ToSet(stay), cached) \in Nat /\ CacheBytes[v] \in Nat
  BY <1>7, <1>9, BytesNat, CacheAssumption
<1>11. cached' \in [Keys -> Values \cup {Missing}]
  BY <1>2, <1>3 DEF CacheTypeOK
<1>12. CacheTypeOK'
  BY <1>3, <1>4, <1>8, <1>10, <1>11 DEF CacheTypeOK
<1>13. ToSet(stay) \cup {k} = {j \in Keys : cached'[j] # Missing}
  BY <1>3, <1>4, <1>7, EntriesAssumption DEF Contents
<1>14. cacheSize' = BytesOf(ToSet(stay) \cup {k}, cached')
  <2>1. IsFiniteSet(ToSet(stay) \cup {k}) /\ (ToSet(stay) \cup {k}) \ {k} = ToSet(stay)
    BY <1>6, <1>9, FS_AddElement
  <2>2. \A j \in ToSet(stay) \cup {k} : cached'[j] \in Values
    BY <1>3, <1>7
  <2>3. BytesOf(ToSet(stay) \cup {k}, cached') = BytesOf({k}, cached') + BytesOf(ToSet(stay), cached')
    BY <2>1, <2>2, BytesSplit
  <2>4. BytesOf({k}, cached') = CacheBytes[v]
    <3>1. cached'[k] = v
      BY <1>3, Zenon
    <3> QED
      BY <3>1, BytesOne
  <2>5. BytesOf(ToSet(stay), cached') = BytesOf(ToSet(stay), cached)
    BY <1>7, <1>9, BytesSame
  <2> QED
    BY <1>3, <1>4, <1>10, <2>3, <2>4, <2>5
<1>15. CacheConsistent'
  BY <1>8, <1>13, <1>14 DEF CacheConsistent, BytesOf
<1>16. CacheBounded'
  <2>1. kept = 0 => Len(lru') = 1
    BY <1>5, <1>8
  <2> QED
    BY <1>3, <2>1 DEF CacheBounded
<1> QED
  BY <1>12, <1>15, <1>16 DEF CacheInv

LEMMA ClearedCache ==
  ASSUME lru = <<>>, cached = [k \in Keys |-> Missing], cacheSize = 0
  PROVE  CacheInv
<1>1. ToSet(lru) = {}
  BY DEF ToSet
<1>2. BytesOf(ToSet(lru), cached) = 0
  BY <1>1, SumEmpty DEF BytesOf
<1> QED
  BY <1>1, <1>2, CacheAssumption DEF CacheInv, CacheTypeOK, CacheConsistent, CacheBounded, IsInjective

LEMMA ClearStep ==
  ASSUME CacheClear
  PROVE  CacheInv'
<1>1. lru' = <<>> /\ cached' = [k \in Keys |-> Missing] /\ cacheSize' = 0
  BY DEF CacheClear
<1>2. ToSet(lru') = {}
  BY <1>1 DEF ToSet
<1>3. BytesOf(ToSet(lru'), cached') = 0
  BY <1>2, SumEmpty DEF BytesOf
<1> QED
  BY <1>1, <1>2, <1>3, CacheAssumption
  DEF CacheInv, CacheTypeOK, CacheConsistent, CacheBounded, IsInjective, BytesOf

LEMMA CacheStep ==
  ASSUME CacheInv, [CacheNext]_cacheVars
  PROVE  CacheInv'
<1>1. CASE UNCHANGED cacheVars
  BY <1>1 DEF CacheInv, CacheTypeOK, CacheConsistent, CacheBounded, BytesOf, cacheVars
<1>2. CASE CacheNext
  BY <1>2, HitStep, InvalidateStep, PutStep, ClearStep DEF CacheNext
<1> QED
  BY <1>1, <1>2

LEMMA CacheAlwaysInv == CacheSpec => []CacheInv
<1>1. CacheInit => CacheInv
  BY ClearedCache DEF CacheInit
<1> QED
  BY <1>1, CacheStep, PTL DEF CacheSpec

\* The list and the map keep their types, and the byte count never falls below
\* zero, where the unsigned current_size_ would wrap around.
THEOREM CacheTypes == CacheSpec => []CacheTypeOK
<1>1. CacheInv => CacheTypeOK
  BY DEF CacheInv
<1> QED
  BY <1>1, CacheAlwaysInv, PTL

\* List, map and byte count describe the same entries, through any sequence of
\* hits, puts with evictions, invalidations and clearings.
THEOREM CacheAlwaysConsistent == CacheSpec => []CacheConsistent
<1>1. CacheInv => CacheConsistent
  BY DEF CacheInv
<1> QED
  BY <1>1, CacheAlwaysInv, PTL

\* The capacity is kept, whatever the sizes of the entries, except by a single
\* entry that is larger than it.
THEOREM CacheAlwaysBounded == CacheSpec => []CacheBounded
<1>1. CacheInv => CacheBounded
  BY DEF CacheInv
<1> QED
  BY <1>1, CacheAlwaysInv, PTL

----------------------------------------------------------------------------
(* What an eviction takes.                                                 *)

\* Where the entries of a list are once one of them is taken out.
LEMMA OthersPlaces ==
  ASSUME NEW S, NEW list \in Seq(S), IsInjective(list), NEW k
  PROVE  LET others == RemoveFirst(list, k)
         IN \E p \in 1 .. Len(list) + 1 :
              /\ \A n \in 1 .. Len(list) : n = p <=> list[n] = k
              /\ \A n \in 1 .. Len(list) :
                   /\ n < p => n \in 1 .. Len(others) /\ others[n] = list[n]
                   /\ n > p => n - 1 \in 1 .. Len(others) /\ others[n - 1] = list[n]
<1> DEFINE others == RemoveFirst(list, k)
<1>1. Len(list) \in Nat /\ DOMAIN list = 1 .. Len(list)
  OBVIOUS
<1>2. CASE others = list /\ k \notin ToSet(list)
  <2>1. \A n \in 1 .. Len(list) : n # Len(list) + 1 /\ list[n] # k /\ n < Len(list) + 1 /\ ~(n > Len(list) + 1)
    BY <1>1, <1>2 DEF ToSet
  <2> HIDE DEF others
  <2>2. Len(list) + 1 \in 1 .. Len(list) + 1
    BY <1>1
  <2> QED
    BY <1>2, <2>1, <2>2 DEF others
<1>3. CASE others # list \/ k \in ToSet(list)
  <2>1. PICK p \in 1 .. Len(list) :
          /\ list[p] = k
          /\ others \in Seq(S)
          /\ Len(others) = Len(list) - 1
          /\ \A n \in 1 .. Len(list) - 1 : others[n] = IF n < p THEN list[n] ELSE list[n + 1]
    BY <1>3, RemoveFirstShape
  <2> HIDE DEF others
  <2>2. \A n \in 1 .. Len(list) : n = p <=> list[n] = k
    BY <1>1, <2>1 DEF IsInjective
  <2>3. ASSUME NEW n \in 1 .. Len(list), n < p
        PROVE  n \in 1 .. Len(others) /\ others[n] = list[n]
    <3>1. n \in 1 .. Len(list) - 1
      BY <1>1, <2>3
    <3> QED
      BY <2>1, <2>3, <3>1
  <2>4. ASSUME NEW n \in 1 .. Len(list), n > p
        PROVE  n - 1 \in 1 .. Len(others) /\ others[n - 1] = list[n]
    <3>1. n - 1 \in 1 .. Len(list) - 1 /\ ~(n - 1 < p) /\ (n - 1) + 1 = n
      BY <1>1, <2>4
    <3> QED
      BY <2>1, <3>1
  <2>5. p \in 1 .. Len(list) + 1
    BY <1>1
  <2> QED
    BY <2>2, <2>3, <2>4, <2>5 DEF others
<1> QED
  BY <1>2, <1>3

EvictionIn(k) ==
  LET gone == {n \in 1 .. Len(lru) : lru[n] # k /\ cached'[lru[n]] = Missing}
  IN \A i \in gone :
       /\ \A j \in i .. Len(lru) : lru[j] = k \/ j \in gone
       /\ \/ \E j \in gone : j < i
          \/ cacheSize' + CacheBytes[cached[lru[i]]] > CacheCap

LEMMA PutEvicts ==
  ASSUME CacheInv, NEW k \in Keys, NEW v \in Values, CachePut(k, v)
  PROVE  EvictionIn(k)
<1> DEFINE others == RemoveFirst(lru, k)
           Part(n) == SubSeq(others, 1, n)
           gone == {n \in 1 .. Len(lru) : lru[n] # k /\ cached'[lru[n]] = Missing}
<1>1. others \in Seq(Keys) /\ IsInjective(others) /\ ToSet(others) = ToSet(lru) \ {k}
  BY WithoutKey DEF CacheInv, CacheTypeOK, CacheConsistent
<1>2. CacheTypeOK /\ CacheConsistent /\ lru \in Seq(Keys) /\ IsInjective(lru) /\ Len(lru) \in Nat
  BY DEF CacheInv, CacheTypeOK, CacheConsistent
<1>3. PICK kept \in 0 .. Len(others) :
        /\ cached' = [j \in Keys |-> IF j = k THEN v
                                     ELSE IF j \in ToSet(Part(kept)) THEN cached[j] ELSE Missing]
        /\ cacheSize' = BytesOf(ToSet(Part(kept)), cached) + CacheBytes[v]
        /\ \A n \in kept + 1 .. Len(others) :
             BytesOf(ToSet(Part(n)), cached) + CacheBytes[v] > CacheCap
  BY <1>2, CachePutShape
<1>4. PICK p \in 1 .. Len(lru) + 1 :
        /\ \A n \in 1 .. Len(lru) : n = p <=> lru[n] = k
        /\ \A n \in 1 .. Len(lru) :
             /\ n < p => n \in 1 .. Len(others) /\ others[n] = lru[n]
             /\ n > p => n - 1 \in 1 .. Len(others) /\ others[n - 1] = lru[n]
  BY <1>2, OthersPlaces
<1> DEFINE Place(n) == IF n < p THEN n ELSE n - 1
<1>5. ASSUME NEW n \in 1 .. Len(lru), n # p
      PROVE  /\ Place(n) \in 1 .. Len(others) /\ others[Place(n)] = lru[n]
             /\ lru[n] \in Keys /\ lru[n] # k /\ cached[lru[n]] \in Values
  <2>1. n < p \/ n > p
    BY <1>2, <1>5
  <2>2. lru[n] \in ToSet(lru)
    BY <1>2 DEF ToSet
  <2>3. cached[lru[n]] \in Values /\ lru[n] \in Keys
    BY <1>2, <2>2 DEF CacheTypeOK, CacheConsistent
  <2> HIDE DEF others
  <2>4. Place(n) \in 1 .. Len(others) /\ others[Place(n)] = lru[n]
    BY <1>2, <1>4, <2>1
  <2> QED
    BY <1>4, <1>5, <2>3, <2>4
<1>6. Len(others) \in Nat /\ DOMAIN others = 1 .. Len(others)
  BY <1>1
<1>7. ASSUME NEW m \in 1 .. Len(others)
      PROVE  others[m] \in ToSet(Part(kept)) <=> m <= kept
  <2> HIDE DEF others
  <2>1. ToSet(Part(kept)) = {others[i] : i \in 1 .. kept}
    BY <1>1, ListParts
  <2>2. \A i \in 1 .. kept : i \in 1 .. Len(others)
    BY <1>6
  <2>3. \A i \in 1 .. Len(others) : others[i] = others[m] => i = m
    BY <1>1, <1>6 DEF IsInjective
  <2>4. m \in 1 .. kept <=> m <= kept
    BY <1>6
  <2> HIDE DEF Part
  <2> QED
    BY <2>1, <2>2, <2>3, <2>4
<1>8. ASSUME NEW n \in 1 .. Len(lru), n # p
      PROVE  n \in gone <=> Place(n) > kept
  <2>1. cached'[lru[n]] = IF lru[n] \in ToSet(Part(kept)) THEN cached[lru[n]] ELSE Missing
    BY <1>3, <1>5, <1>8
  <2>2. lru[n] \in ToSet(Part(kept)) <=> Place(n) <= kept
    <3> HIDE DEF others, Part, Place
    <3> QED
      BY <1>5, <1>7, <1>8
  <2>3. cached[lru[n]] # Missing /\ lru[n] # k
    BY <1>5, <1>8, EntriesAssumption DEF Contents
  <2>4. Place(n) \in Nat /\ kept \in Nat
    BY <1>5, <1>6, <1>8
  <2> HIDE DEF others, Part, Place
  <2>5. n \in gone <=> ~(Place(n) <= kept)
    BY <2>1, <2>2, <2>3
  <2> QED
    BY <2>4, <2>5
<1>9. \A n \in gone : n \in 1 .. Len(lru) /\ n # p
  BY <1>4
<1> HIDE DEF gone, others
<1>10. ASSUME NEW i \in gone, NEW j \in i .. Len(lru)
       PROVE  lru[j] = k \/ j \in gone
  <2>1. i \in 1 .. Len(lru) /\ i # p /\ Place(i) > kept
    BY <1>8, <1>9
  <2>2. j \in 1 .. Len(lru) /\ i <= j
    BY <1>2, <2>1
  <2>3. CASE j = p
    BY <1>4, <2>2, <2>3
  <2>4. CASE j # p
    <3>1. Place(j) > kept
      BY <1>2, <1>4, <1>6, <2>1, <2>2, <2>4
    <3> HIDE DEF Place
    <3> QED
      BY <1>8, <2>2, <2>4, <3>1
  <2> QED
    BY <2>3, <2>4
<1>11. ASSUME NEW i \in gone, ~ \E j \in gone : j < i
       PROVE  cacheSize' + CacheBytes[cached[lru[i]]] > CacheCap
  <2>1. i \in 1 .. Len(lru) /\ i # p /\ Place(i) > kept
    BY <1>8, <1>9
  <2>2. Place(i) = kept + 1
    <3>1. SUFFICES ASSUME Place(i) > kept + 1 PROVE FALSE
      BY <1>2, <1>4, <1>6, <2>1
    <3>2. PICK j \in 1 .. Len(lru) : j < i /\ j # p /\ Place(j) > kept
      <4>1. CASE i - 1 # p
        <5>1. i - 1 \in 1 .. Len(lru) /\ i - 1 < i /\ Place(i - 1) > kept
          BY <1>2, <1>4, <1>6, <2>1, <3>1, <4>1
        <5> QED
          BY <4>1, <5>1
      <4>2. CASE i - 1 = p
        <5>1. i - 2 \in 1 .. Len(lru) /\ i - 2 < i /\ i - 2 # p /\ Place(i - 2) > kept
          BY <1>2, <1>4, <1>6, <2>1, <3>1, <4>2
        <5> QED
          BY <5>1
      <4> QED
        BY <4>1, <4>2
    <3>3. j \in gone
      <4> HIDE DEF Place
      <4> QED
        BY <1>8, <3>2
    <3> QED
      BY <1>11, <3>2, <3>3
  <2>3. kept + 1 \in 1 .. Len(others) /\ others[kept + 1] = lru[i] /\ cached[lru[i]] \in Values
    <3> HIDE DEF Place
    <3> QED
      BY <1>5, <2>1, <2>2
  <2> DEFINE more == ToSet(Part(kept + 1))
             stay == ToSet(Part(kept))
  <2>4. more = stay \cup {lru[i]} /\ lru[i] \notin stay
    <3>1. kept \in Nat /\ kept + 1 \in 0 .. Len(others)
      BY <1>6, <2>3
    <3>2. more = {others[n] : n \in 1 .. kept + 1} /\ stay = {others[n] : n \in 1 .. kept}
      BY <1>1, <3>1, ListParts
    <3>3. 1 .. kept + 1 = (1 .. kept) \cup {kept + 1}
      BY <3>1
    <3>4. lru[i] \notin stay
      BY <1>6, <1>7, <2>3, <3>1
    <3> HIDE DEF more, stay
    <3> QED
      BY <2>3, <3>2, <3>3, <3>4
  <2>5. IsFiniteSet(stay) /\ IsFiniteSet(more) /\ \A j \in more : cached[j] \in Values
    <3>1. kept + 1 \in 0 .. Len(others)
      BY <1>6, <2>3
    <3>2. Part(kept) \in Seq(Keys) /\ Part(kept + 1) \in Seq(Keys)
      BY <1>1, <3>1, ListParts
    <3>3. more = {others[n] : n \in 1 .. kept + 1}
      BY <1>1, <3>1, ListParts
    <3>4. \A n \in 1 .. kept + 1 : n \in DOMAIN others
      BY <1>6, <2>3
    <3>5. more \subseteq ToSet(lru)
      <4>1. more \subseteq ToSet(others)
        BY <3>3, <3>4 DEF ToSet
      <4> QED
        BY <1>1, <4>1
    <3> HIDE DEF Part
    <3>6. \A j \in ToSet(lru) : cached[j] \in Values
      BY <1>2 DEF CacheTypeOK, CacheConsistent
    <3> QED
      BY <3>2, <3>5, <3>6, ListFinite
  <2>6. BytesOf(more, cached) + CacheBytes[v] > CacheCap
    <3>1. kept + 1 \in kept + 1 .. Len(others)
      BY <1>6, <2>3
    <3> QED
      BY <1>3, <3>1
  <2>7. cacheSize' = BytesOf(stay, cached) + CacheBytes[v]
    BY <1>3
  <2> HIDE DEF more, stay
  <2>8. BytesOf(more, cached) = BytesOf({lru[i]}, cached) + BytesOf(more \ {lru[i]}, cached)
    BY <2>4, <2>5, BytesSplit
  <2>9. BytesOf({lru[i]}, cached) = CacheBytes[cached[lru[i]]] /\ more \ {lru[i]} = stay
    BY <2>3, <2>4, BytesOne
  <2>10. BytesOf(stay, cached) \in Nat /\ CacheBytes[v] \in Nat /\ CacheBytes[cached[lru[i]]] \in Nat
    BY <2>3, <2>4, <2>5, BytesNat, CacheAssumption
  <2>11. BytesOf(more, cached) = CacheBytes[cached[lru[i]]] + BytesOf(stay, cached)
    BY <2>8, <2>9
  <2>12. (CacheBytes[cached[lru[i]]] + BytesOf(stay, cached)) + CacheBytes[v] > CacheCap
    BY <2>6, <2>11
  <2>13. (BytesOf(stay, cached) + CacheBytes[v]) + CacheBytes[cached[lru[i]]] > CacheCap
    BY <2>10, <2>12, CacheAssumption
  <2> QED
    BY <2>7, <2>13
<1> QED
  BY <1>10, <1>11 DEF EvictionIn, gone

\* Eviction takes entries from the back of the list, and stops as soon as the
\* new entry fits, whatever their sizes.
THEOREM EvictionFromTheBack == CacheSpec => EvictsFromTheBack
<1> DEFINE Evicts == \A k \in Keys : cached'[k] # Missing /\ cached'[k] # cached[k] => EvictionIn(k)
<1>1. ASSUME CacheInv, CacheNext
      PROVE  Evicts
  <2>1. SUFFICES ASSUME NEW k \in Keys, cached'[k] # Missing, cached'[k] # cached[k]
                 PROVE  EvictionIn(k)
    OBVIOUS
  <2>2. CASE \E j \in Keys : CacheHit(j)
    BY <2>1, <2>2 DEF CacheHit
  <2>3. CASE \E j \in Keys : CacheInvalidate(j)
    BY <1>1, <2>1, <2>3 DEF CacheInvalidate, CacheInv, CacheTypeOK
  <2>4. CASE CacheClear
    BY <2>1, <2>4 DEF CacheClear
  <2>5. ASSUME NEW j \in Keys, NEW v \in Values, CachePut(j, v)
        PROVE  EvictionIn(k)
    <3>1. k = j
      BY <2>1, <2>5 DEF CachePut
    <3> QED
      BY <1>1, <2>5, <3>1, PutEvicts
  <2> QED
    BY <1>1, <2>2, <2>3, <2>4, <2>5 DEF CacheNext
<1>2. CacheInv /\ [CacheNext]_cacheVars => [Evicts]_cacheVars
  BY <1>1
<1>3. [Evicts]_cacheVars => [\A k \in Keys : cached'[k] # Missing /\ cached'[k] # cached[k] =>
       LET gone == {n \in 1 .. Len(lru) : lru[n] # k /\ cached'[lru[n]] = Missing}
       IN \A i \in gone :
            /\ \A j \in i .. Len(lru) : lru[j] = k \/ j \in gone
            /\ \/ \E j \in gone : j < i
               \/ cacheSize' + CacheBytes[cached[lru[i]]] > CacheCap]_cacheVars
  BY DEF EvictionIn
<1> QED
  BY <1>2, <1>3, CacheAlwaysInv, PTL DEF CacheSpec, EvictsFromTheBack
=============================================================================
