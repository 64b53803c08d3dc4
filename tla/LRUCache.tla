------------------------------ MODULE LRUCache ------------------------------
(***************************************************************************)
(* The read cache of the key-value store (kvstore/src/lru_cache.cpp): a    *)
(* list of entries, most recently used first, a map from keys into the     *)
(* list, and a running count of bytes.  Every operation holds the cache's  *)
(* mutex, so each is one step.  The hit and miss counters are left out.    *)
(***************************************************************************)
EXTENDS Entries, Integers, Sequences, SequencesExt

CONSTANTS
  CacheBytes,   \* CacheBytes[v]: EstimateSize of an entry that holds v
  CacheCap      \* capacity_

ASSUME CacheAssumption ==
  /\ \A v \in Values : CacheBytes[v] \in Nat \ {0}
  /\ CacheCap \in Nat

VARIABLES
  lru,        \* lru_list_: its keys, from front to back
  cached,     \* cache_map_: the value of the entry of a key, or Missing
  cacheSize   \* current_size_

cacheVars == <<lru, cached, cacheSize>>

CacheInit ==
  /\ lru = <<>>
  /\ cached = [k \in Keys |-> Missing]
  /\ cacheSize = 0

\* Get, when it finds the key: the entry moves to the front.
CacheHit(k) ==
  /\ cached[k] # Missing
  /\ lru' = <<k>> \o RemoveFirst(lru, k)
  /\ UNCHANGED <<cached, cacheSize>>

\* The bytes of the entries of these keys, as their size fields add up.
BytesOf(keys, entries) == SumFunctionOnSet([k \in keys |-> CacheBytes[entries[k]]], keys)

\* Mutant of SizeWithout: the bytes of the old entry stay counted.
SizeWith(k) == cacheSize

\* The byte count once the entry of k, if there is one, is taken out.
SizeWithout(k) == cacheSize - (IF cached[k] = Missing THEN 0 ELSE CacheBytes[cached[k]])

\* Mutants of Survivors: at most one entry is evicted; entries are evicted from
\* the front.
SurvivorsButOne(list, size, v) ==
  IF list = <<>> \/ size + CacheBytes[v] <= CacheCap THEN list ELSE Front(list)

SurvivorsFromBack(list, size, v) ==
  LET Rest(n) == SubSeq(list, n, Len(list))
      Fits(n) == n = Len(list) + 1 \/ BytesOf(ToSet(Rest(n)), cached) + CacheBytes[v] <= CacheCap
  IN Rest(CHOOSE n \in 1 .. Len(list) + 1 : Fits(n) /\ \A i \in 1 .. n - 1 : ~Fits(i))

\* The loop around Evict(): entries go from the back until v fits or none is left.
Survivors(list, size, v) ==
  LET Left(n) == size - BytesOf(ToSet(SubSeq(list, n + 1, Len(list))), cached)
      Fits(n) == n = 0 \/ Left(n) + CacheBytes[v] <= CacheCap
      kept == CHOOSE n \in 0 .. Len(list) : Fits(n) /\ \A i \in n + 1 .. Len(list) : ~Fits(i)
  IN SubSeq(list, 1, kept)

\* Put: the old entry of the key goes, then the back of the list as far as is
\* needed, then the new entry comes to the front.
CachePut(k, v) ==
  LET others == RemoveFirst(lru, k)
      stay == Survivors(others, SizeWithout(k), v)
      evicted == BytesOf(ToSet(others) \ ToSet(stay), cached)
  IN /\ lru' = <<k>> \o stay
     /\ cached' = [j \in Keys |->
          IF j = k THEN v ELSE IF j \in ToSet(stay) THEN cached[j] ELSE Missing]
     /\ cacheSize' = SizeWithout(k) - evicted + CacheBytes[v]

\* Invalidate: the entry of the key goes, if there is one.
CacheInvalidate(k) ==
  /\ lru' = RemoveFirst(lru, k)
  /\ cached' = [cached EXCEPT ![k] = Missing]
  /\ cacheSize' = SizeWithout(k)

\* Mutant of CacheClear: only the byte count is reset.
CacheClearCount ==
  /\ cacheSize' = 0
  /\ UNCHANGED <<lru, cached>>

CacheClear ==
  /\ lru' = <<>>
  /\ cached' = [k \in Keys |-> Missing]
  /\ cacheSize' = 0

----------------------------------------------------------------------------
(* The cache used on its own, as its interface allows.                     *)

CacheNext ==
  \/ \E k \in Keys : CacheHit(k) \/ CacheInvalidate(k)
  \/ \E k \in Keys, v \in Values : CachePut(k, v)
  \/ CacheClear

CacheSpec == CacheInit /\ [][CacheNext]_cacheVars

\* current_size_ is unsigned in the code: below zero it would wrap around, and
\* every later Put would empty the cache.
CacheTypeOK ==
  /\ lru \in Seq(Keys)
  /\ cached \in [Keys -> Values \cup {Missing}]
  /\ cacheSize \in Nat

\* List, map and byte count describe the same entries: no key twice in the list,
\* no key in one and not in the other, and no byte counted twice or left behind.
CacheConsistent ==
  /\ IsInjective(lru)
  /\ ToSet(lru) = {k \in Keys : cached[k] # Missing}
  /\ cacheSize = BytesOf(ToSet(lru), cached)

\* The cache never outgrows its capacity, except for one entry that is larger
\* than the whole cache.
CacheBounded == cacheSize <= CacheCap \/ Len(lru) = 1

\* Only the least recently used entries are evicted, and no more than needed: in
\* a step that makes room for another key, no entry goes while one behind it in
\* the list stays, and the first one to go would not fit beside the new one.
EvictsFromTheBack ==
  [][\A k \in Keys : cached'[k] # Missing /\ cached'[k] # cached[k] =>
       LET gone == {n \in 1 .. Len(lru) : lru[n] # k /\ cached'[lru[n]] = Missing}
       IN \A i \in gone :
            /\ \A j \in i .. Len(lru) : lru[j] = k \/ j \in gone
            /\ \/ \E j \in gone : j < i
               \/ cacheSize' + CacheBytes[cached[lru[i]]] > CacheCap
    ]_cacheVars
=============================================================================
