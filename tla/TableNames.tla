----------------------------- MODULE TableNames -----------------------------
(***************************************************************************)
(* In what order a store opens the table files that it finds: by their     *)
(* names, which hold their numbers ("7.sst", "sstable_7.sst").  Numbers    *)
(* here have at most two digits.                                           *)
(***************************************************************************)
EXTENDS Integers, FiniteSets, Sequences

\* Mutant of NameLess: the newest table comes first.
NameGreater(a, b) == b < a

\* The names as strings: "10.sst" comes before "9.sst".
NameLess(a, b) ==
  IF (a < 10) = (b < 10) THEN a < b ELSE IF a < 10 THEN a <= b \div 10 ELSE a \div 10 < b

\* std::sort of the paths: each file comes behind those with smaller names.
ByName(files) ==
  [n \in 1 .. Cardinality(files) |->
     CHOOSE i \in files : Cardinality({j \in files : NameLess(j, i)}) = n - 1]

\* The order in which the numbers are given.
Ascending(s) == \A m, n \in 1 .. Len(s) : m < n => s[m] < s[n]
=============================================================================
