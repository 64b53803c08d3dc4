------------------------- MODULE StoreServerProofs -------------------------
(***************************************************************************)
(* Proofs about StoreServer, for any clients, keys, values and bounds: a   *)
(* request that is received whole is answered as an atomic map would do,   *)
(* the store holds nothing that was not written, and only split requests   *)
(* and clients that leave bring the server down.                           *)
(***************************************************************************)
EXTENDS StoreServer, SequenceTheorems, WellFoundedInduction, TLAPS

----------------------------------------------------------------------------
(* Numbers.                                                                *)

\* What Max and Min choose.
LEMMA MaxIs ==
  ASSUME NEW S \in SUBSET Int, NEW m \in S, \A i \in S : m >= i
  PROVE  Max(S) = m
<1>1. Max(S) \in S /\ \A i \in S : Max(S) >= i
  BY DEF Max
<1>2. Max(S) >= m /\ m >= Max(S) /\ m \in Int /\ Max(S) \in Int
  BY <1>1
<1> QED
  BY <1>2

LEMMA MinIs ==
  ASSUME NEW S \in SUBSET Int, NEW m \in S, \A i \in S : m <= i
  PROVE  Min(S) = m
<1>1. Min(S) \in S /\ \A i \in S : Min(S) <= i
  BY DEF Min
<1>2. Min(S) <= m /\ m <= Min(S) /\ m \in Int /\ Min(S) \in Int
  BY <1>1
<1> QED
  BY <1>2

\* A set of natural numbers has a first one.
LEMMA FirstNumber ==
  ASSUME NEW S \in SUBSET Nat, S # {}
  PROVE  Min(S) \in S
<1> DEFINE R == {ss \in Nat \X Nat : ss[1] < ss[2]}
<1>1. IsWellFoundedOn(R, Nat)
  BY NatLessThanWellFounded DEF OpToRel
<1>2. PICK m \in S : \A i \in S : <<i, m>> \notin R
  BY <1>1, WFMin
<1>3. ASSUME NEW i \in S PROVE m <= i
  <2>1. m \in Nat /\ i \in Nat
    OBVIOUS
  <2>2. ~(i < m)
    BY <1>2, <2>1
  <2> QED
    BY <2>1, <2>2
<1> QED
  BY <1>3, MinIs

----------------------------------------------------------------------------
(* Sequences.                                                              *)

\* Where the parts of a sequence are.
LEMMA TwoParts ==
  ASSUME NEW T, NEW p \in Seq(T), NEW q \in Seq(T)
  PROVE  /\ p \o q \in Seq(T)
         /\ Len(p \o q) = Len(p) + Len(q)
         /\ \A i \in 1 .. Len(p) : (p \o q)[i] = p[i]
         /\ \A i \in 1 .. Len(q) : (p \o q)[Len(p) + i] = q[i]
<1>1. Len(p) \in Nat /\ Len(q) \in Nat
  BY LenProperties
<1>2. \A i \in 1 .. Len(q) : Len(p) + i \in 1 .. Len(p) + Len(q) /\ ~(Len(p) + i <= Len(p))
  BY <1>1
<1>3. \A i \in 1 .. Len(p) : i \in 1 .. Len(p) + Len(q) /\ i <= Len(p)
  BY <1>1
<1>4. \A i \in 1 .. Len(q) : (Len(p) + i) - Len(p) = i
  BY <1>1
<1>5. /\ p \o q \in Seq(T) /\ Len(p \o q) = Len(p) + Len(q)
      /\ \A i \in 1 .. Len(p) + Len(q) : (p \o q)[i] = IF i <= Len(p) THEN p[i] ELSE q[i - Len(p)]
  BY ConcatProperties
<1>6. ASSUME NEW i \in 1 .. Len(q) PROVE (p \o q)[Len(p) + i] = q[i]
  <2>1. (p \o q)[Len(p) + i] = q[(Len(p) + i) - Len(p)]
    BY <1>2, <1>5
  <2> QED
    BY <1>4, <2>1
<1> QED
  BY <1>3, <1>5, <1>6

\* A slice is what it holds.
LEMMA SliceIs ==
  ASSUME NEW T, NEW p \in Seq(T), NEW q \in Seq(T), NEW m \in Nat,
         \A i \in 1 .. Len(q) : p[m + i] = q[i]
  PROVE  SubSeq(p, m + 1, m + Len(q)) = q
<1> DEFINE n == m + Len(q)
           sub == SubSeq(p, m + 1, n)
<1>1. Len(q) \in Nat /\ n \in Int /\ m + 1 \in Int
  BY LenProperties
<1>2. ASSUME NEW i \in m + 1 .. n PROVE p[i] \in T
  <2>1. i - m \in 1 .. Len(q) /\ m + (i - m) = i
    BY <1>1
  <2>2. p[i] = q[i - m]
    BY <2>1
  <2> QED
    BY <2>1, <2>2, ElementOfSeq
<1>3. /\ sub \in Seq(T) /\ Len(sub) = IF m + 1 <= n THEN n - (m + 1) + 1 ELSE 0
      /\ \A i \in 1 .. n - (m + 1) + 1 : sub[i] = p[m + 1 + i - 1]
  <2> HIDE DEF n
  <2> QED
    BY <1>1, <1>2, SubSeqProperties
<1>4. Len(sub) = Len(q)
  BY <1>1, <1>3
<1>5. ASSUME NEW i \in 1 .. Len(sub) PROVE sub[i] = q[i]
  <2>1. i \in 1 .. n - (m + 1) + 1 /\ m + 1 + i - 1 = m + i /\ i \in 1 .. Len(q)
    BY <1>1, <1>4
  <2>2. sub[i] = p[m + 1 + i - 1] /\ p[m + i] = q[i]
    BY <1>3, <2>1
  <2> HIDE DEF sub
  <2> QED
    BY <2>1, <2>2
<1> HIDE DEF sub
<1>6. sub = q
  BY <1>3, <1>4, <1>5, SeqEqual
<1> QED
  BY <1>6 DEF sub

\* A slice that stays inside is well typed.
LEMMA SliceTyped ==
  ASSUME NEW T, NEW p \in Seq(T), NEW m \in Nat \ {0}, NEW n \in Int, n <= Len(p)
  PROVE  SubSeq(p, m, n) \in Seq(T)
<1>1. \A i \in m .. n : i \in 1 .. Len(p)
  BY LenProperties
<1>2. \A i \in m .. n : p[i] \in T
  BY <1>1, ElementOfSeq
<1>3. m \in Int
  OBVIOUS
<1> QED
  BY <1>2, <1>3, SubSeqProperties

----------------------------------------------------------------------------
(* Parsing gets back what a line was made of.                              *)

\* The parts of a request.
LEMMA RequestParts ==
  ASSUME NEW r \in Requests
  PROVE  /\ r.op \in Commands
         /\ r.key \in Keys /\ r.key \in Seq(Letters) /\ Len(r.key) \in Nat \ {0}
         /\ r.op = "PUT" => r.value \in Values
<1>1. r.op \in Commands /\ r.key \in Keys /\ (r.op = "PUT" => r.value \in Values)
  BY DEF Requests, Commands
<1>2. r.key \in Seq(Letters) /\ r.key # <<>>
  BY <1>1, ServerAssumption
<1> QED
  BY <1>1, <1>2, EmptySeq

\* The pieces of a line are texts.
LEMMA PiecesTyped ==
  ASSUME NEW r \in Requests
  PROVE  /\ r.key \in Seq(Tokens) /\ <<r.op, "space">> \in Seq(Tokens)
         /\ <<>> \in Seq(Tokens) /\ <<"newline">> \in Seq(Tokens)
         /\ r.op = "PUT" => <<"space", r.value>> \in Seq(Tokens)
<1>1. Letters \subseteq Tokens /\ r.op \in Tokens /\ "space" \in Tokens /\ "newline" \in Tokens
  BY RequestParts DEF Tokens, Blanks
<1>2. r.op = "PUT" => r.value \in Tokens
  BY RequestParts DEF Tokens
<1>3. r.key \in Seq(Tokens)
  BY <1>1, RequestParts, SeqMonotonic
<1> QED
  BY <1>1, <1>2, <1>3

\* The line of a request, token by token.
LEMMA TextParts ==
  ASSUME NEW r \in Requests
  PROVE  LET n == Len(r.key)
         IN /\ Text(r) \in Texts
            /\ Text(r)[1] = r.op /\ Text(r)[2] = "space"
            /\ \A i \in 1 .. n : Text(r)[2 + i] = r.key[i]
            /\ r.op # "PUT" => Len(Text(r)) = n + 3 /\ Text(r)[n + 3] = "newline"
            /\ r.op = "PUT" => /\ Len(Text(r)) = n + 5
                               /\ Text(r)[n + 3] = "space"
                               /\ Text(r)[n + 4] = r.value
                               /\ Text(r)[n + 5] = "newline"
<1> DEFINE n == Len(r.key)
           head == <<r.op, "space">>
           tail == IF r.op = "PUT" THEN <<"space", r.value>> ELSE <<>>
           front == head \o r.key
           line == front \o tail
           end == <<"newline">>
<1>1. /\ head \in Seq(Tokens) /\ r.key \in Seq(Tokens)
      /\ tail \in Seq(Tokens) /\ end \in Seq(Tokens)
  BY PiecesTyped
<1>2. /\ Len(head) = 2 /\ head[1] = r.op /\ head[2] = "space"
      /\ Len(end) = 1 /\ end[1] = "newline"
      /\ r.op # "PUT" => Len(tail) = 0
      /\ r.op = "PUT" => Len(tail) = 2 /\ tail[1] = "space" /\ tail[2] = r.value
  OBVIOUS
<1>3. Text(r) = line \o end
  BY DEF Text
<1>4. n \in Nat \ {0}
  BY RequestParts
<1> HIDE DEF n, head, tail, end
<1>5. /\ front \in Seq(Tokens) /\ Len(front) = n + 2
      /\ front[1] = r.op /\ front[2] = "space"
      /\ \A i \in 1 .. n : front[2 + i] = r.key[i]
  <2>1. front \in Seq(Tokens) /\ Len(front) = Len(head) + Len(r.key)
    BY <1>1, TwoParts
  <2>2. \A i \in 1 .. Len(head) : front[i] = head[i]
    BY <1>1, TwoParts
  <2>3. \A i \in 1 .. Len(r.key) : front[Len(head) + i] = r.key[i]
    BY <1>1, TwoParts
  <2> HIDE DEF front
  <2> QED
    BY <1>2, <1>4, <2>1, <2>2, <2>3 DEF n
<1> HIDE DEF front
<1>6. /\ line \in Seq(Tokens) /\ Len(line) = n + 2 + Len(tail)
      /\ \A i \in 1 .. n + 2 : line[i] = front[i]
      /\ \A i \in 1 .. Len(tail) : line[n + 2 + i] = tail[i]
  <2>1. line \in Seq(Tokens) /\ Len(line) = Len(front) + Len(tail)
    BY <1>1, <1>5, TwoParts
  <2>2. \A i \in 1 .. Len(front) : line[i] = front[i]
    BY <1>1, <1>5, TwoParts
  <2>3. \A i \in 1 .. Len(tail) : line[Len(front) + i] = tail[i]
    BY <1>1, <1>5, TwoParts
  <2> HIDE DEF line
  <2> QED
    BY <1>5, <2>1, <2>2, <2>3
<1> HIDE DEF line
<1>7. /\ line \o end \in Seq(Tokens) /\ Len(line \o end) = n + 2 + Len(tail) + 1
      /\ \A i \in 1 .. n + 2 + Len(tail) : (line \o end)[i] = line[i]
      /\ (line \o end)[n + 2 + Len(tail) + 1] = "newline"
  <2>1. line \o end \in Seq(Tokens) /\ Len(line \o end) = Len(line) + Len(end)
    BY <1>1, <1>6, TwoParts
  <2>2. \A i \in 1 .. Len(line) : (line \o end)[i] = line[i]
    BY <1>1, <1>6, TwoParts
  <2>3. \A i \in 1 .. Len(end) : (line \o end)[Len(line) + i] = end[i]
    BY <1>1, <1>6, TwoParts
  <2> QED
    BY <1>2, <1>6, <2>1, <2>2, <2>3
<1>8. /\ Text(r) \in Texts
      /\ Len(Text(r)) = n + 2 + Len(tail) + 1
      /\ \A i \in 1 .. n + 2 + Len(tail) : Text(r)[i] = line[i]
      /\ Text(r)[n + 2 + Len(tail) + 1] = "newline"
  BY <1>3, <1>7, Zenon DEF Texts
<1>9. /\ Text(r)[1] = r.op /\ Text(r)[2] = "space"
      /\ \A i \in 1 .. n : Text(r)[2 + i] = r.key[i]
  <2>1. Len(tail) \in Nat
    BY <1>2
  <2>2. \A i \in 1 .. n + 2 : i \in 1 .. n + 2 + Len(tail)
    BY <1>4, <2>1
  <2>3. \A i \in 1 .. n + 2 : Text(r)[i] = front[i]
    BY <1>6, <1>8, <2>2
  <2> QED
    BY <1>4, <1>5, <2>3
<1>10. r.op # "PUT" => Len(Text(r)) = n + 3 /\ Text(r)[n + 3] = "newline"
  BY <1>2, <1>4, <1>8
<1>11. ASSUME r.op = "PUT"
       PROVE  /\ Len(Text(r)) = n + 5
              /\ Text(r)[n + 3] = "space" /\ Text(r)[n + 4] = r.value /\ Text(r)[n + 5] = "newline"
  <2>1. Len(tail) = 2 /\ tail[1] = "space" /\ tail[2] = r.value
    BY <1>2, <1>11
  <2>2. line[n + 2 + 1] = tail[1] /\ line[n + 2 + 2] = tail[2]
    BY <1>6, <2>1
  <2>3. n + 2 + 1 = n + 3 /\ n + 2 + 2 = n + 4 /\ n + 2 + 2 + 1 = n + 5
    BY <1>4
  <2>4. n + 3 \in 1 .. n + 2 + Len(tail) /\ n + 4 \in 1 .. n + 2 + Len(tail)
    BY <1>4, <2>1
  <2> QED
    BY <1>8, <2>1, <2>2, <2>3, <2>4
<1> QED
  BY <1>8, <1>9, <1>10, <1>11 DEF n

\* GET and DELETE get back their key.
LEMMA ShortKey ==
  ASSUME NEW r \in Requests, r.op # "PUT"
  PROVE  TrimmedKey(Text(r)) = r.key
<1> DEFINE n == Len(r.key)
           s == Text(r)
           S == {2} \cup {i \in 3 .. Len(s) : s[i] \notin Blanks}
<1>1. n \in Nat \ {0} /\ r.key \in Seq(Letters) /\ r.key \in Seq(Tokens)
  BY RequestParts, PiecesTyped
<1>2. /\ s \in Seq(Tokens) /\ Len(s) = n + 3 /\ s[n + 3] = "newline"
      /\ \A i \in 1 .. n : s[2 + i] = r.key[i]
  BY TextParts DEF Texts
<1>3. s[n + 2] \notin Blanks
  <2>1. r.key[n] \in Letters
    BY <1>1, ElementOfSeq
  <2>2. n \in 1 .. n /\ 2 + n = n + 2
    BY <1>1
  <2>3. s[n + 2] = r.key[n]
    BY <1>2, <2>2
  <2> QED
    BY <2>1, <2>3, ServerAssumption
<1> HIDE DEF n, s
<1>4. n + 2 \in S
  BY <1>1, <1>2, <1>3
<1>5. S \in SUBSET Int /\ \A i \in S : n + 2 >= i
  BY <1>1, <1>2 DEF Blanks
<1>6. Max(S) = n + 2
  BY <1>4, <1>5, MaxIs
<1>7. TrimmedKey(s) = SubSeq(s, 3, n + 2)
  BY <1>6 DEF TrimmedKey
<1>8. SubSeq(s, 2 + 1, 2 + n) = r.key
  <2>1. r.key \in Seq(Tokens) /\ s \in Seq(Tokens) /\ 2 \in Nat
    BY <1>1, <1>2
  <2>2. \A i \in 1 .. Len(r.key) : s[2 + i] = r.key[i]
    BY <1>2 DEF n
  <2>3. SubSeq(s, 2 + 1, 2 + Len(r.key)) = r.key
    BY <2>1, <2>2, SliceIs
  <2> QED
    BY <2>3 DEF n
<1>9. 2 + 1 = 3 /\ 2 + n = n + 2
  BY <1>1
<1> QED
  BY <1>7, <1>8, <1>9 DEF s

\* PUT gets back its key, and its value with the end of the line.
LEMMA PutParts ==
  ASSUME NEW r \in Requests, r.op = "PUT"
  PROVE  PutKey(Text(r)) = r.key /\ PutValue(Text(r)) = <<r.value, "newline">>
<1> DEFINE n == Len(r.key)
           s == Text(r)
           v == <<r.value, "newline">>
<1>1. n \in Nat \ {0} /\ r.key \in Seq(Letters) /\ r.key \in Seq(Tokens)
  BY RequestParts, PiecesTyped
<1>2. /\ s \in Seq(Tokens) /\ Len(s) = n + 5
      /\ s[n + 3] = "space" /\ s[n + 4] = r.value /\ s[n + 5] = "newline"
      /\ \A i \in 1 .. n : s[2 + i] = r.key[i]
  BY TextParts DEF Texts
<1>3. ASSUME NEW i \in 3 .. n + 2 PROVE s[i] # "space"
  <2>1. i - 2 \in 1 .. n /\ 2 + (i - 2) = i
    BY <1>1
  <2>2. r.key[i - 2] \in Letters
    BY <1>1, <2>1, ElementOfSeq
  <2>3. s[i] = r.key[i - 2]
    BY <1>2, <2>1
  <2> QED
    BY <2>2, <2>3, ServerAssumption DEF Blanks
<1>4. v \in Seq(Tokens) /\ Len(v) = 2 /\ v[1] = r.value /\ v[2] = "newline"
  BY RequestParts DEF Tokens, Blanks
<1> HIDE DEF n, s, v
<1>5. n + 3 \in Spaces(s) /\ Spaces(s) \in SUBSET Int /\ \A i \in Spaces(s) : n + 3 <= i
  BY <1>1, <1>2, <1>3 DEF Spaces
<1>6. Min(Spaces(s)) = n + 3 /\ Spaces(s) # {}
  BY <1>5, MinIs
<1>7. PutKey(s) = SubSeq(s, 3, n + 2) /\ PutValue(s) = SubSeq(s, n + 4, n + 5)
  BY <1>1, <1>2, <1>6 DEF PutKey, PutValue
<1>8. SubSeq(s, 2 + 1, 2 + n) = r.key
  <2>1. r.key \in Seq(Tokens) /\ s \in Seq(Tokens) /\ 2 \in Nat
    BY <1>1, <1>2
  <2>2. \A i \in 1 .. Len(r.key) : s[2 + i] = r.key[i]
    BY <1>2 DEF n
  <2>3. SubSeq(s, 2 + 1, 2 + Len(r.key)) = r.key
    BY <2>1, <2>2, SliceIs
  <2> QED
    BY <2>3 DEF n
<1>9. SubSeq(s, (n + 3) + 1, (n + 3) + 2) = v
  <2>1. \A i \in 1 .. 2 : s[(n + 3) + i] = v[i]
    BY <1>1, <1>2, <1>4
  <2>2. n + 3 \in Nat
    BY <1>1
  <2> QED
    BY <1>2, <1>4, <2>1, <2>2, SliceIs
<1>10. 2 + 1 = 3 /\ 2 + n = n + 2 /\ (n + 3) + 1 = n + 4 /\ (n + 3) + 2 = n + 5
  BY <1>1
<1> QED
  BY <1>7, <1>8, <1>9, <1>10 DEF s, v

\* No request is just a command word.
LEMMA LinesDoNotThrow ==
  ASSUME NEW r \in Requests
  PROVE  ~Throws(Text(r)) /\ Text(r)[1] = r.op /\ Text(r) \in Texts
<1>1. Len(r.key) \in Nat \ {0}
  BY RequestParts
<1> QED
  BY <1>1, TextParts DEF Throws

\* What PUT cuts out of a request is text.
LEMMA PutTyped ==
  ASSUME NEW s \in Texts, s # <<>>, s[1] = "PUT", ~Throws(s)
  PROVE  PutKey(s) \in Texts /\ PutValue(s) \in Texts
<1>1. Len(s) \in Nat \ {0} /\ s \in Seq(Tokens)
  BY EmptySeq DEF Texts
<1>2. ASSUME NEW m \in Nat \ {0}, NEW n \in Int, n <= Len(s) PROVE SubSeq(s, m, n) \in Texts
  BY <1>1, <1>2, SliceTyped DEF Texts
<1>3. CASE Spaces(s) = {}
  BY <1>1, <1>2, <1>3 DEF PutKey, PutValue
<1>4. CASE Spaces(s) # {}
  <2>1. Spaces(s) \in SUBSET Nat
    BY <1>1 DEF Spaces
  <2>2. Min(Spaces(s)) \in Spaces(s)
    BY <1>4, <2>1, FirstNumber
  <2>3. Min(Spaces(s)) \in 3 .. Len(s)
    BY <2>2 DEF Spaces
  <2> QED
    BY <1>1, <1>2, <1>4, <2>3 DEF PutKey, PutValue
<1> QED
  BY <1>3, <1>4

----------------------------------------------------------------------------
(* The invariant.                                                          *)

\* The first of a sequence.
LEMMA HeadIs ==
  ASSUME NEW T, NEW s \in Seq(T), s # <<>>
  PROVE  Head(s) = s[1] /\ Len(s) \in Nat \ {0} /\ 1 \in 1 .. Len(s) /\ s[1] \in T
<1>1. Len(s) \in Nat \ {0}
  BY EmptySeq
<1>2. 1 \in 1 .. Len(s)
  BY <1>1
<1> QED
  BY <1>1, <1>2, ElementOfSeq

\* A store of texts gives legitimate answers that are texts.
LEMMA LegitTyped ==
  ASSUME NEW r \in Requests, NEW m, \A k \in DOMAIN m : m[k] \in Texts
  PROVE  Legit(r, m) \subseteq Answers
<1> DEFINE A == Tokens \cup {"OK", "ERROR", "NOT_FOUND", "UNKNOWN_COMMAND"}
<1>1. "newline" \in A /\ "OK" \in A /\ "ERROR" \in A /\ "NOT_FOUND" \in A
  BY DEF Tokens, Blanks
<1>2. \A t \in Texts : t \in Seq(A)
  BY SeqMonotonic DEF Texts
<1> HIDE DEF A
<1>3. Ok \in Seq(A) /\ Error \in Seq(A) /\ NotFound \in Seq(A)
  BY <1>1 DEF Ok, Error, NotFound
<1>4. \A t \in Seq(A) : Append(t, "newline") \in Seq(A)
  BY <1>1
<1>5. \A k \in DOMAIN m : Append(m[k], "newline") \in Seq(A)
  BY <1>2, <1>4
<1> QED
  BY <1>3, <1>5 DEF Legit, Answers, A

\* When the store comes to show m, its requests still may get their answers from it.
LEMMA ShowsFacts ==
  ASSUME TypeOK, StillOwed, NEW m, \A k \in DOMAIN m : m[k] \in Texts,
         Shows(m), UNCHANGED written
  PROVE  /\ pending' \in [Clients -> Seq(Owed)]
         /\ StillOwed'
         /\ \A c \in Clients : pending[c] # <<>> =>
              /\ pending'[c] # <<>>
              /\ Head(pending'[c]).request = Head(pending[c]).request
              /\ Head(pending'[c]).request \in Requests
              /\ Head(pending[c]).may \cup Legit(Head(pending[c]).request, m)
                   \subseteq Head(pending'[c]).may
<1> DEFINE new(c) == [i \in 1 .. Len(pending[c]) |->
             [pending[c][i] EXCEPT !.may = @ \cup Legit(pending[c][i].request, m)]]
<1>1. store' = m /\ pending' = [c \in Clients |-> new(c)]
  BY DEF Shows
<1>2. ASSUME NEW c \in Clients, NEW i \in 1 .. Len(pending[c])
      PROVE  /\ pending[c][i] \in Owed
             /\ new(c)[i] \in Owed
             /\ new(c)[i].request = pending[c][i].request
             /\ new(c)[i].may = pending[c][i].may \cup Legit(pending[c][i].request, m)
  <2>1. pending[c] \in Seq(Owed)
    BY DEF TypeOK
  <2>2. pending[c][i] \in Owed
    BY <2>1, ElementOfSeq
  <2>3. Legit(pending[c][i].request, m) \subseteq Answers
    BY <2>2, LegitTyped DEF Owed
  <2> QED
    BY <2>2, <2>3 DEF Owed
<1>3. ASSUME NEW c \in Clients PROVE new(c) \in Seq(Owed) /\ Len(new(c)) = Len(pending[c])
  <2>1. Len(pending[c]) \in Nat
    BY EmptySeq, LenProperties DEF TypeOK
  <2>2. new(c) \in [1 .. Len(pending[c]) -> Owed]
    BY <1>2
  <2> HIDE DEF new
  <2> QED
    BY <2>1, <2>2
<1>4. pending' \in [Clients -> Seq(Owed)]
  <2> HIDE DEF new
  <2> QED
    BY <1>1, <1>3
<1>5. \A c \in Clients : pending'[c] = new(c)
  <2> HIDE DEF new
  <2> QED
    BY <1>1
<1> HIDE DEF new
<1>6. StillOwed'
  <2>1. ASSUME NEW c \in Clients, NEW i \in 1 .. Len(pending'[c])
        PROVE  /\ Legit(pending'[c][i].request, m) \subseteq pending'[c][i].may
               /\ pending'[c][i].request = pending[c][i].request
               /\ i \in 1 .. Len(pending[c])
    BY <1>2, <1>3, <1>5
  <2> QED
    BY <1>1, <2>1 DEF StillOwed, Legit
<1>7. ASSUME NEW c \in Clients, pending[c] # <<>>
      PROVE  /\ pending'[c] # <<>>
             /\ Head(pending'[c]).request = Head(pending[c]).request
             /\ Head(pending'[c]).request \in Requests
             /\ Head(pending[c]).may \cup Legit(Head(pending[c]).request, m)
                  \subseteq Head(pending'[c]).may
  <2>1. Head(pending[c]) = pending[c][1] /\ Len(pending[c]) \in Nat \ {0} /\ 1 \in 1 .. Len(pending[c])
    BY <1>7, HeadIs DEF TypeOK
  <2>2. pending'[c] \in Seq(Owed) /\ pending'[c] # <<>> /\ pending'[c][1] = new(c)[1]
    BY <1>3, <1>5, <2>1
  <2>3. Head(pending'[c]) = pending'[c][1]
    BY <2>2, HeadIs
  <2> QED
    BY <1>2, <2>1, <2>2, <2>3 DEF Owed
<1> QED
  BY <1>4, <1>6, <1>7

\* A step of the connection alone.
LEMMA ConnectionStep ==
  ASSUME ServerInv, up,
         UNCHANGED <<up, store, buffer, response, faults, pending, misread, written>>,
         peer' \in [Clients -> {"out", "in", "left", "reset"}],
         inbox' \in [Clients -> Texts],
         at' \in [Clients -> {"backlog", "recv", "serve", "send", "done"}],
         \A c \in Clients : at'[c] \in {at[c], "backlog", "recv", "done"}
  PROVE  ServerInv'
<1> USE DEF ServerInv
<1>1. TypeOK'
  BY DEF TypeOK
<1>2. \A c \in Clients : at'[c] \in {"serve", "send"} => at'[c] = at[c]
  OBVIOUS
<1>3. ServesItsOwn'
  BY <1>2 DEF ServesItsOwn
<1>4. StillOwed'
  BY DEF StillOwed, Legit
<1>5. AnswersAtomic'
  BY <1>2 DEF AnswersAtomic
<1>6. NoForeignData' /\ DiesOnlyOfSplitsAndLeavers'
  BY DEF NoForeignData, DiesOnlyOfSplitsAndLeavers
<1> QED
  BY <1>1, <1>3, <1>4, <1>5, <1>6

\* A client's request is owed an answer from the moment it is sent.
LEMMA SendStep ==
  ASSUME ServerInv, NEW c \in Clients, NEW r \in Requests, Send(c, r)
  PROVE  ServerInv'
<1> USE DEF ServerInv
<1> DEFINE owed == [request |-> r, may |-> Legit(r, store)]
<1>1. /\ up /\ UNCHANGED <<up, store, peer, at, buffer, response, faults, misread>>
      /\ inbox' = [inbox EXCEPT ![c] = @ \o Text(r)]
      /\ pending' = IF misread[c] THEN pending ELSE [pending EXCEPT ![c] = Append(@, owed)]
      /\ written \subseteq written'
      /\ r.op = "PUT" => <<r.key, <<r.value, "newline">>>> \in written'
  BY DEF Send, threadVars
<1>2. owed \in Owed
  BY LegitTyped DEF TypeOK, Owed
<1>3. inbox' \in [Clients -> Texts]
  <2>1. inbox[c] \in Texts /\ Text(r) \in Texts
    BY TextParts DEF TypeOK
  <2>2. inbox[c] \o Text(r) \in Texts
    BY <2>1, TwoParts DEF Texts
  <2> QED
    BY <1>1, <2>2 DEF TypeOK
<1>4. ASSUME NEW d \in Clients
      PROVE  /\ pending[d] \in Seq(Owed) /\ pending'[d] \in Seq(Owed)
             /\ Len(pending[d]) \in Nat /\ Len(pending'[d]) >= Len(pending[d])
             /\ \A i \in 1 .. Len(pending[d]) : pending'[d][i] = pending[d][i]
             /\ \A i \in 1 .. Len(pending'[d]) : i \in 1 .. Len(pending[d]) \/ pending'[d][i] = owed
  <2>1. pending[d] \in Seq(Owed) /\ Len(pending[d]) \in Nat
    BY LenProperties DEF TypeOK
  <2>2. pending'[d] = pending[d] \/ pending'[d] = Append(pending[d], owed)
    BY <1>1 DEF TypeOK
  <2>3. /\ Append(pending[d], owed) \in Seq(Owed)
        /\ Len(Append(pending[d], owed)) = Len(pending[d]) + 1
        /\ \A i \in 1 .. Len(pending[d]) : Append(pending[d], owed)[i] = pending[d][i]
        /\ Append(pending[d], owed)[Len(pending[d]) + 1] = owed
    <3> HIDE DEF owed
    <3> QED
      BY <1>2, <2>1
  <2> HIDE DEF owed
  <2> QED
    BY <2>1, <2>2, <2>3
<1>5. pending' \in [Clients -> Seq(Owed)]
  <2>1. pending' \in [Clients -> Seq(Owed)] \/ pending' = pending
    BY <1>1, <1>4 DEF TypeOK
  <2> QED
    BY <2>1 DEF TypeOK
<1>6. ASSUME NEW d \in Clients, pending[d] # <<>>
      PROVE  pending'[d] # <<>> /\ Head(pending'[d]) = Head(pending[d])
  <2>1. Len(pending[d]) \in Nat \ {0} /\ Head(pending[d]) = pending[d][1]
    BY <1>4, <1>6, HeadIs
  <2>2. pending'[d] # <<>> /\ pending'[d][1] = pending[d][1]
    BY <1>4, <2>1
  <2> QED
    BY <1>4, <2>1, <2>2, HeadIs
<1>7. TypeOK'
  BY <1>1, <1>3, <1>5 DEF TypeOK
<1>8. ServesItsOwn'
  BY <1>1, <1>6 DEF ServesItsOwn
<1>9. StillOwed'
  <2>1. ASSUME NEW d \in Clients, NEW i \in 1 .. Len(pending'[d])
        PROVE  /\ Legit(pending'[d][i].request, store) \subseteq pending'[d][i].may
               /\ pending'[d][i].request.op = "PUT" =>
                    <<pending'[d][i].request.key, <<pending'[d][i].request.value, "newline">>>> \in written'
    <3>1. CASE i \in 1 .. Len(pending[d])
      BY <1>1, <1>4, <3>1 DEF StillOwed
    <3>2. CASE pending'[d][i] = owed
      BY <1>1, <3>2
    <3> QED
      BY <1>4, <3>1, <3>2
  <2> QED
    BY <1>1, <2>1 DEF StillOwed, Legit
<1>10. AnswersAtomic'
  BY <1>1, <1>6 DEF AnswersAtomic
<1>11. NoForeignData' /\ DiesOnlyOfSplitsAndLeavers' /\ faults' \in Nat
  BY <1>1 DEF NoForeignData, DiesOnlyOfSplitsAndLeavers
<1> QED
  BY <1>7, <1>8, <1>9, <1>10, <1>11

\* A thread that received a request whole works on the oldest one owed.
LEMMA RecvStep ==
  ASSUME ServerInv, NEW c \in Clients, Recv(c)
  PROVE  ServerInv'
<1> USE DEF ServerInv
<1>1. PICK n \in 1 .. Len(inbox[c]) :
        /\ buffer' = [buffer EXCEPT ![c] = SubSeq(inbox[c], 1, n)]
        /\ inbox' = [inbox EXCEPT ![c] = SubSeq(@, n + 1, Len(@))]
        /\ Received(c, buffer'[c])
  BY DEF Recv
<1>2. /\ up /\ at[c] = "recv" /\ at' = [at EXCEPT ![c] = "serve"]
      /\ UNCHANGED <<up, store, peer, sent, response, faults, written>>
  BY DEF Recv
<1>3. inbox[c] \in Seq(Tokens) /\ Len(inbox[c]) \in Nat /\ n \in Nat \ {0}
  BY LenProperties DEF TypeOK, Texts
<1>4. /\ SubSeq(inbox[c], 1, n) \in Texts /\ SubSeq(inbox[c], 1, n) # <<>>
      /\ SubSeq(inbox[c], n + 1, Len(inbox[c])) \in Texts
  <2>1. SubSeq(inbox[c], 1, n) \in Texts /\ SubSeq(inbox[c], n + 1, Len(inbox[c])) \in Texts
    BY <1>3, SliceTyped DEF Texts
  <2>2. \A i \in 1 .. n : inbox[c][i] \in Tokens
    BY <1>3, ElementOfSeq
  <2>3. Len(SubSeq(inbox[c], 1, n)) = n
    BY <1>3, <2>2, SubSeqProperties
  <2> QED
    BY <1>3, <2>1, <2>3
<1>5. /\ misread' \in [Clients -> BOOLEAN]
      /\ \A d \in Clients : ~misread'[d] => ~misread[d]
      /\ \A d \in Clients \ {c} : misread'[d] = misread[d]
      /\ ~misread'[c] => pending[c] # <<>> /\ buffer'[c] = Text(Head(pending[c]).request)
      /\ pending' = IF misread'[c] THEN [pending EXCEPT ![c] = <<>>] ELSE pending
  BY <1>1 DEF Received, TypeOK
<1>6. /\ pending' \in [Clients -> Seq(Owed)]
      /\ \A d \in Clients : pending'[d] = pending[d] \/ (pending'[d] = <<>> /\ d = c /\ misread'[c])
  BY <1>5 DEF TypeOK
<1>7. TypeOK'
  <2>1. inbox' \in [Clients -> Texts] /\ buffer' \in [Clients -> Texts] /\ buffer'[c] # <<>>
    BY <1>1, <1>4 DEF TypeOK
  <2>2. \A d \in Clients \ {c} : at'[d] = at[d] /\ buffer'[d] = buffer[d]
    BY <1>1, <1>2 DEF TypeOK
  <2> QED
    BY <1>2, <1>5, <1>6, <2>1, <2>2 DEF TypeOK
<1>8. ServesItsOwn'
  <2>1. ASSUME NEW d \in Clients, at'[d] \in {"serve", "send"}, ~misread'[d]
        PROVE  pending'[d] # <<>> /\ (at'[d] = "serve" => buffer'[d] = Text(Head(pending'[d]).request))
    <3>1. CASE d = c
      BY <1>5, <1>6, <2>1, <3>1
    <3>2. CASE d # c
      <4>1. at'[d] = at[d] /\ buffer'[d] = buffer[d] /\ pending'[d] = pending[d] /\ ~misread[d]
        BY <1>1, <1>2, <1>5, <1>6, <2>1, <3>2 DEF TypeOK
      <4> QED
        BY <2>1, <4>1 DEF ServesItsOwn
    <3> QED
      BY <3>1, <3>2
  <2> QED
    BY <2>1 DEF ServesItsOwn
<1>9. StillOwed'
  <2>1. ASSUME NEW d \in Clients, NEW i \in 1 .. Len(pending'[d])
        PROVE  i \in 1 .. Len(pending[d]) /\ pending'[d][i] = pending[d][i]
    <3>1. Len(<<>>) = 0
      OBVIOUS
    <3>2. pending'[d] # <<>>
      BY <3>1
    <3> QED
      BY <1>6, <3>2
  <2>2. ASSUME NEW d \in Clients, NEW i \in 1 .. Len(pending'[d])
        PROVE  /\ Legit(pending'[d][i].request, store) \subseteq pending'[d][i].may
               /\ pending'[d][i].request.op = "PUT" =>
                    <<pending'[d][i].request.key, <<pending'[d][i].request.value, "newline">>>> \in written
    <3>1. i \in 1 .. Len(pending[d]) /\ pending'[d][i] = pending[d][i]
      BY <2>1
    <3>2. StillOwed
      OBVIOUS
    <3>3. /\ Legit(pending[d][i].request, store) \subseteq pending[d][i].may
          /\ pending[d][i].request.op = "PUT" =>
               <<pending[d][i].request.key, <<pending[d][i].request.value, "newline">>>> \in written
      BY ONLY <3>1, <3>2, d \in Clients DEF StillOwed
    <3> QED
      BY ONLY <3>1, <3>3
  <2> QED
    BY <1>2, <2>2 DEF StillOwed, Legit
<1>10. AnswersAtomic'
  <2>1. ASSUME NEW d \in Clients, at'[d] = "send", ~misread'[d]
        PROVE  at[d] = "send" /\ pending'[d] = pending[d] /\ response'[d] = response[d] /\ ~misread[d]
    BY <1>2, <1>5, <1>6, <2>1 DEF TypeOK
  <2> QED
    BY <2>1 DEF AnswersAtomic
<1>11. NoForeignData' /\ DiesOnlyOfSplitsAndLeavers' /\ faults' \in Nat
  BY <1>2, <1>5 DEF NoForeignData, DiesOnlyOfSplitsAndLeavers
<1> QED
  BY <1>7, <1>8, <1>9, <1>10, <1>11

\* What a thread that serves a request works on.
LEMMA Serves ==
  ASSUME ServerInv, NEW c \in Clients, at[c] = "serve"
  PROVE  /\ buffer[c] \in Texts /\ buffer[c] # <<>>
         /\ ~misread[c] =>
              /\ pending[c] # <<>> /\ Head(pending[c]) \in Owed
              /\ Head(pending[c]).request \in Requests
              /\ buffer[c] = Text(Head(pending[c]).request)
              /\ buffer[c][1] = Head(pending[c]).request.op
              /\ ~Throws(buffer[c])
              /\ Legit(Head(pending[c]).request, store) \subseteq Head(pending[c]).may
              /\ Head(pending[c]).request.op = "PUT" =>
                   <<Head(pending[c]).request.key,
                     <<Head(pending[c]).request.value, "newline">>>> \in written
<1> USE DEF ServerInv
<1>1. buffer[c] \in Texts /\ buffer[c] # <<>>
  BY DEF TypeOK
<1>2. ASSUME ~misread[c]
      PROVE  /\ pending[c] # <<>> /\ buffer[c] = Text(Head(pending[c]).request)
             /\ Head(pending[c]) = pending[c][1] /\ 1 \in 1 .. Len(pending[c]) /\ pending[c][1] \in Owed
  <2>1. pending[c] # <<>> /\ buffer[c] = Text(Head(pending[c]).request)
    BY <1>2 DEF ServesItsOwn
  <2>2. pending[c] \in Seq(Owed)
    BY DEF TypeOK
  <2> QED
    BY <2>1, <2>2, HeadIs
<1>3. ASSUME ~misread[c] PROVE Head(pending[c]).request \in Requests
  BY <1>2, <1>3 DEF Owed
<1>4. ASSUME ~misread[c]
      PROVE  buffer[c][1] = Head(pending[c]).request.op /\ ~Throws(buffer[c])
  BY <1>2, <1>3, <1>4, LinesDoNotThrow
<1> QED
  BY <1>1, <1>2, <1>3, <1>4 DEF StillOwed

\* A thread that answers from the store as it is, or as it comes to be.
LEMMA RespondStep ==
  ASSUME ServerInv, NEW c \in Clients, at[c] = "serve", up,
         NEW m, \A k \in DOMAIN m : k \in Texts /\ m[k] \in Texts,
         Shows(m) \/ (UNCHANGED <<store, pending>> /\ m = store),
         NEW s \in Answers, Respond(c, s), faults' \in Nat,
         ~misread[c] => s \in Legit(Head(pending[c]).request, m),
         (\A d \in Clients : ~misread[d]) => \A k \in DOMAIN m : <<k, m[k]>> \in written
  PROVE  ServerInv'
<1> USE DEF ServerInv
<1>1. /\ UNCHANGED <<up, peer, inbox, buffer, misread, written>>
      /\ response' = [response EXCEPT ![c] = s] /\ at' = [at EXCEPT ![c] = "send"]
      /\ store' = m
  BY DEF Respond, netVars, Shows
<1>2. /\ pending' \in [Clients -> Seq(Owed)]
      /\ StillOwed'
      /\ \A d \in Clients : pending[d] # <<>> =>
           /\ pending'[d] # <<>>
           /\ Head(pending'[d]).request = Head(pending[d]).request
           /\ Head(pending[d]).may \subseteq Head(pending'[d]).may
  <2>1. CASE Shows(m)
    BY <1>1, <2>1, ShowsFacts
  <2>2. CASE UNCHANGED <<store, pending>> /\ m = store
    BY <1>1, <2>2 DEF TypeOK, StillOwed, Legit
  <2> QED
    BY <2>1, <2>2
<1>3. ~misread[c] => pending'[c] # <<>> /\ s \in Head(pending'[c]).may
  <2>1. CASE Shows(m)
    BY <1>1, <2>1, Serves, ShowsFacts
  <2>2. CASE UNCHANGED <<store, pending>> /\ m = store
    BY <2>2, Serves
  <2> QED
    BY <2>1, <2>2
<1>4. \A d \in Clients \ {c} : at'[d] = at[d] /\ response'[d] = response[d]
  BY <1>1 DEF TypeOK
<1>5. at'[c] = "send" /\ response'[c] = s
  BY <1>1 DEF TypeOK
<1>6. TypeOK'
  <2>1. /\ at' \in [Clients -> {"backlog", "recv", "serve", "send", "done"}]
        /\ response' \in [Clients -> Answers]
    BY <1>1 DEF TypeOK
  <2> QED
    BY <1>1, <1>2, <1>4, <1>5, <2>1 DEF TypeOK
<1>7. ServesItsOwn'
  BY <1>1, <1>2, <1>3, <1>4, <1>5 DEF ServesItsOwn
<1>8. AnswersAtomic'
  BY <1>1, <1>2, <1>3, <1>4, <1>5 DEF AnswersAtomic
<1>9. NoForeignData' /\ DiesOnlyOfSplitsAndLeavers'
  BY <1>1 DEF NoForeignData, DiesOnlyOfSplitsAndLeavers
<1> QED
  BY <1>2, <1>6, <1>7, <1>8, <1>9

\* The fixed answers are answers.
LEMMA FixedAnswers == {Ok, Error, NotFound, Unknown} \subseteq Answers
<1> DEFINE A == Tokens \cup {"OK", "ERROR", "NOT_FOUND", "UNKNOWN_COMMAND"}
<1>1. "newline" \in A /\ {"OK", "ERROR", "NOT_FOUND", "UNKNOWN_COMMAND"} \subseteq A
  BY DEF Tokens, Blanks
<1> HIDE DEF A
<1>2. {Ok, Error, NotFound, Unknown} \subseteq Seq(A)
  BY <1>1 DEF Ok, Error, NotFound, Unknown
<1> QED
  BY <1>2 DEF Answers, A

LEMMA ServePutStep ==
  ASSUME ServerInv, NEW c \in Clients, ServePut(c)
  PROVE  ServerInv'
<1> DEFINE k == PutKey(buffer[c])
           v == PutValue(buffer[c])
           m == [x \in DOMAIN store \cup {k} |-> IF x = k THEN v ELSE store[x]]
<1>1. /\ up /\ at[c] = "serve" /\ buffer[c][1] = "PUT" /\ ~Throws(buffer[c])
      /\ Shows(m) /\ Respond(c, Ok) /\ faults' = faults
  BY DEF ServePut, Serving
<1>2. k \in Texts /\ v \in Texts
  BY <1>1, Serves, PutTyped
<1>3. \A j \in DOMAIN m : j \in Texts /\ m[j] \in Texts
  <2> HIDE DEF k, v
  <2> QED
    BY <1>2 DEF ServerInv, TypeOK
<1>4. ~misread[c] => /\ Head(pending[c]).request.op = "PUT"
                     /\ k = Head(pending[c]).request.key
                     /\ v = <<Head(pending[c]).request.value, "newline">>
                     /\ <<k, v>> \in written
  BY <1>1, Serves, PutParts
<1>5. ~misread[c] => Ok \in Legit(Head(pending[c]).request, m)
  BY <1>4 DEF Legit
<1>6. (\A d \in Clients : ~misread[d]) => \A j \in DOMAIN m : <<j, m[j]>> \in written
  <2> HIDE DEF k, v
  <2> QED
    BY <1>4 DEF ServerInv, NoForeignData
<1>7. Ok \in Answers /\ faults' \in Nat
  BY <1>1, FixedAnswers DEF ServerInv
<1> HIDE DEF m
<1> QED
  BY <1>1, <1>3, <1>5, <1>6, <1>7, RespondStep

LEMMA ServeDeleteStep ==
  ASSUME ServerInv, NEW c \in Clients, ServeDelete(c)
  PROVE  ServerInv'
<1> DEFINE m == [x \in DOMAIN store \ {TrimmedKey(buffer[c])} |-> store[x]]
<1>1. /\ up /\ at[c] = "serve" /\ buffer[c][1] = "DELETE"
      /\ Shows(m) /\ Respond(c, Ok) /\ faults' = faults
  BY DEF ServeDelete, Serving
<1>2. \A j \in DOMAIN m : j \in Texts /\ m[j] \in Texts
  BY DEF ServerInv, TypeOK
<1>3. ~misread[c] => Ok \in Legit(Head(pending[c]).request, m)
  BY <1>1, Serves DEF Legit
<1>4. (\A d \in Clients : ~misread[d]) => \A j \in DOMAIN m : <<j, m[j]>> \in written
  BY DEF ServerInv, NoForeignData
<1>5. Ok \in Answers /\ faults' \in Nat
  BY <1>1, FixedAnswers DEF ServerInv
<1> HIDE DEF m
<1> QED
  BY <1>1, <1>2, <1>3, <1>4, <1>5, RespondStep

\* Answers that leave the store as it is.
LEMMA ServeOtherStep ==
  ASSUME ServerInv, NEW c \in Clients, ServeError(c) \/ ServeGet(c) \/ ServeUnknown(c)
  PROVE  ServerInv'
<1>1. up /\ at[c] = "serve" /\ UNCHANGED <<store, pending>> /\ faults' \in Nat
  BY DEF ServeError, ServeGet, ServeUnknown, Serving, ServerInv
<1>2. \A k \in DOMAIN store : k \in Texts /\ store[k] \in Texts
  BY DEF ServerInv, TypeOK
<1>3. (\A d \in Clients : ~misread[d]) => \A j \in DOMAIN store : <<j, store[j]>> \in written
  BY DEF ServerInv, NoForeignData
<1>4. CASE ServeError(c)
  <2>1. Respond(c, Error) /\ (buffer[c][1] = "PUT" \/ buffer[c][1] = "DELETE")
    BY <1>4 DEF ServeError, Serving
  <2>2. ~misread[c] => Error \in Legit(Head(pending[c]).request, store)
    BY <1>1, <2>1, Serves DEF Legit
  <2>3. Error \in Answers
    BY FixedAnswers
  <2> QED
    BY <1>1, <1>2, <1>3, <2>1, <2>2, <2>3, RespondStep
<1>5. CASE ServeGet(c)
  <2> DEFINE k == TrimmedKey(buffer[c])
             s == IF k \in DOMAIN store THEN Append(store[k], "newline") ELSE NotFound
  <2>1. Respond(c, s) /\ buffer[c][1] = "GET"
    BY <1>5 DEF ServeGet, Serving
  <2>2. ~misread[c] => /\ Head(pending[c]).request \in Requests
                       /\ Head(pending[c]).request.op = "GET"
                       /\ k = Head(pending[c]).request.key
    BY <1>1, <2>1, Serves, ShortKey
  <2>3. ~misread[c] => s \in Legit(Head(pending[c]).request, store)
    <3> HIDE DEF k
    <3> QED
      BY <2>2 DEF Legit
  <2>4. s \in Answers
    <3>1. k \in DOMAIN store => Append(store[k], "newline") \in Answers
      <4> DEFINE A == Tokens \cup {"OK", "ERROR", "NOT_FOUND", "UNKNOWN_COMMAND"}
      <4>1. "newline" \in A
        BY DEF Tokens, Blanks
      <4>2. \A t \in Texts : t \in Seq(A)
        BY SeqMonotonic DEF Texts
      <4> HIDE DEF A, k
      <4>3. k \in DOMAIN store => store[k] \in Seq(A)
        BY <1>2, <4>2
      <4> QED
        BY <4>1, <4>3 DEF Answers, A
    <3> HIDE DEF k
    <3> QED
      BY <3>1, FixedAnswers
  <2> HIDE DEF s
  <2> QED
    BY <1>1, <1>2, <1>3, <2>1, <2>3, <2>4, RespondStep
<1>6. CASE ServeUnknown(c)
  <2>1. Respond(c, Unknown) /\ buffer[c][1] \notin Commands
    BY <1>6 DEF ServeUnknown
  <2>2. misread[c]
    <3>1. ASSUME ~misread[c] PROVE FALSE
      BY <1>1, <2>1, <3>1, Serves, RequestParts
    <3> QED
      BY <3>1 DEF ServerInv, TypeOK
  <2>3. Unknown \in Answers
    BY FixedAnswers
  <2> QED
    BY <1>1, <1>2, <1>3, <2>1, <2>2, <2>3, RespondStep
<1> QED
  BY <1>4, <1>5, <1>6

\* Only a request that is not whole, or an exception of the store, ends the process.
LEMMA TerminateStep ==
  ASSUME ServerInv, NEW c \in Clients, Terminate(c)
  PROVE  ServerInv'
<1> USE DEF ServerInv
<1>1. /\ up' = FALSE /\ at[c] = "serve"
      /\ UNCHANGED <<store, peer, inbox, at, buffer, response, pending, misread, written>>
      /\ (Throws(buffer[c]) /\ faults' = faults) \/ faults' = faults + 1
  BY DEF Terminate, netVars, threadVars
<1>2. misread[c] \/ faults' # 0
  <2>1. faults \in Nat /\ (Throws(buffer[c]) => misread[c])
    BY <1>1, Serves
  <2> QED
    BY <1>1, <2>1
<1>3. TypeOK' /\ faults' \in Nat
  <2>1. faults' \in Nat
    BY <1>1
  <2>2. TypeOK'
    BY <1>1 DEF TypeOK
  <2> QED
    BY <2>1, <2>2
<1>4. ServesItsOwn' /\ AnswersAtomic'
  BY <1>1 DEF ServesItsOwn, AnswersAtomic
<1>5. StillOwed' /\ NoForeignData'
  BY <1>1 DEF StillOwed, Legit, NoForeignData
<1>6. DiesOnlyOfSplitsAndLeavers'
  BY <1>1, <1>2 DEF DiesOnlyOfSplitsAndLeavers
<1> QED
  BY <1>3, <1>4, <1>5, <1>6

\* A thread that cannot be created ends it, too.
LEMMA AcceptThrowsStep ==
  ASSUME ServerInv, NEW c \in Clients, AcceptThrows(c)
  PROVE  ServerInv'
<1> USE DEF ServerInv
<1>1. /\ up' = FALSE /\ faults' = faults + 1
      /\ UNCHANGED <<store, peer, inbox, at, buffer, response, pending, misread, written>>
  BY DEF AcceptThrows, netVars, threadVars
<1>2. faults' \in Nat /\ faults' # 0
  BY <1>1
<1>3. TypeOK'
  BY <1>1 DEF TypeOK, Texts
<1>4. ServesItsOwn' /\ AnswersAtomic'
  BY <1>1 DEF ServesItsOwn, AnswersAtomic
<1>5. StillOwed' /\ NoForeignData' /\ DiesOnlyOfSplitsAndLeavers'
  BY <1>1, <1>2 DEF StillOwed, Legit, NoForeignData, DiesOnlyOfSplitsAndLeavers
<1> QED
  BY <1>2, <1>3, <1>4, <1>5

\* An answer that is sent settles the oldest request.
LEMMA SendResponseStep ==
  ASSUME ServerInv, NEW c \in Clients, SendResponse(c)
  PROVE  ServerInv'
<1> USE DEF ServerInv
<1>1. /\ up /\ at[c] = "send"
      /\ peer' = [peer EXCEPT ![c] = IF @ = "left" THEN "reset" ELSE @]
      /\ UNCHANGED <<store, inbox, sent, faults, misread, written>>
  BY DEF SendResponse
<1>2. peer' \in [Clients -> {"out", "in", "left", "reset"}]
  BY <1>1 DEF TypeOK
<1>3. CASE peer[c] = "reset" /\ up' = FALSE /\ UNCHANGED <<threadVars, pending>>
  <2>1. TypeOK' /\ ServesItsOwn' /\ AnswersAtomic'
    BY <1>1, <1>2, <1>3 DEF TypeOK, ServesItsOwn, AnswersAtomic, threadVars
  <2>2. StillOwed' /\ NoForeignData'
    BY <1>1, <1>3 DEF StillOwed, Legit, NoForeignData
  <2>3. peer'[c] = "reset"
    BY <1>1, <1>3 DEF TypeOK
  <2> QED
    BY <1>1, <2>1, <2>2, <2>3 DEF DiesOnlyOfSplitsAndLeavers
<1>4. CASE /\ at' = [at EXCEPT ![c] = "recv"]
           /\ buffer' = [buffer EXCEPT ![c] = <<>>]
           /\ response' = [response EXCEPT ![c] = <<>>]
           /\ pending' = IF misread[c] THEN pending ELSE [pending EXCEPT ![c] = Tail(@)]
           /\ UNCHANGED up
  <2>1. pending[c] \in Seq(Owed) /\ (~misread[c] => pending[c] # <<>>)
    BY <1>1 DEF TypeOK, AnswersAtomic
  <2>2. ~misread[c] => /\ Tail(pending[c]) \in Seq(Owed)
                       /\ Len(Tail(pending[c])) = Len(pending[c]) - 1
                       /\ Len(pending[c]) \in Nat \ {0}
                       /\ \A i \in 1 .. Len(Tail(pending[c])) : Tail(pending[c])[i] = pending[c][i + 1]
    BY <2>1, EmptySeq, HeadTailProperties
  <2>3. pending' \in [Clients -> Seq(Owed)]
    BY <1>4, <2>2 DEF TypeOK
  <2>4. \A d \in Clients \ {c} :
          at'[d] = at[d] /\ pending'[d] = pending[d] /\ buffer'[d] = buffer[d] /\ response'[d] = response[d]
    BY <1>4 DEF TypeOK
  <2>5. at'[c] = "recv"
    BY <1>4 DEF TypeOK
  <2>6. TypeOK'
    <3>1. <<>> \in Texts /\ <<>> \in Answers
      BY DEF Texts, Answers
    <3>2. buffer' \in [Clients -> Texts] /\ response' \in [Clients -> Answers]
      BY <1>4, <3>1 DEF TypeOK
    <3>3. at' \in [Clients -> {"backlog", "recv", "serve", "send", "done"}]
      BY <1>4 DEF TypeOK
    <3> QED
      BY <1>1, <1>2, <1>4, <2>3, <2>4, <2>5, <3>2, <3>3 DEF TypeOK
  <2>7. ServesItsOwn' /\ AnswersAtomic'
    BY <1>1, <2>4, <2>5 DEF ServesItsOwn, AnswersAtomic
  <2>8. StillOwed'
    <3>1. ASSUME NEW d \in Clients, NEW i \in 1 .. Len(pending'[d])
          PROVE  \E j \in 1 .. Len(pending[d]) : pending'[d][i] = pending[d][j]
      <4>1. CASE pending'[d] = pending[d]
        BY <4>1
      <4>2. CASE pending'[d] # pending[d]
        <5>1. d = c /\ ~misread[c] /\ pending'[d] = Tail(pending[c])
          BY <1>4, <2>4, <4>2 DEF TypeOK
        <5>2. i + 1 \in 1 .. Len(pending[d]) /\ pending'[d][i] = pending[d][i + 1]
          BY <2>2, <5>1
        <5> QED
          BY <5>2
      <4> QED
        BY <4>1, <4>2
    <3>2. ASSUME NEW d \in Clients, NEW i \in 1 .. Len(pending'[d])
          PROVE  /\ Legit(pending'[d][i].request, store) \subseteq pending'[d][i].may
                 /\ pending'[d][i].request.op = "PUT" =>
                      <<pending'[d][i].request.key, <<pending'[d][i].request.value, "newline">>>> \in written
      <4>1. PICK j \in 1 .. Len(pending[d]) : pending'[d][i] = pending[d][j]
        BY <3>1
      <4>2. StillOwed
        OBVIOUS
      <4>3. /\ Legit(pending[d][j].request, store) \subseteq pending[d][j].may
            /\ pending[d][j].request.op = "PUT" =>
                 <<pending[d][j].request.key, <<pending[d][j].request.value, "newline">>>> \in written
        BY ONLY <4>2, d \in Clients, j \in 1 .. Len(pending[d]) DEF StillOwed
      <4> QED
        BY ONLY <4>1, <4>3
    <3> QED
      BY <1>1, <3>2 DEF StillOwed, Legit
  <2>9. NoForeignData' /\ DiesOnlyOfSplitsAndLeavers' /\ faults' \in Nat
    BY <1>1, <1>4 DEF NoForeignData, DiesOnlyOfSplitsAndLeavers
  <2> QED
    BY <2>6, <2>7, <2>8, <2>9
<1> QED
  BY <1>3, <1>4 DEF SendResponse

LEMMA ForgetStep ==
  ASSUME ServerInv, NEW k, Forget(k)
  PROVE  ServerInv'
<1> USE DEF ServerInv
<1> DEFINE m == [x \in DOMAIN store \ {k} |-> store[x]]
<1>1. /\ up /\ Shows(m) /\ store' = m
      /\ UNCHANGED <<up, peer, inbox, at, buffer, response, faults, misread, written>>
  BY DEF Forget, Shows, netVars, threadVars
<1>2. \A j \in DOMAIN m : j \in Texts /\ m[j] \in Texts /\ j \in DOMAIN store /\ m[j] = store[j]
  BY DEF TypeOK
<1> HIDE DEF m
<1>3. /\ pending' \in [Clients -> Seq(Owed)]
      /\ StillOwed'
      /\ \A c \in Clients : pending[c] # <<>> =>
           /\ pending'[c] # <<>>
           /\ Head(pending'[c]).request = Head(pending[c]).request
           /\ Head(pending[c]).may \subseteq Head(pending'[c]).may
  BY <1>1, <1>2, ShowsFacts
<1>4. TypeOK'
  BY <1>1, <1>2, <1>3 DEF TypeOK
<1>5. ServesItsOwn' /\ AnswersAtomic'
  BY <1>1, <1>3 DEF ServesItsOwn, AnswersAtomic
<1>6. NoForeignData' /\ DiesOnlyOfSplitsAndLeavers'
  BY <1>1, <1>2 DEF NoForeignData, DiesOnlyOfSplitsAndLeavers
<1> QED
  BY <1>1, <1>3, <1>4, <1>5, <1>6

\* A server that just started is in step.
LEMMA InitInStep == ASSUME Init PROVE ServerInv
<1>1. <<>> \in Texts /\ <<>> \in Answers /\ <<>> \in Seq(Owed) /\ Len(<<>>) = 0 /\ DOMAIN <<>> = {}
  BY DEF Texts, Answers
<1>2. TypeOK /\ faults \in Nat
  BY <1>1 DEF Init, TypeOK
<1>3. StillOwed
  BY <1>1 DEF Init, StillOwed
<1>4. NoForeignData
  BY <1>1 DEF Init, NoForeignData
<1>5. ServesItsOwn /\ AnswersAtomic /\ DiesOnlyOfSplitsAndLeavers
  BY DEF Init, ServesItsOwn, AnswersAtomic, DiesOnlyOfSplitsAndLeavers
<1> QED
  BY <1>2, <1>3, <1>4, <1>5 DEF ServerInv

\* Every step keeps the server in step.
LEMMA NextInStep == ASSUME ServerInv, [Next]_vars PROVE ServerInv'
<1>1. ASSUME NEW c \in Clients, Connect(c) PROVE ServerInv'
  <2>1. /\ up /\ UNCHANGED <<up, store, buffer, response, faults, pending, misread, written>>
        /\ UNCHANGED <<inbox, at>> /\ peer' = [peer EXCEPT ![c] = "in"]
    BY <1>1 DEF Connect, threadVars
  <2> QED
    BY <2>1, ConnectionStep DEF ServerInv, TypeOK
<1>2. ASSUME NEW c \in Clients, Leave(c) PROVE ServerInv'
  <2>1. /\ up /\ UNCHANGED <<up, store, buffer, response, faults, pending, misread, written>>
        /\ UNCHANGED <<inbox, at>>
        /\ peer' \in {[peer EXCEPT ![c] = "left"], [peer EXCEPT ![c] = "reset"]}
    BY <1>2 DEF Leave, threadVars
  <2> QED
    BY <2>1, ConnectionStep DEF ServerInv, TypeOK
<1>3. ASSUME NEW c \in Clients, Accept(c) PROVE ServerInv'
  <2>1. /\ up /\ UNCHANGED <<up, store, buffer, response, faults, pending, misread, written>>
        /\ UNCHANGED <<inbox, peer>> /\ at' = [at EXCEPT ![c] = "recv"]
    BY <1>3 DEF Accept, netVars
  <2> QED
    BY <2>1, ConnectionStep DEF ServerInv, TypeOK
<1>4. ASSUME NEW c \in Clients, EndOfStream(c) PROVE ServerInv'
  <2>1. /\ up /\ UNCHANGED <<up, store, buffer, response, faults, pending, misread, written>>
        /\ UNCHANGED peer /\ inbox' = [inbox EXCEPT ![c] = <<>>] /\ at' = [at EXCEPT ![c] = "done"]
    BY <1>4 DEF EndOfStream
  <2>2. <<>> \in Texts
    BY DEF Texts
  <2>3. /\ inbox' \in [Clients -> Texts] /\ peer' \in [Clients -> {"out", "in", "left", "reset"}]
        /\ at' \in [Clients -> {"backlog", "recv", "serve", "send", "done"}]
        /\ \A d \in Clients : at'[d] \in {at[d], "backlog", "recv", "done"}
    BY <2>1, <2>2 DEF ServerInv, TypeOK
  <2> QED
    BY <2>1, <2>3, ConnectionStep
<1>5. CASE UNCHANGED vars
  <2>1. UNCHANGED <<up, store, peer, inbox, at, buffer, response, faults, pending, misread, written>>
    BY <1>5 DEF vars, netVars, threadVars
  <2>2. TypeOK' /\ ServesItsOwn' /\ AnswersAtomic' /\ faults' \in Nat
    BY <2>1 DEF ServerInv, TypeOK, ServesItsOwn, AnswersAtomic
  <2>3. StillOwed' /\ NoForeignData' /\ DiesOnlyOfSplitsAndLeavers'
    BY <2>1 DEF ServerInv, StillOwed, Legit, NoForeignData, DiesOnlyOfSplitsAndLeavers
  <2> QED
    BY <2>2, <2>3 DEF ServerInv
<1> QED
  BY <1>1, <1>2, <1>3, <1>4, <1>5, SendStep, RecvStep, ServePutStep, ServeDeleteStep,
     ServeOtherStep, TerminateStep, AcceptThrowsStep, SendResponseStep, ForgetStep
  DEF Next, Thread

\* The server is always in step with its clients.
THEOREM ServerInvariance == Spec => []ServerInv
<1>1. Init => ServerInv
  BY InitInStep
<1>2. ServerInv /\ [Next]_vars => ServerInv'
  BY NextInStep
<1> QED
  BY <1>1, <1>2, PTL DEF Spec

\* Requests that are received whole are answered as by an atomic map, each thread
\* its own client's, with any number of clients and however their steps mix.
THEOREM AnswersAreAtomic == Spec => []AnswersAtomic
<1>1. ServerInv => AnswersAtomic
  BY DEF ServerInv
<1> QED
  BY <1>1, ServerInvariance, PTL

\* As long as no request is cut, the store shows only pairs that clients wrote.
THEOREM OnlyWrittenPairs == Spec => []NoForeignData
<1>1. ServerInv => NoForeignData
  BY DEF ServerInv
<1> QED
  BY <1>1, ServerInvariance, PTL

\* Without an exception of the store, the server dies only of a request that is not
\* received whole, or of a client that is gone when it is answered.
THEOREM SurvivesWholeRequests == Spec => []DiesOnlyOfSplitsAndLeavers
<1>1. ServerInv => DiesOnlyOfSplitsAndLeavers
  BY DEF ServerInv
<1> QED
  BY <1>1, ServerInvariance, PTL

\* Every variable of the server keeps its type: a request, answer or hit is one
\* that a thread at its step has, whatever interleaving led there.
THEOREM ServerTypes == Spec => []TypeOK
<1>1. ServerInv => TypeOK
  BY DEF ServerInv
<1> QED
  BY <1>1, ServerInvariance, PTL
=============================================================================
