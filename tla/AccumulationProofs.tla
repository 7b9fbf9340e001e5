-------------------------- MODULE AccumulationProofs --------------------------
(***************************************************************************)
(* Proofs about Accumulation: all its properties but PushedIsMean, which   *)
(* does not hold.                                                          *)
(*                                                                         *)
(* TotalCounts is a recursive function of the length of a sequence. That   *)
(* there is one, and how it grows with the sequence, is shown by taking    *)
(* the least number at which it would fail (LeastNatural).                 *)
(***************************************************************************)
EXTENDS Accumulation, WellFoundedInduction, FiniteSetTheorems, TLAPS

-----------------------------------------------------------------------------
(* The counts of a sequence of frames. *)

LEMMA LeastNatural ==
  ASSUME NEW T, T \subseteq Nat, T # {}
  PROVE  \E m \in T : \A k \in T : ~(k < m)
<1> DEFINE R == {ss \in Nat \X Nat : ss[1] < ss[2]}
<1>1. IsWellFoundedOn(R, Nat)
  BY NatLessThanWellFounded DEF OpToRel
<1>2. \A k, m \in Nat : <<k, m>> \in R <=> k < m
  OBVIOUS
<1> HIDE DEF R
<1>3. PICK m \in T : \A k \in T : ~(<<k, m>> \in R)
  BY <1>1, WFMin
<1> QED
  BY <1>2, <1>3

\* t has the partial sums of the counts of s, up to n frames.
Sums(t, s, n) ==
  t = [m \in 0..n |-> IF m = 0 THEN 0 ELSE t[m - 1] + s[m].counts]

LEMMA SumsExist ==
  ASSUME NEW s, NEW L \in Nat, \A i \in 1..L : s[i].counts \in Nat
  PROVE  \E t : Sums(t, s, L) /\ \A m \in 0..L : t[m] \in Nat
<1> DEFINE Has(n) == \E t \in [0..n -> Nat] : Sums(t, s, n)
           T == {n \in 0..L : ~Has(n)}
<1>1. SUFFICES ASSUME T # {} PROVE FALSE
  <2>1. L \in 0..L
    OBVIOUS
  <2>2. Has(L)
    BY <1>1, <2>1
  <2> QED BY <2>2
<1>2. T \subseteq Nat
  OBVIOUS
<1>3. PICK n \in T : \A k \in T : ~(k < n)
  <2> HIDE DEF T
  <2> QED BY <1>1, <1>2, LeastNatural
<1>4. n \in 0..L /\ ~Has(n)
  OBVIOUS
<1>5. CASE n = 0
  <2> DEFINE t == [m \in 0..0 |-> 0]
  <2>1. t \in [0..0 -> Nat] /\ Sums(t, s, 0)
    BY DEF Sums
  <2> QED BY <1>4, <1>5, <2>1
<1>6. CASE n > 0
  <2>1. n - 1 \in 0..L /\ n - 1 < n
    BY <1>4, <1>6
  <2>2. Has(n - 1)
    BY <1>3, <2>1
  <2>3. PICK t \in [0..(n - 1) -> Nat] : Sums(t, s, n - 1)
    BY <2>2
  <2> DEFINE u == [m \in 0..n |-> IF m = n THEN t[n - 1] + s[n].counts ELSE t[m]]
  <2>4. s[n].counts \in Nat /\ n \in Nat
    BY <1>4, <1>6
  <2>5. u \in [0..n -> Nat]
    BY <2>4, <1>6
  <2>6. \A m \in 0..n : u[m] = IF m = 0 THEN 0 ELSE u[m - 1] + s[m].counts
    BY <2>3, <2>4, <1>6 DEF Sums
  <2>7. Sums(u, s, n)
    <3> HIDE DEF u
    <3> QED BY <2>5, <2>6 DEF Sums
  <2> QED BY <1>4, <2>5, <2>7
<1> QED BY <1>4, <1>5, <1>6

LEMMA SumsAgree ==
  ASSUME NEW s, NEW r, NEW L \in Nat, NEW K \in Nat, K <= L,
         NEW t, NEW u, Sums(t, s, K), Sums(u, r, L),
         \A i \in 1..K : s[i] = r[i]
  PROVE  \A m \in 0..K : t[m] = u[m]
<1> DEFINE T == {n \in 0..K : t[n] # u[n]}
<1>1. SUFFICES ASSUME T # {} PROVE FALSE
  OBVIOUS
<1>2. T \subseteq Nat
  OBVIOUS
<1>3. PICK n \in T : \A k \in T : ~(k < n)
  <2> HIDE DEF T
  <2> QED BY <1>1, <1>2, LeastNatural
<1>4. n \in 0..K /\ t[n] # u[n]
  OBVIOUS
<1>5. n > 0
  BY <1>4 DEF Sums
<1>6. t[n - 1] = u[n - 1]
  <2>1. n - 1 \in 0..K /\ n - 1 < n
    BY <1>4, <1>5
  <2> QED BY <1>3, <2>1
<1>7. t[n] = t[n - 1] + s[n].counts
  BY <1>4, <1>5 DEF Sums
<1>8. u[n] = u[n - 1] + r[n].counts
  BY <1>4, <1>5 DEF Sums
<1> QED BY <1>4, <1>5, <1>6, <1>7, <1>8

LEMMA CountsType ==
  /\ \A f \in Frames : f.counts \in 0..MaxSum /\ f.counts \in Nat
  /\ \A s \in Seq(Frames) : \A i \in 1..Len(s) : s[i].counts \in Nat
<1>1. \A f \in Frames : f.counts \in Counts
  BY DEF Frames
<1>2. \A f \in Frames : f.counts \in 0..MaxSum /\ f.counts \in Nat
  <2>1. Counts \subseteq 0..MaxSum /\ Counts \subseteq Nat
    BY AccumulationAssumption
  <2> QED BY <1>1, <2>1
<1>3. \A s \in Seq(Frames) : \A i \in 1..Len(s) : s[i] \in Frames
  OBVIOUS
<1> QED BY <1>2, <1>3

LEMMA TotalIsSum ==
  ASSUME NEW s \in Seq(Frames)
  PROVE  \E t : Sums(t, s, Len(s)) /\ TotalCounts(s) = t[Len(s)]
<1>1. \A i \in 1..Len(s) : s[i].counts \in Nat
  BY CountsType
<1>2. \E t : Sums(t, s, Len(s))
  BY <1>1, SumsExist
<1>3. TotalCounts(s) = (CHOOSE t : Sums(t, s, Len(s)))[Len(s)]
  BY DEF TotalCounts, Sums
<1> QED BY <1>2, <1>3

LEMMA TotalEmpty == TotalCounts(<<>>) = 0
<1>1. <<>> \in Seq(Frames) /\ Len(<<>>) = 0
  OBVIOUS
<1>2. PICK t : Sums(t, <<>>, 0) /\ TotalCounts(<<>>) = t[0]
  BY <1>1, TotalIsSum
<1> QED BY <1>2 DEF Sums

LEMMA TotalAppend ==
  ASSUME NEW s \in Seq(Frames), NEW f \in Frames
  PROVE  /\ TotalCounts(s) \in Nat
         /\ TotalCounts(Append(s, f)) = TotalCounts(s) + f.counts
<1> DEFINE r == Append(s, f)
<1>1. r \in Seq(Frames) /\ Len(r) = Len(s) + 1 /\ \A i \in 1..Len(s) : s[i] = r[i]
  OBVIOUS
<1>2. r[Len(s) + 1] = f
  OBVIOUS
<1> HIDE DEF r
<1>3. PICK t : Sums(t, s, Len(s)) /\ TotalCounts(s) = t[Len(s)]
  BY TotalIsSum
<1>4. PICK u : Sums(u, r, Len(r)) /\ TotalCounts(r) = u[Len(r)]
  BY <1>1, TotalIsSum
<1>5. Len(s) \in Nat
  OBVIOUS
<1>6. \A m \in 0..Len(s) : t[m] = u[m]
  <2> DEFINE n == Len(s)
             l == Len(r)
  <2>1. n \in Nat /\ l \in Nat /\ n <= l
    BY <1>1, <1>5
  <2>2. Sums(t, s, n) /\ Sums(u, r, l)
    BY <1>3, <1>4
  <2>3. \A i \in 1..n : s[i] = r[i]
    BY <1>1
  <2> HIDE DEF n, l
  <2>4. \A m \in 0..n : t[m] = u[m]
    BY ONLY <2>1, <2>2, <2>3, SumsAgree
  <2> QED BY <2>4 DEF n
<1>7. u[Len(s) + 1] = u[Len(s)] + f.counts
  BY <1>1, <1>2, <1>4, <1>5 DEF Sums
<1>8. t[Len(s)] \in Nat
  <2>1. PICK v : Sums(v, s, Len(s)) /\ \A m \in 0..Len(s) : v[m] \in Nat
    <3>1. \A i \in 1..Len(s) : s[i].counts \in Nat
      BY CountsType
    <3> QED BY <3>1, <1>5, SumsExist
  <2>2. \A m \in 0..Len(s) : v[m] = t[m]
    BY <1>3, <1>5, <2>1, SumsAgree
  <2> QED BY <1>5, <2>1, <2>2
<1> QED BY <1>1, <1>3, <1>4, <1>5, <1>6, <1>7, <1>8 DEF r
-----------------------------------------------------------------------------
(* Buffers: b is the end of s. *)

EndsWith(s, b) ==
  /\ Len(b) <= Len(s)
  /\ \A i \in 1..Len(b) : b[i] = s[(Len(s) - Len(b)) + i]

LEMMA Part ==
  ASSUME NEW S, NEW s \in Seq(S), NEW t \in Nat, NEW n \in Nat, t + n <= Len(s)
  PROVE  LET part == SubSeq(s, t + 1, t + n)
         IN  part \in Seq(S) /\ Len(part) = n /\ \A k \in 1..n : part[k] = s[t + k]
OBVIOUS

LEMMA EndIsPart ==
  ASSUME NEW s \in Seq(Frames), NEW b \in Seq(Frames), Len(b) <= Len(s)
  PROVE  b = SubSeq(s, Len(s) - Len(b) + 1, Len(s)) <=> EndsWith(s, b)
<1> DEFINE t == Len(s) - Len(b)
           part == SubSeq(s, t + 1, t + Len(b))
<1>1. t \in Nat /\ Len(b) \in Nat /\ t + Len(b) = Len(s)
  OBVIOUS
<1>2. part = SubSeq(s, Len(s) - Len(b) + 1, Len(s))
  BY <1>1
<1> HIDE DEF t
<1>3. part \in Seq(Frames) /\ Len(part) = Len(b) /\ \A k \in 1..Len(b) : part[k] = s[t + k]
  BY <1>1, Part
<1> HIDE DEF part
<1>4. b = part <=> \A k \in 1..Len(b) : b[k] = part[k]
  BY <1>3
<1>5. b = part <=> \A k \in 1..Len(b) : b[k] = s[t + k]
  BY <1>3, <1>4
<1> QED BY <1>2, <1>5 DEF EndsWith, t

LEMMA NewestIsEnd ==
  ASSUME NEW b \in Seq(Frames), NEW n \in Nat, n > 0
  PROVE  LET new == Newest(b, n)
         IN  /\ new \in Seq(Frames) /\ Len(new) <= n /\ Len(new) <= Len(b)
             /\ EndsWith(b, new)
             /\ b # <<>> => new # <<>>
<1> DEFINE new == Newest(b, n)
           l == IF Len(b) > n THEN n ELSE Len(b)
           t == Len(b) - l
<1>1. t \in Nat /\ l \in Nat /\ t + l = Len(b) /\ l <= n /\ l <= Len(b)
  OBVIOUS
<1>2. t + 1 = IF Len(b) > n THEN Len(b) - n + 1 ELSE 1
  OBVIOUS
<1>3. new = SubSeq(b, t + 1, t + l)
  BY <1>1, <1>2 DEF Newest
<1>4. b # <<>> => l > 0
  OBVIOUS
<1> HIDE DEF l, t, new
<1>5. new \in Seq(Frames) /\ Len(new) = l /\ \A k \in 1..l : new[k] = b[t + k]
  BY <1>1, <1>3, Part
<1>6. EndsWith(b, new)
  <2>1. Len(new) <= Len(b) /\ Len(b) - Len(new) = t
    BY <1>1, <1>5
  <2> QED BY <1>5, <2>1 DEF EndsWith
<1>7. b # <<>> => new # <<>>
  BY <1>4, <1>5
<1> QED BY <1>1, <1>5, <1>6, <1>7 DEF new

LEMMA EndOfEnd ==
  ASSUME NEW s \in Seq(Frames), NEW b \in Seq(Frames), NEW c \in Seq(Frames),
         EndsWith(s, b), EndsWith(b, c)
  PROVE  EndsWith(s, c)
<1>1. Len(s) \in Nat /\ Len(b) \in Nat /\ Len(c) \in Nat /\ Len(c) <= Len(b) /\ Len(b) <= Len(s)
  BY DEF EndsWith
<1>2. ASSUME NEW i \in 1..Len(c) PROVE c[i] = s[(Len(s) - Len(c)) + i]
  <2> DEFINE k == (Len(b) - Len(c)) + i
  <2>1. k \in 1..Len(b) /\ (Len(s) - Len(b)) + k = (Len(s) - Len(c)) + i
    BY <1>1
  <2>2. c[i] = b[k]
    BY DEF EndsWith
  <2> HIDE DEF k
  <2>3. b[k] = s[(Len(s) - Len(b)) + k]
    BY <2>1 DEF EndsWith
  <2> QED BY <2>1, <2>2, <2>3
<1> QED BY <1>1, <1>2 DEF EndsWith

LEMMA AppendedEnd ==
  ASSUME NEW s \in Seq(Frames), NEW b \in Seq(Frames), NEW f \in Frames, EndsWith(s, b)
  PROVE  EndsWith(Append(s, f), Append(b, f))
<1>1. Len(s) \in Nat /\ Len(b) \in Nat /\ Len(b) <= Len(s)
  BY DEF EndsWith
<1> DEFINE r == Append(s, f)
           c == Append(b, f)
<1>2. /\ Len(r) = Len(s) + 1 /\ r[Len(s) + 1] = f
      /\ \A i \in 1..Len(s) : r[i] = s[i]
  OBVIOUS
<1>3. /\ Len(c) = Len(b) + 1 /\ c[Len(b) + 1] = f
      /\ \A i \in 1..Len(b) : c[i] = b[i]
  OBVIOUS
<1> HIDE DEF r, c
<1>4. ASSUME NEW i \in 1..Len(c) PROVE c[i] = r[(Len(r) - Len(c)) + i]
  <2>1. (Len(r) - Len(c)) + i = (Len(s) - Len(b)) + i
    BY <1>1, <1>2, <1>3
  <2>2. CASE i = Len(b) + 1
    <3>1. (Len(s) - Len(b)) + i = Len(s) + 1
      BY <1>1, <2>2
    <3> QED BY <1>2, <1>3, <2>1, <2>2, <3>1
  <2>3. CASE i \in 1..Len(b)
    <3>1. (Len(s) - Len(b)) + i \in 1..Len(s)
      BY <1>1, <2>3
    <3>2. b[i] = s[(Len(s) - Len(b)) + i]
      BY <2>3 DEF EndsWith
    <3> QED BY <1>2, <1>3, <2>1, <2>3, <3>1, <3>2
  <2> QED BY <1>1, <1>3, <2>2, <2>3
<1>5. Len(c) <= Len(r)
  BY <1>1, <1>2, <1>3
<1> QED BY <1>4, <1>5 DEF EndsWith, r, c

LEMMA EmptyEnd == \A s \in Seq(Frames) : EndsWith(s, <<>>)
BY DEF EndsWith

-----------------------------------------------------------------------------
(* Sums of N. *)

\* A sum has at most as many frames as the sequence it is made of, and just as
\* many if all of them are different and of one size.
LEMMA SetOfSequence ==
  ASSUME NEW s \in Seq(Frames)
  PROVE  /\ ToSet(s) \subseteq Frames /\ IsFiniteSet(ToSet(s)) /\ Cardinality(ToSet(s)) \in Nat
         /\ Cardinality(ToSet(s)) <= Len(s)
         /\ (\A i, j \in 1..Len(s) : s[i] = s[j] => i = j) => Cardinality(ToSet(s)) = Len(s)
<1> DEFINE T == ToSet(s)
<1>1. Len(s) \in Nat /\ DOMAIN s = 1..Len(s) /\ s \in [1..Len(s) -> Frames]
  OBVIOUS
<1>2. T = {s[i] : i \in 1..Len(s)}
  BY <1>1 DEF ToSet
<1>3. s \in Surjection(1..Len(s), T)
  BY <1>1, <1>2 DEF Surjection
<1>4. IsFiniteSet(1..Len(s)) /\ Cardinality(1..Len(s)) = Len(s)
  BY <1>1, FS_Interval
<1> HIDE DEF T
<1>5. /\ IsFiniteSet(T) /\ Cardinality(T) <= Len(s)
      /\ Cardinality(T) = Len(s) <=> s \in Injection(1..Len(s), T)
  BY <1>3, <1>4, FS_Surjection
<1>6. Cardinality(T) \in Nat
  BY <1>5, FS_CardinalityType
<1>7. ASSUME \A i, j \in 1..Len(s) : s[i] = s[j] => i = j
      PROVE  s \in Injection(1..Len(s), T)
  BY <1>3, <1>7 DEF Surjection, Injection, IsInjective
<1>8. T \subseteq Frames
  BY <1>1, <1>2
<1> QED BY <1>5, <1>6, <1>7, <1>8 DEF T

LEMMA SummedType ==
  ASSUME NEW s \in Seq(Frames)
  PROVE  /\ Summed(s) \subseteq Frames
         /\ Cardinality(Summed(s)) \in Nat /\ Cardinality(Summed(s)) <= Len(s)
         /\ \A f \in Summed(s) : f.size = s[1].size /\ \E i \in 1..Len(s) : f = s[i]
<1>1. Summed(s) \in SUBSET ToSet(s)
  BY DEF Summed
<1>2. /\ ToSet(s) \subseteq Frames /\ IsFiniteSet(ToSet(s))
      /\ Cardinality(ToSet(s)) \in Nat /\ Cardinality(ToSet(s)) <= Len(s)
  BY SetOfSequence
<1>3. /\ IsFiniteSet(Summed(s)) /\ Cardinality(Summed(s)) <= Cardinality(ToSet(s))
  BY <1>1, <1>2, FS_Subset
<1>4. Cardinality(Summed(s)) \in Nat
  BY <1>3, FS_CardinalityType
<1>5. ASSUME NEW f \in Summed(s)
      PROVE  f.size = s[1].size /\ \E i \in 1..Len(s) : f = s[i]
  BY DEF Summed, ToSet
<1>6. Cardinality(Summed(s)) <= Len(s)
  BY <1>2, <1>3, <1>4
<1> QED BY <1>1, <1>2, <1>4, <1>5, <1>6

LEMMA SumOfType ==
  ASSUME NEW b \in Seq(Frames), b # <<>>, TypeOK
  PROVE  /\ SumOf(b) \in [frames : SUBSET Frames, room : Sizes \cup {0}]
         /\ SumOf(b).frames = Summed(b)
         /\ SumOf(b).room >= sumBuffer.room /\ SumOf(b).room >= b[1].size
<1>1. b[1] \in Frames
  OBVIOUS
<1>2. b[1].size \in Sizes
  BY <1>1 DEF Frames
<1>3. sumBuffer.room \in Sizes \cup {0}
  BY DEF TypeOK
<1>4. Sizes \subseteq Nat
  BY AccumulationAssumption
<1>5. Summed(b) \subseteq Frames
  BY SummedType
<1>6. SumOf(b) = [frames |-> Summed(b),
                  room |-> IF b[1].size > sumBuffer.room THEN b[1].size ELSE sumBuffer.room]
  BY DEF SumOf
<1> HIDE DEF SumOf
<1>7. SumOf(b).frames = Summed(b)
  BY <1>6
<1>8. /\ SumOf(b).room \in Sizes \cup {0}
      /\ SumOf(b).room >= sumBuffer.room /\ SumOf(b).room >= b[1].size
  <2> DEFINE x == b[1].size
             y == sumBuffer.room
  <2>1. x \in Sizes /\ x \in Nat /\ y \in Sizes \cup {0} /\ y \in Nat
    BY <1>2, <1>3, <1>4
  <2>2. SumOf(b).room = IF x > y THEN x ELSE y
    BY <1>6
  <2> HIDE DEF x, y
  <2>3. SumOf(b).room \in Sizes \cup {0} /\ SumOf(b).room >= y /\ SumOf(b).room >= x
    BY <2>1, <2>2
  <2> QED BY <2>3 DEF x, y
<1>9. SumOf(b) \in [frames : SUBSET Frames, room : Sizes \cup {0}]
  BY <1>5, <1>6, <1>7, <1>8
<1> QED BY <1>7, <1>8, <1>9

-----------------------------------------------------------------------------
(* Sums. *)

Sat(h) == IF h > MaxSum THEN MaxSum ELSE h

\* Division with remainder.
LEMMA Division ==
  ASSUME NEW a \in Nat, NEW k \in Nat, k > 0
  PROVE  /\ a % k \in 0..(k - 1) /\ a \div k \in Nat
         /\ a = (a \div k) * k + (a % k)
OBVIOUS

LEMMA RestOfLess ==
  ASSUME NEW k \in Nat, k > 0, NEW p \in Nat, NEW q \in Nat, p < q,
         NEW i \in 0..(k - 1), NEW j \in 0..(k - 1)
  PROVE  (p * k) + i # (q * k) + j
<1>1. PICK d \in Nat : q = p + 1 + d
  <2>1. (q - p) - 1 \in Nat
    OBVIOUS
  <2> QED BY <2>1
<1>2. d * k \in Nat /\ p * k \in Nat
  OBVIOUS
<1>3. q * k = (p * k) + k + (d * k)
  <2>1. (p + (1 + d)) * k = (p * k) + ((1 + d) * k) /\ (1 + d) * k = k + (d * k)
    OBVIOUS
  <2>2. q = p + (1 + d)
    BY <1>1
  <2> QED BY <1>2, <2>1, <2>2
<1> QED BY <1>2, <1>3

LEMMA RestIsUnique ==
  ASSUME NEW k \in Nat, k > 0, NEW q \in Nat, NEW r \in 0..(k - 1)
  PROVE  ((q * k) + r) % k = r
<1> DEFINE a == (q * k) + r
           p == a \div k
           i == a % k
<1>1. a \in Nat
  OBVIOUS
<1>2. i \in 0..(k - 1) /\ p \in Nat /\ a = (p * k) + i
  <2> HIDE DEF a
  <2> QED BY <1>1, Division
<1>3. a = (q * k) + r
  OBVIOUS
<1> HIDE DEF a, p, i
<1>4. ~(p < q) /\ ~(q < p)
  BY <1>2, <1>3, RestOfLess
<1>5. p = q
  BY <1>2, <1>4
<1>6. q * k \in Nat
  OBVIOUS
<1>7. i = r
  BY <1>2, <1>3, <1>5, <1>6
<1> QED BY <1>7 DEF a, i

\* A remainder may be taken before an addition, too.
LEMMA RestOfSum ==
  ASSUME NEW k \in Nat, k > 0, NEW h \in Nat, NEW c \in Nat
  PROVE  ((h % k) + c) % k = (h + c) % k
<1> DEFINE q == h \div k
           a == (h % k) + c
           p == a \div k
           i == a % k
<1>1. q \in Nat /\ h % k \in Nat /\ h = (q * k) + (h % k)
  BY Division
<1>2. a \in Nat /\ h + c = (q * k) + a
  <2>1. q * k \in Nat
    BY <1>1
  <2> HIDE DEF q
  <2> QED BY <1>1, <2>1
<1> HIDE DEF q, a
<1>3. i \in 0..(k - 1) /\ p \in Nat /\ a = (p * k) + i
  BY <1>2, Division
<1> HIDE DEF p, i
<1>4. (q + p) * k = (q * k) + (p * k) /\ q + p \in Nat
  BY <1>1, <1>3
<1>5. h + c = ((q + p) * k) + i
  <2>1. q * k \in Nat /\ p * k \in Nat
    BY <1>1, <1>3
  <2> QED BY <1>2, <1>3, <1>4, <2>1
<1>6. (h + c) % k = i
  BY <1>3, <1>4, <1>5, RestIsUnique
<1> QED BY <1>6 DEF i, a

LEMMA AddsRight ==
  ASSUME NEW h \in Nat, NEW c \in 0..MaxSum
  PROVE  /\ AddCounts(Sat(h), c) = Sat(h + c)
         /\ ((h % (MaxSum + 1)) + c) % (MaxSum + 1) = (h + c) % (MaxSum + 1)
         /\ Sat(h) \in 0..MaxSum /\ h % (MaxSum + 1) \in 0..MaxSum
<1> DEFINE k == MaxSum + 1
<1>1. MaxSum \in Nat /\ k \in Nat /\ k > 0
  BY AccumulationAssumption
<1>2. h % k \in 0..MaxSum
  BY <1>1
<1>3. ((h % k) + c) % k = (h + c) % k
  <2>1. c \in Nat
    BY <1>1
  <2> HIDE DEF k
  <2> QED BY <1>1, <2>1, RestOfSum
<1>4. Sat(h) \in 0..MaxSum
  BY <1>1 DEF Sat
<1>5. AddCounts(Sat(h), c) = Sat(h + c)
  <2> DEFINE s == Sat(h)
  <2>1. (s + c) % k = IF s + c < k THEN s + c ELSE (s + c) - k
    BY <1>1, <1>4
  <2>2. AddCounts(s, c) = IF s + c < k THEN s + c ELSE MaxSum
    BY <1>1, <1>4, <2>1 DEF AddCounts
  <2> QED BY <1>1, <2>2 DEF Sat
<1> QED BY <1>2, <1>3, <1>4, <1>5
-----------------------------------------------------------------------------
(* The inductive invariant. *)

\* What the history says: frames are numbered as they come, a reset is a change
\* of size, too, and since the last of these all frames have one size.
Received ==
  /\ Len(received) <= MaxFrames
  /\ \A i \in 1..Len(received) : received[i].id = i
  /\ resetAt <= sizeAt /\ sizeAt <= Len(received)
  /\ \A i \in (sizeAt + 1)..Len(received) : received[i].size = received[Len(received)].size

\* Only ImgFramesToSum publishes after it has released the mutex.
OnlyImgCopies == copying.stage # "none" => channel = "Img"

IInv ==
  /\ TypeOK /\ Received /\ RunningIsHistory /\ BufferIsNewest
  /\ OnlyImgCopies /\ CopyStaysInBounds /\ ShownIsCurrent

\* From where on the buffer may hold frames.
Mark == IF channel = "Img" THEN resetAt ELSE sizeAt

LEMMA SizesType == Sizes \cup {0} \subseteq Nat /\ 0 \notin Sizes
BY AccumulationAssumption

LEMMA NumbersType ==
  ASSUME TypeOK
  PROVE  /\ framesToSum \in Nat /\ framesToSum > 0 /\ interval \in Nat /\ interval <= MaxWritten
         /\ MaxWritten \in Nat /\ MaxFrames \in Nat /\ MaxSum \in Nat
         /\ since \in Nat /\ resetAt \in Nat /\ sizeAt \in Nat /\ frameCount \in Nat
         /\ Len(received) \in Nat /\ Len(buffer) \in Nat
<1>1. MaxWritten \in Nat /\ MaxFrames \in Nat /\ MaxSum \in Nat
  BY AccumulationAssumption
<1>2. framesToSum \in 1..MaxWritten /\ interval \in 1..MaxWritten
  BY DEF TypeOK
<1>3. /\ since \in 0..(MaxFrames + MaxWritten)
      /\ resetAt \in 0..MaxFrames /\ sizeAt \in 0..MaxFrames /\ frameCount \in 0..MaxFrames
  BY DEF TypeOK
<1>4. received \in Seq(Frames) /\ buffer \in Seq(Frames)
  BY DEF TypeOK
<1>5. Len(received) \in Nat /\ Len(buffer) \in Nat
  BY <1>4
<1>6. framesToSum \in Nat /\ framesToSum > 0 /\ interval \in Nat /\ interval <= MaxWritten
  BY <1>1, <1>2
<1>7. since \in Nat /\ resetAt \in Nat /\ sizeAt \in Nat /\ frameCount \in Nat
  BY <1>1, <1>3
<1> QED BY <1>1, <1>5, <1>6, <1>7

LEMMA BufferEnds ==
  ASSUME TypeOK, BufferIsNewest
  PROVE  EndsWith(received, buffer) /\ Len(received) - Len(buffer) >= Mark
<1>1. Len(received) - Len(buffer) >= Mark
  BY DEF BufferIsNewest, Mark
<1>2. Len(buffer) <= Len(received)
  BY <1>1, NumbersType DEF Mark
<1>3. received \in Seq(Frames) /\ buffer \in Seq(Frames)
  BY DEF TypeOK
<1> QED BY <1>1, <1>2, <1>3, EndIsPart DEF BufferIsNewest

-----------------------------------------------------------------------------
(* A frame is processed. *)

LEMMA AppendedFrame ==
  ASSUME NEW s \in Seq(Frames), NEW f \in Frames
  PROVE  LET r == Append(s, f)
         IN  /\ r \in Seq(Frames) /\ Len(r) = Len(s) + 1 /\ Len(s) \in Nat
             /\ r[Len(s) + 1] = f /\ \A i \in 1..Len(s) : r[i] = s[i]
OBVIOUS

LEMMA ProcessBuffer ==
  ASSUME IInv, NEW f \in Frames, Process(f)
  PROVE  /\ buffer' \in Seq(Frames) /\ buffer' # <<>> /\ Len(buffer') <= framesToSum
         /\ EndsWith(received', buffer')
         /\ Len(received') - Len(buffer') >= (IF channel = "Img" THEN resetAt ELSE sizeAt')
<1> DEFINE old == Before(f).buffer
           c == Append(old, f)
<1>1. received \in Seq(Frames) /\ buffer \in Seq(Frames)
  BY DEF IInv, TypeOK
<1>2. old = IF Resized(f) /\ channel = "PrvHst" THEN <<>> ELSE buffer
  BY DEF Before
<1>3. channel \in {"Img", "PrvHst"} /\ sizeAt' = IF Resized(f) THEN Len(received) ELSE sizeAt
  BY DEF IInv, TypeOK, Process
<1>4. EndsWith(received, buffer) /\ Len(received) - Len(buffer) >= Mark
  BY BufferEnds DEF IInv
<1>5. /\ resetAt \in Nat /\ sizeAt \in Nat /\ Len(received) \in Nat /\ Len(buffer) \in Nat
      /\ framesToSum \in Nat /\ framesToSum > 0
      /\ resetAt <= sizeAt /\ sizeAt <= Len(received)
  BY NumbersType DEF IInv, Received
<1> DEFINE mark == IF channel = "Img" THEN resetAt ELSE sizeAt'
<1>6. mark \in Nat
  BY <1>3, <1>5
<1> HIDE DEF old
<1>7. /\ old \in Seq(Frames) /\ EndsWith(received, old) /\ Len(old) \in Nat
      /\ Len(received) - Len(old) >= mark
  <2>1. CASE Resized(f) /\ channel = "PrvHst"
    <3>1. old = <<>> /\ sizeAt' = Len(received) /\ mark = Len(received)
      BY <1>2, <1>3, <2>1
    <3>2. Len(old) = 0 /\ old \in Seq(Frames)
      BY <3>1
    <3> QED BY <1>1, <1>5, <3>1, <3>2, EmptyEnd
  <2>2. CASE ~(Resized(f) /\ channel = "PrvHst")
    <3>1. old = buffer /\ mark = Mark
      BY <1>2, <1>3, <2>2 DEF Mark
    <3> QED BY <1>1, <1>4, <1>5, <3>1
  <2> QED BY <2>1, <2>2
<1> HIDE DEF mark, c
<1>8. received' = Append(received, f) /\ buffer' = Newest(c, framesToSum)
  BY DEF Process, c, old
<1>9. c \in Seq(Frames) /\ Len(c) = Len(old) + 1 /\ EndsWith(received', c) /\ c # <<>>
  <2>1. c \in Seq(Frames) /\ Len(c) = Len(old) + 1
    BY <1>7, AppendedFrame DEF c
  <2>2. EndsWith(received', c)
    BY <1>1, <1>7, <1>8, AppendedEnd DEF c
  <2>3. c # <<>>
    BY <1>7, <2>1
  <2> QED BY <2>1, <2>2, <2>3
<1>10. /\ buffer' \in Seq(Frames) /\ Len(buffer') <= framesToSum /\ Len(buffer') <= Len(c)
       /\ EndsWith(c, buffer') /\ buffer' # <<>>
  BY <1>5, <1>8, <1>9, NewestIsEnd
<1>11. received' \in Seq(Frames) /\ Len(received') = Len(received) + 1
  BY <1>1, <1>8, AppendedFrame
<1>12. EndsWith(received', buffer')
  BY <1>9, <1>10, <1>11, EndOfEnd
<1>13. Len(received') - Len(buffer') >= mark
  <2>1. Len(buffer') \in Nat
    BY <1>10
  <2> QED BY <1>5, <1>6, <1>7, <1>9, <1>10, <1>11, <2>1
<1> QED BY <1>10, <1>12, <1>13 DEF mark

\* The sum of N after a frame, and what plugins are given of it.
LEMMA ProcessSum ==
  ASSUME IInv, NEW f \in Frames, Process(f)
  PROVE  /\ sumBuffer' \in [frames : SUBSET Frames, room : Sizes \cup {0}]
         /\ sumBuffer'.room >= sumBuffer.room
         /\ since' \in 0..(MaxFrames + MaxWritten)
         /\ array' \in Arrays
         /\ shown' \subseteq Frames
         /\ shown' = shown \/ shown' = Summed(buffer')
         /\ \/ array' = array
            \/ array' = [size |-> f.size, frames |-> Summed(buffer'),
                         over |-> Cardinality(Summed(buffer'))]
<1> DEFINE n == Before(f).since + 1
<1>1. TypeOK
  BY DEF IInv
<1>2. n \in Nat /\ n > 0
  <2>1. Before(f).since = IF Resized(f) /\ channel = "PrvHst" THEN 0 ELSE since
    BY DEF Before
  <2> QED BY <1>1, <2>1, NumbersType
<1>3. AddToSum(f, Before(f).buffer, n)
  BY DEF Process
<1> HIDE DEF n
<1>4. buffer' \in Seq(Frames) /\ buffer' # <<>> /\ EndsWith(received', buffer')
  BY ProcessBuffer
<1>5. /\ interval \in Nat /\ interval <= MaxWritten /\ MaxWritten \in Nat /\ MaxFrames \in Nat
      /\ Len(received) \in Nat
  BY <1>1, NumbersType
<1>6. CASE n >= interval
  <2>1. sumBuffer' = SumOf(buffer') /\ since' = 0 /\ shown' = sumBuffer'.frames /\ StreamSum(f)
    BY <1>3, <1>6 DEF AddToSum
  <2>2. /\ sumBuffer' \in [frames : SUBSET Frames, room : Sizes \cup {0}]
        /\ sumBuffer'.frames = Summed(buffer')
        /\ sumBuffer'.room >= sumBuffer.room
    BY <1>1, <1>4, <2>1, SumOfType
  <2>3. shown' = Summed(buffer')
    BY <2>1, <2>2
  <2>4. \/ array' = array
        \/ array' = [size |-> f.size, frames |-> Summed(buffer'),
                     over |-> Cardinality(Summed(buffer'))]
    BY <2>1, <2>3 DEF StreamSum
  <2>5. /\ Summed(buffer') \subseteq Frames
        /\ Cardinality(Summed(buffer')) \in Nat /\ Cardinality(Summed(buffer')) <= Len(buffer')
    BY <1>4, SummedType
  <2>6. Cardinality(Summed(buffer')) \in 0..MaxFrames
    <3>1. received \in Seq(Frames) /\ received' = Append(received, f) /\ Len(received) < MaxFrames
      BY <1>1 DEF TypeOK, Process
    <3>2. Len(received') = Len(received) + 1
      BY <3>1, AppendedFrame
    <3>3. Len(buffer') \in Nat /\ Len(buffer') <= Len(received')
      BY <1>4 DEF EndsWith
    <3> QED BY <1>5, <2>5, <3>1, <3>2, <3>3
  <2>7. array' \in Arrays
    <3>1. CASE array' = array
      BY <1>1, <3>1 DEF TypeOK
    <3>2. CASE array' = [size |-> f.size, frames |-> Summed(buffer'),
                         over |-> Cardinality(Summed(buffer'))]
      <4>1. f.size \in Sizes
        BY DEF Frames
      <4>2. f.size \in Sizes \cup {0} /\ Summed(buffer') \in SUBSET Frames
        BY <2>5, <4>1
      <4> DEFINE sum == Summed(buffer')
                 over == Cardinality(sum)
      <4> HIDE DEF sum, over
      <4>3. [size |-> f.size, frames |-> sum, over |-> over] \in Arrays
        BY <2>6, <4>2 DEF Arrays, sum, over
      <4> QED BY <3>2, <4>3 DEF sum, over
    <3> QED BY <2>4, <3>1, <3>2
  <2>8. since' \in 0..(MaxFrames + MaxWritten)
    BY <1>5, <2>1
  <2> QED BY <2>2, <2>3, <2>4, <2>5, <2>7, <2>8
<1>7. CASE ~(n >= interval)
  <2>1. sumBuffer' = sumBuffer /\ shown' = shown /\ array' = array /\ since' = n
    BY <1>3, <1>7 DEF AddToSum
  <2>2. since' \in 0..(MaxFrames + MaxWritten)
    BY <1>2, <1>5, <1>7, <2>1
  <2>3. /\ sumBuffer \in [frames : SUBSET Frames, room : Sizes \cup {0}]
        /\ array \in Arrays /\ shown \subseteq Frames
    BY <1>1 DEF TypeOK
  <2>4. sumBuffer.room \in Nat
    <3>1. sumBuffer.room \in Sizes \cup {0}
      BY <2>3
    <3> QED BY <3>1, SizesType
  <2>5. sumBuffer'.room >= sumBuffer.room
    BY <2>1, <2>4
  <2> QED BY <2>1, <2>2, <2>3, <2>5
<1> QED BY <1>6, <1>7

\* The frames since the last reset or change of size, which the frame is added
\* to if it has their size.
LEMMA CurrentType ==
  ASSUME NEW s \in Seq(Frames), NEW a \in Nat, a <= Len(s)
  PROVE  LET cur == SubSeq(s, a + 1, Len(s))
         IN  /\ cur \in Seq(Frames) /\ Len(cur) = Len(s) - a
             /\ \A i \in 1..Len(cur) : cur[i] = s[a + i]
<1> DEFINE n == Len(s) - a
           cur == SubSeq(s, a + 1, a + n)
<1>1. n \in Nat /\ a + n = Len(s)
  OBVIOUS
<1> HIDE DEF n
<1>2. cur \in Seq(Frames) /\ Len(cur) = n /\ \A i \in 1..n : cur[i] = s[a + i]
  BY <1>1, Part
<1> QED BY <1>1, <1>2 DEF n

LEMMA CurrentAppended ==
  ASSUME NEW s \in Seq(Frames), NEW a \in Nat, a <= Len(s), NEW f \in Frames
  PROVE  SubSeq(Append(s, f), a + 1, Len(s) + 1) = Append(SubSeq(s, a + 1, Len(s)), f)
<1> DEFINE r == Append(s, f)
           cur == SubSeq(s, a + 1, Len(s))
           new == SubSeq(r, a + 1, Len(r))
           app == Append(cur, f)
<1>1. /\ r \in Seq(Frames) /\ Len(r) = Len(s) + 1 /\ Len(s) \in Nat
      /\ r[Len(s) + 1] = f /\ \A i \in 1..Len(s) : r[i] = s[i]
  BY AppendedFrame
<1> HIDE DEF r
<1>2. /\ cur \in Seq(Frames) /\ Len(cur) = Len(s) - a
      /\ \A i \in 1..Len(cur) : cur[i] = s[a + i]
  BY CurrentType
<1> HIDE DEF cur
<1>3. /\ new \in Seq(Frames) /\ Len(new) = Len(r) - a
      /\ \A i \in 1..Len(new) : new[i] = r[a + i]
  BY <1>1, CurrentType
<1> HIDE DEF new
<1>4. /\ app \in Seq(Frames) /\ Len(app) = Len(cur) + 1
      /\ app[Len(cur) + 1] = f /\ \A i \in 1..Len(cur) : app[i] = cur[i]
  BY <1>2, AppendedFrame
<1> HIDE DEF app
<1>5. Len(new) = Len(app) /\ Len(app) \in Nat /\ Len(cur) \in Nat
  BY <1>1, <1>2, <1>3, <1>4
<1>6. ASSUME NEW i \in 1..Len(app) PROVE new[i] = app[i]
  <2>1. CASE i = Len(cur) + 1
    <3>1. a + i = Len(s) + 1
      BY <1>1, <1>2, <2>1
    <3> QED BY <1>1, <1>3, <1>4, <1>5, <2>1, <3>1
  <2>2. CASE i \in 1..Len(cur)
    <3>1. a + i \in 1..Len(s)
      BY <1>1, <1>2, <2>2
    <3>2. new[i] = s[a + i] /\ app[i] = s[a + i]
      BY <1>1, <1>2, <1>3, <1>4, <1>5, <2>2, <3>1
    <3> QED BY <3>2
  <2> QED BY <1>4, <1>5, <2>1, <2>2
<1>7. new = app
  BY <1>3, <1>4, <1>5, <1>6
<1> QED BY <1>1, <1>7 DEF new, r, app, cur

LEMMA Positions ==
  ASSUME NEW n \in Nat, NEW m \in Nat, NEW i
  PROVE  /\ i \in (m + 1)..(n + 1) /\ i # n + 1 => i \in (m + 1)..n
         /\ i \in (m + 1)..n => n \in 1..n /\ m # n /\ i \in 1..n
         /\ \A k \in Nat : m <= n /\ n < k => (n - m) + 1 \in 0..k
OBVIOUS

LEMMA ProcessRunning ==
  ASSUME IInv, NEW f \in Frames, Process(f)
  PROVE  /\ received' \in Seq(Frames) /\ received' = Append(received, f)
         /\ Received' /\ RunningIsHistory'
         /\ sizeAt' \in 0..MaxFrames /\ frameCount' \in 0..MaxFrames
         /\ running' \in [size : Sizes, sum : 0..MaxSum] /\ total' \in 0..MaxSum
<1>1. TypeOK /\ Received /\ RunningIsHistory
  BY DEF IInv
<1> DEFINE n == Len(received)
           before == Before(f)
<1>2. received \in Seq(Frames) /\ running \in [size : Sizes, sum : 0..MaxSum] \cup {NoSum}
  BY <1>1 DEF TypeOK
<1>3. /\ n < MaxFrames /\ f.id = n + 1 /\ received' = Append(received, f)
      /\ sizeAt' = IF Resized(f) THEN n ELSE sizeAt
      /\ running' = [size |-> f.size, sum |-> AddCounts(before.sum, f.counts)]
      /\ total' = (before.total + f.counts) % (MaxSum + 1)
      /\ frameCount' = before.count + 1
      /\ resetAt' = resetAt
  BY DEF Process
<1>4. /\ received' \in Seq(Frames) /\ Len(received') = n + 1
      /\ received'[n + 1] = f /\ \A i \in 1..n : received'[i] = received[i]
  BY <1>2, <1>3, AppendedFrame
<1>5. /\ n \in Nat /\ MaxFrames \in Nat /\ resetAt \in Nat /\ sizeAt \in Nat
      /\ resetAt <= sizeAt /\ sizeAt <= n
  BY <1>1, NumbersType DEF Received
<1>6. sizeAt' \in Nat /\ sizeAt <= sizeAt' /\ sizeAt' <= n
  BY <1>3, <1>5
<1>7. f.counts \in 0..MaxSum /\ f.counts \in Nat /\ f.size \in Sizes
  BY CountsType DEF Frames
<1> DEFINE cur == SubSeq(received, sizeAt + 1, n)
           now == IF Resized(f) THEN <<>> ELSE cur
<1>8. cur \in Seq(Frames) /\ Len(cur) = n - sizeAt
  BY <1>2, <1>5, CurrentType
<1>9. /\ frameCount = Len(cur) /\ total = TotalCounts(cur) % (MaxSum + 1)
      /\ running = IF cur = <<>> THEN NoSum
                   ELSE [size |-> received[n].size, sum |-> Sat(TotalCounts(cur))]
  BY <1>1 DEF RunningIsHistory, Current, Sat
<1> HIDE DEF cur
<1>10. now \in Seq(Frames) /\ Len(now) = n - sizeAt' /\ TotalCounts(now) \in Nat
       /\ TotalCounts(Append(now, f)) = TotalCounts(now) + f.counts
  <2>1. now \in Seq(Frames) /\ Len(now) = n - sizeAt'
    BY <1>3, <1>5, <1>8
  <2> QED BY <2>1, TotalAppend
<1>11. /\ before.sum = Sat(TotalCounts(now)) /\ before.count = Len(now)
       /\ before.total = TotalCounts(now) % (MaxSum + 1)
  <2>1. Sat(0) = 0 /\ 0 % (MaxSum + 1) = 0 /\ MaxSum \in Nat
    BY AccumulationAssumption DEF Sat
  <2>2. CASE Resized(f)
    <3>1. before.sum = 0 /\ before.total = 0 /\ before.count = 0
      BY <2>2 DEF Before
    <3>2. now = <<>> /\ Len(now) = 0
      BY <2>2
    <3> QED BY <2>1, <3>1, <3>2, TotalEmpty
  <2>3. CASE ~Resized(f)
    <3>1. before.sum = running.sum /\ before.total = total /\ before.count = frameCount
      BY <2>3 DEF Before
    <3>2. now = cur
      BY <2>3
    <3>3. running.sum = Sat(TotalCounts(cur))
      <4>1. CASE cur = <<>>
        BY <1>9, <2>1, <4>1, TotalEmpty DEF NoSum
      <4>2. CASE cur # <<>>
        BY <1>9, <4>2
      <4> QED BY <4>1, <4>2
    <3> QED BY <1>9, <3>1, <3>2, <3>3
  <2> QED BY <2>2, <2>3
<1>12. Current' = Append(now, f)
  <2>1. Current' = SubSeq(Append(received, f), sizeAt' + 1, n + 1)
    BY <1>3, <1>4 DEF Current
  <2>2. Current' = Append(SubSeq(received, sizeAt' + 1, n), f)
    BY <1>2, <1>6, <2>1, CurrentAppended
  <2>3. SubSeq(received, sizeAt' + 1, n) = now
    <3>1. CASE Resized(f)
      <4> DEFINE e == SubSeq(received, sizeAt' + 1, n)
      <4>1. e \in Seq(Frames) /\ Len(e) = n - sizeAt'
        BY <1>2, <1>6, CurrentType
      <4>2. n - sizeAt' = 0
        BY <1>3, <1>5, <3>1
      <4> HIDE DEF e
      <4>3. e = <<>>
        BY <4>1, <4>2
      <4> QED BY <3>1, <4>3 DEF e
    <3>2. CASE ~Resized(f)
      BY <1>3, <3>2 DEF cur
    <3> QED BY <3>1, <3>2
  <2> QED BY <2>2, <2>3
<1>21. n = Len(received)
  OBVIOUS
<1> HIDE DEF now, before, n
<1>13. Append(now, f) # <<>> /\ Len(Append(now, f)) = Len(now) + 1
  <2> DEFINE app == Append(now, f)
  <2>1. app \in Seq(Frames) /\ Len(app) = Len(now) + 1 /\ Len(now) \in Nat
    BY <1>10, AppendedFrame
  <2> HIDE DEF app
  <2>2. app # <<>>
    BY <2>1
  <2> QED BY <2>1, <2>2 DEF app
<1>14. /\ AddCounts(before.sum, f.counts) = Sat(TotalCounts(now) + f.counts)
       /\ (before.total + f.counts) % (MaxSum + 1) = (TotalCounts(now) + f.counts) % (MaxSum + 1)
  BY <1>7, <1>10, <1>11, AddsRight
<1>15. /\ Sat(TotalCounts(now) + f.counts) \in 0..MaxSum
       /\ (TotalCounts(now) + f.counts) % (MaxSum + 1) \in 0..MaxSum
  <2> DEFINE h == TotalCounts(now) + f.counts
  <2>1. h \in Nat
    BY <1>7, <1>10
  <2>2. 0 \in 0..MaxSum
    BY AccumulationAssumption
  <2> HIDE DEF h
  <2>3. Sat(h) \in 0..MaxSum /\ h % (MaxSum + 1) \in 0..MaxSum
    BY <2>1, <2>2, AddsRight
  <2> QED BY <2>3 DEF h
<1>16. RunningIsHistory'
  <2>1. frameCount' = Len(Current')
    BY <1>3, <1>11, <1>12, <1>13
  <2>2. total' = TotalCounts(Current') % (MaxSum + 1)
    BY <1>3, <1>10, <1>12, <1>14
  <2>3. Current' # <<>>
    BY <1>12, <1>13
  <2>4. running' = [size |-> received'[Len(received')].size, sum |-> Sat(TotalCounts(Current'))]
    BY <1>3, <1>4, <1>10, <1>12, <1>14
  <2> QED BY <2>1, <2>2, <2>3, <2>4 DEF RunningIsHistory, Sat
<1>17. Received'
  <2>1. Len(received') <= MaxFrames
    BY <1>3, <1>4, <1>5
  <2>2. ASSUME NEW i \in 1..Len(received') PROVE received'[i].id = i
    <3>1. CASE i = n + 1
      BY <1>3, <1>4, <3>1
    <3>2. CASE i \in 1..n
      BY <1>1, <1>4, <1>21, <3>2 DEF Received
    <3> QED BY <1>4, <1>5, <3>1, <3>2
  <2>3. resetAt' <= sizeAt' /\ sizeAt' <= Len(received')
    BY <1>3, <1>4, <1>5, <1>6
  <2>4. ASSUME NEW i \in (sizeAt' + 1)..Len(received')
        PROVE  received'[i].size = received'[Len(received')].size
    <3>1. CASE i = n + 1
      BY <1>4, <3>1
    <3>2. CASE i # n + 1
      <4>7. Len(received') = n + 1 /\ n \in Nat /\ sizeAt' \in Nat
        BY <1>4, <1>5, <1>6
      <4>8. i \in (sizeAt' + 1)..(n + 1)
        BY <4>7
      <4>1. i \in (sizeAt' + 1)..n
        BY ONLY <3>2, <4>7, <4>8, Positions
      <4>2. ~Resized(f) /\ sizeAt' = sizeAt
        <5>1. sizeAt' # n
          BY ONLY <4>1, <4>7, Positions
        <5> QED BY <1>3, <5>1
      <4>3. cur # <<>>
        <5>1. Len(cur) > 0
          BY <1>5, <1>6, <1>8, <4>1, <4>2
        <5> QED BY <5>1
      <4>4. running.size = received[n].size /\ running # NoSum
        <5>1. running = [size |-> received[n].size, sum |-> Sat(TotalCounts(cur))]
          BY <1>9, <4>3
        <5>2. received[n] \in Frames
          <6>1. n \in 1..n
            BY ONLY <4>1, <4>7, Positions
          <6> QED BY <1>2, <1>21, <6>1
        <5>3. received[n].size \in Sizes
          BY <5>2 DEF Frames
        <5>4. NoSum.size = 0 /\ running.size = received[n].size
          BY <5>1 DEF NoSum
        <5> QED BY <5>3, <5>4, SizesType
      <4>5. f.size = received[n].size
        BY <4>2, <4>4 DEF Resized
      <4>6. received[i].size = received[n].size /\ i \in 1..n
        <5>1. i \in (sizeAt + 1)..n
          BY <4>1, <4>2
        <5>2. i \in 1..n
          BY ONLY <1>5, <5>1
        <5> QED BY <1>1, <1>21, <5>1, <5>2 DEF Received
      <4> QED BY <1>4, <4>5, <4>6
    <3> QED BY <3>1, <3>2
  <2> QED BY <2>1, <2>2, <2>3, <2>4 DEF Received
<1>18. sizeAt' \in 0..MaxFrames
  BY <1>3, <1>5, <1>6
<1>19. frameCount' \in 0..MaxFrames
  <2>1. frameCount' = (n - sizeAt') + 1
    BY <1>3, <1>10, <1>11
  <2>2. n < MaxFrames
    BY <1>3
  <2> QED BY ONLY <1>5, <1>6, <2>1, <2>2, Positions
<1>20. running' \in [size : Sizes, sum : 0..MaxSum] /\ total' \in 0..MaxSum
  BY <1>3, <1>7, <1>14, <1>15
<1> QED BY <1>3, <1>4, <1>16, <1>17, <1>18, <1>19, <1>20

LEMMA ProcessKeeps ==
  ASSUME IInv, NEW f \in Frames, Process(f)
  PROVE  IInv'
<1>1. TypeOK /\ OnlyImgCopies /\ CopyStaysInBounds /\ ShownIsCurrent
  BY DEF IInv
<1>2. /\ channel' = channel /\ framesToSum' = framesToSum /\ interval' = interval
      /\ copying' = copying /\ resetAt' = resetAt
  BY DEF Process, settings
<1>3. /\ buffer' \in Seq(Frames) /\ buffer' # <<>> /\ Len(buffer') <= framesToSum
      /\ EndsWith(received', buffer')
      /\ Len(received') - Len(buffer') >= (IF channel = "Img" THEN resetAt ELSE sizeAt')
  BY ProcessBuffer
<1>4. /\ sumBuffer' \in [frames : SUBSET Frames, room : Sizes \cup {0}]
      /\ sumBuffer'.room >= sumBuffer.room
      /\ since' \in 0..(MaxFrames + MaxWritten) /\ array' \in Arrays /\ shown' \subseteq Frames
      /\ shown' = shown \/ shown' = Summed(buffer')
  BY ProcessSum
<1>5. /\ received' \in Seq(Frames) /\ Received' /\ RunningIsHistory'
      /\ sizeAt' \in 0..MaxFrames /\ frameCount' \in 0..MaxFrames
      /\ running' \in [size : Sizes, sum : 0..MaxSum] /\ total' \in 0..MaxSum
  BY ProcessRunning
<1>6. TypeOK'
  BY <1>1, <1>2, <1>3, <1>4, <1>5 DEF TypeOK
<1>7. BufferIsNewest'
  <2>1. Len(buffer') <= Len(received')
    BY <1>3 DEF EndsWith
  <2>2. buffer' = SubSeq(received', Len(received') - Len(buffer') + 1, Len(received'))
    BY <1>3, <1>5, <2>1, EndIsPart
  <2> QED BY <1>2, <1>3, <2>2 DEF BufferIsNewest
<1>8. OnlyImgCopies'
  BY <1>1, <1>2 DEF OnlyImgCopies
<1>9. CopyStaysInBounds'
  <2>1. SUFFICES ASSUME copying.stage = "copy" PROVE sumBuffer'.room >= copying.size
    BY <1>2 DEF CopyStaysInBounds
  <2>2. sumBuffer.room >= copying.size
    BY <1>1, <2>1 DEF CopyStaysInBounds
  <2>3. /\ sumBuffer.room \in Sizes \cup {0} /\ sumBuffer'.room \in Sizes \cup {0}
        /\ copying.size \in Sizes \cup {0}
    BY <1>1, <1>4 DEF TypeOK
  <2> DEFINE x == sumBuffer'.room
             y == sumBuffer.room
             z == copying.size
  <2>4. x \in Nat /\ y \in Nat /\ z \in Nat /\ x >= y /\ y >= z
    BY <1>4, <2>2, <2>3, SizesType
  <2> HIDE DEF x, y, z
  <2>5. x >= z
    BY <2>4
  <2> QED BY <2>5 DEF x, z
<1>10. ShownIsCurrent'
  <2>1. SUFFICES ASSUME channel = "PrvHst", NEW g \in shown', NEW h \in shown'
                 PROVE  g.id > resetAt /\ g.size = h.size
    BY <1>2 DEF ShownIsCurrent
  <2>2. CASE shown' = shown
    BY <1>1, <2>1, <2>2 DEF ShownIsCurrent
  <2>3. CASE shown' = Summed(buffer')
    <3>1. /\ g.size = buffer'[1].size /\ h.size = buffer'[1].size
          /\ \E i \in 1..Len(buffer') : g = buffer'[i]
      BY <1>3, <2>3, SummedType
    <3>2. PICK i \in 1..Len(buffer') : g = buffer'[i]
      BY <3>1
    <3> DEFINE b == Len(buffer')
               r == Len(received')
               s == sizeAt'
    <3>3. /\ b \in Nat /\ r \in Nat /\ s \in Nat /\ r - b >= s /\ i \in 1..b
          /\ resetAt \in Nat /\ resetAt <= s
      <4>1. r - b >= s
        BY <1>3, <2>1
      <4>2. resetAt <= s
        BY <1>2, <1>5 DEF Received
      <4>3. s \in Nat
        BY <1>5, <1>1, NumbersType
      <4>4. b \in Nat /\ r \in Nat /\ i \in 1..b
        BY <1>3, <1>5
      <4>5. resetAt \in Nat
        BY <1>1, NumbersType
      <4> QED BY ONLY <4>1, <4>2, <4>3, <4>4, <4>5
    <3>4. buffer'[i] = received'[(r - b) + i]
      BY <1>3 DEF EndsWith
    <3> HIDE DEF b, r, s
    <3>5. (r - b) + i \in 1..r /\ (r - b) + i > resetAt
      BY <3>3
    <3>6. received'[(r - b) + i].id = (r - b) + i
      BY <1>5, <3>5 DEF Received, r
    <3> QED BY <3>1, <3>2, <3>4, <3>5, <3>6
  <2> QED BY <1>4, <2>2, <2>3
<1> QED BY <1>5, <1>6, <1>7, <1>8, <1>9, <1>10 DEF IInv

-----------------------------------------------------------------------------
(* Resets. *)

LEMMA ResetHistory ==
  ASSUME IInv, received' = received, resetAt' = Len(received), sizeAt' = Len(received),
         running' = NoSum, buffer' = <<>>, total' = 0, frameCount' = 0
  PROVE  /\ Received' /\ RunningIsHistory' /\ BufferIsNewest'
         /\ resetAt' \in 0..MaxFrames /\ sizeAt' \in 0..MaxFrames
         /\ frameCount' \in 0..MaxFrames /\ total' \in 0..MaxSum
<1> DEFINE n == Len(received)
<1>1. /\ received \in Seq(Frames) /\ n \in Nat /\ n <= MaxFrames
      /\ MaxFrames \in Nat /\ MaxSum \in Nat
  BY NumbersType DEF IInv, TypeOK, Received
<1> DEFINE e == SubSeq(received, n + 1, n)
<1>2. e = <<>> /\ Len(e) = 0
  <2>1. e \in Seq(Frames) /\ Len(e) = n - n
    BY <1>1, CurrentType
  <2> HIDE DEF e
  <2>2. Len(e) = 0
    BY <1>1, <2>1
  <2> QED BY <2>1, <2>2
<1>3. Current' = e
  BY DEF Current
<1>4. RunningIsHistory'
  <2>1. 0 % (MaxSum + 1) = 0
    BY <1>1
  <2> HIDE DEF e
  <2> QED BY <1>2, <1>3, <2>1, TotalEmpty DEF RunningIsHistory
<1>5. BufferIsNewest'
  <2>1. Len(buffer') = 0 /\ Len(received') = n
    OBVIOUS
  <2>2. n - 0 = n /\ n >= n
    BY <1>1
  <2>3. Len(received') - Len(buffer') + 1 = n + 1
    BY <1>1, <2>1
  <2>4. buffer' = SubSeq(received', Len(received') - Len(buffer') + 1, Len(received'))
    BY <1>2, <2>1, <2>3
  <2> QED BY <2>1, <2>2, <2>4 DEF BufferIsNewest
<1>6. Received'
  <2>1. ASSUME NEW i \in (n + 1)..n PROVE FALSE
    BY <1>1
  <2>2. n <= n
    BY <1>1
  <2>3. \A i \in 1..n : received[i].id = i
    BY DEF IInv, Received
  <2> QED BY <1>1, <2>1, <2>2, <2>3 DEF Received
<1> QED BY <1>1, <1>4, <1>5, <1>6

LEMMA ResetImgKeeps ==
  ASSUME IInv, ResetImg
  PROVE  IInv'
<1>1. TypeOK /\ OnlyImgCopies /\ CopyStaysInBounds
  BY DEF IInv
<1>2. /\ running' = NoSum /\ buffer' = <<>> /\ total' = 0 /\ frameCount' = 0 /\ since' = 0
      /\ resetAt' = Len(received) /\ sizeAt' = Len(received) /\ received' = received
      /\ channel = "Img" /\ channel' = channel /\ framesToSum' = framesToSum
      /\ interval' = interval /\ sumBuffer' = sumBuffer /\ shown' = shown /\ array' = array
      /\ copying' = copying
  BY DEF ResetImg, settings
<1>3. /\ Received' /\ RunningIsHistory' /\ BufferIsNewest'
      /\ resetAt' \in 0..MaxFrames /\ sizeAt' \in 0..MaxFrames
      /\ frameCount' \in 0..MaxFrames /\ total' \in 0..MaxSum
  BY <1>2, ResetHistory
<1>4. /\ buffer' \in Seq(Frames) /\ Len(buffer') <= framesToSum
      /\ since' \in 0..(MaxFrames + MaxWritten)
  BY <1>1, <1>2, NumbersType
<1>5. TypeOK'
  BY <1>1, <1>2, <1>3, <1>4 DEF TypeOK
<1>6. OnlyImgCopies' /\ CopyStaysInBounds' /\ ShownIsCurrent'
  BY <1>1, <1>2 DEF OnlyImgCopies, CopyStaysInBounds, ShownIsCurrent
<1> QED BY <1>3, <1>5, <1>6 DEF IInv

LEMMA ResetPrvHstKeeps ==
  ASSUME IInv, ResetPrvHst
  PROVE  IInv'
<1>1. TypeOK /\ OnlyImgCopies
  BY DEF IInv
<1>2. /\ running' = NoSum /\ buffer' = <<>> /\ total' = 0 /\ frameCount' = 0 /\ since' = 0
      /\ resetAt' = Len(received) /\ sizeAt' = Len(received) /\ received' = received
      /\ channel = "PrvHst" /\ channel' = channel /\ framesToSum' = framesToSum
      /\ interval' = interval /\ sumBuffer' = [frames |-> {}, room |-> 0] /\ shown' = {}
      /\ array' = array /\ copying' = copying
  BY DEF ResetPrvHst, settings
<1>3. /\ Received' /\ RunningIsHistory' /\ BufferIsNewest'
      /\ resetAt' \in 0..MaxFrames /\ sizeAt' \in 0..MaxFrames
      /\ frameCount' \in 0..MaxFrames /\ total' \in 0..MaxSum
  BY <1>2, ResetHistory
<1>4. /\ buffer' \in Seq(Frames) /\ Len(buffer') <= framesToSum
      /\ since' \in 0..(MaxFrames + MaxWritten)
  BY <1>1, <1>2, NumbersType
<1>5. TypeOK'
  BY <1>1, <1>2, <1>3, <1>4 DEF TypeOK
<1>6. OnlyImgCopies' /\ CopyStaysInBounds' /\ ShownIsCurrent'
  BY <1>1, <1>2 DEF OnlyImgCopies, CopyStaysInBounds, ShownIsCurrent
<1> QED BY <1>3, <1>5, <1>6 DEF IInv

-----------------------------------------------------------------------------
(* Writes of the port thread, and its push. *)

\* What is kept where neither the history nor what is counted of it changes.
LEMMA HistoryKept ==
  ASSUME IInv, UNCHANGED <<channel, running, total, frameCount, history>>
  PROVE  Received' /\ RunningIsHistory'
BY DEF IInv, Received, RunningIsHistory, Current, history

LEMMA BufferTrimmed ==
  ASSUME IInv, UNCHANGED <<channel, history>>,
         framesToSum' \in 1..MaxWritten, buffer' = Newest(buffer, framesToSum')
  PROVE  buffer' \in Seq(Frames) /\ Len(buffer') <= framesToSum' /\ BufferIsNewest'
<1>1. TypeOK /\ BufferIsNewest
  BY DEF IInv
<1>2. received \in Seq(Frames) /\ buffer \in Seq(Frames)
  BY <1>1 DEF TypeOK
<1>3. EndsWith(received, buffer) /\ Len(received) - Len(buffer) >= Mark
  BY <1>1, BufferEnds
<1>4. framesToSum' \in Nat /\ framesToSum' > 0
  BY AccumulationAssumption
<1>5. /\ buffer' \in Seq(Frames) /\ Len(buffer') <= framesToSum' /\ Len(buffer') <= Len(buffer)
      /\ EndsWith(buffer, buffer')
  BY <1>2, <1>4, NewestIsEnd
<1>6. EndsWith(received, buffer')
  BY <1>2, <1>3, <1>5, EndOfEnd
<1>7. Len(buffer') <= Len(received)
  BY <1>6 DEF EndsWith
<1>8. buffer' = SubSeq(received, Len(received) - Len(buffer') + 1, Len(received))
  BY <1>2, <1>5, <1>6, <1>7, EndIsPart
<1>9. Len(received) - Len(buffer') >= Mark
  <2> DEFINE x == Len(received)
             y == Len(buffer)
             z == Len(buffer')
             m == Mark
  <2>1. x \in Nat /\ y \in Nat /\ z \in Nat /\ m \in Nat
    BY <1>1, <1>2, <1>5, NumbersType DEF Mark
  <2>2. x - y >= m /\ z <= y
    BY <1>3, <1>5
  <2> HIDE DEF x, y, z, m
  <2>3. x - z >= m
    BY <2>1, <2>2
  <2> QED BY <2>3 DEF x, z, m
<1>10. received' = received /\ channel' = channel /\ resetAt' = resetAt /\ sizeAt' = sizeAt
  BY DEF history
<1> QED BY <1>5, <1>8, <1>9, <1>10 DEF BufferIsNewest, Mark

LEMMA WrittenType ==
  ASSUME NEW value \in 0..MaxWritten
  PROVE  AtLeastOne(value) \in 1..MaxWritten
BY AccumulationAssumption DEF AtLeastOne

LEMMA WriteImgFramesToSumKeeps ==
  ASSUME IInv, NEW value \in 0..MaxWritten, WriteImgFramesToSum(value)
  PROVE  IInv'
<1>1. TypeOK /\ OnlyImgCopies /\ CopyStaysInBounds
  BY DEF IInv
<1>2. /\ channel = "Img" /\ framesToSum' = AtLeastOne(value)
      /\ buffer' = Newest(buffer, framesToSum')
      /\ channel' = channel /\ interval' = interval /\ array' = array /\ shown' = shown
      /\ running' = running /\ total' = total /\ frameCount' = frameCount
      /\ received' = received /\ resetAt' = resetAt /\ sizeAt' = sizeAt
  BY DEF WriteImgFramesToSum, history
<1>3. framesToSum' \in 1..MaxWritten
  BY <1>2, WrittenType
<1>4. Received' /\ RunningIsHistory'
  BY <1>2, HistoryKept DEF history
<1>5. buffer' \in Seq(Frames) /\ Len(buffer') <= framesToSum' /\ BufferIsNewest'
  BY <1>2, <1>3, BufferTrimmed DEF history
<1>6. /\ sumBuffer' \in [frames : SUBSET Frames, room : Sizes \cup {0}]
      /\ since' \in 0..(MaxFrames + MaxWritten)
      /\ copying' \in [stage : {"none", "copy", "show"}, size : Sizes \cup {0}, frames : SUBSET Frames]
      /\ CopyStaysInBounds'
  <2>1. CASE buffer' # <<>>
    <3>1. /\ sumBuffer' = SumOf(buffer') /\ since' = interval
          /\ copying' = [stage |-> "copy", size |-> buffer'[1].size, frames |-> {}]
      BY <2>1 DEF WriteImgFramesToSum
    <3>2. /\ sumBuffer' \in [frames : SUBSET Frames, room : Sizes \cup {0}]
          /\ sumBuffer'.room >= buffer'[1].size
      BY <1>1, <1>5, <2>1, <3>1, SumOfType
    <3>3. buffer'[1].size \in Sizes
      <4>1. buffer'[1] \in Frames
        BY <1>5, <2>1
      <4> QED BY <4>1 DEF Frames
    <3>4. since' \in 0..(MaxFrames + MaxWritten)
      BY <1>1, <3>1, NumbersType
    <3>5. CopyStaysInBounds'
      BY <3>1, <3>2 DEF CopyStaysInBounds
    <3>6. copying' \in [stage : {"none", "copy", "show"}, size : Sizes \cup {0}, frames : SUBSET Frames]
      BY <3>1, <3>3
    <3> QED BY <3>2, <3>4, <3>5, <3>6
  <2>2. CASE buffer' = <<>>
    <3>1. sumBuffer' = sumBuffer /\ since' = since /\ copying' = copying
      BY <2>2 DEF WriteImgFramesToSum
    <3> QED BY <1>1, <3>1 DEF TypeOK, CopyStaysInBounds
  <2> QED BY <2>1, <2>2
<1>7. TypeOK'
  BY <1>1, <1>2, <1>3, <1>5, <1>6 DEF TypeOK
<1>8. OnlyImgCopies' /\ ShownIsCurrent'
  BY <1>2 DEF OnlyImgCopies, ShownIsCurrent
<1> QED BY <1>4, <1>5, <1>6, <1>7, <1>8 DEF IInv

LEMMA WritePrvHstFramesToSumKeeps ==
  ASSUME IInv, NEW value \in 0..MaxWritten, WritePrvHstFramesToSum(value)
  PROVE  IInv'
<1>1. TypeOK /\ OnlyImgCopies /\ CopyStaysInBounds /\ ShownIsCurrent
  BY DEF IInv
<1>2. /\ framesToSum' = AtLeastOne(value) /\ buffer' = Newest(buffer, framesToSum')
      /\ channel' = channel /\ interval' = interval /\ array' = array /\ shown' = shown
      /\ running' = running /\ total' = total /\ frameCount' = frameCount
      /\ since' = since /\ sumBuffer' = sumBuffer /\ copying' = copying
      /\ received' = received /\ resetAt' = resetAt /\ sizeAt' = sizeAt
  BY DEF WritePrvHstFramesToSum, history
<1>3. framesToSum' \in 1..MaxWritten
  BY <1>2, WrittenType
<1>4. Received' /\ RunningIsHistory'
  BY <1>2, HistoryKept DEF history
<1>5. buffer' \in Seq(Frames) /\ Len(buffer') <= framesToSum' /\ BufferIsNewest'
  BY <1>2, <1>3, BufferTrimmed DEF history
<1>6. TypeOK'
  BY <1>1, <1>2, <1>3, <1>5 DEF TypeOK
<1>7. OnlyImgCopies' /\ CopyStaysInBounds' /\ ShownIsCurrent'
  BY <1>1, <1>2 DEF OnlyImgCopies, CopyStaysInBounds, ShownIsCurrent
<1> QED BY <1>4, <1>5, <1>6, <1>7 DEF IInv

LEMMA WriteIntervalKeeps ==
  ASSUME IInv, NEW value \in 0..MaxWritten, WriteInterval(value)
  PROVE  IInv'
<1>1. TypeOK /\ OnlyImgCopies /\ CopyStaysInBounds /\ ShownIsCurrent /\ BufferIsNewest
  BY DEF IInv
<1>2. /\ interval' = AtLeastOne(value) /\ since' \in {0, since}
      /\ framesToSum' = framesToSum /\ buffer' = buffer
      /\ channel' = channel /\ array' = array /\ shown' = shown
      /\ running' = running /\ total' = total /\ frameCount' = frameCount
      /\ sumBuffer' = sumBuffer /\ copying' = copying
      /\ received' = received /\ resetAt' = resetAt /\ sizeAt' = sizeAt
  BY DEF WriteInterval, history
<1>3. interval' \in 1..MaxWritten
  BY <1>2, WrittenType
<1>4. Received' /\ RunningIsHistory'
  BY <1>2, HistoryKept DEF history
<1>5. since' \in 0..(MaxFrames + MaxWritten)
  <2>1. since \in 0..(MaxFrames + MaxWritten) /\ 0 \in 0..(MaxFrames + MaxWritten)
    BY <1>1, AccumulationAssumption DEF TypeOK
  <2> QED BY <1>2, <2>1
<1>6. TypeOK'
  BY <1>1, <1>2, <1>3, <1>5 DEF TypeOK
<1>7. OnlyImgCopies' /\ CopyStaysInBounds' /\ ShownIsCurrent' /\ BufferIsNewest'
  BY <1>1, <1>2 DEF OnlyImgCopies, CopyStaysInBounds, ShownIsCurrent, BufferIsNewest
<1> QED BY <1>4, <1>6, <1>7 DEF IInv

LEMMA CopySumKeeps ==
  ASSUME IInv, CopySum
  PROVE  IInv'
<1>1. TypeOK /\ OnlyImgCopies /\ CopyStaysInBounds /\ ShownIsCurrent /\ BufferIsNewest
  BY DEF IInv
<1>2. /\ copying.stage = "copy"
      /\ copying' = [copying EXCEPT !.stage = "show", !.frames = sumBuffer.frames]
      /\ interval' = interval /\ since' = since
      /\ framesToSum' = framesToSum /\ buffer' = buffer
      /\ channel' = channel /\ array' = array /\ shown' = shown
      /\ running' = running /\ total' = total /\ frameCount' = frameCount
      /\ sumBuffer' = sumBuffer
      /\ received' = received /\ resetAt' = resetAt /\ sizeAt' = sizeAt
  BY DEF CopySum, settings, sums, history
<1>3. Received' /\ RunningIsHistory'
  BY <1>2, HistoryKept DEF history
<1>4. /\ copying' \in [stage : {"none", "copy", "show"}, size : Sizes \cup {0}, frames : SUBSET Frames]
      /\ copying'.stage = "show"
  <2>1. /\ copying \in [stage : {"none", "copy", "show"}, size : Sizes \cup {0}, frames : SUBSET Frames]
        /\ sumBuffer.frames \in SUBSET Frames
    BY <1>1 DEF TypeOK
  <2> QED BY <1>2, <2>1
<1>5. TypeOK'
  BY <1>1, <1>2, <1>4 DEF TypeOK
<1>6. OnlyImgCopies' /\ CopyStaysInBounds' /\ ShownIsCurrent' /\ BufferIsNewest'
  BY <1>1, <1>2, <1>4 DEF OnlyImgCopies, CopyStaysInBounds, ShownIsCurrent, BufferIsNewest
<1> QED BY <1>3, <1>5, <1>6 DEF IInv

LEMMA ShowCopyKeeps ==
  ASSUME IInv, ShowCopy
  PROVE  IInv'
<1>1. TypeOK /\ OnlyImgCopies /\ BufferIsNewest
  BY DEF IInv
<1>2. /\ copying.stage = "show" /\ shown' = copying.frames /\ copying' = NoCopy
      /\ interval' = interval /\ since' = since
      /\ framesToSum' = framesToSum /\ buffer' = buffer
      /\ channel' = channel /\ array' = array
      /\ running' = running /\ total' = total /\ frameCount' = frameCount
      /\ sumBuffer' = sumBuffer
      /\ received' = received /\ resetAt' = resetAt /\ sizeAt' = sizeAt
  BY DEF ShowCopy, settings, sums, history
<1>3. Received' /\ RunningIsHistory'
  BY <1>2, HistoryKept DEF history
<1>4. channel = "Img"
  BY <1>1, <1>2 DEF OnlyImgCopies
<1>5. shown' \subseteq Frames
  BY <1>1, <1>2 DEF TypeOK
<1>6. /\ copying' \in [stage : {"none", "copy", "show"}, size : Sizes \cup {0}, frames : SUBSET Frames]
      /\ copying'.stage = "none"
  BY <1>2 DEF NoCopy
<1>7. TypeOK'
  BY <1>1, <1>2, <1>5, <1>6 DEF TypeOK
<1>8. OnlyImgCopies' /\ CopyStaysInBounds' /\ ShownIsCurrent' /\ BufferIsNewest'
  BY <1>1, <1>2, <1>4, <1>6 DEF OnlyImgCopies, CopyStaysInBounds, ShownIsCurrent, BufferIsNewest
<1> QED BY <1>3, <1>7, <1>8 DEF IInv

LEMMA PushKeeps ==
  ASSUME IInv, Push
  PROVE  IInv'
<1>1. TypeOK /\ OnlyImgCopies /\ CopyStaysInBounds /\ ShownIsCurrent /\ BufferIsNewest
  BY DEF IInv
<1>2. /\ running # NoSum
      /\ array' = [size |-> running.size, frames |-> sumBuffer.frames, over |-> Len(buffer)]
      /\ interval' = interval /\ since' = since
      /\ framesToSum' = framesToSum /\ buffer' = buffer
      /\ channel' = channel /\ shown' = shown
      /\ running' = running /\ total' = total /\ frameCount' = frameCount
      /\ sumBuffer' = sumBuffer /\ copying' = copying
      /\ received' = received /\ resetAt' = resetAt /\ sizeAt' = sizeAt
  BY DEF Push, settings, sums, history
<1>3. Received' /\ RunningIsHistory'
  BY <1>2, HistoryKept DEF history
<1>4. array' \in Arrays
  <2>1. running.size \in Sizes \cup {0} /\ sumBuffer.frames \in SUBSET Frames
    BY <1>1, <1>2 DEF TypeOK
  <2>2. Len(buffer) \in 0..MaxFrames
    <3>1. Len(buffer) <= Len(received)
      BY <1>1, BufferEnds DEF EndsWith
    <3>2. Len(received) <= MaxFrames
      BY DEF IInv, Received
    <3> QED BY <1>1, <3>1, <3>2, NumbersType
  <2> QED BY <1>2, <2>1, <2>2 DEF Arrays
<1>5. TypeOK'
  BY <1>1, <1>2, <1>4 DEF TypeOK
<1>6. OnlyImgCopies' /\ CopyStaysInBounds' /\ ShownIsCurrent' /\ BufferIsNewest'
  BY <1>1, <1>2 DEF OnlyImgCopies, CopyStaysInBounds, ShownIsCurrent, BufferIsNewest
<1> QED BY <1>3, <1>5, <1>6 DEF IInv

-----------------------------------------------------------------------------
(* The theorems. *)

LEMMA InitIInv == Init => IInv
<1> SUFFICES ASSUME Init PROVE IInv
  OBVIOUS
<1>1. /\ received = <<>> /\ Len(received) = 0 /\ resetAt = 0 /\ sizeAt = 0
      /\ buffer = <<>> /\ Len(buffer) = 0 /\ copying = NoCopy /\ shown = {}
      /\ running = NoSum /\ total = 0 /\ frameCount = 0
  BY DEF Init
<1>2. /\ MaxFrames \in Nat /\ MaxSum \in Nat /\ MaxWritten \in Nat /\ MaxWritten > 0
  BY AccumulationAssumption
<1>3. TypeOK
  <2>1. array \in Arrays
    <3>1. 0 \in 0..MaxFrames
      BY <1>2
    <3> QED BY <3>1 DEF Init, NoArray, Arrays
  <2>2. /\ framesToSum \in 1..MaxWritten /\ interval \in 1..MaxWritten
        /\ since \in 0..(MaxFrames + MaxWritten)
        /\ total \in 0..MaxSum /\ frameCount \in 0..MaxFrames
        /\ resetAt \in 0..MaxFrames /\ sizeAt \in 0..MaxFrames
        /\ Len(buffer) <= framesToSum
    BY <1>2 DEF Init
  <2>3. copying \in [stage : {"none", "copy", "show"}, size : Sizes \cup {0}, frames : SUBSET Frames]
    BY <1>1 DEF NoCopy
  <2>4. sumBuffer \in [frames : SUBSET Frames, room : Sizes \cup {0}] /\ channel \in {"Img", "PrvHst"}
    BY DEF Init
  <2> QED BY <1>1, <2>1, <2>2, <2>3, <2>4 DEF TypeOK
<1>4. Received
  BY <1>1, <1>2 DEF Received
<1> DEFINE e == SubSeq(received, 1, 0)
<1>5. e = <<>> /\ Len(e) = 0
  BY <1>1
<1>6. RunningIsHistory
  <2>1. Current = e
    BY <1>1 DEF Current
  <2>2. 0 % (MaxSum + 1) = 0
    BY <1>2
  <2> HIDE DEF e
  <2> QED BY <1>1, <1>5, <2>1, <2>2, TotalEmpty DEF RunningIsHistory
<1>7. BufferIsNewest
  BY <1>1, <1>5 DEF BufferIsNewest
<1>8. OnlyImgCopies /\ CopyStaysInBounds /\ ShownIsCurrent
  BY <1>1 DEF OnlyImgCopies, CopyStaysInBounds, ShownIsCurrent, NoCopy
<1> QED BY <1>3, <1>4, <1>6, <1>7, <1>8 DEF IInv

LEMMA NextIInv == IInv /\ [Next]_vars => IInv'
<1> SUFFICES ASSUME IInv, [Next]_vars PROVE IInv'
  OBVIOUS
<1>1. CASE UNCHANGED vars
  BY <1>1 DEF vars, settings, sums, history, IInv, TypeOK, Received, RunningIsHistory, Current,
              BufferIsNewest, OnlyImgCopies, CopyStaysInBounds, ShownIsCurrent
<1>2. ASSUME NEW f \in Frames, Process(f) PROVE IInv'
  BY <1>2, ProcessKeeps
<1>3. CASE ResetImg
  BY <1>3, ResetImgKeeps
<1>4. CASE ResetPrvHst
  BY <1>4, ResetPrvHstKeeps
<1>5. ASSUME NEW value \in 0..MaxWritten,
             WriteImgFramesToSum(value) \/ WritePrvHstFramesToSum(value) \/ WriteInterval(value)
      PROVE  IInv'
  BY <1>5, WriteImgFramesToSumKeeps, WritePrvHstFramesToSumKeeps, WriteIntervalKeeps
<1>6. CASE CopySum
  BY <1>6, CopySumKeeps
<1>7. CASE ShowCopy
  BY <1>7, ShowCopyKeeps
<1>8. CASE Push
  BY <1>8, PushKeeps
<1> QED BY <1>1, <1>2, <1>3, <1>4, <1>5, <1>6, <1>7, <1>8 DEF Next

\* The sums and the buffer belong to the history of the channel.
THEOREM Invariant == Spec => []IInv
BY InitIInv, NextIInv, PTL DEF Spec

\* The variables keep their types, and the buffer never holds more frames than
\* FramesToSum says.
THEOREM TypeCorrect == Spec => []TypeOK
<1>1. IInv => TypeOK
  BY DEF IInv
<1> QED BY <1>1, Invariant, PTL

\* The running sum, the total and the count that averages divide by are at any
\* time of all frames since the last reset or change of their size, and of no
\* other: for any number of frames, any width of a sum, any writes and resets.
THEOREM RunningIsHistoryHolds == Spec => []RunningIsHistory
<1>1. IInv => RunningIsHistory
  BY DEF IInv
<1> QED BY <1>1, Invariant, PTL

\* The buffer of the last N frames has no gap and nothing from before a reset.
THEOREM BufferIsNewestHolds == Spec => []BufferIsNewest
<1>1. IInv => BufferIsNewest
  BY DEF IInv
<1> QED BY <1>1, Invariant, PTL

\* writeInt32 copies a sum it computed before it released the mutex from a
\* buffer that is still long enough.
THEOREM CopyStaysInBoundsHolds == Spec => []CopyStaysInBounds
<1>1. IInv => CopyStaysInBounds
  BY DEF IInv
<1> QED BY <1>1, Invariant, PTL

\* The sum of N on the waveform PV of PrvHst has frames of one size, all of
\* them from behind the last reset.
THEOREM ShownIsCurrentHolds == Spec => []ShownIsCurrent
<1>1. IInv => ShownIsCurrent
  BY DEF IInv
<1> QED BY <1>1, Invariant, PTL

LEMMA StreamedNow ==
  ASSUME IInv, NEW f \in Frames, Process(f), array' # array,
         \A g \in ToSet(buffer') : g.size = array'.size
  PROVE  LET n == Cardinality(array'.frames)
             m == Len(received')
         IN  /\ n \in 1..framesToSum /\ m - n >= resetAt'
             /\ array'.frames = ToSet(SubSeq(received', m - n + 1, m))
<1>1. IInv'
  BY ProcessKeeps
<1>2. /\ buffer' \in Seq(Frames) /\ buffer' # <<>> /\ Len(buffer') <= framesToSum
      /\ EndsWith(received', buffer')
      /\ Len(received') - Len(buffer') >= (IF channel = "Img" THEN resetAt ELSE sizeAt')
  BY ProcessBuffer
<1>3. array'.frames = Summed(buffer') /\ array'.size = f.size
  <2>1. array' = [size |-> f.size, frames |-> Summed(buffer'),
                  over |-> Cardinality(Summed(buffer'))]
    BY ProcessSum
  <2> QED BY <2>1
<1> DEFINE b == Len(buffer')
           m == Len(received')
<1>4. b \in Nat /\ b > 0 /\ m \in Nat
  <2>1. received' \in Seq(Frames)
    BY ProcessRunning
  <2> QED BY <1>2, <2>1
<1>5. Summed(buffer') = ToSet(buffer')
  <2>1. buffer'[1] \in ToSet(buffer')
    BY <1>2, <1>4 DEF ToSet
  <2>2. \A g \in ToSet(buffer') : g.size = buffer'[1].size
    BY <2>1
  <2> QED BY <2>2 DEF Summed
<1>6. ASSUME NEW i \in 1..b, NEW j \in 1..b, buffer'[i] = buffer'[j]
      PROVE  i = j
  <2>1. /\ buffer'[i] = received'[(m - b) + i] /\ buffer'[j] = received'[(m - b) + j]
        /\ b <= m
    BY <1>2 DEF EndsWith
  <2> HIDE DEF b, m
  <2>2. (m - b) + i \in 1..m /\ (m - b) + j \in 1..m
    BY <1>4, <2>1
  <2>3. (m - b) + i = (m - b) + j
    <3>1. /\ received'[(m - b) + i].id = (m - b) + i
          /\ received'[(m - b) + j].id = (m - b) + j
      BY <1>1, <2>2 DEF IInv, Received, m
    <3> QED BY <1>6, <2>1, <3>1
  <2> QED BY <1>4, <2>3
<1>7. Cardinality(array'.frames) = b
  BY <1>2, <1>3, <1>5, <1>6, SetOfSequence
<1>8. b \in 1..framesToSum
  <2>1. framesToSum \in Nat /\ b <= framesToSum
    BY <1>2, NumbersType DEF IInv
  <2> HIDE DEF b
  <2> QED BY <1>4, <2>1
<1>9. m - b >= resetAt'
  <2>1. resetAt' = resetAt /\ channel' = channel
    BY DEF Process, settings
  <2>2. TypeOK' /\ Received'
    BY <1>1 DEF IInv
  <2> DEFINE r == resetAt'
             s == sizeAt'
  <2>3. r \in Nat /\ s \in Nat /\ r <= s
    BY <2>2, AccumulationAssumption DEF TypeOK, Received
  <2>4. m - b >= (IF channel = "Img" THEN r ELSE s)
    BY <1>2, <2>1
  <2> HIDE DEF r, s, m, b
  <2>5. m - b >= r
    BY <1>4, <2>3, <2>4
  <2> QED BY <2>5 DEF r
<1>10. buffer' = SubSeq(received', m - b + 1, m)
  BY <1>1 DEF IInv, BufferIsNewest
<1> QED BY <1>3, <1>5, <1>7, <1>8, <1>9, <1>10

\* A sum of N that is streamed to plugins is the sum of a run of frames that
\* ends with the newest one, N at most and all since the last reset, unless
\* frames of two sizes lie in the buffer.
THEOREM StreamedHolds == Spec => StreamedStep
<1> DEFINE A == (array' # array /\ received' # received) =>
                  LET n == Cardinality(array'.frames)
                      m == Len(received')
                  IN  (\A f \in ToSet(buffer') : f.size = array'.size) =>
                        /\ n \in 1..framesToSum /\ m - n >= resetAt'
                        /\ array'.frames = ToSet(SubSeq(received', m - n + 1, m))
<1>1. IInv /\ [Next]_vars => [A]_vars
  <2> SUFFICES ASSUME IInv, Next, array' # array, received' # received PROVE A
    BY DEF vars
  <2>1. PICK f \in Frames : Process(f)
    BY DEF Next, ResetImg, ResetPrvHst, WriteImgFramesToSum, WritePrvHstFramesToSum,
           WriteInterval, CopySum, ShowCopy, Push, history
  <2> QED BY <2>1, StreamedNow
<1> QED BY <1>1, Invariant, PTL DEF Spec, StreamedStep
=============================================================================
