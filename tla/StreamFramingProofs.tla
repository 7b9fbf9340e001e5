-------------------------- MODULE StreamFramingProofs --------------------------
(***************************************************************************)
(* Proofs about StreamFraming: the types, that no frame shows a pixel of   *)
(* another one, that frames are processed in the order they were sent and  *)
(* none twice (the refinement of FrameOrder), that none is skipped as long *)
(* as the buffer never overran and no pixel looks like JSON, and that the  *)
(* framing is exact if headers come alone.                                 *)
(*                                                                         *)
(* All but the last rest on what the buffer holds (Shape): first pixels of *)
(* the frame processed last, whose successors receive_exact() has taken    *)
(* from the socket past the buffer, and then the most recent tokens of the *)
(* stream, all of them from behind that frame's line.                      *)
(***************************************************************************)
EXTENDS StreamFraming, SequenceTheorems, WellFoundedInduction, TLAPS

-----------------------------------------------------------------------------
(* The stream: frame f starts behind its first Start(f) tokens. *)

Start(f) == (f - 1) * FrameLength

LEMMA LengthType == FrameLength \in Nat /\ FrameLength > 2
BY FramingAssumption DEF FrameLength

LEMMA StartType == \A f \in Nat \ {0} : Start(f) \in Nat
BY LengthType DEF Start

LEMMA StartNext == \A f \in Int : Start(f + 1) = Start(f) + FrameLength
BY LengthType DEF Start

\* Frames lie one behind the other.
LEMMA StartOrder ==
  ASSUME NEW f \in Int, NEW h \in Int, f < h
  PROVE  Start(f) + FrameLength <= Start(h)
<1>1. PICK d \in Nat : h = f + 1 + d
  <2>1. h - f - 1 \in Nat
    OBVIOUS
  <2> QED BY <2>1
<1>2. h - 1 = (f - 1) + (1 + d)
  BY <1>1
<1>3. d * FrameLength \in Nat
  BY LengthType
<1>4. Start(h) = Start(f) + FrameLength + d * FrameLength
  BY <1>2, LengthType DEF Start
<1>5. Start(f) \in Int
  BY LengthType DEF Start
<1> QED
  BY <1>3, <1>4, <1>5, LengthType

\* The frames of two positions can be told from the positions.
LEMMA StartUnique ==
  ASSUME NEW f \in Int, NEW h \in Int,
         NEW i \in 0..(FrameLength - 1), NEW j \in 0..(FrameLength - 1),
         Start(f) + i = Start(h) + j
  PROVE  f = h /\ i = j
<1>1. Start(f) \in Int /\ Start(h) \in Int
  BY LengthType DEF Start
<1>2. ~(f < h)
  <2>1. ASSUME f < h PROVE FALSE
    <3>1. Start(f) + FrameLength <= Start(h)
      BY <2>1, StartOrder
    <3> QED BY <3>1, <1>1, LengthType
  <2> QED BY <2>1
<1>3. ~(h < f)
  <2>1. ASSUME h < f PROVE FALSE
    <3>1. Start(h) + FrameLength <= Start(f)
      BY <2>1, StartOrder
    <3> QED BY <3>1, <1>1, LengthType
  <2> QED BY <2>1
<1>4. f = h
  BY <1>2, <1>3
<1> QED
  BY <1>4, <1>1

\* Division with remainder.
LEMMA Division ==
  ASSUME NEW m \in Nat
  PROVE  /\ m \div FrameLength \in Nat
         /\ m % FrameLength \in 0..(FrameLength - 1)
         /\ m = (m \div FrameLength) * FrameLength + (m % FrameLength)
BY LengthType

LEMMA StreamLength ==
  /\ Len(Stream) = Start(NumFrames + 1) /\ Len(Stream) \in Nat
  /\ DOMAIN Stream = 1..Len(Stream)
<1>1. NumFrames * FrameLength \in Nat
  BY LengthType, FramingAssumption
<1>2. Len(Stream) = NumFrames * FrameLength
  BY <1>1 DEF Stream
<1>3. Start(NumFrames + 1) = NumFrames * FrameLength
  BY FramingAssumption DEF Start
<1> QED
  BY <1>1, <1>2, <1>3 DEF Stream

\* What a frame consists of.
Token(f, i) == IF i = 0 THEN Json(f) ELSE IF i = 1 THEN Eol(f) ELSE Pixel(f, i - 1)

LEMMA StreamAt ==
  ASSUME NEW f \in 1..NumFrames, NEW i \in 0..(FrameLength - 1)
  PROVE  /\ Start(f) + i + 1 \in 1..Len(Stream)
         /\ Stream[Start(f) + i + 1] = Token(f, i)
<1> DEFINE n == Start(f) + i + 1
<1>1. f \in Nat \ {0} /\ f < NumFrames + 1 /\ i \in Nat /\ Start(f) \in Nat
  BY StartType, FramingAssumption, LengthType
<1>2. Start(f) + FrameLength <= Start(NumFrames + 1)
  BY <1>1, StartOrder, FramingAssumption
<1>3. n \in 1..Len(Stream)
  BY <1>1, <1>2, StreamLength, LengthType
<1>4. n - 1 \in Nat
  BY <1>1
<1> DEFINE q == (n - 1) \div FrameLength
           r == (n - 1) % FrameLength
<1>5. q \in Nat /\ r \in 0..(FrameLength - 1) /\ n - 1 = q * FrameLength + r
  BY <1>4, Division
<1>6. Start(q + 1) = q * FrameLength
  BY <1>5 DEF Start
<1>7. q + 1 = f /\ r = i
  <2> HIDE DEF q, r
  <2>1. Start(q + 1) + r = Start(f) + i
    BY <1>1, <1>5, <1>6
  <2> QED BY <2>1, <1>1, <1>5, StartUnique
<1>8. n \in 1..(NumFrames * FrameLength)
  BY <1>3, StreamLength DEF Stream
<1>9. Stream[n] = CASE r = 0 -> Json(q + 1) [] r = 1 -> Eol(q + 1)
                    [] OTHER -> Pixel(q + 1, r - 1)
  BY <1>8 DEF Stream
<1>10. Stream[n] = Token(f, i)
  <2> HIDE DEF n, q, r
  <2> QED BY <1>7, <1>9, <1>1 DEF Token
<1> QED
  BY <1>3, <1>10

\* Every position of the stream lies in a frame.
LEMMA StreamIn ==
  ASSUME NEW n \in 1..Len(Stream)
  PROVE  \E f \in 1..NumFrames, i \in 0..(FrameLength - 1) :
            n = Start(f) + i + 1 /\ Stream[n] = Token(f, i)
<1>1. n - 1 \in Nat
  BY StreamLength
<1> DEFINE q == (n - 1) \div FrameLength
           r == (n - 1) % FrameLength
<1>2. q \in Nat /\ r \in 0..(FrameLength - 1) /\ n - 1 = q * FrameLength + r
  BY <1>1, Division
<1>3. Start(q + 1) = q * FrameLength
  BY <1>2 DEF Start
<1> HIDE DEF q, r
<1>4. n = Start(q + 1) + r + 1
  BY <1>2, <1>3, StreamLength, LengthType, StartType
<1>5. ~(NumFrames + 1 <= q + 1)
  <2>1. ASSUME NumFrames + 1 <= q + 1 PROVE FALSE
    <3>1. Start(NumFrames + 1) <= Start(q + 1)
      <4>1. CASE NumFrames + 1 = q + 1
        BY <4>1, StartType, <1>2
      <4>2. CASE NumFrames + 1 < q + 1
        <5>1. Start(NumFrames + 1) + FrameLength <= Start(q + 1)
          BY <4>2, StartOrder, <1>2, FramingAssumption
        <5> QED BY <5>1, StartType, <1>2, FramingAssumption, LengthType
      <4> QED BY <4>1, <4>2, <2>1, <1>2, FramingAssumption
    <3> QED BY <3>1, <1>4, <1>2, StreamLength, StartType, FramingAssumption, LengthType
  <2> QED BY <2>1
<1>6. q + 1 \in 1..NumFrames
  BY <1>5, <1>2, FramingAssumption
<1>7. Stream[n] = Token(q + 1, r)
  BY <1>4, <1>6, <1>2, StreamAt
<1> QED
  BY <1>2, <1>4, <1>6, <1>7

LEMMA TokenType ==
  ASSUME NEW f \in 1..NumFrames, NEW i \in 0..(FrameLength - 1)
  PROVE  Token(f, i) \in Tokens
<1>1. CASE i = 0
  BY <1>1 DEF Token, Tokens
<1>2. CASE i = 1
  BY <1>2 DEF Token, Tokens
<1>3. CASE i > 1
  <2>1. i - 1 \in 1..NumPixels
    BY <1>3, FramingAssumption DEF FrameLength
  <2> QED BY <1>3, <2>1 DEF Token, Tokens
<1> QED
  BY <1>1, <1>2, <1>3, LengthType

LEMMA StreamType == Stream \in Seq(Tokens)
<1>1. \A n \in 1..Len(Stream) : Stream[n] \in Tokens
  <2>1. TAKE n \in 1..Len(Stream)
  <2>2. PICK f \in 1..NumFrames, i \in 0..(FrameLength - 1) : Stream[n] = Token(f, i)
    BY StreamIn
  <2> QED BY <2>2, TokenType
<1>2. NumFrames * FrameLength \in Nat
  BY LengthType, FramingAssumption
<1>3. Stream \in Seq({Stream[n] : n \in 1..Len(Stream)})
  BY <1>2, StreamLength DEF Stream
<1> QED
  BY <1>1, <1>3, StreamLength, <1>2

-----------------------------------------------------------------------------
(* The searches for the first line end and the first JSON text. *)

LEMMA LeastNatural ==
  ASSUME NEW T, T \subseteq Nat, T # {}
  PROVE  \E m \in T : \A k \in T : ~(k < m)
<1> DEFINE R == {ss \in Nat \X Nat : ss[1] < ss[2]}
<1>1. IsWellFoundedOn(R, Nat)
  BY NatLessThanWellFounded DEF OpToRel
<1>2. \A k, m \in Nat : <<k, m>> \in R <=> k < m
  OBVIOUS
<1> HIDE DEF R
<1>3. PICK m \in T : \A k \in T : ~(<<k, m>> \in R)
  BY <1>1, WFMin
<1> QED
  BY <1>2, <1>3

LEMMA FirstLikeIsFirst ==
  ASSUME NEW b, NEW n \in Nat, NEW look
  PROVE  LET m == FirstLike(b, n, look)
         IN  \/ m = 0 /\ \A k \in 1..n : ~LooksLike(b[k], look)
             \/ /\ m \in 1..n /\ LooksLike(b[m], look)
                /\ \A k \in 1..(m - 1) : ~LooksLike(b[k], look)
<1> DEFINE T == {k \in 1..n : LooksLike(b[k], look)}
           IsFirst(m) == /\ LooksLike(b[m], look)
                         /\ \A k \in 1..(m - 1) : ~LooksLike(b[k], look)
<1>1. CASE T = {}
  BY <1>1 DEF FirstLike
<1>2. CASE T # {}
  <2>1. T \subseteq Nat
    OBVIOUS
  <2>2. PICK m \in T : \A k \in T : ~(k < m)
    BY <1>2, <2>1, LeastNatural
  <2>3. m \in 1..n /\ LooksLike(b[m], look)
    BY <2>2
  <2>4. \A k \in 1..(m - 1) : ~LooksLike(b[k], look)
    <3>1. TAKE k \in 1..(m - 1)
    <3>2. k \in 1..n /\ k < m
      BY <2>3
    <3> QED BY <2>2, <3>2
  <2>5. \E i \in 1..n : LooksLike(b[i], look)
    BY <2>3
  <2>6. FirstLike(b, n, look) = CHOOSE i \in 1..n : IsFirst(i)
    BY <2>5 DEF FirstLike
  <2>7. \E i \in 1..n : IsFirst(i)
    BY <2>3, <2>4
  <2> HIDE DEF IsFirst
  <2>8. /\ (CHOOSE i \in 1..n : IsFirst(i)) \in 1..n
        /\ IsFirst(CHOOSE i \in 1..n : IsFirst(i))
    BY <2>7
  <2> QED BY <2>6, <2>8 DEF IsFirst
<1> QED
  BY <1>1, <1>2

-----------------------------------------------------------------------------
(***************************************************************************)
(* What a buffer b holds when t tokens of the stream have been received    *)
(* and the last frame processed is `last': its g newest tokens are the     *)
(* stream's last ones, from behind the line of `last'; the others are      *)
(* pixels of `last'.                                                       *)
(***************************************************************************)
Behind(last) == IF last = 0 THEN 0 ELSE Start(last) + 2

Holds(b, t, g, last) ==
  /\ g \in 0..Len(b) /\ Behind(last) <= t - g
  /\ \A k \in 1..(Len(b) - g) : \E i \in 1..NumPixels : b[k] = Pixel(last, i)
  /\ \A k \in (Len(b) - g + 1)..Len(b) : b[k] = Stream[t - Len(b) + k]

LEMMA BehindType == \A last \in 0..NumFrames : Behind(last) \in Nat
BY StartType, FramingAssumption DEF Behind

LEMMA Part ==
  ASSUME NEW S, NEW s \in Seq(S), NEW t \in Nat, NEW n \in Nat, t + n <= Len(s)
  PROVE  LET part == SubSeq(s, t + 1, t + n)
         IN  part \in Seq(S) /\ Len(part) = n /\ \A k \in 1..n : part[k] = s[t + k]
OBVIOUS

\* recv() adds the next tokens of the stream.
LEMMA HoldsMore ==
  ASSUME NEW b \in Seq(Tokens), NEW t \in Nat, NEW n \in Nat, NEW g, NEW last \in 0..NumFrames,
         t + n <= Len(Stream), Holds(b, t, g, last)
  PROVE  LET more == b \o SubSeq(Stream, t + 1, t + n)
         IN  /\ more \in Seq(Tokens) /\ Len(more) = Len(b) + n
             /\ Holds(more, t + n, g + n, last)
<1> DEFINE r == SubSeq(Stream, t + 1, t + n)
           more == b \o r
<1>1. Len(b) \in Nat /\ g \in 0..Len(b)
  BY LenProperties DEF Holds
<1>2. r \in Seq(Tokens) /\ Len(r) = n /\ \A k \in 1..n : r[k] = Stream[t + k]
  BY StreamType, Part
<1> HIDE DEF r
<1>3. /\ more \in Seq(Tokens) /\ Len(more) = Len(b) + n
      /\ \A k \in 1..(Len(b) + n) : more[k] = IF k <= Len(b) THEN b[k] ELSE r[k - Len(b)]
  BY <1>2, ConcatProperties
<1> HIDE DEF more
<1>4. g + n \in 0..Len(more) /\ Len(more) - (g + n) = Len(b) - g
  BY <1>1, <1>3
<1>5. Behind(last) <= (t + n) - (g + n)
  BY <1>1, BehindType DEF Holds
<1>6. ASSUME NEW k \in 1..(Len(more) - (g + n))
      PROVE  \E i \in 1..NumPixels : more[k] = Pixel(last, i)
  <2>1. k \in 1..(Len(b) - g) /\ k \in 1..(Len(b) + n) /\ k <= Len(b)
    BY <1>1, <1>4
  <2> QED BY <2>1, <1>3 DEF Holds
<1>7. ASSUME NEW k \in (Len(more) - (g + n) + 1)..Len(more)
      PROVE  more[k] = Stream[(t + n) - Len(more) + k]
  <2>1. k \in (Len(b) - g + 1)..(Len(b) + n) /\ k \in 1..(Len(b) + n)
    BY <1>1, <1>3, <1>4
  <2>2. (t + n) - Len(more) + k = t - Len(b) + k
    BY <1>1, <1>3, <2>1
  <2>3. CASE k <= Len(b)
    <3>1. k \in (Len(b) - g + 1)..Len(b)
      BY <1>1, <2>1, <2>3
    <3> QED BY <3>1, <2>1, <2>2, <2>3, <1>3 DEF Holds
  <2>4. CASE k > Len(b)
    <3>1. k - Len(b) \in 1..n /\ t + (k - Len(b)) = t - Len(b) + k
      BY <1>1, <2>1, <2>4
    <3>2. more[k] = r[k - Len(b)]
      BY <2>1, <2>4, <1>1, <1>3
    <3>3. r[k - Len(b)] = Stream[t + (k - Len(b))]
      BY <3>1, <1>2
    <3> QED BY <3>1, <3>2, <3>3, <2>2
  <2> QED BY <1>1, <2>1, <2>3, <2>4
<1> QED
  BY <1>3, <1>4, <1>5, <1>6, <1>7 DEF Holds, more, r

\* The loop keeps what is behind a line end.
LEMMA HoldsRest ==
  ASSUME NEW b \in Seq(Tokens), NEW t \in Nat, NEW g, NEW last \in 0..NumFrames,
         Holds(b, t, g, last), NEW e \in 0..Len(b)
  PROVE  LET rest == SubSeq(b, e + 1, Len(b))
             h    == IF g <= Len(b) - e THEN g ELSE Len(b) - e
         IN  /\ rest \in Seq(Tokens) /\ Len(rest) = Len(b) - e
             /\ Holds(rest, t, h, last)
<1> DEFINE rest == SubSeq(b, e + 1, Len(b))
           h    == IF g <= Len(b) - e THEN g ELSE Len(b) - e
<1>1. Len(b) \in Nat /\ g \in 0..Len(b) /\ Behind(last) \in Nat /\ Behind(last) <= t - g
  BY LenProperties, BehindType DEF Holds
<1>2. /\ rest \in Seq(Tokens) /\ Len(rest) = Len(b) - e
      /\ \A k \in 1..(Len(b) - e) : rest[k] = b[e + k]
  <2> DEFINE m == Len(b) - e
  <2>1. m \in Nat /\ e \in Nat /\ e + m = Len(b) /\ e + m <= Len(b)
    BY <1>1
  <2> HIDE DEF m
  <2>2. LET part == SubSeq(b, e + 1, e + m)
        IN  part \in Seq(Tokens) /\ Len(part) = m /\ \A k \in 1..m : part[k] = b[e + k]
    BY ONLY <2>1, Part, b \in Seq(Tokens)
  <2> QED BY <2>1, <2>2 DEF m
<1> HIDE DEF rest
<1>3. h \in 0..Len(rest) /\ h <= g /\ h \in Int
  BY <1>1, <1>2
<1> HIDE DEF h
<1>4. Behind(last) <= t - h
  BY <1>1, <1>3
<1>5. ASSUME NEW k \in 1..(Len(rest) - h)
      PROVE  \E i \in 1..NumPixels : rest[k] = Pixel(last, i)
  <2>1. e + k \in 1..(Len(b) - g) /\ k \in 1..(Len(b) - e)
    BY <1>1, <1>2, <1>3 DEF h
  <2> QED BY <2>1, <1>2 DEF Holds
<1>6. ASSUME NEW k \in (Len(rest) - h + 1)..Len(rest)
      PROVE  rest[k] = Stream[t - Len(rest) + k]
  <2>1. k \in 1..(Len(b) - e) /\ e + k \in (Len(b) - g + 1)..Len(b)
    BY <1>1, <1>2, <1>3
  <2>2. t - Len(b) + (e + k) = t - Len(rest) + k
    BY <1>1, <1>2, <2>1
  <2> QED BY <2>1, <2>2, <1>2 DEF Holds
<1> QED
  BY <1>2, <1>3, <1>4, <1>5, <1>6 DEF Holds, rest, h

-----------------------------------------------------------------------------
(* A header in the buffer, and the pixels taken for it. *)

LEMMA HeaderAt ==
  ASSUME NEW b \in Seq(Tokens), NEW t \in 0..Len(Stream), NEW g, NEW last \in 0..NumFrames,
         Holds(b, t, g, last), NEW json \in 1..Len(b), b[json].kind = "json"
  PROVE  LET f == b[json].frame
         IN  /\ f \in 1..NumFrames /\ f > last
             /\ json > Len(b) - g
             /\ t - Len(b) + json = Start(f) + 1
<1>1. Len(b) \in Nat /\ g \in 0..Len(b) /\ Behind(last) \in Nat /\ Behind(last) <= t - g /\ t \in Nat
  BY LenProperties, BehindType, StreamLength DEF Holds
<1>2. json > Len(b) - g
  <2>1. ASSUME json <= Len(b) - g PROVE FALSE
    <3>1. json \in 1..(Len(b) - g)
      BY <1>1, <2>1
    <3>2. PICK i \in 1..NumPixels : b[json] = Pixel(last, i)
      BY <3>1 DEF Holds
    <3> QED BY <3>2 DEF Pixel
  <2> QED BY <1>1, <2>1
<1>3. json \in (Len(b) - g + 1)..Len(b)
  BY <1>1, <1>2
<1> DEFINE n == t - Len(b) + json
<1>4. b[json] = Stream[n]
  BY <1>3 DEF Holds
<1>5. n \in 1..Len(Stream) /\ n > Behind(last)
  BY <1>1, <1>3, StreamLength
<1> HIDE DEF n
<1>6. PICK f \in 1..NumFrames, i \in 0..(FrameLength - 1) :
             n = Start(f) + i + 1 /\ Stream[n] = Token(f, i)
  BY <1>5, StreamIn
<1>7. i = 0
  BY <1>4, <1>6 DEF Token, Json, Eol, Pixel
<1>8. b[json].frame = f
  BY <1>4, <1>6, <1>7 DEF Token, Json
<1>9. f \in Nat \ {0} /\ f \in Int /\ last \in Int /\ Start(f) \in Nat
  BY FramingAssumption, StartType
<1>10. f > last
  <2>1. ASSUME f <= last PROVE FALSE
    <3>1. last \in Nat \ {0} /\ Behind(last) = Start(last) + 2 /\ Start(last) \in Nat
      BY <2>1, <1>9, StartType DEF Behind
    <3>2. CASE f = last
      BY <3>1, <3>2, <1>5, <1>6, <1>7, <1>9
    <3>3. CASE f < last
      <4>1. Start(f) + FrameLength <= Start(last)
        BY <3>3, <1>9, StartOrder
      <4> QED BY <4>1, <3>1, <1>5, <1>6, <1>7, <1>9, LengthType
    <3> QED BY <3>2, <3>3, <2>1, <1>9
  <2> QED BY <2>1, <1>9
<1>11. n = Start(f) + 1
  BY <1>6, <1>7, <1>9
<1> QED
  BY <1>2, <1>8, <1>10, <1>11 DEF n

LEMMA HoldsNat ==
  ASSUME NEW b \in Seq(Tokens), NEW t, NEW g, NEW last, Holds(b, t, g, last)
  PROVE  g \in Nat
BY LenProperties DEF Holds

\* What follows it is the frame it announces.
LEMMA AfterHeader ==
  ASSUME NEW b \in Seq(Tokens), NEW t \in 0..Len(Stream), NEW g, NEW last \in 0..NumFrames,
         Holds(b, t, g, last), NEW json \in 1..Len(b), b[json].kind = "json",
         NEW i \in 0..(FrameLength - 1), json + i <= Len(b)
  PROVE  b[json + i] = Token(b[json].frame, i)
<1> DEFINE f == b[json].frame
<1>1. f \in 1..NumFrames /\ json > Len(b) - g /\ t - Len(b) + json = Start(f) + 1
  BY HeaderAt
<1> HIDE DEF f
<1>2. Len(b) \in Nat /\ g \in 0..Len(b) /\ t \in Nat /\ Start(f) \in Nat /\ i \in Nat
      /\ json \in Nat
  <2>1. Len(b) \in Nat /\ t \in Nat /\ i \in Nat
    BY LenProperties, StreamLength, LengthType
  <2>2. f \in Nat \ {0}
    BY <1>1, FramingAssumption
  <2> QED BY <2>1, <2>2, StartType DEF Holds
<1>3. json + i \in (Len(b) - g + 1)..Len(b)
  BY <1>1, <1>2
<1>4. b[json + i] = Stream[t - Len(b) + (json + i)]
  BY <1>3 DEF Holds
<1>5. t - Len(b) + (json + i) = Start(f) + i + 1
  <2> DEFINE l == Len(b)
             s == Start(f)
  <2>1. t - l + json = s + 1 /\ t \in Nat /\ l \in Nat /\ s \in Nat /\ i \in Nat /\ json \in Nat
    BY <1>1, <1>2
  <2> HIDE DEF l, s
  <2>2. t - l + (json + i) = s + i + 1
    BY ONLY <2>1
  <2> QED BY <2>2 DEF l, s
<1>6. Stream[Start(f) + i + 1] = Token(f, i)
  BY <1>1, StreamAt
<1> QED
  BY <1>4, <1>5, <1>6 DEF f

\* The pixels that receive_exact() takes are the frame's as well, and it stops
\* at the end of the frame: the buffer then holds pixels of this frame, if any,
\* and after it the stream's next tokens.
LEMMA HoldsProcessed ==
  ASSUME NEW b \in Seq(Tokens), NEW t \in 0..Len(Stream), NEW g, NEW last \in 0..NumFrames,
         Holds(b, t, g, last), NEW json \in 1..Len(b), b[json].kind = "json",
         json + 1 <= Len(b)
  PROVE  LET f       == b[json].frame
             missing == MissingPixels(b, json, json + 1)
             rest    == SubSeq(b, json + 2, Len(b))
         IN  /\ missing \in Nat
             /\ rest \in Seq(Tokens) /\ Len(rest) = Len(b) - (json + 1)
             /\ t + missing >= Start(f) + 2
             /\ \E h : Holds(rest, t + missing, h, f) /\ (t + missing) - h <= Start(f + 1)
<1> DEFINE f       == b[json].frame
           missing == MissingPixels(b, json, json + 1)
           rest    == SubSeq(b, json + 2, Len(b))
<1>1. /\ f \in 1..NumFrames /\ f > last /\ json > Len(b) - g
      /\ t - Len(b) + json = Start(f) + 1
  BY HeaderAt
<1>2. ASSUME NEW i \in 0..(FrameLength - 1), json + i <= Len(b)
      PROVE  b[json + i] = Token(f, i)
  BY <1>2, AfterHeader
<1>3. /\ Len(b) \in Nat /\ g \in 0..Len(b) /\ t \in Nat /\ Start(f) \in Nat
      /\ Start(f + 1) = Start(f) + FrameLength
      /\ NumPixels \in Nat \ {0} /\ FrameLength = NumPixels + 2
      /\ f # 0 /\ json \in Nat \ {0} /\ json + 1 <= Len(b)
  <2> HIDE DEF f
  <2>1. Len(b) \in Nat /\ t \in Nat /\ g \in 0..Len(b)
    BY LenProperties, StreamLength, LengthType DEF Holds
  <2>2. f \in Nat \ {0} /\ f \in Int /\ f # 0
    BY <1>1, FramingAssumption
  <2>3. Start(f) \in Nat /\ Start(f + 1) = Start(f) + FrameLength
    BY <2>2, StartType, StartNext
  <2>4. NumPixels \in Nat \ {0} /\ FrameLength = NumPixels + 2
    BY FramingAssumption DEF FrameLength
  <2> QED BY <2>1, <2>2, <2>3, <2>4
<1>4. missing = IF Len(b) - 2 < NumPixels THEN NumPixels - (Len(b) - 2) ELSE 0
  BY <1>3 DEF MissingPixels, HaveAfter
<1>5. /\ rest \in Seq(Tokens) /\ Len(rest) = Len(b) - (json + 1)
      /\ \A k \in 1..(Len(b) - (json + 1)) : rest[k] = b[json + (1 + k)]
  <2> DEFINE m == Len(b) - (json + 1)
             e == json + 1
  <2>1. m \in Nat /\ e \in Nat /\ e + m = Len(b) /\ e + m <= Len(b) /\ e + 1 = json + 2
    BY <1>3
  <2>2. \A k \in 1..m : e + k = json + (1 + k)
    BY <2>1
  <2> HIDE DEF m, e
  <2>3. LET part == SubSeq(b, e + 1, e + m)
        IN  part \in Seq(Tokens) /\ Len(part) = m /\ \A k \in 1..m : part[k] = b[e + k]
    BY ONLY <2>1, Part, b \in Seq(Tokens)
  <2> QED BY <2>1, <2>2, <2>3 DEF m
<1>6. Behind(f) = Start(f) + 2
  BY <1>3 DEF Behind
<1> HIDE DEF f, missing, rest
(* The numbers, apart from what they count. *)
<1> DEFINE l    == Len(b)
           s    == Start(f)
           size == Len(rest)
           m    == missing
<1>7. /\ l \in Nat /\ g \in 0..l /\ t \in Nat /\ s \in Nat /\ json \in Nat \ {0}
      /\ json + 1 <= l /\ json > l - g /\ t - l + json = s + 1 /\ size = l - (json + 1)
      /\ NumPixels \in Nat \ {0}
      /\ m = IF l - 2 < NumPixels THEN NumPixels - (l - 2) ELSE 0
  BY <1>1, <1>3, <1>4, <1>5
<1>8. Start(f + 1) = s + (NumPixels + 2) /\ Behind(f) = s + 2
  BY <1>3, <1>6
<1> HIDE DEF l, s, size, m
<1>9. m \in Nat /\ t + m >= s + 2 /\ size \in Nat
  BY ONLY <1>7
<1>10. CASE m = 0
  <2>1. /\ size - size = 0 /\ s + 2 <= (t + m) - size /\ size \in 0..size
        /\ (t + m) - size <= s + (NumPixels + 2) /\ 1..(size - size) = {}
    BY ONLY <1>7, <1>9, <1>10
  <2>2. ASSUME NEW k \in (size - size + 1)..size
        PROVE  rest[k] = Stream[(t + m) - size + k]
    <3>1. /\ k \in 1..(l - (json + 1)) /\ json + (1 + k) \in (l - g + 1)..l
          /\ t - l + (json + (1 + k)) = (t + m) - size + k
      BY ONLY <1>7, <1>9, <1>10, <2>2
    <3>2. b[json + (1 + k)] = Stream[t - l + (json + (1 + k))]
      BY <3>1 DEF Holds, l
    <3>3. rest[k] = b[json + (1 + k)]
      BY <3>1, <1>5 DEF l
    <3> QED BY <3>1, <3>2, <3>3
  <2>3. Holds(rest, t + m, size, f)
    <3>1. \A k \in 1..(size - size) : \E i \in 1..NumPixels : rest[k] = Pixel(f, i)
      BY ONLY <2>1
    <3>2. size \in 0..size /\ Behind(f) <= (t + m) - size
      BY <2>1, <1>8
    <3>3. \A k \in (size - size + 1)..size : rest[k] = Stream[(t + m) - size + k]
      BY <2>2
    <3> QED BY ONLY <3>1, <3>2, <3>3 DEF Holds, size
  <2>4. (t + m) - size <= Start(f + 1)
    BY <2>1, <1>8
  <2> QED BY <1>5, <1>8, <1>9, <2>3, <2>4 DEF f, missing, rest, m, s
<1>11. CASE m # 0
  <2>1. /\ m = NumPixels - (l - 2) /\ l - 2 < NumPixels
        /\ (t + m) - 0 <= s + (NumPixels + 2) /\ s + 2 <= (t + m) - 0
        /\ 0 \in 0..size /\ (size - 0 + 1)..size = {}
    BY ONLY <1>7, <1>9, <1>11
  <2>2. ASSUME NEW k \in 1..(size - 0)
        PROVE  \E i \in 1..NumPixels : rest[k] = Pixel(f, i)
    <3>1. /\ k \in 1..(l - (json + 1)) /\ 1 + k \in 0..((NumPixels + 2) - 1)
          /\ json + (1 + k) <= l /\ k \in 1..NumPixels /\ k \in Nat \ {0}
      BY ONLY <1>7, <1>9, <2>1, <2>2
    <3>2. b[json + (1 + k)] = Token(f, 1 + k)
      BY <3>1, <1>2 DEF l, f, FrameLength
    <3>3. Token(f, 1 + k) = Pixel(f, k)
      BY <3>1 DEF Token
    <3>4. rest[k] = b[json + (1 + k)]
      BY <3>1, <1>5 DEF l
    <3> QED BY <3>1, <3>2, <3>3, <3>4
  <2>3. Holds(rest, t + m, 0, f)
    BY <2>1, <2>2, <1>8 DEF Holds, size
  <2>4. (t + m) - 0 <= Start(f + 1)
    BY <2>1, <1>8
  <2> QED BY <1>5, <1>8, <1>9, <2>3, <2>4 DEF f, missing, rest, m, s
<1> QED
  BY <1>10, <1>11

LEMMA PixelsOfFrame ==
  ASSUME NEW b \in Seq(Tokens), NEW t \in 0..Len(Stream), NEW g, NEW last \in 0..NumFrames,
         Holds(b, t, g, last), NEW json \in 1..Len(b), b[json].kind = "json",
         json + 1 <= Len(b)
  PROVE  /\ ShownWith(b[json].frame, json - 1, TakePixels(b, json, json + 1, t))
         /\ json - 1 \in Nat
<1> DEFINE own == Len(b) - json - 1
           h == IF own < NumPixels THEN own ELSE NumPixels
<1>0. h \in 0..NumPixels /\ json - 1 \in Nat
  BY LenProperties, FramingAssumption
<1> SUFFICES ASSUME NEW i \in 1..NumPixels
             PROVE  TakePixels(b, json, json + 1, t)[i]
                      = ShownPixel(b[json].frame, json - 1, h, i)
  BY <1>0 DEF ShownWith
<1> DEFINE f == b[json].frame
           l == Len(b)
           s == Start(f)
           copied == IF l - 2 < NumPixels THEN l - 2 ELSE NumPixels
           pixel == TakePixels(b, json, json + 1, t)[i]
<1>1. f \in 1..NumFrames /\ t - Len(b) + json = Start(f) + 1
  BY HeaderAt
<1>2. ASSUME NEW k \in 0..(FrameLength - 1), json + k <= Len(b)
      PROVE  b[json + k] = Token(f, k)
  BY <1>2, AfterHeader
<1>3. ASSUME NEW k \in 0..(FrameLength - 1)
      PROVE  Stream[Start(f) + k + 1] = Token(f, k)
  BY <1>1, StreamAt
<1>4. /\ l \in Nat /\ t \in Nat /\ s \in Nat /\ json \in Nat \ {0} /\ json + 1 <= l
      /\ t - l + json = s + 1 /\ NumPixels \in Nat \ {0} /\ i \in 1..NumPixels
  <2> HIDE DEF f
  <2>1. f \in Nat \ {0}
    BY <1>1, FramingAssumption
  <2> QED BY <1>1, <2>1, LenProperties, StreamLength, StartType, FramingAssumption
<1>5. pixel = IF i > copied THEN Stream[t + i - copied]
              ELSE IF json + 1 + i <= l THEN b[json + 1 + i] ELSE Remnant
  <2>1. HaveAfter(b, json, json + 1) = l - 2
    BY <1>4 DEF HaveAfter
  <2> QED BY <2>1 DEF TakePixels
<1>9. own = l - json - 1
  OBVIOUS
<1> HIDE DEF f, l, s, copied, pixel, own
<1>6. CASE i > copied
  <2> DEFINE k == i + 2 - json
  <2>1. k \in 0..((NumPixels + 2) - 1) /\ k - 1 \in 1..NumPixels /\ t + i - copied = s + k + 1
    BY ONLY <1>4, <1>6 DEF copied
  <2>2. k # 0 /\ k # 1
    BY ONLY <2>1, <1>4
  <2> HIDE DEF k
  <2>3. Stream[t + i - copied] = Token(f, k)
    BY <2>1, <1>3 DEF FrameLength, s
  <2>4. Token(f, k) = Pixel(f, k - 1)
    BY <2>2 DEF Token
  <2>5. k - 1 = i - (json - 1) /\ ~(i <= h) /\ ~(i <= h + (json - 1))
    BY ONLY <1>4, <1>6, <1>9 DEF copied, k
  <2> QED BY <1>5, <1>6, <2>3, <2>4, <2>5 DEF f, pixel, ShownPixel
<1>7. CASE ~(i > copied) /\ json + 1 + i <= l
  <2>1. 1 + i \in 0..((NumPixels + 2) - 1) /\ json + (1 + i) = json + 1 + i /\ 1 + i # 0
        /\ 1 + i # 1 /\ (1 + i) - 1 = i
    BY ONLY <1>4
  <2>2. b[json + (1 + i)] = Token(f, 1 + i)
    BY <2>1, <1>7, <1>2 DEF FrameLength, l
  <2>3. Token(f, 1 + i) = Pixel(f, i)
    BY <2>1 DEF Token
  <2>4. pixel = Pixel(f, i)
    BY <1>5, <1>7, <2>1, <2>2, <2>3
  <2>5. i <= h
    BY ONLY <1>4, <1>7, <1>9
  <2> QED BY <2>4, <2>5 DEF f, pixel, ShownPixel
<1>8. CASE ~(i > copied) /\ ~(json + 1 + i <= l)
  <2>1. pixel = Remnant
    BY <1>5, <1>8
  <2>2. ~(i <= h) /\ i <= h + (json - 1)
    BY ONLY <1>4, <1>8, <1>9 DEF copied
  <2> QED BY <2>1, <2>2 DEF f, pixel, ShownPixel
<1> QED
  BY <1>6, <1>7, <1>8 DEF f, pixel

LEMMA PixelsType ==
  ASSUME NEW f \in 1..NumFrames, NEW p, NEW b, NEW json, NEW eol, NEW t,
         p = TakePixels(b, json, eol, t),
         NEW q \in Nat, ShownWith(f, q, p)
  PROVE  p \in Seq(Tokens \cup {Remnant})
<1>1. PICK h \in 0..NumPixels : \A i \in 1..NumPixels : p[i] = ShownPixel(f, q, h, i)
  BY DEF ShownWith
<1>4. ASSUME NEW i \in 1..NumPixels PROVE p[i] \in Tokens \cup {Remnant}
  <2>1. i - q \in 1..NumPixels \/ i <= h + q
    BY FramingAssumption
  <2> QED BY <1>1, <2>1 DEF ShownPixel, Tokens
<1>2. DOMAIN p = 1..NumPixels /\ p = [i \in 1..NumPixels |-> p[i]]
  BY DEF TakePixels
<1>3. p \in [1..NumPixels -> Tokens \cup {Remnant}]
  BY <1>2, <1>4
<1> QED
  BY <1>3, FramingAssumption

-----------------------------------------------------------------------------
(* Where no pixel looks like JSON, no header is overlooked. *)

Readable == \A i \in 1..NumPixels : looks[i] # "json"

LEMMA OnlyHeadersLookLikeJson ==
  ASSUME Readable, NEW x \in Tokens, LooksLike(x, "json")
  PROVE  x.kind = "json"
BY DEF Readable, Tokens, LooksLike, Json, Eol, Pixel

\* The next frame's header, if it is in the buffer, is the first JSON text there.
LEMMA NextHeader ==
  ASSUME NEW b \in Seq(Tokens), NEW t \in 0..Len(Stream), NEW g, NEW last \in 0..NumFrames,
         Holds(b, t, g, last), Readable,
         t - g <= Start(last + 1), Start(last + 1) < t
  PROVE  LET k == Len(b) - t + Start(last + 1) + 1
         IN  /\ k \in 1..Len(b) /\ b[k] = Json(last + 1)
             /\ \A j \in 1..(k - 1) : ~LooksLike(b[j], "json")
             /\ k + 1 <= Len(b) => b[k + 1] = Eol(last + 1)
<1> DEFINE l == Len(b)
           s == Start(last + 1)
           k == l - t + s + 1
<1>1. last \in Nat /\ last + 1 \in Nat \ {0} /\ NumFrames \in Nat
  BY FramingAssumption
<1>2. l \in Nat /\ g \in 0..l /\ t \in Nat /\ s \in Nat /\ s < t /\ t - g <= s
  BY <1>1, LenProperties, StreamLength, StartType DEF Holds
<1>3. last + 1 \in 1..NumFrames
  <2>1. CASE last = NumFrames
    <3>1. t <= s
      BY <2>1, StreamLength
    <3> QED BY <3>1, <1>2
  <2>2. CASE last # NumFrames
    BY <2>2, <1>1
  <2> QED BY <2>1, <2>2
<1>4. k \in 1..l
  <2> HIDE DEF l, s
  <2> QED BY ONLY <1>2
<1>5. b[k] = Json(last + 1)
  <2>1. k \in (l - g + 1)..l /\ t - l + k = s + 0 + 1
    <3> HIDE DEF l, s
    <3> QED BY ONLY <1>2
  <2> HIDE DEF k
  <2>2. b[k] = Stream[s + 0 + 1]
    BY <2>1 DEF Holds
  <2>3. Stream[s + 0 + 1] = Token(last + 1, 0)
    BY <1>3, StreamAt, LengthType
  <2> QED BY <2>2, <2>3 DEF Token
<1> HIDE DEF k
<1>6. ASSUME NEW j \in 1..(k - 1) PROVE ~LooksLike(b[j], "json")
  <2>1. SUFFICES ASSUME LooksLike(b[j], "json") PROVE FALSE
    OBVIOUS
  <2>2. j \in 1..l /\ k \in Int /\ l \in Int
    BY <1>2, <1>4
  <2>3. b[j] \in Tokens
    BY <2>2, ElementOfSeq
  <2>4. b[j].kind = "json"
    BY <2>1, <2>3, OnlyHeadersLookLikeJson
  <2> DEFINE f == b[j].frame
  <2>5. f \in 1..NumFrames /\ f > last /\ t - Len(b) + j = Start(f) + 1
    BY <2>2, <2>4, HeaderAt
  <2> HIDE DEF f
  <2>6. f \in Nat \ {0} /\ f \in Int
    BY <2>5, FramingAssumption
  <2>7. s <= Start(f) /\ Start(f) \in Nat
    <3>1. CASE f = last + 1
      BY <3>1, <2>6, StartType
    <3>2. CASE last + 1 < f
      <4>1. s + FrameLength <= Start(f)
        BY <3>2, <2>6, <1>1, StartOrder
      <4> QED BY <4>1, <1>2, <2>6, StartType, LengthType
    <3> QED BY <3>1, <3>2, <2>5, <2>6, <1>1
  <2> DEFINE u == Start(f)
  <2>8. s <= u /\ u \in Nat /\ t - l + j = u + 1 /\ k = l - t + s + 1 /\ j \in 1..(k - 1)
    BY <2>5, <2>7 DEF k
  <2> HIDE DEF u, s, l
  <2> QED BY ONLY <2>8, <1>2
<1>7. ASSUME k + 1 <= l PROVE b[k + 1] = Eol(last + 1)
  <2>1. b[k].kind = "json" /\ b[k].frame = last + 1
    BY <1>5 DEF Json
  <2>2. 1 \in 0..(FrameLength - 1)
    BY LengthType
  <2>3. b[k + 1] = Token(last + 1, 1)
    BY <1>4, <1>7, <2>1, <2>2, AfterHeader
  <2> QED BY <2>3 DEF Token
<1> QED
  BY <1>4, <1>5, <1>6, <1>7 DEF k

-----------------------------------------------------------------------------
(* The state: what the buffer holds, in terms of the frame processed last. *)

LastFrame == IF published = <<>> THEN 0 ELSE published[Len(published)].frame

Clean == ~overran /\ Readable

\* As long as nothing was thrown away and every line can be read, the header of
\* the next frame is in the newest tokens of the buffer or still to come.
Shape ==
  running => \E g : /\ Holds(buffer, taken, g, LastFrame)
                    /\ Clean => taken - g <= Start(LastFrame + 1)

LEMMA LastFrameType ==
  ASSUME TypeOK PROVE LastFrame \in 0..NumFrames /\ LastFrame \in Nat
<1>1. CASE published = <<>>
  BY <1>1, FramingAssumption DEF LastFrame
<1>2. CASE published # <<>>
  <2> DEFINE Entries == [frame : 1..NumFrames, before : Nat, pixels : Seq(Tokens \cup {Remnant})]
  <2>1. published \in Seq(Entries)
    BY DEF TypeOK
  <2> HIDE DEF Entries
  <2>2. Len(published) \in 1..Len(published)
    BY <1>2, <2>1, EmptySeq
  <2>3. published[Len(published)] \in Entries
    BY <2>1, <2>2, ElementOfSeq
  <2> QED BY <1>2, <2>3, FramingAssumption DEF LastFrame, Entries
<1> QED
  BY <1>1, <1>2

\* A recv() whose tokens give no frame: no line, or a line that cannot be read.
SkipsTo(n, rest, h) ==
  /\ Len(rest) <= Len(buffer) + n /\ Keep(rest)
  /\ taken' = taken + n /\ UNCHANGED <<published, running>>
  /\ Holds(rest, taken + n, h, LastFrame)
  /\ Clean => (taken + n) - h <= Start(LastFrame + 1)

Skips(n) == \E rest \in Seq(Tokens), h \in Nat : SkipsTo(n, rest, h)

\* A recv() that completes the line of frame f.
ProcessesTo(n, rest, h, f, q, p, m) ==
  /\ Len(rest) <= Len(buffer) + n /\ Keep(rest)
  /\ taken' = taken + n + m /\ taken + n + m <= Len(Stream) /\ UNCHANGED running
  /\ published' = Append(published, [frame |-> f, before |-> q, pixels |-> p])
  /\ ShownWith(f, q, p)
  /\ f > LastFrame /\ (Clean => f = LastFrame + 1)
  /\ Holds(rest, taken + n + m, h, f) /\ (taken + n + m) - h <= Start(f + 1)

Processes(n) ==
  \E rest \in Seq(Tokens), h \in Nat, f \in 1..NumFrames, q \in Nat, p \in Seq(Tokens \cup {Remnant}), m \in Nat :
    ProcessesTo(n, rest, h, f, q, p, m)

\* Serval has closed the stream before the last pixel.
Ends ==
  running' = FALSE /\ taken' = Len(Stream) /\ UNCHANGED <<buffer, published, overran>>

LEMMA ReceiveCases ==
  ASSUME TypeOK, Shape, NEW n \in 1..(BufferSize - 1), Receive(n)
  PROVE  /\ Skips(n) \/ Processes(n) \/ Ends
         /\ running /\ Len(buffer) + n <= BufferSize - 1 /\ taken + n <= Len(Stream)
         /\ UNCHANGED <<together, looks>>
<1> DEFINE b    == buffer \o Received(n)
           t    == taken + n
           eol  == FirstEol(b)
           json == JsonBefore(b, eol)
           last == LastFrame
           rest == SubSeq(b, eol + 1, Len(b))
<1>1. /\ running /\ n <= BufferSize - Len(buffer) - 1 /\ t <= Len(Stream)
      /\ UNCHANGED <<together, looks>>
      /\ IF eol = 0
         THEN Keep(b) /\ taken' = t /\ UNCHANGED <<published, running>>
         ELSE IF ~IsHeader(b, json, eol)
         THEN Keep(rest) /\ taken' = t /\ UNCHANGED <<published, running>>
         ELSE ProcessLine(b, json, eol, n)
  BY DEF Receive
<1>2. /\ n \in Nat /\ taken \in Nat /\ t \in 0..Len(Stream) /\ t \in Nat
      /\ buffer \in Seq(Tokens) /\ Len(buffer) \in Nat /\ BufferSize \in Nat
      /\ last \in 0..NumFrames /\ last \in Nat
  <2>1. n \in Nat /\ taken \in Nat /\ buffer \in Seq(Tokens) /\ BufferSize \in Nat
    BY FramingAssumption, StreamLength DEF TypeOK
  <2>2. last \in 0..NumFrames /\ last \in Nat
    BY LastFrameType
  <2> QED BY <1>1, <2>1, <2>2, LenProperties, StreamLength
<1>3. Len(buffer) + n <= BufferSize - 1
  BY <1>1, <1>2
<1>4. PICK g0 : Holds(buffer, taken, g0, last) /\ (Clean => taken - g0 <= Start(last + 1))
  BY <1>1 DEF Shape
<1>5. /\ b \in Seq(Tokens) /\ Len(b) = Len(buffer) + n
      /\ Holds(b, t, g0 + n, last)
  <2> HIDE DEF last
  <2> QED BY <1>1, <1>2, <1>4, HoldsMore DEF Received
<1> DEFINE g == g0 + n
<1>6. g0 \in Int /\ t - g = taken - g0 /\ g \in Int
  BY <1>2, <1>4 DEF Holds
<1>7. Holds(b, t, g, last) /\ (Clean => t - g <= Start(last + 1))
  BY <1>4, <1>5, <1>6
<1>8. Start(last + 1) \in Nat /\ last + 1 \in Nat \ {0}
  BY <1>2, StartType
<1>9. /\ Len(b) \in Nat
      /\ \/ eol = 0
         \/ /\ eol \in 1..Len(b) /\ LooksLike(b[eol], "eol")
            /\ \A k \in 1..(eol - 1) : ~LooksLike(b[k], "eol")
  <2>1. Len(b) \in Nat
    BY <1>2, <1>5
  <2> HIDE DEF b
  <2> QED BY <2>1, FirstLikeIsFirst DEF FirstEol
<1>10. eol # 0 =>
         \/ json = 0 /\ \A k \in 1..(eol - 1) : ~LooksLike(b[k], "json")
         \/ /\ json \in 1..(eol - 1) /\ LooksLike(b[json], "json")
            /\ \A k \in 1..(json - 1) : ~LooksLike(b[k], "json")
  <2> HIDE DEF b, eol
  <2>1. ASSUME eol # 0 PROVE eol - 1 \in Nat
    BY <1>9, <2>1
  <2> QED BY <2>1, FirstLikeIsFirst DEF JsonBefore
<1> HIDE DEF b, t, eol, json, last, g
(* Where the next header lies, if it is in the buffer. *)
<1> DEFINE k == Len(b) - t + Start(last + 1) + 1
<1>11. ASSUME Clean, Start(last + 1) < t
       PROVE  /\ k \in 1..Len(b) /\ b[k] = Json(last + 1)
              /\ \A j \in 1..(k - 1) : ~LooksLike(b[j], "json")
              /\ k + 1 <= Len(b) => b[k + 1] = Eol(last + 1)
  BY <1>2, <1>5, <1>7, <1>11, NextHeader DEF Clean
<1>12. CASE eol = 0
  <2>1. Len(b) <= Len(buffer) + n /\ Keep(b) /\ taken' = taken + n /\ UNCHANGED <<published, running>>
    BY <1>1, <1>2, <1>5, <1>12 DEF t
  <2>2. SkipsTo(n, b, g)
    BY <2>1, <1>7 DEF SkipsTo, t, last
  <2>3. Skips(n)
    BY <2>2, <1>5, <1>7, HoldsNat DEF Skips
  <2> QED BY <2>3, <1>1, <1>3 DEF t
<1>13. CASE eol # 0 /\ ~IsHeader(b, json, eol)
  <2> DEFINE h == IF g <= Len(b) - eol THEN g ELSE Len(b) - eol
  <2>1. rest \in Seq(Tokens) /\ Len(rest) = Len(b) - eol /\ Holds(rest, t, h, last)
    <3>1. eol \in 0..Len(b)
      BY <1>9, <1>13
    <3> QED BY <3>1, <1>2, <1>5, <1>7, HoldsRest
  <2>2. Len(rest) <= Len(buffer) + n
    BY <2>1, <1>2, <1>5, <1>9, <1>13
  <2>3. ASSUME Clean PROVE t - h <= Start(last + 1)
    <3>1. SUFFICES ASSUME t - h > Start(last + 1) PROVE FALSE
      <4>1. t - h \in Int
        BY <1>2, <1>6, <1>9, <1>13 DEF g
      <4> QED BY <4>1, <3>1, <1>8
    <3> DEFINE s == Start(last + 1)
               l == Len(b)
    <3>2. /\ l \in Nat /\ t \in Nat /\ s \in Nat /\ eol \in 1..l /\ g \in Int /\ t - g <= s
          /\ t - h > s /\ h = IF g <= l - eol THEN g ELSE l - eol
      BY <1>2, <1>6, <1>7, <1>8, <1>9, <1>13, <2>3, <3>1
    <3>3. k = l - t + s + 1
      OBVIOUS
    <3> HIDE DEF s, l, h, k
    <3>4. t - (l - eol) > s
      BY ONLY <3>2
    <3>5. k <= eol /\ s < t /\ k \in Int /\ eol \in Int
      BY ONLY <3>2, <3>3, <3>4
    <3>6. k \in 1..l /\ b[k] = Json(last + 1) /\ (\A j \in 1..(k - 1) : ~LooksLike(b[j], "json"))
          /\ (k + 1 <= l => b[k + 1] = Eol(last + 1))
      BY <1>11, <2>3, <3>5 DEF s, l
    <3>7. k # eol
      BY <1>9, <1>13, <3>6 DEF LooksLike, Json
    <3>8. k + 1 <= l /\ k + 1 \in 1..l
      BY <3>2, <3>5, <3>6, <3>7
    <3>9. LooksLike(b[k + 1], "eol")
      BY <3>6, <3>8 DEF LooksLike, Eol
    <3>10. eol = k + 1
      <4>1. ~(k + 1 \in 1..(eol - 1))
        BY <1>9, <1>13, <3>9
      <4> QED BY <4>1, <3>5, <3>6, <3>7
    <3>11. LooksLike(b[k], "json") /\ k \in 1..(eol - 1)
      BY <3>6, <3>10 DEF LooksLike, Json
    <3>12. json = k
      <4>1. json \in 1..(eol - 1) /\ LooksLike(b[json], "json")
            /\ \A j \in 1..(json - 1) : ~LooksLike(b[j], "json")
        BY <1>10, <1>13, <3>11
      <4>2. ~(k \in 1..(json - 1))
        BY <4>1, <3>11
      <4>3. ~(json \in 1..(k - 1))
        BY <4>1, <3>6
      <4> QED BY <4>1, <4>2, <4>3, <3>11, <3>5
    <3>13. IsHeader(b, json, eol)
      BY <3>6, <3>10, <3>11, <3>12 DEF IsHeader, Json
    <3> QED BY <3>13, <1>13
  <2>4. Keep(rest) /\ taken' = taken + n /\ UNCHANGED <<published, running>>
    BY <1>1, <1>13 DEF t
  <2> HIDE DEF rest, h
  <2>5. SkipsTo(n, rest, h)
    BY <2>1, <2>2, <2>3, <2>4 DEF SkipsTo, t, last
  <2>6. Skips(n)
    BY <2>1, <2>5, HoldsNat DEF Skips
  <2> QED BY <2>6, <1>1, <1>3 DEF t
<1>14. CASE eol # 0 /\ IsHeader(b, json, eol)
  <2>1. /\ json \in 1..(eol - 1) /\ eol = json + 1 /\ b[json].kind = "json"
        /\ json \in 1..Len(b) /\ json + 1 <= Len(b) /\ json \in Int
        /\ \A j \in 1..(json - 1) : ~LooksLike(b[j], "json")
    <3>1. json \in 1..(eol - 1) /\ (\A j \in 1..(json - 1) : ~LooksLike(b[j], "json"))
      BY <1>10, <1>14 DEF IsHeader
    <3> QED BY <3>1, <1>9, <1>14 DEF IsHeader
  <2> DEFINE f == b[json].frame
             missing == MissingPixels(b, json, eol)
             p == TakePixels(b, json, eol, t)
             q == json - 1
  <2>2. f \in 1..NumFrames /\ f > last /\ t - Len(b) + json = Start(f) + 1
    BY <1>2, <1>5, <1>7, <2>1, HeaderAt
  <2>3. /\ missing \in Nat
        /\ rest \in Seq(Tokens) /\ Len(rest) = Len(b) - eol
        /\ \E h : Holds(rest, t + missing, h, f) /\ (t + missing) - h <= Start(f + 1)
    <3>1. eol = json + 1 /\ eol + 1 = json + 2
      BY <2>1
    <3> QED BY <3>1, <1>2, <1>5, <1>7, <2>1, HoldsProcessed
  <2>4. ShownWith(f, q, p) /\ q \in Nat
    BY <1>2, <1>5, <1>7, <2>1, PixelsOfFrame
  <2>5. p \in Seq(Tokens \cup {Remnant})
    <3> HIDE DEF f, q
    <3> QED BY <2>2, <2>4, PixelsType
  <2>6. ASSUME Clean PROVE f = last + 1
    <3> DEFINE s == Start(last + 1)
               u == Start(f)
               l == Len(b)
    <3>1. f \in Nat \ {0} /\ f \in Int
      BY <2>2, FramingAssumption
    <3>2. u \in Nat /\ s \in Nat /\ s <= u
      <4> HIDE DEF f
      <4>1. Start(f) \in Nat
        BY <3>1, StartType
      <4>2. CASE f = last + 1
        BY <4>1, <4>2
      <4>3. CASE last + 1 < f
        <5>1. Start(last + 1) + FrameLength <= Start(f)
          BY <4>3, <3>1, <1>8, StartOrder
        <5> QED BY <5>1, <4>1, <1>8, LengthType
      <4> QED BY <4>2, <4>3, <2>2, <3>1, <1>2
    <3>3. t - l + json = u + 1 /\ k = l - t + s + 1 /\ json \in 1..l /\ t \in Nat /\ l \in Nat
      BY <2>1, <2>2, <1>2, <1>9
    <3> HIDE DEF s, u, l, k
    <3>4. s < t /\ k <= json /\ k \in Int /\ json \in Int
      BY ONLY <3>2, <3>3
    <3>5. k \in 1..l /\ b[k] = Json(last + 1)
      BY <1>11, <2>6, <3>4 DEF s, l
    <3>6. LooksLike(b[k], "json")
      BY <3>5 DEF LooksLike, Json
    <3>7. k = json
      <4>1. ~(k \in 1..(json - 1))
        BY <2>1, <3>6
      <4> QED BY <4>1, <3>4, <3>5, <3>3
    <3> QED BY <3>5, <3>7 DEF Json
  <2>7. ProcessLine(b, json, eol, n)
    BY <1>1, <1>14
  <2>8. CASE t + missing > Len(Stream)
    <3>1. Ends
      BY <2>7, <2>8 DEF ProcessLine, Ends, t
    <3> QED BY <3>1, <1>1, <1>3 DEF t
  <2>9. CASE ~(t + missing > Len(Stream))
    <3>1. /\ taken' = t + missing /\ Keep(rest) /\ UNCHANGED running
          /\ published' = Append(published, [frame |-> f, before |-> q, pixels |-> p])
      BY <2>7, <2>9 DEF ProcessLine, t
    <3>2. t + missing <= Len(Stream) /\ Len(rest) <= Len(buffer) + n
      <4> DEFINE all == Len(Stream)
                 size == Len(rest)
                 l == Len(b)
                 old == Len(buffer)
      <4>1. /\ ~(t + missing > all) /\ all \in Nat /\ missing \in Nat /\ size = l - eol
            /\ t \in Nat /\ l \in Nat /\ l = old + n /\ eol \in 1..l
        BY <2>9, <2>3, <2>1, <1>2, <1>5, <1>9, StreamLength
      <4> HIDE DEF missing, all, size, l, old
      <4>2. t + missing <= all /\ size <= old + n
        BY ONLY <4>1
      <4> QED BY <4>2 DEF all, size, old
    <3> HIDE DEF f, missing, p, q, rest
    <3>3. PICK h : Holds(rest, t + missing, h, f) /\ (t + missing) - h <= Start(f + 1)
      BY <2>3
    <3>4. ProcessesTo(n, rest, h, f, q, p, missing)
      BY <2>2, <2>4, <2>6, <3>1, <3>2, <3>3 DEF ProcessesTo, t, last
    <3>5. Processes(n)
      BY <2>2, <2>3, <2>4, <2>5, <3>3, <3>4, HoldsNat DEF Processes
    <3> QED BY <3>5, <1>1, <1>3 DEF t
  <2> QED BY <2>8, <2>9
<1> QED
  BY <1>12, <1>13, <1>14

LEMMA KeepResult ==
  ASSUME NEW rest \in Seq(Tokens), Keep(rest), BufferSize \in Nat, overran \in BOOLEAN
  PROVE  /\ buffer' \in Seq(Tokens) /\ Len(buffer') < BufferSize - 1 /\ overran' \in BOOLEAN
         /\ \/ buffer' = rest /\ overran' = overran
            \/ buffer' = <<>> /\ overran' = TRUE
<1>1. Len(rest) \in Nat
  BY LenProperties
<1>2. <<>> \in Seq(Tokens) /\ Len(<<>>) = 0
  BY EmptySeq
<1>3. BufferSize > 2
  BY FramingAssumption
<1>4. CASE Len(rest) >= BufferSize - 1
  BY <1>2, <1>3, <1>4 DEF Keep
<1>5. CASE ~(Len(rest) >= BufferSize - 1)
  BY <1>1, <1>5 DEF Keep
<1> QED
  BY <1>4, <1>5

\* A buffer that was thrown away holds nothing wrong.
LEMMA KeepHolds ==
  ASSUME NEW rest \in Seq(Tokens), Keep(rest), overran \in BOOLEAN, NEW t \in Nat, NEW h,
         NEW last \in 0..NumFrames, Holds(rest, t, h, last)
  PROVE  \/ buffer' = rest /\ overran' = overran /\ Holds(buffer', t, h, last)
         \/ overran' = TRUE /\ Holds(buffer', t, 0, last)
<1>1. \/ buffer' = rest /\ overran' = overran
      \/ buffer' = <<>> /\ overran' = TRUE
  BY KeepResult, FramingAssumption
<1>2. Holds(<<>>, t, 0, last)
  <2>1. Behind(last) \in Nat /\ Len(rest) \in Nat /\ h \in 0..Len(rest) /\ Behind(last) <= t - h
    BY LenProperties, BehindType DEF Holds
  <2>2. Behind(last) <= t - 0
    BY <2>1
  <2>3. Len(<<>>) = 0 /\ 0 \in 0..0 /\ 1..(0 - 0) = {} /\ (0 - 0 + 1)..0 = {}
    OBVIOUS
  <2> DEFINE nothing == <<>>
  <2> HIDE DEF nothing
  <2>4. Len(nothing) = 0
    BY <2>3 DEF nothing
  <2>5. Holds(nothing, t, 0, last)
    BY <2>2, <2>3, <2>4 DEF Holds
  <2> QED BY <2>5 DEF nothing
<1> QED
  BY <1>1, <1>2

-----------------------------------------------------------------------------
(* The types. *)

Entries == [frame : 1..NumFrames, before : Nat, pixels : Seq(Tokens \cup {Remnant})]

LEMMA InitType == Init => TypeOK /\ Shape
<1> SUFFICES ASSUME Init PROVE TypeOK /\ Shape
  OBVIOUS
<1>1. <<>> \in Seq(Tokens) /\ Len(<<>>) = 0 /\ <<>> \in Seq(Entries)
  BY EmptySeq
<1>2. TypeOK
  <2>1. taken \in 0..Len(Stream)
    BY StreamLength DEF Init
  <2>2. Len(buffer) < BufferSize /\ BufferSize - Len(buffer) - 1 > 0 /\ buffer \in Seq(Tokens)
    BY <1>1, FramingAssumption DEF Init
  <2> QED BY <1>1, <2>1, <2>2 DEF Init, TypeOK, Entries
<1>3. Shape
  <2> DEFINE nothing == <<>>
  <2> HIDE DEF nothing
  <2>1. Len(nothing) = 0 /\ 0 \in 0..0 /\ 1..(0 - 0) = {} /\ (0 - 0 + 1)..0 = {}
    BY <1>1 DEF nothing
  <2>2. Behind(0) = 0 /\ 0 <= 0 - 0
    BY DEF Behind
  <2>3. Holds(nothing, 0, 0, 0)
    BY <2>1, <2>2 DEF Holds
  <2>4. Start(0 + 1) = 0
    BY LengthType DEF Start
  <2>5. buffer = nothing /\ taken = 0 /\ LastFrame = 0 /\ 0 - 0 <= Start(0 + 1)
    BY <2>4 DEF Init, nothing, LastFrame
  <2> QED BY <2>3, <2>5 DEF Shape
<1> QED
  BY <1>2, <1>3

LEMMA AppendLast ==
  ASSUME TypeOK, NEW f \in 1..NumFrames, NEW q \in Nat, NEW p \in Seq(Tokens \cup {Remnant}),
         published' = Append(published, [frame |-> f, before |-> q, pixels |-> p])
  PROVE  /\ published' \in Seq(Entries) /\ LastFrame' = f
         /\ Len(published) \in Nat /\ Len(published') = Len(published) + 1
         /\ published'[Len(published) + 1] = [frame |-> f, before |-> q, pixels |-> p]
         /\ \A k \in 1..Len(published) : published'[k] = published[k]
<1> DEFINE e == [frame |-> f, before |-> q, pixels |-> p]
<1>1. e \in Entries /\ e.frame = f
  BY DEF Entries
<1>2. published \in Seq(Entries)
  BY DEF TypeOK, Entries
<1> HIDE DEF e
<1>3. published' = Append(published, e)
  BY DEF e
<1>4. /\ published' \in Seq(Entries) /\ Len(published) \in Nat
      /\ Len(published') = Len(published) + 1
      /\ published'[Len(published) + 1] = e
      /\ \A k \in 1..Len(published) : published'[k] = published[k]
  BY <1>1, <1>2, <1>3, AppendProperties, LenProperties
<1>5. published' # <<>>
  BY <1>4
<1>6. LastFrame' = f
  BY <1>1, <1>4, <1>5 DEF LastFrame
<1> QED
  BY <1>4, <1>6 DEF e

\* One step keeps the types and what the buffer holds.
LEMMA NextType == TypeOK /\ Shape /\ [Next]_vars => TypeOK' /\ Shape'
<1> SUFFICES ASSUME TypeOK, Shape, [Next]_vars PROVE TypeOK' /\ Shape'
  OBVIOUS
<1>1. ASSUME NEW n \in 1..(BufferSize - 1), Receive(n) PROVE TypeOK' /\ Shape'
  <2>1. /\ Skips(n) \/ Processes(n) \/ Ends
        /\ running /\ Len(buffer) + n <= BufferSize - 1 /\ taken + n <= Len(Stream)
        /\ UNCHANGED <<together, looks>>
    BY <1>1, ReceiveCases
  <2>2. /\ n \in Nat /\ taken \in Nat /\ BufferSize \in Nat /\ overran \in BOOLEAN
        /\ Len(Stream) \in Nat /\ taken + n \in Nat
    BY FramingAssumption, StreamLength DEF TypeOK
  <2>3. together' \in BOOLEAN /\ looks' \in [1..NumPixels -> Looks]
    BY <2>1 DEF TypeOK
  <2>4. CASE Skips(n)
    <3>1. PICK rest \in Seq(Tokens), h \in Nat : SkipsTo(n, rest, h)
      BY <2>4 DEF Skips
    <3>2. Keep(rest) /\ taken' = taken + n /\ published' = published /\ running' = running
          /\ Holds(rest, taken + n, h, LastFrame) /\ LastFrame' = LastFrame
          /\ (Clean => (taken + n) - h <= Start(LastFrame + 1))
      BY <3>1 DEF SkipsTo, LastFrame
    <3>3. buffer' \in Seq(Tokens) /\ Len(buffer') < BufferSize - 1 /\ overran' \in BOOLEAN
      BY <3>2, <2>2, KeepResult
    <3>4. TypeOK'
      <4>1. taken' \in 0..Len(Stream)
        BY <3>2, <2>1, <2>2
      <4>2. Len(buffer') < BufferSize /\ BufferSize - Len(buffer') - 1 > 0
        BY <3>3, <2>2, LenProperties
      <4>3. running' \in BOOLEAN /\ published' \in Seq(Entries)
        BY <3>2 DEF TypeOK, Entries
      <4> QED BY <4>1, <4>2, <4>3, <3>3, <2>3 DEF TypeOK, Entries
    <3>5. \/ buffer' = rest /\ overran' = overran /\ Holds(buffer', taken + n, h, LastFrame)
          \/ overran' = TRUE /\ Holds(buffer', taken + n, 0, LastFrame)
      BY <3>2, <2>2, LastFrameType, KeepHolds
    <3>6. Clean' => Clean /\ overran' = FALSE
      BY <2>1, <3>5, <3>3, <2>2 DEF Clean, Readable
    <3> QED BY <3>2, <3>4, <3>5, <3>6 DEF Shape
  <2>5. CASE Processes(n)
    <3>1. PICK rest \in Seq(Tokens), h \in Nat, f \in 1..NumFrames, q \in Nat, p \in Seq(Tokens \cup {Remnant}),
               m \in Nat :
            ProcessesTo(n, rest, h, f, q, p, m)
      BY <2>5 DEF Processes
    <3>2. /\ Keep(rest) /\ taken' = taken + n + m /\ taken + n + m <= Len(Stream) /\ running' = running
          /\ published' = Append(published, [frame |-> f, before |-> q, pixels |-> p])
          /\ Holds(rest, taken + n + m, h, f) /\ (taken + n + m) - h <= Start(f + 1)
      BY <3>1 DEF ProcessesTo
    <3>3. buffer' \in Seq(Tokens) /\ Len(buffer') < BufferSize - 1 /\ overran' \in BOOLEAN
      BY <3>2, <2>2, KeepResult
    <3>4. published' \in Seq(Entries) /\ LastFrame' = f
      BY <3>2, AppendLast
    <3>5. TypeOK'
      <4>1. taken' \in 0..Len(Stream)
        BY <3>2, <2>2
      <4>2. Len(buffer') < BufferSize /\ BufferSize - Len(buffer') - 1 > 0
        BY <3>3, <2>2, LenProperties
      <4>3. running' \in BOOLEAN
        BY <3>2 DEF TypeOK
      <4> QED BY <4>1, <4>2, <4>3, <3>3, <3>4, <2>3 DEF TypeOK, Entries
    <3>6. taken + n + m \in Nat /\ f \in 0..NumFrames
      BY <2>2, FramingAssumption
    <3>7. \/ buffer' = rest /\ overran' = overran /\ Holds(buffer', taken + n + m, h, f)
          \/ overran' = TRUE /\ Holds(buffer', taken + n + m, 0, f)
      BY <3>2, <3>6, <2>2, KeepHolds
    <3>8. Clean' => overran' = FALSE
      BY <3>3 DEF Clean
    <3> QED BY <3>2, <3>4, <3>5, <3>7, <3>8 DEF Shape
  <2>6. CASE Ends
    <3>1. /\ running' = FALSE /\ taken' \in 0..Len(Stream)
          /\ buffer' = buffer /\ published' = published /\ overran' = overran
      BY <2>6, <2>2 DEF Ends
    <3>2. TypeOK'
      BY <3>1, <2>3 DEF TypeOK
    <3> QED BY <3>1, <3>2 DEF Shape
  <2> QED BY <2>1, <2>4, <2>5, <2>6
<1>2. CASE Closed
  <2>1. running' = FALSE /\ UNCHANGED <<together, looks, taken, buffer, published, overran>>
    BY <1>2 DEF Closed
  <2> QED BY <2>1 DEF TypeOK, Shape
<1>3. CASE UNCHANGED vars
  <2>1. /\ UNCHANGED <<together, looks, taken, buffer, published, overran, running>>
        /\ LastFrame' = LastFrame /\ Clean' = Clean
    BY <1>3 DEF vars, LastFrame, Clean, Readable
  <2> QED BY <2>1 DEF TypeOK, Shape
<1> QED
  BY <1>1, <1>2, <1>3 DEF Next

\* The variables keep their types: the line buffer stays within its bounds, and
\* there is always room to receive into.
THEOREM TypeCorrect == Spec => []TypeOK
<1>1. Spec => [](TypeOK /\ Shape)
  BY InitType, NextType, PTL DEF Spec
<1> QED
  BY <1>1, PTL

-----------------------------------------------------------------------------
(* What is published. *)

Publishes(f, q, p) ==
  /\ published' = Append(published, [frame |-> f, before |-> q, pixels |-> p])
  /\ ShownWith(f, q, p)
  /\ f > LastFrame /\ (Clean => f = LastFrame + 1)

LEMMA StepPublishes ==
  ASSUME TypeOK, Shape, [Next]_vars
  PROVE  /\ \/ published' = published
            \/ \E f \in 1..NumFrames, q \in Nat, p \in Seq(Tokens \cup {Remnant}) : Publishes(f, q, p)
         /\ Clean' => Clean
<1>1. ASSUME NEW n \in 1..(BufferSize - 1), Receive(n)
      PROVE  /\ \/ published' = published
                \/ \E f \in 1..NumFrames, q \in Nat, p \in Seq(Tokens \cup {Remnant}) : Publishes(f, q, p)
             /\ Clean' => Clean
  <2>1. (Skips(n) \/ Processes(n) \/ Ends) /\ UNCHANGED looks
    BY <1>1, ReceiveCases
  <2>2. overran \in BOOLEAN /\ BufferSize \in Nat
    BY FramingAssumption DEF TypeOK
  <2>3. CASE Skips(n)
    <3>1. PICK rest \in Seq(Tokens), h \in Nat : SkipsTo(n, rest, h)
      BY <2>3 DEF Skips
    <3>2. Keep(rest) /\ published' = published
      BY <3>1 DEF SkipsTo
    <3>3. overran' = overran \/ overran' = TRUE
      BY <3>2, <2>2, KeepResult
    <3> QED BY <2>1, <2>2, <3>2, <3>3 DEF Clean, Readable
  <2>4. CASE Processes(n)
    <3>1. PICK rest \in Seq(Tokens), h \in Nat, f \in 1..NumFrames, q \in Nat, p \in Seq(Tokens \cup {Remnant}),
               m \in Nat :
            ProcessesTo(n, rest, h, f, q, p, m)
      BY <2>4 DEF Processes
    <3>2. Keep(rest) /\ Publishes(f, q, p)
      BY <3>1 DEF ProcessesTo, Publishes
    <3>3. overran' = overran \/ overran' = TRUE
      BY <3>2, <2>2, KeepResult
    <3>4. Clean' => Clean
      BY <2>1, <2>2, <3>3 DEF Clean, Readable
    <3> QED BY <3>2, <3>4
  <2>5. CASE Ends
    <3>1. UNCHANGED <<published, overran, looks>>
      BY <2>1, <2>5 DEF Ends
    <3> QED BY <3>1 DEF Clean, Readable
  <2> QED BY <2>1, <2>3, <2>4, <2>5
<1>2. CASE Closed \/ UNCHANGED vars
  <2>1. UNCHANGED <<published, overran, looks>>
    BY <1>2 DEF Closed, vars
  <2> QED BY <2>1 DEF Clean, Readable
<1> QED
  BY <1>1, <1>2 DEF Next

\* Whatever recv() returns, a frame shows its own pixels in their places, but for as many
\* as there were bytes before its header in the buffer, which are remnants.
THEOREM PixelsInPlaceHolds == Spec => []PixelsInPlace
<1>1. Init => PixelsInPlace
  BY EmptySeq DEF Init, PixelsInPlace
<1>2. TypeOK /\ Shape /\ PixelsInPlace /\ [Next]_vars => PixelsInPlace'
  <2> SUFFICES ASSUME TypeOK, Shape, PixelsInPlace, [Next]_vars PROVE PixelsInPlace'
    OBVIOUS
  <2>1. CASE published' = published
    BY <2>1 DEF PixelsInPlace
  <2>2. ASSUME NEW f \in 1..NumFrames, NEW q \in Nat, NEW p \in Seq(Tokens \cup {Remnant}), Publishes(f, q, p)
        PROVE  PixelsInPlace'
    <3>1. published' = Append(published, [frame |-> f, before |-> q, pixels |-> p])
      BY <2>2 DEF Publishes
    <3>2. /\ Len(published) \in Nat /\ Len(published') = Len(published) + 1
          /\ published'[Len(published) + 1] = [frame |-> f, before |-> q, pixels |-> p]
          /\ \A k \in 1..Len(published) : published'[k] = published[k]
      BY <3>1, AppendLast
    <3>3. ASSUME NEW k \in 1..Len(published')
          PROVE  ShownWith(published'[k].frame, published'[k].before, published'[k].pixels)
      <4>1. CASE k \in 1..Len(published)
        BY <4>1, <3>2 DEF PixelsInPlace
      <4>2. CASE k = Len(published) + 1
        <5>1. published'[k].frame = f /\ published'[k].before = q /\ published'[k].pixels = p
          BY <4>2, <3>2
        <5>2. ShownWith(f, q, p)
          BY <2>2 DEF Publishes
        <5> QED BY <5>1, <5>2
      <4> QED BY <4>1, <4>2, <3>2
    <3> QED BY <3>3 DEF PixelsInPlace
  <2> QED BY <2>1, <2>2, StepPublishes
<1> QED
  BY <1>1, <1>2, InitType, NextType, PTL DEF Spec

\* A frame is skipped only if the buffer overran, or if pixels that look like
\* JSON made its line unreadable.
THEOREM NoGapsHolds == Spec => []NoGaps
<1>1. Init => NoGaps
  BY EmptySeq DEF Init, NoGaps
<1>2. TypeOK /\ Shape /\ NoGaps /\ [Next]_vars => NoGaps'
  <2> SUFFICES ASSUME TypeOK, Shape, NoGaps, [Next]_vars, Clean'
               PROVE  \A n \in 1..Len(published') : published'[n].frame = n
    BY DEF NoGaps, Clean, Readable
  <2>1. Clean
    BY StepPublishes
  <2>2. \A n \in 1..Len(published) : published[n].frame = n
    BY <2>1 DEF NoGaps, Clean, Readable
  <2>3. CASE published' = published
    BY <2>2, <2>3
  <2>4. ASSUME NEW f \in 1..NumFrames, NEW q \in Nat, NEW p \in Seq(Tokens \cup {Remnant}), Publishes(f, q, p)
        PROVE  \A n \in 1..Len(published') : published'[n].frame = n
    <3>1. published' = Append(published, [frame |-> f, before |-> q, pixels |-> p]) /\ f = LastFrame + 1
      BY <2>1, <2>4 DEF Publishes
    <3>2. /\ Len(published) \in Nat /\ Len(published') = Len(published) + 1
          /\ published'[Len(published) + 1] = [frame |-> f, before |-> q, pixels |-> p]
          /\ \A k \in 1..Len(published) : published'[k] = published[k]
      BY <3>1, AppendLast
    <3>3. LastFrame = Len(published)
      <4>1. CASE published = <<>>
        BY <4>1 DEF LastFrame
      <4>2. CASE published # <<>>
        <5>1. published \in Seq(Entries)
          BY DEF TypeOK, Entries
        <5>2. Len(published) \in 1..Len(published)
          BY <4>2, <5>1, EmptySeq
        <5> QED BY <4>2, <5>2, <2>2 DEF LastFrame
      <4> QED BY <4>1, <4>2
    <3>4. published'[Len(published) + 1].frame = Len(published) + 1
      BY <3>1, <3>2, <3>3
    <3> QED BY <2>2, <3>2, <3>4
  <2> QED BY <2>3, <2>4, StepPublishes
<1> QED
  BY <1>1, <1>2, InitType, NextType, PTL DEF Spec

-----------------------------------------------------------------------------
(* Frames come in order, each at most once: the refinement of FrameOrder. *)

Delivered == [n \in 1..Len(published) |-> published[n].frame]

LEMMA DeliveredLast ==
  ASSUME TypeOK
  PROVE  /\ Delivered \in Seq(1..NumFrames) /\ Len(Delivered) = Len(published)
         /\ Order!Last = LastFrame
<1>1. published \in Seq(Entries) /\ Len(published) \in Nat
  BY LenProperties DEF TypeOK, Entries
<1>2. \A n \in 1..Len(published) : published[n].frame \in 1..NumFrames
  <2>1. \A n \in 1..Len(published) : published[n] \in Entries
    BY <1>1, ElementOfSeq
  <2> QED BY <2>1 DEF Entries
<1>3. Delivered \in Seq(1..NumFrames) /\ Len(Delivered) = Len(published)
  BY <1>1, <1>2 DEF Delivered
<1>4. Order!Last = IF Delivered = <<>> THEN 0 ELSE Delivered[Len(Delivered)]
  BY DEF Order!Last, Delivered
<1>5. CASE published = <<>>
  <2>1. Delivered = <<>>
    BY <1>5, <1>3, EmptySeq
  <2> QED BY <1>3, <1>4, <1>5, <2>1 DEF LastFrame
<1>6. CASE published # <<>>
  <2>1. Len(published) # 0 /\ Len(published) \in 1..Len(published)
    BY <1>1, <1>6, EmptySeq
  <2>2. Delivered # <<>>
    BY <1>3, <2>1
  <2>3. Delivered[Len(published)] = published[Len(published)].frame
    BY <2>1 DEF Delivered
  <2> QED BY <1>3, <1>4, <1>6, <2>2, <2>3 DEF LastFrame
<1> QED
  BY <1>3, <1>5, <1>6

\* Every frame that is processed was sent after all that were processed before.
THEOREM OrderKept == Spec => RefinesFrameOrder
<1>1. Init => Order!Init
  <2> SUFFICES ASSUME Init PROVE Delivered = <<>>
    BY DEF Order!Init, Delivered
  <2>1. TypeOK /\ Len(published) = 0
    BY InitType, EmptySeq DEF Init
  <2> QED BY <2>1, DeliveredLast, EmptySeq
<1>2. TypeOK /\ Shape /\ [Next]_vars => [Order!Next]_Delivered
  <2> SUFFICES ASSUME TypeOK, Shape, [Next]_vars PROVE [Order!Next]_Delivered
    OBVIOUS
  <2>1. CASE published' = published
    BY <2>1 DEF Delivered
  <2>2. ASSUME NEW f \in 1..NumFrames, NEW q \in Nat, NEW p \in Seq(Tokens \cup {Remnant}), Publishes(f, q, p)
        PROVE  Order!Next
    <3>1. published' = Append(published, [frame |-> f, before |-> q, pixels |-> p]) /\ f > LastFrame
      BY <2>2 DEF Publishes
    <3>2. /\ Len(published) \in Nat /\ Len(published') = Len(published) + 1
          /\ published'[Len(published) + 1] = [frame |-> f, before |-> q, pixels |-> p]
          /\ \A k \in 1..Len(published) : published'[k] = published[k]
      BY <3>1, AppendLast
    <3>3. Delivered \in Seq(1..NumFrames) /\ Len(Delivered) = Len(published) /\ Order!Last = LastFrame
      BY DeliveredLast
    <3>4. Delivered' = Append(Delivered, f)
      <4>1. Delivered' = [n \in 1..(Len(published) + 1) |-> published'[n].frame]
        BY <3>2 DEF Delivered
      <4>2. published'[Len(published) + 1].frame = f
        BY <3>2
      <4>3. \A n \in 1..Len(published) : Delivered[n] = published[n].frame /\ Delivered[n] \in 1..NumFrames
        BY <3>3, ElementOfSeq DEF Delivered
      <4>4. /\ Append(Delivered, f) \in Seq(1..NumFrames)
            /\ Len(Append(Delivered, f)) = Len(published) + 1
            /\ Append(Delivered, f)[Len(published) + 1] = f
            /\ \A n \in 1..Len(published) : Append(Delivered, f)[n] = Delivered[n]
        BY <3>3, AppendProperties
      <4>5. \A n \in 1..(Len(published) + 1) :
              n \in 1..Len(published) \/ n = Len(published) + 1
        BY <3>2
      <4>6. \A n \in 1..(Len(published) + 1) : published'[n].frame \in 1..NumFrames
        BY <3>2, <4>2, <4>3, <4>5
      <4>7. Delivered' \in Seq(1..NumFrames) /\ Len(Delivered') = Len(published) + 1
        BY <3>2, <4>1, <4>6
      <4>8. \A n \in 1..(Len(published) + 1) : Delivered'[n] = Append(Delivered, f)[n]
        BY <3>2, <4>1, <4>2, <4>3, <4>4, <4>5
      <4> QED BY <4>4, <4>7, <4>8, SeqEqual
    <3>5. Order!Deliver(f)
      BY <3>1, <3>3, <3>4 DEF Order!Deliver, Delivered
    <3> QED BY <3>5 DEF Order!Next
  <2> QED BY <2>1, <2>2, StepPublishes DEF Delivered
<1> QED
  BY <1>1, <1>2, InitType, NextType, PTL DEF Spec, RefinesFrameOrder, Order!Spec, Delivered

-----------------------------------------------------------------------------
(***************************************************************************)
(* Headers in segments of their own: between two calls of recv(), the      *)
(* buffer is empty or holds the JSON text of the next frame and no more.   *)
(***************************************************************************)
Separate ==
  ~together =>
    /\ SeparateIsExact
    /\ running =>
         \/ Len(buffer) = 0 /\ taken = Start(Len(published) + 1)
         \/ Len(buffer) = 1 /\ buffer[1] = Json(Len(published) + 1)
            /\ taken = Start(Len(published) + 1) + 1

LEMMA KeepShort ==
  ASSUME NEW rest \in Seq(Tokens), Len(rest) <= 1, Keep(rest)
  PROVE  buffer' = rest
<1>1. ~(Len(rest) >= BufferSize - 1)
  BY LenProperties, FramingAssumption
<1> QED
  BY <1>1 DEF Keep

LEMMA HeaderLooks ==
  ASSUME NEW f
  PROVE  /\ ~LooksLike(Json(f), "eol") /\ LooksLike(Eol(f), "eol")
         /\ LooksLike(Json(f), "json")
BY DEF LooksLike, Json, Eol

\* A header alone in the buffer: all pixels are received directly, and are those
\* of its frame.
LEMMA HeaderAlone ==
  ASSUME TypeOK, NEW n \in Nat, NEW f \in 1..NumFrames, NEW b \in Seq(Tokens),
         Len(b) = 2, b[1] = Json(f), b[2] = Eol(f), taken + n = Start(f) + 2,
         ProcessLine(b, 1, 2, n)
  PROVE  /\ published' = Append(published, [frame |-> f, before |-> 0, pixels |-> Pixels(f)])
         /\ Len(buffer') = 0 /\ taken' = Start(f + 1)
<1> DEFINE first == taken + n
<1>4. NumPixels \in Nat \ {0} /\ Start(f) \in Nat /\ Start(f + 1) = Start(f) + (NumPixels + 2)
  <2>1. f \in Nat \ {0} /\ f \in Int
    BY FramingAssumption
  <2> QED BY <2>1, StartType, StartNext, FramingAssumption DEF FrameLength
<1>5. HaveAfter(b, 1, 2) = 0
  BY DEF HaveAfter
<1>6. MissingPixels(b, 1, 2) = NumPixels
  BY <1>4, <1>5 DEF MissingPixels
<1>7. first + NumPixels = Start(f + 1) /\ ~(first + NumPixels > Len(Stream))
  <2> DEFINE s == Start(f)
             u == Start(f + 1)
             all == Len(Stream)
  <2>1. u <= all /\ all \in Nat
    <3>1. f + 1 \in Int /\ NumFrames + 1 \in Int /\ (f = NumFrames \/ f + 1 < NumFrames + 1)
      BY FramingAssumption
    <3>2. CASE f = NumFrames
      BY <3>2, StreamLength
    <3>3. CASE f + 1 < NumFrames + 1
      <4>1. Start(f + 1) + FrameLength <= Start(NumFrames + 1)
        BY <3>1, <3>3, StartOrder
      <4> QED BY <4>1, <1>4, StreamLength, LengthType
    <3> QED BY <3>1, <3>2, <3>3
  <2>2. first = s + 2 /\ u = s + (NumPixels + 2) /\ s \in Nat /\ NumPixels \in Nat
    BY <1>4
  <2> HIDE DEF s, u, all, first
  <2>3. first + NumPixels = u /\ ~(first + NumPixels > all)
    BY ONLY <2>1, <2>2
  <2> QED BY <2>3 DEF u, all
<1>8. TakePixels(b, 1, 2, first) = Pixels(f)
  <2>1. ASSUME NEW i \in 1..NumPixels
        PROVE  Stream[first + i - 0] = Pixel(f, i)
    <3> DEFINE s == Start(f)
    <3>1. s \in Nat /\ first = s + 2 /\ i \in Nat \ {0} /\ i <= NumPixels /\ NumPixels \in Nat
      BY <1>4
    <3> HIDE DEF s, first
    <3>2. first + i - 0 = s + (i + 1) + 1 /\ i + 1 \in 0..((NumPixels + 2) - 1)
          /\ i + 1 # 0 /\ i + 1 # 1 /\ (i + 1) - 1 = i
      BY ONLY <3>1
    <3>3. Stream[s + (i + 1) + 1] = Token(f, i + 1)
      BY <3>2, StreamAt DEF FrameLength, s
    <3>4. Token(f, i + 1) = Pixel(f, i)
      BY <3>2 DEF Token
    <3> QED BY <3>2, <3>3, <3>4
  <2>2. \A i \in 1..NumPixels : i > 0
    OBVIOUS
  <2>3. TakePixels(b, 1, 2, first) = [i \in 1..NumPixels |-> Stream[first + i - 0]]
    BY <1>4, <1>5, <2>2 DEF TakePixels
  <2> HIDE DEF first
  <2> QED BY <2>1, <2>3 DEF Pixels
<1>9. /\ taken' = first + NumPixels /\ Keep(SubSeq(b, 3, 2))
      /\ published' = Append(published, [frame |-> f, before |-> 0, pixels |-> Pixels(f)])
  <2>1. b[1].frame = f
    BY DEF Json
  <2> QED BY <1>6, <1>7, <1>8, <2>1 DEF ProcessLine
<1>10. Len(buffer') = 0
  <2> DEFINE rest == SubSeq(b, 3, 2)
  <2>1. rest \in Seq(Tokens) /\ Len(rest) = 0 /\ Len(rest) <= 1
    OBVIOUS
  <2>2. Keep(rest)
    BY <1>9
  <2> HIDE DEF rest
  <2>3. buffer' = rest
    BY <2>1, <2>2, KeepShort
  <2> QED BY <2>1, <2>3
<1> QED
  BY <1>7, <1>9, <1>10

LEMMA InitSeparate == Init => Separate
<1> SUFFICES ASSUME Init PROVE Separate
  OBVIOUS
<1>1. Len(published) = 0 /\ Len(buffer) = 0
  BY EmptySeq DEF Init
<1>2. Start(0 + 1) = 0
  BY LengthType DEF Start
<1> QED
  BY <1>1, <1>2 DEF Init, Separate, SeparateIsExact

LEMMA NextSeparate == TypeOK /\ Separate /\ [Next]_vars => Separate'
<1> SUFFICES ASSUME TypeOK, Separate, [Next]_vars PROVE Separate'
  OBVIOUS
<1>1. ASSUME NEW n \in 1..(BufferSize - 1), Receive(n), ~together
      PROVE  Separate'
  <2> DEFINE f == Len(published) + 1
             b == buffer \o Received(n)
             s == Start(f)
  <2>1. /\ running /\ taken + n <= Len(Stream) /\ together' = together
        /\ \A m \in 1..(n - 1) : Received(n)[m].kind # "eol"
    BY <1>1 DEF Receive
  <2>2. /\ \A k \in 1..Len(published) : published[k] = [frame |-> k, before |-> 0, pixels |-> Pixels(k)]
        /\ \/ Len(buffer) = 0 /\ taken = s
           \/ Len(buffer) = 1 /\ buffer[1] = Json(f) /\ taken = s + 1
    BY <1>1, <2>1 DEF Separate, SeparateIsExact
  <2>3. /\ n \in Nat \ {0} /\ taken \in Nat /\ Len(published) \in Nat /\ f \in Nat \ {0}
        /\ buffer \in Seq(Tokens) /\ s \in Nat /\ Len(Stream) \in Nat
    <3>1. Len(published) \in Nat
      BY LenProperties DEF TypeOK
    <3>2. f \in Nat \ {0}
      BY <3>1
    <3> HIDE DEF f
    <3>3. s \in Nat
      BY <3>2, StartType
    <3> QED BY <3>1, <3>2, <3>3, FramingAssumption, StreamLength DEF TypeOK
  <2>4. f \in 1..NumFrames
    <3> HIDE DEF f
    <3>1. s < Len(Stream)
      BY <2>1, <2>2, <2>3
    <3>2. ~(f = NumFrames + 1)
      BY <3>1, <2>3, StreamLength
    <3>3. ~(NumFrames + 1 < f)
      <4>1. ASSUME NumFrames + 1 < f PROVE FALSE
        <5>1. Start(NumFrames + 1) + FrameLength <= s
          BY <4>1, <2>3, FramingAssumption, StartOrder
        <5> QED BY <5>1, <3>1, <2>3, StreamLength, LengthType
      <4> QED BY <4>1
    <3> QED BY <2>3, <3>2, <3>3, FramingAssumption
  <2>5. /\ Received(n) \in Seq(Tokens) /\ Len(Received(n)) = n
        /\ \A k \in 1..n : Received(n)[k] = Stream[taken + k]
    BY <2>1, <2>3, StreamType, Part DEF Received
  <2>6. /\ b \in Seq(Tokens) /\ Len(b) = Len(buffer) + n
        /\ \A k \in 1..(Len(buffer) + n) :
             b[k] = IF k <= Len(buffer) THEN buffer[k] ELSE Received(n)[k - Len(buffer)]
    <3> DEFINE r == Received(n)
    <3>1. r \in Seq(Tokens) /\ Len(r) = n /\ buffer \in Seq(Tokens)
      BY <2>3, <2>5
    <3> HIDE DEF r
    <3>2. /\ buffer \o r \in Seq(Tokens) /\ Len(buffer \o r) = Len(buffer) + n
          /\ \A k \in 1..(Len(buffer) + n) :
               (buffer \o r)[k] = IF k <= Len(buffer) THEN buffer[k] ELSE r[k - Len(buffer)]
      BY <3>1, ConcatProperties
    <3> QED BY <3>2 DEF r
  <2>7. Stream[s + 0 + 1] = Json(f) /\ Stream[s + 1 + 1] = Eol(f)
    <3> HIDE DEF f
    <3>1. 0 \in 0..(FrameLength - 1) /\ 1 \in 0..(FrameLength - 1)
      BY LengthType
    <3>2. Stream[s + 0 + 1] = Token(f, 0) /\ Stream[s + 1 + 1] = Token(f, 1)
      BY <2>4, <3>1, StreamAt
    <3> QED BY <3>2 DEF Token
  <2> HIDE DEF f, b, s
  <2>8. CASE b[1] = Json(f) /\ Len(b) = 1 /\ taken + n = s + 1
    <3>1. FirstEol(b) = 0
      <4>1. \/ FirstEol(b) = 0
            \/ FirstEol(b) \in 1..1 /\ LooksLike(b[FirstEol(b)], "eol")
        BY <2>8, FirstLikeIsFirst DEF FirstEol
      <4> QED BY <4>1, <2>8, HeaderLooks
    <3>2. Keep(b) /\ taken' = taken + n /\ UNCHANGED <<published, running>>
      BY <1>1, <3>1 DEF Receive, b
    <3>3. buffer' = b
      <4>1. Len(b) <= 1
        BY ONLY <2>8
      <4> QED BY ONLY <4>1, <2>6, <3>2, KeepShort
    <3> QED BY <2>1, <2>2, <2>8, <3>2, <3>3 DEF Separate, SeparateIsExact, f, s
  <2>9. CASE b[1] = Json(f) /\ b[2] = Eol(f) /\ Len(b) = 2 /\ taken + n = s + 2
    <3>1. FirstEol(b) = 2
      <4>1. \/ FirstEol(b) = 0 /\ \A k \in 1..2 : ~LooksLike(b[k], "eol")
            \/ FirstEol(b) \in 1..2 /\ LooksLike(b[FirstEol(b)], "eol")
        BY <2>9, FirstLikeIsFirst DEF FirstEol
      <4>2. LooksLike(b[2], "eol") /\ ~LooksLike(b[1], "eol")
        BY <2>9, HeaderLooks
      <4> QED BY <4>1, <4>2
    <3>2. JsonBefore(b, 2) = 1
      <4>1. JsonBefore(b, 2) = FirstLike(b, 1, "json") /\ 1 \in Nat
        BY DEF JsonBefore
      <4>2. LooksLike(b[1], "json")
        BY <2>9, HeaderLooks
      <4>3. \/ JsonBefore(b, 2) = 0 /\ \A k \in 1..1 : ~LooksLike(b[k], "json")
            \/ JsonBefore(b, 2) \in 1..1
        BY <4>1, FirstLikeIsFirst
      <4> QED BY <4>2, <4>3
    <3>3. IsHeader(b, 1, 2)
      BY <2>9 DEF IsHeader, Json
    <3>4. ProcessLine(b, 1, 2, n)
      <4>1. LET eol == FirstEol(b)
                json == JsonBefore(b, eol)
            IN  (eol # 0 /\ IsHeader(b, json, eol)) => ProcessLine(b, json, eol, n)
        BY <1>1 DEF Receive, b
      <4> QED BY <3>1, <3>2, <3>3, <4>1
    <3>5. /\ published' = Append(published, [frame |-> f, before |-> 0, pixels |-> Pixels(f)])
          /\ Len(buffer') = 0 /\ taken' = Start(f + 1)
      BY <2>3, <2>4, <2>6, <2>9, <3>4, HeaderAlone DEF s
    <3>6. Pixels(f) \in Seq(Tokens \cup {Remnant})
      <4>1. \A i \in 1..NumPixels : Pixel(f, i) \in Tokens \cup {Remnant}
        BY <2>4 DEF Tokens
      <4>2. Pixels(f) \in [1..NumPixels -> Tokens \cup {Remnant}]
        BY <4>1 DEF Pixels
      <4> QED BY <4>2, FramingAssumption
    <3>7. /\ Len(published') = Len(published) + 1
          /\ published'[Len(published) + 1] = [frame |-> f, before |-> 0, pixels |-> Pixels(f)]
          /\ \A k \in 1..Len(published) : published'[k] = published[k]
      BY <2>4, <3>5, <3>6, AppendLast
    <3>8. SeparateIsExact'
      <4>1. ASSUME NEW k \in 1..Len(published')
            PROVE  published'[k] = [frame |-> k, before |-> 0, pixels |-> Pixels(k)]
        <5>1. CASE k \in 1..Len(published)
          BY <5>1, <2>2, <3>7
        <5>2. CASE k = Len(published) + 1
          BY <5>2, <3>7 DEF f
        <5> QED BY <5>1, <5>2, <2>3, <3>7
      <4> QED BY <4>1 DEF SeparateIsExact
    <3>9. Len(buffer') = 0 /\ taken' = Start(Len(published') + 1)
      BY <3>5, <3>7 DEF f
    <3> QED BY <3>8, <3>9 DEF Separate
  <2>10. CASE Len(buffer) = 0 /\ taken = s
    <3>1. Received(n)[1] = Json(f) /\ (n >= 2 => Received(n)[2] = Eol(f))
      <4>1. taken + 1 = s + 0 + 1 /\ taken + 2 = s + 1 + 1 /\ 1 \in 1..n /\ (n >= 2 => 2 \in 1..n)
        BY <2>3, <2>10
      <4> QED BY <4>1, <2>5, <2>7
    <3>2. n < 3
      <4>1. ASSUME n >= 3 PROVE FALSE
        <5>1. 2 \in 1..(n - 1) /\ n >= 2
          BY <4>1, <2>3
        <5>2. Received(n)[2].kind = "eol"
          BY <5>1, <3>1 DEF Eol
        <5> QED BY <5>1, <5>2, <2>1
      <4> QED BY <4>1, <2>3
    <3>3. Len(b) = n /\ \A k \in 1..n : b[k] = Received(n)[k]
      <4>1. ASSUME NEW k \in 1..n PROVE k \in 1..(0 + n) /\ ~(k <= 0) /\ k - 0 = k
        BY <2>3
      <4> QED BY <4>1, <2>3, <2>6, <2>10
    <3>4. CASE n = 1
      BY <3>1, <3>3, <3>4, <2>8, <2>10
    <3>5. CASE n = 2
      BY <3>1, <3>3, <3>5, <2>9, <2>10
    <3> QED BY <2>3, <3>2, <3>4, <3>5
  <2>11. CASE Len(buffer) = 1 /\ buffer[1] = Json(f) /\ taken = s + 1
    <3>1. Received(n)[1] = Eol(f)
      <4>1. taken + 1 = s + 1 + 1 /\ 1 \in 1..n
        BY <2>3, <2>11
      <4> QED BY <4>1, <2>5, <2>7
    <3>2. n = 1
      <4>1. ASSUME n >= 2 PROVE FALSE
        <5>1. 1 \in 1..(n - 1)
          BY <4>1, <2>3
        <5>2. Received(n)[1].kind = "eol"
          BY <3>1 DEF Eol
        <5> QED BY <5>1, <5>2, <2>1
      <4> QED BY <4>1, <2>3
    <3>3. Len(b) = 2 /\ b[1] = Json(f) /\ b[2] = Eol(f)
      BY <3>1, <3>2, <2>6, <2>11
    <3>4. taken + n = s + 2
      BY <3>2, <2>3, <2>11
    <3> QED BY <3>3, <3>4, <2>9
  <2> QED BY <2>2, <2>10, <2>11 DEF f, s
<1>2. CASE together
  <2>1. together' = together
    BY DEF Next, Receive, Closed, vars
  <2> QED BY <1>2, <2>1 DEF Separate
<1>3. CASE Closed
  BY <1>3 DEF Closed, Separate, SeparateIsExact
<1>4. CASE UNCHANGED vars
  BY <1>4 DEF vars, Separate, SeparateIsExact
<1> QED
  BY <1>1, <1>2, <1>3, <1>4 DEF Next

\* If Serval's headers arrive in segments of their own, the frames processed are
\* those sent, pixel by pixel, with nothing left over.
THEOREM SeparateIsExactHolds == Spec => []SeparateIsExact
<1>1. Init => Separate /\ SeparateIsExact
  BY InitSeparate, EmptySeq DEF Init, SeparateIsExact
<1>2. TypeOK /\ Separate => SeparateIsExact
  BY DEF Separate, SeparateIsExact
<1> QED
  BY <1>1, <1>2, TypeCorrect, NextSeparate, PTL DEF Spec
=============================================================================
