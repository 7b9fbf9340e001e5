----------------------------- MODULE MasksProofs -----------------------------
(***************************************************************************)
(* Proofs about Masks, for chips of any width, any calibration files and   *)
(* any shapes drawn.                                                       *)
(*                                                                         *)
(* First the coordinate map alone. A byte of a chip is a column and a row  *)
(* of it (Divided, Composed); Local and Place are inverse in each of the   *)
(* eight ways a chip can lie (LocalPlace, PlaceLocal); the tiles of a      *)
(* mosaic are its chips (QuadTiles). So pelIndex is a bijection between    *)
(* the pixels of a square image and the bytes of the file (SpotOfPel,      *)
(* PelOfSpot), and bpc2ImgIndex is its inverse, but for LEFT on four chips.*)
(* Turning an image turns its tiles and the pixels in each (TurnedTiles,   *)
(* TurnedLocal, TurnedQuad), so pelIndex is what rotateLayout asks for     *)
(* (Rotated).                                                              *)
(*                                                                         *)
(* Then the operations. IInv relates the files to the pixels asked for,    *)
(* and a comparison of the pixel configuration that is under way to the    *)
(* chips it has seen.                                                      *)
(***************************************************************************)
EXTENDS Masks, TLAPS

-----------------------------------------------------------------------------
\* Division: quotient and remainder determine a number and are determined by it.
LEMMA Divided ==
  ASSUME NEW D \in Nat \ {0}, NEW n \in Nat
  PROVE  n \div D \in Nat /\ n % D \in 0 .. D - 1 /\ n = (n \div D) * D + (n % D)
OBVIOUS

LEMMA Composed ==
  ASSUME NEW D \in Nat \ {0}, NEW q \in Nat, NEW r \in 0 .. D - 1
  PROVE  q * D + r \in Nat /\ (q * D + r) \div D = q /\ (q * D + r) % D = r
<1>1. q * D + r \in Nat OBVIOUS
<1>2. (q * D + r) \div D = q OBVIOUS
<1>3. (q * D + r) % D = r OBVIOUS
<1> QED BY <1>1, <1>2, <1>3

\* With K quotients there are K * D numbers.
LEMMA ComposedBound ==
  ASSUME NEW D \in Nat \ {0}, NEW K \in Nat, NEW q \in 0 .. K - 1, NEW r \in 0 .. D - 1
  PROVE  q * D + r \in 0 .. K * D - 1
<1>1. (K - 1 - q) * D >= 0 OBVIOUS
<1>2. (K - 1 - q) * D = K * D - D - q * D OBVIOUS
<1>3. q * D >= 0 OBVIOUS
<1> QED BY <1>1, <1>2, <1>3

LEMMA DividedBound ==
  ASSUME NEW D \in Nat \ {0}, NEW K \in Nat, NEW n \in 0 .. K * D - 1
  PROVE  n \div D \in 0 .. K - 1
<1> DEFINE q == n \div D
<1>1. q \in Nat /\ q * D <= n BY Divided
<1>2. ASSUME q >= K PROVE FALSE
  <2>1. (q - K) * D >= 0 BY <1>1, <1>2
  <2>2. (q - K) * D = q * D - K * D BY <1>1
  <2> QED BY <1>1, <2>1, <2>2
<1> QED BY <1>1, <1>2

-----------------------------------------------------------------------------
\* Local and Place are inverse to each other in each of the eight ways.
Edge == 0 .. W - 1
Bytes(c) == c * Block .. (c + 1) * Block - 1

LEMMA WNat == W \in Nat \ {0} /\ Block \in Nat \ {0} /\ Block = W * W
<1>1. W \in Nat \ {0} BY MasksAssumption
<1>2. W * W \in Nat \ {0} BY <1>1
<1> QED BY <1>1, <1>2 DEF Block

LEMMA Mirrored == ASSUME NEW x \in Edge PROVE W - 1 - x \in Edge /\ W - 1 - (W - 1 - x) = x
BY WNat DEF Edge

LEMMA ByteOf ==
  ASSUME NEW c \in Edge, NEW r \in Edge
  PROVE  c + r * W \in 0 .. Block - 1 /\ (c + r * W) % W = c /\ (c + r * W) \div W = r
<1>1. W \in Nat \ {0} /\ c \in 0 .. W - 1 /\ r \in 0 .. W - 1 /\ r \in Nat BY WNat DEF Edge
<1>2. c + r * W = r * W + c BY <1>1
<1>3. r * W + c \in 0 .. W * W - 1 BY <1>1, ComposedBound
<1>4. (r * W + c) \div W = r /\ (r * W + c) % W = c BY <1>1, Composed
<1> QED BY <1>2, <1>3, <1>4 DEF Block

LEMMA BytePlace ==
  ASSUME NEW b \in 0 .. Block - 1
  PROVE  b % W \in Edge /\ b \div W \in Edge /\ b = (b % W) + (b \div W) * W
<1>1. W \in Nat \ {0} /\ b \in 0 .. W * W - 1 /\ b \in Nat BY WNat DEF Block
<1>2. b \div W \in 0 .. W - 1 BY <1>1, DividedBound
<1>3. b \div W \in Nat /\ b % W \in 0 .. W - 1 /\ b = (b \div W) * W + (b % W) BY <1>1, Divided
<1> QED BY <1>1, <1>2, <1>3 DEF Edge

LEMMA LocalPlace ==
  ASSUME NEW way \in 0..7, NEW x \in Edge, NEW y \in Edge
  PROVE  /\ Local(way, x, y) \in 0 .. Block - 1
         /\ Place(way, Local(way, x, y)) = <<x, y>>
<1> DEFINE rx == W - 1 - x  ry == W - 1 - y
<1>1. rx \in Edge /\ ry \in Edge /\ W - 1 - rx = x /\ W - 1 - ry = y BY Mirrored
<1> HIDE DEF rx, ry
<1>2. CASE way = 0
  <2>1. Local(way, x, y) = x + ry * W BY <1>2 DEF Local, rx, ry
  <2> QED BY <1>1, <1>2, <2>1, ByteOf DEF Place
<1>3. CASE way = 1
  <2>1. Local(way, x, y) = y + x * W BY <1>3 DEF Local, rx, ry
  <2> QED BY <1>1, <1>3, <2>1, ByteOf DEF Place
<1>4. CASE way = 2
  <2>1. Local(way, x, y) = rx + y * W BY <1>4 DEF Local, rx, ry
  <2> QED BY <1>1, <1>4, <2>1, ByteOf DEF Place
<1>5. CASE way = 3
  <2>1. Local(way, x, y) = ry + rx * W BY <1>5 DEF Local, rx, ry
  <2> QED BY <1>1, <1>5, <2>1, ByteOf DEF Place
<1>6. CASE way = 4
  <2>1. Local(way, x, y) = rx + ry * W BY <1>6 DEF Local, rx, ry
  <2> QED BY <1>1, <1>6, <2>1, ByteOf DEF Place
<1>7. CASE way = 5
  <2>1. Local(way, x, y) = y + rx * W BY <1>7 DEF Local, rx, ry
  <2> QED BY <1>1, <1>7, <2>1, ByteOf DEF Place
<1>8. CASE way = 6
  <2>1. Local(way, x, y) = x + y * W BY <1>8 DEF Local, rx, ry
  <2> QED BY <1>1, <1>8, <2>1, ByteOf DEF Place
<1>9. CASE way = 7
  <2>1. Local(way, x, y) = ry + x * W BY <1>9 DEF Local, rx, ry
  <2> QED BY <1>1, <1>9, <2>1, ByteOf DEF Place
<1> QED BY <1>2, <1>3, <1>4, <1>5, <1>6, <1>7, <1>8, <1>9

LEMMA PlaceLocal ==
  ASSUME NEW way \in 0..7, NEW b \in 0 .. Block - 1
  PROVE  /\ Place(way, b) \in Edge \X Edge
         /\ Local(way, Place(way, b)[1], Place(way, b)[2]) = b
<1> DEFINE c == b % W  r == b \div W
<1>1. c \in Edge /\ r \in Edge /\ c + r * W = b BY BytePlace
<1>2. W - 1 - c \in Edge /\ W - 1 - r \in Edge /\ W - 1 - (W - 1 - c) = c /\ W - 1 - (W - 1 - r) = r
  BY <1>1, Mirrored
<1> DEFINE rc == W - 1 - c  rr == W - 1 - r
<1>3. Place(way, b) = CASE way = 0 -> <<c, rr>> [] way = 1 -> <<r, c>> [] way = 2 -> <<rc, r>>
                        [] way = 3 -> <<rr, rc>> [] way = 4 -> <<rc, rr>> [] way = 5 -> <<rr, c>>
                        [] way = 6 -> <<c, r>> [] way = 7 -> <<r, rc>>
  BY DEF Place
<1>4. rc \in Edge /\ rr \in Edge /\ W - 1 - rc = c /\ W - 1 - rr = r BY <1>2
<1> HIDE DEF c, r, rc, rr
<1>5. CASE way = 0 BY <1>1, <1>3, <1>4, <1>5 DEF Local
<1>6. CASE way = 1 BY <1>1, <1>3, <1>4, <1>6 DEF Local
<1>7. CASE way = 2 BY <1>1, <1>3, <1>4, <1>7 DEF Local
<1>8. CASE way = 3 BY <1>1, <1>3, <1>4, <1>8 DEF Local
<1>9. CASE way = 4 BY <1>1, <1>3, <1>4, <1>9 DEF Local
<1>10. CASE way = 5 BY <1>1, <1>3, <1>4, <1>10 DEF Local
<1>11. CASE way = 6 BY <1>1, <1>3, <1>4, <1>11 DEF Local
<1>12. CASE way = 7 BY <1>1, <1>3, <1>4, <1>12 DEF Local
<1> QED BY <1>5, <1>6, <1>7, <1>8, <1>9, <1>10, <1>11, <1>12
-----------------------------------------------------------------------------
\* The square mosaics are those of one chip and of two by two chips.
One == <<1, 1>>
Two == <<4, 2>>

LEMMA Sizes ==
  /\ Rows(One) = W /\ Cols(One) = W /\ Rows(Two) = 2 * W /\ Cols(Two) = 2 * W
  /\ Rows(<<8, 2>>) = 2 * W /\ Cols(<<8, 2>>) = 4 * W
<1>1. 1 \div 1 = 1 /\ 4 \div 2 = 2 /\ 8 \div 2 = 4 OBVIOUS
<1> QED BY <1>1, WNat DEF Rows, Cols, One, Two

LEMMA SquareMosaic ==
  ASSUME mosaic \in Mosaics, Square
  PROVE  \/ mosaic = One /\ NumChips = 1 /\ ROWS = W /\ COLS = W
         \/ mosaic = Two /\ NumChips = 4 /\ ROWS = 2 * W /\ COLS = 2 * W
<1>1. mosaic \in {One, Two, <<8, 2>>} BY MasksAssumption DEF One, Two
<1>2. mosaic # <<8, 2>> BY Sizes, WNat DEF Square, ROWS, COLS
<1> QED BY <1>1, <1>2, Sizes DEF NumChips, ROWS, COLS, One, Two

\* The tiles of the 2x2 mosaic.
LEMMA CornersOf ==
  CornerOf(1, 1) = 1 /\ CornerOf(1, 0) = 2 /\ CornerOf(0, 0) = 3 /\ CornerOf(0, 1) = 4
<1>1. \A c \in 1..4 : Corners[c] = <<1, 1>> <=> c = 1 BY DEF Corners
<1>2. \A c \in 1..4 : Corners[c] = <<1, 0>> <=> c = 2 BY DEF Corners
<1>3. \A c \in 1..4 : Corners[c] = <<0, 0>> <=> c = 3 BY DEF Corners
<1>4. \A c \in 1..4 : Corners[c] = <<0, 1>> <=> c = 4 BY DEF Corners
<1>5. CornerOf(1, 1) = 1 BY <1>1 DEF CornerOf
<1>6. CornerOf(1, 0) = 2 BY <1>2 DEF CornerOf
<1>7. CornerOf(0, 0) = 3 BY <1>3 DEF CornerOf
<1>8. CornerOf(0, 1) = 4 BY <1>4 DEF CornerOf
<1> QED BY <1>5, <1>6, <1>7, <1>8

LEMMA CornerOfCorner ==
  ASSUME NEW c \in 1..4
  PROVE  Corners[c] \in (0..1) \X (0..1) /\ CornerOf(Corners[c][1], Corners[c][2]) = c
<1>1. CASE c = 1 BY <1>1, CornersOf DEF Corners
<1>2. CASE c = 2 BY <1>2, CornersOf DEF Corners
<1>3. CASE c = 3 BY <1>3, CornersOf DEF Corners
<1>4. CASE c = 4 BY <1>4, CornersOf DEF Corners
<1> QED BY <1>1, <1>2, <1>3, <1>4

LEMMA CornerFor ==
  ASSUME NEW X \in 0..1, NEW Y \in 0..1
  PROVE  CornerOf(X, Y) \in 1..4 /\ Corners[CornerOf(X, Y)] = <<X, Y>>
<1>1. CASE X = 1 /\ Y = 1 BY <1>1, CornersOf DEF Corners
<1>2. CASE X = 1 /\ Y = 0 BY <1>2, CornersOf DEF Corners
<1>3. CASE X = 0 /\ Y = 0 BY <1>3, CornersOf DEF Corners
<1>4. CASE X = 0 /\ Y = 1 BY <1>4, CornersOf DEF Corners
<1> QED BY <1>1, <1>2, <1>3, <1>4

\* In each orientation the four tiles are the four chips.
LEMMA QuadTiles ==
  ASSUME NEW o \in 0..7
  PROVE  /\ \A c \in 1..4 : Quad[o][c][1] \in 0..3 /\ Quad[o][c][2] \in 0..7
         /\ \A c, d \in 1..4 : Quad[o][c][1] = Quad[o][d][1] => c = d
         /\ \A chip \in 0..3 : \E c \in 1..4 : Quad[o][c][1] = chip
<1>1. CASE o = 0
  <2>1. Quad[o] = << <<0, 0>>, <<1, 2>>, <<2, 2>>, <<3, 0>> >> BY <1>1 DEF Quad
  <2> QED BY <2>1
<1>2. CASE o = 1
  <2>1. Quad[o] = << <<1, 3>>, <<2, 3>>, <<3, 1>>, <<0, 1>> >> BY <1>2 DEF Quad
  <2> QED BY <2>1
<1>3. CASE o = 2
  <2>1. Quad[o] = << <<2, 0>>, <<3, 2>>, <<0, 2>>, <<1, 0>> >> BY <1>3 DEF Quad
  <2> QED BY <2>1
<1>4. CASE o = 3
  <2>1. Quad[o] = << <<3, 3>>, <<0, 3>>, <<1, 1>>, <<2, 1>> >> BY <1>4 DEF Quad
  <2> QED BY <2>1
<1>5. CASE o = 4
  <2>1. Quad[o] = << <<3, 4>>, <<2, 6>>, <<1, 6>>, <<0, 4>> >> BY <1>5 DEF Quad
  <2> QED BY <2>1
<1>6. CASE o = 5
  <2>1. Quad[o] = << <<0, 5>>, <<3, 5>>, <<2, 7>>, <<1, 7>> >> BY <1>6 DEF Quad
  <2> QED BY <2>1
<1>7. CASE o = 6
  <2>1. Quad[o] = << <<1, 4>>, <<0, 6>>, <<3, 6>>, <<2, 4>> >> BY <1>7 DEF Quad
  <2> QED BY <2>1
<1>8. CASE o = 7
  <2>1. Quad[o] = << <<2, 5>>, <<1, 5>>, <<0, 7>>, <<3, 7>> >> BY <1>8 DEF Quad
  <2> QED BY <2>1
<1> QED BY <1>1, <1>2, <1>3, <1>4, <1>5, <1>6, <1>7, <1>8

-----------------------------------------------------------------------------
\* pelIndex's table, at a pixel of a chip and at a pixel of a tile.
LEMMA PelOne ==
  ASSUME One \in Mosaics, NEW o \in 0..7, NEW x \in Edge, NEW y \in Edge
  PROVE  Pel[One][o][<<x, y>>] = Local(o, x, y)
<1>1. Rows(One) = W /\ Cols(One) = W /\ W \in Nat \ {0} BY Sizes, WNat
<1>2. Pel[One][o][<<x, y>>] = PelIndex(One, o, x, y) BY <1>1 DEF Pel, Edge
<1>3. PelIndex(One, o, x, y) = Local(o, x % W, y % W) BY DEF PelIndex, One
<1>4. x % W = x /\ y % W = y BY <1>1 DEF Edge
<1> QED BY <1>2, <1>3, <1>4

LEMMA PelTwo ==
  ASSUME Two \in Mosaics, NEW o \in 0..7, NEW X \in 0..1, NEW Y \in 0..1,
         NEW x \in Edge, NEW y \in Edge
  PROVE  Pel[Two][o][<<X * W + x, Y * W + y>>] =
           Quad[o][CornerOf(X, Y)][1] * Block + Local(Quad[o][CornerOf(X, Y)][2], x, y)
<1> DEFINE i == X * W + x  j == Y * W + y
<1>1. Rows(Two) = 2 * W /\ Cols(Two) = 2 * W /\ W \in Nat \ {0} BY Sizes, WNat
<1>2. i \in 0 .. 2 * W - 1 /\ j \in 0 .. 2 * W - 1 BY <1>1 DEF Edge
<1>3. i \div W = X /\ i % W = x /\ j \div W = Y /\ j % W = y BY <1>1, Composed DEF Edge
<1> HIDE DEF i, j
<1>4. Pel[Two][o][<<i, j>>] = PelIndex(Two, o, i, j) BY <1>1, <1>2 DEF Pel
<1>5. PelIndex(Two, o, i, j) =
        Quad[o][CornerOf(i \div W, j \div W)][1] * Block
          + Local(Quad[o][CornerOf(i \div W, j \div W)][2], i % W, j % W)
  BY DEF PelIndex, Two
<1> QED BY <1>3, <1>4, <1>5 DEF i, j

\* ... and the way back: the pixel of byte k.
ChipCorner(o, chip) == CHOOSE c \in 1..4 : Quad[o][c][1] = chip
Spot(m, o, k) ==
  IF m = One THEN Place(o, k)
  ELSE LET c == ChipCorner(o, k \div Block)
           at == Place(Quad[o][c][2], k % Block)
       IN <<Corners[c][1] * W + at[1], Corners[c][2] * W + at[2]>>

LEMMA ChipCornerOf ==
  ASSUME NEW o \in 0..7, NEW c \in 1..4
  PROVE  ChipCorner(o, Quad[o][c][1]) = c
<1>1. \A d \in 1..4 : Quad[o][d][1] = Quad[o][c][1] => d = c BY QuadTiles
<1> QED BY <1>1 DEF ChipCorner

LEMMA CornerOfChip ==
  ASSUME NEW o \in 0..7, NEW chip \in 0..3
  PROVE  ChipCorner(o, chip) \in 1..4 /\ Quad[o][ChipCorner(o, chip)][1] = chip
<1>1. \E c \in 1..4 : Quad[o][c][1] = chip BY QuadTiles
<1> QED BY <1>1 DEF ChipCorner

LEMMA ByteBounds ==
  ASSUME NEW chip \in Nat, NEW b \in 0 .. Block - 1
  PROVE  /\ chip * Block + b \in Nat /\ (chip * Block + b) \div Block = chip
         /\ (chip * Block + b) % Block = b
BY WNat, Composed

\* A pixel of the 2x2 mosaic is a pixel of one of its tiles.
LEMMA InTile ==
  ASSUME NEW i \in 0 .. 2 * W - 1
  PROVE  i \div W \in 0..1 /\ i % W \in Edge /\ i = (i \div W) * W + (i % W)
<1>1. W \in Nat \ {0} /\ i \in Nat BY WNat
<1>2. i \div W \in 0 .. 2 - 1 BY <1>1, DividedBound
<1> QED BY <1>1, <1>2, Divided DEF Edge

\* The bytes of the file and the pixels of a square image are in bijection.
LEMMA SpotOfPel ==
  ASSUME mosaic \in Mosaics, Square, NEW o \in 0..7, NEW p \in Image
  PROVE  Pel[mosaic][o][p] \in Elements /\ Spot(mosaic, o, Pel[mosaic][o][p]) = p
<1>1. CASE mosaic = One
  <2>1. NumChips = 1 /\ ROWS = W /\ COLS = W BY <1>1, SquareMosaic DEF One, Two
  <2>2. p = <<p[1], p[2]>> /\ p[1] \in Edge /\ p[2] \in Edge BY <2>1 DEF Image, Edge
  <2>3. Pel[mosaic][o][p] = Local(o, p[1], p[2]) BY <1>1, <2>2, PelOne
  <2>4. Local(o, p[1], p[2]) \in 0 .. Block - 1 /\ Place(o, Local(o, p[1], p[2])) = p
    BY <2>2, LocalPlace
  <2>5. Elements = 0 .. Block - 1 BY <2>1, WNat DEF Elements
  <2> QED BY <1>1, <2>3, <2>4, <2>5 DEF Spot
<1>2. CASE mosaic = Two
  <2>1. NumChips = 4 /\ ROWS = 2 * W /\ COLS = 2 * W /\ mosaic # One BY <1>2, SquareMosaic DEF One, Two
  <2> DEFINE X == p[1] \div W  Y == p[2] \div W  x == p[1] % W  y == p[2] % W
  <2>2. p = <<p[1], p[2]>> /\ p[1] \in 0 .. 2 * W - 1 /\ p[2] \in 0 .. 2 * W - 1
    BY <2>1 DEF Image
  <2>3. X \in 0..1 /\ x \in Edge /\ p[1] = X * W + x BY <2>2, InTile
  <2>4. Y \in 0..1 /\ y \in Edge /\ p[2] = Y * W + y BY <2>2, InTile
  <2> HIDE DEF X, Y, x, y
  <2>5. p = <<X * W + x, Y * W + y>> BY <2>2, <2>3, <2>4
  <2> DEFINE c == CornerOf(X, Y)  chip == Quad[o][c][1]  way == Quad[o][c][2]
             b == Local(way, x, y)
  <2>6. c \in 1..4 /\ Corners[c] = <<X, Y>> BY <2>3, <2>4, CornerFor
  <2>7. chip \in 0..3 /\ way \in 0..7 BY <2>6, QuadTiles
  <2>8. b \in 0 .. Block - 1 /\ Place(way, b) = <<x, y>> BY <2>3, <2>4, <2>7, LocalPlace
  <2>9. ChipCorner(o, chip) = c BY <2>6, ChipCornerOf
  <2>10. Pel[mosaic][o][p] = chip * Block + b BY <1>2, <2>3, <2>4, <2>5, PelTwo
  <2> HIDE DEF c, chip, way, b
  <2>11. (chip * Block + b) \div Block = chip /\ (chip * Block + b) % Block = b
    BY <2>7, <2>8, ByteBounds
  <2>12. chip * Block + b \in 0 .. 4 * Block - 1 BY <2>7, <2>8, WNat, ComposedBound
  <2>13. Spot(mosaic, o, chip * Block + b) = <<Corners[c][1] * W + x, Corners[c][2] * W + y>>
    BY <2>1, <2>8, <2>9, <2>11 DEF Spot, way
  <2> QED BY <2>1, <2>5, <2>6, <2>10, <2>12, <2>13 DEF Elements
<1> QED BY <1>1, <1>2, SquareMosaic

LEMMA PelOfSpot ==
  ASSUME mosaic \in Mosaics, Square, NEW o \in 0..7, NEW k \in Elements
  PROVE  Spot(mosaic, o, k) \in Image /\ Pel[mosaic][o][Spot(mosaic, o, k)] = k
<1>1. CASE mosaic = One
  <2>1. NumChips = 1 /\ ROWS = W /\ COLS = W BY <1>1, SquareMosaic DEF One, Two
  <2>2. k \in 0 .. Block - 1 BY <2>1, WNat DEF Elements
  <2>3. Place(o, k) \in Edge \X Edge /\ Local(o, Place(o, k)[1], Place(o, k)[2]) = k
    BY <2>2, PlaceLocal
  <2>4. Place(o, k) = <<Place(o, k)[1], Place(o, k)[2]>> /\ Place(o, k)[1] \in Edge /\ Place(o, k)[2] \in Edge
    BY <2>3
  <2>5. Pel[One][o][Place(o, k)] = k BY <1>1, <2>3, <2>4, PelOne
  <2> QED BY <1>1, <2>1, <2>3, <2>5 DEF Spot, Image, Edge
<1>2. CASE mosaic = Two
  <2>1. NumChips = 4 /\ ROWS = 2 * W /\ COLS = 2 * W /\ mosaic # One BY <1>2, SquareMosaic DEF One, Two
  <2> DEFINE chip == k \div Block  b == k % Block
  <2>2. k \in 0 .. 4 * Block - 1 /\ k \in Nat BY <2>1, WNat DEF Elements
  <2>3. chip \in 0..3 BY <2>2, WNat, DividedBound, 4 - 1 = 3
  <2>4. b \in 0 .. Block - 1 /\ k = chip * Block + b BY <2>2, WNat, Divided
  <2> DEFINE c == ChipCorner(o, chip)  way == Quad[o][c][2]  at == Place(way, b)
             X == Corners[c][1]  Y == Corners[c][2]
  <2>5. c \in 1..4 /\ Quad[o][c][1] = chip BY <2>3, CornerOfChip
  <2>6. way \in 0..7 BY <2>5, QuadTiles
  <2>7. at \in Edge \X Edge /\ Local(way, at[1], at[2]) = b BY <2>4, <2>6, PlaceLocal
  <2>8. X \in 0..1 /\ Y \in 0..1 /\ CornerOf(X, Y) = c BY <2>5, CornerOfCorner
  <2>9. Spot(mosaic, o, k) = <<X * W + at[1], Y * W + at[2]>> BY <2>1 DEF Spot
  <2> HIDE DEF chip, b, c, at, X, Y
  <2>10. at[1] \in Edge /\ at[2] \in Edge BY <2>7
  <2>11. Pel[Two][o][<<X * W + at[1], Y * W + at[2]>>] = chip * Block + b
    BY <1>2, <2>5, <2>7, <2>8, <2>10, PelTwo
  <2>12. X * W + at[1] \in 0 .. 2 * W - 1 /\ Y * W + at[2] \in 0 .. 2 * W - 1
    BY <2>8, <2>10, WNat DEF Edge
  <2> QED BY <1>2, <2>1, <2>4, <2>9, <2>11, <2>12 DEF Image
<1> QED BY <1>1, <1>2, SquareMosaic
-----------------------------------------------------------------------------
\* The elements of the waveforms and the pixels of a square image are in bijection.
Lin(p) == p[2] * COLS + p[1]

LEMMA SquareElements ==
  ASSUME mosaic \in Mosaics, Square
  PROVE  ROWS = COLS /\ COLS \in Nat \ {0} /\ Elements = 0 .. COLS * COLS - 1
<1>1. CASE NumChips = 1 /\ ROWS = W /\ COLS = W
  BY <1>1, WNat DEF Elements
<1>2. CASE NumChips = 4 /\ ROWS = 2 * W /\ COLS = 2 * W
  <2>1. (2 * W) * (2 * W) = 4 * (W * W) BY WNat
  <2> QED BY <1>2, <2>1, WNat DEF Elements
<1> QED BY <1>1, <1>2, SquareMosaic

LEMMA PixelOfLin ==
  ASSUME mosaic \in Mosaics, Square, NEW p \in Image
  PROVE  Lin(p) \in Elements /\ Pixel(Lin(p)) = p
<1>1. ROWS = COLS /\ COLS \in Nat \ {0} /\ Elements = 0 .. COLS * COLS - 1 BY SquareElements
<1>2. p = <<p[1], p[2]>> /\ p[1] \in 0 .. COLS - 1 /\ p[2] \in 0 .. COLS - 1 /\ p[2] \in Nat
  BY <1>1 DEF Image
<1>3. Lin(p) \in 0 .. COLS * COLS - 1 BY <1>1, <1>2, ComposedBound DEF Lin
<1>4. Lin(p) \div COLS = p[2] /\ Lin(p) % COLS = p[1] BY <1>1, <1>2, Composed DEF Lin
<1> QED BY <1>1, <1>2, <1>3, <1>4 DEF Pixel

LEMMA LinOfPixel ==
  ASSUME mosaic \in Mosaics, Square, NEW n \in Elements
  PROVE  Pixel(n) \in Image /\ Lin(Pixel(n)) = n
<1>1. ROWS = COLS /\ COLS \in Nat \ {0} /\ n \in 0 .. COLS * COLS - 1 /\ n \in Nat
  BY SquareElements
<1>2. n \div COLS \in 0 .. COLS - 1 BY <1>1, DividedBound
<1>3. n % COLS \in 0 .. COLS - 1 /\ n = (n \div COLS) * COLS + (n % COLS) BY <1>1, Divided
<1> QED BY <1>1, <1>2, <1>3 DEF Pixel, Image, Lin

-----------------------------------------------------------------------------
\* rotateLayout on a square of N by N: of the image, of its tiles, of a chip.
Turned(N, o, x, y) ==
  LET rx == N - 1 - x
      ry == N - 1 - y
  IN CASE o = 0 -> <<x, y>>   [] o = 1 -> <<ry, x>>  [] o = 2 -> <<rx, ry>> [] o = 3 -> <<y, rx>>
       [] o = 4 -> <<rx, y>>  [] o = 5 -> <<y, x>>   [] o = 6 -> <<x, ry>>  [] o = 7 -> <<ry, rx>>

LEMMA TurnTurned ==
  ASSUME mosaic \in Mosaics, Square, NEW o \in 0..7, NEW p \in Image
  PROVE  Turn(o, p) = Turned(COLS, o, p[1], p[2])
<1>1. ROWS = COLS /\ COLS \in Nat \ {0} BY SquareElements
<1>2. p = <<p[1], p[2]>> /\ p[1] \in Int /\ p[2] \in Int BY <1>1 DEF Image
<1>3. CASE o = 0 BY <1>1, <1>2, <1>3 DEF Turn, Turned
<1>4. CASE o = 1 BY <1>1, <1>2, <1>4 DEF Turn, Turned
<1>5. CASE o = 2 BY <1>1, <1>2, <1>5 DEF Turn, Turned
<1>6. CASE o = 3 BY <1>1, <1>2, <1>6 DEF Turn, Turned
<1>7. CASE o = 4 BY <1>1, <1>2, <1>7 DEF Turn, Turned
<1>8. CASE o = 5 BY <1>1, <1>2, <1>8 DEF Turn, Turned
<1>9. CASE o = 6 BY <1>1, <1>2, <1>9 DEF Turn, Turned
<1>10. CASE o = 7 BY <1>1, <1>2, <1>10 DEF Turn, Turned
<1> QED BY <1>3, <1>4, <1>5, <1>6, <1>7, <1>8, <1>9, <1>10

\* A turn stays in the square and can be turned back.
Back == [o \in 0..7 |-> IF o = 1 THEN 3 ELSE IF o = 3 THEN 1 ELSE o]

LEMMA TurnedInside ==
  ASSUME NEW N \in Nat, NEW o \in 0..7, NEW x \in 0 .. N - 1, NEW y \in 0 .. N - 1
  PROVE  Turned(N, o, x, y) \in (0 .. N - 1) \X (0 .. N - 1)
<1> DEFINE rx == N - 1 - x  ry == N - 1 - y
<1>1. rx \in 0 .. N - 1 /\ ry \in 0 .. N - 1 OBVIOUS
<1>2. Turned(N, o, x, y) \in {<<x, y>>, <<ry, x>>, <<rx, ry>>, <<y, rx>>,
                             <<rx, y>>, <<y, x>>, <<x, ry>>, <<ry, rx>>}
  BY DEF Turned
<1> HIDE DEF rx, ry
<1> QED BY <1>1, <1>2

LEMMA TurnedBack ==
  ASSUME NEW N \in Nat, NEW o \in 0..7, NEW x \in 0 .. N - 1, NEW y \in 0 .. N - 1
  PROVE  /\ Back[o] \in 0..7
         /\ Turned(N, o, Turned(N, Back[o], x, y)[1], Turned(N, Back[o], x, y)[2]) = <<x, y>>
<1>1. CASE o = 1 BY <1>1 DEF Turned, Back
<1>2. CASE o = 3 BY <1>2 DEF Turned, Back
<1>3. CASE o \in {0, 2} BY <1>3 DEF Turned, Back
<1>4. CASE o \in {4, 5} BY <1>4 DEF Turned, Back
<1>5. CASE o \in {6, 7} BY <1>5 DEF Turned, Back
<1> QED BY <1>1, <1>2, <1>3, <1>4, <1>5

\* The image turns by turning its tiles and the pixels of each.
LEMMA TurnedTiles ==
  ASSUME NEW o \in 0..7, NEW X \in 0..1, NEW Y \in 0..1, NEW x \in Edge, NEW y \in Edge
  PROVE  Turned(2 * W, o, X * W + x, Y * W + y) =
           <<Turned(2, o, X, Y)[1] * W + Turned(W, o, x, y)[1],
             Turned(2, o, X, Y)[2] * W + Turned(W, o, x, y)[2]>>
<1> DEFINE i == X * W + x  j == Y * W + y
<1>1. 2 * W - 1 - i = (2 - 1 - X) * W + (W - 1 - x) BY WNat DEF Edge
<1>2. 2 * W - 1 - j = (2 - 1 - Y) * W + (W - 1 - y) BY WNat DEF Edge
<1> HIDE DEF i, j
<1>3. CASE o = 0 BY <1>1, <1>2, <1>3 DEF Turned, i, j
<1>4. CASE o = 1 BY <1>1, <1>2, <1>4 DEF Turned, i, j
<1>5. CASE o = 2 BY <1>1, <1>2, <1>5 DEF Turned, i, j
<1>6. CASE o = 3 BY <1>1, <1>2, <1>6 DEF Turned, i, j
<1>7. CASE o = 4 BY <1>1, <1>2, <1>7 DEF Turned, i, j
<1>8. CASE o = 5 BY <1>1, <1>2, <1>8 DEF Turned, i, j
<1>9. CASE o = 6 BY <1>1, <1>2, <1>9 DEF Turned, i, j
<1>10. CASE o = 7 BY <1>1, <1>2, <1>10 DEF Turned, i, j
<1> HIDE DEF Turned
<1> QED BY <1>3, <1>4, <1>5, <1>6, <1>7, <1>8, <1>9, <1>10 DEF i, j

\* In orientation o a chip that lies upright (way 0) lies in way o, one that
\* lies upside down (way 2) in the opposite way.
Opposite == <<2, 3, 0, 1, 6, 7, 4, 5>>
WayIn(o, way) == IF way = 0 THEN o ELSE Opposite[o + 1]

LEMMA TurnedLocal ==
  ASSUME NEW o \in 0..7, NEW way \in {0, 2}, NEW x \in Edge, NEW y \in Edge
  PROVE  Local(WayIn(o, way), Turned(W, o, x, y)[1], Turned(W, o, x, y)[2]) = Local(way, x, y)
<1> DEFINE rx == W - 1 - x  ry == W - 1 - y
<1>1. rx \in Edge /\ ry \in Edge /\ W - 1 - rx = x /\ W - 1 - ry = y BY Mirrored
<1>2. Local(0, x, y) = x + ry * W /\ Local(2, x, y) = rx + y * W BY DEF Local
<1>3. Turned(W, o, x, y) =
        CASE o = 0 -> <<x, y>>   [] o = 1 -> <<ry, x>>  [] o = 2 -> <<rx, ry>> [] o = 3 -> <<y, rx>>
          [] o = 4 -> <<rx, y>>  [] o = 5 -> <<y, x>>   [] o = 6 -> <<x, ry>>  [] o = 7 -> <<ry, rx>>
  BY DEF Turned
<1> HIDE DEF rx, ry
<1>4. CASE o = 0 BY <1>1, <1>2, <1>3, <1>4 DEF Local, WayIn, Opposite
<1>5. CASE o = 1 BY <1>1, <1>2, <1>3, <1>5 DEF Local, WayIn, Opposite
<1>6. CASE o = 2 BY <1>1, <1>2, <1>3, <1>6 DEF Local, WayIn, Opposite
<1>7. CASE o = 3 BY <1>1, <1>2, <1>3, <1>7 DEF Local, WayIn, Opposite
<1>8. CASE o = 4 BY <1>1, <1>2, <1>3, <1>8 DEF Local, WayIn, Opposite
<1>9. CASE o = 5 BY <1>1, <1>2, <1>3, <1>9 DEF Local, WayIn, Opposite
<1>10. CASE o = 6 BY <1>1, <1>2, <1>3, <1>10 DEF Local, WayIn, Opposite
<1>11. CASE o = 7 BY <1>1, <1>2, <1>3, <1>11 DEF Local, WayIn, Opposite
<1> QED BY <1>4, <1>5, <1>6, <1>7, <1>8, <1>9, <1>10, <1>11

LEMMA TurnedQuad ==
  ASSUME NEW o \in 0..7, NEW X \in 0..1, NEW Y \in 0..1
  PROVE  LET T == Turned(2, o, X, Y)
             upright == Quad[0][CornerOf(X, Y)]
             tile == Quad[o][CornerOf(T[1], T[2])]
         IN upright[2] \in {0, 2} /\ tile[1] = upright[1] /\ tile[2] = WayIn(o, upright[2])
<1> DEFINE T == Turned(2, o, X, Y)
<1>1. Quad[0] = << <<0, 0>>, <<1, 2>>, <<2, 2>>, <<3, 0>> >> BY DEF Quad
<1>2. Quad[o] =
        CASE o = 0 -> << <<0, 0>>, <<1, 2>>, <<2, 2>>, <<3, 0>> >>
          [] o = 1 -> << <<1, 3>>, <<2, 3>>, <<3, 1>>, <<0, 1>> >>
          [] o = 2 -> << <<2, 0>>, <<3, 2>>, <<0, 2>>, <<1, 0>> >>
          [] o = 3 -> << <<3, 3>>, <<0, 3>>, <<1, 1>>, <<2, 1>> >>
          [] o = 4 -> << <<3, 4>>, <<2, 6>>, <<1, 6>>, <<0, 4>> >>
          [] o = 5 -> << <<0, 5>>, <<3, 5>>, <<2, 7>>, <<1, 7>> >>
          [] o = 6 -> << <<1, 4>>, <<0, 6>>, <<3, 6>>, <<2, 4>> >>
          [] o = 7 -> << <<2, 5>>, <<1, 5>>, <<0, 7>>, <<3, 7>> >>
  BY DEF Quad
<1>3. ASSUME NEW A \in 0..1, NEW B \in 0..1, X = A, Y = B, T = Turned(2, o, A, B)
      PROVE  Quad[0][CornerOf(X, Y)][2] \in {0, 2}
             /\ Quad[o][CornerOf(T[1], T[2])][1] = Quad[0][CornerOf(X, Y)][1]
             /\ Quad[o][CornerOf(T[1], T[2])][2] = WayIn(o, Quad[0][CornerOf(X, Y)][2])
  <2>1. CASE A = 0 /\ B = 0
    <3>1. CASE o \in {0, 1, 2, 3} BY <1>1, <1>2, <1>3, <2>1, <3>1, CornersOf DEF Turned, WayIn, Opposite
    <3>2. CASE o \in {4, 5, 6, 7} BY <1>1, <1>2, <1>3, <2>1, <3>2, CornersOf DEF Turned, WayIn, Opposite
    <3> QED BY <3>1, <3>2
  <2>2. CASE A = 0 /\ B = 1
    <3>1. CASE o \in {0, 1, 2, 3} BY <1>1, <1>2, <1>3, <2>2, <3>1, CornersOf DEF Turned, WayIn, Opposite
    <3>2. CASE o \in {4, 5, 6, 7} BY <1>1, <1>2, <1>3, <2>2, <3>2, CornersOf DEF Turned, WayIn, Opposite
    <3> QED BY <3>1, <3>2
  <2>3. CASE A = 1 /\ B = 0
    <3>1. CASE o \in {0, 1, 2, 3} BY <1>1, <1>2, <1>3, <2>3, <3>1, CornersOf DEF Turned, WayIn, Opposite
    <3>2. CASE o \in {4, 5, 6, 7} BY <1>1, <1>2, <1>3, <2>3, <3>2, CornersOf DEF Turned, WayIn, Opposite
    <3> QED BY <3>1, <3>2
  <2>4. CASE A = 1 /\ B = 1
    <3>1. CASE o \in {0, 1, 2, 3} BY <1>1, <1>2, <1>3, <2>4, <3>1, CornersOf DEF Turned, WayIn, Opposite
    <3>2. CASE o \in {4, 5, 6, 7} BY <1>1, <1>2, <1>3, <2>4, <3>2, CornersOf DEF Turned, WayIn, Opposite
    <3> QED BY <3>1, <3>2
  <2> QED BY <2>1, <2>2, <2>3, <2>4
<1> HIDE DEF T
<1> QED BY <1>3 DEF T
-----------------------------------------------------------------------------
\* The tables of pelIndex are what rotateLayout asks Serval for.
LEMMA TurnInside ==
  ASSUME mosaic \in Mosaics, Square, NEW o \in 0..7, NEW p \in Image
  PROVE  Turn(o, p) \in Image
<1>1. ROWS = COLS /\ COLS \in Nat BY SquareElements
<1>2. p[1] \in 0 .. COLS - 1 /\ p[2] \in 0 .. COLS - 1 BY <1>1 DEF Image
<1>3. Turn(o, p) = Turned(COLS, o, p[1], p[2]) BY TurnTurned
<1>4. Turned(COLS, o, p[1], p[2]) \in (0 .. COLS - 1) \X (0 .. COLS - 1)
  BY <1>1, <1>2, TurnedInside
<1> QED BY <1>1, <1>3, <1>4 DEF Image

LEMMA TurnBack ==
  ASSUME mosaic \in Mosaics, Square, NEW o \in 0..7, NEW q \in Image
  PROVE  \E p \in Image : Turn(o, p) = q
<1>1. ROWS = COLS /\ COLS \in Nat BY SquareElements
<1>2. q = <<q[1], q[2]>> /\ q[1] \in 0 .. COLS - 1 /\ q[2] \in 0 .. COLS - 1 BY <1>1 DEF Image
<1> DEFINE p == Turned(COLS, Back[o], q[1], q[2])
<1>3. Back[o] \in 0..7 /\ Turned(COLS, o, p[1], p[2]) = q BY <1>1, <1>2, TurnedBack
<1>4. p \in Image BY <1>1, <1>2, <1>3, TurnedInside DEF Image
<1> HIDE DEF p
<1>5. Turn(o, p) = Turned(COLS, o, p[1], p[2]) BY <1>4, TurnTurned
<1> QED BY <1>3, <1>4, <1>5

LEMMA RotatedOne ==
  ASSUME One \in Mosaics, NEW o \in 0..7, NEW x \in Edge, NEW y \in Edge
  PROVE  Pel[One][o][Turned(W, o, x, y)] = Pel[One][0][<<x, y>>]
<1> DEFINE T == Turned(W, o, x, y)
<1>1. T \in Edge \X Edge BY WNat, TurnedInside DEF Edge
<1>2. Local(WayIn(o, 0), T[1], T[2]) = Local(0, x, y) BY TurnedLocal
<1> HIDE DEF T
<1>3. T = <<T[1], T[2]>> /\ T[1] \in Edge /\ T[2] \in Edge BY <1>1
<1>4. Pel[One][o][<<T[1], T[2]>>] = Local(o, T[1], T[2]) BY <1>3, PelOne
<1>5. Pel[One][0][<<x, y>>] = Local(0, x, y) BY PelOne
<1> QED BY <1>2, <1>3, <1>4, <1>5 DEF T, WayIn

LEMMA RotatedTwo ==
  ASSUME Two \in Mosaics, NEW o \in 0..7, NEW X \in 0..1, NEW Y \in 0..1,
         NEW x \in Edge, NEW y \in Edge
  PROVE  Pel[Two][o][Turned(2 * W, o, X * W + x, Y * W + y)]
           = Pel[Two][0][<<X * W + x, Y * W + y>>]
<1> DEFINE A == Turned(2, o, X, Y)[1]  B == Turned(2, o, X, Y)[2]
           a == Turned(W, o, x, y)[1]  b == Turned(W, o, x, y)[2]
           upright == Quad[0][CornerOf(X, Y)]
<1>1. 2 \in Nat /\ X \in 0 .. 2 - 1 /\ Y \in 0 .. 2 - 1 /\ 0 \in 0..7 OBVIOUS
<1>2. Turned(2, o, X, Y) \in (0 .. 2 - 1) \X (0 .. 2 - 1) BY <1>1, TurnedInside
<1>3. A \in 0..1 /\ B \in 0..1 BY <1>2
<1>4. Turned(W, o, x, y) \in Edge \X Edge BY WNat, TurnedInside DEF Edge
<1>5. a \in Edge /\ b \in Edge BY <1>4
<1>6. Turned(2 * W, o, X * W + x, Y * W + y) = <<A * W + a, B * W + b>> BY TurnedTiles
<1>7. upright[2] \in {0, 2} /\ Quad[o][CornerOf(A, B)][1] = upright[1]
      /\ Quad[o][CornerOf(A, B)][2] = WayIn(o, upright[2])
  BY TurnedQuad
<1>8. Local(WayIn(o, upright[2]), a, b) = Local(upright[2], x, y) BY <1>7, TurnedLocal
<1>9. Pel[Two][0][<<X * W + x, Y * W + y>>] = upright[1] * Block + Local(upright[2], x, y)
  BY <1>1, PelTwo
<1> HIDE DEF A, B, a, b
<1>10. Pel[Two][o][<<A * W + a, B * W + b>>] =
         Quad[o][CornerOf(A, B)][1] * Block + Local(Quad[o][CornerOf(A, B)][2], a, b)
  <2>1. \A E, F \in 0..1, e, f \in Edge :
          Pel[Two][o][<<E * W + e, F * W + f>>] =
            Quad[o][CornerOf(E, F)][1] * Block + Local(Quad[o][CornerOf(E, F)][2], e, f)
    BY PelTwo
  <2> QED BY ONLY <1>3, <1>5, <2>1
<1> QED BY <1>6, <1>7, <1>8, <1>9, <1>10

LEMMA Rotated ==
  ASSUME mosaic \in Mosaics, Square, NEW o \in 0..7, NEW p \in Image
  PROVE  Pel[mosaic][o][Turn(o, p)] = Pel[mosaic][0][p]
<1>1. Turn(o, p) = Turned(COLS, o, p[1], p[2]) BY TurnTurned
<1>2. CASE mosaic = One
  <2>1. ROWS = W /\ COLS = W BY <1>2, SquareMosaic DEF One, Two
  <2>2. p = <<p[1], p[2]>> /\ p[1] \in Edge /\ p[2] \in Edge BY <2>1 DEF Image, Edge
  <2>3. Pel[One][o][Turned(W, o, p[1], p[2])] = Pel[One][0][<<p[1], p[2]>>]
    BY <1>2, <2>2, RotatedOne
  <2> QED BY <1>1, <1>2, <2>1, <2>2, <2>3
<1>3. CASE mosaic = Two
  <2>1. ROWS = 2 * W /\ COLS = 2 * W BY <1>3, SquareMosaic DEF One, Two
  <2> DEFINE X == p[1] \div W  Y == p[2] \div W  x == p[1] % W  y == p[2] % W
  <2>2. p = <<p[1], p[2]>> /\ p[1] \in 0 .. 2 * W - 1 /\ p[2] \in 0 .. 2 * W - 1
    BY <2>1 DEF Image
  <2>3. X \in 0..1 /\ x \in Edge /\ p[1] = X * W + x BY <2>2, InTile
  <2>4. Y \in 0..1 /\ y \in Edge /\ p[2] = Y * W + y BY <2>2, InTile
  <2> HIDE DEF X, Y, x, y
  <2>5. Pel[Two][o][Turned(2 * W, o, X * W + x, Y * W + y)]
          = Pel[Two][0][<<X * W + x, Y * W + y>>]
    BY <1>3, <2>3, <2>4, RotatedTwo
  <2> QED BY <1>1, <1>3, <2>1, <2>2, <2>3, <2>4, <2>5
<1> QED BY <1>2, <1>3, SquareMosaic

\* A byte has one pixel in each orientation.
LEMMA PelInjective ==
  ASSUME mosaic \in Mosaics, Square, NEW o \in 0..7, NEW p \in Image, NEW q \in Image,
         Pel[mosaic][o][p] = Pel[mosaic][o][q]
  PROVE  p = q
<1>1. Spot(mosaic, o, Pel[mosaic][o][p]) = p BY SpotOfPel
<1>2. Spot(mosaic, o, Pel[mosaic][o][q]) = q BY SpotOfPel
<1> QED BY <1>1, <1>2

-----------------------------------------------------------------------------
\* bpc2ImgIndex finds that pixel, but for LEFT on four chips.
LEMMA ImgSpot ==
  ASSUME mosaic \in Mosaics, Square, NEW o \in 0..7, NumChips = 4 => o # 3, NEW k \in Elements
  PROVE  Img[mosaic][o][k] = Lin(Spot(mosaic, o, k))
<1>1. Img[mosaic][o][k] = Bpc2ImgIndex(mosaic, o, k)
  BY DEF Img, Elements, NumChips
<1>2. Spot(mosaic, o, k) \in Image BY PelOfSpot
<1>3. ROWS = COLS /\ COLS \in Nat BY SquareElements
<1>4. Spot(mosaic, o, k)[1] \in Int /\ Spot(mosaic, o, k)[2] \in Int BY <1>2, <1>3 DEF Image
<1>5. CASE mosaic = One
  <2>1. NumChips = 1 /\ COLS = W BY <1>5, SquareMosaic DEF One, Two
  <2>2. k \in 0 .. Block - 1 BY <2>1, WNat DEF Elements
  <2>3. k % Block = k BY <2>2, WNat
  <2>4. Bpc2ImgIndex(mosaic, o, k) = Place(o, k % Block)[1] + W * Place(o, k % Block)[2]
    BY <1>5 DEF Bpc2ImgIndex, One
  <2>5. Spot(mosaic, o, k) = Place(o, k) BY <1>5 DEF Spot
  <2>6. Place(o, k)[2] * W = W * Place(o, k)[2] BY <1>4, <2>5, WNat
  <2> HIDE DEF Place
  <2> QED BY <1>1, <1>4, <2>1, <2>3, <2>4, <2>5, <2>6, WNat DEF Lin
<1>6. CASE mosaic = Two
  <2>1. NumChips = 4 /\ COLS = 2 * W /\ mosaic # One /\ o # 3 BY <1>6, SquareMosaic DEF One, Two
  <2>2. QuadBack[o] = Quad[o] BY <2>1 DEF QuadBack, Quad
  <2> DEFINE c == ChipCorner(o, k \div Block)  at == Place(Quad[o][c][2], k % Block)
  <2>3. Bpc2ImgIndex(mosaic, o, k)
          = Corners[c][1] * W + at[1] + 2 * W * (Corners[c][2] * W + at[2])
    BY <1>6, <2>2 DEF Bpc2ImgIndex, ChipCorner, Two
  <2>4. Spot(mosaic, o, k) = <<Corners[c][1] * W + at[1], Corners[c][2] * W + at[2]>>
    BY <2>1 DEF Spot
  <2>5. Corners[c][1] * W + at[1] \in Int /\ Corners[c][2] * W + at[2] \in Int BY <1>4, <2>4
  <2> DEFINE A == Corners[c][1] * W + at[1]  B == Corners[c][2] * W + at[2]
  <2>6. A \in Int /\ B \in Int /\ Spot(mosaic, o, k) = <<A, B>>
        /\ Img[mosaic][o][k] = A + 2 * W * B
    BY <1>1, <2>3, <2>4, <2>5
  <2> HIDE DEF A, B
  <2> QED BY <2>1, <2>6, WNat DEF Lin
<1> QED BY <1>5, <1>6, SquareMosaic

\* In every orientation of a square detector, pelIndex (mask_io.cpp) gives each
\* pixel of the image a byte of the file, no two the same one, and leaves none.
THEOREM PelIsBijection ==
  ASSUME mosaic \in Mosaics, Square, NEW o \in 0..7
  PROVE  /\ \A p \in Image : Pel[mosaic][o][p] \in Elements
         /\ \A p, q \in Image : Pel[mosaic][o][p] = Pel[mosaic][o][q] => p = q
         /\ \A k \in Elements : \E p \in Image : Pel[mosaic][o][p] = k
<1>1. \A p \in Image : Pel[mosaic][o][p] \in Elements BY SpotOfPel
<1>2. \A p, q \in Image : Pel[mosaic][o][p] = Pel[mosaic][o][q] => p = q BY PelInjective
<1>3. \A k \in Elements : \E p \in Image : Pel[mosaic][o][p] = k BY PelOfSpot
<1> QED BY <1>1, <1>2, <1>3

\* bpc2ImgIndex (mask_io.cpp) leads back from the byte that pelIndex gives a pixel
\* to the linear index of that pixel, in every orientation but LEFT on four chips.
THEOREM ImgIsInverse ==
  ASSUME mosaic \in Mosaics, Square, NEW o \in 0..7, NumChips = 4 => o # 3, NEW p \in Image
  PROVE  Img[mosaic][o][Pel[mosaic][o][p]] = p[2] * COLS + p[1]
<1>1. Pel[mosaic][o][p] \in Elements /\ Spot(mosaic, o, Pel[mosaic][o][p]) = p BY SpotOfPel
<1>2. Img[mosaic][o][Pel[mosaic][o][p]] = Lin(Spot(mosaic, o, Pel[mosaic][o][p])) BY <1>1, ImgSpot
<1> QED BY <1>1, <1>2 DEF Lin

-----------------------------------------------------------------------------
(***************************************************************************)
(* The inductive invariant.                                                *)
(***************************************************************************)
\* Every file has as many chips as the calibration, and no more than the detector.
ChipsOK ==
  /\ HasFile(Cal) /\ files[Cal].chips <= NumChips
  /\ \A n \in Names : HasFile(n) => files[n].chips = files[Cal].chips

\* What is masked in a file is what was asked for it.
AskedOK ==
  /\ asked \in [Names -> SUBSET Image]
  /\ Square /\ files[Cal].chips = NumChips =>
       \A n \in Names : HasFile(n) =>
         asked[n] = {p \in Image : Pel[mosaic][0][p] \in files[n].bad}

Comparison ==
  [at : {"fetch"}, chip : 0..8, failed : 0 .. MaxFailures, file : BpcFiles \cup {Missing},
   decoded : SUBSET (0..7), linear : SUBSET Int]

PortOK ==
  /\ port \in {Idle, [at |-> "upload"]} \cup Comparison
  /\ seen.o \in Orientations /\ seen \in [o : Int, bad : SUBSET Int, last : BOOLEAN]

\* During a comparison the codes of the chips so far tell which have a difference.
FetchOK ==
  port.at = "fetch" =>
    /\ port.chip <= NumChips
    /\ port.file # Missing => port.file.chips <= NumChips
    /\ \A k \in port.linear : k < port.chip * Block
    /\ port.decoded \subseteq {c \in 0 .. port.chip - 1 : port.file # Missing /\ c < port.file.chips}
    /\ Square => \A c \in 0 .. port.chip - 1 :
         (match[c] = 0) <=>
            c \in port.decoded /\ \E k \in Bytes(c) : ~(k \in port.linear <=> k \in port.file.bad)

\* Outside of a comparison the image and the codes are those of the last one.
ComparedOK ==
  Square /\ port.at # "fetch" /\ seen.last =>
    \A c \in 0 .. NumChips - 1 :
      (match[c] = 0) <=> \E n \in diff : Pel[mosaic][seen.o][Pixel(n)] \div Block = c

IInv ==
  /\ TypeOK /\ ChipsOK /\ AskedOK /\ PortOK /\ FetchOK /\ ComparedOK
  /\ ShownIsAsked /\ ExportIsMask

-----------------------------------------------------------------------------
\* Sizes, for every mosaic.
LEMMA MosaicSizes ==
  ASSUME mosaic \in Mosaics
  PROVE  /\ NumChips \in {1, 4, 8} /\ ROWS \in Nat \ {0} /\ COLS \in Nat \ {0}
         /\ Elements = 0 .. ROWS * COLS - 1
         /\ \/ ROWS = COLS
            \/ ROWS = 2 * W /\ COLS = 4 * W
<1>1. mosaic \in {One, Two, <<8, 2>>} BY MasksAssumption DEF One, Two
<1>2. CASE mosaic = One BY <1>2, Sizes, WNat DEF NumChips, ROWS, COLS, Elements, One
<1>3. CASE mosaic = Two
  <2>1. NumChips = 4 /\ ROWS = 2 * W /\ COLS = 2 * W BY <1>3, Sizes DEF NumChips, ROWS, COLS, Two
  <2>2. (2 * W) * (2 * W) = 4 * (W * W) BY WNat
  <2> QED BY <2>1, <2>2, WNat DEF Elements
<1>4. CASE mosaic = <<8, 2>>
  <2>1. NumChips = 8 /\ ROWS = 2 * W /\ COLS = 4 * W BY <1>4, Sizes DEF NumChips, ROWS, COLS
  <2>2. (2 * W) * (4 * W) = 8 * (W * W) BY WNat
  <2> QED BY <2>1, <2>2, WNat DEF Elements
<1> QED BY <1>1, <1>2, <1>3, <1>4

\* Both strides stay inside the waveform.
LEMMA Drawable ==
  ASSUME mosaic \in Mosaics, NEW i \in 0 .. COLS - 1, NEW j \in 0 .. ROWS - 1
  PROVE  j * ROWS + i \in Elements /\ j * COLS + i \in Elements
<1> DEFINE R == ROWS  C == COLS
<1>1. R \in Nat \ {0} /\ C \in Nat \ {0} /\ Elements = 0 .. R * C - 1
      /\ (R = C \/ (R = 2 * W /\ C = 4 * W)) /\ i \in 0 .. C - 1 /\ j \in 0 .. R - 1
  BY MosaicSizes
<1> HIDE DEF R, C
<1>2. j * C + i \in 0 .. R * C - 1 BY <1>1, ComposedBound
<1>3. CASE R = C BY <1>1, <1>2, <1>3 DEF R, C
<1>4. CASE R = 2 * W /\ C = 4 * W
  <2>1. R * C = 2 * (R * R) BY <1>1, <1>4, WNat
  <2>2. j * R >= 0 BY <1>1
  <2>3. (R - 1 - j) * R >= 0 /\ (R - 1 - j) * R = R * R - R - j * R BY <1>1
  <2>4. (R - 1) * R >= 0 /\ (R - 1) * R = R * R - R BY <1>1
  <2>5. C = 2 * R BY <1>1, <1>4, WNat
  <2>6. R * R \in Nat /\ j * R \in Int BY <1>1
  <2> DEFINE RR == R * R  jR == j * R
  <2>9. RR \in Int /\ jR \in Int /\ R \in Int /\ i \in Int /\ i <= 2 * R - 1
        /\ RR - R - jR >= 0 /\ RR - R >= 0
    BY <1>1, <2>3, <2>4, <2>5, <2>6
  <2> HIDE DEF RR, jR
  <2>10. jR + i < 2 * RR BY ONLY <2>9
  <2>7. j * R + i < 2 * (R * R) BY <2>10 DEF RR, jR
  <2>8. j * R + i \in 0 .. R * C - 1 BY <1>1, <2>1, <2>2, <2>6, <2>7
  <2> QED BY <1>1, <1>2, <2>8 DEF R, C
<1> QED BY <1>1, <1>3, <1>4

\* A file of the detector has bytes of the detector only.
LEMMA BadInside ==
  ASSUME mosaic \in Mosaics, NEW f \in BpcFiles, f.chips <= NumChips
  PROVE  f.bad \subseteq Elements /\ f.bad \subseteq 0 .. f.chips * Block - 1
<1>1. f.chips \in 1..8 /\ f.bad \subseteq 0 .. f.chips * Block - 1 BY DEF BpcFiles
<1>2. NumChips \in Nat /\ Block \in Nat BY MosaicSizes, WNat
<1>3. f.chips * Block <= NumChips * Block
  <2>1. (NumChips - f.chips) * Block >= 0 BY <1>1, <1>2
  <2>2. (NumChips - f.chips) * Block = NumChips * Block - f.chips * Block BY <1>1, <1>2
  <2>3. NumChips * Block \in Int /\ f.chips * Block \in Int BY <1>1, <1>2
  <2> QED BY <2>1, <2>2, <2>3
<1>4. NumChips * Block \in Int /\ f.chips * Block \in Int BY <1>1, <1>2
<1> QED BY <1>1, <1>3, <1>4 DEF Elements

LEMMA FileInside ==
  ASSUME TypeOK, ChipsOK, NEW n \in Names, HasFile(n)
  PROVE  files[n] \in BpcFiles /\ files[n].bad \subseteq Elements /\ files[n].chips <= NumChips
<1>1. files[n] \in BpcFiles BY DEF TypeOK, HasFile
<1>2. files[n].chips <= NumChips BY DEF ChipsOK
<1> QED BY <1>1, <1>2, BadInside DEF TypeOK

\* bpc2ImgIndex's table has a number for every byte of every mosaic.
LEMMA ImgInt ==
  ASSUME mosaic \in Mosaics, NEW o \in 0..7, NEW k \in Elements
  PROVE  Img[mosaic][o][k] \in Int
<1>1. Img[mosaic][o][k] = Bpc2ImgIndex(mosaic, o, k) BY DEF Img, Elements, NumChips
<1>2. mosaic \in {<<1, 1>>, <<4, 2>>, <<8, 2>>} BY MasksAssumption
<1>3. k \in Nat /\ W \in Nat \ {0} /\ Block \in Nat \ {0} BY WNat DEF Elements
<1>4. k % Block \in 0 .. Block - 1 /\ k \div Block \in Nat BY <1>3, Divided
<1>5. \A way \in 0..7 : Place(way, k % Block) \in Edge \X Edge BY <1>4, PlaceLocal
<1>6. \A way \in 0..7 : Place(way, k % Block)[1] \in Int /\ Place(way, k % Block)[2] \in Int
  BY <1>3, <1>5 DEF Edge
<1>7. CASE mosaic = <<1, 1>>
  <2>1. Bpc2ImgIndex(mosaic, o, k) = Place(o, k % Block)[1] + W * Place(o, k % Block)[2]
    BY <1>7 DEF Bpc2ImgIndex
  <2> QED BY ONLY <1>1, <1>3, <1>6, <2>1, o \in 0..7
<1>8. CASE mosaic = <<4, 2>>
  <2> DEFINE chip == k \div Block
             c == CHOOSE c \in 1..4 : QuadBack[o][c][1] = chip
             at == Place(QuadBack[o][c][2], k % Block)
  <2>1. Elements = 0 .. 4 * Block - 1 BY <1>8 DEF Elements, NumChips
  <2>2. chip \in 0 .. 4 - 1 BY <1>3, <2>1, DividedBound
  <2>3. \E d \in 1..4 : QuadBack[o][d][1] = chip
    <3>1. CASE o = 3 BY <2>2, <3>1 DEF QuadBack, Quad
    <3>2. CASE o # 3
      <4>1. QuadBack[o] = Quad[o] BY <3>2 DEF QuadBack, Quad
      <4>2. chip \in 0..3 BY <2>2
      <4> QED BY <4>1, <4>2, QuadTiles
    <3> QED BY <3>1, <3>2
  <2>4. c \in 1..4 BY <2>3
  <2>5. QuadBack[o][c][2] \in 0..7
    <3>1. CASE o = 3
      <4>1. QuadBack[o] = << <<3, 3>>, <<0, 5>>, <<1, 1>>, <<2, 1>> >> BY <3>1 DEF QuadBack, Quad
      <4> HIDE DEF c
      <4> QED BY <2>4, <4>1
    <3>2. CASE o # 3
      <4>1. QuadBack[o] = Quad[o] BY <3>2 DEF QuadBack, Quad
      <4> QED BY <2>4, <4>1, QuadTiles
    <3> QED BY <3>1, <3>2
  <2>6. at[1] \in Int /\ at[2] \in Int BY <1>6, <2>5
  <2>7. Corners[c][1] \in Int /\ Corners[c][2] \in Int
    <3> HIDE DEF c
    <3>1. Corners[c] \in (0..1) \X (0..1) BY <2>4, CornerOfCorner
    <3> QED BY <3>1
  <2>8. Bpc2ImgIndex(mosaic, o, k) = Corners[c][1] * W + at[1] + 2 * W * (Corners[c][2] * W + at[2])
    BY <1>8 DEF Bpc2ImgIndex
  <2> HIDE DEF c, at
  <2> QED BY ONLY <1>1, <1>3, <2>6, <2>7, <2>8
<1>9. CASE mosaic = <<8, 2>>
  <2>1. Bpc2ImgIndex(mosaic, o, k) =
          IF o # 0 THEN -1
          ELSE ((k \div Block) % 2) * W + Place(0, k % Block)[1]
                 + 2 * W * (((k \div Block) \div 2) * W + Place(0, k % Block)[2])
    BY <1>9 DEF Bpc2ImgIndex
  <2>2. (k \div Block) % 2 \in Int /\ (k \div Block) \div 2 \in Int BY <1>4
  <2>3. Place(0, k % Block)[1] \in Int /\ Place(0, k % Block)[2] \in Int BY <1>6
  <2> QED BY ONLY <1>1, <1>3, <2>1, <2>2, <2>3
<1> QED BY <1>2, <1>7, <1>8, <1>9
-----------------------------------------------------------------------------
\* What a step leaves alone.
LEMMA SameMosaic ==
  ASSUME mosaic' = mosaic
  PROVE  /\ NumChips' = NumChips /\ ROWS' = ROWS /\ COLS' = COLS
         /\ Elements' = Elements /\ Image' = Image /\ Square' = Square
         /\ \A n : Pixel(n)' = Pixel(n)
<1>1. NumChips' = NumChips /\ ROWS' = ROWS /\ COLS' = COLS BY DEF NumChips, ROWS, COLS
<1> QED BY <1>1 DEF Elements, Image, Square, Pixel

LEMMA KeepChips ==
  ASSUME ChipsOK, mosaic' = mosaic, files' = files PROVE ChipsOK'
BY SameMosaic DEF ChipsOK, HasFile

LEMMA KeepAsked ==
  ASSUME AskedOK, mosaic' = mosaic, files' = files, asked' = asked PROVE AskedOK'
<1>1. Image' = Image /\ Square' = Square /\ NumChips' = NumChips BY SameMosaic
<1>2. \A n : HasFile(n)' <=> HasFile(n) BY DEF HasFile
<1> QED BY <1>1, <1>2 DEF AskedOK

LEMMA KeepPort ==
  ASSUME PortOK, port' = port, seen' = seen PROVE PortOK'
BY DEF PortOK

LEMMA KeepFetch ==
  ASSUME FetchOK, mosaic' = mosaic, port' = port, match' = match PROVE FetchOK'
BY SameMosaic DEF FetchOK

LEMMA KeepCompared ==
  ASSUME ComparedOK, mosaic' = mosaic, match' = match, diff' = diff, seen' = seen,
         port'.at # "fetch" => port.at # "fetch"
  PROVE  ComparedOK'
<1>1. Square' = Square /\ NumChips' = NumChips /\ \A n : Pixel(n)' = Pixel(n) BY SameMosaic
<1> QED BY <1>1 DEF ComparedOK

LEMMA KeepShown ==
  ASSUME ShownIsAsked, mosaic' = mosaic, files' = files, shown' = shown, view' = view
  PROVE  ShownIsAsked'
<1>1. Square' = Square /\ NumChips' = NumChips /\ \A n : Pixel(n)' = Pixel(n) BY SameMosaic
<1>2. WholeFiles' = WholeFiles BY <1>1 DEF WholeFiles, HasFile
<1> QED BY <1>1, <1>2 DEF ShownIsAsked

LEMMA KeepExport ==
  ASSUME ExportIsMask, mosaic' = mosaic, seen'.o = seen.o, seen'.bad = seen.bad,
         exported' = exported
  PROVE  ExportIsMask'
<1>1. Square' = Square /\ NumChips' = NumChips /\ Image' = Image BY SameMosaic
<1> QED BY <1>1 DEF ExportIsMask

-----------------------------------------------------------------------------
\* The pixels at a set of bytes, as elements of the waveform.
LEMMA LinPixels ==
  ASSUME mosaic \in Mosaics, Square, NEW P \in SUBSET Image
  PROVE  /\ {Lin(p) : p \in P} \subseteq Elements
         /\ {Pixel(n) : n \in {Lin(p) : p \in P}} = P
<1>1. \A p \in P : Lin(p) \in Elements /\ Pixel(Lin(p)) = p BY PixelOfLin
<1> HIDE DEF Lin, Pixel
<1> QED BY <1>1

\* A mask is made from the calibration, so one is whole if the other is.
LEMMA WholeChips ==
  ASSUME ChipsOK PROVE WholeFiles <=> files[Cal].chips = NumChips
BY DEF ChipsOK, WholeFiles, Names

\* The drawing operations: the image is all the waveform when it is square.
LEMMA ResetAll ==
  ASSUME mosaic \in Mosaics
  PROVE  LET all == {p[2] * ROWS + p[1] : p \in (0 .. COLS - 1) \X (0 .. ROWS - 1)}
         IN all \subseteq Elements /\ (Square => all = Elements)
<1> DEFINE Cells == (0 .. COLS - 1) \X (0 .. ROWS - 1)
           all == {p[2] * ROWS + p[1] : p \in Cells}
<1>1. \A p \in Cells : p[1] \in 0 .. COLS - 1 /\ p[2] \in 0 .. ROWS - 1 OBVIOUS
<1>2. \A p \in Cells : p[2] * ROWS + p[1] \in Elements BY <1>1, Drawable
<1>3. ASSUME Square, NEW n \in Elements PROVE n \in all
  <2>1. Pixel(n) \in Image /\ Lin(Pixel(n)) = n BY <1>3, LinOfPixel
  <2>2. ROWS = COLS BY <1>3, SquareElements
  <2> HIDE DEF Pixel
  <2>3. Pixel(n) \in Cells /\ Pixel(n)[2] * ROWS + Pixel(n)[1] = n
    BY <2>1, <2>2 DEF Image, Lin
  <2> QED BY <2>3
<1> QED BY <1>2, <1>3

LEMMA DrawKeeps == ASSUME IInv, Draw PROVE IInv'
<1>1. /\ mosaic \in Mosaics /\ drawn \subseteq Elements /\ shown \subseteq Elements
      /\ ops \in Nat /\ ops < MaxOps /\ ops' = ops + 1 /\ MaxOps \in Nat
  BY MasksAssumption DEF IInv, TypeOK, Draw, Operation
<1>2. /\ UNCHANGED <<mosaic, orientation, layout, pixels, files, bpcName, chosen, diff, match,
                     exported, port, poll, asked, seen>>
  BY DEF Draw, serval, compared
<1>3. Elements' = Elements /\ Square' = Square /\ NumChips' = NumChips BY <1>2, SameMosaic
<1>4. drawn' \subseteq Elements /\ shown' \subseteq Elements /\ ShownIsAsked'
  <2>1. ASSUME NEW on \in BOOLEAN, MaskReset(on)
        PROVE  drawn' \subseteq Elements /\ shown' \subseteq Elements /\ ShownIsAsked'
    <3> DEFINE all == {p[2] * ROWS + p[1] : p \in (0 .. COLS - 1) \X (0 .. ROWS - 1)}
    <3>1. all \subseteq Elements /\ (Square => all = Elements) BY <1>1, ResetAll
    <3>2. Mark(all, on) /\ shown' = shown \ all /\ view' = {} BY <2>1 DEF MaskReset
    <3> HIDE DEF all
    <3>3. drawn' \subseteq Elements BY <1>1, <3>1, <3>2 DEF Mark
    <3>4. Square => shown' = {} BY <1>1, <3>1, <3>2
    <3>5. ShownIsAsked' BY <1>3, <3>2, <3>4 DEF ShownIsAsked
    <3> QED BY <1>1, <3>2, <3>3, <3>5
  <2>2. ASSUME NEW on \in BOOLEAN, NEW b \in Boxes, MaskRectangle(b, on)
        PROVE  drawn' \subseteq Elements /\ shown' \subseteq Elements /\ ShownIsAsked'
    <3>1. drawn' \subseteq Elements BY <1>1, <2>2 DEF MaskRectangle, Mark
    <3>2. shown' = shown /\ view' = view BY <2>2 DEF MaskRectangle
    <3> QED BY <1>1, <1>2, <3>1, <3>2, KeepShown DEF IInv
  <2>3. ASSUME NEW on \in BOOLEAN, NEW c \in Discs, MaskCircle(c, on)
        PROVE  drawn' \subseteq Elements /\ shown' \subseteq Elements /\ ShownIsAsked'
    <3>1. \A p \in (0 .. COLS - 1) \X (0 .. ROWS - 1) : p[2] * ROWS + p[1] \in Elements
      <4>1. \A p \in (0 .. COLS - 1) \X (0 .. ROWS - 1) :
              p[1] \in 0 .. COLS - 1 /\ p[2] \in 0 .. ROWS - 1
        OBVIOUS
      <4> QED BY <1>1, <4>1, Drawable
    <3>2. drawn' \subseteq Elements BY <1>1, <2>3, <3>1 DEF MaskCircle, Mark
    <3>3. shown' = shown /\ view' = view BY <2>3 DEF MaskCircle
    <3> QED BY <1>1, <1>2, <3>2, <3>3, KeepShown DEF IInv
  <2> QED BY <2>1, <2>2, <2>3 DEF Draw
<1>5. TypeOK' BY <1>1, <1>2, <1>3, <1>4 DEF IInv, TypeOK
<1>6. ChipsOK' /\ AskedOK' /\ PortOK' BY <1>2, KeepChips, KeepAsked, KeepPort DEF IInv
<1>7. FetchOK' /\ ComparedOK' BY <1>2, KeepFetch, KeepCompared DEF IInv
<1>8. ExportIsMask' BY <1>2, KeepExport DEF IInv
<1> QED BY <1>4, <1>5, <1>6, <1>7, <1>8 DEF IInv

\* A turned position is masked in the turned image just if it is upright.
LEMMA TurnedMask ==
  ASSUME mosaic \in Mosaics, Square, NEW o \in 0..7, NEW B
  PROVE  {Turn(o, q) : q \in {p \in Image : Pel[mosaic][0][p] \in B}}
           = {q \in Image : Pel[mosaic][o][q] \in B}
<1>1. \A p \in Image : Turn(o, p) \in Image /\ Pel[mosaic][o][Turn(o, p)] = Pel[mosaic][0][p]
  BY TurnInside, Rotated
<1>2. \A q \in Image : \E p \in Image : Turn(o, p) = q BY TurnBack
<1> HIDE DEF Turn, Pel, Image
<1> QED BY <1>1, <1>2

LEMMA ReadMaskKeeps == ASSUME IInv, ReadMask PROVE IInv'
<1>1. /\ mosaic \in Mosaics /\ orientation \in 0..7 /\ bpcName \in Names /\ HasFile(bpcName)
      /\ drawn' = {} /\ shown' = InWaveform(files[bpcName].bad)
      /\ view' = {Turn(orientation, q) : q \in asked[bpcName]}
  BY MasksAssumption DEF IInv, TypeOK, ReadMask
<1>2. /\ UNCHANGED <<mosaic, orientation, layout, pixels, files, bpcName, chosen, diff, match,
                     exported, port, poll, ops, asked, seen>>
  BY DEF ReadMask, FreeOperation, serval, compared
<1>3. Elements' = Elements /\ Square' = Square /\ NumChips' = NumChips
      /\ \A n : Pixel(n)' = Pixel(n)
  BY <1>2, SameMosaic
<1>4. shown' \subseteq Elements BY <1>1 DEF InWaveform
<1>5. ShownIsAsked'
  <2>1. WholeFiles' = WholeFiles BY <1>2, <1>3 DEF WholeFiles, HasFile
  <2>2. SUFFICES ASSUME Square, WholeFiles PROVE {Pixel(n) : n \in shown'} = view'
    BY <1>3, <2>1 DEF ShownIsAsked
  <2> DEFINE B == files[bpcName].bad
             P == {q \in Image : Pel[mosaic][orientation][q] \in B}
  <2>3. asked[bpcName] = {p \in Image : Pel[mosaic][0][p] \in B}
    BY <1>1, <2>2, WholeChips DEF IInv, AskedOK
  <2>4. view' = P BY <1>1, <2>2, <2>3, TurnedMask
  <2>5. P \in SUBSET Image OBVIOUS
  <2>6. shown' = Elements \cap {Lin(p) : p \in P} BY <1>1 DEF InWaveform, Lin
  <2> HIDE DEF P
  <2>7. {Lin(p) : p \in P} \subseteq Elements /\ {Pixel(n) : n \in {Lin(p) : p \in P}} = P
    BY <1>1, <2>2, <2>5, LinPixels
  <2>8. shown' = {Lin(p) : p \in P} BY <2>6, <2>7
  <2> QED BY <2>4, <2>7, <2>8
<1>6. TypeOK' BY <1>1, <1>2, <1>3, <1>4 DEF IInv, TypeOK
<1>7. ChipsOK' /\ AskedOK' /\ PortOK' BY <1>2, KeepChips, KeepAsked, KeepPort DEF IInv
<1>8. FetchOK' /\ ComparedOK' BY <1>2, KeepFetch, KeepCompared DEF IInv
<1>9. ExportIsMask' BY <1>2, KeepExport DEF IInv
<1> QED BY <1>5, <1>6, <1>7, <1>8, <1>9 DEF IInv
-----------------------------------------------------------------------------
\* The mask that is drawn, in the order of the file and in the upright image.
LEMMA DrawnMask ==
  ASSUME mosaic \in Mosaics, Square, NEW o \in 0..7, NEW D \in SUBSET Elements
  PROVE  LET new == {Pel[mosaic][o][q] : q \in {q \in Image : Lin(q) \in D}}
         IN /\ new \subseteq Elements
            /\ {p \in Image : Pel[mosaic][0][p] \in new} = Upright(o, {Pixel(n) : n \in D})
<1> DEFINE Q == {q \in Image : Lin(q) \in D}
           new == {Pel[mosaic][o][q] : q \in Q}
<1>1. \A q \in Image : Pel[mosaic][o][q] \in Elements BY SpotOfPel
<1>2. \A p \in Image : Turn(o, p) \in Image /\ Pel[mosaic][o][Turn(o, p)] = Pel[mosaic][0][p]
  BY TurnInside, Rotated
<1>3. \A p, q \in Image : Pel[mosaic][o][p] = Pel[mosaic][o][q] => p = q BY PelInjective
<1>4. \A q \in Image : Lin(q) \in D <=> q \in {Pixel(n) : n \in D}
  <2>1. \A q \in Image : Pixel(Lin(q)) = q BY PixelOfLin
  <2>2. \A n \in D : Lin(Pixel(n)) = n BY LinOfPixel
  <2> HIDE DEF Lin, Pixel
  <2> QED BY <2>1, <2>2
<1>5. new \subseteq Elements BY <1>1
<1>6. \A p \in Image : Pel[mosaic][0][p] \in new <=> Turn(o, p) \in {Pixel(n) : n \in D}
  <2> HIDE DEF Turn, Pel, Image, Lin, Pixel
  <2>1. \A p \in Image : Pel[mosaic][0][p] \in new <=> Turn(o, p) \in Q BY <1>2, <1>3
  <2>2. \A p \in Image : Turn(o, p) \in Q <=> Turn(o, p) \in {Pixel(n) : n \in D} BY <1>2, <1>4
  <2> QED BY <2>1, <2>2
<1> QED BY <1>5, <1>6 DEF Upright

LEMMA WholeBytes ==
  ASSUME NEW f \in BpcFiles, NEW X \in SUBSET (0 .. f.chips * Block - 1)
  PROVE  LET g == [f EXCEPT !.bad = f.bad \cup X]
         IN g \in BpcFiles /\ g.chips = f.chips /\ g.bad = f.bad \cup X
<1>6. f \in [chips : 1..8, bad : SUBSET (0 .. 8 * Block - 1)] BY DEF BpcFiles
<1>1. f.chips \in 1..8
      /\ f.bad \in SUBSET (0 .. 8 * Block - 1) /\ f.bad \subseteq 0 .. f.chips * Block - 1
  BY DEF BpcFiles
<1> DEFINE g == [f EXCEPT !.bad = f.bad \cup X]
<1>2. g = [chips |-> f.chips, bad |-> f.bad \cup X] BY <1>6
<1>3. f.chips * Block <= 8 * Block
  <2>1. Block \in Nat BY WNat
  <2>2. (8 - f.chips) * Block >= 0 BY <1>1, <2>1
  <2>3. (8 - f.chips) * Block = 8 * Block - f.chips * Block BY <1>1, <2>1
  <2>4. f.chips * Block \in Int /\ 8 * Block \in Int BY <1>1, <2>1
  <2> QED BY <2>2, <2>3, <2>4
<1>4. f.chips * Block \in Int /\ 8 * Block \in Int BY <1>1, WNat
<1>5. X \subseteq 0 .. 8 * Block - 1 BY <1>3, <1>4
<1> HIDE DEF g
<1> QED BY <1>1, <1>2, <1>5 DEF BpcFiles, g

LEMMA WriteMaskKeeps == ASSUME IInv, WriteMask PROVE IInv'
<1> DEFINE old == files[bpcName]
           drawnBytes == {Pel[mosaic][orientation][q] : q \in {q \in Image : Lin(q) \in drawn}}
           new == drawnBytes \cap 0 .. old.chips * Block - 1
<1>1. /\ mosaic \in Mosaics /\ orientation \in 0..7 /\ bpcName \in Names /\ HasFile(bpcName)
      /\ Square /\ drawn \in SUBSET Elements /\ port = Idle
      /\ files' = [files EXCEPT ![Mask] = [old EXCEPT !.bad = old.bad \cup new]]
      /\ asked' = [asked EXCEPT ![Mask] =
                     asked[bpcName] \cup Upright(orientation, {Pixel(n) : n \in drawn})]
      /\ bpcName' = Mask /\ port' = [at |-> "upload"]
  BY MasksAssumption DEF IInv, TypeOK, WriteMask, FreeOperation, Lin
<1>2. /\ UNCHANGED <<mosaic, orientation, layout, pixels, chosen, drawn, shown, diff, match,
                     exported, poll, ops, view, seen>>
  BY DEF WriteMask, FreeOperation, serval, waves, compared
<1>3. Elements' = Elements /\ Square' = Square /\ NumChips' = NumChips /\ Image' = Image
      /\ \A n : Pixel(n)' = Pixel(n)
  BY <1>2, SameMosaic
<1>4. old \in BpcFiles /\ old.chips <= NumChips /\ old # Missing /\ HasFile(Cal)
      /\ old.chips = files[Cal].chips
  BY <1>1, FileInside DEF IInv, ChipsOK, HasFile
<1>5. Mask \in Names /\ Cal \in Names /\ Cal # Mask /\ Missing \notin BpcFiles
      /\ \A n \in Names : n # Mask => n = Cal
  BY FilesAssumption DEF Names
<1>6. \E f \in BpcFiles : f.chips = old.chips /\ f.bad = old.bad \cup new
                          /\ files' = [files EXCEPT ![Mask] = f]
  <2>1. new \in SUBSET (0 .. old.chips * Block - 1) OBVIOUS
  <2> HIDE DEF new, old
  <2> QED BY <1>1, <1>4, <2>1, WholeBytes
<1>7. PICK f \in BpcFiles : f.chips = old.chips /\ f.bad = old.bad \cup new
                          /\ files' = [files EXCEPT ![Mask] = f]
  BY <1>6
<1>8. files \in [Names -> BpcFiles \cup {Missing}] BY DEF IInv, TypeOK
<1>9. asked \in [Names -> SUBSET Image] BY DEF IInv, AskedOK
<1>10. files'[Mask] = f /\ files'[Cal] = files[Cal] /\ files' \in [Names -> BpcFiles \cup {Missing}]
  BY <1>5, <1>7, <1>8
<1>11. TypeOK'
  BY <1>1, <1>2, <1>3, <1>5, <1>10 DEF IInv, TypeOK
<1>12. ChipsOK'
  BY <1>3, <1>4, <1>5, <1>7, <1>10 DEF IInv, ChipsOK, HasFile
<1>13. AskedOK'
  <2> DEFINE U == Upright(orientation, {Pixel(n) : n \in drawn})
  <2>1. drawnBytes \subseteq Elements /\ {p \in Image : Pel[mosaic][0][p] \in drawnBytes} = U
    BY <1>1, DrawnMask
  <2>2. U \subseteq Image BY <2>1
  <2> HIDE DEF U, drawnBytes, old
  <2>3. asked' = [asked EXCEPT ![Mask] = asked[bpcName] \cup U] BY <1>1 DEF U
  <2>4. asked' \in [Names -> SUBSET Image] /\ asked'[Cal] = asked[Cal]
        /\ asked'[Mask] = asked[bpcName] \cup U
    BY <1>1, <1>5, <1>9, <2>2, <2>3
  <2>5. ASSUME files'[Cal].chips = NumChips
        PROVE  asked'[Cal] = {p \in Image : Pel[mosaic][0][p] \in files'[Cal].bad}
               /\ asked'[Mask] = {p \in Image : Pel[mosaic][0][p] \in files'[Mask].bad}
    <3>1. \A n \in Names : HasFile(n) =>
            asked[n] = {p \in Image : Pel[mosaic][0][p] \in files[n].bad}
      BY <1>1, <1>10, <2>5 DEF IInv, AskedOK
    <3>2. asked[Cal] = {p \in Image : Pel[mosaic][0][p] \in files[Cal].bad}
          /\ asked[bpcName] = {p \in Image : Pel[mosaic][0][p] \in old.bad}
      BY <1>1, <1>4, <1>5, <3>1 DEF old
    <3>3. Elements = 0 .. old.chips * Block - 1 BY <1>4, <1>10, <2>5 DEF Elements
    <3>4. new = drawnBytes BY <2>1, <3>3
    <3>5. f.bad = old.bad \cup drawnBytes BY <1>7, <3>4
    <3> HIDE DEF new
    <3> QED BY <1>10, <2>1, <2>4, <3>2, <3>5
  <2> HIDE DEF new
  <2>6. ASSUME files'[Cal].chips = NumChips, NEW n \in Names
        PROVE  asked'[n] = {p \in Image : Pel[mosaic][0][p] \in files'[n].bad}
    BY <1>5, <2>5, <2>6
  <2> QED BY <1>2, <1>3, <2>4, <2>6 DEF AskedOK
<1>14. PortOK' BY <1>1, <1>2 DEF IInv, PortOK
<1>15. FetchOK' BY <1>1 DEF FetchOK
<1>16. ComparedOK'
  <2>1. port.at # "fetch" BY <1>1 DEF Idle
  <2> QED BY <1>2, <2>1, KeepCompared DEF IInv
<1>17. ShownIsAsked'
  <2>1. WholeFiles' => WholeFiles
    <3>1. WholeFiles' => files'[Cal].chips = NumChips
      BY <1>3, <1>4, <1>5, <1>10 DEF WholeFiles, HasFile
    <3> QED BY <1>10, <3>1, WholeChips DEF IInv
  <2> QED BY <1>2, <1>3, <2>1 DEF IInv, ShownIsAsked
<1>18. ExportIsMask' BY <1>2, KeepExport DEF IInv
<1> QED BY <1>11, <1>12, <1>13, <1>14, <1>15, <1>16, <1>17, <1>18 DEF IInv

-----------------------------------------------------------------------------
\* Steps that change Serval, the names or the orientation only.
LEMMA LoadInside ==
  ASSUME IInv, NEW n \in Names, Load(n)
  PROVE  pixels' \subseteq Elements
<1>1. pixels \subseteq Elements BY DEF IInv, TypeOK
<1>2. CASE pixels' = pixels BY <1>1, <1>2
<1>3. CASE HasFile(n) /\ pixels' = files[n].bad BY <1>3, FileInside DEF IInv
<1> QED BY <1>2, <1>3 DEF Load

LEMMA OthersKeep ==
  ASSUME IInv, TypeOK',
         UNCHANGED <<mosaic, files, shown, diff, match, exported, port, asked, view, seen>>
  PROVE  IInv'
<1>1. ChipsOK' /\ AskedOK' /\ PortOK' BY KeepChips, KeepAsked, KeepPort DEF IInv
<1>2. FetchOK' /\ ComparedOK' BY KeepFetch, KeepCompared DEF IInv
<1>3. ShownIsAsked' /\ ExportIsMask' BY KeepShown, KeepExport DEF IInv
<1> QED BY <1>1, <1>2, <1>3 DEF IInv

LEMMA UploadMaskKeeps == ASSUME IInv, UploadMask PROVE IInv'
<1>1. /\ UNCHANGED <<mosaic, orientation, layout, files, chosen, drawn, shown, diff, match,
                     exported, poll, ops, asked, view, seen>>
      /\ port.at = "upload" /\ port' = Idle /\ bpcName' = chosen /\ Load(bpcName)
  BY DEF UploadMask, waves, compared
<1>2. pixels' \subseteq Elements BY <1>1, LoadInside DEF IInv, TypeOK
<1>3. Elements' = Elements /\ NumChips' = NumChips BY <1>1, SameMosaic
<1>4. TypeOK' BY <1>1, <1>2, <1>3 DEF IInv, TypeOK
<1>5. ChipsOK' /\ AskedOK' BY <1>1, KeepChips, KeepAsked DEF IInv
<1>6. PortOK' /\ FetchOK' BY <1>1 DEF IInv, PortOK, FetchOK, Idle
<1>7. ComparedOK'
  <2>1. port.at # "fetch" BY <1>1
  <2> QED BY <1>1, <2>1, KeepCompared DEF IInv
<1>8. ShownIsAsked' /\ ExportIsMask' BY <1>1, KeepShown, KeepExport DEF IInv
<1> QED BY <1>4, <1>5, <1>6, <1>7, <1>8 DEF IInv

LEMMA ChooseFileKeeps == ASSUME IInv, ChooseFile PROVE IInv'
<1>1. /\ UNCHANGED <<mosaic, orientation, layout, pixels, files, drawn, shown, diff, match,
                     exported, port, poll, ops, asked, view, seen>>
      /\ bpcName' \in Names /\ chosen' = bpcName'
  BY DEF ChooseFile, FreeOperation, serval, waves, compared
<1>2. Elements' = Elements /\ NumChips' = NumChips BY <1>1, SameMosaic
<1>3. TypeOK' BY <1>1, <1>2 DEF IInv, TypeOK
<1> QED BY <1>1, <1>3, OthersKeep

LEMMA WriteBPCFileKeeps == ASSUME IInv, WriteBPCFile PROVE IInv'
<1>1. /\ UNCHANGED <<mosaic, orientation, layout, files, bpcName, chosen, drawn, shown, diff,
                     match, exported, port, poll, asked, view, seen>>
      /\ Load(bpcName) /\ ops < MaxOps /\ ops' = ops + 1
  BY DEF WriteBPCFile, Operation, waves, compared
<1>2. pixels' \subseteq Elements BY <1>1, LoadInside DEF IInv, TypeOK
<1>3. Elements' = Elements /\ NumChips' = NumChips BY <1>1, SameMosaic
<1>4. TypeOK' BY <1>1, <1>2, <1>3, MasksAssumption DEF IInv, TypeOK
<1> QED BY <1>1, <1>4, OthersKeep

LEMMA LayoutKeeps == ASSUME IInv, RotateLayout \/ ReadLayout PROVE IInv'
<1>1. /\ UNCHANGED <<mosaic, pixels, files, bpcName, chosen, drawn, shown, diff,
                     match, exported, port, poll, asked, view, seen>>
      /\ orientation' \in Orientations /\ layout' \in Orientations
      /\ ops' \in 0..MaxOps
  BY MasksAssumption DEF IInv, TypeOK, RotateLayout, ReadLayout, Operation, serval, waves, compared
<1>2. Elements' = Elements /\ NumChips' = NumChips BY <1>1, SameMosaic
<1>3. TypeOK' BY <1>1, <1>2 DEF IInv, TypeOK
<1> QED BY <1>1, <1>3, OthersKeep

LEMMA PollKeeps == ASSUME IInv, PollNames \/ PollUploads PROVE IInv'
<1>1. /\ UNCHANGED <<mosaic, orientation, layout, files, bpcName, chosen, drawn, shown, diff,
                     match, exported, port, ops, asked, view, seen>>
      /\ poll' \in Names \cup {Missing}
  BY DEF IInv, TypeOK, PollNames, PollUploads, serval, waves, compared
<1>2. pixels' \subseteq Elements
  <2>1. CASE PollNames BY <2>1 DEF PollNames, serval, IInv, TypeOK
  <2>2. CASE PollUploads
    <3>1. poll \in Names /\ Load(poll) BY <2>2 DEF PollUploads, IInv, TypeOK
    <3> QED BY <3>1, LoadInside
  <2> QED BY <2>1, <2>2
<1>3. Elements' = Elements /\ NumChips' = NumChips BY <1>1, SameMosaic
<1>4. TypeOK' BY <1>1, <1>2, <1>3 DEF IInv, TypeOK
<1> QED BY <1>1, <1>4, OthersKeep

LEMMA RestartKeeps == ASSUME IInv, Restart PROVE IInv'
<1>1. /\ UNCHANGED <<mosaic, orientation, files, bpcName, chosen, drawn, shown, diff,
                     match, exported, port, poll, ops, asked, view, seen>>
      /\ pixels' = {} /\ layout' \in Orientations
  BY MasksAssumption DEF Restart, waves, compared
<1>2. Elements' = Elements /\ NumChips' = NumChips BY <1>1, SameMosaic
<1>3. TypeOK' BY <1>1, <1>2 DEF IInv, TypeOK
<1> QED BY <1>1, <1>3, OthersKeep
-----------------------------------------------------------------------------
\* The bytes of a chip.
LEMMA BytesOf ==
  ASSUME NEW c \in Nat, NEW k \in Int
  PROVE  k \in Bytes(c) <=> k \in Nat /\ k \div Block = c
<1>1. Block \in Nat \ {0} BY WNat
<1>2. c * Block \in Nat /\ (c + 1) * Block = c * Block + Block BY <1>1
<1>3. ASSUME k \in Bytes(c) PROVE k \in Nat /\ k \div Block = c
  <2> DEFINE r == k - c * Block
  <2>1. r \in 0 .. Block - 1 /\ k = c * Block + r /\ k \in Nat BY <1>1, <1>2, <1>3 DEF Bytes
  <2> HIDE DEF r
  <2> QED BY <1>1, <2>1, Composed
<1>4. ASSUME k \in Nat, k \div Block = c PROVE k \in Bytes(c)
  <2>1. k % Block \in 0 .. Block - 1 /\ k = c * Block + (k % Block) BY <1>1, <1>4, Divided
  <2> QED BY <1>2, <1>1, <2>1 DEF Bytes
<1> QED BY <1>3, <1>4

LEMMA BytesBelow ==
  ASSUME NEW c \in Nat, NEW d \in Nat, d < c, NEW k \in Bytes(d)
  PROVE  k < c * Block
<1>1. Block \in Nat \ {0} BY WNat
<1>2. (c - (d + 1)) * Block >= 0 /\ (c - (d + 1)) * Block = c * Block - (d + 1) * Block BY <1>1
<1>3. c * Block \in Int /\ (d + 1) * Block \in Int BY <1>1
<1> QED BY <1>2, <1>3 DEF Bytes

LEMMA ReadFileKeeps == ASSUME IInv, ReadFile PROVE IInv'
<1>1. /\ UNCHANGED <<mosaic, orientation, layout, pixels, files, bpcName, chosen, drawn, shown, diff,
                     match, exported, poll, asked, view, seen>>
      /\ port = Idle /\ ops < MaxOps /\ ops' = ops + 1
      /\ port' = [at |-> "fetch", chip |-> 0, failed |-> 0, file |-> files[bpcName],
                  decoded |-> {}, linear |-> {}]
  BY DEF ReadFile, Operation, serval, waves, compared
<1>2. Elements' = Elements /\ NumChips' = NumChips /\ NumChips \in Nat
  BY <1>1, SameMosaic, MosaicSizes DEF IInv, TypeOK
<1>3. bpcName \in Names /\ bpcName = chosen /\ files[bpcName] \in BpcFiles \cup {Missing}
  BY <1>1 DEF IInv, TypeOK, Idle
<1>4. files[bpcName] # Missing => files[bpcName].chips <= NumChips
  BY <1>3 DEF IInv, ChipsOK, HasFile
<1>5. TypeOK' BY <1>1, <1>2, <1>3, MasksAssumption DEF IInv, TypeOK
<1>6. ChipsOK' /\ AskedOK' BY <1>1, KeepChips, KeepAsked DEF IInv
<1>7. PortOK' BY <1>1, <1>3, MasksAssumption DEF IInv, PortOK, Comparison
<1>8. FetchOK' BY <1>1, <1>2, <1>4 DEF FetchOK
<1>9. ComparedOK' BY <1>1 DEF ComparedOK
<1>10. ShownIsAsked' /\ ExportIsMask' BY <1>1, KeepShown, KeepExport DEF IInv
<1> QED BY <1>5, <1>6, <1>7, <1>8, <1>9, <1>10 DEF IInv

\* One chip: in each case the codes of the chips before stay as they were.
LEMMA FetchChipKeeps == ASSUME IInv, FetchChip PROVE IInv'
<1> DEFINE c == port.chip
           usable == port.file # Missing /\ c < port.file.chips
           arrived == pixels \cap Bytes(c) \cap 0 .. LinearLen - 1
<1>1. /\ UNCHANGED <<mosaic, orientation, layout, pixels, files, bpcName, chosen, drawn, shown, diff,
                     exported, poll, ops, asked, view, seen>>
      /\ port.at = "fetch" /\ c < NumChips
  BY DEF FetchChip, serval, waves
<1>2. port \in Comparison /\ mosaic \in Mosaics BY <1>1 DEF IInv, PortOK, TypeOK, Idle
<1>3. /\ c \in 0..8 /\ port.failed \in 0 .. MaxFailures /\ port.file \in BpcFiles \cup {Missing}
      /\ port.decoded \subseteq 0..7 /\ port.linear \subseteq Int
      /\ NumChips \in {1, 4, 8} /\ MaxFailures \in Nat /\ pixels \subseteq Elements
      /\ match \in [0 .. NumChips - 1 -> {-1, 0, 1, 2, 3}]
  BY <1>2, MosaicSizes, MasksAssumption DEF Comparison, IInv, TypeOK
<1>4. /\ port.file # Missing => port.file.chips <= NumChips
      /\ \A k \in port.linear : k < c * Block
      /\ port.decoded \subseteq {d \in 0 .. c - 1 : port.file # Missing /\ d < port.file.chips}
      /\ Square => \A d \in 0 .. c - 1 :
           (match[d] = 0) <=>
             d \in port.decoded /\ \E k \in Bytes(d) : ~(k \in port.linear <=> k \in port.file.bad)
  BY <1>1 DEF IInv, FetchOK
<1>5. Elements' = Elements /\ NumChips' = NumChips /\ Square' = Square BY <1>1, SameMosaic
<1>6. \E v \in {-1, 0, 1, 2, 3} :
        /\ match' = [match EXCEPT ![c] = v]
        /\ \/ /\ usable /\ v = (IF pixels \cap Bytes(c) = port.file.bad \cap Bytes(c) THEN 1 ELSE 0)
              /\ port' = [port EXCEPT !.chip = c + 1, !.decoded = port.decoded \cup {c},
                            !.linear = port.linear \cup arrived]
           \/ /\ v # 0
              /\ port' = [port EXCEPT !.chip = c + 1]
           \/ /\ v # 0 /\ port.failed < MaxFailures
              /\ port' = [port EXCEPT !.chip = c + 1, !.failed = port.failed + 1]
  BY DEF FetchChip, Bytes
<1>7. PICK v \in {-1, 0, 1, 2, 3} :
        /\ match' = [match EXCEPT ![c] = v]
        /\ \/ /\ usable /\ v = (IF pixels \cap Bytes(c) = port.file.bad \cap Bytes(c) THEN 1 ELSE 0)
              /\ port' = [port EXCEPT !.chip = c + 1, !.decoded = port.decoded \cup {c},
                            !.linear = port.linear \cup arrived]
           \/ /\ v # 0
              /\ port' = [port EXCEPT !.chip = c + 1]
           \/ /\ v # 0 /\ port.failed < MaxFailures
              /\ port' = [port EXCEPT !.chip = c + 1, !.failed = port.failed + 1]
  BY <1>6
<1>8. /\ port'.at = "fetch" /\ port'.chip = c + 1 /\ port'.file = port.file
      /\ port' \in Comparison
      /\ \/ /\ usable /\ v = (IF pixels \cap Bytes(c) = port.file.bad \cap Bytes(c) THEN 1 ELSE 0)
            /\ port'.decoded = port.decoded \cup {c} /\ port'.linear = port.linear \cup arrived
         \/ v # 0 /\ port'.decoded = port.decoded /\ port'.linear = port.linear
  <2>1. arrived \subseteq Int BY <1>3 DEF Elements
  <2>2. c + 1 \in 0..8 /\ c \in 0..7 BY <1>1, <1>3
  <2>3. ASSUME NEW decoded \in SUBSET (0..7), NEW linear \in SUBSET Int,
               port' = [port EXCEPT !.chip = c + 1, !.decoded = decoded, !.linear = linear]
        PROVE  /\ port'.at = "fetch" /\ port'.chip = c + 1 /\ port'.file = port.file
               /\ port' \in Comparison /\ port'.decoded = decoded /\ port'.linear = linear
    <3> HIDE DEF c
    <3> QED BY <1>1, <1>2, <2>2, <2>3 DEF Comparison
  <2>4. ASSUME NEW failed \in 0 .. MaxFailures,
               port' = [port EXCEPT !.chip = c + 1, !.failed = failed]
        PROVE  /\ port'.at = "fetch" /\ port'.chip = c + 1 /\ port'.file = port.file
               /\ port' \in Comparison
               /\ port'.decoded = port.decoded /\ port'.linear = port.linear
    <3> HIDE DEF c
    <3> QED BY <1>1, <1>2, <2>2, <2>4 DEF Comparison
  <2>5. CASE /\ usable /\ v = (IF pixels \cap Bytes(c) = port.file.bad \cap Bytes(c) THEN 1 ELSE 0)
             /\ port' = [port EXCEPT !.chip = c + 1, !.decoded = port.decoded \cup {c},
                           !.linear = port.linear \cup arrived]
    <3>1. port.decoded \cup {c} \in SUBSET (0..7) /\ port.linear \cup arrived \in SUBSET Int
      BY <1>3, <2>1, <2>2
    <3> DEFINE D == port.decoded \cup {c}  L == port.linear \cup arrived
    <3>2. D \in SUBSET (0..7) /\ L \in SUBSET Int
          /\ port' = [port EXCEPT !.chip = c + 1, !.decoded = D, !.linear = L]
      BY <2>5, <3>1
    <3> HIDE DEF D, L
    <3>3. /\ port'.at = "fetch" /\ port'.chip = c + 1 /\ port'.file = port.file
          /\ port' \in Comparison /\ port'.decoded = D /\ port'.linear = L
      BY <2>3, <3>2
    <3> QED BY <2>5, <3>3 DEF D, L
  <2>6. CASE v # 0 /\ port' = [port EXCEPT !.chip = c + 1]
    <3>1. port' = [port EXCEPT !.chip = c + 1, !.failed = port.failed] BY <1>2, <2>6 DEF Comparison
    <3> HIDE DEF arrived, usable, c
    <3> QED BY <1>3, <2>4, <2>6, <3>1
  <2>7. CASE /\ v # 0 /\ port.failed < MaxFailures
             /\ port' = [port EXCEPT !.chip = c + 1, !.failed = port.failed + 1]
    <3>1. port.failed + 1 \in 0 .. MaxFailures BY <1>3, <2>7
    <3> HIDE DEF arrived, usable, c
    <3> QED BY <2>4, <2>7, <3>1
  <2> HIDE DEF arrived, usable, c
  <2> QED BY <1>7, <2>5, <2>6, <2>7
<1>9. match' \in [0 .. NumChips - 1 -> {-1, 0, 1, 2, 3}] /\ match'[c] = v
      /\ \A d \in 0 .. NumChips - 1 : d # c => match'[d] = match[d]
  BY <1>1, <1>3, <1>7
<1>10. TypeOK' BY <1>1, <1>5, <1>8, <1>9 DEF IInv, TypeOK
<1>11. PortOK' BY <1>1, <1>8 DEF IInv, PortOK
<1>12. \A k \in port'.linear : k < (c + 1) * Block
  <2>1. c \in Nat /\ Block \in Nat \ {0} BY <1>3, WNat
  <2>2. c * Block \in Int /\ (c + 1) * Block = c * Block + Block BY <2>1
  <2>3. \A k \in arrived : k < (c + 1) * Block BY <2>2, <2>1 DEF Bytes
  <2>4. \A k \in port.linear : k < (c + 1) * Block BY <1>3, <1>4, <2>1, <2>2
  <2> HIDE DEF arrived
  <2> QED BY <1>8, <2>3, <2>4
<1>13. port'.decoded \subseteq {d \in 0 .. c : port.file # Missing /\ d < port.file.chips}
  BY <1>3, <1>4, <1>8
<1>14. ASSUME Square, NEW d \in 0 .. c
       PROVE  (match'[d] = 0) <=>
                /\ d \in port'.decoded
                /\ \E k \in Bytes(d) : ~(k \in port'.linear <=> k \in port.file.bad)
  <2>1. CASE d # c
    <3>1. d \in 0 .. c - 1 /\ d \in 0 .. NumChips - 1 /\ d < c /\ d \in Nat /\ c \in Nat
      BY <1>1, <1>3, <2>1
    <3>2. match'[d] = match[d] BY <1>9, <2>1, <3>1
    <3>3. d \in port'.decoded <=> d \in port.decoded BY <1>8, <2>1
    <3>4. \A k \in Bytes(d) : k \in port'.linear <=> k \in port.linear
      <4>1. \A k \in Bytes(d) : k < c * Block BY <3>1, BytesBelow
      <4>2. \A k \in arrived : ~(k < c * Block)
        <5>1. c * Block \in Int BY <1>3, WNat
        <5> QED BY <5>1 DEF Bytes
      <4> HIDE DEF arrived
      <4> QED BY <1>8, <4>1, <4>2
    <3> QED BY <1>4, <1>14, <3>1, <3>2, <3>3, <3>4
  <2>2. CASE d = c
    <3>1. c \notin port.decoded BY <1>3, <1>4
    <3>2. match'[c] = v BY <1>9
    <3>3. CASE usable /\ v = (IF pixels \cap Bytes(c) = port.file.bad \cap Bytes(c) THEN 1 ELSE 0)
               /\ port'.decoded = port.decoded \cup {c} /\ port'.linear = port.linear \cup arrived
      <4>1. \A k \in Bytes(c) : k \in 0 .. LinearLen - 1
        <5>1. NumChips \in {1, 4} BY <1>2, <1>14, SquareMosaic
        <5>2. c \in 0 .. 4 - 1 BY <1>1, <1>3, <5>1
        <5>3. c \in Nat /\ 4 \in Nat /\ c < 4 BY <5>2
        <5>4. c * Block \in Nat BY <5>3, WNat
        <5>5. \A k \in Bytes(c) : k < 4 * Block BY <5>3, BytesBelow
        <5>6. \A k \in Bytes(c) : k \in Int /\ k >= 0 BY <5>4, WNat DEF Bytes
        <5>7. 4 * Block \in Int BY WNat
        <5> QED BY <5>5, <5>6, <5>7 DEF LinearLen
      <4>2. \A k \in Bytes(c) : k \notin port.linear
        <5>1. c * Block \in Int BY <1>3, WNat
        <5>2. \A k \in Bytes(c) : ~(k < c * Block) BY <5>1 DEF Bytes
        <5> QED BY <1>4, <5>2
      <4>3. \A k \in Bytes(c) : k \in port'.linear <=> k \in pixels BY <3>3, <4>1, <4>2
      <4>4. v = 0 <=> \E k \in Bytes(c) : ~(k \in pixels <=> k \in port.file.bad)
        <5>1. v = 0 <=> pixels \cap Bytes(c) # port.file.bad \cap Bytes(c) BY <3>3
        <5> HIDE DEF c
        <5> QED BY <5>1
      <4> QED BY <2>2, <3>2, <3>3, <4>3, <4>4
    <3>4. CASE v # 0 /\ port'.decoded = port.decoded /\ port'.linear = port.linear
      BY <2>2, <3>1, <3>2, <3>4
    <3> QED BY <1>8, <3>3, <3>4
  <2> QED BY <2>1, <2>2
<1>15. FetchOK'
  <2>1. c + 1 <= NumChips /\ (c + 1) - 1 = c BY <1>1, <1>3
  <2> HIDE DEF c, arrived, usable
  <2> QED BY <1>4, <1>5, <1>8, <1>12, <1>13, <1>14, <2>1 DEF FetchOK
<1>16. ChipsOK' /\ AskedOK' BY <1>1, KeepChips, KeepAsked DEF IInv
<1>17. ComparedOK' BY <1>8 DEF ComparedOK
<1>18. ShownIsAsked' /\ ExportIsMask' BY <1>1, KeepShown, KeepExport DEF IInv
<1> QED BY <1>10, <1>11, <1>15, <1>16, <1>17, <1>18 DEF IInv
-----------------------------------------------------------------------------
\* The list of the masked pixels, from the bytes of the file.
LEMMA ExportPixels ==
  ASSUME mosaic \in Mosaics, orientation \in 0..7, port.file.bad \subseteq Elements
  PROVE  /\ Export \subseteq Nat \X Nat
         /\ Square /\ (NumChips = 4 => orientation # 3) =>
              Export = {p \in Image : Pel[mosaic][orientation][p] \in port.file.bad}
<1> DEFINE B == port.file.bad
           K == {k \in B : Img[mosaic][orientation][k] >= 0}
<1>1. Export = {Pixel(Img[mosaic][orientation][k]) : k \in K} BY DEF Export, Pixel
<1>2. \A k \in K : Img[mosaic][orientation][k] \in Nat
  <2>1. \A k \in B : Img[mosaic][orientation][k] \in Int BY ImgInt
  <2> HIDE DEF Img
  <2> QED BY <2>1
<1>3. \A n \in Nat : Pixel(n) \in Nat \X Nat
  <2>1. COLS \in Nat \ {0} BY MosaicSizes
  <2>2. \A n \in Nat : n % COLS \in 0 .. COLS - 1 /\ n \div COLS \in Nat BY <2>1, Divided
  <2>3. \A n \in Nat : n % COLS \in Nat BY <2>1, <2>2
  <2> QED BY <2>2, <2>3 DEF Pixel
<1>4. Export \subseteq Nat \X Nat
  <2> HIDE DEF Img, K, Pixel
  <2> QED BY <1>1, <1>2, <1>3
<1>5. ASSUME Square, NumChips = 4 => orientation # 3
      PROVE  Export = {p \in Image : Pel[mosaic][orientation][p] \in B}
  <2>1. \A k \in B : /\ Spot(mosaic, orientation, k) \in Image
                     /\ Pel[mosaic][orientation][Spot(mosaic, orientation, k)] = k
    BY <1>5, PelOfSpot
  <2>2. \A k \in B : Img[mosaic][orientation][k] = Lin(Spot(mosaic, orientation, k))
    BY <1>5, ImgSpot
  <2>3. \A p \in Image : Lin(p) \in Elements /\ Pixel(Lin(p)) = p BY <1>5, PixelOfLin
  <2>4. \A p \in Image : Spot(mosaic, orientation, Pel[mosaic][orientation][p]) = p
    BY <1>5, SpotOfPel
  <2>5. \A n \in Elements : n >= 0 BY DEF Elements
  <2> HIDE DEF Img, Spot, Pel, Pixel, Lin, Image
  <2>6. K = B BY <2>1, <2>2, <2>3, <2>5
  <2>7. \A k \in B : Pixel(Img[mosaic][orientation][k]) = Spot(mosaic, orientation, k)
    BY <2>1, <2>2, <2>3
  <2>8. Export = {Spot(mosaic, orientation, k) : k \in B} BY <1>1, <2>6, <2>7
  <2> HIDE DEF B
  <2> QED BY <2>1, <2>4, <2>8
<1> QED BY <1>4, <1>5

\* The comparison of the image finds a difference just where that of the bytes does.
LEMMA CompareKeeps == ASSUME IInv, Compare PROVE IInv'
<1>1. /\ UNCHANGED <<mosaic, orientation, layout, pixels, files, bpcName, chosen, drawn, shown,
                     match, poll, ops, asked, view>>
      /\ port.at = "fetch" /\ port.chip = NumChips /\ port' = Idle
  BY DEF Compare, serval
<1>2. /\ port \in Comparison /\ mosaic \in Mosaics /\ orientation \in Orientations
      /\ orientation \in 0..7 /\ bpcName = chosen /\ diff \subseteq Elements
      /\ exported \subseteq Nat \X Nat
  BY <1>1, MasksAssumption DEF IInv, PortOK, TypeOK, Idle
<1>3. Elements' = Elements /\ NumChips' = NumChips /\ Square' = Square /\ Image' = Image
      /\ \A n : Pixel(n)' = Pixel(n)
  BY <1>1, SameMosaic
<1>4. ChipsOK' /\ AskedOK' BY <1>1, KeepChips, KeepAsked DEF IInv
<1>5. ShownIsAsked' BY <1>1, KeepShown DEF IInv
<1>6. FetchOK' BY <1>1 DEF FetchOK, Idle
<1>7. seen \in [o : Int, bad : SUBSET Int, last : BOOLEAN] /\ seen.o \in Orientations
  BY DEF IInv, PortOK
<1>8. CASE port.file = Missing
  <2>1. seen' = [seen EXCEPT !.last = FALSE] /\ diff' = diff /\ exported' = exported
    BY <1>8 DEF Compare
  <2>2. seen'.o = seen.o /\ seen'.bad = seen.bad /\ seen'.last = FALSE
        /\ seen' \in [o : Int, bad : SUBSET Int, last : BOOLEAN]
    BY <1>7, <2>1
  <2>3. TypeOK' BY <1>1, <1>2, <1>3, <2>1 DEF IInv, TypeOK
  <2>4. PortOK' BY <1>1, <1>7, <2>2 DEF PortOK
  <2>5. ComparedOK' BY <2>2 DEF ComparedOK
  <2>6. ExportIsMask' BY <1>1, <2>1, <2>2, KeepExport DEF IInv
  <2> QED BY <1>4, <1>5, <1>6, <2>3, <2>4, <2>5, <2>6 DEF IInv
<1>9. CASE port.file # Missing
  <2> DEFINE B == port.file.bad
             at(q) == Pel[mosaic][orientation][q]
             Cells == (0 .. COLS - 1) \X (0 .. ROWS - 1)
             Found(q) == Lin(q) < LinearLen /\ Differs(q[1], q[2])
  <2>1. port.file \in BpcFiles /\ port.file.chips <= NumChips /\ port.file.chips \in 1..8
    BY <1>1, <1>2, <1>9 DEF Comparison, IInv, FetchOK, BpcFiles
  <2>2. B \subseteq Elements /\ B \subseteq 0 .. port.file.chips * Block - 1
    BY <1>2, <2>1, BadInside
  <2>3. diff' = {Lin(q) : q \in {q \in Cells : Found(q)}} BY <1>9 DEF Compare, Lin
  <2>4. exported' = Export /\ seen' = [o |-> orientation, bad |-> B, last |-> TRUE]
    BY <1>9 DEF Compare
  <2>5. diff' \subseteq Elements
    <3>1. \A q \in Cells : q[1] \in 0 .. COLS - 1 /\ q[2] \in 0 .. ROWS - 1 OBVIOUS
    <3>2. \A q \in Cells : Lin(q) \in Elements BY <1>2, <3>1, Drawable DEF Lin
    <3> HIDE DEF Cells, Found
    <3> QED BY <2>3, <3>2
  <2>6. Export \subseteq Nat \X Nat BY <1>2, <2>2, ExportPixels
  <2>7. TypeOK' BY <1>1, <1>2, <1>3, <2>4, <2>5, <2>6 DEF IInv, TypeOK
  <2>8. PortOK'
    <3>1. B \subseteq Int BY <2>2 DEF Elements
    <3>2. orientation \in Int BY <1>2
    <3> HIDE DEF B
    <3> QED BY <1>1, <1>2, <2>4, <3>1, <3>2 DEF PortOK
  <2>9. ExportIsMask'
    <3>1. Square /\ (NumChips = 4 => orientation # 3) =>
            Export = {p \in Image : Pel[mosaic][orientation][p] \in B}
      BY <1>2, <2>2, ExportPixels
    <3> HIDE DEF B, Export
    <3>2. seen'.o = orientation /\ seen'.bad = B BY <2>4
    <3> QED BY <1>1, <1>3, <2>4, <3>1, <3>2 DEF ExportIsMask
  <2>10. ComparedOK'
    <3>1. SUFFICES ASSUME Square, NEW c \in 0 .. NumChips - 1
                   PROVE  (match[c] = 0) <=> \E n \in diff' : at(Pixel(n)) \div Block = c
      <4>1. seen'.o = orientation BY <2>4
      <4> HIDE DEF Pel
      <4> QED BY <1>1, <1>3, <4>1 DEF ComparedOK
    <3>2. (match[c] = 0) <=>
             c \in port.decoded /\ \E k \in Bytes(c) : ~(k \in port.linear <=> k \in B)
      BY <1>1, <3>1 DEF IInv, FetchOK
    <3>3. NumChips \in {1, 4} /\ ROWS = COLS /\ Cells = Image
      BY <1>2, <3>1, SquareMosaic DEF Image, Square
    <3>4. \A q \in Image : /\ Lin(q) \in Elements /\ Pixel(Lin(q)) = q
                           /\ at(q) \in Elements /\ q = <<q[1], q[2]>>
      <4>1. \A q \in Image : Lin(q) \in Elements /\ Pixel(Lin(q)) = q BY <1>2, <3>1, PixelOfLin
      <4>2. \A q \in Image : at(q) \in Elements BY <1>2, <3>1, SpotOfPel
      <4>3. \A q \in Image : q = <<q[1], q[2]>> BY DEF Image
      <4> QED BY <4>1, <4>2, <4>3
    <3>5. \A n \in Elements : n \in Nat /\ n < LinearLen
      <4>1. Block \in Nat BY WNat
      <4>2. NumChips * Block <= 4 * Block BY <3>3, <4>1
      <4> QED BY <3>3, <4>1, <4>2 DEF Elements, LinearLen
    <3>6. \A k \in Nat : k \in Bytes(c) <=> k \div Block = c BY BytesOf, <3>3
    <3>7. \A q \in Image : Found(q) <=>
            /\ at(q) < port.file.chips * Block /\ at(q) \div Block \in port.decoded
            /\ ~(at(q) \in port.linear <=> at(q) \in B)
      <4>1. \A q \in Image : Differs(q[1], q[2]) <=>
              /\ at(q) >= 0 /\ at(q) < port.file.chips * Block /\ at(q) < LinearLen
              /\ at(q) \div Block \in port.decoded
              /\ ~(at(q) \in port.linear <=> at(q) \in B)
        BY <3>4 DEF Differs
      <4>2. \A q \in Image : at(q) >= 0 /\ at(q) < LinearLen /\ Lin(q) < LinearLen BY <3>4, <3>5
      <4> HIDE DEF at, Differs, Lin
      <4> QED BY <4>1, <4>2
    <3>8. ASSUME match[c] = 0 PROVE \E n \in diff' : at(Pixel(n)) \div Block = c
      <4>1. PICK k \in Bytes(c) : ~(k \in port.linear <=> k \in B) BY <3>2, <3>8
      <4>2. c \in port.decoded /\ c < port.file.chips
        BY <1>1, <3>2, <3>8 DEF IInv, FetchOK
      <4>3. Block \in Nat \ {0} /\ c \in Nat BY <3>3, WNat
      <4>4. k \in Nat /\ k \div Block = c
        <5>1. k \in Int BY <4>3 DEF Bytes
        <5> QED BY <4>3, <5>1, BytesOf
      <4>5. k < port.file.chips * Block BY <2>1, <4>2, <4>3, BytesBelow
      <4>6. k \in Elements
        <5>1. c < NumChips /\ NumChips \in Nat BY <3>3
        <5>2. k < NumChips * Block BY <4>3, <5>1, BytesBelow
        <5>3. NumChips * Block \in Int BY <4>3, <5>1
        <5> QED BY <4>4, <5>2, <5>3 DEF Elements
      <4>7. PICK q \in Image : at(q) = k BY <1>2, <3>1, <4>6, PelOfSpot
      <4>8. Found(q) BY <3>7, <4>1, <4>2, <4>4, <4>5, <4>7
      <4>9. Lin(q) \in diff' /\ Pixel(Lin(q)) = q BY <2>3, <3>3, <3>4, <4>7, <4>8
      <4> HIDE DEF at
      <4> QED BY <4>4, <4>7, <4>9
    <3>9. ASSUME NEW n \in diff', at(Pixel(n)) \div Block = c PROVE match[c] = 0
      <4>1. PICK q \in Image : n = Lin(q) /\ Found(q) BY <2>3, <3>3
      <4>2. Pixel(n) = q BY <3>4, <4>1
      <4>3. at(q) \div Block = c /\ at(q) \in Nat BY <3>4, <3>5, <3>9, <4>2
      <4>4. at(q) \in Bytes(c) BY <3>6, <4>3
      <4> HIDE DEF at
      <4> QED BY <3>2, <3>7, <4>1, <4>3, <4>4
    <3> QED BY <3>8, <3>9
  <2> QED BY <1>4, <1>5, <1>6, <2>7, <2>8, <2>9, <2>10 DEF IInv
<1> QED BY <1>8, <1>9

-----------------------------------------------------------------------------
LEMMA InitIInv == ASSUME Init PROVE IInv
<1>1. /\ mosaic \in Mosaics /\ orientation \in Orientations /\ layout = orientation
      /\ pixels = {} /\ bpcName = Cal /\ chosen = Cal
      /\ drawn = {} /\ shown = {} /\ diff = {}
      /\ match = [c \in 0 .. NumChips - 1 |-> 2] /\ exported = {}
      /\ port = Idle /\ poll = Missing /\ ops = 0 /\ view = {}
      /\ asked = [n \in Names |->
                   IF n = Cal THEN {p \in Image : Pel[mosaic][0][p] \in files[Cal].bad} ELSE {}]
      /\ seen = [o |-> 0, bad |-> {}, last |-> FALSE]
  BY DEF Init
<1>2. PICK f \in Calibrations :
        f.chips <= NumChips /\ files = [n \in Names |-> IF n = Cal THEN f ELSE Missing]
  BY DEF Init
<1>3. Cal \in Names /\ Mask \in Names /\ Cal # Mask /\ f \in BpcFiles /\ f # Missing
      /\ Missing \notin BpcFiles /\ \A n \in Names : n = Cal \/ n = Mask
  BY FilesAssumption DEF Names
<1>4. files[Cal] = f /\ files[Mask] = Missing /\ files \in [Names -> BpcFiles \cup {Missing}]
  BY <1>2, <1>3
<1>5. TypeOK BY <1>1, <1>3, <1>4, MasksAssumption DEF TypeOK
<1>6. ChipsOK BY <1>2, <1>3, <1>4 DEF ChipsOK, HasFile
<1>7. AskedOK
  <2> DEFINE P == {p \in Image : Pel[mosaic][0][p] \in files[Cal].bad}
  <2>1. P \subseteq Image OBVIOUS
  <2> HIDE DEF P
  <2>2. asked = [n \in Names |-> IF n = Cal THEN P ELSE {}] BY <1>1 DEF P
  <2>3. asked \in [Names -> SUBSET Image] /\ asked[Cal] = P BY <1>3, <2>1, <2>2
  <2>4. \A n \in Names : HasFile(n) => n = Cal BY <1>3, <1>4 DEF HasFile
  <2> QED BY <2>3, <2>4 DEF AskedOK, P
<1>8. PortOK /\ FetchOK BY <1>1, MasksAssumption DEF PortOK, FetchOK, Idle
<1>9. ComparedOK BY <1>1 DEF ComparedOK
<1>10. ShownIsAsked BY <1>1 DEF ShownIsAsked
<1>11. ExportIsMask BY <1>1 DEF ExportIsMask
<1> QED BY <1>5, <1>6, <1>7, <1>8, <1>9, <1>10, <1>11 DEF IInv

LEMMA NextKeeps == ASSUME IInv, [Next]_vars PROVE IInv'
<1>1. CASE Draw BY <1>1, DrawKeeps
<1>2. CASE ReadMask BY <1>2, ReadMaskKeeps
<1>3. CASE WriteMask BY <1>3, WriteMaskKeeps
<1>4. CASE UploadMask BY <1>4, UploadMaskKeeps
<1>5. CASE ReadFile BY <1>5, ReadFileKeeps
<1>6. CASE FetchChip BY <1>6, FetchChipKeeps
<1>7. CASE Compare BY <1>7, CompareKeeps
<1>8. CASE ChooseFile BY <1>8, ChooseFileKeeps
<1>9. CASE WriteBPCFile BY <1>9, WriteBPCFileKeeps
<1>10. CASE RotateLayout \/ ReadLayout BY <1>10, LayoutKeeps
<1>11. CASE PollNames \/ PollUploads BY <1>11, PollKeeps
<1>12. CASE Restart BY <1>12, RestartKeeps
<1>13. CASE UNCHANGED vars
  <2>1. UNCHANGED <<mosaic, orientation, layout, pixels, files, bpcName, chosen, drawn, shown, diff,
                    match, exported, port, poll, ops, asked, view, seen>>
    BY <1>13 DEF vars, serval, waves, compared
  <2>2. Elements' = Elements /\ NumChips' = NumChips BY <2>1, SameMosaic
  <2>3. TypeOK' BY <2>1, <2>2 DEF IInv, TypeOK
  <2> QED BY <2>1, <2>3, OthersKeep
<1> QED BY <1>1, <1>2, <1>3, <1>4, <1>5, <1>6, <1>7, <1>8, <1>9, <1>10, <1>11, <1>12, <1>13
        DEF Next

LEMMA Inductive == Spec => []IInv
<1>1. Init => IInv BY InitIInv
<1>2. IInv /\ [Next]_vars => IInv' BY NextKeeps
<1> QED BY <1>1, <1>2, PTL DEF Spec

-----------------------------------------------------------------------------
\* The variables keep their types, and BPCFileName is the operator's choice again
\* when MaskWrite is over (readInt32Array, mask_io.cpp); see TypeOK.
THEOREM TypeCorrect == Spec => []TypeOK
<1>1. IInv => TypeOK BY DEF IInv
<1> QED BY <1>1, Inductive, PTL

\* The tables of pelIndex (mask_io.cpp) are what rotateLayout asks Serval for; see
\* LayoutsAreRotations. It follows from TypeOK alone.
THEOREM Rotations == Spec => []LayoutsAreRotations
<1>1. IInv => LayoutsAreRotations
  <2>1. SUFFICES ASSUME IInv, Square, NEW o \in 0..7, NEW p \in Image
                 PROVE  Pel[mosaic][o][Turn(o, p)] = Pel[mosaic][0][p]
    BY DEF LayoutsAreRotations
  <2> QED BY <2>1, Rotated DEF IInv, TypeOK
<1> QED BY <1>1, Inductive, PTL

\* MaskPel (readInt32Array, mask_io.cpp) shows the pixels that were masked in the
\* file, wherever the layout has turned them since; see ShownIsAsked.
THEOREM Shown == Spec => []ShownIsAsked
<1>1. IInv => ShownIsAsked BY DEF IInv
<1> QED BY <1>1, Inductive, PTL

\* The codes of the chips and the image that refreshPixelConfigFromServal
\* (serval_http.cpp) leaves come from one comparison; see CodesAgreeWithDiff.
THEOREM Codes == Spec => []CodesAgreeWithDiff
<1>1. IInv => CodesAgreeWithDiff
  <2>1. SUFFICES ASSUME IInv, Square, port = Idle, seen.last, NEW c \in DOMAIN match
                 PROVE  (match[c] = 0) <=>
                          \E n \in diff : Pel[mosaic][seen.o][Pixel(n)] \div Block = c
    BY DEF CodesAgreeWithDiff
  <2>2. c \in 0 .. NumChips - 1 /\ port.at # "fetch" BY <2>1 DEF IInv, TypeOK, Idle
  <2> QED BY <2>1, <2>2 DEF IInv, ComparedOK
<1> QED BY <1>1, Inductive, PTL

\* The list that refreshPixelConfigFromServal exports is the mask in the file; see
\* ExportIsMask.
THEOREM Exported == Spec => []ExportIsMask
<1>1. IInv => ExportIsMask BY DEF IInv
<1> QED BY <1>1, Inductive, PTL
==============================================================================
