-------------------------------- MODULE Masks --------------------------------
(***************************************************************************)
(* Pixel masks (mask_io.cpp, and the pixel configuration of                *)
(* serval_http.cpp). A mask is drawn on the image and kept in a BPC file,  *)
(* one byte for each pixel in the order of the chips' own pixels; which    *)
(* byte an image pixel has depends on the mosaic of chips and on the       *)
(* orientation of the detector layout. The port thread draws, reads and    *)
(* writes masks and compares Serval's pixel configuration with the file;   *)
(* the connection poll thread uploads the file after a reconnection.       *)
(* Of a byte only bit 0 (masked) is kept, so a file is the set of its      *)
(* masked bytes. Medipix3 files (two slices per chip) are left out.        *)
(***************************************************************************)
EXTENDS Integers, FiniteSets

CONSTANTS
  W,            \* pixels along the edge of a chip
  Mosaics,      \* <<chips, chips in a row>>: NumberOfChips, RowLen
  Orientations, \* values of DetectorOrientation
  Boxes,        \* rectangles: [x, y, sx, sy]
  Discs,        \* circles: [x, y, r]
  Cal, Mask,    \* file names: the calibration, the mask written
  Calibrations, \* contents of calibration files: [chips, bad]
  Missing,      \* no such file
  MaxOps,       \* bound: shapes drawn, rotations, comparisons, uploads
  MaxFailures   \* bound: chips without an answer in one comparison

ASSUME MasksAssumption ==
  /\ W \in Nat \ {0} /\ MaxOps \in Nat /\ MaxFailures \in Nat
  /\ 0 \in Orientations /\ Orientations \subseteq 0..7
  /\ Mosaics \subseteq {<<1, 1>>, <<4, 2>>, <<8, 2>>}
  /\ Boxes \subseteq [x : Int, y : Int, sx : Int, sy : Int]
  /\ Discs \subseteq [x : Int, y : Int, r : Int]

Names == {Cal, Mask}
Block == W * W   \* bytes of a chip in a file
BpcFiles ==
  {f \in [chips : 1..8, bad : SUBSET (0 .. 8 * Block - 1)] : f.bad \subseteq 0 .. f.chips * Block - 1}

ASSUME FilesAssumption ==
  /\ Cal # Mask /\ Missing \notin BpcFiles \cup Names /\ Calibrations \subseteq BpcFiles

VARIABLES
  mosaic,        \* NumberOfChips and RowLen
  orientation,   \* TPX3_DET_ORIENTATION
  layout,        \* Serval: the orientation it uses
  pixels,        \* Serval: the masked bytes of its pixel configuration
  files,         \* BPC files: [chips, bad] or Missing
  bpcName,       \* BPCFileName
  chosen,        \* the BPCFileName the operator has chosen
  drawn, shown,  \* the waveform MaskBPC: elements with bit 0, with bit 1
  diff,          \* the waveform PixelConfigDiff: elements other than 0
  match,         \* PixelConfigMatchBPC of each chip
  exported,      \* image pixels of the exported list of masked pixels
  port,          \* what the port thread is at
  poll,          \* the file the poll thread is about to upload, or Missing
  ops,           \* those so far
  asked, view, seen   \* history: see below

serval == <<layout, pixels>>
waves == <<drawn, shown, diff>>
compared == <<match, exported>>
vars == <<mosaic, orientation, serval, files, bpcName, chosen, waves, compared, port, poll, ops,
          asked, view, seen>>

-----------------------------------------------------------------------------
\* rowsCols for mosaic m = <<NumberOfChips, RowLen>>, with NumberOfRows = RowLen * W.
Rows(m) == m[2] * W
Cols(m) == (m[1] \div m[2]) * W

NumChips == mosaic[1]
ROWS == Rows(mosaic)
COLS == Cols(mosaic)
Elements == 0 .. NumChips * Block - 1
Square == ROWS = COLS
Image == (0 .. ROWS - 1) \X (0 .. COLS - 1)

\* The pixel (x, y) of a chip in the chip's own order; a chip can lie in the
\* image in eight ways, numbered as the orientations of a single chip.
Local(way, x, y) ==
  LET rx == W - 1 - x
      ry == W - 1 - y
  IN CASE way = 0 -> x + ry * W
       [] way = 1 -> y + x * W
       [] way = 2 -> rx + y * W
       [] way = 3 -> ry + rx * W
       [] way = 4 -> rx + ry * W
       [] way = 5 -> y + rx * W
       [] way = 6 -> x + y * W
       [] way = 7 -> ry + x * W

\* ... and back: the place of byte b of a chip.
Place(way, b) ==
  LET c == b % W
      r == b \div W
  IN CASE way = 0 -> <<c, W - 1 - r>>
       [] way = 1 -> <<r, c>>
       [] way = 2 -> <<W - 1 - c, r>>
       [] way = 3 -> <<W - 1 - r, W - 1 - c>>
       [] way = 4 -> <<W - 1 - c, W - 1 - r>>
       [] way = 5 -> <<W - 1 - r, c>>
       [] way = 6 -> <<c, r>>
       [] way = 7 -> <<r, W - 1 - c>>

\* The 2x2 mosaic in pelIndex: chip and way of the tiles (1,1), (1,0), (0,0), (0,1).
Quad ==
  [o \in 0..7 |->
     CASE o = 0 -> << <<0, 0>>, <<1, 2>>, <<2, 2>>, <<3, 0>> >>
       [] o = 1 -> << <<1, 3>>, <<2, 3>>, <<3, 1>>, <<0, 1>> >>
       [] o = 2 -> << <<2, 0>>, <<3, 2>>, <<0, 2>>, <<1, 0>> >>
       [] o = 3 -> << <<3, 3>>, <<0, 3>>, <<1, 1>>, <<2, 1>> >>
       [] o = 4 -> << <<3, 4>>, <<2, 6>>, <<1, 6>>, <<0, 4>> >>
       [] o = 5 -> << <<0, 5>>, <<3, 5>>, <<2, 7>>, <<1, 7>> >>
       [] o = 6 -> << <<1, 4>>, <<0, 6>>, <<3, 6>>, <<2, 4>> >>
       [] o = 7 -> << <<2, 5>>, <<1, 5>>, <<0, 7>>, <<3, 7>> >>]

\* bpc2ImgIndex has a table of its own, with another way for chip 0 of LEFT.
QuadBack ==
  [Quad EXCEPT ![3] = << <<3, 3>>, <<0, 5>>, <<1, 1>>, <<2, 1>> >>]

Corners == << <<1, 1>>, <<1, 0>>, <<0, 0>>, <<0, 1>> >>
CornerOf(X, Y) == CHOOSE c \in 1..4 : Corners[c] = <<X, Y>>

\* Mutant: the tiles of a column are taken for those of a row.
PelIndexTransposed(m, o, i, j) ==
  LET tile == Quad[o][CornerOf(j \div W, i \div W)]
  IN IF m[1] = 4 THEN tile[1] * Block + Local(tile[2], i % W, j % W)
     ELSE Local(o, i % W, j % W)

\* pelIndex: the byte of image pixel (i, j); -1 if it has none.
PelIndex(m, o, i, j) ==
  LET X == i \div W   \* findChip
      Y == j \div W
      x == i % W
      y == j % W
  IN CASE m[1] = 1 -> Local(o, x, y)
       [] m[1] = 4 -> LET tile == Quad[o][CornerOf(X, Y)]
                      IN tile[1] * Block + Local(tile[2], x, y)
       [] m[1] = 8 -> IF o # 0 \/ X >= m[2] \/ Y >= m[1] \div m[2] THEN -1
                      ELSE (Y * m[2] + X) * Block + Local(0, x, y)

\* Mutant: the chip of byte k by (k + 1), as before R1-6-2 (RELEASE.md:144).
Bpc2ImgIndexNext(m, o, k) ==
  LET chip == ((k + 1) \div Block) % m[1]
      corner == CHOOSE c \in 1..4 : QuadBack[o][c][1] = chip
      at == Place(QuadBack[o][corner][2], k % Block)
  IN IF m[1] = 4 THEN Corners[corner][1] * W + at[1] + 2 * W * (Corners[corner][2] * W + at[2])
     ELSE Place(o, k % Block)[1] + W * Place(o, k % Block)[2]

\* bpc2ImgIndex: the linear image index of byte k.
Bpc2ImgIndex(m, o, k) ==
  LET chip == k \div Block
      Spot(way) == Place(way, k % Block)
  IN CASE m[1] = 1 -> Spot(o)[1] + W * Spot(o)[2]
       [] m[1] = 4 ->
            LET corner == CHOOSE c \in 1..4 : QuadBack[o][c][1] = chip
                at == Spot(QuadBack[o][corner][2])
            IN Corners[corner][1] * W + at[1] + 2 * W * (Corners[corner][2] * W + at[2])
       [] m[1] = 8 ->
            IF o # 0 THEN -1
            ELSE (chip % m[2]) * W + Spot(0)[1] + m[2] * W * ((chip \div m[2]) * W + Spot(0)[2])

\* Both as tables, over all coordinates the loops use.
Pel ==
  [m \in Mosaics |-> [o \in 0..7 |->
     LET edge == 0 .. (IF Rows(m) > Cols(m) THEN Rows(m) ELSE Cols(m)) - 1
     IN [p \in edge \X edge |-> PelIndex(m, o, p[1], p[2])]]]

Img ==
  [m \in Mosaics |-> [o \in 0..7 |-> [k \in 0 .. m[1] * Block - 1 |-> Bpc2ImgIndex(m, o, k)]]]

\* rotateLayout: how Serval turns an upright image for an orientation.
Turn(o, p) ==
  LET right == <<COLS - 1 - p[2], p[1]>>
      FlipH(q) == <<ROWS - 1 - q[1], q[2]>>
      FlipV(q) == <<q[1], COLS - 1 - q[2]>>
  IN CASE o = 0 -> p
       [] o = 1 -> right
       [] o = 2 -> FlipH(FlipV(p))
       [] o = 3 -> <<p[2], ROWS - 1 - p[1]>>
       [] o = 4 -> FlipH(p)
       [] o = 5 -> FlipH(right)
       [] o = 6 -> FlipV(p)
       [] o = 7 -> FlipV(right)

-----------------------------------------------------------------------------
Idle == [at |-> "idle"]
HasFile(name) == files[name] # Missing

\* The variables keep their types, and the port thread's temporary change of
\* BPCFileName is over when it is idle.
TypeOK ==
  /\ mosaic \in Mosaics /\ orientation \in Orientations /\ layout \in Orientations
  /\ pixels \subseteq Elements /\ drawn \subseteq Elements /\ shown \subseteq Elements
  /\ diff \subseteq Elements
  /\ files \in [Names -> BpcFiles \cup {Missing}]
  /\ match \in [0 .. NumChips - 1 -> {-1, 0, 1, 2, 3}]
  /\ exported \subseteq Nat \X Nat
  /\ poll \in Names \cup {Missing}
  /\ bpcName \in Names /\ chosen \in Names /\ (port.at # "upload" => bpcName = chosen)
  /\ ops \in 0..MaxOps

Init ==
  /\ mosaic \in Mosaics
  /\ orientation \in {o \in Orientations : NumChips = 8 => o = 0} /\ layout = orientation
  /\ \E f \in {f \in Calibrations : f.chips <= NumChips} :
       files = [n \in Names |-> IF n = Cal THEN f ELSE Missing]
  /\ pixels = {} /\ bpcName = Cal /\ chosen = Cal
  /\ drawn = {} /\ shown = {} /\ diff = {}
  /\ match = [c \in 0 .. NumChips - 1 |-> 2] /\ exported = {}
  /\ port = Idle /\ poll = Missing /\ ops = 0
  /\ asked = [n \in Names |->
                IF n = Cal THEN {p \in Image : Pel[mosaic][0][p] \in files[Cal].bad} ELSE {}]
  /\ view = {} /\ seen = [o |-> 0, bad |-> {}, last |-> FALSE]

\* asked: the pixels masked in a file, as positions in the upright image; view:
\* the pixels that MaskBPC should show as masked in the file.
Upright(o, P) == {q \in Image : Turn(o, q) \in P}
Pixel(n) == <<n % COLS, n \div COLS>>

Operation ==
  /\ port = Idle /\ ops < MaxOps /\ ops' = ops + 1
FreeOperation ==
  /\ port = Idle /\ UNCHANGED ops

-----------------------------------------------------------------------------
(***************************************************************************)
(* Drawing: readInt32Array for MaskBPC. Its buffer is that of the record,  *)
(* which keeps it from one processing to the next.                         *)
(***************************************************************************)
Mark(E, on) == drawn' = IF on THEN drawn \cup E ELSE drawn \ E

\* maskReset writes whole values, for i below COLS and j below ROWS.
MaskReset(on) ==
  LET all == {p[2] * ROWS + p[1] : p \in (0 .. COLS - 1) \X (0 .. ROWS - 1)}
  IN Mark(all, on) /\ shown' = shown \ all /\ view' = {}

\* A corner below 0 is not refused: what is written before the waveform goes astray.
MaskRectangle(b, on) ==
  /\ Mark({n \in Elements : \E i \in b.x .. b.x + b.sx - 1, j \in b.y .. b.y + b.sy - 1 :
                             i < COLS /\ j < ROWS /\ n = j * ROWS + i}, on)
  /\ UNCHANGED <<shown, view>>

MaskCircle(c, on) ==
  LET inside(i, j) == c.r >= 0 /\ (i - c.x) * (i - c.x) + (j - c.y) * (j - c.y) <= c.r * c.r
  IN Mark({p[2] * ROWS + p[1] : p \in
             {q \in (0 .. COLS - 1) \X (0 .. ROWS - 1) : inside(q[1], q[2])}}, on)
     /\ UNCHANGED <<shown, view>>

Draw ==
  /\ Operation
  /\ \E on \in BOOLEAN :
       \/ MaskReset(on)
       \/ \E b \in Boxes : MaskRectangle(b, on)
       \/ \E c \in Discs : MaskCircle(c, on)
  /\ UNCHANGED <<mosaic, orientation, serval, files, bpcName, chosen, diff, compared, port, poll,
                 asked, seen>>

\* The waveform elements of a file's masked pixels (with those of another
\* stride, some pixels of eight chips have none).
InWaveform(bad) ==
  Elements \cap {p[2] * COLS + p[1] : p \in {q \in Image : Pel[mosaic][orientation][q] \in bad}}

\* Mutant: what the waveform showed before is not cleared.
ReadMaskOver ==
  /\ FreeOperation /\ HasFile(bpcName)
  /\ shown' = shown \cup InWaveform(files[bpcName].bad)
  /\ view' = {Turn(orientation, q) : q \in asked[bpcName]}
  /\ UNCHANGED <<mosaic, orientation, serval, files, bpcName, chosen, drawn, diff, compared, port,
                 poll, asked, seen>>

\* MaskPel: the mask in the file, in place of what was drawn.
ReadMask ==
  /\ FreeOperation /\ HasFile(bpcName)
  /\ drawn' = {}
  /\ shown' = InWaveform(files[bpcName].bad)
  /\ view' = {Turn(orientation, q) : q \in asked[bpcName]}
  /\ UNCHANGED <<mosaic, orientation, serval, files, bpcName, chosen, diff, compared, port, poll,
                 asked, seen>>

\* MaskWrite: the file named by BPCFileName with the drawn pixels masked becomes
\* the mask file. A drawn pixel without a byte in the file goes astray.
\* BPCFileName names the mask file until the upload is over.
\* (On eight chips the loop reads behind the waveform; not modelled.)
WriteMask ==
  /\ FreeOperation /\ HasFile(bpcName) /\ Square
  /\ LET old == files[bpcName]
         new == {Pel[mosaic][orientation][q] : q \in
                   {q \in Image : q[2] * COLS + q[1] \in drawn}} \cap 0 .. old.chips * Block - 1
     IN files' = [files EXCEPT ![Mask] = [old EXCEPT !.bad = old.bad \cup new]]
  /\ asked' = [asked EXCEPT ![Mask] =
                 asked[bpcName] \cup Upright(orientation, {Pixel(n) : n \in drawn})]
  /\ bpcName' = Mask /\ port' = [at |-> "upload"]
  /\ UNCHANGED <<mosaic, orientation, serval, chosen, waves, compared, poll, view, seen>>

\* Mutant: a failed upload leaves the temporary BPCFileName.
UploadMaskReturns ==
  /\ port.at = "upload" /\ port' = Idle
  /\ \/ pixels' = files[bpcName].bad /\ bpcName' = chosen
     \/ UNCHANGED <<pixels, bpcName>>
  /\ UNCHANGED <<mosaic, orientation, layout, files, chosen, waves, compared, poll, ops, asked,
                 view, seen>>

\* uploadBPC: Serval loads the file, or fails.
Load(name) ==
  pixels' \in {pixels} \cup (IF HasFile(name) THEN {files[name].bad} ELSE {})

UploadMask ==
  /\ port.at = "upload" /\ Load(bpcName)
  /\ bpcName' = chosen /\ port' = Idle
  /\ UNCHANGED <<mosaic, orientation, layout, files, chosen, waves, compared, poll, ops, asked,
                 view, seen>>

-----------------------------------------------------------------------------
(***************************************************************************)
(* RefreshPixelConfig: refreshPixelConfigFromServal.                       *)
(***************************************************************************)
\* The buffers hold four chips.
LinearLen == 4 * Block

ReadFile ==
  /\ Operation
  /\ port' = [at |-> "fetch", chip |-> 0, failed |-> 0, file |-> files[bpcName],
              decoded |-> {}, linear |-> {}]
  /\ UNCHANGED <<mosaic, orientation, serval, files, bpcName, chosen, waves, compared, poll,
                 asked, view, seen>>

\* One chip: its bytes in Serval are compared with its block of the file.
FetchChip ==
  /\ port.at = "fetch" /\ port.chip < NumChips
  /\ LET c == port.chip
         bytes == c * Block .. (c + 1) * Block - 1
         usable == port.file # Missing /\ c < port.file.chips
     IN \/ /\ usable
           /\ match' = [match EXCEPT ![c] =
                          IF pixels \cap bytes = port.file.bad \cap bytes THEN 1 ELSE 0]
           /\ port' = [port EXCEPT !.chip = c + 1, !.decoded = @ \cup {c},
                         !.linear = @ \cup (pixels \cap bytes \cap 0 .. LinearLen - 1)]
        \/ /\ ~usable
           /\ match' = [match EXCEPT ![c] = IF port.file = Missing THEN 2 ELSE 3]
           /\ port' = [port EXCEPT !.chip = c + 1]
        \/ /\ port.failed < MaxFailures   \* no answer, or no pixel configuration
           /\ match' = [match EXCEPT ![c] = -1]
           /\ port' = [port EXCEPT !.chip = c + 1, !.failed = @ + 1]
  /\ UNCHANGED <<mosaic, orientation, serval, files, bpcName, chosen, waves, exported, poll, ops,
                 asked, view, seen>>

\* Mutant: chips without an answer count as all zero.
DiffersUnanswered(i, j) ==
  LET k == Pel[mosaic][orientation][<<i, j>>]
  IN /\ k >= 0 /\ k < port.file.chips * Block /\ k < LinearLen
     /\ (k \in port.linear) # (k \in port.file.bad)

\* The difference at each image pixel, row j below ROWS, column i below COLS.
Differs(i, j) ==
  LET k == Pel[mosaic][orientation][<<i, j>>]
  IN /\ k >= 0 /\ k < port.file.chips * Block /\ k < LinearLen
     /\ k \div Block \in port.decoded
     /\ (k \in port.linear) # (k \in port.file.bad)

\* exportMaskedPelsJsonFromBpcBuffer: the list of the masked pixels.
Export ==
  {LET n == Img[mosaic][orientation][k] IN <<n % COLS, n \div COLS>> :
     k \in {k \in port.file.bad : Img[mosaic][orientation][k] >= 0}}

\* After the last chip; without a file the earlier waveform and list stay.
Compare ==
  /\ port.at = "fetch" /\ port.chip = NumChips
  /\ IF port.file = Missing
     THEN seen' = [seen EXCEPT !.last = FALSE] /\ UNCHANGED <<diff, exported>>
     ELSE /\ diff' = {p[2] * COLS + p[1] : p \in
                        {q \in (0 .. COLS - 1) \X (0 .. ROWS - 1) :
                           q[2] * COLS + q[1] < LinearLen /\ Differs(q[1], q[2])}}
          /\ exported' = Export
          /\ seen' = [o |-> orientation, bad |-> port.file.bad, last |-> TRUE]
  /\ port' = Idle
  /\ UNCHANGED <<mosaic, orientation, serval, files, bpcName, chosen, drawn, shown, match, poll, ops,
                 asked, view>>

-----------------------------------------------------------------------------
\* writeOctet: the operator names a file.
ChooseFile ==
  /\ FreeOperation
  /\ \E n \in Names : bpcName' = n /\ chosen' = n
  /\ UNCHANGED <<mosaic, orientation, serval, files, waves, compared, port, poll, asked, view, seen>>

\* WriteBPCFile.
WriteBPCFile ==
  /\ Operation /\ Load(bpcName)
  /\ UNCHANGED <<mosaic, orientation, layout, files, bpcName, chosen, waves, compared, port, poll,
                 asked, view, seen>>

\* DetectorOrientation: the parameter is set, Serval asked, which may fail.
RotateLayout ==
  /\ Operation
  /\ \E o \in Orientations :
       orientation' = o /\ layout' \in {layout, o}
  /\ UNCHANGED <<mosaic, pixels, files, bpcName, chosen, waves, compared, port, poll, asked, view,
                 seen>>

\* getDetector, on either thread: the orientation is the one Serval has.
ReadLayout ==
  /\ orientation # layout /\ orientation' = layout
  /\ UNCHANGED <<mosaic, serval, files, bpcName, chosen, waves, compared, port, poll, ops, asked,
                 view, seen>>

\* refreshOnReconnect, on the poll thread: uploadBPC gets the name ...
PollNames ==
  /\ poll = Missing /\ poll' = bpcName
  /\ UNCHANGED <<mosaic, orientation, serval, files, bpcName, chosen, waves, compared, port, ops,
                 asked, view, seen>>

\* ... and then has Serval load that file.
PollUploads ==
  /\ poll # Missing /\ Load(poll) /\ poll' = Missing
  /\ UNCHANGED <<mosaic, orientation, layout, files, bpcName, chosen, waves, compared, port, ops,
                 asked, view, seen>>

\* Serval starts again.
Restart ==
  /\ pixels' = {} /\ layout' = 0
  /\ UNCHANGED <<mosaic, orientation, files, bpcName, chosen, waves, compared, port, poll, ops,
                 asked, view, seen>>

Next ==
  \/ Draw \/ ReadMask \/ WriteMask \/ UploadMask
  \/ ReadFile \/ FetchChip \/ Compare
  \/ ChooseFile \/ WriteBPCFile \/ RotateLayout \/ ReadLayout
  \/ PollNames \/ PollUploads \/ Restart

Spec == Init /\ [][Next]_vars

-----------------------------------------------------------------------------
\* The tables of pelIndex are what rotateLayout asks Serval for: in each
\* orientation, a byte of the file is where its place in the upright image is
\* turned to. (They depend on the mosaic only: one state of each is enough.)
LayoutsAreRotations ==
  Square /\ ops = 0 =>
    \A o \in 0..7, p \in Image : Pel[mosaic][o][Turn(o, p)] = Pel[mosaic][0][p]

\* A mask read from a file shows the pixels that were masked in it, wherever the
\* layout has turned them since they were drawn, and no other.
WholeFiles == \A n \in Names : HasFile(n) => files[n].chips = NumChips
ShownIsAsked == Square /\ WholeFiles => {Pixel(n) : n \in shown} = view

\* PixelConfigDiff and PixelConfigMatchBPC come from one comparison: a chip has
\* a difference in the image just if its code says so. (Without a file the
\* image of an earlier comparison stays.)
CodesAgreeWithDiff ==
  Square /\ port = Idle /\ seen.last =>
    \A c \in DOMAIN match :
      (match[c] = 0) <=>
        \E n \in diff : Pel[mosaic][seen.o][Pixel(n)] \div Block = c

\* The exported list has the image pixels that are masked in the file. (LEFT on
\* four chips is the exception that COORDINATE_MAP.md:118 names.)
ExportIsMask ==
  Square /\ (NumChips = 4 => seen.o # 3) =>
    exported = {p \in Image : Pel[mosaic][seen.o][p] \in seen.bad}
=============================================================================
