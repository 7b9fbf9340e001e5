---------------------------- MODULE StreamFraming ----------------------------
(***************************************************************************)
(* How a worker thread cuts the TCP byte stream of a channel into frames:  *)
(* runPreviewTcpWorker with processPreviewJsonimageLine, imgWorkerThread   *)
(* with processImgDataLine, and prvHstWorkerThread with                    *)
(* processPrvHstDataLine do the same (serval_stream.cpp, histogram_io.cpp).*)
(*                                                                         *)
(* Serval sends, for each frame, a line of JSON and then the frame's       *)
(* binary pixels. The worker receives what there is into a buffer that     *)
(* keeps what the last call left, and looks for one line per recv(). The   *)
(* pixels are copied from behind that line, and received directly from the *)
(* socket if the buffer has too few.                                       *)
(*                                                                         *)
(* A token stands for a run of bytes: the JSON text of a frame, its line   *)
(* end, or a pixel. Pixels may look like a line end or like JSON.          *)
(***************************************************************************)
EXTENDS Naturals, Sequences

CONSTANTS
  NumFrames,    \* frames 1..NumFrames are sent
  NumPixels,    \* pixels of a frame
  BufferSize    \* MAX_BUFFER_SIZE

ASSUME FramingAssumption ==
  /\ NumFrames \in Nat \ {0} /\ NumPixels \in Nat \ {0}
  /\ BufferSize \in Nat /\ BufferSize > 2

Json(f) == [kind |-> "json", frame |-> f, index |-> 0]
Eol(f) == [kind |-> "eol", frame |-> f, index |-> 0]
Pixel(f, i) == [kind |-> "pixel", frame |-> f, index |-> i]

\* Whatever lies behind the received part of the line buffer. The buffer is used for
\* every recv() and memmove() does not clear it: there are pixels and headers of
\* earlier frames, or of this one, and zeros where nothing has been received yet;
\* behind its end is memory of something else.
Remnant == [kind |-> "remnant", frame |-> 0, index |-> 0]

Looks == {"plain", "eol", "json"}
Tokens == {Json(f) : f \in 1..NumFrames} \cup {Eol(f) : f \in 1..NumFrames}
            \cup {Pixel(f, i) : f \in 1..NumFrames, i \in 1..NumPixels}

FrameLength == NumPixels + 2
Pixels(f) == [i \in 1..NumPixels |-> Pixel(f, i)]

\* All that Serval sends.
Stream ==
  [n \in 1..(NumFrames * FrameLength) |->
     LET f == ((n - 1) \div FrameLength) + 1
         i == (n - 1) % FrameLength
     IN  CASE i = 0 -> Json(f) [] i = 1 -> Eol(f) [] OTHER -> Pixel(f, i - 1)]

VARIABLES
  together,    \* does recv() ever return a header together with what follows it?
  looks,       \* what the bytes of each pixel look like, the scene being static
  taken,       \* tokens of Stream received so far
  buffer,      \* the received part of the line buffer, its first totalRead bytes
  published,   \* the frames processed: their number, what lay before their header in the
               \* buffer, and the pixels shown
  overran,     \* was a full buffer ever thrown away?
  running      \* is the worker still in its loop?

vars == <<together, looks, taken, buffer, published, overran, running>>

\* The variables keep their types: the buffer stays within its bounds and holds
\* only what Serval sent, and there is always room to receive into: a recv() of
\* no bytes would return 0, and the loop would take that for a closed connection.
TypeOK ==
  /\ together \in BOOLEAN
  /\ looks \in [1..NumPixels -> Looks]
  /\ taken \in 0..Len(Stream)
  /\ buffer \in Seq(Tokens) /\ Len(buffer) < BufferSize
  /\ running => BufferSize - Len(buffer) - 1 > 0
  /\ published \in
       Seq([frame : 1..NumFrames, before : Nat, pixels : Seq(Tokens \cup {Remnant})])
  /\ overran \in BOOLEAN
  /\ running \in BOOLEAN

Init ==
  /\ together \in BOOLEAN
  /\ looks \in [1..NumPixels -> Looks]
  /\ taken = 0 /\ buffer = <<>> /\ published = <<>> /\ overran = FALSE
  /\ running = TRUE

Received(n) == SubSeq(Stream, taken + 1, taken + n)

LooksLike(t, look) == t.kind = look \/ (t.kind = "pixel" /\ looks[t.index] = look)

\* The first of the first n tokens of b that looks so; 0 if none does.
FirstLike(b, n, look) ==
  IF \E m \in 1..n : LooksLike(b[m], look)
  THEN CHOOSE m \in 1..n : /\ LooksLike(b[m], look)
                           /\ \A k \in 1..(m - 1) : ~LooksLike(b[k], look)
  ELSE 0

\* Mutant: the search for {" ends one byte too early.
JsonBeforeTooShort(b, eol) == FirstLike(b, eol - 2, "json")

\* memchr(buffer, '\n'), and the first {" before it.
FirstEol(b) == FirstLike(b, Len(b), "eol")
JsonBefore(b, eol) == FirstLike(b, eol - 1, "json")

\* What lies between the two parses, and is the header of a frame.
IsHeader(b, json, eol) == json > 0 /\ b[json].kind = "json" /\ eol = json + 1

\* Mutant: a full buffer is kept.
KeepFull(rest) == buffer' = rest /\ UNCHANGED overran

\* Mutant: the buffer is emptied after every line.
KeepNothing(rest) == buffer' = <<>> /\ UNCHANGED overran

\* Mutant: one byte more than there is.
KeepOneTooMany(rest) == buffer' = Append(rest, Remnant) /\ UNCHANGED overran

\* What the loop keeps of the buffer: all behind the line end, pixels that
\* have just been used included; a full buffer is thrown away.
Keep(rest) ==
  IF Len(rest) >= BufferSize - 1
  THEN buffer' = <<>> /\ overran' = TRUE
  ELSE buffer' = rest /\ UNCHANGED overran

\* "Copy any binary data we already have after the newline": total_read counts
\* from the start of the buffer, newline_pos - line_buffer from the start of
\* the JSON text. What lies before that text is counted as if it were received
\* behind the line.
HaveAfter(b, json, eol) == Len(b) - (eol - json + 1)

\* Mutant: the line end is copied as the first pixel.
TakePixelsFromEol(b, json, eol, first) ==
  LET have   == HaveAfter(b, json, eol)
      copied == IF have < NumPixels THEN have ELSE NumPixels
  IN  [i \in 1..NumPixels |->
         IF i > copied THEN Stream[first + i - copied]
         ELSE IF eol + i - 1 <= Len(b) THEN b[eol + i - 1] ELSE Remnant]

\* The pixels of the frame whose line is b[json..eol]: copied, and then
\* received by receive_exact() up to their number.
TakePixels(b, json, eol, first) ==
  LET have   == HaveAfter(b, json, eol)
      copied == IF have < NumPixels THEN have ELSE NumPixels
  IN  [i \in 1..NumPixels |->
         IF i > copied THEN Stream[first + i - copied]
         ELSE IF eol + i <= Len(b) THEN b[eol + i] ELSE Remnant]

\* Mutant: the last pixel is left in the socket.
MissingPixelsButOne(b, json, eol) ==
  LET have == HaveAfter(b, json, eol) IN IF have < NumPixels THEN NumPixels - have - 1 ELSE 0

MissingPixels(b, json, eol) ==
  LET have == HaveAfter(b, json, eol) IN IF have < NumPixels THEN NumPixels - have ELSE 0

\* Mutant: the line is not removed from the buffer.
ProcessLineKeepsIt(b, json, eol, n) ==
  LET missing == MissingPixels(b, json, eol)
      first   == taken + n
  IN  IF first + missing > Len(Stream)
      THEN /\ running' = FALSE /\ taken' = Len(Stream)
           /\ UNCHANGED <<buffer, published, overran>>
      ELSE /\ taken' = first + missing
           /\ published' = Append(published, [frame |-> b[json].frame, before |-> json - 1,
                                              pixels |-> TakePixels(b, json, eol, first)])
           /\ Keep(b)
           /\ UNCHANGED running

\* A line that is the JSON of a frame. receive_exact() fails if Serval closes
\* the stream before the last pixel, and the worker ends.
ProcessLine(b, json, eol, n) ==
  LET missing == MissingPixels(b, json, eol)
      first   == taken + n
  IN  IF first + missing > Len(Stream)
      THEN /\ running' = FALSE /\ taken' = Len(Stream)
           /\ UNCHANGED <<buffer, published, overran>>
      ELSE /\ taken' = first + missing
           /\ published' = Append(published, [frame |-> b[json].frame, before |-> json - 1,
                                              pixels |-> TakePixels(b, json, eol, first)])
           /\ Keep(SubSeq(b, eol + 1, Len(b)))
           /\ UNCHANGED running

\* recv() returns n tokens, as many as there is room for at most.
Receive(n) ==
  LET b    == buffer \o Received(n)
      eol  == FirstEol(b)
      json == JsonBefore(b, eol)
  IN  /\ running
      /\ n <= BufferSize - Len(buffer) - 1 /\ taken + n <= Len(Stream)
      /\ together \/ \A m \in 1..(n - 1) : Received(n)[m].kind # "eol"
      /\ IF eol = 0
         THEN Keep(b) /\ taken' = taken + n /\ UNCHANGED <<published, running>>
         ELSE IF ~IsHeader(b, json, eol)
         THEN /\ Keep(SubSeq(b, eol + 1, Len(b)))
              /\ taken' = taken + n /\ UNCHANGED <<published, running>>
         ELSE ProcessLine(b, json, eol, n)
      /\ UNCHANGED <<together, looks>>

\* Serval has sent everything and closes: recv() returns 0. What the buffer
\* still holds is not looked at again.
Closed ==
  /\ running /\ taken = Len(Stream)
  /\ running' = FALSE
  /\ UNCHANGED <<together, looks, taken, buffer, published, overran>>

Next == (\E n \in 1..(BufferSize - 1) : Receive(n)) \/ Closed

Spec == Init /\ [][Next]_vars

\* Serval sends all it has and the worker thread is scheduled.
FairSpec == Spec /\ WF_vars(Next)

-----------------------------------------------------------------------------
Order == INSTANCE FrameOrder WITH delivered <- [n \in 1..Len(published) |-> published[n].frame]

\* However recv() cuts the stream, frames are processed one at a time, in the
\* order they were sent, none of them twice: the bytes the loop keeps although
\* it has used them never make it take a header again.
RefinesFrameOrder == Order!Spec

\* Pixel i of frame f, of whose pixels h were in the buffer with its header: as many
\* as there were tokens before the header are remnants, and shift the rest.
ShownPixel(f, before, h, i) ==
  IF i <= h THEN Pixel(f, i) ELSE IF i <= h + before THEN Remnant ELSE Pixel(f, i - before)

ShownWith(f, before, pixels) ==
  \E h \in 0..NumPixels : \A i \in 1..NumPixels : pixels[i] = ShownPixel(f, before, h, i)

\* A frame shows its own pixels, each in its place, if nothing lay before its header
\* in the buffer or all of them had been received. If something did (the used pixels
\* that the loop keeps are enough), then as many pixels as there were bytes are what
\* earlier recv()s left in the buffer, and the frame's last ones are missing. It never
\* shows more of that, and receive_exact() never reads into the next frame.
PixelsInPlace ==
  \A n \in 1..Len(published) :
    ShownWith(published[n].frame, published[n].before, published[n].pixels)

\* A frame is skipped only if the buffer overran, or if pixels that look like
\* JSON made its line unreadable.
NoGaps ==
  (~overran /\ \A i \in 1..NumPixels : looks[i] # "json") => \A n \in 1..Len(published) : published[n].frame = n

\* If Serval's headers arrive in segments of their own, the framing is exact:
\* the frames processed are those sent, pixel by pixel, with nothing left over.
SeparateIsExact ==
  ~together =>
    \A n \in 1..Len(published) : published[n] = [frame |-> n, before |-> 0, pixels |-> Pixels(n)]

\* ... and every one of them is processed in the end.
SeparateIsComplete == ~together ~> Len(published) = NumFrames
==============================================================================
