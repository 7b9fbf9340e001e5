----------------------------- MODULE Accumulation -----------------------------
(***************************************************************************)
(* What the Img and the PrvHst channel accumulate from their frames: the   *)
(* running sum, the total of counts, and the sum of the last N frames.     *)
(* processImgFrame with its reset and push (serval_stream.cpp),            *)
(* processPrvHstFrame (histogram_io.cpp) with its own (ADTimePix.cpp), and *)
(* the parameters that writeInt32 changes under the channel's mutex.       *)
(*                                                                         *)
(* The worker processes a whole frame under the mutex, which it takes      *)
(* around the line; the port thread takes it for each write, and twice for *)
(* ImgFramesToSum. The two channels differ only in what the code treats    *)
(* differently; the behaviours of each are those with its channel.         *)
(*                                                                         *)
(* One pixel (or bin) stands for all of a frame: its counts. A sum of N    *)
(* frames is kept as the set of the frames that were added.                *)
(***************************************************************************)
EXTENDS Integers, Sequences, FiniteSets, SequencesExt

CONSTANTS
  MaxFrames,    \* frames received, at most
  Sizes,        \* pixels, or bins, of a frame
  Counts,       \* values of a pixel
  MaxSum,       \* UINT64_MAX: what a 64-bit sum can hold
  MaxWritten    \* values written to FramesToSum and SumUpdateInterval

ASSUME AccumulationAssumption ==
  /\ MaxFrames \in Nat /\ MaxSum \in Nat /\ MaxWritten \in Nat \ {0}
  /\ Sizes \subseteq Nat \ {0} /\ Sizes # {}
  /\ Counts \subseteq 0..MaxSum /\ Counts # {}

VARIABLES
  channel,       \* "Img" or "PrvHst"
  framesToSum, interval,
  running,       \* the running sum, or NoSum
  total,         \* the total of counts
  frameCount,    \* frames in the running sum, what an average divides it by
  buffer,        \* the last frames
  since,         \* frames since the sum of N was last computed
  sumBuffer,     \* the frames in SumArray64Buffer_, and its length
  array,         \* the last sum of N that plugins were given: a frame's, or a push
  shown,         \* the sum of N behind the waveform PV
  copying,       \* what a write of ImgFramesToSum has still to publish
  received,      \* every frame received so far
  resetAt,       \* how many of them came before the last reset
  sizeAt         \* how many of them came before the last change of their size

settings == <<channel, framesToSum, interval>>
sums == <<running, total, frameCount, buffer, since, sumBuffer>>
history == <<received, resetAt, sizeAt>>
vars == <<settings, sums, array, shown, copying, history>>

NoSum == [size |-> 0, sum |-> 0]
NoCopy == [stage |-> "none", size |-> 0, frames |-> {}]
NoArray == [size |-> 0, frames |-> {}, over |-> 0]
Frames == [id : 1..MaxFrames, size : Sizes, counts : Counts]
Arrays == [size : Sizes \cup {0}, frames : SUBSET Frames, over : 0..MaxFrames]

\* The variables keep their types, and the buffer its bound.
TypeOK ==
  /\ channel \in {"Img", "PrvHst"}
  /\ framesToSum \in 1..MaxWritten /\ interval \in 1..MaxWritten
  /\ running \in [size : Sizes, sum : 0..MaxSum] \cup {NoSum}
  /\ total \in 0..MaxSum /\ frameCount \in 0..MaxFrames
  /\ buffer \in Seq(Frames) /\ Len(buffer) <= framesToSum
  /\ since \in 0..(MaxFrames + MaxWritten)
  /\ sumBuffer \in [frames : SUBSET Frames, room : Sizes \cup {0}]
  /\ array \in Arrays
  /\ shown \subseteq Frames
  /\ copying \in [stage : {"none", "copy", "show"}, size : Sizes \cup {0}, frames : SUBSET Frames]
  /\ received \in Seq(Frames) /\ resetAt \in 0..MaxFrames /\ sizeAt \in 0..MaxFrames

Init ==
  /\ channel \in {"Img", "PrvHst"}
  /\ framesToSum = MaxWritten /\ interval = 1
  /\ running = NoSum /\ total = 0 /\ frameCount = 0
  /\ buffer = <<>> /\ since = 0
  /\ sumBuffer = [frames |-> {}, room |-> 0]
  /\ array = NoArray /\ shown = {}
  /\ copying = NoCopy
  /\ received = <<>> /\ resetAt = 0 /\ sizeAt = 0

-----------------------------------------------------------------------------
\* Mutant: the overflow of the running sum is not noticed.
AddWraps(sum, counts) == (sum + counts) % (MaxSum + 1)

\* add_image and add_histogram: a sum that would overflow stays at its maximum.
AddCounts(sum, counts) ==
  LET new == (sum + counts) % (MaxSum + 1) IN IF new < sum THEN MaxSum ELSE new

\* Mutant: one frame more than was asked for.
NewestAndOneMore(frames, n) ==
  SubSeq(frames, IF Len(frames) > n + 1 THEN Len(frames) - n ELSE 1, Len(frames))

\* The frames that a buffer of n keeps.
Newest(frames, n) ==
  SubSeq(frames, IF Len(frames) > n THEN Len(frames) - n + 1 ELSE 1, Len(frames))

\* The frames that are added up: those of the size of the oldest one.
Summed(frames) == {f \in ToSet(frames) : f.size = frames[1].size}

\* The work buffer and the sum buffer only grow.
SumOf(frames) ==
  [frames |-> Summed(frames),
   room |-> IF frames[1].size > sumBuffer.room THEN frames[1].size ELSE sumBuffer.room]

\* Mutant: the new buffer is added up before the new frame is in it.
AddToSumTooEarly(f, older, n) ==
  IF n >= interval /\ older # <<>>
  THEN /\ sumBuffer' = SumOf(older) /\ since' = 0 /\ shown' = sumBuffer'.frames
       /\ array' = [size |-> f.size, frames |-> shown', over |-> Cardinality(shown')]
  ELSE UNCHANGED <<sumBuffer, shown, array>> /\ since' = n

\* The array of a new sum has the size of the new frame; the sum buffer must be
\* as long, and the pool must have an array to give.
StreamSum(f) ==
  \/ /\ sumBuffer'.room >= f.size
     /\ array' = [size |-> f.size, frames |-> shown', over |-> Cardinality(shown')]
  \/ UNCHANGED array

\* The n-th frame since the sum of N was computed: it may be due again.
AddToSum(f, older, n) ==
  IF n >= interval
  THEN /\ sumBuffer' = SumOf(buffer') /\ since' = 0 /\ shown' = sumBuffer'.frames
       /\ StreamSum(f)
  ELSE UNCHANGED <<sumBuffer, shown, array>> /\ since' = n

\* A frame of another size starts the running sum again. PrvHst then also
\* empties its buffer and counts anew towards the next sum; Img keeps both.
Resized(f) == running # NoSum /\ running.size # f.size
Before(f) ==
  LET emptied == Resized(f) /\ channel = "PrvHst"
  IN  [sum    |-> IF Resized(f) THEN 0 ELSE running.sum,
       total  |-> IF Resized(f) THEN 0 ELSE total,
       count  |-> IF Resized(f) THEN 0 ELSE frameCount,
       buffer |-> IF emptied THEN <<>> ELSE buffer,
       since  |-> IF emptied THEN 0 ELSE since]

\* processImgFrame, processPrvHstFrame.
Process(f) ==
  LET before == Before(f)
  IN  /\ Len(received) < MaxFrames /\ f.id = Len(received) + 1
      /\ received' = Append(received, f)
      /\ sizeAt' = IF Resized(f) THEN Len(received) ELSE sizeAt
      /\ running' = [size |-> f.size, sum |-> AddCounts(before.sum, f.counts)]
      /\ total' = (before.total + f.counts) % (MaxSum + 1)
      /\ frameCount' = before.count + 1
      /\ buffer' = Newest(Append(before.buffer, f), framesToSum)
      /\ AddToSum(f, before.buffer, before.since + 1)
      /\ UNCHANGED <<settings, copying, resetAt>>

\* Mutant: an Img reset frees the sum buffer, as a PrvHst reset does.
ResetImgFreesSum ==
  /\ channel = "Img"
  /\ running' = NoSum /\ buffer' = <<>> /\ total' = 0 /\ frameCount' = 0 /\ since' = 0
  /\ sumBuffer' = [frames |-> {}, room |-> 0]
  /\ resetAt' = Len(received) /\ sizeAt' = Len(received)
  /\ UNCHANGED <<settings, shown, array, copying, received>>

\* Mutant: an Img reset leaves the frame buffer.
ResetImgKeepsBuffer ==
  /\ channel = "Img"
  /\ running' = NoSum /\ total' = 0 /\ frameCount' = 0 /\ since' = 0
  /\ resetAt' = Len(received) /\ sizeAt' = Len(received)
  /\ UNCHANGED <<settings, buffer, sumBuffer, shown, array, copying, received>>

\* resetImgAccumulation: the reset button on the port thread, or acquireStop,
\* which may run on the callback thread at any time. The sum of N stays.
ResetImg ==
  /\ channel = "Img"
  /\ running' = NoSum /\ buffer' = <<>> /\ total' = 0 /\ frameCount' = 0 /\ since' = 0
  /\ resetAt' = Len(received) /\ sizeAt' = Len(received)
  /\ UNCHANGED <<settings, sumBuffer, shown, array, copying, received>>

\* Mutant: a PrvHst reset leaves the frame buffer.
ResetPrvHstKeepsBuffer ==
  /\ channel = "PrvHst"
  /\ running' = NoSum /\ total' = 0 /\ frameCount' = 0 /\ since' = 0
  /\ sumBuffer' = [frames |-> {}, room |-> 0] /\ shown' = {}
  /\ resetAt' = Len(received) /\ sizeAt' = Len(received)
  /\ UNCHANGED <<settings, buffer, array, copying, received>>

\* resetPrvHstAccumulation: only the button. The sum of N is freed, and the
\* waveform PV shows zeros.
ResetPrvHst ==
  /\ channel = "PrvHst"
  /\ running' = NoSum /\ buffer' = <<>> /\ total' = 0 /\ frameCount' = 0 /\ since' = 0
  /\ sumBuffer' = [frames |-> {}, room |-> 0] /\ shown' = {}
  /\ resetAt' = Len(received) /\ sizeAt' = Len(received)
  /\ UNCHANGED <<settings, array, copying, received>>

-----------------------------------------------------------------------------
\* writeInt32. The port thread does one write after the other.
PortIsFree == copying = NoCopy

\* Values below 1 are written as 1; the upper limits are not reached here.
AtLeastOne(value) == IF value < 1 THEN 1 ELSE value

\* ImgFramesToSum adds the buffer up again, so that the next frame does, too;
\* it publishes the sum after it has released the mutex.
WriteImgFramesToSum(value) ==
  /\ channel = "Img" /\ PortIsFree
  /\ framesToSum' = AtLeastOne(value)
  /\ buffer' = Newest(buffer, framesToSum')
  /\ IF buffer' # <<>>
     THEN /\ sumBuffer' = SumOf(buffer') /\ since' = interval
          /\ copying' = [stage |-> "copy", size |-> buffer'[1].size, frames |-> {}]
     ELSE UNCHANGED <<sumBuffer, since, copying>>
  /\ UNCHANGED <<channel, interval, running, total, frameCount, array, shown, history>>

\* It takes the mutex again to copy the sum it has computed ...
CopySum ==
  /\ copying.stage = "copy"
  /\ copying' = [copying EXCEPT !.stage = "show", !.frames = sumBuffer.frames]
  /\ UNCHANGED <<settings, sums, array, shown, history>>

\* ... and calls the waveform's callbacks without it.
ShowCopy ==
  /\ copying.stage = "show"
  /\ shown' = copying.frames /\ copying' = NoCopy
  /\ UNCHANGED <<settings, sums, array, history>>

\* PrvHstFramesToSum trims the buffer and leaves the sum for the next frames.
WritePrvHstFramesToSum(value) ==
  /\ channel = "PrvHst"
  /\ framesToSum' = AtLeastOne(value)
  /\ buffer' = Newest(buffer, framesToSum')
  /\ UNCHANGED <<channel, interval, running, total, frameCount, since, sumBuffer,
                 array, shown, copying, history>>

\* SumUpdateInterval; PrvHst counts from this write.
WriteInterval(value) ==
  /\ PortIsFree
  /\ interval' = AtLeastOne(value)
  /\ since' = IF channel = "PrvHst" THEN 0 ELSE since
  /\ UNCHANGED <<channel, framesToSum, running, total, frameCount, buffer, sumBuffer,
                 array, shown, copying, history>>

\* pushProcessedImgToPlugins, pushProcessedHstToPlugins: the sum of N as it
\* is, and the number of frames an average divides it by, if there is a running
\* sum, a frame in the buffer, and an array in the pool.
Push ==
  /\ PortIsFree
  /\ running # NoSum /\ buffer # <<>> /\ sumBuffer.room >= running.size
  /\ array' = [size |-> running.size, frames |-> sumBuffer.frames, over |-> Len(buffer)]
  /\ UNCHANGED <<settings, sums, shown, copying, history>>

Next ==
  \/ \E f \in Frames : Process(f)
  \/ ResetImg \/ ResetPrvHst
  \/ \E value \in 0..MaxWritten :
       \/ WriteImgFramesToSum(value) \/ WritePrvHstFramesToSum(value)
       \/ WriteInterval(value)
  \/ CopySum \/ ShowCopy \/ Push

Spec == Init /\ [][Next]_vars

-----------------------------------------------------------------------------
\* The counts of all frames of a sequence.
TotalCounts(frames) ==
  LET upTo[n \in 0..Len(frames)] == IF n = 0 THEN 0 ELSE upTo[n - 1] + frames[n].counts
  IN  upTo[Len(frames)]

\* The frames since the later of the last reset and the last change of size.
Current == SubSeq(received, sizeAt + 1, Len(received))

\* The running sum, the total and the count that averages divide by belong to
\* the same frames, whatever resets and changes of size come between: those
\* since the last of them, all of them and no other. A sum that no longer fits
\* stays at its maximum, while the total wraps around.
RunningIsHistory ==
  LET counts == TotalCounts(Current)
  IN  /\ frameCount = Len(Current)
      /\ total = counts % (MaxSum + 1)
      /\ IF Current = <<>> THEN running = NoSum
         ELSE running = [size |-> received[Len(received)].size,
                         sum |-> IF counts > MaxSum THEN MaxSum ELSE counts]

\* However FramesToSum changes, the buffer holds the newest frames without a
\* gap, none from before a reset and, in PrvHst, none of another size.
BufferIsNewest ==
  /\ buffer = SubSeq(received, Len(received) - Len(buffer) + 1, Len(received))
  /\ Len(received) - Len(buffer) >= (IF channel = "Img" THEN resetAt ELSE sizeAt)

\* A write of ImgFramesToSum releases the mutex between the moment it computes
\* the sum and the moment it copies it: the sum buffer it then reads is still
\* long enough, whatever a worker or a stop on the callback thread has done.
CopyStaysInBounds == copying.stage = "copy" => sumBuffer.room >= copying.size

\* A PrvHst reset clears the sum of N on the waveform PV at once, and no frame
\* from before the reset, or of another size, is ever added to it again.
ShownIsCurrent ==
  channel = "PrvHst" =>
    \A f, g \in shown : f.id > resetAt /\ f.size = g.size

\* README.md:60: a sum of the last N frames that is streamed to plugins is the
\* sum of a run of frames that ends with the newest, N at most, all of them
\* since the last reset, unless frames of two sizes lie in the buffer.
StreamedStep ==
  [][(array' # array /\ received' # received) =>
       LET n == Cardinality(array'.frames)
           m == Len(received')
       IN  (\A f \in ToSet(buffer') : f.size = array'.size) =>
             /\ n \in 1..framesToSum /\ m - n >= resetAt'
             /\ array'.frames = ToSet(SubSeq(received', m - n + 1, m))]_vars

\* RELEASE.md:166: the average that WriteProcessed pushes to plugins is the sum
\* of N divided by the number of frames in that sum.
PushedIsMean == Cardinality(array.frames) = array.over
=============================================================================
