# A TLA+ development for ADTimePix3

ADTimePix3 is an EPICS areaDetector driver for Timepix3 and Medipix3 detectors.
It does not talk to a detector: it configures and starts **Serval**, the
vendor's HTTP server, and receives images and histograms from it over TCP. This
directory holds TLA+ models of the driver, the TLC runs that check them, and
proofs that TLAPS checks. All paths below are relative to the repository;
`x.cpp` without a directory is `tpx3App/src/x.cpp`.

## The system

| Component | Where | State | Operations | Model |
|---|---|---|---|---|
| Acquisition life cycle | `acquire.cpp` | `ADAcquire`, `acquiring`, `callbackThreadId`, and for each channel a thread id, a `Running_` and a `Connected_` flag | `acquireStart`, `acquireStop`, `timePixCallback` | `Acquisition` |
| Channel workers | `serval_stream.cpp`, `histogram_io.cpp`, `network_client.cpp` | network client, line buffer, channel mutex | `runPreviewTcpWorker`, `imgWorkerThread`, `prvHstWorkerThread`, connect, disconnect | `Acquisition` (threads), `StreamFraming` (bytes) |
| Threshold pairing | `serval_stream.cpp` | two NDArrays, `t1Ready`, `t0Orphan`, the last frame numbers | end of `processPreviewJsonimageLine`, `emitPreviewThresholdDiff` | `ThresholdPairing` |
| Accumulation | `serval_stream.cpp`, `histogram_io.cpp`, `img_accumulation.cpp`, `ADTimePix.cpp` | running sum, total, frame buffer, sum buffer | `processImgFrame`, `processPrvHstFrame`, resets, pushes, writes of the parameters | `Accumulation` |
| Preview ports | `acquire.cpp`, `ADTimePix.cpp` | path parameters, worker endpoints, what Serval was told | `ensurePreviewTcpPortsFree`, `syncTcpStreamEndpoints`, the retry of `acquireStart`, `fileWriter` | `PreviewPorts` |
| Connection poll | `serval_http.cpp` | connection and status parameters, last connection seen, detector settings | `checkConnection`, `connectionPollThread`, `refreshOnReconnect`, `initAcquisition`, `getDetector`, `getServer` | `Reconnect` |
| Detector and measurement configuration | `serval_http.cpp`, `ADTimePix.cpp` | the settings as parameters; Serval's documents | writes of the settings, `initAcquisition`, `getDetector`, `getMeasurementConfig`, `sendMeasurementConfig`, `writeDac`, `uploadDACS` | `DetectorConfig` |
| Detector family | `detector_family.cpp` | the family | `detectDetectorFamily`, `applyFamilyDefaults` | `DetectorConfig` |
| Channel configuration | `serval_http.cpp`, `ADTimePix.cpp` | `Write*`, `*Base`, `*Stream` and the formats; Serval's destination | `fileWriter`, `configure*Channel`, `checkChannelPath`, `getServer` | `Channels` |
| Masks, coordinate map | `mask_io.cpp`, `serval_http.cpp` | the waveforms `MaskBPC` and `PixelConfigDiff`, BPC files, `BPCFileName`; Serval's pixel configuration | shapes, read, write, upload, compare, export, `pelIndex`, `bpc2ImgIndex`, `rotateLayout` | `Masks`, without Medipix3's files |
| Construction, shutdown | `ADTimePix.cpp` | all of it | constructor, `shutdownPortDriver`, destructor | `Shutdown`; construction is every module's Init |
| Database, screens, IOC scripts | `tpx3App/Db`, `tpx3App/op`, `iocs` | records | – | no |
| Vendored libraries | `tpx3Support` | – | – | no |

**Interactions.** The *asyn port thread* executes every write of a parameter and
holds the port lock for the whole of it, sleeps and HTTP requests included. The
*callback thread* of an acquisition polls `GET /measurement` and, when it sees
`DA_IDLE`, calls `acquireStop` itself, without the port lock. The *connection
poll thread* asks for the dashboard every five seconds and pushes the
configuration after a reconnection, also without the port lock. Each *worker*
reads one TCP stream and holds its channel's recursive mutex during `recv()` and
while it processes a frame. The threads share the parameter library, the flags
and thread ids of the driver object (mostly read without any lock), the channel
mutexes, and Serval.

**What is hard.** Four kinds of thread with no common lock; `acquireStop` run by
two of them; a blocking `recv()` under a mutex; joins of threads that others may
join; byte streams that may be cut anywhere; sums computed under a mutex and
published after it; three copies of each port number; a server that may restart
between any two requests and whose settings are read back into the parameters
that define them. `PROJECT.json` lists these hazards, each at its line.

**What makes each component correct.**

* *Acquisition*: no thread is joined twice, no client is deleted under its
  reader, one reader for each stream if one thread stops, nothing left when Acquire is off, writes
  return.
* *Framing*: frames in order and once, their own pixels in place, none missing
  without a reason.
* *Pairing*: a difference image belongs to one trigger; every pair is shown.
* *Accumulation*: a sum is the sum of the frames it is said to be of.
* *Ports*: workers connect where Serval listens; the retry achieves something.
* *Reconnection*: after it, Serval has the settings `initAcquisition` makes of the
  parameters, and the status is right.
* *Detector configuration*: settings reach Serval together or not at all, in
  combinations the detector accepts; what is not being set stays.
* *Channels*: Serval has the channels that were applied, or those it had.
* *Masks*: the pixels masked are those asked for, through every conversion
  between image, waveform, file and Serval.
* *Shutdown* by asyn: nothing that uses the driver outlives it.

## The modules

A definition has the name of the code it models where there is one;
`PROJECT.json` gives the lines of every definition. Definitions commented
`Mutant` are plausible mistakes in the definition that follows them. They are
used nowhere in the specifications; a property is credited only if putting its
mutant in place makes TLC report it violated.

**`Acquisition`.** The state is that of the driver object plus a program counter
for each thread. `pc[Port]` and `pc[c]` run through the same labels for
`acquireStop`, because it is the same function: *stopBegin, testCallback,
joinCallback, joiningCallback, clearCallback*, then for the channels *signal*, then
*join, read, call, joining, clear*, then *disconnect*, then *stopMeasurement,
finish*. `acquireStart` uses *signal … disconnect* for
the cleanup of the earlier acquisition and of a failed start (`mode`), then
*prepare, ports, launch, create, arm, spawn*. A worker is at *loop, connecting,
check, recv, got, body, closed, exit*. Steps are split where another thread can
see the difference: at each lock, join, sleep and request, and at each access to a
thread id. The test of an id, the read of it for the join, the call, the return and
the store of NULL are five steps, so that an id may be NULL at the second read, or
be that of a new worker when NULL is stored. Two abstractions: the test of
`callbackThreadId` against NULL and against the caller itself is one step, and
`*Disconnect` clears the flag and deletes the client in one.
`ADStatus` is left out because the connection poll overwrites it.
PrvHst, the last channel, is treated by the code differently from the others
(its id is cleared before it is joined, it does not connect while it is not
running), and so it is here. `MCAcquisition` only gives TLC the thread ids.

**`FrameOrder`, `StreamFraming`.** `FrameOrder` is what a stream promises to the
code behind it: frames in order, each at most once, some perhaps missing.
`StreamFraming` is the receive loop over a stream of tokens (JSON, line end,
pixels) with a buffer of bounded size, and implements it. The bytes behind the
received part of the reused line buffer, which the loop may copy as pixels, are what
earlier calls of `recv()` left there; they are one token, `Remnant`. What pixels look like
(nothing, a line end, JSON) is fixed for a behaviour: the scene does not change.

**`ThresholdPairing`.** Messages arrive as `FrameOrder` allows, possibly with
losses; for each message the module does what the code does with its two flags
and its restart heuristic. An NDArray is the trigger and the frame number of its
image.

**`Accumulation`.** A frame is its size and the value of one pixel. A sum of N
is kept as the set of the frames added (each has a number, so none is there
twice), so that properties can compare it with `received`, the history. Img and PrvHst are the two values of `channel`:
the code for them differs, and every difference is a case here.

**`PreviewPorts`.** Port rotation channel by channel, its push, the start and
the one forced retry, with other programs taking and leaving ports and the poll
thread pushing paths it read earlier.

**`Reconnect`.** The poll thread and the port thread run the same requests
(`GetDashboard`, `GetConfig`, `PutConfig`, `GetDetector`, …), one step to send and
answer each and another to write parameters from the answer, so that answers can
be stale. The detector settings are two values, Tdc0 and Tdc1 on the one hand and
all others on the other, because `getDetector` writes only the latter back; Serval
has its own. What `initAcquisition` makes of the settings is given by constants:
what it sends for them (`Sent`), what it first changes them to on Medipix3
(`Noted`), and those it refuses there (`Refused`). The answers of a Medipix3's
Serval may lag a PUT (`Lagging`, `CatchUp`), as the comment at serval_http.cpp:2675
says; this is in `Reconnect` only, not in `DetectorConfig`. `MCReconnect` gives the
constants for TLC.

**`Shutdown`.** Extends `Acquisition` with asyn's teardown of a destructible port at
the exit of the IOC. asyn then lets no more writes in, and the thread that tears
down takes the place of the port thread (`mode` is then `"exit"`): `ShutDown` begins what `acquireStop`
begins, at any time between two writes, and the steps that follow are those of
`acquireStop` and of a failed start, because the code repeats them. The other way
out, `exitCallbackC`, which deletes the driver without a lock when asyn does not know
`ASYN_DESTRUCTIBLE`, is not modelled, and nothing here holds of it (see below).

**`DetectorConfig`.** A write is put into its parameter, adjusted or refused
(`WriteSetting`, `Adjust`), and pushed by `initAcquisition`, one step for each
group of parameters it reads, one for each request. The poll thread pushes and
reads back the same way after an outage. Serval keeps a detector configuration,
a measurement configuration and two DACs of a chip. Times are small numbers of a
pause; of the settings that are passed through, only number of images and gain
are here. `clean`, `torn` and `failed` record whether the other thread or a
failed request has come between.

**`Channels`.** `fileWriter` goes through the channels in its order; for each it
reads the *Stream, then the Base, then the format. A write of a Base is two
steps, as in the code, so that the poll thread can see it half done. Bases are
the kinds the code tells apart.

**`Masks`.** The index arithmetic is translated as it is, for chips of W by W
pixels, with the table it fills (`Pel`) computed once. A file is a set of masked
bytes, a waveform a set of elements, Serval's pixel configuration a set of bytes.
A calibration may have fewer chips than the detector; a rectangle may begin left of
the image or above it, which the code does not refuse. `view` (history) turns with the layout, and says which pixels a reader of the
mask is to see.

The modules meet at their interfaces: `StreamFraming` implements the `FrameOrder`
that `ThresholdPairing` and `Accumulation` assume of their input; `Acquisition`
takes a frame as one step, under the mutex; `PreviewPorts` is the part of
`acquireStart` that `PortsFree` and `NoPortsFree` of `Acquisition` stand for; the
refresh of `Reconnect`, whose settings are two values, pushes what `DetectorConfig`,
`Channels` and `Masks` take apart, and `PutFiles` there is the push of `Channels` and
`PreviewPorts`.

## The runs

| Run | States | What it shows |
|---|---|---|
| `acq_continuous` | 133 thousand | With acquisitions ended by the port thread or by asyn's shutdown: one reader for a stream, no thread is joined twice or lost, nothing of an acquisition is left when it is off but one late frame in a reset sum, streams are closed before Serval stops, no thread and no stream is left when the driver may be deleted, and every write returns. |
| `acq_self_ending` | 569 thousand | With Serval ending measurements too, so that two threads run `acquireStop` and may lose a worker's id: still no connection without a reader. |
| `acq_joins` | violation | ... but two threads may join one worker. |
| `framing` | 4 thousand | The properties of framing above, for headers that come alone, and the refinement of `FrameOrder`. |
| `pairing` | 74 thousand | Pairs belong to one trigger unless a trigger's first message is lost; what waits is there and not older than the other threshold's array; every pair is shown. |
| `accumulation` | 426 thousand | Running sum, total, buffer, sum of N and both resets agree with the history. |
| `accumulation_push` | violation | A pushed average may divide by the wrong number of frames. |
| `ports` | 4.1 million | Distinct ports after the forced rotation, one retry enough in calm conditions, agreement at the start. |
| `reconnect` | 439 thousand | An undisturbed refresh brings Serval to what `initAcquisition` makes of the parameters, and these to Serval's; status and settings converge when Serval stays up, but for Tdc0 and Tdc1. |
| `masks` | 1.2 million | The tables of all layouts are rotations of each other; what is masked is what was drawn or read, however the layout turned since; codes and difference image agree; the export lists the mask. |
| `detector_config` | 1.1 million | An undisturbed push never combines what Medipix3 excludes; a write is sent whole or refused; periods fit their exposures in every interleaving; other parts of the documents are kept. |
| `channels` | 907 thousand | After a write or a refresh Serval has what is configured, or what it had; Bases and formats fit whatever is written meanwhile. |

**Bounds.**

* `Acquisition`: two channels suffice to have the two kinds of channel (an image
  channel and PrvHst) and an order among them; three worker ids, two of them of
  one channel, let a new worker meet an old one; two callback ids let a new
  callback thread meet the old one. `acq_self_ending` has one callback id and two
  workers, both of the image channel, and does not count frames: more is beyond TLC
  there, and the theorem about its property holds for any number. `FrameCap` 2
  distinguishes none, one, and more late frames.
  Symmetry is over worker ids of one channel, in runs without liveness.
* `StreamFraming`: five frames of three pixels with a buffer of five tokens, so
  that the buffer can overrun and one `recv()` can span parts of two frames.
* `ThresholdPairing`: three triggers and one restart; a reset distance of 1
  instead of 10 makes restarts that are noticed and restarts that are not.
* `Accumulation`: four frames, sizes 1 and 2, `FramesToSum` up to 3; counts of 2
  with a maximum of 3 overflow at the second frame.
* `PreviewPorts`: two channels on four ports, one of them contested: a rotation
  can collide with the other channel, run out of ports, and still succeed.
* `Reconnect`: of the settings that are read back a default, a plain value, and a
  clash (continuous mode with BothCounters and a period of its own), which a Medipix3
  refuses and a Timepix3 gets with another period; two values of the Tdcs. Two of the
  combinations are written. Answers lag on Medipix3. The change of PixelDepth
  (`Noted`) is covered by the proofs only.
* `Shutdown`: no bound of its own; a shutdown may follow a shutdown
  (`shutdownPortDriver`, then the destructor) and finds nothing left to do.
* `DetectorConfig`: for each setting a value or two beside the default, some of
  them refused, out of range or in conflict with another; two writes, one outage (with its refresh) and one
  failed request. A conflict needs two writes: one for each setting. (Three
  writes hold as well, but take near five minutes.)
* `Channels`: two raw channels and an image channel, in all initial choices of
  enable, Base and format that the module has; two writes, an outage, a failure.
* `Masks`: chips of two by two pixels tell rows from columns and all eight ways to
  lie; one, four and eight chips are the mosaics the code knows, with a calibration of
  all chips of a mosaic or of one, of no bad pixel or two. Two operations
  (shapes, rotations, comparisons, uploads) beside any number of reads and writes
  of files; one chip without an answer.

`CHECK_DEADLOCK FALSE` stands in `framing` (the stream ends), in
`acq_self_ending` and `acq_joins` (a thread suspended by `cantProceed` stops for
good), and in `masks`,
`detector_config` and `channels` (their bounds end them). Everywhere else TLC
checks that something can always happen.

**Fairness.** Threads of the IOC are scheduled (weak fairness). `acquireStop`
competes for mutexes that workers release between calls: strong fairness, as
the mutex is a fair enough lock on the supported systems. Serval's fairness is a
separate assumption (`ServalFairness`: every connection that is read gets data
or is closed), because the code depends on it and does not enforce it: `recv()`
has no timeout. Without it, a silent Serval makes the stop hang. In `Reconnect` the poll's wait times out
and a write that has begun is finished, and Serval's answers catch up with a PUT
(weak fairness); Health is written again
and again (strong fairness: the port thread may be busy at times), as
`tpx3App/Db/ADTimePix3.template:92` scans it every second.

## Where the code and its documents disagree

Two runs show one; `PROJECT.json` quotes the documents.

1. *`acq_joins`*: the callback's `acquireStop` races the port thread's.
2. *`accumulation_push`*: stale sum, present count.

Met while modelling, without a run of their own. The models follow the code, and
the properties say what holds in spite of it.

*Acquisition and shutdown.*
- Silence of Serval: `acquireStop` waits for a mutex held in `recv()`
  (acquire.cpp:926), though RELEASE.md:81 says that it no longer hangs after
  preview histograms.
- A late store of NULL loses a worker's id (acquire.cpp:974-977): the callback thread
  finds an id, then reads NULL for its join, which returns at once, while the port
  thread clears the id and spawns the next worker; then the callback stores NULL over
  that worker's id. A later start spawns a second reader beside it. `OneReader` fails
  with `SelfEnding` TRUE and is a property of `acq_continuous` only.
- A worker that `acquireStart` spawns after the callback's `acquireStop` has passed
  its channel outlives the acquisition.
- README.md:47 and RELEASE.md:232 give the order of a stop as Serval first,
  acquire.cpp:923 the reverse.
- Where a measurement ends by itself, `acquireStop` on the callback thread clears
  `callbackThreadId`, and the shutdown (ADTimePix.cpp:2023) does not wait for that
  thread. `DownIsQuiet` fails with `SelfEnding` TRUE. The shutdown does not tell
  Serval to stop either.
- Without `ASYN_DESTRUCTIBLE` the driver registers `exitCallbackC` with `epicsAtExit`
  (ADTimePix.cpp:91-94, 1920-1927), though README.md:539 says that it registers
  nothing there. The callback deletes the driver without a lock, perhaps in the middle
  of a write, which then uses what is gone. No property covers that exit.

*Streams.*
- Bytes before a header make the count of pixel bytes too large
  (serval_stream.cpp:175, 988, histogram_io.cpp:308): as many bytes from behind the
  received part are shown in the middle of the image, and the rest of its pixels
  comes later by that much. The line buffer is used again and again (611), so these
  are pixels or headers of earlier frames, although the comment at 988 speaks of data
  "we already have". `PixelsInPlace` says where they are.
- A T0 and a T1 are paired by order of arrival, so one lost first message shifts
  the pairs that follow until a message is lost again or the measurement restarts; a
  restart whose first frame numbers are not noticed as one lets a waiting T1 of the
  earlier measurement meet a T0 of the new one.
- Comments say that callbacks to plugins happen outside the mutex
  (serval_stream.cpp:1440, histogram_io.cpp:580), while the worker holds the
  recursive channel mutex around the whole line.

*Connection.*
- Health reads a restarted Serval's defaults into the parameters before the refresh
  pushes them (serval_http.cpp:289; README.md:147 promises the settings again).
- `sendConfiguration` is commented "with retry logic" (serval_http.cpp:2178) and has
  none; a push that fails after a port rotation, and a refresh whose requests
  failed, are not repeated.
- `getServer` sets `DetConnected` on any answer from Serval, detector or not.
- Settings that `initAcquisition` adjusts or refuses are lost in a refresh, because
  `getDetector` reads Serval's back (serval_http.cpp:2514-2519, 2527-2544, 2624-2631,
  1441), although README.md:147 says that they stay.
- Where answers lag a PUT, for which reason serval_http.cpp:2675 does not read back,
  `refreshOnReconnect` (287-289) reads back all the same.
- Tdc0 and Tdc1 are pushed (2582-2598) but not read back (1446): after a refresh that
  failed they differ from Serval's until they are written again.
- On a first contact `initAcquisition` reads all settings from Serval before it
  sends them back (serval_http.cpp:2501).
- README.md:148 says that BPC and DACS files are not loaded again on reconnection;
  `refreshOnReconnect` loads them.

*Detector configuration.*
- The poll thread's push can mix settings of before and after a write.
- A refused PixelDepth sets the parameter to 12, whatever Serval has; a failed push
  on Timepix3 returns success.
- `sendMeasurementConfig` drops the other parts when its GET fails, though
  serval_http.cpp:2258 says they are preserved.
- A clamped TriggerPeriod is not written back to AcquirePeriod; read back in
  continuous mode, it replaces the operator's period.
- While the family is unknown, keys of Timepix3 go to a Medipix3.
- `writeDac` can overwrite what a concurrent `uploadDACS` has loaded.

*Channels.*
- Without an enabled channel `fileWriter` returns success and sends nothing, so that
  the last channel cannot be switched off (README.md:153 says that the parameters
  are applied).
- A channel 1 alone makes an array with a null element 0, which `getServer` reads as
  channel 0 on.
- README.md:157 gives `WriteData` and `ApplyConfig` the same effect; after a failed
  push `WriteData` goes on to `getServer` and returns its status, `ApplyConfig` stops.
- `Write*_RBV` keep their values when Serval restarts; a Base of at most six
  characters leaves the earlier `*Stream`; `writeOctet` drops the status of the
  path check.

*Masks.*
- `bpc2ImgIndex` of a LEFT layout of four chips differs from `pelIndex`
  (COORDINATE_MAP.md:118 says so), and decodes with the stride `cols` where that
  document says the mosaic's. Strides of rows and columns are used for each other in
  places; they are equal on square mosaics, which the properties are about.
- For a chip above 3 `bpc2ImgIndex` overwrites the -1 it has just set;
  `serValLinear` and `pixelConfigDiff_` hold four chips.
- Without a BPC file `PixelConfigDiff` keeps the image of an earlier comparison.
- A reconnection uploads `BPCFileName`, not the mask written last; during
  `writeMaskBPC` the poll thread can see its temporary name.
- A failed `rotateLayout` leaves the parameter different from Serval until
  `getDetector`; `readInt32Array` ignores the status of `writeBPCfile`.

## The proofs

`AcquisitionProofs` (any number of channels, callback threads and workers, both
values of `SelfEnding`; from `ConstantsAssumption`):

* `TypeCorrect`: `Spec => []TypeOK`, one lemma for each group of actions.
* `ConnectedHasReaderHolds`: `Spec => []ConnectedHasReader`. A connection is made
  by a live worker and undone before that worker is gone, whether or not its id is
  remembered.

Its second part is about `Shutdown` (any number of channels, threads and
callbacks; as `ShutdownSpec` extends `Spec`, this is about acquisitions, too). The five
theorems assume `SelfEnding = FALSE`: no measurement ends by itself, so that the
port thread alone tears down. "Where the code and its documents
disagree" says what is different otherwise, and the runs `acq_self_ending` and `acq_joins` show it.

* `OneReaderHolds`, `NoThreadLostHolds`, `OffIsQuietHolds`, `ClosedBeforeStopHolds`,
  `DownIsQuietHolds`. None is inductive: what is true at the end of a stop depends
  on which of its labels has passed which channel. Beside the types and
  `ConnectedHasReader` the invariant has three parts. `Callback`: a callback thread
  only polls, and is the one remembered, until the port thread has joined it.
  `Tearing`: a live worker is remembered by its channel, or the port thread has its
  id in hand to join it (`Remembered`); a channel the tear-down has passed is without
  flag and worker, and a start finds all of them so. `Frames`: a client is not deleted while a worker
  may read from it, and at most one frame lands in a sum after its reset.

`PreviewProofs`, on `PreviewPorts` (any number of channels and ports):

* `TypeCorrect`: the types, and that a push of the poll thread has a path for each
  channel.
* `ForcedIsDistinctHolds`: with `IInv` = types of the scan, a scan begins afresh
  (`Fresh`), and the channels already passed by a forced scan are pairwise apart
  and reserved (`Rotation`).
* `RetryIsEnoughHolds`, `AgreeAtStartStepHolds`: with `Agreement` = types, `IInv`,
  what a scan has not begun is idle (`Idle`), Serval and the workers have what the
  pushes noted (`ToldIsRight`), and the channels a forced scan has passed are
  still free unless a port was taken (`StillFree`).

`PreviewProofs`, on `ThresholdPairing` (any number of triggers and restarts, any reset
distance; the specification is called `PairSpec`, so that one module can extend both):

* `PairTypeCorrect`; `WaitingIsNewestHolds` with `Flags` = types, no array is of a
  trigger later than the latest message (`OfThePast`), and the property.
* `PairedIfFirstArrivesHolds` and `EveryPairShownStepHolds` with `Pairs`: if every
  first message arrives, the second threshold never waits, and between the two
  messages of a trigger the first's array does (`FirstWaits`).

`ReconnectProofs` (any set of settings, any adjustments and refusals of them):

* `TypeCorrect`: also that only the poll thread refreshes.
* `RefreshRestoresHolds`, with `Prompt` (where answers do not lag, Serval answers with
  what it has) and `Underway`: while the refresh is undisturbed, what it has passed -
  its copy, then Serval, then the read-back - has the settings that were asked for,
  and until then the parameters would still make the same of Serval. The property
  speaks of the end of the refresh only.

`DetectorConfigProofs` (any values written, any detector, any bounds):

* `TypeCorrect`: everything sent to Serval is in the range Serval takes, whatever
  was written to the parameters.
* `PeriodFitsHolds`, with `Timed`: the JSON a thread works with fits, except between
  its trigger mode and its times, where these are filled in together.
* `PushIsConsistentHolds`, with `Consistent`: as long as a thread's document is not
  torn, what it has filled in so far agrees with the parameters and with the
  family they were checked for, and does not conflict.
* `OthersKept`, with `HeldRight`: between its GET and its PUT, a port thread that is
  not disturbed holds what Serval has.
* `WriteIsSentOrRefusedHolds`, under the hypothesis that a detector that has just
  started has `BothCounters` off, which is its default
  (documentation/medipix3/integration.md:489). Otherwise the first write can meet
  a Medipix3 the driver does not know yet, whose BothCounters it learns only
  within that write. The invariant follows a write that is alone: what is out of
  range is adjusted before it is sent (`Ranges`), the family is unknown or right
  (`Family`), BothCounters is off while it is unknown (`BothOff`), and nothing is
  sent before the PUT (`AloneRight`).

`StreamFramingProofs` (any number and length of frames, any buffer, pixels of any
look):

* `TypeCorrect`; `PixelsInPlaceHolds`, `NoGapsHolds` and `OrderKept`, the
  refinement of `FrameOrder`: every step of the loop publishes a later frame or is a
  stutter. All three follow from `Shape`, which says what the line buffer holds
  after any cut of the stream: first pixels of the frame processed last (the
  bytes the loop keeps although it has used them), then the newest tokens of the
  stream, all from behind that frame's line; if nothing was thrown away and every
  line can be read, the header of the next frame is among these or still to come.
* `SeparateIsExactHolds`, with `Separate`: if headers come alone, the buffer is
  empty between two calls of `recv()` or holds the next header and nothing else.

`AccumulationProofs` (any number of frames, any sizes, counts and width of the
sums, any writes and resets):

* `TypeCorrect`, `RunningIsHistoryHolds`, `BufferIsNewestHolds`,
  `CopyStaysInBoundsHolds`, `ShownIsCurrentHolds` and the action property
  `StreamedHolds`. The invariant is their conjunction with two facts: the history
  is in order (`Received`: numbers, marks of resets and changes of size, one size
  since the last mark), and only `ImgFramesToSum` publishes after it has released
  the mutex (`OnlyImgCopies`).
* The sum of the counts of a sequence is a recursive function over its length. Its
  existence and its growth by one frame are lemmas, proved from the least length
  at which they would fail; `AddsRight` has the arithmetic of a sum that
  saturates and of a total that wraps around.

`ChannelsProofs` (any channels in any order, any kinds of Base, any number of
writes, outages and failures):

* `TypeCorrect`. With `Shape`: a thread that makes a document is at a channel of the
  order, and its document has channels that it has behind it, each once; so has
  Serval's (`Served`).
* `BasesFitHolds`, with `Fits`: a `*Stream` fits its Base unless this very Base is being
  checked; as long as nothing tore what a thread has read, the kind of stream it
  read is still the parameter's; every entry it has made fits.
* `AppliedOrKeptHolds`, with `Progress`: while a thread applies the channels, nothing
  fails and the other one rests, its document has exactly the enabled ones of the
  channels behind it, with their Bases, and nothing is sent; then Serval has that
  document, or nothing was sent. That the read-back agrees is `LengthsTell`: without
  a hole, the lengths of Serval's arrays tell which channels it has.

`MasksProofs` (chips of any width, any calibration files, any shapes, any number of
operations and failures; the mosaics are those the code knows):

* The coordinate map, without any state. A byte of a chip is a row and a column
  (quotient and remainder by the width), so `Local` and `Place` are inverse in each
  of the eight ways a chip can lie; the four tiles of an orientation are the four
  chips (`QuadTiles`). `PelIsBijection` and `ImgIsInverse` follow: `pelIndex` and
  `bpc2ImgIndex` are each other's inverse, but for LEFT on two by two chips.
* `Rotations`: turning the image takes tiles to tiles (`TurnedTiles`, `TurnedQuad`)
  and the pixels of a tile to those of a chip that lies another way (`TurnedLocal`).
* `TypeCorrect`, `Shown`, `Codes` and `Exported`, the four properties that depend on
  what happened. The invariant is the types and these properties, with: a mask
  has the chips of the calibration it was made from (`ChipsOK`); the bytes masked in
  a file are the pixels asked for, in the upright image (`AskedOK`), which is what
  survives a rotation between writing and reading; and, during a comparison, that
  the code of each chip passed tells whether the buffer differs from the file there
  (`FetchOK`), whatever happens to Serval and to the layout between two chips. After
  it, that is a statement about the image (`ComparedOK`). These invariants are about
  square mosaics, as the properties are; `TypeCorrect` is about all.

Only model-checked: all liveness (`PortReturns`, `SeparateIsComplete`,
`StatusSettles`, `SettingsConverge`), as the prover handles neither fairness nor
ENABLED. Every safety property that a passing run checks is also a theorem.

## Not modelled

* Exceptions: an answer that is no JSON throws out of `acquireStop`
  (acquire.cpp:1030) or `initAcquisition`, and the process ends.
* `AccumulationEnable` cleared between `recv()` and the processing of the line
  (histogram_io.cpp:165), which drops a header and leaves its pixels.
* Medipix3's BPC files with two slices per chip.
* Parameters that are only passed through: layers, log level, biases, statistics
  of the dashboard; `ADStatus`, which the connection poll overwrites.
* The first poll, which is skipped; the end of the poll thread and the destruction
  of mutexes and buffers at the shutdown.
* Database, screens and IOC scripts have no state that changes; the vendored
  libraries (`cpr`, `json`) are modelled by what the driver relies on.

## Plan

The order followed so far: `Acquisition` (the core, with the most dangerous
interleavings), `StreamFraming` with `FrameOrder`, `ThresholdPairing`,
`Accumulation`, `PreviewPorts`, `Reconnect`, `Masks`, `DetectorConfig`, `Channels`,
`Shutdown`; then the proofs above, those of `Masks` last. What would come next:
Medipix3's BPC files with two slices per chip, and exceptions as an outcome of every
request.
