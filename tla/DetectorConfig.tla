---------------------------- MODULE DetectorConfig ----------------------------
(***************************************************************************)
(* Settings of the detector (ADTimePix.cpp, serval_http.cpp): writes to    *)
(* the asyn parameters, the pushes of initAcquisition, the read-back of    *)
(* getDetector, and the other documents that the driver reads, modifies    *)
(* and writes in Serval: the measurement configuration and the DACs of a   *)
(* chip. The port thread serves the writes; the poll thread pushes and     *)
(* reads back after an outage, without the port lock. A push reads the     *)
(* parameters one after the other, so that it can mix settings of before   *)
(* and after a write. On Medipix3, BothCounters excludes continuous        *)
(* triggering and 24-bit pixels; the driver is to keep them apart.         *)
(* When a reconnection is noticed is in Reconnect; stopping a running      *)
(* acquisition first is in Acquisition.                                    *)
(***************************************************************************)
EXTENDS Integers

CONSTANTS
  Port, Poll,     \* the threads
  Infos,          \* what Serval may say of the detector: [chip, mpx, board]
  Default,        \* the settings of a detector that has just started
  Times,          \* values written to AcquireTime and AcquirePeriod
  Gap,            \* least pause after an exposure (0.003 s)
  Triggers, Depths, Gains, Counts,  \* values written to the other settings
  MaxWrites, MaxOutages, MaxFailures  \* bounds

Threads == {Port, Poll}
Continuous == 5   \* TriggerMode: CONTINUOUS
TimerStop == 4    \* TriggerMode: AUTOTRIGSTART_TIMERSTOP

\* Settings as written to the parameters, and as Serval takes them.
Settings == [trigger : Int, exposure : Nat, period : Nat, images : Int, both : BOOLEAN,
             gain : Int, depth : Int]
Accepted == [trigger : 0..8, exposure : Nat, period : Nat, images : Int, both : BOOLEAN,
             gain : 0..3, depth : {1, 6, 12, 24}]

\* In continuous mode frames follow each other without a pause.
Fits(s) ==
  IF s.trigger = Continuous THEN s.period = s.exposure ELSE s.period >= s.exposure + Gap

ASSUME ConfigAssumption ==
  /\ Port # Poll /\ Gap \in Nat /\ Times \subseteq Nat
  /\ Triggers \cup Depths \cup Gains \cup Counts \subseteq Int
  /\ Infos \subseteq [chip : STRING, mpx : Int, board : STRING]
  /\ Default \in Accepted /\ Fits(Default)
  /\ MaxWrites \in Nat /\ MaxOutages \in Nat /\ MaxFailures \in Nat

VARIABLES
  info,        \* GET /detector: Info
  config,      \* Serval: the settings in /detector/config
  measurement, \* Serval: /measurement/config, the Stem part and the others
  dacs,        \* Serval: two DACs of a chip
  family,      \* detectorFamily_
  p,           \* the settings as asyn parameters
  stem,        \* those of Stem and TimeOfFlight
  single,      \* ImageMode: single?
  pc, form,    \* where a thread is, and the settings in the JSON it works with
  held,        \* the rest of a document that the port thread is to write back
  missed,      \* an outage that the poll thread has yet to follow up
  writes, outages, failures,
  last, sent, clean, failed, torn  \* history: see below

settings == <<p, stem, single, family>>
history == <<last, sent, clean, failed, torn>>
documents == <<config, measurement, dacs>>
vars == <<info, documents, settings, pc, form, held, missed, writes, outages, failures, history>>

-----------------------------------------------------------------------------
\* detectDetectorFamily: the first of ChipType, MpxType, ChipboardId that tells.
DetectFamily(i) ==
  CASE i.chip \in {"MPX3", "TPX3"} -> i.chip
    [] i.chip = "" /\ i.mpx = 5 -> "MPX3"
    [] i.chip = "" /\ i.mpx = 6 -> "TPX3"
    [] i.chip = "" /\ i.mpx \notin {5, 6} /\ i.board = "5" -> "MPX3"
    [] i.chip = "" /\ i.mpx \notin {5, 6} /\ i.board = "4" -> "TPX3"
    [] OTHER -> "Unknown"

NormTrigger(v) == IF v \in 0..8 THEN v ELSE 0
NormDepth(d) == IF d \in {1, 6, 12, 24} THEN d ELSE 12
NormGain(g) == IF g \in 0..3 THEN g ELSE 0

\* mpx3BothCountersTriggerConflict, mpx3BothCountersPixelDepthConflict.
TriggerConflict(v) == family = "MPX3" /\ p.both /\ v = Continuous
DepthConflict(d) == family = "MPX3" /\ p.both /\ d = 24

\* ExposureTime and TriggerPeriod for a trigger mode.
PeriodFor(v, exposure, period) ==
  IF v = Continuous THEN exposure
  ELSE IF period <= exposure + Gap THEN exposure + Gap ELSE period

\* applyFamilyDefaults, when updateDetectorFamily finds another family. (The
\* first time counts even if the family is still unknown: no defaults then.)
FamilyDefaults(q, f) ==
  IF f = "MPX3" /\ f # family THEN [q EXCEPT !.gain = 1, !.depth = 12] ELSE q

-----------------------------------------------------------------------------
Labels == {"rest", "adjust", "config", "learn", "learned", "learnedMode", "trigger", "timing",
           "mode", "depth", "put", "resync", "detector", "readback", "readbackMode", "measure",
           "stemGet", "stemPut", "dacGet", "dacPut", "dacFile"}

Pushed == [set : Accepted, tpx : BOOLEAN]   \* tpx: the Timepix3-only keys are present

Adjustable == {"trigger", "both", "depth", "gain", "images"}
Writes == Adjustable \cup {"none", "time", "dac"}

\* The variables keep their types; what reaches Serval is always in range.
TypeOK ==
  /\ info \in Infos /\ family \in {"TPX3", "MPX3", "Unknown"}
  /\ config \in Pushed /\ form \in [Threads -> Pushed]
  /\ p \in Settings /\ single \in BOOLEAN /\ stem \in {0, 1}
  /\ measurement \in [stem : {0, 1}, others : {"set", "none"}]
  /\ dacs \in [fine : {0, 1}, coarse : {"reset", "file"}]
  /\ held \in [others : {"set", "none"}, coarse : {"reset", "file"}]
  /\ last \in [kind : Writes, status : {"ok", "error"}]
  /\ pc \in [Threads -> Labels] /\ missed \in BOOLEAN
  /\ writes \in 0..MaxWrites /\ outages \in 0..MaxOutages /\ failures \in 0..MaxFailures

\* What a thread holds that works on no document.
Blank == [set |-> Default, tpx |-> FALSE]
Nothing == [others |-> "none", coarse |-> "reset"]

\* Fresh documents of Serval.
FreshConfig == [set |-> Default, tpx |-> DetectFamily(info) # "MPX3"]
FreshMeasurement == [stem |-> 0, others |-> "set"]
FreshDacs == [fine |-> 0, coarse |-> "reset"]

\* The constructor's parameters.
Init ==
  /\ info \in Infos /\ config = FreshConfig
  /\ measurement = FreshMeasurement /\ dacs = FreshDacs
  /\ family = "Unknown"
  /\ p = [trigger |-> 0, exposure |-> Default.exposure, period |-> Default.period,
          images |-> 0, both |-> FALSE, gain |-> 0, depth |-> 12]
  /\ stem = 0 /\ single = FALSE
  /\ pc = [t \in Threads |-> "rest"]
  /\ form = [t \in Threads |-> Blank]
  /\ held = Nothing
  /\ missed = FALSE /\ writes = 0 /\ outages = 0 /\ failures = 0
  /\ last = [kind |-> "none", status |-> "ok"] /\ sent = FALSE
  /\ clean = FALSE /\ failed = FALSE
  /\ torn = [t \in Threads |-> FALSE]

-----------------------------------------------------------------------------
(***************************************************************************)
(* History: torn[t]: another thread changed the parameters while t filled  *)
(* a push; clean: neither the poll thread nor an outage has come between   *)
(* since the port thread's latest write began; failed: a request of it has *)
(* failed; sent: Serval's settings have changed; last: its kind and status. *)
(***************************************************************************)
Filling == {"timing", "mode", "depth", "put"}

History ==
  LET begun == writes' # writes
  IN /\ torn' = [t \in Threads |->
          pc'[t] \in Filling /\ (torn[t] \/ (pc'[t] = pc[t] /\ <<p, family>>' # <<p, family>>))]
     /\ clean' = (/\ begun \/ clean
                  /\ pc[Poll] = "rest" /\ pc'[Poll] = "rest" /\ outages' = outages)
     /\ failed' = (failures' # failures \/ (failed /\ ~begun))
     /\ sent' = (config' # config \/ (sent /\ ~begun))

Goto(t, label) == pc' = [pc EXCEPT ![t] = label] /\ UNCHANGED last
Answers == UNCHANGED failures
Fails == failures < MaxFailures /\ failures' = failures + 1
Still == UNCHANGED <<info, missed, writes, outages, held>>
Drops == UNCHANGED <<info, missed, writes, outages>> /\ held' = Nothing
NoDocument == UNCHANGED documents

\* initAcquisition returns: the port thread is done with its write, the poll
\* thread goes on with getDetector.
Return(t, status) ==
  /\ pc' = [pc EXCEPT ![t] = IF t = Poll THEN "detector" ELSE "rest"]
  /\ last' = IF t = Poll THEN last ELSE [last EXCEPT !.status = status]
  /\ form' = [form EXCEPT ![t] = Blank]

-----------------------------------------------------------------------------
(***************************************************************************)
(* initAcquisition.                                                        *)
(***************************************************************************)
\* GET /detector/config; without an answer nothing is sent, and no error.
GetConfig(t) ==
  /\ pc[t] = "config"
  /\ \/ /\ Answers /\ form' = [form EXCEPT ![t] = config]
        /\ Goto(t, IF family = "Unknown" THEN "learn" ELSE "trigger")
     \/ Fails /\ Return(t, "ok")
  /\ NoDocument /\ UNCHANGED settings /\ Still /\ History

\* Mutant: only a write to TriggerMode looks for the conflict.
FillTriggerUnchecked(t) ==
  /\ pc[t] = "trigger"
  /\ LET v == NormTrigger(p.trigger)
     IN /\ p' = [p EXCEPT !.trigger = v]
        /\ form' = [form EXCEPT ![t].set.trigger = v] /\ Goto(t, "timing")
  /\ NoDocument /\ UNCHANGED <<stem, single, family, failures>> /\ Still /\ History

FillTrigger(t) ==
  /\ pc[t] = "trigger"
  /\ LET v == NormTrigger(p.trigger)
     IN /\ p' = [p EXCEPT !.trigger = v]
        /\ \/ TriggerConflict(v) /\ Return(t, "error")
           \/ /\ ~TriggerConflict(v) /\ Goto(t, "timing")
              /\ form' = [form EXCEPT ![t].set.trigger = v]
  /\ NoDocument /\ UNCHANGED <<stem, single, family, failures>> /\ Still /\ History

\* Mutant: the mode is read again.
FillTimingReads(t) ==
  /\ pc[t] = "timing" /\ Goto(t, "mode")
  /\ form' = [form EXCEPT ![t].set =
       [@ EXCEPT !.exposure = p.exposure, !.images = p.images,
                 !.period = PeriodFor(p.trigger, p.exposure, p.period)]]
  /\ NoDocument /\ UNCHANGED <<settings, failures>> /\ Still /\ History

FillTiming(t) ==
  /\ pc[t] = "timing" /\ Goto(t, "mode")
  /\ form' = [form EXCEPT ![t].set =
       [@ EXCEPT !.exposure = p.exposure, !.images = p.images,
                 !.period = PeriodFor(form[t].set.trigger, p.exposure, p.period)]]
  /\ NoDocument /\ UNCHANGED <<settings, failures>> /\ Still /\ History

\* Medipix3 loses the Timepix3-only keys and has some of its own.
FillMode(t) ==
  /\ pc[t] = "mode"
  /\ \/ /\ family # "MPX3" /\ Goto(t, "put")
        /\ form' = [form EXCEPT ![t].tpx = TRUE]
     \/ /\ family = "MPX3" /\ Goto(t, "depth")
        /\ form' = [form EXCEPT ![t] =
             [set |-> [form[t].set EXCEPT !.both = p.both, !.gain = NormGain(p.gain)], tpx |-> FALSE]]
  /\ NoDocument /\ UNCHANGED <<settings, failures>> /\ Still /\ History

\* 24 bits give way to BothCounters.
FillDepth(t) ==
  /\ pc[t] = "depth" /\ Goto(t, "put")
  /\ LET d == IF DepthConflict(NormDepth(p.depth)) THEN 12 ELSE NormDepth(p.depth)
     IN p' = [p EXCEPT !.depth = d] /\ form' = [form EXCEPT ![t].set.depth = d]
  /\ NoDocument /\ UNCHANGED <<stem, single, family, failures>> /\ Still /\ History

\* PUT /detector/config is taken or refused, or its answer is lost. Only for
\* Medipix3 is that an error.
Put(t) ==
  /\ pc[t] = "put"
  /\ \/ Answers /\ config' = form[t] /\ Return(t, "ok")
     \/ /\ Fails /\ config' \in {config, form[t]}
        /\ \/ family = "MPX3" /\ Goto(t, "resync") /\ UNCHANGED form
           \/ family # "MPX3" /\ Return(t, "ok")
  /\ UNCHANGED <<measurement, dacs, settings>> /\ Still /\ History

\* After a refused PUT PixelDepth and GainMode are read again.
Resync(t) ==
  /\ pc[t] = "resync" /\ Return(t, "error")
  /\ \/ Answers /\ p' = [p EXCEPT !.depth = config.set.depth, !.gain = config.set.gain]
     \/ Fails /\ UNCHANGED p
  /\ NoDocument /\ UNCHANGED <<stem, single, family>> /\ Still /\ History

-----------------------------------------------------------------------------
(***************************************************************************)
(* getDetector, for itself or for an initAcquisition that does not know    *)
(* the family; then getMeasurementConfig.                                  *)
(***************************************************************************)
GetDetector(t) ==
  /\ pc[t] \in {"detector", "learn"}
  /\ \/ /\ Answers /\ form' = [form EXCEPT ![t] = config]
        /\ Goto(t, IF pc[t] = "learn" THEN "learned" ELSE "readback")
     \/ Fails /\ Goto(t, IF pc[t] = "learn" THEN "trigger" ELSE "measure") /\ UNCHANGED form
  /\ NoDocument /\ UNCHANGED settings /\ Still /\ History

\* The family and its defaults, which the settings in the answer replace ...
ReadBack(t) ==
  /\ pc[t] \in {"readback", "learned"} /\ family' = DetectFamily(info)
  /\ LET s == form[t].set
     IN p' = [FamilyDefaults(p, family') EXCEPT !.trigger = s.trigger, !.exposure = s.exposure,
                                                !.period = s.period, !.images = s.images]
  /\ Goto(t, IF pc[t] = "learned" THEN "learnedMode" ELSE "readbackMode")
  /\ NoDocument /\ UNCHANGED <<stem, single, form, failures>> /\ Still /\ History

\* ... those that only a Medipix3 has after the others.
ReadBackMode(t) ==
  /\ pc[t] \in {"readbackMode", "learnedMode"}
  /\ LET s == form[t].set
     IN p' = IF DetectFamily(info) # "MPX3" THEN p
             ELSE [p EXCEPT !.both = s.both, !.gain = s.gain, !.depth = s.depth]
  /\ IF pc[t] = "learnedMode" THEN Goto(t, "trigger") /\ UNCHANGED form
     ELSE Goto(t, "measure") /\ form' = [form EXCEPT ![t] = Blank]
  /\ NoDocument /\ UNCHANGED <<stem, single, family, failures>> /\ Still /\ History

\* getMeasurementConfig; a document without Stem changes nothing.
GetMeasurementConfig(t) ==
  /\ pc[t] = "measure" /\ Goto(t, IF t = Poll THEN "dacFile" ELSE "rest")
  /\ \/ Answers /\ stem' = measurement.stem
     \/ Fails /\ UNCHANGED stem
  /\ NoDocument /\ UNCHANGED <<p, single, family, form>> /\ Still /\ History

Request(t) ==
  \/ GetConfig(t) \/ FillTrigger(t) \/ FillTiming(t) \/ FillMode(t) \/ FillDepth(t) \/ Put(t)
  \/ Resync(t) \/ GetDetector(t) \/ ReadBack(t) \/ ReadBackMode(t) \/ GetMeasurementConfig(t)

-----------------------------------------------------------------------------
(***************************************************************************)
(* The port thread: writeInt32, writeFloat64. The parameter is set first.  *)
(***************************************************************************)
Write(kind, label) ==
  /\ pc[Port] = "rest" /\ writes < MaxWrites /\ writes' = writes + 1
  /\ pc' = [pc EXCEPT ![Port] = label]
  /\ last' = [kind |-> kind, status |-> "ok"]
  /\ NoDocument /\ UNCHANGED <<info, family, form, held, missed, outages, failures>> /\ History

WriteSetting ==
  /\ \/ \E v \in Triggers : p' = [p EXCEPT !.trigger = v] /\ Write("trigger", "adjust")
     \/ \E b \in BOOLEAN : p' = [p EXCEPT !.both = b] /\ Write("both", "adjust")
     \/ \E d \in Depths : p' = [p EXCEPT !.depth = d] /\ Write("depth", "adjust")
     \/ \E g \in Gains : p' = [p EXCEPT !.gain = g] /\ Write("gain", "adjust")
     \/ \E n \in Counts : p' = [p EXCEPT !.images = n] /\ Write("images", "adjust")
     \/ \E x \in Times : p' = [p EXCEPT !.exposure = x] /\ Write("time", "config")
     \/ \E x \in Times : p' = [p EXCEPT !.period = x] /\ Write("time", "config")
  /\ UNCHANGED <<stem, single>>

\* Leaving single mode sends nothing.
WriteImageMode ==
  /\ \/ single' = TRUE /\ p' = [p EXCEPT !.images = 1] /\ Write("images", "config")
     \/ single' = FALSE /\ UNCHANGED p /\ Write("none", "rest")
  /\ UNCHANGED stem

\* Health; Stem* and TimeOfFlight; Vthreshold_fine.
WriteDocument ==
  \/ UNCHANGED <<p, stem, single>> /\ Write("none", "detector")
  \/ stem' = 1 /\ UNCHANGED <<p, single>> /\ Write("none", "stemGet")
  \/ UNCHANGED <<p, stem, single>> /\ Write("dac", "dacGet")

\* Mutant: the pixels stay at 24 bits, and so does continuous triggering.
AdjustedLate(kind) ==
  CASE kind = "trigger" -> [p EXCEPT !.trigger = NormTrigger(@)]
    [] kind = "both" -> p
    [] kind = "depth" -> [p EXCEPT !.depth = IF DepthConflict(NormDepth(@)) THEN 12 ELSE NormDepth(@)]
    [] kind = "gain" -> [p EXCEPT !.gain = NormGain(@)]
    [] kind = "images" -> [p EXCEPT !.images = IF single THEN 1 ELSE @]

\* What becomes of the settings that a write does not fit.
Adjusted(kind) ==
  CASE kind = "trigger" ->
         LET v == NormTrigger(p.trigger)
         IN [p EXCEPT !.trigger = IF TriggerConflict(v) THEN TimerStop ELSE v]
    [] kind = "both" ->
         [p EXCEPT !.trigger = IF TriggerConflict(@) THEN TimerStop ELSE @,
                   !.depth = IF DepthConflict(@) THEN 12 ELSE @]
    [] kind = "depth" -> [p EXCEPT !.depth = IF DepthConflict(NormDepth(@)) THEN 12 ELSE NormDepth(@)]
    [] kind = "gain" -> [p EXCEPT !.gain = NormGain(@)]
    [] kind = "images" -> [p EXCEPT !.images = IF single THEN 1 ELSE @]

\* A PixelDepth that does not fit is an error, and nothing is sent.
Adjust ==
  /\ pc[Port] = "adjust" /\ p' = Adjusted(last.kind)
  /\ IF last.kind = "depth" /\ DepthConflict(NormDepth(p.depth))
     THEN Return(Port, "error") ELSE Goto(Port, "config") /\ UNCHANGED form
  /\ NoDocument /\ UNCHANGED <<stem, single, family, failures>> /\ Still /\ History

\* sendMeasurementConfig: GET, and without an answer the document starts empty ...
StemGet ==
  /\ pc[Port] = "stemGet" /\ Goto(Port, "stemPut")
  /\ \/ Answers /\ held' = [held EXCEPT !.others = measurement.others]
     \/ Fails /\ held' = [held EXCEPT !.others = "none"]
  /\ NoDocument /\ UNCHANGED <<settings, form, info, missed, writes, outages>> /\ History

\* Mutant: ... the document always starts empty.
StemPutAlone ==
  /\ pc[Port] = "stemPut" /\ Goto(Port, "rest")
  /\ \/ Answers /\ measurement' = [stem |-> stem, others |-> "none"]
     \/ Fails /\ UNCHANGED measurement
  /\ UNCHANGED <<config, dacs, settings, form>> /\ Drops /\ History

\* ... PUT with the Stem part of the parameters.
StemPut ==
  /\ pc[Port] = "stemPut" /\ Goto(Port, "rest")
  /\ \/ Answers /\ measurement' = [stem |-> stem, others |-> held.others]
     \/ Fails /\ measurement' \in {measurement, [stem |-> stem, others |-> held.others]}
  /\ UNCHANGED <<config, dacs, settings, form>> /\ Drops /\ History

\* writeDac: the DACs of a chip are read ...
DacGet ==
  /\ pc[Port] = "dacGet"
  /\ \/ Answers /\ Goto(Port, "dacPut") /\ held' = [held EXCEPT !.coarse = dacs.coarse] /\ UNCHANGED form
     \/ Fails /\ Return(Port, "error") /\ UNCHANGED held
  /\ NoDocument /\ UNCHANGED <<settings, info, missed, writes, outages>> /\ History

\* ... and written, with one replaced.
DacPut ==
  /\ pc[Port] = "dacPut"
  /\ \/ Answers /\ Return(Port, "ok") /\ dacs' = [fine |-> 1, coarse |-> held.coarse]
     \/ /\ Fails /\ Return(Port, "error")
        /\ dacs' \in {dacs, [fine |-> 1, coarse |-> held.coarse]}
  /\ UNCHANGED <<config, measurement, settings>> /\ Drops /\ History

PortStep ==
  \/ WriteSetting \/ WriteImageMode \/ WriteDocument
  \/ Adjust \/ Request(Port) \/ StemGet \/ StemPut \/ DacGet \/ DacPut

-----------------------------------------------------------------------------
\* connectionPollThread finds the connection up again: refreshOnReconnect.
PollStarts ==
  /\ pc[Poll] = "rest" /\ missed /\ missed' = FALSE /\ Goto(Poll, "config")
  /\ NoDocument /\ UNCHANGED <<info, settings, form, held, writes, outages, failures>> /\ History

\* It ends with uploadDACS.
UploadDACS ==
  /\ pc[Poll] = "dacFile" /\ Goto(Poll, "rest")
  /\ \/ Answers /\ dacs' = [fine |-> 0, coarse |-> "file"]
     \/ Fails /\ UNCHANGED dacs
  /\ UNCHANGED <<config, measurement, settings, form>> /\ Still /\ History

PollStep == PollStarts \/ Request(Poll) \/ UploadDACS

\* Serval or the detector is away for a while, and may have to start afresh.
Outage ==
  /\ outages < MaxOutages /\ outages' = outages + 1 /\ missed' = TRUE
  /\ \/ NoDocument
     \/ config' = FreshConfig /\ measurement' = FreshMeasurement /\ dacs' = FreshDacs
  /\ UNCHANGED <<info, settings, pc, form, held, writes, failures, last>> /\ History

Next == PortStep \/ PollStep \/ Outage

Spec == Init /\ [][Next]_vars

-----------------------------------------------------------------------------
\* mpx3BothCountersTriggerConflict, mpx3BothCountersPixelDepthConflict: whatever
\* was written, read back or pushed before, a push that no other thread disturbs
\* never asks a Medipix3 for BothCounters with continuous triggering or 24 bits.
PushIsConsistent ==
  \A t \in Threads :
    (pc[t] = "put" /\ ~torn[t] /\ family = "MPX3") =>
      ~(form[t].set.both /\ (form[t].set.trigger = Continuous \/ form[t].set.depth = 24))

\* What initAcquisition makes of the parameters.
Sent ==
  /\ config.set.trigger = p.trigger /\ config.set.exposure = p.exposure
  /\ config.set.images = p.images
  /\ config.set.period = PeriodFor(p.trigger, p.exposure, p.period)
  /\ config.tpx = (family # "MPX3")
  /\ family = "MPX3" =>
       config.set.both = p.both /\ config.set.gain = p.gain /\ config.set.depth = p.depth

\* A write that meets no failure, and runs without the poll thread, has either
\* brought all settings to Serval, or returns an error and has sent nothing; and
\* TriggerMode and BothCounters are never refused, also if a race has left the
\* parameters in conflict.
WriteIsSentOrRefused ==
  (pc[Port] = "rest" /\ clean /\ ~failed /\ last.kind \notin {"none", "dac"}) =>
    \/ last.status = "ok" /\ Sent
    \/ /\ last.status = "error" /\ ~sent
       /\ last.kind \notin {"trigger", "both"}

\* In any interleaving, Serval is never asked for a period that is shorter than
\* the exposure and its pause, except in continuous mode, where they are equal.
PeriodFits == Fits(config.set)

\* sendMeasurementConfig keeps the parts of the document that it does not know
\* (serval_http.cpp:2264) unless it could not read them; writeDac keeps the
\* other DACs of the chip; unless the poll thread loads a DACS file, or Serval
\* starts afresh, meanwhile.
OthersKeptStep ==
  [][(/\ pc[Port] \in {"stemPut", "dacPut"} /\ pc'[Port] = "rest"
      /\ <<measurement.others, dacs.coarse>>' # <<measurement.others, dacs.coarse>>)
     => (~clean \/ (failed /\ pc[Port] = "stemPut"))]_vars
=============================================================================
