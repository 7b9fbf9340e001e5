-------------------------- MODULE ThresholdPairing --------------------------
(***************************************************************************)
(* The band-pass image T0 - T1 of a Medipix3 preview stream with both      *)
(* counters on: the pairing at the end of processPreviewJsonimageLine and  *)
(* emitPreviewThresholdDiff (serval_stream.cpp).                           *)
(*                                                                         *)
(* For every trigger Serval sends one message per threshold, in one order  *)
(* or the other; the driver pairs them by their order of arrival, and the  *)
(* frame numbers, which Serval counts per trigger or per message, are only *)
(* used to notice a restart and a repeated T0. Messages come in order, and *)
(* some are lost: that is what FrameOrder promises of a stream.            *)
(* PrvImg and PrvImg1 have a pairing each; this is one of them.            *)
(***************************************************************************)
EXTENDS Integers

CONSTANTS
  NumTriggers,     \* triggers of a measurement
  NumRestarts,     \* how often the measurement starts again
  ResetDistance    \* a frame number lower than the last by more is a restart (10)

ASSUME PairingAssumption ==
  NumTriggers \in Nat \ {0} /\ NumRestarts \in Nat /\ ResetDistance \in Nat

None == [trigger |-> 0, frame |-> -1]     \* no array at this address

VARIABLES
  order,         \* the order of a trigger's two messages: "T1T0" or "T0T1"
  numbering,     \* what frameNumber counts: "trigger" or "message"
  next,          \* the next message of the measurement
  restarts,      \* measurements that came before this one
  bothCounters,  \* ADTimePixBothCounters
  poolFull,      \* has pNDArrayPool reached its memory limit?
  reading,       \* is the channel's worker there to read?
  lost,          \* was a "first" or "second" message of a trigger ever lost?
  t0, t1,        \* the arrays at the addresses of T0 and T1
  diff,          \* the triggers of the two arrays behind the band-pass image
  t1Ready, t0Orphan, lastSeen, lastDiff

pairing == <<t0, t1, diff, t1Ready, t0Orphan, lastSeen, lastDiff>>
pairVars == <<order, numbering, next, restarts, bothCounters, poolFull, reading, lost, pairing>>

NoDiff == [t0 |-> 0, t1 |-> 0]
Triggers == 1..(NumTriggers * (NumRestarts + 1))
Frames == 1..(2 * NumTriggers)
Arrays == [trigger : Triggers, frame : Frames] \cup {None}

\* The variables keep their types.
PairTypeOK ==
  /\ order \in {"T1T0", "T0T1"} /\ numbering \in {"trigger", "message"}
  /\ next \in 1..(2 * NumTriggers + 1) /\ restarts \in 0..NumRestarts
  /\ bothCounters \in BOOLEAN /\ poolFull \in BOOLEAN /\ reading \in BOOLEAN
  /\ lost \subseteq {"first", "second"}
  /\ t0 \in Arrays /\ t1 \in Arrays
  /\ diff \in [t0 : Triggers, t1 : Triggers] \cup {NoDiff}
  /\ t1Ready \in BOOLEAN /\ t0Orphan \in BOOLEAN
  /\ lastSeen \in Frames \cup {-1} /\ lastDiff \in Frames \cup {-1}

PairInit ==
  /\ order \in {"T1T0", "T0T1"} /\ numbering \in {"trigger", "message"}
  /\ next = 1 /\ restarts = 0 /\ bothCounters = TRUE /\ poolFull = FALSE
  /\ reading = TRUE /\ lost = {}
  /\ t0 = None /\ t1 = None /\ diff = NoDiff
  /\ t1Ready = FALSE /\ t0Orphan = FALSE /\ lastSeen = -1 /\ lastDiff = -1

\* Message m of a measurement.
IsFirst(m) == m % 2 = 1
TriggerOf(m) == (m + 1) \div 2
Threshold(m) == IF IsFirst(m) = (order = "T1T0") THEN 1 ELSE 0
FrameNumber(m) == IF numbering = "message" THEN m ELSE TriggerOf(m)
ArrayOf(m) == [trigger |-> restarts * NumTriggers + TriggerOf(m), frame |-> FrameNumber(m)]

\* lastSeenFrameForPair: the frame numbers have started again.
Restarted(frame) == lastSeen >= 0 /\ frame + ResetDistance < lastSeen

\* Mutant: only two arrays with the same frame number make a band-pass image.
EmitSameFrame(a0, a1, last) ==
  IF bothCounters /\ a0 # None /\ a1 # None /\ a0.frame = a1.frame
  THEN IF poolFull THEN diff' = NoDiff /\ lastDiff' = last
       ELSE diff' = [t0 |-> a0.trigger, t1 |-> a1.trigger] /\ lastDiff' = a0.frame
  ELSE diff' = diff /\ lastDiff' = last

\* emitPreviewThresholdDiff: not without both counters, not twice for one T0.
\* The old band-pass image is released before the new one is allocated, which
\* can fail.
Emit(a0, a1, last) ==
  IF bothCounters /\ a0 # None /\ a1 # None /\ a0.frame # last
  THEN IF poolFull THEN diff' = NoDiff /\ lastDiff' = last
       ELSE diff' = [t0 |-> a0.trigger, t1 |-> a1.trigger] /\ lastDiff' = a0.frame
  ELSE diff' = diff /\ lastDiff' = last

\* Mutant: a T1 always waits for the next T0.
ProcessT1Waits(m) ==
  /\ Threshold(m) = 1
  /\ t1' = ArrayOf(m) /\ t1Ready' = TRUE /\ lastSeen' = FrameNumber(m)
  /\ UNCHANGED <<t0, diff, t0Orphan, lastDiff>>

\* thresholdID 1: completes a T0 that came first, or waits for the next T0.
ProcessT1(m) ==
  LET again  == Restarted(FrameNumber(m))
      orphan == t0Orphan /\ ~again
      last   == IF again THEN -1 ELSE lastDiff
  IN  /\ Threshold(m) = 1
      /\ t1' = ArrayOf(m) /\ UNCHANGED t0
      /\ lastSeen' = FrameNumber(m)
      /\ IF orphan
         THEN Emit(t0, t1', last) /\ t0Orphan' = FALSE /\ t1Ready' = (t1Ready /\ ~again)
         ELSE /\ t1Ready' = TRUE /\ t0Orphan' = FALSE
              /\ lastDiff' = last /\ UNCHANGED diff

\* Mutant: the T1 stays ready after it has been used.
ProcessT0KeepsReady(m) ==
  LET again == Restarted(FrameNumber(m))
      ready == t1Ready /\ ~again
      last  == IF again THEN -1 ELSE lastDiff
  IN  /\ Threshold(m) = 0
      /\ t0' = ArrayOf(m) /\ UNCHANGED t1
      /\ lastSeen' = FrameNumber(m)
      /\ IF ready
         THEN Emit(t0', t1, last) /\ UNCHANGED <<t1Ready, t0Orphan>>
         ELSE /\ t0Orphan' = TRUE /\ t1Ready' = FALSE
              /\ lastDiff' = last /\ UNCHANGED diff

\* thresholdID 0: completes the T1 before it, or waits for the next T1.
ProcessT0(m) ==
  LET again == Restarted(FrameNumber(m))
      ready == t1Ready /\ ~again
      last  == IF again THEN -1 ELSE lastDiff
  IN  /\ Threshold(m) = 0
      /\ t0' = ArrayOf(m) /\ UNCHANGED t1
      /\ lastSeen' = FrameNumber(m)
      /\ IF ready
         THEN Emit(t0', t1, last) /\ t1Ready' = FALSE /\ t0Orphan' = (t0Orphan /\ ~again)
         ELSE /\ t0Orphan' = TRUE /\ t1Ready' = FALSE
              /\ lastDiff' = last /\ UNCHANGED diff

Process ==
  /\ reading /\ next <= 2 * NumTriggers
  /\ next' = next + 1
  /\ ProcessT1(next) \/ ProcessT0(next)
  /\ UNCHANGED <<order, numbering, restarts, bothCounters, poolFull, reading, lost>>

\* The array of the message cannot be allocated. The one it replaces has been
\* released, and the worker ends.
AllocationFails ==
  /\ reading /\ next <= 2 * NumTriggers /\ poolFull
  /\ reading' = FALSE
  /\ IF Threshold(next) = 1 THEN t1' = None /\ UNCHANGED t0
     ELSE t0' = None /\ UNCHANGED t1
  /\ UNCHANGED <<order, numbering, next, restarts, bothCounters, poolFull, lost,
                 diff, t1Ready, t0Orphan, lastSeen, lastDiff>>

\* The stream loses a message.
Lose ==
  /\ reading /\ next <= 2 * NumTriggers
  /\ next' = next + 1
  /\ lost' = lost \cup {IF IsFirst(next) THEN "first" ELSE "second"}
  /\ UNCHANGED <<order, numbering, restarts, bothCounters, poolFull, reading, pairing>>

\* The user writes ADTimePixBothCounters.
WriteBothCounters ==
  /\ bothCounters' = ~bothCounters
  /\ UNCHANGED <<order, numbering, next, restarts, poolFull, reading, lost, pairing>>

\* Plugins keep arrays, or give them back.
PoolChanges ==
  /\ poolFull' = ~poolFull
  /\ UNCHANGED <<order, numbering, next, restarts, bothCounters, reading, lost, pairing>>

\* acquireStop and acquireStart: the pairing is reset and the band-pass image
\* released; the two source arrays stay.
Acquire ==
  /\ restarts < NumRestarts /\ restarts' = restarts + 1 /\ next' = 1
  /\ reading' = TRUE
  /\ t1Ready' = FALSE /\ t0Orphan' = FALSE /\ lastSeen' = -1 /\ lastDiff' = -1
  /\ diff' = NoDiff
  /\ UNCHANGED <<order, numbering, bothCounters, poolFull, lost, t0, t1>>

\* The measurement starts again without the driver: only the frame numbers
\* tell.
ServalRestarts ==
  /\ restarts < NumRestarts /\ restarts' = restarts + 1 /\ next' = 1
  /\ UNCHANGED <<order, numbering, bothCounters, poolFull, reading, lost, pairing>>

PairNext == Process \/ AllocationFails \/ Lose \/ WriteBothCounters \/ PoolChanges \/ Acquire \/ ServalRestarts

PairSpec == PairInit /\ [][PairNext]_pairVars

-----------------------------------------------------------------------------
SameTrigger == diff.t0 = diff.t1

\* As long as the first message of every trigger arrives, the band-pass image
\* is made of the two thresholds of one trigger: in either order, however
\* Serval counts frames, and whatever second messages are lost and however the
\* measurement restarts in the middle of a trigger.
PairedIfFirstArrives == "first" \notin lost => SameTrigger

\* At most one threshold waits: a T1 that waits for its T0 and a T0 that waits for
\* its T1 would make two images out of one message. And what waits is really there,
\* and is not older than what the other address holds, so the image that the next
\* message completes is never made of an array that is gone or that has been
\* overtaken. It may still be of the measurement before: after a ServalRestarts that
\* the frame numbers do not show, the T1 of the old measurement goes on waiting, and
\* if the new one's first message is lost, its T0 completes that T1.
WaitingIsNewest ==
  /\ ~(t1Ready /\ t0Orphan)
  /\ reading =>
     /\ t1Ready => t1 # None /\ (t0 # None => t0.trigger <= t1.trigger)
     /\ t0Orphan => t0 # None /\ (t1 # None => t1.trigger <= t0.trigger)

\* When the second message of a trigger arrives, and every first one has, the
\* band-pass image is replaced: by the one of this trigger, or by none if no
\* array could be allocated; an older one is never left to be seen. The one
\* exception is a measurement that Serval restarted, if it brings the frame
\* number of the last T0 again: that is taken for a repetition.
Completed == Process /\ ~IsFirst(next) /\ "first" \notin lost /\ bothCounters
EveryPairShownStep ==
  [][(Completed /\ t0'.frame # lastDiff) =>
       LET g == ArrayOf(next).trigger
       IN  diff' = IF poolFull THEN NoDiff ELSE [t0 |-> g, t1 |-> g]]_pairVars
=============================================================================
