------------------------- MODULE AcquisitionProofs -------------------------
(* Proofs about Acquisition and, in the second part, Shutdown, for every      *)
(* number of channels, threads and callbacks.                                 *)
EXTENDS Shutdown, TLAPS

USE DEF Channels, Actors

-----------------------------------------------------------------------------
(* First part: Acquisition, with and without measurements that end by         *)
(* themselves.                                                                *)

-----------------------------------------------------------------------------
(* The variables keep their types, whatever interleaves. The program       *)
(* counters are the part that needs care: each kind of thread has its own  *)
(* labels.                                                                 *)

PcOK ==
  /\ pc \in [Actors -> PortLabels \cup CallbackLabels]
  /\ pc[Port] \in PortLabels
  /\ \A c \in Callbacks : pc[c] \in CallbackLabels

\* What the steps of actor a move it to.
PlaceOK == PcOK /\ cur \in [Actors -> Channels]

LEMMA GotoType ==
  ASSUME TypeOK, NEW a \in Actors, NEW l \in PortLabels \cup CallbackLabels, Goto(a, l),
         a = Port => l \in PortLabels, a # Port => l \in CallbackLabels
  PROVE  PcOK'
BY ConstantsAssumption DEF TypeOK, Goto, PcOK

LEMMA GotoAtType ==
  ASSUME TypeOK, NEW a \in Actors, NEW l \in PortLabels \cup CallbackLabels,
         NEW ch \in Channels, GotoAt(a, l, ch),
         a = Port => l \in PortLabels, a # Port => l \in CallbackLabels
  PROVE  PlaceOK'
BY GotoType DEF TypeOK, GotoAt, PlaceOK

\* The labels of the steps that acquireStart and acquireStop share.
LEMMA SharedLabels ==
  /\ StopLabels \subseteq PortLabels \cap CallbackLabels
  /\ StartLabels \subseteq PortLabels
  /\ TearLabels \cup JoinCallbackLabels \cup {"suspended", "stopMeasurement", "finish"}
       \subseteq PortLabels \cap CallbackLabels
  /\ TearLabels = {"signal", "join", "read", "call", "joining", "clear", "disconnect"}
  /\ JoinCallbackLabels = {"testCallback", "joinCallback", "joiningCallback", "clearCallback"}
BY DEF StopLabels, StartLabels, TearLabels, JoinCallbackLabels, PortLabels, CallbackLabels, PollLabels

LEMMA PastJoinType ==
  ASSUME TypeOK, NEW a \in Actors, PastJoin(a)
  PROVE  PlaceOK'
<1>1. cur[a] \in Channels
  BY DEF TypeOK
<1>2. CASE GotoAt(a, "disconnect", cur[a])
  BY <1>1, <1>2, GotoAtType, SharedLabels
<1>3. CASE cur[a] < NumChannels /\ GotoAt(a, "join", cur[a] + 1)
  <2>1. cur[a] + 1 \in Channels
    BY <1>1, <1>3, ConstantsAssumption
  <2> QED BY <1>3, <2>1, GotoAtType, SharedLabels
<1>4. CASE GotoAt(a, "disconnect", 1)
  <2>1. 1 \in Channels
    BY ConstantsAssumption
  <2> QED BY <1>4, <2>1, GotoAtType, SharedLabels
<1> QED BY <1>2, <1>3, <1>4 DEF PastJoin

LEMMA ReturnType ==
  ASSUME TypeOK, NEW a \in Actors, Return(a)
  PROVE  PlaceOK' /\ target' \in [Actors -> Workers \cup Callbacks \cup {NoThread}]
<1>1. cur[a] \in Channels
  BY DEF TypeOK
<1>2. CASE PastJoin(a)
  BY <1>2, PastJoinType DEF Return, TypeOK
<1>3. CASE GotoAt(a, "clear", cur[a])
  BY <1>1, <1>3, GotoAtType, SharedLabels DEF Return, TypeOK
<1> QED BY <1>2, <1>3 DEF Return

LEMMA TearDownType ==
  ASSUME TypeOK, NEW a \in Actors, TearDown(a)
  PROVE  TypeOK'
<1>0. cur[a] \in Channels /\ 1 \in Channels
  BY ConstantsAssumption DEF TypeOK
<1>1. CASE Signal(a)
  <2>1. PlaceOK'
    <3>1. CASE GotoAt(a, "join", cur[a]) \/ GotoAt(a, "join", 1)
      BY <1>0, <3>1, GotoAtType, SharedLabels
    <3>2. CASE cur[a] < NumChannels /\ GotoAt(a, "signal", cur[a] + 1)
      <4>1. cur[a] + 1 \in Channels
        BY <1>0, <3>2, ConstantsAssumption
      <4> QED BY <3>2, <4>1, GotoAtType, SharedLabels
    <3> QED BY <1>1, <3>1, <3>2 DEF Signal
  <2>2. running' \in [Channels -> BOOLEAN] /\ imgFrames' \in 0..FrameCap
    BY <1>0, <1>1, ConstantsAssumption DEF Signal, TypeOK
  <2> QED BY <1>1, <2>1, <2>2 DEF Signal, TypeOK, PlaceOK, PcOK
<1>2. CASE JoinNothing(a)
  <2>1. PlaceOK'
    BY <1>2, PastJoinType DEF JoinNothing
  <2> QED BY <1>2, <2>1 DEF JoinNothing, TypeOK, PlaceOK, PcOK, workerVars
<1>3. CASE SeeWorker(a) \/ ReadId(a) \/ BeginJoin(a) \/ DoubleJoin(a)
  <2>1. PcOK'
    BY <1>3, GotoType, SharedLabels DEF SeeWorker, ReadId, BeginJoin, DoubleJoin
  <2>2. target' \in [Actors -> Workers \cup Callbacks \cup {NoThread}]
    BY <1>0, <1>3 DEF SeeWorker, ReadId, BeginJoin, DoubleJoin, TypeOK
  <2> QED BY <1>3, <2>1, <2>2
          DEF SeeWorker, ReadId, BeginJoin, DoubleJoin, TypeOK, PcOK, workerVars
<1>4. CASE NoJoin(a) \/ EndJoin(a)
  <2>1. PlaceOK' /\ target' \in [Actors -> Workers \cup Callbacks \cup {NoThread}]
    BY <1>4, ReturnType DEF NoJoin, EndJoin
  <2>2. wpc' \in [Workers -> WorkerLabels]
    BY <1>4 DEF NoJoin, EndJoin, TypeOK, WorkerLabels
  <2> QED BY <1>4, <2>1, <2>2 DEF NoJoin, EndJoin, Return, TypeOK, PlaceOK, PcOK
<1>5. CASE ClearId(a)
  <2>1. PlaceOK'
    <3>1. CASE PastJoin(a)
      BY <3>1, PastJoinType
    <3>2. CASE GotoAt(a, "call", cur[a])
      BY <1>0, <3>2, GotoAtType, SharedLabels
    <3> QED BY <1>5, <3>1, <3>2 DEF ClearId
  <2>2. workerId' \in [Channels -> Workers \cup {NoThread}]
    BY <1>0, <1>5 DEF ClearId, TypeOK
  <2> QED BY <1>5, <2>1, <2>2 DEF ClearId, TypeOK, PlaceOK, PcOK, workerVars
<1>6. CASE Disconnect(a)
  <2>1. PlaceOK'
    <3>1. CASE cur[a] < LastTornDown(a)
      <4>1. cur[a] + 1 \in Channels
        BY <1>0, <3>1, ConstantsAssumption DEF LastTornDown
      <4> QED BY <1>6, <3>1, <4>1, GotoAtType, SharedLabels DEF Disconnect
    <3>2. CASE ~(cur[a] < LastTornDown(a))
      <4>1. CASE GotoAt(a, "stopMeasurement", 1)
        BY <1>0, <4>1, GotoAtType, SharedLabels
      <4>2. CASE a = Port /\ (GotoAt(a, "prepare", 1) \/ GotoAt(a, "idle", 1))
        <5>1. {"prepare", "idle"} \subseteq PortLabels
          BY DEF PortLabels, StartLabels
        <5> QED BY <1>0, <4>2, <5>1, GotoAtType
      <4> QED BY <1>6, <3>2, <4>1, <4>2 DEF Disconnect, Mode, TypeOK
    <3> QED BY <3>1, <3>2
  <2>2. connected' \in [Channels -> BOOLEAN]
    BY <1>0, <1>6 DEF Disconnect, TypeOK
  <2> QED BY <1>6, <2>1, <2>2 DEF Disconnect, TypeOK, PlaceOK, PcOK, workerVars
<1> QED BY <1>1, <1>2, <1>3, <1>4, <1>5, <1>6 DEF TearDown

LEMMA StopType ==
  ASSUME TypeOK, NEW a \in Actors, StopStep(a)
  PROVE  TypeOK'
<1>0. 1 \in Channels
  BY ConstantsAssumption
<1>1. JoinCallbackLabels \cup {"finish", "signal", "suspended"} \subseteq PortLabels \cap CallbackLabels
  BY SharedLabels
<1>2. /\ AfterStop(a) \in PortLabels \cup CallbackLabels
      /\ a = Port => AfterStop(a) \in PortLabels
      /\ a # Port => AfterStop(a) \in CallbackLabels
  BY DEF AfterStop, PortLabels, CallbackLabels, PollLabels
<1>3. CASE StopBegin(a) \/ TestCallback(a) \/ JoinCallback(a)
  <2>1. PcOK'
    BY <1>1, <1>3, GotoType, SharedLabels DEF StopBegin, TestCallback, JoinCallback
  <2>2. target' \in [Actors -> Workers \cup Callbacks \cup {NoThread}]
    BY <1>3 DEF StopBegin, TestCallback, JoinCallback, TypeOK
  <2> QED BY <1>3, <2>1, <2>2
          DEF StopBegin, TestCallback, JoinCallback, TypeOK, PcOK, workerVars
<1>4. CASE EndJoinCallback(a)
  <2>1. "ended" \notin PortLabels /\ "done" \in CallbackLabels
    BY DEF PortLabels, StartLabels, StopLabels, TearLabels, JoinCallbackLabels, CallbackLabels, PollLabels
  <2>2. target[a] # Port
    BY <1>4, <2>1 DEF EndJoinCallback, TypeOK
  <2>3. PcOK'
    <3>1. /\ pc' = [pc EXCEPT ![a] = "clearCallback", ![target[a]] = "done"]
          /\ "clearCallback" \in PortLabels \cap CallbackLabels
      BY <1>1, <1>4, SharedLabels DEF EndJoinCallback
    <3>2. /\ pc \in [Actors -> PortLabels \cup CallbackLabels] /\ pc[Port] \in PortLabels
          /\ \A c \in Callbacks : pc[c] \in CallbackLabels
      BY DEF TypeOK
    <3>3. pc'[Port] \in PortLabels
      BY <2>2, <3>1, <3>2
    <3>4. \A c \in Callbacks : pc'[c] \in CallbackLabels
      BY <2>1, <3>1, <3>2
    <3>5. pc' \in [Actors -> PortLabels \cup CallbackLabels]
      BY <2>1, <3>1, <3>2
    <3> QED BY <3>3, <3>4, <3>5 DEF PcOK
  <2>4. target' \in [Actors -> Workers \cup Callbacks \cup {NoThread}]
    BY <1>4 DEF EndJoinCallback, TypeOK
  <2> QED BY <1>4, <2>3, <2>4 DEF EndJoinCallback, TypeOK, PcOK, workerVars
<1>5. CASE ClearCallback(a)
  <2>1. PlaceOK'
    BY <1>0, <1>1, <1>5, GotoAtType DEF ClearCallback
  <2> QED BY <1>5, <2>1 DEF ClearCallback, TypeOK, PlaceOK, PcOK, workerVars
<1>6. CASE StopMeasurement(a)
  <2>1. PcOK'
    BY <1>1, <1>6, GotoType DEF StopMeasurement
  <2> QED BY <1>6, <2>1 DEF StopMeasurement, TypeOK, PcOK, workerVars
<1>7. CASE StopMeasurementFails(a)
  <2>1. PlaceOK'
    BY <1>0, <1>2, <1>7, GotoAtType DEF StopMeasurementFails
  <2> QED BY <1>7, <2>1 DEF StopMeasurementFails, TypeOK, PlaceOK, PcOK, workerVars
<1>8. CASE Finish(a)
  <2>1. PlaceOK'
    BY <1>0, <1>2, <1>8, GotoAtType DEF Finish
  <2> QED BY <1>8, <2>1 DEF Finish, TypeOK, PlaceOK, PcOK, workerVars
<1> QED BY <1>3, <1>4, <1>5, <1>6, <1>7, <1>8 DEF StopStep

LEMMA PastSpawnType ==
  ASSUME TypeOK, PastSpawn
  PROVE  PlaceOK'
<1>1. cur[Port] \in Channels /\ 1 \in Channels
  BY ConstantsAssumption DEF TypeOK
<1>2. {"spawn", "idle"} \subseteq PortLabels
  BY DEF PortLabels, StartLabels
<1>3. CASE cur[Port] < NumChannels
  <2>1. cur[Port] + 1 \in Channels
    BY <1>1, <1>3, ConstantsAssumption
  <2> QED BY <1>2, <1>3, <2>1, GotoAtType DEF PastSpawn
<1>4. CASE ~(cur[Port] < NumChannels)
  BY <1>1, <1>2, <1>4, GotoAtType DEF PastSpawn
<1> QED BY <1>3, <1>4

LEMMA StartType ==
  ASSUME TypeOK, StartStep
  PROVE  TypeOK'
<1>0. 1 \in Channels /\ Port \in Actors
  BY ConstantsAssumption
<1>1. {"idle", "ports", "launch", "create", "signal", "arm", "spawn"} \subseteq PortLabels
  BY SharedLabels DEF PortLabels, StartLabels
<1>2. CASE RejectTrigger
  <2>1. PcOK'
    BY <1>0, <1>1, <1>2, GotoType DEF RejectTrigger
  <2> QED BY <1>2, <2>1 DEF RejectTrigger, TypeOK, PcOK, workerVars
<1>3. CASE StopPriorMeasurement
  <2>1. PcOK'
    BY <1>0, <1>1, <1>3, GotoType DEF StopPriorMeasurement
  <2> QED BY <1>3, <2>1 DEF StopPriorMeasurement, TypeOK, PcOK, workerVars
<1>4. CASE PortsFree
  <2>1. PcOK'
    BY <1>0, <1>1, <1>4, GotoType DEF PortsFree
  <2> QED BY <1>4, <2>1 DEF PortsFree, TypeOK, PcOK, workerVars
<1>5. CASE NoPortsFree
  <2>1. PcOK'
    BY <1>0, <1>1, <1>5, GotoType DEF NoPortsFree
  <2> QED BY <1>5, <2>1 DEF NoPortsFree, TypeOK, PcOK, workerVars
<1>6. CASE Launch
  <2>1. PcOK'
    BY <1>0, <1>1, <1>6, GotoType DEF Launch
  <2> QED BY <1>6, <2>1 DEF Launch, TypeOK, PcOK, workerVars
<1>7. CASE LaunchFails
  <2>1. PlaceOK'
    BY <1>0, <1>1, <1>7, GotoAtType DEF LaunchFails
  <2> QED BY <1>7, <2>1 DEF LaunchFails, TypeOK, PlaceOK, PcOK, workerVars
<1>8. CASE CreateCallback
  <2>1. PcOK'
    <3>1. CASE Goto(Port, "arm")
      BY <1>0, <1>1, <3>1, GotoType
    <3>2. CASE \E c \in Callbacks : pc' = [pc EXCEPT ![Port] = "arm", ![c] = "initial"]
      <4>1. PICK c \in Callbacks : pc' = [pc EXCEPT ![Port] = "arm", ![c] = "initial"]
        BY <3>2
      <4>2. c # Port /\ "arm" \in PortLabels /\ "initial" \in CallbackLabels
        BY <1>1, ConstantsAssumption DEF CallbackLabels, PollLabels
      <4>3. pc' \in [Actors -> PortLabels \cup CallbackLabels]
        BY <4>1, <4>2 DEF TypeOK
      <4>4. pc'[Port] = "arm"
        BY <1>0, <4>1, <4>2 DEF TypeOK
      <4>5. \A d \in Callbacks : pc'[d] \in CallbackLabels
        BY <4>1, <4>2, ConstantsAssumption DEF TypeOK
      <4> QED BY <4>2, <4>3, <4>4, <4>5 DEF PcOK
    <3> QED BY <1>8, <3>1, <3>2 DEF CreateCallback
  <2> QED BY <1>8, <2>1 DEF CreateCallback, TypeOK, PcOK, workerVars
<1>9. CASE Arm
  <2>1. PlaceOK'
    BY <1>0, <1>1, <1>9, GotoAtType DEF Arm
  <2> QED BY <1>9, <2>1 DEF Arm, TypeOK, PlaceOK, PcOK, workerVars
<1>10. CASE SpawnWorker
  <2>1. PlaceOK'
    BY <1>10, PastSpawnType DEF SpawnWorker
  <2>2. /\ workerId' \in [Channels -> Workers \cup {NoThread}]
        /\ running' \in [Channels -> BOOLEAN]
        /\ wpc' \in [Workers -> WorkerLabels]
    BY <1>10 DEF SpawnWorker, TypeOK, WorkerLabels
  <2> QED BY <1>10, <2>1, <2>2 DEF SpawnWorker, TypeOK, PlaceOK, PcOK
<1>11. CASE SkipWorker
  <2>1. PlaceOK'
    BY <1>11, PastSpawnType DEF SkipWorker
  <2> QED BY <1>11, <2>1 DEF SkipWorker, TypeOK, PlaceOK, PcOK, workerVars
<1> QED BY <1>2, <1>3, <1>4, <1>5, <1>6, <1>7, <1>8, <1>9, <1>10, <1>11 DEF StartStep

LEMMA PollType ==
  ASSUME TypeOK, NEW c \in Callbacks, PollStep(c)
  PROVE  TypeOK'
<1>0. c \in Actors /\ c # Port
  BY ConstantsAssumption
<1>1. {"poll", "ended", "get", "stopBegin"} \subseteq CallbackLabels
  BY DEF CallbackLabels, PollLabels, StopLabels
<1>2. CASE FirstPoll(c)
  <2>1. PcOK'
    BY <1>0, <1>1, <1>2, GotoType DEF FirstPoll
  <2> QED BY <1>2, <2>1 DEF FirstPoll, TypeOK, PcOK, workerVars
<1>3. CASE FirstPollFails(c)
  <2>1. PcOK'
    BY <1>0, <1>1, <1>3, GotoType DEF FirstPollFails
  <2> QED BY <1>3, <2>1 DEF FirstPollFails, TypeOK, PcOK, workerVars
<1>4. CASE TestAcquiring(c)
  <2>1. PcOK'
    BY <1>0, <1>1, <1>4, GotoType DEF TestAcquiring
  <2> QED BY <1>4, <2>1 DEF TestAcquiring, TypeOK, PcOK, workerVars
<1>5. CASE PollAnswer(c)
  <2>1. PcOK'
    BY <1>0, <1>1, <1>5, GotoType DEF PollAnswer
  <2>2. isIdle' \in [Callbacks -> BOOLEAN]
    BY <1>5 DEF PollAnswer, TypeOK
  <2> QED BY <1>5, <2>1, <2>2 DEF PollAnswer, TypeOK, PcOK, workerVars
<1>6. CASE PollFails(c)
  <2>1. PcOK'
    BY <1>0, <1>1, <1>6, GotoType DEF PollFails
  <2> QED BY <1>6, <2>1 DEF PollFails, TypeOK, PcOK, workerVars
<1> QED BY <1>2, <1>3, <1>4, <1>5, <1>6 DEF PollStep

LEMMA WorkerType ==
  ASSUME TypeOK, NEW w \in Workers, WorkerStep(w) \/ ServalStep(w)
  PROVE  TypeOK'
<1> USE DEF actorVars, UnchangedByWorker
<1>0. ChannelOf[w] \in Channels
  BY ConstantsAssumption
<1>1. wpc' \in [Workers -> WorkerLabels]
  BY DEF TypeOK, WorkerLabels, WGoto, WorkerStep, ServalStep, WorkerLeaves, DecideToConnect, Connect,
     SeeConnected, PauseHst, EnterRecv, ClientGone, RecvReturns, MarkClosed,
     ProcessFrame, AwaitBody, RejectFrame, WorkerExits, workerVars
<1>2. connected' \in [Channels -> BOOLEAN] /\ running' \in [Channels -> BOOLEAN]
  BY <1>0 DEF TypeOK, WorkerStep, ServalStep, WorkerLeaves, DecideToConnect, Connect,
     SeeConnected, PauseHst, EnterRecv, ClientGone, RecvReturns, MarkClosed,
     ProcessFrame, AwaitBody, RejectFrame, WorkerExits
<1>3. imgFrames' \in 0..FrameCap
  BY ConstantsAssumption DEF TypeOK, WorkerStep, ServalStep, WorkerLeaves, DecideToConnect, Connect,
     SeeConnected, PauseHst, EnterRecv, ClientGone, RecvReturns, MarkClosed,
     ProcessFrame, AddFrame, AwaitBody, RejectFrame, WorkerExits, workerVars
<1>4. UnchangedByWorker
  BY DEF WorkerStep, ServalStep, WorkerLeaves, DecideToConnect, Connect,
     SeeConnected, PauseHst, EnterRecv, ClientGone, RecvReturns, MarkClosed,
     ProcessFrame, AwaitBody, RejectFrame, WorkerExits
<1> QED BY <1>1, <1>2, <1>3, <1>4 DEF TypeOK

LEMMA InitType == ASSUME Init PROVE TypeOK
<1>1. "idle" \in PortLabels /\ "done" \in CallbackLabels
  BY DEF PortLabels, CallbackLabels, PollLabels
<1>2. PcOK
  BY <1>1, ConstantsAssumption DEF Init, PcOK
<1>3. cur \in [Actors -> Channels] /\ imgFrames \in 0..FrameCap
  BY ConstantsAssumption DEF Init
<1> QED BY <1>2, <1>3 DEF Init, TypeOK, PcOK, WorkerLabels

LEMMA NextType == ASSUME TypeOK, [Next]_vars PROVE TypeOK'
<1>1. CASE WriteAcquireOn
  <2>1. PlaceOK'
    BY <1>1, GotoAtType, SharedLabels, ConstantsAssumption DEF WriteAcquireOn
  <2> QED BY <1>1, <2>1 DEF WriteAcquireOn, TypeOK, PlaceOK, PcOK, workerVars
<1>2. CASE WriteStop
  <2>1. PcOK'
    <3>1. "stopBegin" \in PortLabels
      BY DEF PortLabels, StopLabels
    <3> QED BY <1>2, <3>1, GotoType DEF WriteStop
  <2> QED BY <1>2, <2>1 DEF WriteStop, TypeOK, PcOK, workerVars
<1>3. CASE MeasurementEnds
  BY <1>3 DEF MeasurementEnds, TypeOK, actorVars, workerVars
<1>4. CASE UNCHANGED vars
  BY <1>4 DEF TypeOK, vars
<1> QED BY <1>1, <1>2, <1>3, <1>4, TearDownType, StopType, StartType, PollType,
           WorkerType DEF Next

\* Every variable has its type in every state of every behaviour.
THEOREM TypeCorrect == Spec => []TypeOK
BY InitType, NextType, PTL DEF Spec

-----------------------------------------------------------------------------
(* ConnectedHasReader: only a worker connects its channel, and the last    *)
(* thing a worker does is to disconnect it.                                *)

\* A step that connects nothing and ends no worker keeps the readers.
LEMMA ReadersUntouched ==
  ASSUME TypeOK, ConnectedHasReader,
         \A ch \in Channels : connected'[ch] => connected[ch],
         \A w \in Workers : Live(w) => Live(w)'
  PROVE  ConnectedHasReader'
BY DEF ConnectedHasReader

LEMMA WorkerReaders ==
  ASSUME TypeOK, ConnectedHasReader, NEW w \in Workers, WorkerStep(w) \/ ServalStep(w)
  PROVE  ConnectedHasReader'
<1>0. ChannelOf[w] \in Channels
  BY ConstantsAssumption
<1>1. CASE Connect(w)
  <2>1. Live(w)' /\ \A v \in Workers : Live(v) => Live(v)'
    BY <1>1 DEF Connect, WGoto, Live, TypeOK
  <2>2. \A ch \in Channels \ {ChannelOf[w]} : connected'[ch] = connected[ch]
    BY <1>1 DEF Connect, TypeOK
  <2> QED BY <1>0, <2>1, <2>2 DEF ConnectedHasReader
<1>2. CASE WorkerExits(w)
  <2>1. /\ connected' = [connected EXCEPT ![ChannelOf[w]] = FALSE]
        /\ \A v \in Workers \ {w} : Live(v) => Live(v)'
    BY <1>2 DEF WorkerExits, WGoto, Live, TypeOK
  <2> QED BY <1>0, <2>1 DEF TypeOK, ConnectedHasReader
<1>3. CASE MarkClosed(w)
  <2>1. /\ \A ch \in Channels : connected'[ch] => connected[ch]
        /\ \A v \in Workers : Live(v) => Live(v)'
    BY <1>0, <1>3 DEF MarkClosed, WGoto, Live, TypeOK
  <2> QED BY <2>1, ReadersUntouched
<1>4. CASE RejectFrame(w) \/ AwaitBody(w) \/ ProcessFrame(w)
  BY <1>4, ReadersUntouched DEF RejectFrame, AwaitBody, ProcessFrame, WGoto, Live, TypeOK
<1>5. CASE \/ WorkerLeaves(w) \/ DecideToConnect(w) \/ SeeConnected(w)
           \/ PauseHst(w) \/ EnterRecv(w)
  BY <1>5, ReadersUntouched DEF WorkerLeaves, DecideToConnect, SeeConnected, PauseHst, EnterRecv,
     WGoto, Live, TypeOK
<1>6. CASE ClientGone(w) \/ RecvReturns(w)
  <2>1. UNCHANGED connected /\ \A v \in Workers : Live(v) => Live(v)'
    BY <1>6 DEF ClientGone, RecvReturns, WGoto, Live, TypeOK
  <2> QED BY <2>1, ReadersUntouched
<1> QED BY <1>1, <1>2, <1>3, <1>4, <1>5, <1>6 DEF WorkerStep, ServalStep

LEMMA StartReaders ==
  ASSUME TypeOK, ConnectedHasReader, StartStep
  PROVE  ConnectedHasReader'
<1>1. UNCHANGED connected
  BY DEF StartStep, RejectTrigger, StopPriorMeasurement, PortsFree, NoPortsFree, Launch,
     LaunchFails, CreateCallback, Arm, SpawnWorker, SkipWorker
<1>2. \A w \in Workers : Live(w) => Live(w)'
  BY DEF StartStep, RejectTrigger, StopPriorMeasurement, PortsFree, NoPortsFree, Launch,
     LaunchFails, CreateCallback, Arm, SpawnWorker, SkipWorker, workerVars, Live, TypeOK
<1> QED BY <1>1, <1>2, ReadersUntouched

LEMMA TearDownReaders ==
  ASSUME TypeOK, ConnectedHasReader, NEW a \in Actors, TearDown(a) \/ StopStep(a)
  PROVE  ConnectedHasReader'
<1>1. \A ch \in Channels : connected'[ch] => connected[ch]
  BY DEF TearDown, StopStep, Signal, JoinNothing, SeeWorker, ReadId, BeginJoin, NoJoin, DoubleJoin,
     EndJoin, Return, ClearId, Disconnect, StopBegin, TestCallback, JoinCallback, EndJoinCallback,
     ClearCallback, StopMeasurement, StopMeasurementFails, Finish, TypeOK
<1>2. CASE EndJoin(a)
  <2>1. \A w \in Workers : Live(w) => Live(w)'
    BY <1>2 DEF EndJoin, Live, TypeOK
  <2> QED BY <1>1, <2>1, ReadersUntouched
<1>3. CASE ~EndJoin(a)
  <2>1. UNCHANGED wpc
    BY <1>3 DEF TearDown, StopStep, Signal, JoinNothing, SeeWorker, ReadId, BeginJoin, NoJoin,
       DoubleJoin, Return, ClearId, Disconnect, StopBegin, TestCallback, JoinCallback, EndJoinCallback,
       ClearCallback, StopMeasurement, StopMeasurementFails, Finish, workerVars
  <2> QED BY <1>1, <2>1, ReadersUntouched DEF Live
<1> QED BY <1>2, <1>3

LEMMA InitReaders == ASSUME Init PROVE ConnectedHasReader
BY DEF Init, ConnectedHasReader

LEMMA NextReaders == ASSUME TypeOK, ConnectedHasReader, [Next]_vars PROVE ConnectedHasReader'
<1>1. CASE WriteAcquireOn \/ WriteStop \/ MeasurementEnds \/ UNCHANGED vars
  BY <1>1, ReadersUntouched DEF WriteAcquireOn, WriteStop, MeasurementEnds, vars, workerVars, Live
<1>2. ASSUME NEW c \in Callbacks, PollStep(c) PROVE ConnectedHasReader'
  BY <1>2, ReadersUntouched DEF PollStep, FirstPoll, FirstPollFails, TestAcquiring,
     PollAnswer, PollFails, workerVars, Live
<1> QED BY <1>1, <1>2, StartReaders, TearDownReaders, WorkerReaders DEF Next

\* No connection is left open behind the last worker of its channel.
THEOREM ConnectedHasReaderHolds == Spec => []ConnectedHasReader
BY InitReaders, NextReaders, TypeCorrect, PTL DEF Spec

-----------------------------------------------------------------------------
(* Second part: Acquisition and Shutdown when no measurement ends by itself:  *)
(* then the port thread, or the thread that takes its place at the exit, is   *)
(* the only one that tears down.                                              *)

P == pc[Port]

-----------------------------------------------------------------------------
(* The callback threads only poll: they would stop if they saw an idle        *)
(* detector, but it measures as long as there is one.                         *)

CallbacksPoll ==
  \A c \in Callbacks :
    /\ pc[c] \in PollLabels /\ ~isIdle[c] /\ target[c] = NoThread
    /\ pc[c] # "done" => c = callbackThreadId /\ measuring

NoCallback == \A c \in Callbacks : pc[c] = "done"

\* The port thread waits for one thread at a time.
PortWaits ==
  /\ P # "suspended"
  /\ P = "joiningCallback" => target[Port] \in Callbacks /\ target[Port] = callbackThreadId
  /\ P = "joinCallback" => callbackThreadId # NoThread
  /\ P # "clearCallback" /\ callbackThreadId # NoThread => pc[callbackThreadId] # "done"
  /\ P \notin {"joiningCallback", "clear", "call", "joining"} => target[Port] = NoThread

EndLabels == {"stopMeasurement", "finish"}
PrepareLabels == {"prepare", "ports", "launch", "create"}

\* Past its join the callback thread has ended; a start begins without one, and
\* none is left when Acquire is off or the driver has shut down.
CallbackEnded ==
  /\ P \in {"clearCallback"} \cup TearLabels \cup EndLabels \cup PrepareLabels => NoCallback
  /\ P \in TearLabels \cup EndLabels \cup PrepareLabels => callbackThreadId = NoThread
  /\ P \in JoinCallbackLabels \cup TearLabels \cup EndLabels \cup PrepareLabels \cup {"arm"} =>
       ~acquiring
  /\ P = "idle" /\ (acquire = 0 \/ mode = "exit") =>
       NoCallback /\ callbackThreadId = NoThread /\ ~acquiring

\* What the port thread is doing at each place.
ModeRight ==
  /\ P \in PrepareLabels \cup {"arm", "spawn"} => mode = "start"
  /\ P \in EndLabels => mode = "stop"
  /\ P \in {"stopBegin"} \cup JoinCallbackLabels => mode \in {"stop", "exit"}
  /\ P \in {"create", "arm", "spawn"} => measuring
  /\ mode = "start" => acquire = 1

-----------------------------------------------------------------------------
(* The workers, channel by channel.                                           *)

NoThreadOf(ch) == \A w \in Workers : ChannelOf[w] = ch => ~Exists(w)

NoWorker(ch) == workerId[ch] = NoThread /\ ~running[ch] /\ NoThreadOf(ch)

NoWorkers == \A ch \in Channels : NoWorker(ch)

\* From the test of a channel's id to the store of NULL.
JoinPhase == {"join", "read", "call", "joining", "clear"}

\* Channel ch has been signalled, its worker joined.
Signalled(ch) ==
  \/ P = "signal" /\ ch < cur[Port]
  \/ P \in JoinPhase \cup {"disconnect"} /\ (mode = "stop" \/ ch <= cur[Port])
  \/ P \in EndLabels

Joined(ch) ==
  \/ P = "signal" /\ mode # "stop" /\ ch < cur[Port]
  \/ P \in JoinPhase /\ ch < cur[Port]
  \/ P = "disconnect" /\ (mode = "stop" \/ ch <= cur[Port])
  \/ P \in EndLabels

\* Between join and clear an id can be that of a thread already joined.
StaleId(ch) == P = "clear" /\ ch = cur[Port] /\ ch # Hst

\* A thread that has not been joined is remembered by its channel, or the port
\* thread holds its id. What the channel remembers and what the port thread is
\* about to join is one of the channel's threads.
Remembered ==
  /\ \A w \in Workers : Exists(w) => \/ workerId[ChannelOf[w]] = w
                                     \/ P \in {"call", "joining"} /\ target[Port] = w
  /\ \A ch \in Channels : workerId[ch] # NoThread =>
       ChannelOf[workerId[ch]] = ch /\ (Exists(workerId[ch]) \/ StaleId(ch))
  /\ P = "read" => workerId[cur[Port]] # NoThread
  /\ P \in {"call", "joining"} =>
       /\ target[Port] \in Workers /\ ChannelOf[target[Port]] = cur[Port] /\ Exists(target[Port])
       /\ workerId[cur[Port]] = IF cur[Port] = Hst THEN NoThread ELSE target[Port]
  /\ P = "clear" =>
       IF cur[Port] = Hst THEN target[Port] \in Workers /\ target[Port] = workerId[Hst]
       ELSE target[Port] = NoThread /\ NoThreadOf(cur[Port])

TornDown ==
  \A ch \in Channels : (Signalled(ch) => ~running[ch]) /\ (Joined(ch) => NoWorker(ch))

\* A start begins without workers, and gives them to one channel after the other.
\* None is left when Acquire is off or the driver has shut down.
StartsClean ==
  /\ mode = "start" /\ P \in TearLabels \cup PrepareLabels \cup {"arm"} => NoWorkers
  /\ P = "spawn" => \A ch \in Channels : ch >= cur[Port] => NoWorker(ch)
  /\ P = "idle" /\ (acquire = 0 \/ mode = "exit") => NoWorkers
  /\ acquire = 0 /\ mode # "stop" => NoWorkers

-----------------------------------------------------------------------------
\* A worker that has seen its channel connected finds it so when it has the lock.
ClientKept == \A w \in Workers : wpc[w] # "crashed" /\ (wpc[w] = "check" => connected[ChannelOf[w]])

\* A worker that has been signalled may add one frame more, and then leaves.
LastFrame ==
  /\ mode = "stop" /\ Signalled(Img) =>
       /\ imgFrames <= 1
       /\ imgFrames = 1 => \A w \in Workers : ChannelOf[w] = Img => 
           wpc[w] \in {"loop", "exit", "ended", "done"}
  /\ acquire = 0 /\ (mode # "stop" \/ P = "idle") => imgFrames <= 1

-----------------------------------------------------------------------------
(* The callback threads and the place of the port thread.                     *)

Callback == CallbacksPoll /\ PortWaits /\ CallbackEnded /\ ModeRight

LEMMA OnlyPortTears ==
  ASSUME CallbacksPoll, NEW c \in Callbacks
  PROVE  ~TearDown(c) /\ ~StopStep(c)
BY DEF CallbacksPoll, PollLabels, TearDown, StopStep, Signal, JoinNothing, SeeWorker, ReadId,
   BeginJoin, NoJoin, DoubleJoin, EndJoin, ClearId, Disconnect, StopBegin, TestCallback,
   JoinCallback, EndJoinCallback, ClearCallback, StopMeasurement, StopMeasurementFails, Finish

\* What does not concern the callback threads.
CallbacksStay ==
  /\ UNCHANGED <<isIdle, callbackThreadId>>
  /\ \A c \in Callbacks : pc'[c] = pc[c] /\ target'[c] = target[c]

LEMMA CallbacksUntouched ==
  ASSUME CallbacksStay
  PROVE  /\ NoCallback => NoCallback'
         /\ CallbacksPoll /\ (measuring => measuring') => CallbacksPoll'
         /\ CallbacksPoll /\ NoCallback => CallbacksPoll'
BY DEF CallbacksPoll, NoCallback, CallbacksStay

\* With nobody else who waits, the port thread is the first to join a thread.
LEMMA NobodyWaits ==
  ASSUME TypeOK, Callback, P \notin JoinLabels, NEW t
  PROVE  ~BeingJoined(t)
BY DEF Callback, CallbacksPoll, PollLabels, PortWaits, BeingJoined, JoinLabels, P

\* Where a step of the port thread leads it.
Moves(label, ch) == P' = label /\ cur'[Port] = ch

LEMMA GotoMoves ==
  ASSUME TypeOK, NEW l
  PROVE  /\ Goto(Port, l) => P' = l /\ \A c \in Callbacks : pc'[c] = pc[c]
         /\ \A ch : GotoAt(Port, l, ch) => Moves(l, ch) /\ \A c \in Callbacks : pc'[c] = pc[c]
BY ConstantsAssumption DEF P, TypeOK, Goto, GotoAt, Moves

PastJoinMoves ==
  \/ mode # "stop" /\ Moves("disconnect", cur[Port])
  \/ mode = "stop" /\ cur[Port] < NumChannels /\ Moves("join", cur[Port] + 1)
  \/ mode = "stop" /\ cur[Port] = NumChannels /\ Moves("disconnect", 1)

LEMMA TearDownMoves ==
  ASSUME TypeOK, TearDown(Port)
  PROVE  /\ UNCHANGED <<acquire, acquiring, callbackThreadId, mode, isIdle, measuring>>
         /\ P \in TearLabels
         /\ \A c \in Callbacks : pc'[c] = pc[c] /\ target'[c] = target[c]
         /\ ~EndJoin(Port) => UNCHANGED wpc
<1> USE SharedLabels DEF Mode, workerVars, P
<1>1. CASE Signal(Port) \/ DoubleJoin(Port) \/ SeeWorker(Port) \/ BeginJoin(Port)
  BY <1>1, GotoMoves DEF Signal, DoubleJoin, SeeWorker, BeginJoin
<1>2. CASE JoinNothing(Port) \/ ClearId(Port)
  BY <1>2, GotoMoves DEF JoinNothing, ClearId, PastJoin
<1>3. CASE ReadId(Port)
  BY <1>3, GotoMoves, ConstantsAssumption DEF ReadId, TypeOK
<1>4. CASE NoJoin(Port) \/ EndJoin(Port)
  BY <1>4, GotoMoves, ConstantsAssumption DEF NoJoin, EndJoin, Return, PastJoin, TypeOK
<1>5. CASE Disconnect(Port)
  BY <1>5, GotoMoves DEF Disconnect
<1> QED BY <1>1, <1>2, <1>3, <1>4, <1>5 DEF TearDown

\* Each of them, with what it does to the port thread.
LEMMA SignalMoves ==
  ASSUME TypeOK, Signal(Port)
  PROVE  \/ mode # "stop" /\ Moves("join", cur[Port])
         \/ mode = "stop" /\ cur[Port] < NumChannels /\ Moves("signal", cur[Port] + 1)
         \/ mode = "stop" /\ cur[Port] = NumChannels /\ Moves("join", 1)
<1>1. cur[Port] \in 1..NumChannels /\ NumChannels \in Nat
  BY ConstantsAssumption DEF TypeOK
<1>2. \/ mode # "stop" /\ GotoAt(Port, "join", cur[Port])
      \/ mode = "stop" /\ cur[Port] < NumChannels /\ GotoAt(Port, "signal", cur[Port] + 1)
      \/ mode = "stop" /\ cur[Port] = NumChannels /\ GotoAt(Port, "join", 1)
  BY <1>1 DEF Signal, Mode
<1> QED BY <1>2, GotoMoves

LEMMA JoinMoves ==
  ASSUME TypeOK, PastJoin(Port)
  PROVE  PastJoinMoves
<1>1. cur[Port] \in 1..NumChannels /\ NumChannels \in Nat
  BY ConstantsAssumption DEF TypeOK
<1>2. \/ mode # "stop" /\ GotoAt(Port, "disconnect", cur[Port])
      \/ mode = "stop" /\ cur[Port] < NumChannels /\ GotoAt(Port, "join", cur[Port] + 1)
      \/ mode = "stop" /\ cur[Port] = NumChannels /\ GotoAt(Port, "disconnect", 1)
  BY <1>1 DEF PastJoin, Mode
<1> QED BY <1>2, GotoMoves DEF PastJoinMoves

\* With a thread in its hands the port thread is not suspended in a join, and does not
\* go past it before the thread has ended.
LEMMA PortJoins ==
  ASSUME TypeOK, Callback, Remembered
  PROVE  ~NoJoin(Port) /\ ~DoubleJoin(Port)
<1>1. SUFFICES ASSUME P = "call" PROVE ~JoinReturns(target[Port]) /\ ~JoinSuspends(target[Port])
  BY DEF NoJoin, DoubleJoin, P
<1>2. target[Port] \in Workers /\ Exists(target[Port])
  BY <1>1 DEF Remembered
<1>3. ~BeingJoined(target[Port])
  BY <1>1, NobodyWaits DEF JoinLabels
<1> QED BY <1>2, <1>3, ConstantsAssumption DEF JoinReturns, JoinSuspends, Freed, Exists

LEMMA ReturnMoves ==
  ASSUME TypeOK, Return(Port)
  PROVE  IF cur[Port] = Hst THEN PastJoinMoves ELSE Moves("clear", cur[Port])
BY JoinMoves, GotoMoves DEF Return, ClearsIdFirst

LEMMA ClearIdMoves ==
  ASSUME TypeOK, ClearId(Port)
  PROVE  IF cur[Port] = Hst THEN Moves("call", cur[Port]) ELSE PastJoinMoves
BY JoinMoves, GotoMoves DEF ClearId, ClearsIdFirst

LEMMA DisconnectMoves ==
  ASSUME TypeOK, Disconnect(Port)
  PROVE  \/ mode = "stop" /\ cur[Port] < NumChannels /\ Moves("disconnect", cur[Port] + 1)
         \/ mode = "stop" /\ cur[Port] = NumChannels /\ Moves("stopMeasurement", 1)
         \/ mode # "stop" /\ cur[Port] < LastTornDown(Port) /\ Moves("signal", cur[Port] + 1)
         \/ mode = "start" /\ cur[Port] >= NumChannels - 1 /\ Moves("prepare", 1)
         \/ mode \in {"abort", "exit"} /\ cur[Port] = NumChannels /\ Moves("idle", 1)
<1>1. cur[Port] \in 1..NumChannels /\ NumChannels \in Nat /\ mode \in {"start", "abort", "stop", "exit"}
  BY ConstantsAssumption DEF TypeOK
<1>2. \/ mode = "stop" /\ cur[Port] < NumChannels /\ GotoAt(Port, "disconnect", cur[Port] + 1)
      \/ mode = "stop" /\ cur[Port] = NumChannels /\ GotoAt(Port, "stopMeasurement", 1)
      \/ mode # "stop" /\ cur[Port] < LastTornDown(Port) /\ GotoAt(Port, "signal", cur[Port] + 1)
      \/ mode = "start" /\ cur[Port] >= NumChannels - 1 /\ GotoAt(Port, "prepare", 1)
      \/ mode \in {"abort", "exit"} /\ cur[Port] = NumChannels /\ GotoAt(Port, "idle", 1)
  BY <1>1 DEF Disconnect, LastTornDown, Mode
<1> QED BY <1>2, GotoMoves

LEMMA TearDownCallback ==
  ASSUME TypeOK, Callback, Remembered, TearDown(Port)
  PROVE  Callback'
<1>1. CallbacksStay /\ UNCHANGED measuring
  BY TearDownMoves DEF CallbacksStay
<1>2. NoCallback' /\ callbackThreadId' = NoThread /\ ~acquiring'
  BY <1>1, TearDownMoves, CallbacksUntouched DEF Callback, CallbackEnded
<1>3. CallbacksPoll' /\ CallbackEnded'
  BY <1>1, <1>2, CallbacksUntouched DEF Callback, CallbackEnded
<1>4. PortWaits' /\ ModeRight'
  <2> USE SharedLabels DEF Callback, PortWaits, ModeRight, Moves, EndLabels, PrepareLabels
  <2>1. CASE Signal(Port)
    BY <1>2, <2>1, SignalMoves, TearDownMoves DEF Signal, P
  <2>2. CASE JoinNothing(Port)
    BY <1>2, <2>2, JoinMoves, TearDownMoves DEF JoinNothing, PastJoinMoves, P
  <2>3. CASE SeeWorker(Port) \/ ReadId(Port) \/ BeginJoin(Port)
    BY <1>2, <2>3, GotoMoves, TearDownMoves DEF SeeWorker, ReadId, BeginJoin, P
  <2>4. CASE NoJoin(Port) \/ DoubleJoin(Port)
    BY <2>4, PortJoins
  <2>5. CASE EndJoin(Port)
    <3>1. target'[Port] = NoThread
      BY <2>5 DEF EndJoin, Return, TypeOK
    <3> QED BY <1>2, <2>5, <3>1, ReturnMoves, TearDownMoves DEF EndJoin, PastJoinMoves
  <2>6. CASE ClearId(Port)
    <3>1. UNCHANGED target /\ P = "clear" /\ (cur[Port] # Hst => target[Port] = NoThread)
      BY <2>6 DEF ClearId, P, Remembered
    <3> QED BY <1>2, <2>6, <3>1, ClearIdMoves, TearDownMoves DEF PastJoinMoves
  <2>7. CASE Disconnect(Port)
    BY <1>2, <2>7, DisconnectMoves, TearDownMoves DEF Disconnect, P
  <2> QED BY <2>1, <2>2, <2>3, <2>4, <2>5, <2>6, <2>7 DEF TearDown
<1> QED BY <1>3, <1>4 DEF Callback

LEMMA StopCallback ==
  ASSUME TypeOK, Callback, StopStep(Port)
  PROVE  Callback'
<1> USE SharedLabels DEF Callback, CallbacksStay, EndLabels, PrepareLabels, workerVars, AfterStop, Moves
<1>1. CASE StopBegin(Port) \/ TestCallback(Port) \/ JoinCallback(Port)
  <2>1. /\ CallbacksStay /\ UNCHANGED <<measuring, mode, acquire>>
        /\ P \in {"stopBegin", "testCallback", "joinCallback"}
        /\ acquiring' = IF P = "stopBegin" THEN FALSE ELSE acquiring
    BY <1>1, GotoMoves, ConstantsAssumption DEF StopBegin, TestCallback, JoinCallback, TypeOK, P
  <2>2. CASE callbackThreadId = NoThread
    <3>1. NoCallback
      BY <2>2, ConstantsAssumption DEF CallbacksPoll, NoCallback
    <3>2. P' \in {"testCallback", "clearCallback"} /\ UNCHANGED target /\ P # "joinCallback"
      BY <1>1, <2>1, <2>2, GotoMoves DEF StopBegin, TestCallback, JoinCallback, P, PortWaits
    <3>3. CallbacksPoll' /\ CallbackEnded'
      BY <2>1, <3>1, <3>2, CallbacksUntouched DEF CallbackEnded
    <3>4. PortWaits' /\ ModeRight'
      BY <2>1, <2>2, <3>2 DEF PortWaits, ModeRight
    <3> QED BY <3>3, <3>4
  <2>3. CASE callbackThreadId # NoThread
    <3>1. callbackThreadId \in Callbacks /\ callbackThreadId # Port
      BY <2>3, ConstantsAssumption DEF TypeOK
    <3>2. pc[callbackThreadId] # "done" /\ ~BeingJoined(callbackThreadId)
      BY <2>1, <2>3, NobodyWaits DEF PortWaits, JoinLabels
    <3>3. JoinWaits(callbackThreadId) /\ ~JoinReturns(callbackThreadId) /\ ~JoinSuspends(callbackThreadId)
      BY <2>3, <3>1, <3>2, ConstantsAssumption DEF JoinWaits, JoinReturns, JoinSuspends, Freed
    <3>4. \/ P' \in {"testCallback", "joinCallback"} /\ UNCHANGED target
          \/ P' = "joiningCallback" /\ target' = [target EXCEPT ![Port] = callbackThreadId]
      BY <1>1, <2>3, <3>1, <3>3, GotoMoves DEF StopBegin, TestCallback, JoinCallback, P
    <3>5. CallbacksPoll' /\ CallbackEnded'
      BY <2>1, <3>4, CallbacksUntouched DEF CallbackEnded
    <3>6. pc'[callbackThreadId'] # "done" /\ callbackThreadId' = callbackThreadId
      BY <2>1, <3>1, <3>2
    <3>7. PortWaits' /\ ModeRight'
      BY <2>1, <2>3, <3>1, <3>4, <3>6 DEF PortWaits, ModeRight, TypeOK
    <3> QED BY <3>5, <3>7
  <2> QED BY <2>2, <2>3
<1>2. CASE EndJoinCallback(Port)
  <2> DEFINE t == target[Port]
  <2>1. /\ t \in Callbacks /\ t = callbackThreadId /\ t # Port /\ P = "joiningCallback"
        /\ pc' = [pc EXCEPT ![Port] = "clearCallback", ![t] = "done"]
        /\ target' = [target EXCEPT ![Port] = NoThread]
        /\ UNCHANGED <<acquire, acquiring, callbackThreadId, mode, isIdle, measuring>>
    BY <1>2, ConstantsAssumption DEF EndJoinCallback, PortWaits, P
  <2>2. P' = "clearCallback" /\ pc'[t] = "done" /\ \A c \in Callbacks \ {t} : pc'[c] = pc[c]
    BY <2>1, ConstantsAssumption DEF P, TypeOK
  <2>3. NoCallback'
    BY <2>1, <2>2 DEF CallbacksPoll, NoCallback
  <2>4. \A c \in Callbacks : target'[c] = target[c]
    BY <2>1, ConstantsAssumption
  <2>5. CallbacksPoll'
    BY <2>1, <2>3, <2>4 DEF CallbacksPoll, NoCallback, PollLabels
  <2>6. CallbackEnded'
    BY <2>1, <2>2, <2>3 DEF CallbackEnded
  <2>7. PortWaits' /\ ModeRight'
    BY <2>1, <2>2 DEF PortWaits, ModeRight, TypeOK
  <2> QED BY <2>5, <2>6, <2>7
<1>3. CASE ClearCallback(Port)
  <2>1. /\ UNCHANGED <<isIdle, target, measuring, mode, acquiring>>
        /\ Moves("signal", 1) /\ callbackThreadId' = NoThread
        /\ \A c \in Callbacks : pc'[c] = pc[c]
    BY <1>3, GotoMoves DEF ClearCallback
  <2>2. NoCallback /\ ~acquiring
    BY <1>3 DEF ClearCallback, P, CallbackEnded
  <2>3. CallbacksPoll' /\ CallbackEnded'
    BY <2>1, <2>2 DEF CallbackEnded, CallbacksPoll, NoCallback
  <2>4. PortWaits' /\ ModeRight'
    BY <1>3, <2>1 DEF ClearCallback, P, PortWaits, ModeRight
  <2> QED BY <2>3, <2>4
<1>4. CASE StopMeasurement(Port) \/ StopMeasurementFails(Port) \/ Finish(Port)
  <2>1. /\ UNCHANGED <<isIdle, target, mode, acquiring, callbackThreadId>>
        /\ P \in EndLabels /\ P' \in {"finish", "idle"}
        /\ \A c \in Callbacks : pc'[c] = pc[c]
    BY <1>4, GotoMoves DEF StopMeasurement, StopMeasurementFails, Finish, P
  <2>2. NoCallback
    BY <2>1 DEF CallbackEnded
  <2>3. CallbacksPoll' /\ CallbackEnded'
    BY <2>1, <2>2, CallbacksUntouched DEF CallbackEnded
  <2>4. callbackThreadId = NoThread /\ mode = "stop" /\ target[Port] = NoThread
    BY <2>1 DEF CallbackEnded, ModeRight, PortWaits
  <2>5. PortWaits' /\ ModeRight'
    BY <2>1, <2>4 DEF PortWaits, ModeRight
  <2> QED BY <2>3, <2>5
<1> QED BY <1>1, <1>2, <1>3, <1>4 DEF StopStep

\* What a step of acquireStart changes beside the workers.
LEMMA StartMoves ==
  ASSUME TypeOK, StartStep
  PROVE  /\ UNCHANGED <<acquire, isIdle, target>>
         /\ P \in PrepareLabels \cup {"arm", "spawn"}
         /\ ~CreateCallback => UNCHANGED callbackThreadId /\ \A c \in Callbacks : pc'[c] = pc[c]
<1> USE DEF workerVars, P, PrepareLabels
<1>1. CASE RejectTrigger \/ StopPriorMeasurement \/ PortsFree \/ NoPortsFree \/ Launch
  BY <1>1, GotoMoves DEF RejectTrigger, StopPriorMeasurement, PortsFree, NoPortsFree, Launch
<1>2. CASE LaunchFails \/ Arm
  BY <1>2, GotoMoves DEF LaunchFails, Arm
<1>3. CASE SpawnWorker \/ SkipWorker
  BY <1>3, GotoMoves DEF SpawnWorker, SkipWorker, PastSpawn
<1>4. CASE CreateCallback
  BY <1>4 DEF CreateCallback
<1> QED BY <1>1, <1>2, <1>3, <1>4 DEF StartStep

LEMMA SpawnMoves ==
  ASSUME TypeOK, PastSpawn
  PROVE  \/ cur[Port] < NumChannels /\ Moves("spawn", cur[Port] + 1)
         \/ cur[Port] = NumChannels /\ Moves("idle", 1)
<1>1. cur[Port] \in 1..NumChannels /\ NumChannels \in Nat
  BY ConstantsAssumption DEF TypeOK
<1>2. \/ cur[Port] < NumChannels /\ GotoAt(Port, "spawn", cur[Port] + 1)
      \/ cur[Port] = NumChannels /\ GotoAt(Port, "idle", 1)
  BY <1>1 DEF PastSpawn
<1> QED BY <1>2, GotoMoves

LEMMA StartCallback ==
  ASSUME TypeOK, Callback, StartStep
  PROVE  Callback'
<1> USE SharedLabels DEF Callback, CallbacksStay, EndLabels, PrepareLabels, workerVars, Moves
<1>1. CASE RejectTrigger \/ StopPriorMeasurement \/ PortsFree \/ NoPortsFree \/ Launch \/ LaunchFails
  <2>1. /\ CallbacksStay /\ UNCHANGED <<target, acquiring>>
        /\ P \in {"prepare", "ports", "launch"} /\ acquire' = acquire
        /\ mode = "start" /\ acquire = 1
    BY <1>1, StartMoves DEF RejectTrigger, StopPriorMeasurement, PortsFree, NoPortsFree, Launch,
       LaunchFails, P, CreateCallback, ModeRight
  <2>2. CallbacksPoll' /\ CallbackEnded'
    BY <2>1, CallbacksUntouched DEF CallbackEnded
  <2>3. \/ P' \in {"idle", "ports", "launch"} /\ mode' = mode
        \/ P' = "create" /\ mode' = mode /\ measuring'
        \/ P' = "signal" /\ mode' = "abort"
    BY <1>1, GotoMoves DEF RejectTrigger, StopPriorMeasurement, PortsFree, NoPortsFree, Launch,
       LaunchFails
  <2>4. PortWaits' /\ ModeRight'
    BY <2>1, <2>3 DEF PortWaits, ModeRight, TypeOK
  <2> QED BY <2>2, <2>4
<1>2. CASE CreateCallback
  <2>1. P = "create" /\ UNCHANGED <<acquiring, isIdle, target, mode, measuring>>
    BY <1>2 DEF CreateCallback, P
  <2>2. /\ P' = "arm"
        /\ \A c \in Callbacks : pc'[c] = pc[c] \/ (pc'[c] = "initial" /\ callbackThreadId' = c)
    BY <1>2, GotoMoves, ConstantsAssumption DEF CreateCallback, P, TypeOK
  <2>3. NoCallback /\ ~acquiring /\ measuring /\ mode = "start" /\ target[Port] = NoThread
        /\ acquire' = 1
    BY <1>2, <2>1, StartMoves DEF StartStep, CallbackEnded, ModeRight, PortWaits
  <2>4. CallbacksPoll'
    BY <2>1, <2>2, <2>3 DEF CallbacksPoll, NoCallback, PollLabels
  <2>5. callbackThreadId' = NoThread \/ pc'[callbackThreadId'] = "initial"
    BY <1>2, ConstantsAssumption DEF CreateCallback, TypeOK
  <2>6. CallbackEnded' /\ PortWaits' /\ ModeRight'
    BY <2>1, <2>2, <2>3, <2>5 DEF CallbackEnded, PortWaits, ModeRight
  <2> QED BY <2>4, <2>6
<1>3. CASE Arm \/ SpawnWorker \/ SkipWorker
  <2>1. /\ CallbacksStay /\ UNCHANGED <<target, measuring, mode>>
        /\ P \in {"arm", "spawn"} /\ P' \in {"spawn", "idle"}
        /\ acquire' = 1 /\ mode = "start"
    BY <1>3, StartMoves, GotoMoves, SpawnMoves
       DEF Arm, SpawnWorker, SkipWorker, P, CreateCallback, ModeRight
  <2>2. CallbacksPoll' /\ CallbackEnded'
    BY <2>1, CallbacksUntouched DEF CallbackEnded
  <2>3. PortWaits' /\ ModeRight'
    BY <2>1 DEF PortWaits, ModeRight, TypeOK
  <2> QED BY <2>2, <2>3
<1> QED BY <1>1, <1>2, <1>3 DEF StartStep


LEMMA WriteCallback ==
  ASSUME TypeOK, Callback, WriteAcquireOn \/ WriteStop
  PROVE  Callback'
<1> USE SharedLabels DEF Callback, CallbacksStay, EndLabels, PrepareLabels, workerVars, Moves
<1>1. /\ CallbacksStay /\ UNCHANGED <<target, measuring, acquiring>> /\ P = "idle"
      /\ \/ acquire = 0 /\ acquire' = 1 /\ P' = "signal" /\ mode' = "start"
         \/ P' = "stopBegin" /\ mode' = "stop"
  BY GotoMoves DEF WriteAcquireOn, WriteStop, P
<1>2. CallbacksPoll' /\ CallbackEnded'
  BY <1>1, CallbacksUntouched DEF CallbackEnded
<1>3. PortWaits' /\ ModeRight'
  BY <1>1, ConstantsAssumption DEF PortWaits, ModeRight, TypeOK
<1> QED BY <1>2, <1>3

LEMMA ShutDownCallback ==
  ASSUME TypeOK, Callback, ShutDown
  PROVE  Callback'
<1> USE SharedLabels DEF Callback, CallbacksStay, EndLabels, PrepareLabels, workerVars
<1>1. /\ CallbacksStay /\ UNCHANGED <<target, measuring, acquiring, acquire>>
      /\ P = "idle" /\ P' = "stopBegin" /\ mode' = "exit"
  BY GotoMoves DEF ShutDown, P
<1>2. CallbacksPoll' /\ CallbackEnded'
  BY <1>1, CallbacksUntouched DEF CallbackEnded
<1>3. PortWaits' /\ ModeRight'
  BY <1>1, ConstantsAssumption DEF PortWaits, ModeRight, TypeOK
<1> QED BY <1>2, <1>3

\* A step of a callback thread moves only that thread, and clears acquiring at most.
LEMMA PollMoves ==
  ASSUME TypeOK, CallbacksPoll, NEW c \in Callbacks, PollStep(c)
  PROVE  /\ UNCHANGED <<acquire, callbackThreadId, workerId, running, connected, mode, cur, target,
                        wpc, imgFrames, measuring>>
         /\ P' = P /\ (acquiring' => acquiring) /\ pc[c] # "done"
         /\ pc'[c] \in PollLabels \ {"done"} /\ ~isIdle'[c]
         /\ \A d \in Callbacks \ {c} : pc'[d] = pc[d] /\ isIdle'[d] = isIdle[d]
<1> USE ConstantsAssumption DEF TypeOK, Goto, workerVars, P, PollLabels
<1>1. ~isIdle[c] /\ (pc[c] # "done" => measuring)
  BY DEF CallbacksPoll
<1>2. CASE FirstPoll(c) \/ FirstPollFails(c) 
  BY <1>1, <1>2 DEF FirstPoll, FirstPollFails
<1>3. CASE TestAcquiring(c)
  BY <1>1, <1>3 DEF TestAcquiring
<1>4. CASE PollAnswer(c)
  <2>1. pc[c] = "get" /\ Goto(c, "poll")
    BY <1>1, <1>4 DEF PollAnswer
  <2>2. ~isIdle'[c] /\ \A d \in Callbacks \ {c} : isIdle'[d] = isIdle[d]
    BY <1>1, <1>4 DEF PollAnswer
  <2> QED BY <1>4, <2>1, <2>2 DEF PollAnswer
<1>5. CASE PollFails(c)
  <2>1. pc[c] = "get" /\ Goto(c, "poll")
    BY <1>1, <1>5 DEF PollFails
  <2>2. acquiring' => acquiring
    BY <1>5, Zenon DEF PollFails
  <2> QED BY <1>1, <1>5, <2>1, <2>2 DEF PollFails
<1> QED BY <1>2, <1>3, <1>4, <1>5 DEF PollStep

LEMMA PollCallback ==
  ASSUME TypeOK, Callback, NEW c \in Callbacks, PollStep(c)
  PROVE  Callback'
<1>1. CallbacksPoll
  BY DEF Callback
<1>2. CallbacksPoll'
  BY <1>1, PollMoves DEF CallbacksPoll
<1>3. ~NoCallback
  BY <1>1, PollMoves DEF NoCallback
<1>4. CallbackEnded'
  BY <1>1, <1>3, PollMoves, SharedLabels DEF Callback, CallbackEnded, EndLabels, PrepareLabels
<1>5. PortWaits' /\ ModeRight'
  <2>1. \A d \in Callbacks : pc[d] # "done" => pc'[d] # "done"
    BY <1>1, PollMoves
  <2> QED BY <1>1, <2>1, PollMoves DEF Callback, PortWaits, ModeRight, TypeOK
<1> QED BY <1>2, <1>4, <1>5 DEF Callback

LEMMA WorkerCallback ==
  ASSUME TypeOK, Callback, NEW w \in Workers, WorkerStep(w) \/ ServalStep(w)
  PROVE  Callback'
<1>1. UnchangedByWorker
  BY DEF WorkerStep, ServalStep, WorkerLeaves, DecideToConnect, Connect,
     SeeConnected, PauseHst, EnterRecv, ClientGone, RecvReturns, MarkClosed,
     ProcessFrame, AwaitBody, RejectFrame, WorkerExits
<1> QED BY <1>1 DEF UnchangedByWorker, actorVars, Callback, CallbacksPoll, NoCallback, PortWaits,
           CallbackEnded, ModeRight, P

-----------------------------------------------------------------------------
(* The workers and what the channels remember of them.                        *)

Tearing == Remembered /\ TornDown /\ StartsClean

\* A step that spawns nothing leaves a channel without a worker as it is.
NothingSpawned ==
  /\ \A ch \in Channels : workerId'[ch] \in {workerId[ch], NoThread} /\ (running'[ch] => running[ch])
  /\ \A w \in Workers : Exists(w)' => Exists(w)

LEMMA NoWorkerStays ==
  ASSUME NothingSpawned, NEW ch \in Channels, NoWorker(ch)
  PROVE  NoWorker(ch)'
BY DEF NothingSpawned, NoWorker, NoThreadOf

LEMMA NoWorkersStay ==
  ASSUME NothingSpawned, NoWorkers
  PROVE  NoWorkers'
BY NoWorkerStays DEF NoWorkers

\* The port thread stays where it is, and no thread is freed.
LEMMA TearingUntouched ==
  ASSUME TypeOK, Tearing, NothingSpawned, \A w \in Workers : Exists(w) => Exists(w)',
         UNCHANGED <<workerId, mode, acquire, P, cur[Port], target[Port]>>
  PROVE  Tearing'
<1>1. \A ch \in Channels : workerId[ch] # NoThread => workerId[ch] \in Workers
  BY DEF TypeOK
<1>2. NoThreadOf(cur[Port]) => NoThreadOf(cur[Port])'
  BY DEF NothingSpawned, NoThreadOf
<1>3. \A ch \in Channels : StaleId(ch)' <=> StaleId(ch)
  BY DEF StaleId
<1>4. Remembered'
  <2> USE DEF Tearing, Remembered
  <2>1. \A w \in Workers : Exists(w)' => \/ workerId'[ChannelOf[w]] = w
                                         \/ P' \in {"call", "joining"} /\ target'[Port] = w
    BY DEF NothingSpawned
  <2>2. \A ch \in Channels : workerId'[ch] # NoThread =>
          ChannelOf[workerId'[ch]] = ch /\ (Exists(workerId[ch])' \/ StaleId(ch)')
    BY <1>1, <1>3
  <2>3. P' \in {"call", "joining"} => target[Port] \in Workers /\ Exists(target[Port])'
    OBVIOUS
  <2> QED BY <1>2, <2>1, <2>2, <2>3 DEF Exists
<1>5. TornDown'
  BY NoWorkerStays DEF Tearing, NothingSpawned, TornDown, Signalled, Joined
<1>6. StartsClean'
  BY NoWorkersStay, NoWorkerStays DEF Tearing, StartsClean
<1> QED BY <1>4, <1>5, <1>6 DEF Tearing

\* The port thread goes on, without a thread in its hands.
LEMMA RememberedStays ==
  ASSUME Remembered, UNCHANGED <<workerId, wpc>>,
         P \notin {"read", "call", "joining", "clear"}, P' \notin {"read", "call", "joining", "clear"}
  PROVE  Remembered'
BY DEF Remembered, Exists, StaleId

\* During a tear-down only its end and its place matter.
LEMMA StartsCleanInTearDown ==
  ASSUME StartsClean, NothingSpawned, UNCHANGED <<mode, acquire>>, P \in TearLabels,
         P' \in TearLabels \cup {"stopMeasurement", "prepare", "idle"},
         P' = "idle" => NoWorkers
  PROVE  StartsClean'
<1>1. NoWorkers => NoWorkers'
  BY NoWorkersStay
<1> QED BY <1>1 DEF StartsClean, TearLabels, PrepareLabels

LEMMA TearDownTearing ==
  ASSUME TypeOK, Callback, Tearing, TearDown(Port)
  PROVE  Tearing'
<1>0. /\ NumChannels \in Nat \ {0, 1} /\ cur[Port] \in 1..NumChannels /\ cur[Port] \in Channels
      /\ mode \in {"start", "abort", "stop", "exit"} /\ mode' = mode /\ acquire' = acquire
      /\ NoThread \notin Workers /\ Hst \in Channels
      /\ \A w \in Workers : ChannelOf[w] \in Channels
  BY TearDownMoves, ConstantsAssumption DEF TypeOK, Hst
<1> USE <1>0 DEF Moves, TearLabels, JoinPhase
<1>1. CASE Signal(Port)
  <2>1. /\ P = "signal" /\ UNCHANGED <<workerId, wpc>>
        /\ running' = [running EXCEPT ![cur[Port]] = FALSE]
    BY <1>1 DEF Signal, P
  <2>2. NothingSpawned
    BY <2>1 DEF NothingSpawned, Exists, TypeOK
  <2>3. P' \in {"signal", "join"}
    BY <1>1, SignalMoves
  <2>4. Remembered' /\ StartsClean'
    BY <2>1, <2>2, <2>3, RememberedStays, StartsCleanInTearDown DEF Tearing
  <2>5. \A ch \in Channels : Signalled(ch)' => Signalled(ch) \/ ch = cur[Port]
    BY <1>1, <2>1, SignalMoves DEF Signalled, EndLabels
  <2>6. \A ch \in Channels : Joined(ch)' => Joined(ch)
    BY <1>1, <2>1, SignalMoves DEF Joined, EndLabels
  <2>7. TornDown'
    BY <2>1, <2>2, <2>5, <2>6, NoWorkerStays DEF Tearing, TornDown, TypeOK
  <2> QED BY <2>4, <2>7 DEF Tearing
<1>2. CASE JoinNothing(Port)
  <2>1. P = "join" /\ UNCHANGED <<workerId, running, wpc>> /\ workerId[cur[Port]] = NoThread
    BY <1>2 DEF JoinNothing, P, workerVars
  <2>2. NothingSpawned
    BY <2>1 DEF NothingSpawned, Exists, TypeOK
  <2>3. PastJoinMoves
    BY <1>2, JoinMoves DEF JoinNothing
  <2>4. Remembered' /\ StartsClean'
    BY <2>1, <2>2, <2>3, RememberedStays, StartsCleanInTearDown DEF Tearing, PastJoinMoves
  <2>5. NoWorker(cur[Port])
    <3>1. ~running[cur[Port]]
      BY <2>1 DEF Tearing, TornDown, Signalled
    <3>2. NoThreadOf(cur[Port])
      BY <2>1 DEF Tearing, Remembered, NoThreadOf
    <3> QED BY <2>1, <3>1, <3>2 DEF NoWorker
  <2>6. \A ch \in Channels : /\ Signalled(ch)' => Signalled(ch)
                             /\ Joined(ch)' => Joined(ch) \/ ch = cur[Port]
    BY <2>1, <2>3 DEF Signalled, Joined, EndLabels, PastJoinMoves
  <2>7. TornDown'
    BY <2>1, <2>2, <2>5, <2>6, NoWorkerStays DEF Tearing, TornDown
  <2> QED BY <2>4, <2>7 DEF Tearing
<1>3. CASE SeeWorker(Port) \/ ReadId(Port) \/ BeginJoin(Port)
  <2>1. UNCHANGED <<workerId, running, wpc, cur>>
    BY <1>3 DEF SeeWorker, ReadId, BeginJoin, workerVars
  <2>2. NothingSpawned
    BY <2>1 DEF NothingSpawned, Exists, TypeOK
  <2>3. P \in {"join", "read", "call"} /\ P' \in JoinPhase
    BY <1>3, GotoMoves DEF SeeWorker, ReadId, BeginJoin, P
  <2>4. StartsClean'
    BY <2>2, <2>3, StartsCleanInTearDown DEF Tearing
  <2>5. \A ch \in Channels : (Signalled(ch)' => Signalled(ch)) /\ (Joined(ch)' => Joined(ch))
    BY <2>1, <2>3 DEF Signalled, Joined, EndLabels
  <2>6. TornDown'
    BY <2>1, <2>2, <2>5, NoWorkerStays DEF Tearing, TornDown
  <2>7. Remembered'
    <3>1. CASE SeeWorker(Port)
      <4>1. P = "join" /\ P' = "read" /\ workerId[cur[Port]] # NoThread
        BY <3>1, GotoMoves DEF SeeWorker, P
      <4> QED BY <2>1, <4>1 DEF Tearing, Remembered, Exists, StaleId
    <3>2. CASE ReadId(Port)
      <4> DEFINE w == workerId[cur[Port]]
      <4>1. /\ P = "read" /\ P' = IF cur[Port] = Hst THEN "clear" ELSE "call"
            /\ target'[Port] = w
        BY <3>2, GotoMoves, ConstantsAssumption DEF ReadId, ClearsIdFirst, P, Actors, TypeOK
      <4>2. w \in Workers /\ ChannelOf[w] = cur[Port] /\ Exists(w)
        BY <4>1 DEF Tearing, Remembered, StaleId, TypeOK
      <4>3. wpc'[w] # "done"
        BY <2>1, <4>2 DEF Exists
      <4>4. \A v \in Workers : Exists(v)' => workerId'[ChannelOf[v]] = v
        BY <2>1, <4>1 DEF Tearing, Remembered, Exists
      <4>5. \A ch \in Channels : workerId'[ch] # NoThread =>
              ChannelOf[workerId'[ch]] = ch /\ wpc'[workerId'[ch]] # "done"
        BY <2>1, <4>1 DEF Tearing, Remembered, Exists, StaleId
      <4> QED BY <2>1, <4>1, <4>2, <4>3, <4>4, <4>5 DEF Remembered, Exists
    <3>3. CASE BeginJoin(Port)
      <4>1. P = "call" /\ P' = "joining" /\ UNCHANGED target
        BY <3>3, GotoMoves DEF BeginJoin, P
      <4> QED BY <2>1, <4>1 DEF Tearing, Remembered, Exists, StaleId
    <3> QED BY <1>3, <3>1, <3>2, <3>3
  <2> QED BY <2>4, <2>6, <2>7 DEF Tearing
<1>4. CASE NoJoin(Port) \/ DoubleJoin(Port)
  BY <1>4, PortJoins DEF Tearing
<1>5. CASE EndJoin(Port)
  <2> DEFINE t == target[Port]
  <2>1. /\ P = "joining" /\ UNCHANGED <<running, workerId>>
        /\ wpc' = [wpc EXCEPT ![t] = "done"] /\ target'[Port] = NoThread
    BY <1>5, ConstantsAssumption DEF EndJoin, Return, P, Actors, TypeOK
  <2>2. /\ t \in Workers /\ ChannelOf[t] = cur[Port]
        /\ workerId[cur[Port]] = IF cur[Port] = Hst THEN NoThread ELSE t
    BY <2>1 DEF Tearing, Remembered
  <2>3. \A v \in Workers : Exists(v)' <=> Exists(v) /\ v # t
    BY <2>1, <2>2 DEF Exists, TypeOK
  <2>4. NothingSpawned
    BY <2>1, <2>3 DEF NothingSpawned
  <2>5. IF cur[Port] = Hst THEN PastJoinMoves ELSE Moves("clear", cur[Port])
    BY <1>5, ReturnMoves DEF EndJoin
  <2>6. StartsClean'
    BY <2>1, <2>4, <2>5, StartsCleanInTearDown DEF Tearing, PastJoinMoves
  <2>7. \A v \in Workers : Exists(v)' => workerId'[ChannelOf[v]] = v /\ ChannelOf[v] # cur[Port]
    BY <2>1, <2>2, <2>3 DEF Tearing, Remembered
  <2>8. \A v \in Workers : ChannelOf[v] = cur[Port] => ~Exists(v)'
    BY <2>7
  <2>9. Remembered'
    <3>1. ASSUME NEW ch \in Channels, workerId'[ch] # NoThread
          PROVE  ChannelOf[workerId'[ch]] = ch /\ (wpc'[workerId'[ch]] # "done" \/ StaleId(ch)')
      <4>1. workerId[ch] \in Workers /\ ChannelOf[workerId[ch]] = ch /\ Exists(workerId[ch])
        BY <2>1, <3>1 DEF Tearing, Remembered, StaleId, TypeOK
      <4>2. CASE workerId[ch] # t
        BY <2>1, <2>3, <4>1, <4>2 DEF Exists
      <4>3. CASE workerId[ch] = t
        BY <2>1, <2>2, <2>5, <4>1, <4>3 DEF StaleId
      <4> QED BY <4>2, <4>3
    <3>2. /\ P' \in {"clear", "disconnect", "join"}
          /\ P' = "clear" => cur'[Port] = cur[Port] /\ cur[Port] # Hst
      BY <2>5 DEF PastJoinMoves
    <3>3. P' = "clear" => cur'[Port] # Hst /\ NoThreadOf(cur[Port])'
      BY <2>8, <3>2 DEF NoThreadOf
    <3> QED BY <2>1, <2>7, <3>1, <3>2, <3>3 DEF Remembered, Exists
  <2>10. cur[Port] = Hst => NoWorker(Hst)'
    <3>1. ~running[cur[Port]]
      BY <2>1 DEF Tearing, TornDown, Signalled
    <3> QED BY <2>1, <2>2, <2>8, <3>1 DEF NoWorker, NoThreadOf
  <2>11. \A ch \in Channels : /\ Signalled(ch)' => Signalled(ch)
                              /\ Joined(ch)' => Joined(ch) \/ (ch = cur[Port] /\ cur[Port] = Hst)
    BY <2>1, <2>5 DEF Signalled, Joined, EndLabels, PastJoinMoves
  <2>12. TornDown'
    BY <2>1, <2>4, <2>10, <2>11, NoWorkerStays DEF Tearing, TornDown
  <2> QED BY <2>6, <2>9, <2>12 DEF Tearing
<1>6. CASE ClearId(Port)
  <2>1. /\ P = "clear" /\ UNCHANGED <<running, wpc, target>>
        /\ workerId' = [workerId EXCEPT ![cur[Port]] = NoThread]
    BY <1>6 DEF ClearId, P, workerVars
  <2>2. workerId'[cur[Port]] = NoThread /\ \A ch \in Channels \ {cur[Port]} : workerId'[ch] = workerId[ch]
    BY <2>1 DEF TypeOK
  <2>3. \A v \in Workers : Exists(v)' <=> Exists(v)
    BY <2>1 DEF Exists
  <2>4. NothingSpawned
    BY <2>1, <2>2, <2>3 DEF NothingSpawned
  <2>5. IF cur[Port] = Hst THEN Moves("call", cur[Port]) ELSE PastJoinMoves
    BY <1>6, ClearIdMoves
  <2>6. StartsClean'
    BY <2>1, <2>4, <2>5, StartsCleanInTearDown DEF Tearing, PastJoinMoves
  <2>7. \A v \in Workers : Exists(v) => workerId[ChannelOf[v]] = v
    BY <2>1 DEF Tearing, Remembered
  <2>8. ASSUME NEW ch \in Channels, workerId'[ch] # NoThread
        PROVE  ChannelOf[workerId'[ch]] = ch /\ wpc'[workerId'[ch]] # "done"
    <3>1. ch # cur[Port] /\ workerId'[ch] = workerId[ch] /\ workerId[ch] \in Workers
      BY <2>2, <2>8 DEF TypeOK
    <3> QED BY <2>1, <2>8, <3>1 DEF Tearing, Remembered, StaleId, Exists
  <2>9. CASE cur[Port] = Hst
    <3>1. P' = "call" /\ cur'[Port] = Hst /\ UNCHANGED target
      BY <2>1, <2>5, <2>9
    <3>2. target[Port] \in Workers /\ target[Port] = workerId[Hst]
      BY <2>1, <2>9 DEF Tearing, Remembered
    <3>3. ChannelOf[target[Port]] = Hst /\ Exists(target[Port])
      BY <2>9, <3>2 DEF Tearing, Remembered, StaleId
    <3>4. wpc'[target[Port]] # "done"
      BY <2>1, <3>3 DEF Exists
    <3>5. \A v \in Workers : Exists(v)' => workerId'[ChannelOf[v]] = v \/ target'[Port] = v
      BY <2>2, <2>3, <2>7, <2>9, <3>1, <3>2
    <3>6. Remembered'
      BY <2>2, <2>8, <2>9, <3>1, <3>2, <3>3, <3>4, <3>5 DEF Remembered, Exists
    <3>7. \A ch \in Channels : (Signalled(ch)' => Signalled(ch)) /\ (Joined(ch)' => Joined(ch))
      BY <2>1, <2>9, <3>1 DEF Signalled, Joined, EndLabels
    <3>8. TornDown'
      BY <2>1, <2>4, <3>7, NoWorkerStays DEF Tearing, TornDown
    <3> QED BY <2>6, <3>6, <3>8 DEF Tearing
  <2>10. CASE cur[Port] # Hst
    <3>1. NoThreadOf(cur[Port]) /\ target[Port] = NoThread
      BY <2>1, <2>10 DEF Tearing, Remembered
    <3>2. \A v \in Workers : Exists(v)' => workerId'[ChannelOf[v]] = v
      BY <2>2, <2>3, <2>7, <3>1 DEF NoThreadOf
    <3>3. P' \in {"join", "disconnect"} /\ PastJoinMoves
      BY <2>5, <2>10 DEF PastJoinMoves
    <3>4. Remembered'
      BY <2>8, <3>2, <3>3 DEF Remembered, Exists
    <3>5. \A ch \in Channels : ch = cur[Port] => NoWorker(ch)'
      <4>1. ~running[cur[Port]]
        BY <2>1 DEF Tearing, TornDown, Signalled
      <4> QED BY <2>1, <2>2, <2>3, <3>1, <4>1 DEF NoWorker, NoThreadOf
    <3>6. \A ch \in Channels : /\ Signalled(ch)' => Signalled(ch)
                               /\ Joined(ch)' => Joined(ch) \/ ch = cur[Port]
      BY <2>1, <3>3 DEF Signalled, Joined, EndLabels, PastJoinMoves
    <3>7. TornDown'
      BY <2>1, <2>4, <3>5, <3>6, NoWorkerStays DEF Tearing, TornDown
    <3> QED BY <2>6, <3>4, <3>7 DEF Tearing
  <2> QED BY <2>9, <2>10
<1>7. CASE Disconnect(Port)
  <2>1. P = "disconnect" /\ UNCHANGED <<workerId, running, wpc>>
    BY <1>7 DEF Disconnect, P, workerVars
  <2>2. NothingSpawned
    BY <2>1 DEF NothingSpawned, Exists, TypeOK
  <2>3. \A ch \in Channels : (Signalled(ch)' => Signalled(ch)) /\ (Joined(ch)' => Joined(ch))
    BY <1>7, <2>1, DisconnectMoves DEF Signalled, Joined, EndLabels, LastTornDown, Mode
  <2>4. P' = "idle" => NoWorkers
    BY <1>7, <2>1, DisconnectMoves DEF Tearing, TornDown, Joined, NoWorkers
  <2>5. P' \in {"disconnect", "stopMeasurement", "signal", "prepare", "idle"}
    BY <1>7, DisconnectMoves
  <2>6. Remembered' /\ StartsClean'
    BY <2>1, <2>2, <2>4, <2>5, RememberedStays, StartsCleanInTearDown DEF Tearing
  <2>7. TornDown'
    BY <2>1, <2>2, <2>3, NoWorkerStays DEF Tearing, TornDown
  <2> QED BY <2>6, <2>7 DEF Tearing
<1> QED BY <1>1, <1>2, <1>3, <1>4, <1>5, <1>6, <1>7 DEF TearDown

\* acquireStop's beginning: it ends and waits for the callback thread.
StopWaits(a) ==
  StopBegin(a) \/ TestCallback(a) \/ JoinCallback(a) \/ EndJoinCallback(a) \/ ClearCallback(a)

LEMMA StopWaitsMoves ==
  ASSUME TypeOK, Callback, StopWaits(Port)
  PROVE  /\ P \in {"stopBegin"} \cup JoinCallbackLabels /\ UNCHANGED <<acquire, mode>>
         /\ P' \in JoinCallbackLabels \cup {"suspended"} \/ Moves("signal", 1)
<1> USE SharedLabels DEF P
<1>1. CASE EndJoinCallback(Port)
  <2>1. target[Port] \in Callbacks /\ target[Port] # Port
    BY <1>1, ConstantsAssumption DEF EndJoinCallback, Callback, PortWaits
  <2> QED BY <1>1, <2>1, ConstantsAssumption DEF EndJoinCallback, TypeOK
<1>2. CASE ~EndJoinCallback(Port)
  BY <1>2, GotoMoves DEF StopWaits, StopBegin, TestCallback, JoinCallback, ClearCallback
<1> QED BY <1>1, <1>2

LEMMA StopTearing ==
  ASSUME TypeOK, Callback, Tearing, StopStep(Port)
  PROVE  Tearing'
<1> USE DEF Moves, EndLabels, TearLabels, PrepareLabels, JoinCallbackLabels
<1>0. UNCHANGED <<workerId, running, wpc, mode>> /\ NothingSpawned
  BY DEF StopStep, StopBegin, TestCallback, JoinCallback, EndJoinCallback, ClearCallback,
     StopMeasurement, StopMeasurementFails, Finish, workerVars,
     NothingSpawned, Exists, TypeOK
<1>1. CASE StopWaits(Port)
  <2>1. /\ P \in {"stopBegin"} \cup JoinCallbackLabels /\ UNCHANGED acquire
        /\ P' \in JoinCallbackLabels \cup {"suspended"} \/ Moves("signal", 1)
    BY <1>1, StopWaitsMoves
  <2>2. mode \in {"stop", "exit"}
    BY <2>1 DEF Callback, ModeRight
  <2>3. StartsClean'
    BY <1>0, <2>1, <2>2, NoWorkersStay DEF Tearing, StartsClean
  <2>4. \A ch \in Channels : ~Signalled(ch)' /\ ~Joined(ch)'
    BY <2>1 DEF Signalled, Joined, JoinPhase
  <2> QED BY <1>0, <2>1, <2>3, <2>4, RememberedStays DEF Tearing, TornDown
<1>2. CASE StopMeasurement(Port) \/ StopMeasurementFails(Port) \/ Finish(Port)
  <2>1. P \in EndLabels /\ P' \in {"finish", "idle"}
    BY <1>2, GotoMoves DEF StopMeasurement, StopMeasurementFails, Finish, P, AfterStop
  <2>2. NoWorkers /\ mode = "stop"
    BY <2>1 DEF Tearing, TornDown, Joined, NoWorkers, Callback, ModeRight
  <2>3. NoWorkers'
    BY <1>0, <2>2, NoWorkersStay
  <2>4. StartsClean'
    BY <1>0, <2>1, <2>2, <2>3 DEF StartsClean
  <2>5. TornDown'
    BY <2>3 DEF TornDown, NoWorkers, NoWorker
  <2> QED BY <1>0, <2>1, <2>4, <2>5, RememberedStays DEF Tearing
<1> QED BY <1>1, <1>2 DEF StopStep, StopWaits

LEMMA StartTearing ==
  ASSUME TypeOK, Callback, Tearing, StartStep
  PROVE  Tearing'
<1> USE DEF Moves, EndLabels, TearLabels, PrepareLabels
<1>0. /\ P \in PrepareLabels \cup {"arm", "spawn"} /\ mode = "start" /\ acquire = 1
      /\ acquire' = 1
  BY StartMoves DEF Callback, ModeRight
<1>1. CASE \/ RejectTrigger \/ StopPriorMeasurement \/ PortsFree \/ NoPortsFree
           \/ Launch \/ LaunchFails \/ CreateCallback \/ Arm
  <2>1. UNCHANGED <<workerId, running, wpc>> /\ NothingSpawned /\ P # "spawn"
    BY <1>1 DEF RejectTrigger, StopPriorMeasurement, PortsFree, NoPortsFree, Launch, LaunchFails,
       CreateCallback, Arm, workerVars, NothingSpawned, Exists, TypeOK, P
  <2>2. \/ P' \in {"idle", "ports", "launch", "create", "arm"} 
        \/ Moves("spawn", 1) \/ Moves("signal", 1)
    BY <1>1, GotoMoves, ConstantsAssumption DEF RejectTrigger, StopPriorMeasurement, PortsFree, NoPortsFree, Launch,
       LaunchFails, CreateCallback, Arm, TypeOK, P
  <2>3. NoWorkers'
    BY <1>0, <2>1, NoWorkersStay DEF Tearing, StartsClean
  <2>4. StartsClean'
    BY <1>0, <2>2, <2>3 DEF StartsClean, NoWorkers
  <2>5. TornDown'
    BY <2>3 DEF TornDown, NoWorkers, NoWorker
  <2> QED BY <1>0, <2>1, <2>2, <2>4, <2>5, RememberedStays DEF Tearing
<1>2. CASE SpawnWorker \/ SkipWorker
  <2>1. /\ P = "spawn" /\ mode' = "start"
        /\ \/ P' = "spawn" /\ cur'[Port] = cur[Port] + 1
           \/ P' = "idle"
    BY <1>0, <1>2, SpawnMoves DEF SpawnWorker, SkipWorker, P
  <2>2. cur[Port] \in Channels
    BY ConstantsAssumption DEF TypeOK
  <2>3. \A ch \in Channels : ch > cur[Port] => NoWorker(ch)'
    <3>1. CASE SkipWorker
      BY <2>1, <2>2, <3>1 DEF SkipWorker, workerVars, Tearing, StartsClean, NoWorker, NoThreadOf, Exists
    <3>2. CASE SpawnWorker
      <4> SUFFICES ASSUME NEW ch \in Channels, ch > cur[Port] PROVE NoWorker(ch)'
        OBVIOUS
      <4>1. NoWorker(ch) /\ ch # cur[Port]
        BY <2>1, <2>2 DEF Tearing, StartsClean
      <4> QED BY <2>2, <3>2, <4>1 DEF SpawnWorker, NoWorker, NoThreadOf, Exists, TypeOK
    <3> QED BY <1>2, <3>1, <3>2
  <2>4. StartsClean'
    BY <1>0, <2>1, <2>2, <2>3 DEF StartsClean, TypeOK
  <2>5. TornDown'
    BY <2>1 DEF TornDown, Signalled, Joined, JoinPhase
  <2>6. Remembered'
    <3>1. CASE SkipWorker
      BY <2>1, <3>1, RememberedStays DEF SkipWorker, workerVars, Tearing
    <3>2. CASE SpawnWorker
      <4>1. PICK w \in Workers :
              /\ ChannelOf[w] = cur[Port]
              /\ workerId' = [workerId EXCEPT ![cur[Port]] = w]
              /\ wpc' = [wpc EXCEPT ![w] = "loop"]
        BY <3>2 DEF SpawnWorker
      <4>2. \A v \in Workers : Exists(v) => ChannelOf[v] # cur[Port] /\ workerId[ChannelOf[v]] = v
        BY <2>1, <2>2 DEF Tearing, StartsClean, NoWorker, NoThreadOf, Remembered
      <4>3. \A v \in Workers : Exists(v)' => workerId'[ChannelOf[v]] = v
        BY <2>2, <4>1, <4>2, ConstantsAssumption DEF Exists, TypeOK
      <4>4. \A ch \in Channels : workerId'[ch] # NoThread =>
              ChannelOf[workerId'[ch]] = ch /\ wpc'[workerId'[ch]] # "done"
        BY <2>1, <2>2, <4>1 DEF Tearing, Remembered, StaleId, Exists, TypeOK
      <4> QED BY <2>1, <4>3, <4>4 DEF Remembered, Exists
    <3> QED BY <1>2, <3>1, <3>2
  <2> QED BY <2>4, <2>5, <2>6 DEF Tearing
<1> QED BY <1>1, <1>2 DEF StartStep

LEMMA WriteTearing ==
  ASSUME TypeOK, Callback, Tearing, \/ (WriteAcquireOn \/ WriteStop)
                                    \/ ShutDown
  PROVE  Tearing'
<1> USE DEF Moves, EndLabels, TearLabels, PrepareLabels
<1>1. /\ UNCHANGED <<workerId, running, wpc>> /\ NothingSpawned /\ P = "idle"
      /\ \/ acquire = 0 /\ acquire' = 1 /\ Moves("signal", 1) /\ mode' = "start"
         \/ P' = "stopBegin" /\ mode' = "stop"
         \/ P' = "stopBegin" /\ mode' = "exit" /\ UNCHANGED acquire
  BY GotoMoves DEF WriteAcquireOn, WriteStop, ShutDown, P, workerVars, NothingSpawned, Exists, TypeOK
<1>2. acquire = 0 => NoWorkers'
  BY <1>1, NoWorkersStay DEF Tearing, StartsClean
<1>3. StartsClean'
  BY <1>1, <1>2 DEF StartsClean
<1>4. \A ch \in Channels : ~Signalled(ch)' /\ ~Joined(ch)'
  BY <1>1 DEF Signalled, Joined, JoinPhase
<1> QED BY <1>1, <1>3, <1>4, RememberedStays DEF Tearing, TornDown

LEMMA PollTearing ==
  ASSUME TypeOK, Callback, Tearing, NEW c \in Callbacks, PollStep(c)
  PROVE  Tearing'
<1>1. /\ UNCHANGED <<workerId, running, wpc, mode, acquire, P, cur, target>>
  BY PollMoves DEF Callback
<1>2. NothingSpawned /\ \A w \in Workers : Exists(w) => Exists(w)'
  BY <1>1 DEF NothingSpawned, Exists, TypeOK
<1> QED BY <1>1, <1>2, TearingUntouched

LEMMA WorkerTearing ==
  ASSUME TypeOK, Tearing, NEW w \in Workers, WorkerStep(w) \/ ServalStep(w)
  PROVE  Tearing'
<1>1. UNCHANGED <<workerId, target, pc, cur, mode, acquire>>
  BY DEF UnchangedByWorker, actorVars, WorkerStep, ServalStep, WorkerLeaves, DecideToConnect, Connect,
     SeeConnected, PauseHst, EnterRecv, ClientGone, RecvReturns, MarkClosed,
     ProcessFrame, AwaitBody, RejectFrame, WorkerExits
<1>2. \A v \in Workers : Exists(v)' <=> Exists(v)
  BY DEF TypeOK, Exists, WGoto, WorkerStep, ServalStep, WorkerLeaves, DecideToConnect, Connect,
     SeeConnected, PauseHst, EnterRecv, ClientGone, RecvReturns, MarkClosed,
     ProcessFrame, MayProcess, AwaitBody, RejectFrame, WorkerExits, workerVars
<1>3. \A ch \in Channels : running'[ch] => running[ch]
  BY DEF TypeOK, WorkerStep, ServalStep, WorkerLeaves, DecideToConnect, Connect,
     SeeConnected, PauseHst, EnterRecv, ClientGone, RecvReturns, MarkClosed,
     ProcessFrame, AwaitBody, RejectFrame, WorkerExits
<1>4. NothingSpawned
  BY <1>1, <1>2, <1>3 DEF NothingSpawned, TypeOK
<1> QED BY <1>1, <1>2, <1>4, TearingUntouched DEF P

-----------------------------------------------------------------------------
(* What a worker finds when it has the lock again, and what it adds then.     *)

Frames == ClientKept /\ LastFrame

LEMMA OneWorker ==
  ASSUME Remembered, NEW v \in Workers, NEW w \in Workers, Exists(v), Exists(w),
         ChannelOf[v] = ChannelOf[w]
  PROVE  v = w
<1>1. ChannelOf[v] \in Channels /\ NoThread \notin Workers
  BY ConstantsAssumption
<1> QED BY <1>1 DEF Remembered

LEMMA ClientUntouched ==
  ASSUME ClientKept, UNCHANGED <<connected, wpc>>
  PROVE  ClientKept'
BY DEF ClientKept

LEMMA ImgIsChannel == Img \in Channels /\ Img # Hst /\ NumChannels \in Nat
BY ConstantsAssumption DEF Img, Hst

LEMMA TearDownFrames ==
  ASSUME TypeOK, Callback, Tearing, Frames, TearDown(Port)
  PROVE  Frames'
<1>0. /\ NumChannels \in Nat \ {0, 1} /\ cur[Port] \in 1..NumChannels /\ Img = NumChannels - 1
      /\ mode \in {"start", "abort", "stop", "exit"} /\ mode' = mode /\ acquire' = acquire
      /\ imgFrames \in Nat /\ P \in TearLabels /\ (~EndJoin(Port) => UNCHANGED wpc)
  BY TearDownMoves, ConstantsAssumption DEF TypeOK, Img
<1> USE <1>0 DEF Moves, TearLabels, JoinPhase
<1>1. CASE Signal(Port)
  <2>1. P = "signal" /\ UNCHANGED <<connected, wpc>> /\ imgFrames' \in {0, imgFrames}
    BY <1>1 DEF Signal, P
  <2>2. mode = "stop" /\ cur[Port] = Img => imgFrames' = 0
    BY <1>1 DEF Signal, ResetsAccumulation, Mode
  <2>3. P' \in {"signal", "join"}
    BY <1>1, SignalMoves
  <2>4. Signalled(Img)' => Signalled(Img) \/ Img = cur[Port]
    BY <1>1, <2>1, SignalMoves DEF Signalled, EndLabels
  <2>5. LastFrame'
    BY <2>1, <2>2, <2>3, <2>4 DEF Frames, LastFrame
  <2> QED BY <2>1, <2>5, ClientUntouched DEF Frames
<1>2. CASE JoinNothing(Port) \/ SeeWorker(Port) \/ ReadId(Port) \/ BeginJoin(Port) \/ ClearId(Port)
  <2>1. P \in JoinPhase /\ UNCHANGED <<connected, imgFrames, wpc>>
    BY <1>2 DEF JoinNothing, SeeWorker, ReadId, BeginJoin, ClearId, workerVars, P
  <2>2. PastJoinMoves \/ (P' \in JoinPhase /\ cur'[Port] = cur[Port])
    <3>1. CASE JoinNothing(Port)
      BY <3>1, JoinMoves DEF JoinNothing
    <3>2. CASE SeeWorker(Port) \/ ReadId(Port) \/ BeginJoin(Port)
      BY <3>2, GotoMoves DEF SeeWorker, ReadId, BeginJoin
    <3>3. CASE ClearId(Port)
      BY <3>3, ClearIdMoves
    <3> QED BY <1>2, <3>1, <3>2, <3>3
  <2>3. (Signalled(Img)' => Signalled(Img)) /\ P' # "idle"
    BY <2>1, <2>2 DEF Signalled, EndLabels, PastJoinMoves
  <2>4. LastFrame'
    BY <2>1, <2>3 DEF Frames, LastFrame
  <2> QED BY <2>1, <2>4, ClientUntouched DEF Frames
<1>3. CASE NoJoin(Port) \/ DoubleJoin(Port)
  BY <1>3, PortJoins DEF Tearing
<1>5. CASE EndJoin(Port)
  <2>1. P = "joining" /\ UNCHANGED <<connected, imgFrames>>
    BY <1>5 DEF EndJoin, Return, P
  <2>2. \A w \in Workers : wpc'[w] \in {wpc[w], "done"}
    BY <1>5 DEF EndJoin, TypeOK
  <2>3. PastJoinMoves \/ Moves("clear", cur[Port])
    BY <1>5, ReturnMoves DEF EndJoin
  <2>4. (Signalled(Img)' => Signalled(Img)) /\ P' # "idle"
    BY <2>1, <2>3 DEF Signalled, EndLabels, PastJoinMoves
  <2>5. LastFrame'
    BY <2>1, <2>2, <2>4 DEF Frames, LastFrame
  <2>6. ClientKept'
    BY <2>1, <2>2 DEF Frames, ClientKept
  <2> QED BY <2>5, <2>6 DEF Frames
<1>4. CASE Disconnect(Port)
  <2>1. /\ P = "disconnect" /\ UNCHANGED <<imgFrames, wpc>>
        /\ connected' = [connected EXCEPT ![cur[Port]] = FALSE]
    BY <1>4 DEF Disconnect, workerVars, P
  <2>2. \A w \in Workers : ChannelOf[w] = cur[Port] => wpc[w] = "done"
    BY <2>1 DEF Tearing, TornDown, Joined, NoWorker, NoThreadOf, Exists
  <2>3. ClientKept'
    BY <2>1, <2>2 DEF Frames, ClientKept, TypeOK
  <2>4. Signalled(Img)' => Signalled(Img)
    BY <1>4, <2>1, DisconnectMoves DEF Signalled, EndLabels, LastTornDown, Mode
  <2>5. P' = "idle" => mode # "stop"
    BY <1>4, DisconnectMoves
  <2>6. LastFrame'
    BY <2>1, <2>4, <2>5 DEF Frames, LastFrame
  <2> QED BY <2>3, <2>6 DEF Frames
<1> QED BY <1>1, <1>2, <1>3, <1>4, <1>5 DEF TearDown

LEMMA StopFrames ==
  ASSUME TypeOK, Callback, Frames, StopStep(Port)
  PROVE  Frames'
<1> USE DEF Moves, EndLabels, TearLabels, PrepareLabels, JoinCallbackLabels
<1>0. UNCHANGED <<connected, wpc, mode, imgFrames>>
  BY DEF StopStep, StopBegin, TestCallback, JoinCallback, EndJoinCallback, ClearCallback,
     StopMeasurement, StopMeasurementFails, Finish, workerVars
<1>1. CASE StopWaits(Port)
  <2>1. /\ UNCHANGED acquire
        /\ P' \in JoinCallbackLabels \cup {"suspended"} \/ Moves("signal", 1)
    BY <1>1, StopWaitsMoves
  <2>2. ~Signalled(Img)' /\ P' # "idle"
    BY <2>1, ImgIsChannel DEF Signalled, JoinPhase
  <2> QED BY <1>0, <2>1, <2>2, ClientUntouched DEF Frames, LastFrame
<1>2. CASE StopMeasurement(Port) \/ StopMeasurementFails(Port) \/ Finish(Port)
  <2>1. P \in EndLabels
    BY <1>2 DEF StopMeasurement, StopMeasurementFails, Finish, P
  <2>2. Signalled(Img) /\ mode = "stop"
    BY <2>1 DEF Signalled, Callback, ModeRight
  <2> QED BY <1>0, <2>2, ClientUntouched DEF Frames, LastFrame
<1> QED BY <1>1, <1>2 DEF StopStep, StopWaits

LEMMA StartFrames ==
  ASSUME TypeOK, Callback, Frames, StartStep
  PROVE  Frames'
<1>1. mode = "start" /\ acquire' = 1
  BY StartMoves DEF Callback, ModeRight
<1>2. UNCHANGED <<connected, imgFrames>>
  BY DEF StartStep, RejectTrigger, StopPriorMeasurement, PortsFree, NoPortsFree,
     Launch, LaunchFails, CreateCallback, Arm, SpawnWorker, SkipWorker, workerVars
<1>3. mode' \in {"start", "abort"}
  BY <1>1 DEF StartStep, RejectTrigger, StopPriorMeasurement, PortsFree, NoPortsFree,
     Launch, LaunchFails, CreateCallback, Arm, SpawnWorker, SkipWorker
<1>4. \A w \in Workers : wpc'[w] \in {wpc[w], "loop"}
  BY DEF StartStep, RejectTrigger, StopPriorMeasurement, PortsFree, NoPortsFree,
     Launch, LaunchFails, CreateCallback, Arm, SpawnWorker, SkipWorker, workerVars, TypeOK
<1> QED BY <1>1, <1>2, <1>3, <1>4 DEF Frames, ClientKept, LastFrame

LEMMA WriteFrames ==
  ASSUME TypeOK, Frames, \/ (WriteAcquireOn \/ WriteStop)
                         \/ ShutDown
  PROVE  Frames'
<1>1. /\ UNCHANGED <<connected, wpc, imgFrames>> /\ P = "idle"
      /\ \/ acquire' = 1 /\ mode' = "start"
         \/ P' = "stopBegin" /\ mode' = "stop"
         \/ P' = "stopBegin" /\ mode' = "exit" /\ UNCHANGED acquire
  BY GotoMoves DEF WriteAcquireOn, WriteStop, ShutDown, P, workerVars, Moves
<1>2. mode' = "stop" => ~Signalled(Img)'
  BY <1>1 DEF Signalled, EndLabels, JoinPhase
<1> QED BY <1>1, <1>2, ClientUntouched DEF Frames, LastFrame

LEMMA PollFrames ==
  ASSUME TypeOK, Callback, Frames, NEW c \in Callbacks, PollStep(c)
  PROVE  Frames'
<1>1. UNCHANGED <<connected, wpc, imgFrames, mode, acquire, P, cur>>
  BY PollMoves DEF Callback
<1> QED BY <1>1, ClientUntouched DEF Frames, LastFrame, Signalled

\* What a worker's step does: it moves itself along, connects only as the one
\* worker of its channel, and adds a frame only when it has bytes to process.
LEMMA WorkerMoves ==
  ASSUME TypeOK, NEW w \in Workers, WorkerStep(w) \/ ServalStep(w)
  PROVE  /\ UNCHANGED <<pc, cur, mode, acquire>> /\ Live(w) /\ Exists(w)
         /\ \A v \in Workers \ {w} : wpc'[v] = wpc[v]
         /\ \A ch \in Channels \ {ChannelOf[w]} : connected'[ch] = connected[ch]
         /\ (wpc[w] = "loop" /\ wpc'[w] # "exit") => running[ChannelOf[w]]
         /\ wpc[w] = "exit" => wpc'[w] = "ended"
         /\ wpc'[w] = "check" => connected'[ChannelOf[w]]
         /\ wpc'[w] = "crashed" => wpc[w] = "check" /\ ~connected[ChannelOf[w]]
         /\ \/ imgFrames' = imgFrames
            \/ /\ wpc[w] \in {"got", "body"} /\ wpc'[w] = "loop" /\ ChannelOf[w] = Img
               /\ imgFrames' = imgFrames + 1
<1> USE DEF TypeOK, Live, Exists, WGoto, UnchangedByWorker, actorVars
<1>0. ChannelOf[w] \in Channels
  BY ConstantsAssumption
<1>1. CASE WorkerLeaves(w) \/ DecideToConnect(w) \/ SeeConnected(w) \/ PauseHst(w) \/ EnterRecv(w)
  BY <1>1 DEF WorkerLeaves, DecideToConnect, SeeConnected, PauseHst, EnterRecv
<1>2. CASE ClientGone(w)
  BY <1>2 DEF ClientGone
<1>3. CASE Connect(w)
  BY <1>0, <1>3 DEF Connect
<1>4. CASE MarkClosed(w) 
  BY <1>0, <1>4 DEF MarkClosed
<1>5. CASE WorkerExits(w)
  BY <1>0, <1>5 DEF WorkerExits
<1>6. CASE RecvReturns(w)
  BY <1>6 DEF RecvReturns
<1>7. CASE AwaitBody(w) \/ RejectFrame(w)
  BY <1>7 DEF AwaitBody, RejectFrame, MayProcess
<1>8. CASE ProcessFrame(w)
  BY <1>8 DEF ProcessFrame, MayProcess, AddFrame
<1> QED BY <1>1, <1>2, <1>3, <1>4, <1>5, <1>6, <1>7, <1>8 DEF WorkerStep, ServalStep

LEMMA WorkerFrames ==
  ASSUME TypeOK, Tearing, Frames, NEW w \in Workers, WorkerStep(w) \/ ServalStep(w)
  PROVE  Frames'
<1>0. Remembered /\ Live(w) /\ Exists(w) /\ ChannelOf[w] \in Channels
  BY WorkerMoves, ConstantsAssumption DEF Tearing
<1>1. \A v \in Workers \ {w} : ChannelOf[v] = ChannelOf[w] => wpc[v] = "done" /\ wpc'[v] = "done"
  BY <1>0, OneWorker, WorkerMoves DEF Exists
<1>2. ClientKept'
  <2> SUFFICES ASSUME NEW v \in Workers
               PROVE  wpc'[v] # "crashed" /\ (wpc'[v] = "check" => connected'[ChannelOf[v]])
    BY DEF ClientKept
  <2>1. CASE v = w
    BY <2>1, WorkerMoves DEF Frames, ClientKept
  <2>2. CASE v # w
    BY <1>1, <2>2, WorkerMoves, ConstantsAssumption DEF Frames, ClientKept
  <2> QED BY <2>1, <2>2
<1>3. UNCHANGED <<mode, acquire, P, cur>>
  BY WorkerMoves DEF P
<1>4. ~(acquire = 0 /\ (mode # "stop" \/ P = "idle"))
  BY <1>0 DEF Tearing, StartsClean, NoWorkers, NoWorker, NoThreadOf
<1>5. ASSUME mode = "stop", Signalled(Img)
      PROVE  /\ imgFrames' <= 1
             /\ imgFrames' = 1 => \A v \in Workers : ChannelOf[v] = Img => wpc'[v] \in {"loop", "exit", "ended", "done"}
  <2>1. ~running[Img] /\ imgFrames \in Nat /\ imgFrames <= 1
    BY <1>5, ImgIsChannel DEF Tearing, TornDown, Frames, LastFrame, TypeOK
  <2>2. imgFrames = 1 =>
          \A v \in Workers : ChannelOf[v] = Img => wpc[v] \in {"loop", "exit", "ended", "done"}
    BY <1>5 DEF Frames, LastFrame
  <2>3. CASE ChannelOf[w] = Img
    BY <1>0, <1>1, <2>1, <2>2, <2>3, WorkerMoves DEF Live
  <2>4. CASE ChannelOf[w] # Img
    BY <2>1, <2>2, <2>4, WorkerMoves
  <2> QED BY <2>3, <2>4
<1>6. LastFrame'
  BY <1>3, <1>4, <1>5 DEF LastFrame, Signalled
<1> QED BY <1>2, <1>6 DEF Frames

-----------------------------------------------------------------------------
(* Together they are inductive.                                               *)

Inv == TypeOK /\ ConnectedHasReader /\ Callback /\ Tearing /\ Frames

LEMMA InitInv == ASSUME Init PROVE Inv
<1>1. /\ Init /\ P = "idle" /\ acquire = 0 /\ mode = "stop"
      /\ \A c \in Callbacks : pc[c] = "done"
  BY ConstantsAssumption DEF Init, P
<1>2. TypeOK /\ ConnectedHasReader
  BY <1>1, InitType, InitReaders
<1>3. Callback
  <2>1. CallbacksPoll /\ NoCallback
    BY <1>1 DEF Init, CallbacksPoll, NoCallback, PollLabels
  <2>2. PortWaits /\ CallbackEnded /\ ModeRight
    BY <1>1, <2>1 DEF Init, PortWaits, CallbackEnded, ModeRight, TearLabels, EndLabels, PrepareLabels,
       JoinCallbackLabels
  <2> QED BY <2>1, <2>2 DEF Callback
<1>4. NoWorkers
  BY <1>1 DEF Init, NoWorkers, NoWorker, NoThreadOf, Exists
<1>5. Tearing
  <2>1. Remembered
    BY <1>1 DEF Init, Remembered, Exists
  <2>2. TornDown
    BY <1>4 DEF TornDown, NoWorkers, NoWorker
  <2>3. StartsClean
    BY <1>1, <1>4 DEF StartsClean, TearLabels, PrepareLabels
  <2> QED BY <2>1, <2>2, <2>3 DEF Tearing
<1>6. Frames
  BY <1>1 DEF Init, Frames, ClientKept, LastFrame
<1> QED BY <1>1, <1>2, <1>3, <1>5, <1>6 DEF Inv

LEMMA ShutDownInv == ASSUME Inv, ShutDown PROVE Inv'
<1>1. TypeOK /\ Callback /\ Tearing /\ Frames
  BY DEF Inv
<1>2. TypeOK'
  <2>1. "stopBegin" \in PortLabels
    BY DEF PortLabels, StopLabels
  <2>2. PcOK'
    BY <1>1, <2>1, GotoType DEF ShutDown
  <2> QED BY <1>1, <2>2 DEF ShutDown, TypeOK, PcOK, workerVars
<1>4. ConnectedHasReader'
  BY <1>1, ReadersUntouched DEF Inv, ShutDown, Live, workerVars
<1>5. Callback' /\ Tearing' /\ Frames'
  BY <1>1, ShutDownCallback, WriteTearing, WriteFrames
<1> QED BY <1>2, <1>4, <1>5 DEF Inv

LEMMA NextInv == ASSUME SelfEnding = FALSE, Inv, Next PROVE Inv'
<1>1. TypeOK /\ ConnectedHasReader /\ Callback /\ Tearing /\ Frames
  BY DEF Inv
<1>2. TypeOK' /\ ConnectedHasReader'
  BY <1>1, NextType, NextReaders
<1>3. Callback' /\ Tearing' /\ Frames'
  <2>1. CASE WriteAcquireOn \/ WriteStop
    BY <1>1, <2>1, WriteCallback, WriteTearing, WriteFrames
  <2>2. CASE StartStep
    BY <1>1, <2>2, StartCallback, StartTearing, StartFrames
  <2>3. CASE MeasurementEnds
    BY <2>3 DEF MeasurementEnds
  <2>4. ASSUME NEW a \in Actors, TearDown(a) \/ StopStep(a)
        PROVE  Callback' /\ Tearing' /\ Frames'
    <3>1. a = Port
      BY <1>1, <2>4, OnlyPortTears DEF Callback
    <3>2. CASE TearDown(Port)
      BY <1>1, <3>2, TearDownCallback, TearDownTearing, TearDownFrames DEF Tearing
    <3>3. CASE StopStep(Port)
      BY <1>1, <3>3, StopCallback, StopTearing, StopFrames
    <3> QED BY <2>4, <3>1, <3>2, <3>3
  <2>5. ASSUME NEW c \in Callbacks, PollStep(c)
        PROVE  Callback' /\ Tearing' /\ Frames'
    BY <1>1, <2>5, PollCallback, PollTearing, PollFrames
  <2>6. ASSUME NEW w \in Workers, WorkerStep(w) \/ ServalStep(w)
        PROVE  Callback' /\ Tearing' /\ Frames'
    BY <1>1, <2>6, WorkerCallback, WorkerTearing, WorkerFrames
  <2> QED BY <1>1, <2>1, <2>2, <2>3, <2>4, <2>5, <2>6 DEF Next
<1> QED BY <1>1, <1>2, <1>3 DEF Inv

LEMMA StutterInv == ASSUME Inv, UNCHANGED vars PROVE Inv'
<1>1. TypeOK /\ ConnectedHasReader /\ UNCHANGED vars
  BY DEF Inv
<1>2. TypeOK' /\ ConnectedHasReader'
  BY <1>1, NextType, NextReaders
<1>3. Callback'
  BY <1>1 DEF Inv, vars, Callback, CallbacksPoll, NoCallback, PortWaits,
     CallbackEnded, ModeRight, P
<1>4. Tearing'
  <2>1. NothingSpawned /\ \A w \in Workers : Exists(w) => Exists(w)'
    BY <1>1 DEF vars, NothingSpawned, Exists, TypeOK
  <2> QED BY <1>1, <2>1, TearingUntouched DEF Inv, vars, P
<1>5. Frames'
  BY <1>1, ClientUntouched DEF Inv, vars, Frames, LastFrame, Signalled, P
<1> QED BY <1>1, <1>2, <1>3, <1>4, <1>5 DEF Inv

LEMMA Invariant == ASSUME SelfEnding = FALSE PROVE ShutdownSpec => []Inv
<1>1. Inv /\ [Next \/ ShutDown]_vars => Inv'
  BY NextInv, ShutDownInv, StutterInv
<1> QED BY <1>1, InitInv, PTL DEF ShutdownSpec

-----------------------------------------------------------------------------
\* Without a worker a channel is not connected.
LEMMA NothingLeft ==
  ASSUME Inv, NoWorkers
  PROVE  /\ \A w \in Workers : ~Exists(w)
         /\ \A ch \in Channels : workerId[ch] = NoThread /\ ~connected[ch] /\ ~running[ch]
<1>1. \A w \in Workers : ~Exists(w)
  BY ConstantsAssumption DEF NoWorkers, NoWorker, NoThreadOf
<1>2. \A w \in Workers : ~Live(w)
  BY <1>1 DEF Exists, Live
<1> QED BY <1>1, <1>2 DEF Inv, ConnectedHasReader, NoWorkers, NoWorker

\* Two threads never read one stream if only the port thread, or the one that takes its
\* place, stops: it forgets a worker's id when the worker has been joined or when it has
\* the id in its hands to join it, and starts no worker in between. The proof does not
\* reach acquireStop on a callback thread, where a late store of NULL makes it false.
THEOREM OneReaderHolds == ASSUME SelfEnding = FALSE PROVE ShutdownSpec => []OneReader
<1>1. Inv => OneReader
  BY OneWorker DEF Inv, Tearing, OneReader
<1> QED BY <1>1, Invariant, PTL

\* The port thread waits for one thread at a time, which nobody else joins, so it is
\* never suspended, and a client is deleted when its worker has ended: no worker
\* finds it gone.
THEOREM NoThreadLostHolds == ASSUME SelfEnding = FALSE PROVE ShutdownSpec => []NoThreadLost
<1>1. Inv => NoThreadLost
  BY DEF Inv, Callback, Tearing, Frames, CallbacksPoll, PollLabels, PortWaits, P, ClientKept, NoThreadLost, NoDoubleJoin
<1> QED BY <1>1, Invariant, PTL

\* When Acquire is back at 0 every thread of the acquisition has ended, no id and no flag
\* is left, and the accumulation holds one late frame at most.
THEOREM OffIsQuietHolds == ASSUME SelfEnding = FALSE PROVE ShutdownSpec => []OffIsQuiet
<1>1. Inv => OffIsQuiet
  <2> SUFFICES ASSUME Inv, Off PROVE Quiet /\ imgFrames <= 1
    BY DEF OffIsQuiet
  <2>1. P = "idle" /\ acquire = 0
    BY DEF Off, P
  <2>2. NoWorkers /\ NoCallback /\ callbackThreadId = NoThread /\ ~acquiring
    BY <2>1 DEF Inv, Callback, Tearing, Frames, StartsClean, CallbackEnded
  <2>3. imgFrames <= 1
    BY <2>1 DEF Inv, Callback, Tearing, Frames, LastFrame
  <2> QED BY <2>2, <2>3, NothingLeft DEF Quiet, NoCallback
<1> QED BY <1>1, Invariant, PTL

\* Serval is told to stop when every stream is closed and every reader has ended.
THEOREM ClosedBeforeStopHolds == ASSUME SelfEnding = FALSE PROVE ShutdownSpec => []ClosedBeforeStop
<1>1. Inv => ClosedBeforeStop
  <2> SUFFICES ASSUME Inv, NEW a \in Actors, pc[a] = "stopMeasurement"
               PROVE  (\A ch \in Channels : ~connected[ch]) /\ \A w \in Workers : ~Exists(w)
    BY DEF ClosedBeforeStop
  <2>1. P = "stopMeasurement"
    BY DEF Inv, Callback, Tearing, Frames, CallbacksPoll, PollLabels, P
  <2>2. NoWorkers
    BY <2>1 DEF Inv, Callback, Tearing, Frames, TornDown, Joined, EndLabels, NoWorkers
  <2> QED BY <2>2, NothingLeft
<1> QED BY <1>1, Invariant, PTL

\* After asyn's teardown of the port, which comes between two writes, no thread that uses
\* the driver is left and no stream is open.
THEOREM DownIsQuietHolds == ASSUME SelfEnding = FALSE PROVE ShutdownSpec => []DownIsQuiet
<1>1. Inv => DownIsQuiet
  <2> SUFFICES ASSUME Inv, mode = "exit", P = "idle" PROVE Quiet
    BY DEF DownIsQuiet, P
  <2>1. NoWorkers /\ NoCallback /\ callbackThreadId = NoThread /\ ~acquiring
    BY DEF Inv, Callback, Tearing, Frames, StartsClean, CallbackEnded
  <2> QED BY <2>1, NothingLeft DEF Quiet, NoCallback
<1> QED BY <1>1, Invariant, PTL
=============================================================================
