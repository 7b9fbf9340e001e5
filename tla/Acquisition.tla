---------------------------- MODULE Acquisition ----------------------------
(***************************************************************************)
(* The acquisition life cycle of the ADTimePix3 driver: acquireStart,      *)
(* acquireStop and timePixCallback (acquire.cpp) run against the TCP       *)
(* worker threads of the streaming channels (serval_stream.cpp,            *)
(* histogram_io.cpp) and against Serval, the detector's HTTP server.       *)
(*                                                                         *)
(* Three kinds of thread interleave:                                       *)
(*   - the asyn port thread (Port), which holds the port lock for a whole  *)
(*     writeInt32 and so runs one acquireStart or acquireStop at a time;   *)
(*   - the callback threads, which poll Serval and run acquireStop on      *)
(*     their own, without the port lock, when Serval reports DA_IDLE;      *)
(*   - the workers, one per channel, which block in recv() while they      *)
(*     hold the mutex of their channel.                                    *)
(* A channel is a number, in the order the code visits them; the last one  *)
(* is PrvHst, the one before it Img. ADStatus is left out: the connection  *)
(* poll thread overwrites it every few seconds.                            *)
(***************************************************************************)
EXTENDS Integers

CONSTANTS
  NumChannels,   \* TCP streaming channels (4 in the driver)
  Port,          \* the asyn port thread
  Callbacks,     \* thread ids a timePixCallback thread can get
  Workers,       \* thread ids a channel worker can get
  ChannelOf,     \* the channel a worker thread id belongs to
  NoThread,      \* a NULL epicsThreadId
  SelfEnding,    \* can Serval reach DA_IDLE before the driver asks it to stop?
  FrameCap       \* the count of accumulated frames saturates here

Channels == 1..NumChannels
Hst == NumChannels        \* PrvHst
Img == NumChannels - 1
Actors == {Port} \cup Callbacks

ASSUME ConstantsAssumption ==
  /\ NumChannels \in Nat \ {0, 1}
  /\ FrameCap \in Nat
  /\ SelfEnding \in BOOLEAN
  /\ ChannelOf \in [Workers -> Channels]
  /\ Port \notin Callbacks
  /\ Workers \cap Callbacks = {}
  /\ NoThread \notin Workers \cup Callbacks

VARIABLES
  acquire,           \* ADAcquire, the parameter behind the Acquire PV
  acquiring,         \* the flag the callback thread's loop tests
  callbackThreadId,
  workerId,          \* the *WorkerThreadId_ of every channel
  running,           \* the *Running_ flag of every channel
  connected,         \* the *Connected_ flag of every channel
  pc,                \* where each actor is
  mode,              \* what the port thread is tearing workers down for; at "exit"
                     \* asyn has shut the port down and refuses writes (Shutdown)
  cur,               \* the channel each actor is working on
  target,            \* the thread id each actor has read, to join it
  isIdle,            \* timePixCallback's local isIdle
  wpc,               \* where each worker thread is; "done" is no thread (any more)
  measuring,         \* Serval: a measurement is running
  imgFrames          \* frames in the Img accumulation since it was last reset

actorVars  == <<pc, mode, cur, target, isIdle>>
workerVars == <<wpc, imgFrames>>
vars == <<acquire, acquiring, callbackThreadId, workerId, running,
          connected, pc, mode, cur, target, isIdle, wpc, measuring, imgFrames>>

TearLabels == {"signal", "join", "read", "call", "joining", "clear", "disconnect"}
JoinCallbackLabels == {"testCallback", "joinCallback", "joiningCallback", "clearCallback"}
StopLabels == TearLabels \cup JoinCallbackLabels \cup {"stopBegin", "stopMeasurement", "finish"}
StartLabels == TearLabels \cup {"prepare", "ports", "launch", "create", "arm", "spawn"}
PollLabels == {"done", "initial", "poll", "get", "ended"}
PortLabels == {"idle", "suspended"} \cup StartLabels \cup StopLabels
CallbackLabels == PollLabels \cup {"suspended"} \cup StopLabels
WorkerLabels == {"loop", "connecting", "check", "recv", "got", "body", "closed", "exit",
                 "ended", "crashed", "done"}

\* The variables keep their types; what each kind of thread can be doing is part
\* of them.
TypeOK ==
  /\ acquire \in {0, 1}
  /\ acquiring \in BOOLEAN
  /\ callbackThreadId \in Callbacks \cup {NoThread}
  /\ workerId \in [Channels -> Workers \cup {NoThread}]
  /\ running \in [Channels -> BOOLEAN]
  /\ connected \in [Channels -> BOOLEAN]
  /\ pc \in [Actors -> PortLabels \cup CallbackLabels]
  /\ pc[Port] \in PortLabels
  /\ \A c \in Callbacks : pc[c] \in CallbackLabels
  /\ mode \in {"start", "abort", "stop", "exit"}
  /\ cur \in [Actors -> Channels]
  /\ target \in [Actors -> Workers \cup Callbacks \cup {NoThread}]
  /\ isIdle \in [Callbacks -> BOOLEAN]
  /\ wpc \in [Workers -> WorkerLabels]
  /\ measuring \in BOOLEAN
  /\ imgFrames \in 0..FrameCap

Init ==
  /\ acquire = 0 /\ acquiring = FALSE
  /\ callbackThreadId = NoThread
  /\ workerId = [ch \in Channels |-> NoThread]
  /\ running = [ch \in Channels |-> FALSE]
  /\ connected = [ch \in Channels |-> FALSE]
  /\ pc = [a \in Actors |-> IF a = Port THEN "idle" ELSE "done"]
  /\ mode = "stop"
  /\ cur = [a \in Actors |-> 1]
  /\ target = [a \in Actors |-> NoThread]
  /\ isIdle = [c \in Callbacks |-> FALSE]
  /\ wpc = [w \in Workers |-> "done"]
  /\ measuring = FALSE
  /\ imgFrames = 0

(***************************************************************************)
(* Threads, joins and mutexes                                              *)
(***************************************************************************)
\* A joinable thread is there until it has been joined ("done"): from "ended" on
\* it runs no more.
Exists(w) == wpc[w] # "done"
Live(w) == wpc[w] \notin {"ended", "done"}

\* A worker keeps its channel's mutex while it waits in recv(): between
\* epicsMutexLock and epicsMutexUnlock around receive(), and again while
\* processLine waits in receive_exact() for the rest of a frame.
HoldsMutex(w) == wpc[w] \in {"recv", "body"}
MutexFree(ch) == \A w \in Workers : ChannelOf[w] = ch => ~HoldsMutex(w)

\* What acquireStart/acquireStop do for actor a: the callback thread only stops.
Mode(a) == IF a = Port THEN mode ELSE "stop"

\* epicsThreadMustJoin(t) is external. NULL returns at once. The first caller waits
\* for the thread to end; a second one, while the first waits, gets cantProceed(),
\* which suspends it for good. After the first has returned the thread's record is
\* freed: what a late caller finds there is undefined, it is suspended or returns.
JoinLabels == {"joining", "joiningCallback"}
BeingJoined(t) == \E b \in Actors : target[b] = t /\ pc[b] \in JoinLabels
Freed(t) == t # NoThread /\ (IF t \in Workers THEN wpc[t] = "done" ELSE pc[t] = "done")
JoinWaits(t) == t # NoThread /\ ~BeingJoined(t) /\ ~Freed(t)
JoinReturns(t) == t = NoThread \/ Freed(t)
JoinSuspends(t) == t # NoThread /\ (BeingJoined(t) \/ Freed(t))

Goto(a, label) == pc' = [pc EXCEPT ![a] = label]
GotoAt(a, label, ch) == Goto(a, label) /\ cur' = [cur EXCEPT ![a] = ch]

\* An acquireStop that returns: the port thread ends its write, the callback
\* thread goes back to its while (acquiring).
AfterStop(a) == IF a = Port THEN "idle" ELSE "poll"

(***************************************************************************)
(* writeInt32 on the port thread                                           *)
(***************************************************************************)
\* ADAcquire = 1: the parameter is written first, and acquireStart runs only
\* if it was 0.
WriteAcquireOn ==
  /\ pc[Port] = "idle" /\ mode # "exit" /\ acquire = 0
  /\ acquire' = 1 /\ mode' = "start"
  /\ GotoAt(Port, "signal", 1)
  /\ UNCHANGED <<acquiring, callbackThreadId, workerId, running,
                 connected, target, isIdle, workerVars, measuring>>

\* ADAcquire = 0 is written before acquireStop runs; ADImageMode and
\* ADAcquireTime stop a running acquisition and leave ADAcquire to acquireStop.
WriteStop ==
  /\ pc[Port] = "idle" /\ mode # "exit" /\ acquire = 1
  /\ acquire' \in {0, 1} /\ mode' = "stop"
  /\ Goto(Port, "stopBegin")
  /\ UNCHANGED <<acquiring, callbackThreadId, workerId, running,
                 connected, cur, target, isIdle, workerVars, measuring>>

(***************************************************************************)
(* Tearing channel workers down. acquireStop signals every worker, then    *)
(* joins every worker, then disconnects; acquireStart and its failure path *)
(* do the three for one channel after the other. acquireStart leaves       *)
(* PrvHst alone.                                                           *)
(***************************************************************************)
LastTornDown(a) == IF Mode(a) = "start" THEN NumChannels - 1 ELSE NumChannels

\* PrvHst's thread id is cleared before the join, the others' after it.
ClearsIdFirst(ch) == ch = Hst

\* Mutant: a stop forgets to reset the accumulation.
NeverResets(a, ch) == FALSE

\* acquireStop resets the Img accumulation under the mutex, before it joins.
ResetsAccumulation(a, ch) == Mode(a) = "stop" /\ ch = Img

\* Mutant: PrvHst's flag is left to its worker.
SignalForgetsHst(a) ==
  /\ pc[a] = "signal" /\ MutexFree(cur[a])
  /\ running' = IF cur[a] = Hst THEN running ELSE [running EXCEPT ![cur[a]] = FALSE]
  /\ imgFrames' = IF ResetsAccumulation(a, cur[a]) THEN 0 ELSE imgFrames
  /\ IF Mode(a) # "stop" THEN GotoAt(a, "join", cur[a])
     ELSE IF cur[a] < NumChannels THEN GotoAt(a, "signal", cur[a] + 1)
     ELSE GotoAt(a, "join", 1)
  /\ UNCHANGED <<acquire, acquiring, callbackThreadId, workerId,
                 connected, mode, target, isIdle, wpc, measuring>>

Signal(a) ==
  /\ pc[a] = "signal" /\ MutexFree(cur[a])
  /\ running' = [running EXCEPT ![cur[a]] = FALSE]
  /\ imgFrames' = IF ResetsAccumulation(a, cur[a]) THEN 0 ELSE imgFrames
  /\ IF Mode(a) # "stop" THEN GotoAt(a, "join", cur[a])
     ELSE IF cur[a] < NumChannels THEN GotoAt(a, "signal", cur[a] + 1)
     ELSE GotoAt(a, "join", 1)
  /\ UNCHANGED <<acquire, acquiring, callbackThreadId, workerId,
                 connected, mode, target, isIdle, wpc, measuring>>

\* Past the join of channel cur[a].
PastJoin(a) ==
  IF Mode(a) # "stop" THEN GotoAt(a, "disconnect", cur[a])
  ELSE IF cur[a] < NumChannels THEN GotoAt(a, "join", cur[a] + 1)
  ELSE GotoAt(a, "disconnect", 1)

\* The test of the id, the read of it for the join, the join and the store of
\* NULL are separate accesses without a lock: between any two of them the other
\* thread that stops may have joined the worker or cleared its id, and the port
\* thread may have started another one.

\* Mutant: a worker whose flag is clear is taken for one that has ended.
JoinOnlyRunning(a) ==
  /\ pc[a] = "join" /\ (workerId[cur[a]] = NoThread \/ ~running[cur[a]])
  /\ PastJoin(a)
  /\ UNCHANGED <<acquire, acquiring, callbackThreadId, workerId,
                 running, connected, mode, target, isIdle, workerVars, measuring>>

JoinNothing(a) ==
  /\ pc[a] = "join" /\ workerId[cur[a]] = NoThread
  /\ PastJoin(a)
  /\ UNCHANGED <<acquire, acquiring, callbackThreadId, workerId,
                 running, connected, mode, target, isIdle, workerVars, measuring>>

SeeWorker(a) ==
  /\ pc[a] = "join" /\ workerId[cur[a]] # NoThread
  /\ Goto(a, "read")
  /\ UNCHANGED <<acquire, acquiring, callbackThreadId, workerId, running,
                 connected, mode, cur, target, isIdle, workerVars, measuring>>

\* The argument of the join, or PrvHst's local copy: what is there now.
ReadId(a) ==
  /\ pc[a] = "read"
  /\ target' = [target EXCEPT ![a] = workerId[cur[a]]]
  /\ Goto(a, IF ClearsIdFirst(cur[a]) THEN "clear" ELSE "call")
  /\ UNCHANGED <<acquire, acquiring, callbackThreadId, workerId, running,
                 connected, mode, cur, isIdle, workerVars, measuring>>

\* Past epicsThreadMustJoin.
Return(a) ==
  /\ target' = [target EXCEPT ![a] = NoThread]
  /\ IF ClearsIdFirst(cur[a]) THEN PastJoin(a) ELSE GotoAt(a, "clear", cur[a])
  /\ UNCHANGED <<acquire, acquiring, callbackThreadId, workerId, running,
                 connected, mode, isIdle, imgFrames, measuring>>

BeginJoin(a) ==
  /\ pc[a] = "call" /\ JoinWaits(target[a])
  /\ Goto(a, "joining")
  /\ UNCHANGED <<acquire, acquiring, callbackThreadId, workerId, running,
                 connected, mode, cur, target, isIdle, workerVars, measuring>>

NoJoin(a) ==
  /\ pc[a] = "call" /\ JoinReturns(target[a])
  /\ Return(a) /\ UNCHANGED wpc

DoubleJoin(a) ==
  /\ pc[a] = "call" /\ JoinSuspends(target[a])
  /\ Goto(a, "suspended")
  /\ UNCHANGED <<acquire, acquiring, callbackThreadId, workerId, running,
                 connected, mode, cur, target, isIdle, workerVars, measuring>>

\* Mutant: the join does not wait.
EndJoinAtOnce(a) ==
  /\ pc[a] = "joining"
  /\ Return(a) /\ UNCHANGED wpc

\* The thread has ended: the join returns.
EndJoin(a) ==
  /\ pc[a] = "joining" /\ wpc[target[a]] = "ended"
  /\ wpc' = [wpc EXCEPT ![target[a]] = "done"]
  /\ Return(a)

\* The store of NULL, whatever the id is by now.
ClearId(a) ==
  /\ pc[a] = "clear"
  /\ workerId' = [workerId EXCEPT ![cur[a]] = NoThread]
  /\ IF ClearsIdFirst(cur[a]) THEN GotoAt(a, "call", cur[a]) ELSE PastJoin(a)
  /\ UNCHANGED <<acquire, acquiring, callbackThreadId, running,
                 connected, mode, target, isIdle, workerVars, measuring>>

Disconnect(a) ==
  /\ pc[a] = "disconnect" /\ MutexFree(cur[a])
  /\ connected' = [connected EXCEPT ![cur[a]] = FALSE]
  /\ IF cur[a] < LastTornDown(a)
     THEN GotoAt(a, IF Mode(a) = "stop" THEN "disconnect" ELSE "signal", cur[a] + 1)
     ELSE GotoAt(a, CASE Mode(a) = "stop"  -> "stopMeasurement"
                      [] Mode(a) = "start" -> "prepare"
                      [] Mode(a) \in {"abort", "exit"} -> "idle", 1)
  /\ UNCHANGED <<acquire, acquiring, callbackThreadId, workerId, running, mode,
                 target, isIdle, workerVars, measuring>>

(***************************************************************************)
(* The rest of acquireStart (port thread only)                             *)
(***************************************************************************)
\* Every HTTP request may fail; a request that fails may still have reached
\* Serval. A trigger mode that BothCounters cannot use ends the start.
RejectTrigger ==
  /\ pc[Port] = "prepare"
  /\ Goto(Port, "idle")
  /\ UNCHANGED <<acquire, acquiring, callbackThreadId, workerId, running, connected,
                 mode, cur, target, isIdle, workerVars, measuring>>

\* GET /measurement/stop, GET /measurement and the second stop it may ask for;
\* no failure of theirs ends the start.
StopPriorMeasurement ==
  /\ pc[Port] = "prepare"
  /\ measuring' \in {measuring, FALSE} /\ Goto(Port, "ports")
  /\ UNCHANGED <<acquire, acquiring, callbackThreadId, workerId, running,
                 connected, mode, cur, target, isIdle, workerVars>>

\* ensurePreviewTcpPortsFree: the whole of it is PreviewPorts.tla's.
PortsFree ==
  /\ pc[Port] = "ports" /\ Goto(Port, "launch")
  /\ UNCHANGED <<acquire, acquiring, callbackThreadId, workerId, running,
                 connected, mode, cur, target, isIdle, workerVars, measuring>>

NoPortsFree ==
  /\ pc[Port] = "ports" /\ Goto(Port, "idle")
  /\ UNCHANGED <<acquire, acquiring, callbackThreadId, workerId, running, connected,
                 mode, cur, target, isIdle, workerVars, measuring>>

\* GET /measurement/start, with the one retry on "Address already in use".
Launch ==
  /\ pc[Port] = "launch" /\ measuring' = TRUE /\ Goto(Port, "create")
  /\ UNCHANGED <<acquire, acquiring, callbackThreadId, workerId, running,
                 connected, mode, cur, target, isIdle, workerVars>>

LaunchFails ==
  /\ pc[Port] = "launch" /\ measuring' \in {measuring, TRUE}
  /\ mode' = "abort" /\ GotoAt(Port, "signal", 1)
  /\ UNCHANGED <<acquire, acquiring, callbackThreadId, workerId, running,
                 connected, target, isIdle, workerVars>>

\* A thread id the operating system can hand out: nobody refers to it.
Unreferenced(t) == \A a \in Actors : target[a] # t
FreshCallback(c) == pc[c] \in {"ended", "done"} /\ callbackThreadId # c /\ Unreferenced(c)
FreshWorker(w) == ~Live(w) /\ workerId[ChannelOf[w]] # w /\ Unreferenced(w)

\* epicsThreadCreateOpt for timePixCallback; its result is not checked.
CreateCallback ==
  /\ pc[Port] = "create"
  /\ \/ \E c \in Callbacks :
          /\ FreshCallback(c)
          /\ callbackThreadId' = c
          /\ pc' = [pc EXCEPT ![Port] = "arm", ![c] = "initial"]
     \/ callbackThreadId' = NoThread /\ Goto(Port, "arm")
  /\ UNCHANGED <<acquire, acquiring, workerId, running, connected, mode,
                 cur, target, isIdle, workerVars, measuring>>

\* acquiring is set after the thread that tests it has been created.
Arm ==
  /\ pc[Port] = "arm" /\ acquiring' = TRUE /\ GotoAt(Port, "spawn", 1)
  /\ UNCHANGED <<acquire, callbackThreadId, workerId, running, connected,
                 mode, target, isIdle, workerVars, measuring>>

\* A channel that is off, or not a TCP stream, gets no worker.
SpawnGuard(ch) == ~running[ch] /\ workerId[ch] = NoThread

PastSpawn ==
  IF cur[Port] < NumChannels THEN GotoAt(Port, "spawn", cur[Port] + 1)
  ELSE GotoAt(Port, "idle", 1)

SpawnWorker ==
  LET ch == cur[Port] IN
  /\ pc[Port] = "spawn" /\ MutexFree(ch) /\ SpawnGuard(ch)
  /\ \E w \in Workers :
       /\ ChannelOf[w] = ch /\ FreshWorker(w)
       /\ workerId' = [workerId EXCEPT ![ch] = w]
       /\ wpc' = [wpc EXCEPT ![w] = "loop"]
  /\ running' = [running EXCEPT ![ch] = TRUE]
  /\ PastSpawn
  /\ UNCHANGED <<acquire, acquiring, callbackThreadId, connected, mode,
                 target, isIdle, imgFrames, measuring>>

\* The channel is off, has a worker already, or its thread cannot be created.
SkipWorker ==
  /\ pc[Port] = "spawn"
  /\ PastSpawn
  /\ UNCHANGED <<acquire, acquiring, callbackThreadId, workerId, running,
                 connected, mode, target, isIdle, workerVars, measuring>>

(***************************************************************************)
(* acquireStop, on the port thread or on a callback thread                 *)
(***************************************************************************)
\* Mutant: the callback thread is not joined.
StopBeginNoJoin(a) ==
  /\ pc[a] = "stopBegin"
  /\ acquiring' = FALSE /\ Goto(a, "clearCallback")
  /\ UNCHANGED <<acquire, callbackThreadId, workerId, running, connected,
                 mode, cur, target, isIdle, workerVars, measuring>>

StopBegin(a) ==
  /\ pc[a] = "stopBegin"
  /\ acquiring' = FALSE /\ Goto(a, "testCallback")
  /\ UNCHANGED <<acquire, callbackThreadId, workerId, running, connected,
                 mode, cur, target, isIdle, workerVars, measuring>>

TestCallback(a) ==
  /\ pc[a] = "testCallback"
  /\ Goto(a, IF callbackThreadId \in {NoThread, a} THEN "clearCallback" ELSE "joinCallback")
  /\ UNCHANGED <<acquire, acquiring, callbackThreadId, workerId, running, connected,
                 mode, cur, target, isIdle, workerVars, measuring>>

\* callbackThreadId is read again for the join.
JoinCallback(a) ==
  /\ pc[a] = "joinCallback"
  /\ \/ /\ JoinWaits(callbackThreadId)
        /\ Goto(a, "joiningCallback") /\ target' = [target EXCEPT ![a] = callbackThreadId]
     \/ JoinReturns(callbackThreadId) /\ Goto(a, "clearCallback") /\ UNCHANGED target
     \/ JoinSuspends(callbackThreadId) /\ Goto(a, "suspended") /\ UNCHANGED target
  /\ UNCHANGED <<acquire, acquiring, callbackThreadId, workerId, running, connected,
                 mode, cur, isIdle, workerVars, measuring>>

EndJoinCallback(a) ==
  /\ pc[a] = "joiningCallback" /\ pc[target[a]] = "ended"
  /\ pc' = [pc EXCEPT ![a] = "clearCallback", ![target[a]] = "done"]
  /\ target' = [target EXCEPT ![a] = NoThread]
  /\ UNCHANGED <<acquire, acquiring, callbackThreadId, workerId, running,
                 connected, mode, cur, isIdle, workerVars, measuring>>

\* Mutant: Serval is told to stop before the workers are.
ClearCallbackStopsFirst(a) ==
  /\ pc[a] = "clearCallback"
  /\ callbackThreadId' = NoThread
  /\ GotoAt(a, "stopMeasurement", 1)
  /\ UNCHANGED <<acquire, acquiring, workerId, running, connected, mode,
                 target, isIdle, workerVars, measuring>>

\* Mutant: the workers are joined without having been signalled.
ClearCallbackJoinsFirst(a) ==
  /\ pc[a] = "clearCallback"
  /\ callbackThreadId' = NoThread
  /\ GotoAt(a, "join", 1)
  /\ UNCHANGED <<acquire, acquiring, workerId, running, connected, mode,
                 target, isIdle, workerVars, measuring>>

ClearCallback(a) ==
  /\ pc[a] = "clearCallback"
  /\ callbackThreadId' = NoThread
  /\ GotoAt(a, "signal", 1)
  /\ UNCHANGED <<acquire, acquiring, workerId, running, connected, mode,
                 target, isIdle, workerVars, measuring>>

\* GET /measurement/stop, once the IOC side of every stream is closed.
StopMeasurement(a) ==
  /\ pc[a] = "stopMeasurement"
  /\ measuring' = FALSE /\ Goto(a, "finish")
  /\ UNCHANGED <<acquire, acquiring, callbackThreadId, workerId, running,
                 connected, mode, cur, target, isIdle, workerVars>>

StopMeasurementFails(a) ==
  /\ pc[a] = "stopMeasurement"
  /\ measuring' \in {measuring, FALSE}
  /\ GotoAt(a, AfterStop(a), 1)
  /\ UNCHANGED <<acquire, acquiring, callbackThreadId, workerId, running, connected,
                 mode, target, isIdle, workerVars>>

\* The last GET /measurement changes nothing this model keeps.
Finish(a) ==
  /\ pc[a] = "finish"
  /\ acquire' = 0
  /\ GotoAt(a, AfterStop(a), 1)
  /\ UNCHANGED <<acquiring, callbackThreadId, workerId, running, connected, mode,
                 target, isIdle, workerVars, measuring>>

(***************************************************************************)
(* timePixCallback                                                         *)
(***************************************************************************)
FirstPoll(c) ==
  /\ pc[c] = "initial" /\ Goto(c, "poll")
  /\ UNCHANGED <<acquire, acquiring, callbackThreadId, workerId, running,
                 connected, mode, cur, target, isIdle, workerVars, measuring>>

\* The first GET fails, or answers with invalid JSON.
FirstPollFails(c) ==
  /\ pc[c] = "initial"
  /\ acquiring' = FALSE /\ Goto(c, "ended")
  /\ UNCHANGED <<acquire, callbackThreadId, workerId, running, connected, mode, cur,
                 target, isIdle, workerVars, measuring>>

\* while (acquiring)
TestAcquiring(c) ==
  /\ pc[c] = "poll"
  /\ IF acquiring THEN Goto(c, "get") /\ UNCHANGED isIdle
     ELSE Goto(c, "ended") /\ isIdle' = [isIdle EXCEPT ![c] = FALSE]
  /\ UNCHANGED <<acquire, acquiring, callbackThreadId, workerId, running,
                 connected, mode, cur, target, workerVars, measuring>>

\* One GET /measurement of the inner loop. isIdle is never cleared: once the
\* thread has seen DA_IDLE, every further answer makes it stop again.
PollAnswer(c) ==
  /\ pc[c] = "get"
  /\ isIdle' = [isIdle EXCEPT ![c] = @ \/ ~measuring]
  /\ Goto(c, IF isIdle'[c] THEN "stopBegin" ELSE "poll")
  /\ UNCHANGED <<acquire, acquiring, callbackThreadId, workerId, running,
                 connected, mode, cur, target, workerVars, measuring>>

\* An HTTP error leaves the flags alone, invalid JSON clears acquiring.
PollFails(c) ==
  /\ pc[c] = "get"
  /\ acquiring' \in {acquiring, FALSE}
  /\ Goto(c, IF isIdle[c] THEN "stopBegin" ELSE "poll")
  /\ UNCHANGED <<acquire, callbackThreadId, workerId, running, connected,
                 mode, cur, target, isIdle, workerVars, measuring>>

(***************************************************************************)
(* The worker threads: runPreviewTcpWorker, imgWorkerThread and            *)
(* prvHstWorkerThread share this loop.                                     *)
(***************************************************************************)
WGoto(w, label) == wpc' = [wpc EXCEPT ![w] = label]
UnchangedByWorker == UNCHANGED <<acquire, acquiring, callbackThreadId,
                                 workerId, actorVars, measuring>>

\* while (running), and the second test after the connection attempt. Without a
\* connection the worker sleeps and comes back here.
WorkerLeaves(w) ==
  /\ wpc[w] = "loop" /\ ~running[ChannelOf[w]] /\ WGoto(w, "exit")
  /\ UnchangedByWorker /\ UNCHANGED <<running, connected, imgFrames>>

\* The worker decides to connect under the mutex, and connects after it has
\* released it: running may be clear by then.
DecideToConnect(w) ==
  /\ wpc[w] = "loop" /\ running[ChannelOf[w]] /\ ~connected[ChannelOf[w]]
  /\ MutexFree(ChannelOf[w]) /\ WGoto(w, "connecting")
  /\ UnchangedByWorker /\ UNCHANGED <<running, connected, imgFrames>>

Connect(w) ==
  /\ wpc[w] = "connecting" /\ MutexFree(ChannelOf[w]) /\ WGoto(w, "loop")
  /\ \E succeeds \in BOOLEAN : connected' = [connected EXCEPT ![ChannelOf[w]] = succeeds]
  /\ UnchangedByWorker /\ UNCHANGED <<running, imgFrames>>

SeeConnected(w) ==
  /\ wpc[w] = "loop" /\ running[ChannelOf[w]] /\ connected[ChannelOf[w]]
  /\ MutexFree(ChannelOf[w]) /\ WGoto(w, "check")
  /\ UnchangedByWorker /\ UNCHANGED <<running, connected, imgFrames>>

\* PrvHst does not read while its accumulation is disabled.
PauseHst(w) ==
  /\ wpc[w] = "check" /\ ChannelOf[w] = Hst /\ WGoto(w, "loop")
  /\ UnchangedByWorker /\ UNCHANGED <<running, connected, imgFrames>>

EnterRecv(w) ==
  /\ wpc[w] = "check" /\ connected[ChannelOf[w]] /\ MutexFree(ChannelOf[w])
  /\ WGoto(w, "recv")
  /\ UnchangedByWorker /\ UNCHANGED <<running, connected, imgFrames>>

\* The client went away between the test and the lock: PrvHst tests again and
\* leaves; the other workers dereference a null client.
ClientGone(w) ==
  /\ wpc[w] = "check" /\ ~connected[ChannelOf[w]] /\ MutexFree(ChannelOf[w])
  /\ WGoto(w, IF ChannelOf[w] = Hst THEN "exit" ELSE "crashed")
  /\ UnchangedByWorker /\ UNCHANGED <<running, connected, imgFrames>>

\* recv() returns data, or the end of the stream; the mutex is released.
RecvReturns(w) ==
  /\ wpc[w] = "recv" /\ wpc' \in {[wpc EXCEPT ![w] = "got"], [wpc EXCEPT ![w] = "closed"]}
  /\ UnchangedByWorker /\ UNCHANGED <<running, connected, imgFrames>>

\* A closed stream clears both flags; a socket error only if still connected.
MarkClosed(w) ==
  LET ch == ChannelOf[w] IN
  /\ wpc[w] = "closed" /\ MutexFree(ch) /\ WGoto(w, "exit")
  /\ \/ /\ running' = [running EXCEPT ![ch] = FALSE]
        /\ connected' = [connected EXCEPT ![ch] = FALSE]
     \/ ~connected[ch] /\ UNCHANGED <<running, connected>>
  /\ UnchangedByWorker /\ UNCHANGED imgFrames

\* The worker has the lock again and bytes in its buffer, or the rest of a frame.
MayProcess(w) ==
  \/ wpc[w] = "got" /\ MutexFree(ChannelOf[w])
  \/ wpc[w] = "body"

AddFrame(ch) == IF ch = Img /\ imgFrames < FrameCap THEN imgFrames + 1 ELSE imgFrames

\* A whole frame: Img accumulates it (unless it is of threshold 1). No whole
\* line yet, or one that is not JSON, accumulates nothing.
ProcessFrame(w) ==
  /\ MayProcess(w) /\ WGoto(w, "loop")
  /\ imgFrames' \in {imgFrames, AddFrame(ChannelOf[w])}
  /\ UnchangedByWorker /\ UNCHANGED <<running, connected>>

\* The header is there, the pixels are not: wait for them under the mutex.
AwaitBody(w) ==
  /\ wpc[w] = "got" /\ MutexFree(ChannelOf[w]) /\ WGoto(w, "body")
  /\ UnchangedByWorker /\ UNCHANGED <<running, connected, imgFrames>>

\* processLine returned false: the worker ends and running stays set.
RejectFrame(w) ==
  /\ MayProcess(w) /\ WGoto(w, "exit")
  /\ UnchangedByWorker /\ UNCHANGED <<running, connected, imgFrames>>

\* Mutant: the worker ends without disconnecting.
WorkerExitsConnected(w) ==
  /\ wpc[w] = "exit" /\ MutexFree(ChannelOf[w])
  /\ WGoto(w, "ended")
  /\ UnchangedByWorker /\ UNCHANGED <<running, connected, imgFrames>>

WorkerExits(w) ==
  /\ wpc[w] = "exit" /\ MutexFree(ChannelOf[w])
  /\ connected' = [connected EXCEPT ![ChannelOf[w]] = FALSE]
  /\ WGoto(w, "ended")
  /\ UnchangedByWorker /\ UNCHANGED <<running, imgFrames>>

(***************************************************************************)
(* Serval: a measurement with a frame count or an exposure time ends.      *)
(***************************************************************************)
MeasurementEnds ==
  /\ SelfEnding /\ measuring /\ measuring' = FALSE
  /\ UNCHANGED <<acquire, acquiring, callbackThreadId, workerId, running,
                 connected, actorVars, workerVars>>

TearDown(a) ==
  \/ Signal(a) \/ JoinNothing(a) \/ SeeWorker(a) \/ ReadId(a) \/ BeginJoin(a) \/ NoJoin(a)
  \/ DoubleJoin(a) \/ EndJoin(a) \/ ClearId(a) \/ Disconnect(a)

StopStep(a) ==
  \/ StopBegin(a) \/ TestCallback(a) \/ JoinCallback(a) \/ EndJoinCallback(a) \/ ClearCallback(a)
  \/ StopMeasurement(a) \/ StopMeasurementFails(a) \/ Finish(a)

StartStep ==
  \/ RejectTrigger \/ StopPriorMeasurement \/ PortsFree \/ NoPortsFree
  \/ Launch \/ LaunchFails \/ CreateCallback \/ Arm \/ SpawnWorker \/ SkipWorker

PollStep(c) ==
  FirstPoll(c) \/ FirstPollFails(c) \/ TestAcquiring(c) \/ PollAnswer(c) \/ PollFails(c)

WorkerStep(w) ==
  \/ WorkerLeaves(w) \/ DecideToConnect(w) \/ Connect(w) \/ SeeConnected(w) \/ PauseHst(w)
  \/ EnterRecv(w) \/ ClientGone(w) \/ MarkClosed(w)
  \/ (wpc[w] = "got" /\ ProcessFrame(w)) \/ AwaitBody(w)
  \/ (wpc[w] = "got" /\ RejectFrame(w)) \/ WorkerExits(w)

\* What the worker waits for in recv() or receive_exact() is Serval's to give.
ServalStep(w) ==
  \/ RecvReturns(w)
  \/ wpc[w] = "body" /\ (ProcessFrame(w) \/ RejectFrame(w))

Next ==
  \/ WriteAcquireOn \/ WriteStop \/ StartStep \/ MeasurementEnds
  \/ \E a \in Actors : TearDown(a) \/ StopStep(a)
  \/ \E c \in Callbacks : PollStep(c)
  \/ \E w \in Workers : WorkerStep(w) \/ ServalStep(w)

Spec == Init /\ [][Next]_vars

(***************************************************************************)
(* Fairness. Every thread of the IOC that can take a step is eventually    *)
(* scheduled (weak fairness). acquireStop competes for a channel mutex     *)
(* that the worker releases and takes again around every recv(): strong    *)
(* fairness says that it gets the mutex in the end. Serval's fairness is   *)
(* separate: on every connection that is read it sends or closes.          *)
(***************************************************************************)
IocFairness ==
  /\ WF_vars(StartStep)
  /\ \A a \in Actors : SF_vars(TearDown(a)) /\ WF_vars(StopStep(a))
  /\ \A c \in Callbacks : WF_vars(PollStep(c))
  /\ \A w \in Workers : WF_vars(WorkerStep(w))

ServalFairness == \A w \in Workers : WF_vars(ServalStep(w))

FairSpec == Spec /\ IocFairness /\ ServalFairness

(***************************************************************************)
(* Properties of every interleaving                                        *)
(***************************************************************************)
\* A channel that says it is connected has a worker thread to read it: no
\* connection is left open behind the last worker, whatever stops it.
ConnectedHasReader ==
  \A ch \in Channels : connected[ch] => \E w \in Workers : ChannelOf[w] = ch /\ Live(w)

(***************************************************************************)
(* Properties of acquisitions that only the port thread stops              *)
(***************************************************************************)
\* Two threads never read one stream, although the flag and the id that keep
\* acquireStart from starting a second worker are cleared one after the other, and
\* PrvHst's id before its worker has ended. (A callback thread that stops by itself
\* can store NULL over the id of a worker that has just been started; the next
\* stop does not join that one.)
OneReader ==
  \A v, w \in Workers : (Exists(v) /\ Exists(w) /\ ChannelOf[v] = ChannelOf[w]) => v = w

\* OPTIMIZATION_SUMMARY.md:527: threads are joined safely whichever thread
\* calls acquireStop(). No thread is joined twice: the second caller would be
\* suspended by cantProceed().
NoDoubleJoin == \A a \in Actors : pc[a] # "suspended"

\* No thread is lost to a stop: none is suspended as the second to join another,
\* and no client is deleted between the moment its worker sees it connected and
\* the moment that worker, with the lock again, reads from it.
NoThreadLost == NoDoubleJoin /\ \A w \in Workers : wpc[w] # "crashed"

\* No thread of an acquisition is left, none is remembered, and no flag is set.
Quiet ==
  /\ \A w \in Workers : ~Exists(w)
  /\ \A c \in Callbacks : pc[c] = "done"
  /\ \A ch \in Channels : workerId[ch] = NoThread /\ ~connected[ch] /\ ~running[ch]
  /\ callbackThreadId = NoThread /\ ~acquiring

\* Off: the Acquire PV is 0 and the port thread is done with the write.
Off == pc[Port] = "idle" /\ acquire = 0

\* RELEASE.md:232: stopping signals all worker threads, then waits for all of
\* them to exit: when Acquire is back at 0 all is quiet. acquireStop resets the
\* Img accumulation before it joins the Img worker, so a frame already received
\* lands in it afterwards, and in the sum of the next acquisition: at most one,
\* however the worker was interrupted.
OffIsQuiet == Off => Quiet /\ imgFrames <= 1

\* acquire.cpp:923: the IOC side of every stream is closed, and its reader
\* gone, before Serval is told to stop.
ClosedBeforeStop ==
  \A a \in Actors : pc[a] = "stopMeasurement" =>
     /\ \A ch \in Channels : ~connected[ch]
     /\ \A w \in Workers : ~Exists(w)

\* A write to Acquire returns: acquireStart and acquireStop finish, although
\* workers hold the mutexes they need for as long as recv() blocks.
PortReturns == (pc[Port] # "idle") ~> (pc[Port] = "idle")
=============================================================================
