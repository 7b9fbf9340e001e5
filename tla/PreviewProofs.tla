----------------------------- MODULE PreviewProofs -----------------------------
(***************************************************************************)
(* Proofs about the preview: first its ports, then what comes in on one of *)
(* them.                                                                   *)
(*                                                                         *)
(* PreviewPorts, for any number of channels and ports: a forced rotation   *)
(* leaves no two channels on one port, one retry is enough, and workers    *)
(* and Serval agree when a measurement starts.                             *)
(*                                                                         *)
(* ThresholdPairing, for any number of triggers and restarts, and any      *)
(* distance at which a restart is noticed: the flags of the two thresholds *)
(* are true to the arrays, and a band-pass image is made of one trigger,   *)
(* and of every one, unless a first message was lost.                      *)
(***************************************************************************)
EXTENDS PreviewPorts, ThresholdPairing, TLAPS

\* The types the rotation depends on.
ScanTypes ==
  /\ path \in [Channels -> Ports]
  /\ pc \in {"idle", "scan", "push", "start", "streaming"}
  /\ forced \in BOOLEAN
  /\ cur \in 1..(NumChannels + 1)

\* A rotation begins with nothing done.
Fresh == pc # "scan" => cur = 1

\* The channels a forced rotation has passed are on different ports, and all
\* of these are reserved: this keeps the channels to come away from them.
Passed == IF pc = "scan" THEN 1..(cur - 1) ELSE Channels
Apart == \A c, d \in Passed : c # d => path[c] # path[d]
Rotation ==
  (forced /\ pc \in {"scan", "push", "start"}) =>
     Apart /\ (pc = "scan" => \A c \in Passed : path[c] \in reserved)

IInv == ScanTypes /\ Fresh /\ Rotation

\* The initial states satisfy the invariant.
LEMMA InitRotates == Init => IInv
  <1> SUFFICES ASSUME Init PROVE IInv
    OBVIOUS
  <1>1. /\ path \in [Channels -> Ports]
        /\ pc = "idle" /\ forced = FALSE /\ cur = 1
    BY DEF Init
  <1>2. 1 \in 1..(NumChannels + 1)
    BY PortsAssumption
  <1> QED BY <1>1, <1>2 DEF IInv, ScanTypes, Fresh, Rotation

\* Moving a channel takes it to a port that no channel before it has.
LEMMA MoveRotates ==
  ASSUME IInv, MovePort
  PROVE  IInv'
  <1> USE PortsAssumption DEF IInv, Channels
  <1>1. PICK port \in Candidates(path[cur]) :
          /\ path' = [path EXCEPT ![cur] = port]
          /\ reserved' = reserved \cup {path[cur], port}
    BY DEF MovePort
  <1>2. port \in Ports /\ port \notin reserved
    BY <1>1 DEF Candidates
  <1>3. /\ pc = "scan" /\ pc' = "scan" /\ cur \in Channels /\ cur' = cur + 1
        /\ forced' = forced
    BY DEF MovePort, ScanTypes
  <1>4. ScanTypes'
    BY <1>1, <1>2, <1>3 DEF ScanTypes
  <1>5. Fresh'
    BY <1>3 DEF Fresh
  <1>6. Rotation'
    <2> SUFFICES ASSUME forced'
                 PROVE  Apart' /\ \A c \in Passed' : path'[c] \in reserved'
      BY DEF Rotation
    <2>1. Apart /\ \A c \in 1..(cur - 1) : path[c] \in reserved
      BY <1>3 DEF Rotation, Passed
    <2>2. Passed' = 1..cur /\ Passed = 1..(cur - 1)
      BY <1>3 DEF Passed
    <2>3. \A c \in 1..(cur - 1) : path'[c] = path[c] /\ path'[c] \in reserved
      BY <1>1, <1>3, <2>1 DEF ScanTypes
    <2>4. path'[cur] = port
      BY <1>1, <1>3 DEF ScanTypes
    <2>5. \A c \in Passed' : c = cur \/ c \in 1..(cur - 1)
      BY <1>3, <2>2
    <2>6. \A c \in Passed' : path'[c] \in reserved'
      BY <1>1, <2>3, <2>4, <2>5
    <2>7. Apart'
      <3> SUFFICES ASSUME NEW c \in Passed', NEW d \in Passed', c # d
                   PROVE  path'[c] # path'[d]
        BY DEF Apart
      <3>1. CASE c = cur
        BY <3>1, <1>2, <2>3, <2>4, <2>5
      <3>2. CASE d = cur
        BY <3>2, <1>2, <2>3, <2>4, <2>5
      <3>3. CASE c \in 1..(cur - 1) /\ d \in 1..(cur - 1)
        BY <3>3, <2>1, <2>2, <2>3 DEF Apart
      <3> QED BY <3>1, <3>2, <3>3, <2>5
    <2> QED BY <2>6, <2>7
  <1> QED BY <1>4, <1>5, <1>6

\* Outside a scan that is forced, the invariant says little more than types.
LEMMA Unforced ==
  ASSUME path' \in [Channels -> Ports], pc' \in {"idle", "scan"}, cur' \in 1..(NumChannels + 1),
         forced' \in BOOLEAN, pc' = "scan" => forced' = FALSE, pc' = "idle" => cur' = 1
  PROVE  IInv'
  <1>1. ScanTypes'
    BY DEF ScanTypes
  <1>2. Fresh'
    BY DEF Fresh
  <1>3. Rotation'
    BY DEF Rotation
  <1> QED BY <1>1, <1>2, <1>3 DEF IInv

\* Every step keeps the invariant.
LEMMA StepRotates == IInv /\ [Next]_vars => IInv'
  <1> SUFFICES ASSUME IInv, [Next]_vars PROVE IInv'
    OBVIOUS
  <1> USE PortsAssumption DEF IInv, ScanTypes, Fresh, Rotation, Channels
  <1>1. CASE \E ch \in Channels, port \in Ports : WritePath(ch, port)
    BY <1>1 DEF WritePath, scan
  <1>2. CASE WriteData \/ StopAcquisition
    BY <1>2 DEF WriteData, StopAcquisition, scan
  <1>3. CASE StartAcquisition \/ RetryForced
    <2>1. pc # "scan" /\ pc' = "scan" /\ cur' = cur /\ path' = path /\ forced' \in BOOLEAN
      BY <1>3 DEF StartAcquisition, RetryForced, BeginScan
    <2>2. Passed' = {}
      BY <2>1 DEF Passed
    <2> QED BY <2>1, <2>2 DEF Apart
  <1>4. CASE KeepPort
    <2>1. pc' = "scan" /\ path' = path /\ cur <= NumChannels /\ cur' = cur + 1
      BY <1>4 DEF KeepPort
    <2>2. forced' = FALSE
      BY <1>4 DEF KeepPort
    <2>3. cur' \in 1..(NumChannels + 1)
      BY <2>1
    <2> QED BY <2>1, <2>2, <2>3, Unforced
  <1>5. CASE MovePort
    BY <1>5, MoveRotates DEF IInv
  <1>6. CASE NoPortLeft
    <2>1. path' = path /\ pc' = "idle" /\ forced' = FALSE /\ cur' = 1
      BY <1>6 DEF NoPortLeft, LeaveStart, LeaveScan
    <2>2. cur' \in 1..(NumChannels + 1)
      BY <2>1
    <2> QED BY <2>1, <2>2, Unforced
  <1>7. CASE EndScan
    <2>1. Passed = Channels /\ Passed' = Channels /\ path' = path
      BY <1>7 DEF EndScan, Passed
    <2> QED BY <1>7, <2>1 DEF EndScan, LeaveScan, Apart
  <1>8. CASE PushPaths
    <2>1. path' = path /\ pc = "push"
      BY <1>8 DEF PushPaths
    <2>2. CASE pc' = "start" /\ UNCHANGED scan
      BY <2>1, <2>2 DEF scan, Apart, Passed
    <2>3. CASE pc' = "idle" /\ LeaveStart
      <3>1. forced' = FALSE /\ cur' = 1
        BY <2>3 DEF LeaveStart, LeaveScan
      <3>2. cur' \in 1..(NumChannels + 1)
        BY <3>1
      <3> QED BY <2>1, <2>3, <3>1, <3>2, Unforced
    <2> QED BY <1>8, <2>2, <2>3 DEF PushPaths
  <1>9. CASE StartServes \/ StartFails
    BY <1>9 DEF StartServes, StartFails, LeaveStart, LeaveScan
  <1>10. CASE \/ \E port \in Ports : PortReleased(port)
              \/ \E port \in Contested : PortTaken(port)
              \/ ReconnectReads \/ ReconnectPushes
              \/ UNCHANGED vars
    BY <1>10 DEF PortReleased, PortTaken, ReconnectReads, ReconnectPushes, vars, scan,
                 Apart, Passed
  <1> QED BY <1>1, <1>2, <1>3, <1>4, <1>5, <1>6, <1>7, <1>8, <1>9, <1>10 DEF Next

\* After the forced rotation no two channels share a port, however many
\* channels and ports there are and whatever other threads do meanwhile.
THEOREM ForcedIsDistinctHolds == Spec => []ForcedIsDistinct
  <1>1. IInv => ForcedIsDistinct
    BY DEF IInv, Rotation, ForcedIsDistinct, Apart, Passed
  <1> QED BY <1>1, InitRotates, StepRotates, PTL DEF Spec

-----------------------------------------------------------------------------
(***************************************************************************)
(* Types of all variables.                                                 *)
(***************************************************************************)

\* So do the locals of a function that returns.
LEMMA LeaveTyped ==
  ASSUME LeaveScan
  PROVE  cur' \in 1..(NumChannels + 1) /\ reserved' \subseteq Ports /\ changed' \in BOOLEAN
  <1>1. 1 \in 1..(NumChannels + 1) /\ {} \subseteq Ports
    BY PortsAssumption
  <1> QED
    BY <1>1 DEF LeaveScan

\* Every step keeps the types.
LEMMA StepTyped ==
  ASSUME TypeOK, [Next]_vars
  PROVE  TypeOK'
  <1> USE PortsAssumption DEF TypeOK, Channels
  <1>1. ASSUME NEW ch \in Channels, NEW port \in Ports, WritePath(ch, port) PROVE TypeOK'
    BY <1>1 DEF WritePath, scan
  <1>2. CASE WriteData
    BY <1>2 DEF WriteData, Push, scan
  <1>3. CASE StartAcquisition \/ RetryForced
    BY <1>3 DEF StartAcquisition, RetryForced, BeginScan
  <1>4. CASE StopAcquisition
    BY <1>4 DEF StopAcquisition, scan
  <1>5. CASE KeepPort
    <2>1. cur \in Channels /\ cur' \in 1..(NumChannels + 1)
      BY <1>5 DEF KeepPort
    <2> QED
      BY <1>5, <2>1 DEF KeepPort
  <1>6. CASE MovePort
    <2>1. PICK port \in Ports : /\ path' = [path EXCEPT ![cur] = port]
                                /\ reserved' = reserved \cup {path[cur], port}
      BY <1>6 DEF MovePort, Candidates
    <2>2. cur \in Channels /\ cur' \in 1..(NumChannels + 1)
      BY <1>6 DEF MovePort
    <2> QED
      BY <1>6, <2>1, <2>2 DEF MovePort
  <1>7. CASE NoPortLeft
    <2>1. disturbed' \in BOOLEAN
      BY <1>7 DEF NoPortLeft
    <2> QED
      BY <1>7, <2>1, LeaveTyped DEF NoPortLeft, LeaveStart
  <1>8. CASE EndScan
    <2>1. endpoint' \in [Channels -> Ports]
      BY <1>8 DEF EndScan, Synced
    <2> QED
      BY <1>8, <2>1, LeaveTyped DEF EndScan
  <1>9. CASE PushPaths
    <2>1. told' \in [Channels -> Ports] /\ disturbed' \in BOOLEAN
      BY <1>9 DEF PushPaths, Push
    <2>2. CASE pc' = "start" /\ UNCHANGED <<scan, calm>>
      BY <1>9, <2>1, <2>2 DEF PushPaths, scan
    <2>3. CASE pc' = "idle" /\ LeaveStart
      BY <1>9, <2>1, <2>3, LeaveTyped DEF PushPaths, LeaveStart
    <2> QED
      BY <1>9, <2>2, <2>3 DEF PushPaths
  <1>10. CASE StartServes
    <2>1. Listening \subseteq Ports
      BY DEF Listening
    <2> QED
      BY <1>10, <2>1, LeaveTyped DEF StartServes, LeaveStart
  <1>11. CASE StartFails
    <2>1. Listening \subseteq Ports
      BY DEF Listening
    <2>2. busy' \subseteq Ports
      BY <1>11, <2>1 DEF StartFails
    <2> QED
      BY <1>11, <2>2, LeaveTyped DEF StartFails, LeaveStart
  <1>12. ASSUME NEW port \in Ports, PortReleased(port) PROVE TypeOK'
    BY <1>12 DEF PortReleased, scan
  <1>13. ASSUME NEW port \in Contested, PortTaken(port) PROVE TypeOK'
    BY <1>13 DEF PortTaken, scan, Ports
  <1>14. CASE ReconnectReads
    <2>1. path[Len(read) + 1] \in Ports
      BY <1>14 DEF ReconnectReads
    <2>2. read' \in Seq(Ports) /\ Len(read') <= NumChannels
      BY <1>14, <2>1 DEF ReconnectReads
    <2> QED
      BY <1>14, <2>2 DEF ReconnectReads, scan
  <1>15. CASE ReconnectPushes
    <2>1. read \in [Channels -> Ports]
      BY <1>15 DEF ReconnectPushes
    <2>2. <<>> \in Seq(Ports) /\ Len(<<>>) <= NumChannels
      OBVIOUS
    <2> QED
      BY <1>15, <2>1, <2>2 DEF ReconnectPushes, scan
  <1>16. CASE UNCHANGED vars
    BY <1>16 DEF vars, scan
  <1> QED
    BY <1>1, <1>2, <1>3, <1>4, <1>5, <1>6, <1>7, <1>8, <1>9, <1>10, <1>11, <1>12, <1>13,
       <1>14, <1>15, <1>16 DEF Next

\* The initial states have the types.
LEMMA InitTyped == Init => TypeOK
  <1> SUFFICES ASSUME Init PROVE TypeOK
    OBVIOUS
  <1>1. busy \subseteq Ports /\ cur \in 1..(NumChannels + 1) /\ reserved \subseteq Ports
    BY PortsAssumption DEF Init, Ports
  <1>2. read \in Seq(Ports) /\ Len(read) <= NumChannels
    BY PortsAssumption DEF Init
  <1> QED
    BY <1>1, <1>2 DEF Init, TypeOK

\* The variables keep their types: in particular no channel leaves the range of
\* ports, and what the reconnecting thread pushes has a path for each channel.
THEOREM TypeCorrect == Spec => []TypeOK
  BY InitTyped, StepTyped, PTL DEF Spec

-----------------------------------------------------------------------------
(***************************************************************************)
(* Agreement. What a scan changes is pushed before the start, or it is     *)
(* noted that it was not; the poll thread's paths are always noted.        *)
(***************************************************************************)
ToldIsRight ==
  ~disturbed =>
    /\ read = <<>>
    /\ pc \in {"idle", "start", "streaming"} \/ (pc = "scan" /\ ~changed) => told = path

Idle == pc # "scan" => ~changed

\* No forced rotation chooses a port that is in use; as long as none is taken,
\* and nobody else tells Serval, what it has chosen stays free.
StillFree ==
  (forced /\ calm) =>
    /\ pc \in {"scan", "push", "start"}
    /\ (pc = "scan" /\ cur > 1) => changed
    /\ \A c \in Passed : path[c] \notin busy
    /\ pc = "start" => told = path

Agreement == TypeOK /\ IInv /\ Idle /\ ToldIsRight /\ StillFree

\* Only a scan changes paths and leaves it to others to push them.
LEMMA StepIdle == TypeOK /\ Idle /\ [Next]_vars => Idle'
  BY DEF TypeOK, Idle, Next, vars, scan, WritePath, WriteData, StartAcquisition, RetryForced,
         BeginScan, StopAcquisition, KeepPort, MovePort, NoPortLeft, EndScan, PushPaths,
         StartServes, StartFails, LeaveStart, LeaveScan, PortReleased, PortTaken,
         ReconnectReads, ReconnectPushes

\* A push that succeeds, with nothing read by the poll thread, tells Serval the
\* paths; any other push is noted.
LEMMA PushTells ==
  ASSUME NEW ok \in BOOLEAN, Push(ok)
  PROVE  /\ ok => told' = path
         /\ ~disturbed' => ok /\ read = <<>>
  BY DEF Push

\* Every step keeps Serval told, or notes that it is not.
LEMMA StepTold ==
  ASSUME TypeOK, Idle, ToldIsRight, [Next]_vars
  PROVE  ToldIsRight'
  <1> SUFFICES ASSUME ~disturbed'
               PROVE  ToldIsRight'
    BY DEF ToldIsRight
  <1> USE DEF ToldIsRight, Idle
  <1>1. CASE \/ \E ch \in Channels, port \in Ports : WritePath(ch, port)
             \/ ReconnectReads \/ ReconnectPushes
    BY <1>1 DEF WritePath, ReconnectReads, ReconnectPushes
  <1>2. CASE WriteData
    BY <1>2, PushTells DEF WriteData, scan
  <1>3. CASE StartAcquisition \/ RetryForced
    BY <1>3 DEF StartAcquisition, RetryForced, BeginScan
  <1>4. CASE KeepPort \/ MovePort \/ EndScan
    BY <1>4 DEF KeepPort, MovePort, EndScan, LeaveScan
  <1>5. CASE NoPortLeft
    <2>1. ~disturbed /\ ~changed
      BY <1>5 DEF NoPortLeft
    <2> QED
      BY <1>5, <2>1 DEF NoPortLeft
  <1>6. CASE PushPaths
    BY <1>6, PushTells DEF PushPaths
  <1>7. CASE StartServes \/ StartFails \/ StopAcquisition
    BY <1>7 DEF StartServes, StartFails, StopAcquisition, scan
  <1>8. CASE \/ \E port \in Ports : PortReleased(port)
             \/ \E port \in Contested : PortTaken(port)
             \/ UNCHANGED vars
    BY <1>8 DEF PortReleased, PortTaken, vars, scan
  <1> QED
    BY <1>1, <1>2, <1>3, <1>4, <1>5, <1>6, <1>7, <1>8 DEF Next

\* Every step keeps what a forced rotation has chosen free.
LEMMA StepFree ==
  ASSUME TypeOK, IInv, Idle, StillFree, [Next]_vars
  PROVE  StillFree'
  <1> SUFFICES ASSUME forced', calm'
               PROVE  StillFree'
    BY DEF StillFree
  <1> USE PortsAssumption DEF StillFree, Channels
  <1>1. CASE \/ \E ch \in Channels, port \in Ports : WritePath(ch, port)
             \/ WriteData \/ StopAcquisition
    BY <1>1 DEF WritePath, WriteData, StopAcquisition, scan
  <1>2. CASE StartAcquisition \/ KeepPort \/ NoPortLeft \/ StartServes \/ StartFails
    BY <1>2 DEF StartAcquisition, BeginScan, KeepPort, NoPortLeft, StartServes, StartFails,
                LeaveStart
  <1>3. CASE RetryForced
    <2>1. pc' = "scan" /\ cur' = 1
      BY <1>3 DEF RetryForced, BeginScan, IInv, Fresh
    <2> QED
      BY <2>1 DEF Passed
  <1>4. CASE MovePort
    <2>1. PICK port \in Candidates(path[cur]) : path' = [path EXCEPT ![cur] = port]
      BY <1>4 DEF MovePort
    <2>2. port \notin busy /\ cur \in Channels /\ pc = "scan" /\ pc' = "scan"
      BY <1>4, <2>1 DEF MovePort, Candidates, TypeOK
    <2>3. cur' = cur + 1 /\ changed' /\ busy' = busy /\ forced /\ calm
      BY <1>4 DEF MovePort
    <2>4. \A c \in Passed' : c = cur \/ c \in Passed
      BY <2>2, <2>3 DEF Passed
    <2>5. \A c \in Passed' : path'[c] \notin busy
      BY <2>1, <2>2, <2>3, <2>4 DEF TypeOK, Passed
    <2> QED
      BY <2>2, <2>3, <2>5
  <1>5. CASE EndScan
    <2>1. cur = NumChannels + 1 /\ cur > 1 /\ pc = "scan" /\ forced /\ calm
      BY <1>5 DEF EndScan
    <2>2. changed /\ pc' = "push"
      BY <1>5, <2>1 DEF EndScan
    <2>3. Passed = Channels /\ Passed' = Channels /\ path' = path /\ busy' = busy
      BY <1>5, <2>1, <2>2 DEF EndScan, Passed
    <2> QED
      BY <2>1, <2>2, <2>3
  <1>6. CASE PushPaths
    <2>1. told' = path /\ pc = "push" /\ pc' = "start" /\ UNCHANGED <<scan, calm, path, busy>>
      BY <1>6, PushTells DEF PushPaths, LeaveStart
    <2> QED
      BY <2>1 DEF scan, Passed
  <1>7. CASE \E port \in Ports : PortReleased(port)
    BY <1>7 DEF PortReleased, scan, Passed
  <1>8. CASE (\E port \in Contested : PortTaken(port)) \/ ReconnectReads \/ ReconnectPushes
    BY <1>8 DEF PortTaken, ReconnectReads, ReconnectPushes
  <1>9. CASE UNCHANGED vars
    BY <1>9 DEF vars, scan, Passed
  <1> QED
    BY <1>1, <1>2, <1>3, <1>4, <1>5, <1>6, <1>7, <1>8, <1>9 DEF Next

\* Together this is an inductive invariant.
LEMMA AgreementInductive == (Init => Agreement) /\ (Agreement /\ [Next]_vars => Agreement')
  <1>1. Init => Agreement
    BY InitTyped, InitRotates DEF Init, Agreement, Idle, ToldIsRight, StillFree
  <1>2. Agreement /\ [Next]_vars => Agreement'
    BY StepTyped, StepRotates, StepIdle, StepTold, StepFree DEF Agreement
  <1> QED
    BY <1>1, <1>2

\* The start after the forced rotation does not find the address in use again,
\* unless a port was taken, or Serval told otherwise, meanwhile (acquireStart,
\* acquire.cpp).
THEOREM RetryIsEnoughHolds == Spec => []RetryIsEnough
  <1>1. Agreement => RetryIsEnough
    <2> SUFFICES ASSUME Agreement, forced, pc = "start", calm, Conflict PROVE FALSE
      BY DEF RetryIsEnough
    <2>1. told = path /\ \A c \in Channels : path[c] \notin busy
      BY DEF Agreement, StillFree, Passed
    <2>2. \A c, d \in Channels : c # d => path[c] # path[d]
      BY DEF Agreement, IInv, Rotation, Apart, Passed
    <2> QED
      BY <2>1, <2>2 DEF Conflict
  <1> QED
    BY <1>1, AgreementInductive, PTL DEF Spec

\* When a measurement starts, every worker is sent to the port Serval was told;
\* see AgreeAtStartStep.
THEOREM AgreeAtStartStepHolds == Spec => AgreeAtStartStep
  <1>1. Agreement /\ [Next]_vars =>
          [(pc = "start" /\ pc' = "streaming" /\ ~disturbed) => endpoint' = told]_vars
    <2> SUFFICES ASSUME Agreement, Next, pc = "start", pc' = "streaming", ~disturbed
                 PROVE  endpoint' = told
      OBVIOUS
    <2>1. StartServes
      BY DEF Next, WritePath, WriteData, StartAcquisition, StopAcquisition, KeepPort, MovePort,
             NoPortLeft, EndScan, PushPaths, RetryForced, BeginScan, StartFails, PortReleased,
             PortTaken, ReconnectReads, ReconnectPushes
    <2> QED
      BY <2>1 DEF StartServes, Agreement, ToldIsRight
  <1> QED
    BY <1>1, AgreementInductive, PTL DEF Spec, AgreeAtStartStep


-----------------------------------------------------------------------------
(***************************************************************************)
(* Arithmetic of messages and triggers.                                    *)
(***************************************************************************)

\* A restart takes the triggers of the measurement out of what is left of them.
LEMMA Measurements ==
  ASSUME NEW r \in 0..NumRestarts
  PROVE  /\ r * NumTriggers \in Nat
         /\ r * NumTriggers + NumTriggers <= NumTriggers * (NumRestarts + 1)
         /\ (r + 1) * NumTriggers = r * NumTriggers + NumTriggers
  <1> DEFINE k == NumRestarts - r
  <1>1. NumTriggers \in Nat /\ NumRestarts \in Nat /\ r \in Nat /\ k \in Nat
    BY PairingAssumption
  <1>2. k * NumTriggers \in Nat /\ r * NumTriggers \in Nat
    BY <1>1, SMT
  <1>3. NumRestarts = r + k
    BY <1>1
  <1>4. NumTriggers * (r + k + 1) = r * NumTriggers + k * NumTriggers + NumTriggers
    BY <1>1, SMT
  <1>5. NumTriggers * (NumRestarts + 1) = r * NumTriggers + k * NumTriggers + NumTriggers
    BY <1>3, <1>4
  <1>6. (r + 1) * NumTriggers = r * NumTriggers + NumTriggers
    BY <1>1, SMT
  <1> QED
    BY <1>1, <1>2, <1>5, <1>6

\* The trigger of a message, and of the messages before it.
LEMMA Halves ==
  ASSUME NEW m \in 1..(2 * NumTriggers + 1)
  PROVE  /\ m \div 2 \in 0..NumTriggers /\ TriggerOf(m) \in Nat
         /\ m <= 2 * NumTriggers => TriggerOf(m) \in 1..NumTriggers
         /\ m \div 2 <= TriggerOf(m) /\ TriggerOf(m) = (m + 1) \div 2
         /\ ~IsFirst(m) => m >= 2 /\ TriggerOf(m - 1) = TriggerOf(m)
         /\ IsFirst(m) <=> ~IsFirst(m + 1)
  BY PairingAssumption DEF TriggerOf, IsFirst

\* What the driver makes of message m is an array of its trigger.
LEMMA ArraysOf ==
  ASSUME NEW m \in 1..(2 * NumTriggers), restarts \in 0..NumRestarts
  PROVE  /\ ArrayOf(m) \in Arrays /\ ArrayOf(m) # None
         /\ ArrayOf(m).trigger = restarts * NumTriggers + TriggerOf(m)
         /\ ArrayOf(m).trigger \in Triggers
         /\ ArrayOf(m).frame = FrameNumber(m) /\ FrameNumber(m) \in Frames
  <1>1. TriggerOf(m) \in 1..NumTriggers
    BY Halves, PairingAssumption
  <1>2. restarts * NumTriggers + TriggerOf(m) \in Triggers
    BY <1>1, Measurements, PairingAssumption DEF Triggers
  <1>3. FrameNumber(m) \in Frames
    BY <1>1, PairingAssumption DEF FrameNumber, Frames
  <1>4. restarts * NumTriggers + TriggerOf(m) # 0
    BY <1>2, PairingAssumption DEF Triggers
  <1> QED
    BY <1>2, <1>3, <1>4 DEF ArrayOf, Arrays, None

-----------------------------------------------------------------------------
(***************************************************************************)
(* Types.                                                                  *)
(***************************************************************************)

\* The image made of two arrays is of two triggers, or there is none.
LEMMA EmitTyped ==
  ASSUME PairTypeOK, NEW a0 \in Arrays, NEW a1 \in Arrays, NEW last \in Frames \cup {-1},
         Emit(a0, a1, last)
  PROVE  /\ diff' \in [t0 : Triggers, t1 : Triggers] \cup {NoDiff}
         /\ lastDiff' \in Frames \cup {-1}
  <1>1. \A a \in Arrays : a # None => a.trigger \in Triggers /\ a.frame \in Frames
    BY DEF Arrays
  <1> QED
    BY <1>1 DEF Emit, PairTypeOK

\* Processing a message keeps the types.
LEMMA ProcessTyped ==
  ASSUME PairTypeOK, Process
  PROVE  PairTypeOK'
  <1> DEFINE m == next
             last == IF Restarted(FrameNumber(m)) THEN -1 ELSE lastDiff
  <1>1. /\ m \in 1..(2 * NumTriggers) /\ next' \in 1..(2 * NumTriggers + 1)
        /\ UNCHANGED <<order, numbering, restarts, bothCounters, poolFull, reading, lost>>
    BY PairingAssumption DEF Process, PairTypeOK
  <1>2. ArrayOf(m) \in Arrays /\ FrameNumber(m) \in Frames
    BY <1>1, ArraysOf DEF PairTypeOK
  <1>3. last \in Frames \cup {-1}
    BY DEF PairTypeOK
  <1>4. CASE ProcessT1(m)
    <2>1. t1' = ArrayOf(m) /\ t0' = t0 /\ lastSeen' = FrameNumber(m)
      BY <1>4 DEF ProcessT1
    <2>2. t1Ready' \in BOOLEAN /\ t0Orphan' \in BOOLEAN
      BY <1>4 DEF ProcessT1, PairTypeOK, Restarted
    <2>3. \/ Emit(t0, t1', last)
          \/ lastDiff' = last /\ diff' = diff
      BY <1>4 DEF ProcessT1
    <2>4. /\ diff' \in [t0 : Triggers, t1 : Triggers] \cup {NoDiff}
          /\ lastDiff' \in Frames \cup {-1}
      BY <1>2, <1>3, <2>1, <2>3, EmitTyped DEF PairTypeOK
    <2> QED
      BY <1>1, <1>2, <2>1, <2>2, <2>4 DEF PairTypeOK
  <1>5. CASE ProcessT0(m)
    <2>1. t0' = ArrayOf(m) /\ t1' = t1 /\ lastSeen' = FrameNumber(m)
      BY <1>5 DEF ProcessT0
    <2>2. t1Ready' \in BOOLEAN /\ t0Orphan' \in BOOLEAN
      BY <1>5 DEF ProcessT0, PairTypeOK, Restarted
    <2>3. \/ Emit(t0', t1, last)
          \/ lastDiff' = last /\ diff' = diff
      BY <1>5 DEF ProcessT0
    <2>4. /\ diff' \in [t0 : Triggers, t1 : Triggers] \cup {NoDiff}
          /\ lastDiff' \in Frames \cup {-1}
      BY <1>2, <1>3, <2>1, <2>3, EmitTyped DEF PairTypeOK
    <2> QED
      BY <1>1, <1>2, <2>1, <2>2, <2>4 DEF PairTypeOK
  <1> QED
    BY <1>4, <1>5 DEF Process

\* Every step keeps the types.
LEMMA PairStepTyped ==
  ASSUME PairTypeOK, [PairNext]_pairVars
  PROVE  PairTypeOK'
  <1> USE PairingAssumption
  <1>1. CASE Process
    BY <1>1, ProcessTyped
  <1>2. CASE AllocationFails
    BY <1>2 DEF AllocationFails, PairTypeOK, Arrays
  <1>3. CASE Lose
    BY <1>3 DEF Lose, PairTypeOK, pairing
  <1>4. CASE WriteBothCounters
    BY <1>4 DEF WriteBothCounters, PairTypeOK, pairing
  <1>5. CASE PoolChanges
    BY <1>5 DEF PoolChanges, PairTypeOK, pairing
  <1>6. CASE Acquire
    <2>1. restarts' \in 0..NumRestarts /\ next' \in 1..(2 * NumTriggers + 1)
      BY <1>6 DEF Acquire, PairTypeOK
    <2>2. UNCHANGED <<order, numbering, bothCounters, poolFull, lost, t0, t1>>
      BY <1>6 DEF Acquire
    <2>3. /\ diff' = NoDiff /\ lastSeen' = -1 /\ lastDiff' = -1
          /\ reading' \in BOOLEAN /\ t1Ready' \in BOOLEAN /\ t0Orphan' \in BOOLEAN
      BY <1>6 DEF Acquire
    <2> QED
      BY <2>1, <2>2, <2>3 DEF PairTypeOK
  <1>7. CASE ServalRestarts
    BY <1>7 DEF ServalRestarts, PairTypeOK, pairing
  <1>8. CASE UNCHANGED pairVars
    BY <1>8 DEF pairVars, pairing, PairTypeOK
  <1> QED
    BY <1>1, <1>2, <1>3, <1>4, <1>5, <1>6, <1>7, <1>8 DEF PairNext

\* The initial states have the types.
LEMMA PairInitTyped == PairInit => PairTypeOK
  <1> SUFFICES ASSUME PairInit PROVE PairTypeOK
    OBVIOUS
  <1>1. restarts \in 0..NumRestarts /\ next \in 1..(2 * NumTriggers + 1)
    BY PairingAssumption DEF PairInit
  <1>2. t0 \in Arrays /\ t1 \in Arrays /\ diff = NoDiff /\ lastSeen = -1 /\ lastDiff = -1
    BY DEF PairInit, Arrays
  <1> QED
    BY <1>1, <1>2 DEF PairInit, PairTypeOK

\* The variables keep their types; among others, frame numbers are those of the
\* measurement.
THEOREM PairTypeCorrect == PairSpec => []PairTypeOK
  BY PairInitTyped, PairStepTyped, PTL DEF PairSpec

-----------------------------------------------------------------------------
(***************************************************************************)
(* The flags: no array is of a trigger that is still to come, so that the  *)
(* array of a new message is never older than the one that waits.          *)
(***************************************************************************)
Latest == restarts * NumTriggers + next \div 2

OfThePast == t0.trigger <= Latest /\ t1.trigger <= Latest

Flags == PairTypeOK /\ OfThePast /\ WaitingIsNewest

\* The triggers of the arrays are numbers, and so is the latest.
LEMMA Numbers ==
  ASSUME PairTypeOK
  PROVE  Latest \in Nat /\ t0.trigger \in Nat /\ t1.trigger \in Nat
  <1>1. \A a \in Arrays : a.trigger \in Nat
    BY DEF Arrays, Triggers, None
  <1>2. next \div 2 \in Nat
    BY Halves DEF PairTypeOK
  <1> QED
    BY <1>1, <1>2, Measurements DEF PairTypeOK, Latest

\* So is the latest after a step.
LEMMA LatestNext ==
  ASSUME PairTypeOK, [PairNext]_pairVars
  PROVE  Latest' \in Nat
  <1>1. restarts' \in 0..NumRestarts /\ next' \in 1..(2 * NumTriggers + 1)
    BY PairStepTyped DEF PairTypeOK
  <1>2. next' \div 2 \in Nat
    <2>1. \A n \in 1..(2 * NumTriggers + 1) : n \div 2 \in Nat
      BY PairingAssumption
    <2> QED
      BY <1>1, <2>1
  <1>3. restarts' * NumTriggers \in Nat
    BY <1>1, Measurements
  <1> QED
    BY <1>2, <1>3 DEF Latest

\* Processing a message keeps the flags true.
LEMMA ProcessFlags ==
  ASSUME Flags, Process
  PROVE  OfThePast' /\ WaitingIsNewest'
  <1> DEFINE m == next
  <1>0. PairTypeOK /\ OfThePast /\ WaitingIsNewest
    BY DEF Flags
  <1>1. m \in 1..(2 * NumTriggers) /\ next' = m + 1 /\ restarts' = restarts /\ reading' = reading
        /\ reading
    BY <1>0, PairingAssumption DEF Process, PairTypeOK
  <1>2. /\ ArrayOf(m) # None
        /\ ArrayOf(m).trigger = Latest'
        /\ Latest <= Latest'
    <2>1. Latest' = restarts * NumTriggers + TriggerOf(m)
      BY <1>1 DEF Latest, TriggerOf
    <2> QED
      BY <1>0, <1>1, <2>1, ArraysOf, Halves, Measurements, PairingAssumption DEF PairTypeOK, Latest
  <1>3. Latest \in Nat /\ Latest' \in Nat /\ t0.trigger \in Nat /\ t1.trigger \in Nat
    BY <1>0, Numbers, LatestNext DEF PairNext
  <1>4. CASE ProcessT1(m)
    <2>1. t1' = ArrayOf(m) /\ t0' = t0 /\ ~(t0Orphan')
      BY <1>4 DEF ProcessT1
    <2>2. OfThePast'
      BY <1>0, <1>2, <1>3, <2>1 DEF OfThePast
    <2>3. t0'.trigger <= t1'.trigger /\ t1' # None
      BY <1>0, <1>2, <1>3, <2>1 DEF OfThePast
    <2> QED
      BY <2>1, <2>2, <2>3 DEF WaitingIsNewest
  <1>5. CASE ProcessT0(m)
    <2>1. t0' = ArrayOf(m) /\ t1' = t1 /\ ~(t1Ready')
      BY <1>5 DEF ProcessT0
    <2>2. OfThePast'
      BY <1>0, <1>2, <1>3, <2>1 DEF OfThePast
    <2>3. t1'.trigger <= t0'.trigger /\ t0' # None
      BY <1>0, <1>2, <1>3, <2>1 DEF OfThePast
    <2> QED
      BY <2>1, <2>2, <2>3 DEF WaitingIsNewest
  <1> QED
    BY <1>4, <1>5 DEF Process

\* A lost message and a new measurement take time further.
LEMMA TimeFlags ==
  ASSUME Flags, Lose \/ Acquire \/ ServalRestarts
  PROVE  OfThePast' /\ WaitingIsNewest'
  <1>0. PairTypeOK /\ OfThePast /\ WaitingIsNewest
    BY DEF Flags
  <1>1. Latest <= Latest'
    <2>1. restarts \in 0..NumRestarts /\ next \in 1..(2 * NumTriggers + 1)
      BY <1>0 DEF PairTypeOK
    <2>2. /\ restarts * NumTriggers \in Nat /\ next \div 2 \in 0..NumTriggers
          /\ (restarts + 1) * NumTriggers = restarts * NumTriggers + NumTriggers
      BY <2>1, Measurements, Halves
    <2>3. CASE Lose
      BY <2>1, <2>2, <2>3, PairingAssumption DEF Lose, Latest
    <2>4. CASE Acquire \/ ServalRestarts
      <3>1. restarts' = restarts + 1 /\ next' = 1
        BY <2>4 DEF Acquire, ServalRestarts
      <3>2. Latest' = restarts * NumTriggers + NumTriggers
        BY <3>1, <2>2, PairingAssumption DEF Latest
      <3> QED
        BY <3>2, <2>2, PairingAssumption DEF Latest
    <2> QED
      BY <2>3, <2>4
  <1>2. UNCHANGED <<t0, t1>>
    BY DEF Lose, Acquire, ServalRestarts, pairing
  <1>3. Latest \in Nat /\ Latest' \in Nat /\ t0.trigger \in Nat /\ t1.trigger \in Nat
    BY <1>0, Numbers, LatestNext DEF PairNext
  <1>4. OfThePast'
    BY <1>0, <1>1, <1>2, <1>3 DEF OfThePast
  <1>5. WaitingIsNewest'
    BY <1>0, <1>2 DEF WaitingIsNewest, Lose, Acquire, ServalRestarts, pairing
  <1> QED
    BY <1>4, <1>5

\* At most one threshold waits; its array is there and is not older than that of the
\* other threshold (processPreviewJsonimageLine, serval_stream.cpp).
THEOREM WaitingIsNewestHolds == PairSpec => []WaitingIsNewest
  <1>1. PairInit => Flags
    <2> SUFFICES ASSUME PairInit PROVE Flags
      OBVIOUS
    <2>1. Latest \in Nat /\ PairTypeOK
      BY PairInitTyped, Numbers
    <2>2. OfThePast
      BY <2>1 DEF PairInit, OfThePast, None
    <2> QED
      BY <2>1, <2>2 DEF Flags, PairInit, WaitingIsNewest
  <1>2. Flags /\ [PairNext]_pairVars => Flags'
    <2> SUFFICES ASSUME Flags, [PairNext]_pairVars PROVE OfThePast' /\ WaitingIsNewest'
      BY PairStepTyped DEF Flags
    <2>1. CASE Process
      BY <2>1, ProcessFlags
    <2>2. CASE Lose \/ Acquire \/ ServalRestarts
      BY <2>2, TimeFlags
    <2>3. CASE AllocationFails
      <3>1. Latest \in Nat /\ Latest' = Latest
        BY <2>3, Numbers DEF AllocationFails, Latest, Flags
      <3> QED
        BY <2>3, <3>1 DEF AllocationFails, Flags, OfThePast, WaitingIsNewest, None
    <2>4. CASE WriteBothCounters \/ PoolChanges \/ UNCHANGED pairVars
      BY <2>4 DEF WriteBothCounters, PoolChanges, pairVars, pairing, Flags, OfThePast,
                  WaitingIsNewest, Latest
    <2> QED
      BY <2>1, <2>2, <2>3, <2>4 DEF PairNext
  <1>3. Flags => WaitingIsNewest
    BY DEF Flags
  <1> QED
    BY <1>1, <1>2, <1>3, PTL DEF PairSpec

-----------------------------------------------------------------------------
(***************************************************************************)
(* The pairs: if every first message arrives, the threshold that comes     *)
(* second never waits, and between the two messages of a trigger the array *)
(* of the first one does.                                                  *)
(***************************************************************************)
FirstWaits ==
  (reading /\ "first" \notin lost) =>
    /\ order = "T1T0" => ~t0Orphan /\ (~IsFirst(next) => t1Ready /\ t1 = ArrayOf(next - 1))
    /\ order = "T0T1" => ~t1Ready /\ (~IsFirst(next) => t0Orphan /\ t0 = ArrayOf(next - 1))
    /\ ~IsFirst(next) => lastSeen = FrameNumber(next - 1)

Pairs == PairTypeOK /\ FirstWaits /\ PairedIfFirstArrives

\* The threshold that comes first.
LEMMA Thresholds ==
  ASSUME NEW m \in Nat
  PROVE  /\ order = "T1T0" => Threshold(m) = IF IsFirst(m) THEN 1 ELSE 0
         /\ order = "T0T1" => Threshold(m) = IF IsFirst(m) THEN 0 ELSE 1
  <1>1. CASE IsFirst(m)
    BY <1>1 DEF Threshold, IsFirst
  <1>2. CASE ~IsFirst(m)
    BY <1>2 DEF Threshold, IsFirst
  <1> QED
    BY <1>1, <1>2

\* A message completes the other threshold's, if that waits and there was no
\* restart.
LEMMA Completes ==
  ASSUME PairTypeOK, Process, ~Restarted(FrameNumber(next))
  PROVE  /\ Threshold(next) = 0 /\ t1Ready /\ ~t0Orphan =>
              t0' = ArrayOf(next) /\ Emit(t0', t1, lastDiff) /\ ~t1Ready' /\ ~t0Orphan'
         /\ Threshold(next) = 1 /\ t0Orphan /\ ~t1Ready =>
              /\ t1' = ArrayOf(next) /\ t0' = t0 /\ Emit(t0, t1', lastDiff)
              /\ ~t1Ready' /\ ~t0Orphan'
  <1>1. ASSUME Threshold(next) = 0, t1Ready, ~t0Orphan
        PROVE  t0' = ArrayOf(next) /\ Emit(t0', t1, lastDiff) /\ ~t1Ready' /\ ~t0Orphan'
    <2>1. ProcessT0(next)
      BY <1>1 DEF Process, ProcessT1
    <2>2. t0' = ArrayOf(next) /\ ~t1Ready' /\ ~t0Orphan'
      BY <1>1, <2>1, Zenon DEF ProcessT0
    <2>3. Emit(t0', t1, lastDiff)
      BY <1>1, <2>1 DEF ProcessT0
    <2> QED
      BY <2>2, <2>3
  <1>2. ASSUME Threshold(next) = 1, t0Orphan, ~t1Ready
        PROVE  /\ t1' = ArrayOf(next) /\ t0' = t0 /\ Emit(t0, t1', lastDiff)
               /\ ~t1Ready' /\ ~t0Orphan'
    <2>1. ProcessT1(next)
      BY <1>2 DEF Process, ProcessT0
    <2>2. t1' = ArrayOf(next) /\ t0' = t0 /\ ~t1Ready' /\ ~t0Orphan'
      BY <1>2, <2>1, Zenon DEF ProcessT1
    <2>3. Emit(t0, t1', lastDiff)
      BY <1>2, <2>1 DEF ProcessT1
    <2> QED
      BY <2>2, <2>3
  <1> QED
    BY <1>1, <1>2

\* The second message of a trigger never looks like a restart.
LEMMA SecondGoesOn ==
  ASSUME PairTypeOK, FirstWaits, reading, "first" \notin lost, ~IsFirst(next),
         next \in 1..(2 * NumTriggers)
  PROVE  /\ ~Restarted(FrameNumber(next))
         /\ next - 1 \in 1..(2 * NumTriggers)
         /\ ArrayOf(next - 1).trigger = ArrayOf(next).trigger
  <1>1. next - 1 \in 1..(2 * NumTriggers) /\ TriggerOf(next - 1) = TriggerOf(next)
    BY Halves, PairingAssumption
  <1>2. FrameNumber(next - 1) <= FrameNumber(next) /\ FrameNumber(next) \in Nat
    BY <1>1, ArraysOf, PairingAssumption DEF FrameNumber, PairTypeOK, Frames
  <1>3. lastSeen = FrameNumber(next - 1) /\ lastSeen \in Int
    BY DEF FirstWaits, PairTypeOK, Frames
  <1> QED
    BY <1>1, <1>2, <1>3, ArraysOf, PairingAssumption DEF Restarted, PairTypeOK

\* The second message of a trigger makes the band-pass image of that trigger; it
\* is shown, unless no array can be allocated or it looks like a repetition.
LEMMA SecondCompletes ==
  ASSUME PairTypeOK, FirstWaits, Process, "first" \notin lost, ~IsFirst(next)
  PROVE  LET g == ArrayOf(next).trigger
         IN  /\ diff' \in {diff, NoDiff, [t0 |-> g, t1 |-> g]}
             /\ (bothCounters /\ t0'.frame # lastDiff) =>
                   diff' = IF poolFull THEN NoDiff ELSE [t0 |-> g, t1 |-> g]
             /\ ~t0Orphan' /\ ~t1Ready'
  <1> DEFINE g == ArrayOf(next).trigger
  <1>1. next \in 1..(2 * NumTriggers) /\ reading
    BY PairingAssumption DEF Process, PairTypeOK
  <1>2. /\ ~Restarted(FrameNumber(next)) /\ next - 1 \in 1..(2 * NumTriggers)
        /\ ArrayOf(next - 1).trigger = g
    BY <1>1, SecondGoesOn
  <1>3. ArrayOf(next) # None /\ ArrayOf(next - 1) # None
    BY <1>1, <1>2, ArraysOf DEF PairTypeOK
  <1>4. CASE order = "T1T0"
    <2>1. Threshold(next) = 0 /\ t1Ready /\ ~t0Orphan /\ t1 = ArrayOf(next - 1)
      BY <1>1, <1>4, Thresholds DEF FirstWaits
    <2>2. t0' = ArrayOf(next) /\ Emit(t0', t1, lastDiff) /\ ~t1Ready' /\ ~t0Orphan'
      BY <1>2, <2>1, Completes
    <2> QED
      BY <1>2, <1>3, <2>1, <2>2 DEF Emit
  <1>5. CASE order = "T0T1"
    <2>1. Threshold(next) = 1 /\ t0Orphan /\ ~t1Ready /\ t0 = ArrayOf(next - 1)
      BY <1>1, <1>5, Thresholds DEF FirstWaits
    <2>2. /\ t1' = ArrayOf(next) /\ t0' = t0 /\ Emit(t0, t1', lastDiff)
          /\ ~t1Ready' /\ ~t0Orphan'
      BY <1>2, <2>1, Completes
    <2> QED
      BY <1>2, <1>3, <2>1, <2>2 DEF Emit
  <1> QED
    BY <1>4, <1>5 DEF PairTypeOK

\* The first message of a trigger waits, and makes no image.
LEMMA FirstIsKept ==
  ASSUME PairTypeOK, FirstWaits, Process, "first" \notin lost, IsFirst(next)
  PROVE  /\ diff' = diff /\ lastSeen' = FrameNumber(next)
         /\ order = "T1T0" => t1' = ArrayOf(next) /\ t1Ready' /\ ~t0Orphan'
         /\ order = "T0T1" => t0' = ArrayOf(next) /\ t0Orphan' /\ ~t1Ready'
  <1>1. reading /\ next \in Nat
    BY DEF Process, PairTypeOK
  <1>2. CASE order = "T1T0"
    <2>1. Threshold(next) = 1 /\ ~t0Orphan
      BY <1>1, <1>2, Thresholds DEF FirstWaits
    <2> QED
      BY <1>2, <2>1 DEF Process, ProcessT1, ProcessT0
  <1>3. CASE order = "T0T1"
    <2>1. Threshold(next) = 0 /\ ~t1Ready
      BY <1>1, <1>3, Thresholds DEF FirstWaits
    <2> QED
      BY <1>3, <2>1 DEF Process, ProcessT1, ProcessT0
  <1> QED
    BY <1>2, <1>3 DEF PairTypeOK

\* Processing a message keeps the pairs.
LEMMA ProcessPairs ==
  ASSUME Pairs, Process
  PROVE  FirstWaits' /\ PairedIfFirstArrives'
  <1> SUFFICES ASSUME "first" \notin lost
               PROVE  FirstWaits' /\ SameTrigger'
    BY DEF Process, FirstWaits, PairedIfFirstArrives
  <1>0. PairTypeOK /\ FirstWaits /\ SameTrigger
    BY DEF Pairs, PairedIfFirstArrives
  <1>1. /\ next \in 1..(2 * NumTriggers) /\ next' = next + 1 /\ next' - 1 = next
        /\ UNCHANGED <<order, numbering, restarts>>
    BY <1>0, PairingAssumption DEF Process, PairTypeOK
  <1>2. IsFirst(next) <=> ~IsFirst(next')
    BY <1>1, PairingAssumption DEF IsFirst
  <1>3. ArrayOf(next - 1)' = ArrayOf(next) /\ FrameNumber(next - 1)' = FrameNumber(next)
    BY <1>1 DEF ArrayOf, FrameNumber, TriggerOf
  <1>4. CASE IsFirst(next)
    BY <1>0, <1>1, <1>2, <1>3, <1>4, FirstIsKept DEF FirstWaits, SameTrigger
  <1>5. CASE ~IsFirst(next)
    BY <1>0, <1>1, <1>2, <1>5, SecondCompletes DEF FirstWaits, SameTrigger, NoDiff
  <1> QED
    BY <1>4, <1>5

\* Every other step does as well.
LEMMA OtherPairs ==
  ASSUME Pairs, [PairNext]_pairVars, ~Process
  PROVE  FirstWaits' /\ PairedIfFirstArrives'
  <1> USE DEF Pairs, FirstWaits, PairedIfFirstArrives, SameTrigger
  <1>1. CASE AllocationFails
    BY <1>1 DEF AllocationFails
  <1>2. CASE Lose
    <2> SUFFICES ASSUME "first" \notin lost'
                 PROVE  FirstWaits' /\ SameTrigger'
      OBVIOUS
    <2>1. ~IsFirst(next) /\ "first" \notin lost /\ next' = next + 1
      BY <1>2 DEF Lose
    <2>2. IsFirst(next')
      BY <2>1, PairingAssumption DEF IsFirst, PairTypeOK
    <2> QED
      BY <1>2, <2>1, <2>2 DEF Lose, pairing
  <1>3. CASE Acquire
    BY <1>3 DEF Acquire, IsFirst, NoDiff
  <1>4. CASE ServalRestarts
    BY <1>4 DEF ServalRestarts, IsFirst, pairing
  <1>5. CASE WriteBothCounters \/ PoolChanges \/ UNCHANGED pairVars
    BY <1>5 DEF WriteBothCounters, PoolChanges, pairVars, pairing, ArrayOf, FrameNumber, TriggerOf
  <1> QED
    BY <1>1, <1>2, <1>3, <1>4, <1>5 DEF PairNext

\* Pairs is an inductive invariant.
LEMMA PairsInductive == (PairInit => Pairs) /\ (Pairs /\ [PairNext]_pairVars => Pairs')
  <1>1. PairInit => Pairs
    BY PairInitTyped DEF PairInit, Pairs, FirstWaits, PairedIfFirstArrives, SameTrigger, NoDiff, IsFirst
  <1>2. Pairs /\ [PairNext]_pairVars => Pairs'
    BY PairStepTyped, ProcessPairs, OtherPairs DEF Pairs
  <1> QED
    BY <1>1, <1>2

\* As long as every first message arrives, an image is made of one trigger
\* (processPreviewJsonimageLine, emitPreviewThresholdDiff, serval_stream.cpp).
THEOREM PairedIfFirstArrivesHolds == PairSpec => []PairedIfFirstArrives
  <1>1. Pairs => PairedIfFirstArrives
    BY DEF Pairs
  <1> QED
    BY <1>1, PairsInductive, PTL DEF PairSpec

\* ... and an image is made of every trigger; see EveryPairShownStep.
THEOREM EveryPairShownStepHolds == PairSpec => EveryPairShownStep
  <1> DEFINE Shown ==
        (Completed /\ t0'.frame # lastDiff) =>
          LET g == ArrayOf(next).trigger
          IN  diff' = IF poolFull THEN NoDiff ELSE [t0 |-> g, t1 |-> g]
  <1>1. Pairs /\ [PairNext]_pairVars => [Shown]_pairVars
    BY SecondCompletes DEF Pairs, Completed
  <1> QED
    BY <1>1, PairsInductive, PTL DEF PairSpec, EveryPairShownStep
===============================================================================
