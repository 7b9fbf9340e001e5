------------------------------ MODULE Reconnect ------------------------------
(***************************************************************************)
(* What the driver does when Serval, or the detector behind it, goes away  *)
(* and comes back (serval_http.cpp). Two threads send requests and write   *)
(* the same parameters, and only one of them holds the port lock:          *)
(*   - the connection poll thread (Poll): checkConnection every 5 s, and   *)
(*     refreshOnReconnect when it finds the connection up after a poll     *)
(*     that found it down;                                                 *)
(*   - the asyn port thread (Port): writes of detector settings, of        *)
(*     WriteData and ApplyConfig, of RefreshConnection, and of Health,     *)
(*     which the database writes every second (ADTimePix3.template:92).    *)
(* The detector settings are two values: Tdc0 and Tdc1, and all the others *)
(* (TriggerMode, NumImages, AcquireTime, ...), because getDetector writes  *)
(* only those back. A step is one request with its answer, or the          *)
(* parameters that are set from one answer. Left out: the first poll,      *)
(* which is skipped (connectionPollSkipOnce_), what BPC and DACS uploads   *)
(* do in Serval, and a PUT that a ready Serval rejects, which is in        *)
(* DetectorConfig, with the settings one by one.                           *)
(***************************************************************************)
CONSTANTS
  Settings, Tdcs,  \* values of the other settings, and of Tdc0 and Tdc1
  Default,         \* the settings of a Serval that has just started
  Written,         \* those that the parameters start with or that are written
  Sent,            \* initAcquisition sends Sent[s] for s: the exposure time as the
                   \* period in continuous mode, at least exposure and pause otherwise
  Noted,           \* ... on Medipix3 for Noted[s], which it also writes to the
                   \* parameters: 12-bit pixels with BothCounters,
  Refused,         \* ... and it sends nothing for these: BothCounters in continuous mode
  Lagging,         \* detectors whose answers may lag a PUT: {"MPX3"} or {}
  Unset,           \* no settings
  Poll, Port       \* the threads

\* The settings, as parameters or as a document of Serval.
Documents == [read : Settings, tdc : Tdcs]

ASSUME ReconnectAssumption ==
  /\ Default \in Documents /\ Written \subseteq Documents
  /\ Unset \notin Documents /\ Poll # Port
  /\ Sent \in [Settings -> Settings] /\ Noted \in [Settings -> Settings]
  /\ Refused \subseteq Settings /\ Lagging \subseteq {"MPX3"}

Threads == {Poll, Port}

VARIABLES
  serval,           \* what Serval answers: see ServalStates
  detector,         \* Serval: which detector it is, "TPX3" or "MPX3"
  config, answer,   \* Serval: the settings it has, and those it answers with
  destination,      \* Serval: is /server/destination set?
  setpoint,         \* the settings as asyn parameters
  servalConnected, detConnected,  \* ServalConnected_RBV, DetConnected_RBV
  linked,           \* is ADStatus other than Disconnected?
  lastUp,           \* lastServalConnected_ and lastDetConnected_
  familyKnown,      \* is detectorFamily_ other than Unknown?
  pc, saw, value,   \* where a thread is, and the answers it works with
  asked             \* what an undisturbed refresh has to bring Serval to

params == <<setpoint, servalConnected, detConnected, linked, lastUp, familyKnown>>
status == <<servalConnected, detConnected, linked>>
documents == <<detector, config, answer>>
vars == <<serval, documents, destination, params, pc, saw, value, asked>>

\* "bare": Serval without a detector. "busy": the dashboard shows the detector,
\* but requests about it fail (409, timeouts).
ServalStates == {"down", "bare", "busy", "ready"}

InitLabels == {"config", "learn", "learned", "apply", "put"}
RefreshLabels == InitLabels \cup {"files", "server", "detector", "readback", "finish"}

\* The variables keep their types; the refresh is the poll thread's alone, and
\* runs only after a poll that found the connection down.
TypeOK ==
  /\ serval \in ServalStates /\ destination \in BOOLEAN
  /\ detector \in {"TPX3", "MPX3"}
  /\ config \in Documents /\ answer \in Documents /\ setpoint \in Documents
  /\ servalConnected \in BOOLEAN /\ detConnected \in BOOLEAN /\ linked \in BOOLEAN
  /\ lastUp \in BOOLEAN /\ familyKnown \in BOOLEAN
  /\ pc \in [Threads -> RefreshLabels \cup {"rest", "dashboard", "status", "compare", "mark"}]
  /\ pc[Port] \notin {"compare", "finish", "mark"}
  /\ pc[Poll] \in RefreshLabels => ~lastUp
  /\ saw \in [Threads -> ServalStates] /\ value \in [Threads -> Documents]
  /\ asked \in Documents \cup {Unset}

Reachable(s) == s # "down"
HasDetector(s) == s \in {"busy", "ready"}

\* The constructor has asked for the dashboard.
Init ==
  /\ serval \in ServalStates /\ destination = FALSE
  /\ detector \in {"TPX3", "MPX3"}
  /\ config = Default /\ answer = Default /\ setpoint \in Written
  /\ servalConnected = Reachable(serval) /\ detConnected = HasDetector(serval)
  /\ linked = HasDetector(serval) /\ lastUp = HasDetector(serval)
  /\ familyKnown = FALSE
  /\ pc = [t \in Threads |-> "rest"]
  /\ saw = [t \in Threads |-> "down"] /\ value = [t \in Threads |-> Default]
  /\ asked = Unset

-----------------------------------------------------------------------------
\* initAcquisition and its checks know a Medipix3 once getDetector has told.
Mpx3 == familyKnown /\ detector = "MPX3"
Noting(s) == IF Mpx3 THEN [s EXCEPT !.read = Noted[@]] ELSE s
Refuses(s) == Mpx3 /\ s.read \in Refused
Pushed(s) == [Noting(s) EXCEPT !.read = Sent[@]]

\* What Serval has after a PUT of v: a Medipix3 has no Tdc.
Taken(v) == [v EXCEPT !.tdc = IF detector = "TPX3" THEN @ ELSE config.tdc]

\* asked follows the other variables: it holds what the parameters make of Serval
\* at the beginning of a refresh, for as long as Serval stays ready and the port
\* thread neither sends nor reads settings.
Undisturbed == serval = "ready" /\ pc[Port] \notin InitLabels \cup {"detector", "readback"}
Outcome == IF Refuses(setpoint) THEN config ELSE Taken(Pushed(setpoint))

NoteAsked ==
  asked' =
    IF pc'[Poll] \notin RefreshLabels \cup {"mark"} \/ ~Undisturbed' THEN Unset
    ELSE IF pc[Poll] = "compare" THEN (IF familyKnown THEN Outcome ELSE Unset)
    ELSE asked

(***************************************************************************)
(* The requests, and what their answers change. A thread that is done with *)
(* one goes on where AfterInit, AfterServer, AfterDetector say.            *)
(***************************************************************************)
Goto(t, label) == pc' = [pc EXCEPT ![t] = label]
Keep(t, v) == value' = [value EXCEPT ![t] = v]

AfterInit(t) == IF t = Poll THEN "server" ELSE "rest"
AfterServer(t) == IF t = Poll THEN "detector" ELSE "rest"
AfterDetector(t) == IF t = Poll THEN "finish" ELSE "rest"

\* checkConnection and getDashboard: GET /dashboard ...
GetDashboard(t) ==
  /\ pc[t] = "dashboard" /\ Goto(t, "status")
  /\ saw' = [saw EXCEPT ![t] = serval]
  /\ UNCHANGED <<serval, documents, destination, params, value>>
  /\ NoteAsked

\* Mutant: only the loss of Serval is noted.
SetStatusOnLoss(t) ==
  /\ pc[t] = "status"
  /\ servalConnected' = (servalConnected /\ Reachable(saw[t]))
  /\ detConnected' = HasDetector(saw[t])
  /\ linked' = HasDetector(saw[t])
  /\ \/ t = Poll /\ Goto(t, "compare")
     \/ t = Port /\ (Goto(t, "rest") \/ Goto(t, "detector"))
  /\ saw' = [saw EXCEPT ![t] = "down"]
  /\ UNCHANGED <<serval, documents, destination, setpoint, lastUp, familyKnown, value>>
  /\ NoteAsked

\* ... and the parameters its answer sets. The port thread is then done
\* (RefreshConnection), or goes on with getDetector (Health).
SetStatus(t) ==
  /\ pc[t] = "status"
  /\ servalConnected' = Reachable(saw[t])
  /\ detConnected' = HasDetector(saw[t])
  /\ linked' = HasDetector(saw[t])
  /\ \/ t = Poll /\ Goto(t, "compare")
     \/ t = Port /\ (Goto(t, "rest") \/ Goto(t, "detector"))
  /\ saw' = [saw EXCEPT ![t] = "down"]
  /\ UNCHANGED <<serval, documents, destination, setpoint, lastUp, familyKnown, value>>
  /\ NoteAsked

\* Mutant: the refresh of an older release, without initAcquisition.
PutFilesOnly(t) ==
  /\ pc[t] = "files"
  /\ destination' \in (IF serval = "ready" THEN {TRUE} ELSE {destination, Reachable(serval)})
  /\ Goto(t, "server")
  /\ UNCHANGED <<serval, documents, params, saw, value>>
  /\ NoteAsked

\* fileWriter: PUT /server/destination; a Serval without a usable detector may
\* take or refuse it. ApplyConfig stops if that fails, WriteData does not.
PutFiles(t) ==
  /\ pc[t] = "files"
  /\ destination' \in (IF serval = "ready" THEN {TRUE} ELSE {destination, Reachable(serval)})
  /\ \/ t = Poll /\ Goto(t, "config")
     \/ t = Port /\ Goto(t, "server")
     \/ t = Port /\ serval # "ready" /\ Goto(t, "rest")
  /\ UNCHANGED <<serval, documents, params, saw, value>>
  /\ NoteAsked

\* getServer: any answer with a destination in it counts as a detector, no
\* answer as none; "Destination is not set" says nothing.
GetServer(t) ==
  /\ pc[t] = "server" /\ Goto(t, AfterServer(t))
  /\ detConnected' = (Reachable(serval) /\ (destination \/ detConnected))
  /\ UNCHANGED <<serval, documents, destination, setpoint, servalConnected, linked,
                 lastUp, familyKnown, saw, value>>
  /\ NoteAsked

\* initAcquisition: GET /detector/config. The family has to be known first.
GetConfig(t) ==
  /\ pc[t] = "config"
  /\ detConnected' = (serval = "ready")
  /\ Goto(t, IF serval # "ready" THEN AfterInit(t)
             ELSE IF familyKnown THEN "apply" ELSE "learn")
  /\ UNCHANGED <<serval, documents, destination, setpoint, servalConnected, linked,
                 lastUp, familyKnown, saw, value>>
  /\ NoteAsked

\* Mutant: BothCounters in continuous mode is not refused.
ApplySetpointUnchecked(t) ==
  /\ pc[t] = "apply" /\ Goto(t, "put") /\ Keep(t, Pushed(setpoint))
  /\ setpoint' = Noting(setpoint)
  /\ UNCHANGED <<serval, documents, destination, status, lastUp, familyKnown, saw>>
  /\ NoteAsked

\* The configuration to be sent is filled in from the parameters, adjusted ...
ApplySetpoint(t) ==
  /\ pc[t] = "apply"
  /\ IF Refuses(setpoint)
     THEN Goto(t, AfterInit(t)) /\ UNCHANGED <<setpoint, value>>
     ELSE /\ Goto(t, "put") /\ Keep(t, Pushed(setpoint))
          /\ setpoint' = Noting(setpoint)
  /\ UNCHANGED <<serval, documents, destination, status, lastUp, familyKnown, saw>>
  /\ NoteAsked

\* ... and sent, whatever has happened to the parameters since. What Serval answers
\* from now on may still be what it had before.
PutConfig(t) ==
  /\ pc[t] = "put" /\ Goto(t, AfterInit(t)) /\ Keep(t, Default)
  /\ config' = IF serval = "ready" THEN Taken(value[t]) ELSE config
  /\ answer' \in (IF detector \in Lagging THEN {answer, config'} ELSE {config'})
  /\ UNCHANGED <<serval, detector, destination, params, saw>>
  /\ NoteAsked

\* getDetector, called for itself ("detector") or by an initAcquisition that
\* does not know the family ("learn"): GET /detector ...
GetDetector(t) ==
  /\ pc[t] \in {"detector", "learn"}
  /\ detConnected' = (serval = "ready")
  /\ IF serval = "ready"
     THEN Goto(t, IF pc[t] = "learn" THEN "learned" ELSE "readback") /\ Keep(t, answer)
     ELSE Goto(t, IF pc[t] = "learn" THEN "apply" ELSE AfterDetector(t)) /\ UNCHANGED value
  /\ UNCHANGED <<serval, documents, destination, setpoint, servalConnected, linked,
                 lastUp, familyKnown, saw>>
  /\ NoteAsked

\* Mutant: the answer is not written to the settings.
ReadBackFamily(t) ==
  /\ pc[t] \in {"readback", "learned"}
  /\ familyKnown' = TRUE /\ Keep(t, Default)
  /\ Goto(t, IF pc[t] = "learned" THEN "apply" ELSE AfterDetector(t))
  /\ UNCHANGED <<serval, documents, destination, setpoint, status, lastUp, saw>>
  /\ NoteAsked

\* ... and its answer overwrites the settings, the operator's as well, except Tdc0
\* and Tdc1: the answer's Tdc goes to a parameter of its own.
ReadBack(t) ==
  /\ pc[t] \in {"readback", "learned"}
  /\ setpoint' = [setpoint EXCEPT !.read = value[t].read] /\ familyKnown' = TRUE /\ Keep(t, Default)
  /\ Goto(t, IF pc[t] = "learned" THEN "apply" ELSE AfterDetector(t))
  /\ UNCHANGED <<serval, documents, destination, status, lastUp, saw>>
  /\ NoteAsked

Request(t) ==
  \/ GetDashboard(t) \/ SetStatus(t) \/ PutFiles(t) \/ GetServer(t)
  \/ GetConfig(t) \/ ApplySetpoint(t) \/ PutConfig(t) \/ GetDetector(t) \/ ReadBack(t)

-----------------------------------------------------------------------------
\* connectionPollThread: the 5 s are over.
PollWakes ==
  /\ pc[Poll] = "rest" /\ Goto(Poll, "dashboard")
  /\ UNCHANGED <<serval, documents, destination, params, saw, value>>
  /\ NoteAsked

\* The connection is read from the parameters, which the port thread may have
\* set meanwhile, and compared with what the last poll found.
Compare ==
  /\ pc[Poll] = "compare"
  /\ \/ ~(servalConnected /\ detConnected) /\ Goto(Poll, "rest") /\ lastUp' = FALSE
     \/ servalConnected /\ detConnected /\ lastUp /\ Goto(Poll, "rest") /\ UNCHANGED lastUp
     \/ servalConnected /\ detConnected /\ ~lastUp /\ Goto(Poll, "files") /\ UNCHANGED lastUp
  /\ UNCHANGED <<serval, documents, destination, setpoint, status, familyKnown, saw, value>>
  /\ NoteAsked

\* refreshOnReconnect ends with updateStatusFromConnection(true, true).
FinishRefresh ==
  /\ pc[Poll] = "finish" /\ Goto(Poll, "mark") /\ linked' = TRUE
  /\ UNCHANGED <<serval, documents, destination, setpoint, servalConnected, detConnected,
                 lastUp, familyKnown, saw, value>>
  /\ NoteAsked

\* The refresh counts as done, whichever of its requests have failed.
MarkUp ==
  /\ pc[Poll] = "mark" /\ Goto(Poll, "rest") /\ lastUp' = TRUE
  /\ UNCHANGED <<serval, documents, destination, setpoint, status, familyKnown, saw, value>>
  /\ NoteAsked

PollStep == PollWakes \/ Request(Poll) \/ Compare \/ FinishRefresh \/ MarkUp

-----------------------------------------------------------------------------
\* writeInt32, writeFloat64: a detector setting is written and sent. A write adjusts
\* itself what would be refused; but the poll thread may read back in the middle of
\* it, and leave settings that are (DetectorConfig has both one by one).
WriteSetting(v) ==
  /\ pc[Port] = "rest" /\ Goto(Port, "config")
  /\ setpoint' = v
  /\ UNCHANGED <<serval, documents, destination, status, lastUp, familyKnown, saw, value>>
  /\ NoteAsked

\* Health, RefreshConnection.
WriteHealth ==
  /\ pc[Port] = "rest" /\ Goto(Port, "dashboard")
  /\ UNCHANGED <<serval, documents, destination, params, saw, value>>
  /\ NoteAsked

\* WriteData and ApplyConfig; WriteRaw, WriteImg, ..., which only read back.
WriteData ==
  /\ pc[Port] = "rest" /\ (Goto(Port, "files") \/ Goto(Port, "server"))
  /\ UNCHANGED <<serval, documents, destination, params, saw, value>>
  /\ NoteAsked

PortStep == (\E v \in Written : WriteSetting(v)) \/ WriteHealth \/ WriteData \/ Request(Port)

-----------------------------------------------------------------------------
\* Serval stops, and starts again without a detector and without settings.
ServalStops ==
  /\ Reachable(serval) /\ serval' = "down" /\ destination' = FALSE
  /\ config' = Default /\ answer' = Default
  /\ UNCHANGED <<detector, params, pc, saw, value>>
  /\ NoteAsked

ServalStarts ==
  /\ serval = "down" /\ serval' = "bare"
  /\ UNCHANGED <<documents, destination, params, pc, saw, value>>
  /\ NoteAsked

\* A detector that comes back may or may not have kept its settings.
DetectorComes ==
  /\ serval = "bare" /\ serval' \in {"busy", "ready"} /\ config' \in {config, Default}
  /\ answer' = config'
  /\ UNCHANGED <<detector, destination, params, pc, saw, value>>
  /\ NoteAsked

DetectorGoes ==
  /\ HasDetector(serval) /\ serval' = "bare"
  /\ UNCHANGED <<documents, destination, params, pc, saw, value>>
  /\ NoteAsked

BusyOrNot ==
  /\ HasDetector(serval) /\ serval' \in {"busy", "ready"} \ {serval}
  /\ UNCHANGED <<documents, destination, params, pc, saw, value>>
  /\ NoteAsked

\* What Serval answers catches up with what it has.
CatchUp ==
  /\ answer # config /\ answer' = config
  /\ UNCHANGED <<serval, detector, config, destination, params, pc, saw, value>>
  /\ NoteAsked

ServalStep == CatchUp \/ ServalStops \/ ServalStarts \/ DetectorComes \/ DetectorGoes \/ BusyOrNot

-----------------------------------------------------------------------------
Next == PollStep \/ PortStep \/ ServalStep

\* The poll thread's wait times out, the port thread serves the write it has
\* begun, the database writes Health every second, and Serval's answers catch up.
Fairness ==
  /\ WF_vars(PollStep) /\ WF_vars(CatchUp)
  /\ WF_vars(Request(Port))
  /\ SF_vars(WriteHealth)
  /\ SF_vars(pc[Port] = "status" /\ SetStatus(Port) /\ pc'[Port] = "detector")

Spec == Init /\ [][Next]_vars
FairSpec == Spec /\ Fairness

-----------------------------------------------------------------------------
\* A refresh that nothing disturbs brings Serval to what initAcquisition makes of
\* the parameters that the poll found at the reconnection, or leaves its settings
\* alone if those are refused; and although it also reads Serval's settings back, the
\* parameters are then the same as Serval's, unless its answers lag. Adjusted and
\* refused settings are therefore not restored: the operator's are lost.
RefreshRestores ==
  (pc[Poll] = "mark" /\ asked # Unset) =>
    /\ config = asked
    /\ detector \notin Lagging => setpoint.read = asked.read
    /\ detector = "TPX3" => setpoint.tdc = asked.tdc

Stable == serval = "ready" /\ pc[Port] \notin {"config", "apply", "put"}

\* When Serval stays ready, the status parameters end up saying so, whatever
\* stale answers both threads still write at first.
StatusSettles ==
  <>[](serval = "ready") => <>[](servalConnected /\ detConnected /\ linked)

\* When Serval stays ready and nobody writes settings any more, the parameters
\* end up equal to the settings in Serval, whatever restarts, failed requests, late
\* answers and races of the two threads have done before. This does not hold of Tdc0
\* and Tdc1, which nothing reads back: after a restart with a failed refresh they
\* differ from Serval's until they are written again.
SettingsConverge == <>[]Stable => <>[](config.read = setpoint.read)
=============================================================================
