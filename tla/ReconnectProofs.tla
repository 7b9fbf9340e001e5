---------------------------- MODULE ReconnectProofs ----------------------------
(* Proofs about Reconnect, for any set of settings: type correctness, which  *)
(* includes that only the poll thread refreshes, and only after a poll that  *)
(* found the connection down; and that an undisturbed refresh brings Serval  *)
(* to what initAcquisition makes of the parameters.                          *)
EXTENDS Reconnect, TLAPS

USE DEF Threads, params, status, documents

-----------------------------------------------------------------------------
\* What is made of settings on their way to Serval are settings.
LEMMA Made ==
  ASSUME TypeOK, NEW s \in Documents
  PROVE  /\ Noting(s) \in Documents /\ Noting(s).tdc = s.tdc
         /\ Pushed(s) \in Documents /\ Pushed(s).tdc = s.tdc
         /\ Taken(s) \in Documents /\ Taken(s).read = s.read
         /\ detector = "TPX3" => Taken(s).tdc = s.tdc
  <1>1. s.read \in Settings /\ s.tdc \in Tdcs /\ config.tdc \in Tdcs
    BY DEF Documents, TypeOK
  <1>2. Noting(s) \in Documents /\ Noting(s).tdc = s.tdc /\ Noting(s).read \in Settings
    BY <1>1, ReconnectAssumption DEF Noting, Documents
  <1>3. Sent[Noting(s).read] \in Settings
    BY <1>2, ReconnectAssumption
  <1>4. Pushed(s) \in Documents /\ Pushed(s).tdc = s.tdc
    BY <1>2, <1>3 DEF Pushed, Documents
  <1>5. /\ Taken(s) \in Documents /\ Taken(s).read = s.read
        /\ detector = "TPX3" => Taken(s).tdc = s.tdc
    BY <1>1 DEF Taken, Documents
  <1> QED
    BY <1>2, <1>4, <1>5

\* The settings that a refresh has to bring Serval to are settings.
LEMMA NotedAsked ==
  ASSUME TypeOK, NoteAsked
  PROVE  asked' \in Documents \cup {Unset}
  <1>1. setpoint \in Documents /\ config \in Documents /\ asked \in Documents \cup {Unset}
    BY DEF TypeOK
  <1>2. Outcome \in Documents
    BY <1>1, Made DEF Outcome
  <1> QED
    BY <1>1, <1>2 DEF NoteAsked

\* A request of either thread keeps the types.
LEMMA RequestTyped ==
  ASSUME NEW t \in Threads, TypeOK, Request(t)
  PROVE  TypeOK'
  <1> USE NotedAsked, ReconnectAssumption
      DEF TypeOK, ServalStates, RefreshLabels, InitLabels, Goto, Keep,
          AfterInit, AfterServer, AfterDetector
  <1>1. CASE GetDashboard(t)
    BY <1>1 DEF GetDashboard
  <1>2. CASE SetStatus(t)
    <2>1. Reachable(saw[t]) \in BOOLEAN /\ HasDetector(saw[t]) \in BOOLEAN
      BY DEF Reachable, HasDetector
    <2>2. servalConnected' \in BOOLEAN /\ detConnected' \in BOOLEAN /\ linked' \in BOOLEAN
      BY <1>2, <2>1 DEF SetStatus
    <2>3. saw' \in [Threads -> ServalStates] /\ asked' \in Documents \cup {Unset}
      BY <1>2 DEF SetStatus
    <2>4. pc'[Poll] \in RefreshLabels => pc[Poll] \in RefreshLabels
      BY <1>2 DEF SetStatus
    <2>5. /\ pc' \in [Threads -> RefreshLabels \cup {"rest", "dashboard", "status", "compare", "mark"}]
          /\ pc'[Port] \notin {"compare", "finish", "mark"}
      BY <1>2 DEF SetStatus
    <2>6. /\ serval' = serval /\ destination' = destination
          /\ detector' = detector /\ config' = config /\ answer' = answer
          /\ setpoint' = setpoint /\ lastUp' = lastUp /\ familyKnown' = familyKnown
          /\ value' = value
      BY <1>2 DEF SetStatus
    <2>7. lastUp' \in BOOLEAN /\ (pc'[Poll] \in RefreshLabels => ~lastUp')
      BY <2>4, <2>6
    <2>8. /\ serval' \in ServalStates /\ destination' \in BOOLEAN
          /\ detector' \in {"TPX3", "MPX3"} /\ config' \in Documents /\ answer' \in Documents
          /\ setpoint' \in Documents /\ familyKnown' \in BOOLEAN
          /\ value' \in [Threads -> Documents]
      BY <2>6
    <2> QED
      BY <2>2, <2>3, <2>5, <2>7, <2>8
  <1>3. CASE PutFiles(t)
    <2>1. Reachable(serval) \in BOOLEAN
      BY DEF Reachable
    <2>2. destination' \in BOOLEAN
      BY <1>3, <2>1 DEF PutFiles
    <2> QED
      BY <1>3, <2>2 DEF PutFiles
  <1>4. CASE GetServer(t)
    BY <1>4 DEF GetServer, Reachable
  <1>5. CASE GetConfig(t)
    BY <1>5 DEF GetConfig
  <1>6. CASE ApplySetpoint(t)
    <2>1. Noting(setpoint) \in Documents /\ Pushed(setpoint) \in Documents
      BY Made
    <2>2. setpoint' \in Documents /\ value' \in [Threads -> Documents]
      BY <1>6, <2>1 DEF ApplySetpoint
    <2>3. asked' \in Documents \cup {Unset}
      BY <1>6 DEF ApplySetpoint
    <2> QED
      BY <1>6, <2>2, <2>3 DEF ApplySetpoint
  <1>7. CASE PutConfig(t)
    <2>1. Taken(value[t]) \in Documents
      BY Made
    <2>2. config' \in Documents /\ answer' \in Documents
      BY <1>7, <2>1 DEF PutConfig
    <2>3. value' \in [Threads -> Documents] /\ asked' \in Documents \cup {Unset}
      BY <1>7 DEF PutConfig
    <2> QED
      BY <1>7, <2>2, <2>3 DEF PutConfig
  <1>8. CASE GetDetector(t)
    BY <1>8 DEF GetDetector
  <1>9. CASE ReadBack(t)
    <2>1. setpoint' \in Documents
      BY <1>9 DEF ReadBack, Documents
    <2>2. value' \in [Threads -> Documents] /\ asked' \in Documents \cup {Unset}
      BY <1>9 DEF ReadBack
    <2> QED
      BY <1>9, <2>1, <2>2 DEF ReadBack
  <1> QED
    BY <1>1, <1>2, <1>3, <1>4, <1>5, <1>6, <1>7, <1>8, <1>9 DEF Request

\* The other steps of the poll thread keep the types.
LEMMA PollTyped ==
  ASSUME TypeOK, PollWakes \/ Compare \/ FinishRefresh \/ MarkUp
  PROVE  TypeOK'
  <1> USE NotedAsked, ReconnectAssumption
      DEF TypeOK, ServalStates, RefreshLabels, InitLabels, Goto
  <1>1. CASE PollWakes
    BY <1>1 DEF PollWakes
  <1>2. CASE Compare
    <2>1. lastUp' \in BOOLEAN
      BY <1>2 DEF Compare
    <2>2. pc'[Poll] = "files" => ~lastUp'
      BY <1>2 DEF Compare
    <2> QED
      BY <1>2, <2>1, <2>2 DEF Compare
  <1>3. CASE FinishRefresh
    BY <1>3 DEF FinishRefresh
  <1>4. CASE MarkUp
    BY <1>4 DEF MarkUp
  <1> QED
    BY <1>1, <1>2, <1>3, <1>4

\* So do the writes that begin on the port thread.
LEMMA WriteTyped ==
  ASSUME TypeOK, (\E v \in Written : WriteSetting(v)) \/ WriteHealth \/ WriteData
  PROVE  TypeOK'
  <1> USE NotedAsked, ReconnectAssumption
      DEF TypeOK, ServalStates, RefreshLabels, InitLabels, Goto
  <1>1. ASSUME NEW v \in Written, WriteSetting(v) PROVE TypeOK'
    BY <1>1 DEF WriteSetting
  <1>2. CASE WriteHealth
    BY <1>2 DEF WriteHealth
  <1>3. CASE WriteData
    BY <1>3 DEF WriteData
  <1> QED
    BY <1>1, <1>2, <1>3

\* And so does whatever Serval and the detector do.
LEMMA ServalTyped ==
  ASSUME TypeOK, ServalStep
  PROVE  TypeOK'
  <1> USE NotedAsked, ReconnectAssumption DEF TypeOK, ServalStates
  <1>1. CASE ServalStops
    BY <1>1 DEF ServalStops
  <1>2. CASE ServalStarts
    BY <1>2 DEF ServalStarts
  <1>3. CASE DetectorComes
    BY <1>3 DEF DetectorComes
  <1>4. CASE DetectorGoes
    BY <1>4 DEF DetectorGoes
  <1>5. CASE BusyOrNot
    BY <1>5 DEF BusyOrNot
  <1>6. CASE CatchUp
    BY <1>6 DEF CatchUp
  <1> QED
    BY <1>1, <1>2, <1>3, <1>4, <1>5, <1>6 DEF ServalStep

\* Every step keeps the types.
LEMMA StepTyped ==
  ASSUME TypeOK, [Next]_vars
  PROVE  TypeOK'
  <1>1. CASE UNCHANGED vars
    BY <1>1 DEF vars, TypeOK
  <1>2. CASE Next
    BY <1>2, RequestTyped, PollTyped, WriteTyped, ServalTyped DEF Next, PollStep, PortStep
  <1> QED
    BY <1>1, <1>2

\* The initial states have the types.
LEMMA InitTyped == Init => TypeOK
  <1> SUFFICES ASSUME Init PROVE TypeOK
    OBVIOUS
  <1>1. /\ servalConnected \in BOOLEAN /\ detConnected \in BOOLEAN
        /\ linked \in BOOLEAN /\ lastUp \in BOOLEAN /\ familyKnown \in BOOLEAN
    <2>1. Reachable(serval) \in BOOLEAN /\ HasDetector(serval) \in BOOLEAN
      BY DEF Reachable, HasDetector
    <2> QED
      BY <2>1 DEF Init
  <1> QED
    BY <1>1, ReconnectAssumption DEF Init, TypeOK, ServalStates, RefreshLabels, InitLabels

\* The variables keep their types; only the poll thread is ever in a refresh, and
\* then the last poll that was evaluated found the connection down
\* (connectionPollThread, serval_http.cpp).
THEOREM TypeCorrect == Spec => []TypeOK
  BY InitTyped, StepTyped, PTL DEF Spec

-----------------------------------------------------------------------------
(***************************************************************************)
(* While asked holds settings, the refresh is on its way from the          *)
(* parameters, through the thread's copy, to Serval and back: what it has  *)
(* passed has the settings that were asked for, and from what it has still *)
(* to pass it would make them. Where no answer lags, what Serval answers   *)
(* is what it has.                                                         *)
(***************************************************************************)
BackLabels == {"server", "detector", "readback", "finish", "mark"}

Prompt == detector \notin Lagging => answer = config

Underway ==
  asked # Unset =>
    /\ Undisturbed /\ familyKnown
    /\ pc[Poll] \in {"files", "config", "apply", "put"} \cup BackLabels
    /\ pc[Poll] \in {"files", "config", "apply"} => Outcome = asked
    /\ pc[Poll] = "put" => Taken(value[Poll]) = asked
    /\ pc[Poll] \in BackLabels => config = asked
    /\ (pc[Poll] = "readback" /\ detector \notin Lagging) => value[Poll] = asked
    /\ (pc[Poll] \in {"finish", "mark"} /\ detector \notin Lagging) => setpoint.read = asked.read
    /\ detector = "TPX3" => setpoint.tdc = asked.tdc

IInv == TypeOK /\ Prompt /\ Underway

\* The settings asked for are noted at the beginning of a refresh, and then stay.
LEMMA StaysAsked ==
  ASSUME TypeOK, Underway, NoteAsked, asked' # Unset
  PROVE  /\ pc'[Poll] \in RefreshLabels \cup {"mark"} /\ Undisturbed'
         /\ IF pc[Poll] = "compare" THEN familyKnown /\ asked' = Outcome
            ELSE asked' = asked
  BY DEF NoteAsked

\* What the parameters make of Serval depends on them, on the detector and on the
\* settings that Serval has.
LEMMA SameOutcome ==
  ASSUME UNCHANGED <<detector, familyKnown, setpoint, config>>
  PROVE  /\ Outcome' = Outcome
         /\ value' = value => Taken(value[Poll])' = Taken(value[Poll])
  BY DEF Outcome, Refuses, Taken, Pushed, Noting, Mpx3

\* Tdc0 and Tdc1 reach a Timepix3 as they are.
LEMMA OutcomeTdc ==
  ASSUME TypeOK
  PROVE  detector = "TPX3" => Outcome.tdc = setpoint.tdc
  <1>1. Pushed(setpoint) \in Documents /\ Pushed(setpoint).tdc = setpoint.tdc
    BY Made DEF TypeOK
  <1>2. detector = "TPX3" => Taken(Pushed(setpoint)).tdc = setpoint.tdc
    BY <1>1, Made
  <1> QED
    BY <1>2 DEF Outcome, Refuses, Mpx3

\* A request of the poll thread keeps what it has passed: sent to Serval is what the
\* parameters make of it, read back is what Serval has, unless it lags.
LEMMA PollRequestKeeps ==
  ASSUME TypeOK, Prompt, Underway, Request(Poll)
  PROVE  Underway'
  <1> SUFFICES ASSUME asked' # Unset
               PROVE  Underway'
    BY DEF Underway
  <1> USE ReconnectAssumption
      DEF Undisturbed, BackLabels, RefreshLabels, InitLabels, Goto, Keep,
          AfterInit, AfterServer, AfterDetector
  <1>0. NoteAsked /\ detector' = detector
    BY DEF Request, GetDashboard, SetStatus, PutFiles, GetServer, GetConfig, ApplySetpoint,
           PutConfig, GetDetector, ReadBack
  <1>1. /\ pc'[Poll] \in RefreshLabels \cup {"mark"} /\ Undisturbed'
        /\ pc[Poll] # "compare"
        /\ asked' = asked /\ asked # Unset
    <2>1. pc[Poll] # "compare"
      BY DEF Request, GetDashboard, SetStatus, PutFiles, GetServer, GetConfig, ApplySetpoint,
             PutConfig, GetDetector, ReadBack
    <2> QED
      BY <1>0, <2>1, StaysAsked
  <1>2. CASE GetDashboard(Poll)
    BY <1>1, <1>2 DEF GetDashboard, TypeOK, Underway
  <1>3. CASE SetStatus(Poll)
    BY <1>1, <1>3 DEF SetStatus, TypeOK, Underway
  <1>4. CASE PutFiles(Poll)
    <2>1. Outcome' = Outcome
      BY <1>4, SameOutcome DEF PutFiles
    <2> QED
      BY <1>1, <1>4, <2>1 DEF PutFiles, TypeOK, Underway
  <1>5. CASE GetServer(Poll)
    BY <1>1, <1>5 DEF GetServer, TypeOK, Underway
  <1>6. CASE GetConfig(Poll)
    <2>1. Outcome' = Outcome
      BY <1>6, SameOutcome DEF GetConfig
    <2> QED
      BY <1>1, <1>6, <2>1 DEF GetConfig, TypeOK, Underway
  <1>7. CASE ApplySetpoint(Poll)
    <2>1. pc[Poll] = "apply" /\ Outcome = asked /\ setpoint'.tdc = setpoint.tdc
      <3>1. Noting(setpoint).tdc = setpoint.tdc
        BY Made DEF TypeOK
      <3> QED
        BY <1>1, <1>7, <3>1 DEF ApplySetpoint, Underway
    <2>2. CASE Refuses(setpoint)
      <3>1. pc'[Poll] = "server" /\ config' = config /\ familyKnown' = familyKnown
        BY <1>7, <2>2 DEF ApplySetpoint, TypeOK
      <3>2. config = asked
        BY <2>1, <2>2 DEF Outcome
      <3> QED
        BY <1>0, <1>1, <2>1, <3>1, <3>2 DEF Underway
    <2>3. CASE ~Refuses(setpoint)
      <3>1. /\ pc'[Poll] = "put" /\ value'[Poll] = Pushed(setpoint)
            /\ config' = config /\ familyKnown' = familyKnown
        BY <1>7, <2>3 DEF ApplySetpoint, TypeOK
      <3>2. Taken(value[Poll])' = Taken(Pushed(setpoint))
        BY <1>0, <3>1 DEF Taken
      <3>3. Taken(Pushed(setpoint)) = asked
        BY <2>1, <2>3 DEF Outcome
      <3> QED
        BY <1>0, <1>1, <2>1, <3>1, <3>2, <3>3 DEF Underway
    <2> QED
      BY <2>2, <2>3
  <1>8. CASE PutConfig(Poll)
    <2>1. pc'[Poll] = "server" /\ config' = Taken(value[Poll])
      BY <1>1, <1>8 DEF PutConfig, TypeOK, Underway
    <2> QED
      BY <1>1, <1>8, <2>1 DEF PutConfig, TypeOK, Underway
  <1>9. CASE GetDetector(Poll)
    BY <1>1, <1>9 DEF GetDetector, TypeOK, Underway, Prompt
  <1>10. CASE ReadBack(Poll)
    <2>1. setpoint'.read = value[Poll].read /\ setpoint'.tdc = setpoint.tdc
      BY <1>10 DEF ReadBack, TypeOK, Documents
    <2> QED
      BY <1>1, <1>10, <2>1 DEF ReadBack, TypeOK, Underway
  <1> QED
    BY <1>2, <1>3, <1>4, <1>5, <1>6, <1>7, <1>8, <1>9, <1>10 DEF Request

\* A refresh begins with the parameters; its end changes none of them.
LEMMA PollKeeps ==
  ASSUME TypeOK, Underway, PollWakes \/ Compare \/ FinishRefresh \/ MarkUp
  PROVE  Underway'
  <1> SUFFICES ASSUME asked' # Unset
               PROVE  Underway'
    BY DEF Underway
  <1> USE ReconnectAssumption
      DEF Undisturbed, BackLabels, RefreshLabels, InitLabels, Goto
  <1>0. NoteAsked /\ UNCHANGED <<serval, detector, config, setpoint, familyKnown, value>>
    BY DEF PollWakes, Compare, FinishRefresh, MarkUp
  <1>1. /\ pc'[Poll] \in RefreshLabels \cup {"mark"} /\ Undisturbed'
        /\ IF pc[Poll] = "compare" THEN familyKnown /\ asked' = Outcome
           ELSE asked' = asked
    BY <1>0, StaysAsked
  <1>2. CASE PollWakes
    BY <1>1, <1>2 DEF PollWakes, TypeOK, Underway
  <1>3. CASE Compare
    <2>1. pc'[Poll] = "files" /\ familyKnown /\ asked' = Outcome
      BY <1>1, <1>3 DEF Compare, TypeOK
    <2>2. Outcome' = asked'
      BY <1>0, <2>1, SameOutcome
    <2>3. detector' = "TPX3" => setpoint'.tdc = asked'.tdc
      BY <1>0, <2>1, OutcomeTdc
    <2> QED
      BY <1>0, <1>1, <2>1, <2>2, <2>3 DEF Underway
  <1>4. CASE FinishRefresh
    BY <1>1, <1>4 DEF FinishRefresh, TypeOK, Underway
  <1>5. CASE MarkUp
    BY <1>1, <1>5 DEF MarkUp, TypeOK, Underway
  <1> QED
    BY <1>2, <1>3, <1>4, <1>5

\* The port thread, as long as it does not disturb, touches neither the
\* parameters nor Serval's settings.
LEMMA PortKeeps ==
  ASSUME TypeOK, Underway, PortStep
  PROVE  Underway'
  <1> SUFFICES ASSUME asked' # Unset
               PROVE  Underway'
    BY DEF Underway
  <1> USE ReconnectAssumption
      DEF Undisturbed, BackLabels, RefreshLabels, InitLabels, Goto, Keep,
          AfterInit, AfterServer, AfterDetector
  <1>0. NoteAsked /\ detector' = detector
    BY DEF PortStep, Request, WriteSetting, WriteHealth, WriteData, GetDashboard, SetStatus,
           PutFiles, GetServer, GetConfig, ApplySetpoint, PutConfig, GetDetector, ReadBack
  <1>1. pc'[Poll] = pc[Poll]
    BY DEF PortStep, Request, WriteSetting, WriteHealth, WriteData, GetDashboard, SetStatus,
           PutFiles, GetServer, GetConfig, ApplySetpoint, PutConfig, GetDetector, ReadBack, TypeOK
  <1>2. pc[Poll] # "compare"
    BY <1>0, <1>1, StaysAsked
  <1>3. asked' = asked /\ asked # Unset /\ Undisturbed /\ Undisturbed'
    BY <1>0, <1>2, StaysAsked DEF Underway
  <1>4. UNCHANGED <<familyKnown, setpoint, config, value>>
    BY <1>3
    DEF PortStep, Request, WriteSetting, WriteHealth, WriteData, GetDashboard, SetStatus,
        PutFiles, GetServer, GetConfig, ApplySetpoint, PutConfig, GetDetector, ReadBack, TypeOK
  <1>5. Outcome' = Outcome /\ Taken(value[Poll])' = Taken(value[Poll])
    BY <1>0, <1>4, SameOutcome
  <1> QED
    BY <1>0, <1>1, <1>3, <1>4, <1>5 DEF Underway

\* While Serval stays ready, it only lets its answers catch up.
LEMMA ServalKeeps ==
  ASSUME TypeOK, Underway, ServalStep
  PROVE  Underway'
  <1> SUFFICES ASSUME asked' # Unset
               PROVE  Underway'
    BY DEF Underway
  <1>0. NoteAsked /\ UNCHANGED <<detector, params, pc, saw, value>>
    BY DEF ServalStep, ServalStops, ServalStarts, DetectorComes, DetectorGoes, BusyOrNot, CatchUp
  <1>1. pc[Poll] # "compare"
    BY <1>0, StaysAsked DEF RefreshLabels, InitLabels
  <1>2. asked' = asked /\ asked # Unset /\ Undisturbed /\ Undisturbed'
    BY <1>0, <1>1, StaysAsked DEF Underway
  <1>3. CatchUp
    BY <1>2 DEF Undisturbed, HasDetector, Reachable, ServalStep, ServalStops, ServalStarts,
                DetectorComes, DetectorGoes, BusyOrNot
  <1>4. config' = config
    BY <1>3 DEF CatchUp
  <1>5. Outcome' = Outcome /\ Taken(value[Poll])' = Taken(value[Poll])
    BY <1>0, <1>4, SameOutcome
  <1> QED
    BY <1>0, <1>2, <1>4, <1>5 DEF Underway

\* Every step leaves a Serval whose answers do not lag answering what it has.
LEMMA PromptKept ==
  ASSUME Prompt, [Next]_vars
  PROVE  Prompt'
  <1> USE DEF Prompt
  <1>1. CASE UNCHANGED vars
    BY <1>1 DEF vars
  <1>2. ASSUME NEW t \in Threads, Request(t) PROVE Prompt'
    BY <1>2 DEF Request, GetDashboard, SetStatus, PutFiles, GetServer, GetConfig, ApplySetpoint,
                PutConfig, GetDetector, ReadBack
  <1>3. CASE PollWakes \/ Compare \/ FinishRefresh \/ MarkUp
    BY <1>3 DEF PollWakes, Compare, FinishRefresh, MarkUp
  <1>4. CASE (\E v \in Written : WriteSetting(v)) \/ WriteHealth \/ WriteData
    BY <1>4 DEF WriteSetting, WriteHealth, WriteData
  <1>5. CASE ServalStep
    BY <1>5 DEF ServalStep, CatchUp, ServalStops, ServalStarts, DetectorComes, DetectorGoes,
                BusyOrNot
  <1> QED
    BY <1>1, <1>2, <1>3, <1>4, <1>5 DEF Next, PollStep, PortStep

\* A refresh that nothing disturbs brings Serval to what initAcquisition makes of the
\* parameters that the poll found at the reconnection, or leaves Serval's settings
\* alone if those are refused; where answers do not lag, the parameters are then the
\* same (refreshOnReconnect, serval_http.cpp).
THEOREM RefreshRestoresHolds == Spec => []RefreshRestores
  <1>1. Init => IInv
    BY InitTyped DEF Init, IInv, Prompt, Underway
  <1>2. IInv /\ [Next]_vars => IInv'
    <2> SUFFICES ASSUME IInv, [Next]_vars PROVE Underway'
      BY StepTyped, PromptKept DEF IInv
    <2>1. CASE UNCHANGED vars
      <3>1. Outcome' = Outcome /\ Taken(value[Poll])' = Taken(value[Poll])
        BY <2>1, SameOutcome DEF vars
      <3> QED
        BY <2>1, <3>1 DEF IInv, Underway, Undisturbed, vars
    <2>2. CASE PollStep
      BY <2>2, PollRequestKeeps, PollKeeps DEF IInv, PollStep
    <2>3. CASE PortStep
      BY <2>3, PortKeeps DEF IInv
    <2>4. CASE ServalStep
      BY <2>4, ServalKeeps DEF IInv
    <2> QED
      BY <2>1, <2>2, <2>3, <2>4 DEF Next
  <1>3. IInv => RefreshRestores
    BY DEF IInv, Underway, BackLabels, RefreshRestores
  <1> QED
    BY <1>1, <1>2, <1>3, PTL DEF Spec
=============================================================================
