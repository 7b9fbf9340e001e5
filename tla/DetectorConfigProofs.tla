------------------------- MODULE DetectorConfigProofs -------------------------
(* Proofs about DetectorConfig: the variables keep their types, so that only *)
(* values in range reach Serval; Serval is never asked for a period that     *)
(* does not fit the exposure; a push that nothing disturbs does not combine  *)
(* what Medipix3 excludes; a write alone is sent whole or refused; parts of  *)
(* a document that are not written stay. For any values, writes, outages and *)
(* failures.                                                                 *)
EXTENDS DetectorConfig, TLAPS

\* Between FillTiming and the PUT the document fits, and so does what Serval has.
Timed ==
  /\ \A t \in Threads : pc[t] \in {"mode", "depth", "put"} => Fits(form[t].set)
  /\ Fits(config.set)

\* Only what Adjusted knows is adjusted.
Kinds == pc[Port] = "adjust" => last.kind \in Adjustable

IInv == TypeOK /\ Timed /\ Kinds

-----------------------------------------------------------------------------
\* The helpers bring a value into range.
LEMMA InRange ==
  ASSUME NEW v \in Int
  PROVE  NormTrigger(v) \in 0..8 /\ NormDepth(v) \in {1, 6, 12, 24} /\ NormGain(v) \in 0..3
  BY DEF NormTrigger, NormDepth, NormGain

\* The period computed from any two times is a time, and fits.
LEMMA PeriodRight ==
  ASSUME NEW v \in 0..8, NEW x \in Nat, NEW y \in Nat
  PROVE  /\ PeriodFor(v, x, y) \in Nat
         /\ IF v = Continuous THEN PeriodFor(v, x, y) = x ELSE PeriodFor(v, x, y) >= x + Gap
  BY ConfigAssumption DEF PeriodFor

\* A family is one of three.
LEMMA FamilyType == \A i : DetectFamily(i) \in {"TPX3", "MPX3", "Unknown"}
  BY DEF DetectFamily

\* What a thread without a document holds is right.
LEMMA BlankRight == Blank \in Pushed /\ Fits(Blank.set)
  BY ConfigAssumption DEF Blank, Pushed

\* Going on to another label leaves the other thread, and last.
LEMMA GotoRight ==
  ASSUME TypeOK, NEW t \in Threads, NEW l \in Labels, Goto(t, l)
  PROVE  /\ pc' \in [Threads -> Labels] /\ pc'[t] = l /\ last' = last
         /\ \A u \in Threads \ {t} : pc'[u] = pc[u]
  BY DEF Goto, TypeOK

\* Returning drops the document of the thread.
LEMMA ReturnRight ==
  ASSUME TypeOK, NEW t \in Threads, NEW s \in {"ok", "error"}, Return(t, s)
  PROVE  /\ pc' \in [Threads -> Labels] /\ pc'[t] \in {"detector", "rest"}
         /\ last' \in [kind : Writes, status : {"ok", "error"}] /\ last'.kind = last.kind
         /\ form' \in [Threads -> Pushed] /\ form'[t] = Blank
         /\ \A u \in Threads \ {t} : pc'[u] = pc[u] /\ form'[u] = form[u]
  <1>1. pc' \in [Threads -> Labels] /\ pc'[t] \in {"detector", "rest"}
    BY DEF Return, TypeOK, Labels
  <1>2. last' \in [kind : Writes, status : {"ok", "error"}] /\ last'.kind = last.kind
    BY DEF Return, TypeOK
  <1>3. form' \in [Threads -> Pushed] /\ form'[t] = Blank
    BY BlankRight DEF Return, TypeOK
  <1> QED BY <1>1, <1>2, <1>3 DEF Return, TypeOK

\* A failure is counted, up to the bound.
LEMMA FailureType ==
  ASSUME TypeOK, Answers \/ Fails
  PROVE  failures' \in 0..MaxFailures
  BY ConfigAssumption DEF TypeOK, Answers, Fails

\* The initial states satisfy the invariant.
LEMMA InitRight == Init => IInv
  <1> SUFFICES ASSUME Init PROVE IInv
    OBVIOUS
  <1> USE ConfigAssumption
  <1>1. FreshConfig \in Pushed /\ Fits(FreshConfig.set)
    BY DEF FreshConfig, Pushed
  <1>2. p \in Settings
    BY DEF Init, Settings, Accepted
  <1>3. /\ pc \in [Threads -> Labels] /\ pc[Port] = "rest"
        /\ \A t \in Threads : pc[t] = "rest"
    BY DEF Init, Labels, Threads
  <1>4. form \in [Threads -> Pushed]
    BY BlankRight DEF Init
  <1>5. /\ measurement \in [stem : {0, 1}, others : {"set", "none"}]
        /\ dacs \in [fine : {0, 1}, coarse : {"reset", "file"}]
        /\ held \in [others : {"set", "none"}, coarse : {"reset", "file"}]
    BY DEF Init, FreshMeasurement, FreshDacs, Nothing
  <1>6. last \in [kind : Writes, status : {"ok", "error"}]
    BY DEF Init, Writes
  <1>7. /\ info \in Infos /\ family \in {"TPX3", "MPX3", "Unknown"} /\ stem \in {0, 1}
        /\ single \in BOOLEAN /\ missed \in BOOLEAN
    BY DEF Init
  <1>8. writes \in 0..MaxWrites /\ outages \in 0..MaxOutages /\ failures \in 0..MaxFailures
    BY DEF Init
  <1>9. TypeOK
    BY <1>1, <1>2, <1>3, <1>4, <1>5, <1>6, <1>7, <1>8 DEF Init, TypeOK
  <1> QED BY <1>1, <1>3, <1>9 DEF Init, IInv, Timed, Kinds

\* What a step of one thread has to show, of what it changes.
LEMMA TimedKept ==
  ASSUME Timed, NEW t \in Threads,
         \A u \in Threads \ {t} : pc'[u] = pc[u] /\ form'[u] = form[u],
         pc'[t] \in {"mode", "depth", "put"} => Fits(form'[t].set), Fits(config'.set)
  PROVE  Timed'
  BY DEF Timed

LEMMA KindsKept ==
  ASSUME Kinds, last'.kind = last.kind, pc'[Port] = pc[Port] \/ pc'[Port] # "adjust"
  PROVE  Kinds'
  BY DEF Kinds

-----------------------------------------------------------------------------
(* initAcquisition. *)

LEMMA GetConfigRight ==
  ASSUME IInv, NEW t \in Threads, GetConfig(t)
  PROVE  IInv'
  <1> USE DEF IInv
  <1>0. failures' \in 0..MaxFailures
    BY FailureType DEF GetConfig
  <1>1. CASE Fails /\ Return(t, "ok")
    <2>1. TypeOK'
      BY <1>0, <1>1, ReturnRight DEF GetConfig, TypeOK, Still, NoDocument, documents, settings
    <2>2. Timed'
      BY <1>1, ReturnRight, TimedKept DEF GetConfig, NoDocument, documents, Timed
    <2>3. Kinds'
      BY <1>1, ReturnRight, KindsKept DEF Threads
    <2> QED BY <2>1, <2>2, <2>3
  <1>2. CASE /\ form' = [form EXCEPT ![t] = config]
             /\ Goto(t, IF family = "Unknown" THEN "learn" ELSE "trigger")
    <2>1. PICK l \in {"learn", "trigger"} : Goto(t, l)
      BY <1>2
    <2>2. /\ pc' \in [Threads -> Labels] /\ pc'[t] = l /\ last' = last
          /\ \A u \in Threads \ {t} : pc'[u] = pc[u]
      BY <2>1, GotoRight DEF Labels
    <2>0. form' \in [Threads -> Pushed]
      BY <1>2 DEF TypeOK
    <2>3. TypeOK'
      BY <1>0, <2>0, <2>2 DEF GetConfig, TypeOK, Still, NoDocument, documents, settings
    <2>4. \A u \in Threads \ {t} : pc'[u] = pc[u] /\ form'[u] = form[u]
      BY <1>2, <2>2 DEF TypeOK
    <2>5. pc'[t] \notin {"mode", "depth", "put"}
      BY <2>1, <2>2
    <2>6. Fits(config'.set)
      BY DEF GetConfig, NoDocument, documents, Timed
    <2>7. Timed'
      BY <2>4, <2>5, <2>6, TimedKept
    <2>8. Kinds'
      BY <2>1, <2>2, KindsKept DEF Threads
    <2> QED BY <2>3, <2>7, <2>8
  <1> QED BY <1>1, <1>2 DEF GetConfig

LEMMA FillTriggerRight ==
  ASSUME IInv, NEW t \in Threads, FillTrigger(t)
  PROVE  IInv'
  <1> USE DEF IInv
  <1> DEFINE v == NormTrigger(p.trigger)
  <1>1. v \in 0..8
    BY InRange DEF TypeOK, Settings
  <1>2. p' \in Settings
    BY <1>1 DEF FillTrigger, TypeOK, Settings
  <1>3. CASE Return(t, "error")
    <2>1. TypeOK'
      BY <1>2, <1>3, ReturnRight DEF FillTrigger, TypeOK, Still, NoDocument, documents
    <2>2. Timed'
      BY <1>3, ReturnRight, TimedKept DEF FillTrigger, NoDocument, documents, Timed
    <2>3. Kinds'
      BY <1>3, ReturnRight, KindsKept DEF Threads
    <2> QED BY <2>1, <2>2, <2>3
  <1>4. CASE Goto(t, "timing") /\ form' = [form EXCEPT ![t].set.trigger = v]
    <2>1. /\ pc' \in [Threads -> Labels] /\ pc'[t] = "timing" /\ last' = last
          /\ \A u \in Threads \ {t} : pc'[u] = pc[u]
      BY <1>4, GotoRight DEF Labels
    <2>2. form' \in [Threads -> Pushed] /\ \A u \in Threads \ {t} : form'[u] = form[u]
      BY <1>1, <1>4 DEF TypeOK, Pushed, Accepted
    <2>3. TypeOK'
      BY <1>2, <2>1, <2>2 DEF FillTrigger, TypeOK, Still, NoDocument, documents
    <2>4. Timed'
      BY <2>1, <2>2, TimedKept DEF FillTrigger, NoDocument, documents, Timed
    <2>5. Kinds'
      BY <2>1, KindsKept DEF Threads
    <2> QED BY <2>3, <2>4, <2>5
  <1> QED BY <1>3, <1>4 DEF FillTrigger

LEMMA FillTimingRight ==
  ASSUME IInv, NEW t \in Threads, FillTiming(t)
  PROVE  IInv'
  <1> USE DEF IInv
  <1> DEFINE v == form[t].set.trigger
             y == PeriodFor(v, p.exposure, p.period)
             s == [form[t].set EXCEPT !.exposure = p.exposure, !.images = p.images, !.period = y]
  <1>1. v \in 0..8 /\ p.exposure \in Nat /\ p.period \in Nat /\ p.images \in Int
    BY DEF TypeOK, Settings, Pushed, Accepted
  <1>2. y \in Nat /\ IF v = Continuous THEN y = p.exposure ELSE y >= p.exposure + Gap
    BY <1>1, PeriodRight
  <1>3. form' = [form EXCEPT ![t].set = s]
    BY DEF FillTiming
  <1>4. s \in Accepted /\ s.trigger = v /\ s.exposure = p.exposure /\ s.period = y
    <2>1. form[t].set \in Accepted
      BY DEF TypeOK, Pushed
    <2> HIDE DEF y
    <2> QED BY <1>1, <1>2, <2>1 DEF Accepted
  <1>5. Fits(s)
    BY <1>2, <1>4 DEF Fits
  <1>6. /\ form' \in [Threads -> Pushed] /\ form'[t].set = s
        /\ \A u \in Threads \ {t} : form'[u] = form[u]
    <2> HIDE DEF s
    <2> QED BY <1>3, <1>4 DEF TypeOK, Pushed
  <1>7. /\ pc' \in [Threads -> Labels] /\ pc'[t] = "mode" /\ last' = last
        /\ \A u \in Threads \ {t} : pc'[u] = pc[u]
    BY GotoRight DEF Labels, FillTiming
  <1>8. TypeOK'
    BY <1>6, <1>7 DEF FillTiming, TypeOK, Still, NoDocument, documents, settings
  <1>9. Timed'
    BY <1>5, <1>6, <1>7, TimedKept DEF FillTiming, NoDocument, documents, Timed
  <1>10. Kinds'
    BY <1>7, KindsKept DEF Threads
  <1> QED BY <1>8, <1>9, <1>10

LEMMA FillModeRight ==
  ASSUME IInv, NEW t \in Threads, FillMode(t)
  PROVE  IInv'
  <1> USE DEF IInv
  <1>1. PICK l \in {"put", "depth"} : Goto(t, l)
    BY DEF FillMode
  <1>2. /\ pc' \in [Threads -> Labels] /\ pc'[t] = l /\ last' = last
        /\ \A u \in Threads \ {t} : pc'[u] = pc[u]
    BY <1>1, GotoRight DEF Labels
  <1>3. form[t] \in Pushed /\ Fits(form[t].set)
    BY DEF FillMode, Timed, TypeOK
  <1>4. PICK e \in Pushed : form' = [form EXCEPT ![t] = e] /\ Fits(e.set)
    <2>1. CASE form' = [form EXCEPT ![t].tpx = TRUE]
      <3>1. form' = [form EXCEPT ![t] = [form[t] EXCEPT !.tpx = TRUE]]
        BY <2>1
      <3>2. [form[t] EXCEPT !.tpx = TRUE] \in Pushed
        BY <1>3 DEF Pushed
      <3>3. [form[t] EXCEPT !.tpx = TRUE].set = form[t].set
        BY <1>3 DEF Pushed
      <3> QED BY <1>3, <3>1, <3>2, <3>3
    <2>2. CASE form' = [form EXCEPT ![t] =
                 [set |-> [form[t].set EXCEPT !.both = p.both, !.gain = NormGain(p.gain)], tpx |-> FALSE]]
      <3> DEFINE s == [form[t].set EXCEPT !.both = p.both, !.gain = NormGain(p.gain)]
      <3>1. p.both \in BOOLEAN /\ NormGain(p.gain) \in 0..3
        BY InRange DEF TypeOK, Settings
      <3>2. s \in Accepted /\ Fits(s)
        <4>1. form[t].set \in Accepted
          BY <1>3 DEF Pushed
        <4>2. s \in Accepted
          BY <3>1, <4>1 DEF Accepted
        <4>3. s.trigger = form[t].set.trigger /\ s.exposure = form[t].set.exposure
              /\ s.period = form[t].set.period
          BY <4>1 DEF Accepted
        <4> QED BY <1>3, <4>2, <4>3 DEF Fits
      <3>3. [set |-> s, tpx |-> FALSE] \in Pushed
        BY <3>2 DEF Pushed
      <3> QED BY <2>2, <3>2, <3>3
    <2> QED BY <2>1, <2>2 DEF FillMode
  <1>5. /\ form' \in [Threads -> Pushed] /\ form'[t] = e
        /\ \A u \in Threads \ {t} : form'[u] = form[u]
    BY <1>4 DEF TypeOK
  <1>6. TypeOK'
    BY <1>2, <1>5 DEF FillMode, TypeOK, Still, NoDocument, documents, settings
  <1>7. Timed'
    BY <1>2, <1>4, <1>5, TimedKept DEF FillMode, NoDocument, documents, Timed
  <1>8. Kinds'
    BY <1>1, <1>2, KindsKept DEF Threads
  <1> QED BY <1>6, <1>7, <1>8

LEMMA FillDepthRight ==
  ASSUME IInv, NEW t \in Threads, FillDepth(t)
  PROVE  IInv'
  <1> USE DEF IInv
  <1>1. PICK d \in {1, 6, 12, 24} :
          p' = [p EXCEPT !.depth = d] /\ form' = [form EXCEPT ![t].set.depth = d]
    <2>1. NormDepth(p.depth) \in {1, 6, 12, 24}
      BY InRange DEF TypeOK, Settings
    <2> QED BY <2>1 DEF FillDepth
  <1>2. p' \in Settings
    BY <1>1 DEF TypeOK, Settings
  <1>3. form[t] \in Pushed /\ Fits(form[t].set)
    BY DEF FillDepth, Timed, TypeOK
  <1> DEFINE s == [form[t].set EXCEPT !.depth = d]
  <1>4. s \in Accepted /\ Fits(s)
    BY <1>3 DEF Pushed, Accepted, Fits
  <1>5. form' = [form EXCEPT ![t] = [form[t] EXCEPT !.set = s]]
    BY <1>1
  <1>6. [form[t] EXCEPT !.set = s] \in Pushed /\ [form[t] EXCEPT !.set = s].set = s
    <2> HIDE DEF s
    <2> QED BY <1>3, <1>4 DEF Pushed
  <1>7. /\ form' \in [Threads -> Pushed] /\ form'[t].set = s
        /\ \A u \in Threads \ {t} : form'[u] = form[u]
    <2> HIDE DEF s
    <2> QED BY <1>5, <1>6 DEF TypeOK
  <1>8. /\ pc' \in [Threads -> Labels] /\ pc'[t] = "put" /\ last' = last
        /\ \A u \in Threads \ {t} : pc'[u] = pc[u]
    BY GotoRight DEF Labels, FillDepth
  <1>9. TypeOK'
    BY <1>2, <1>7, <1>8 DEF FillDepth, TypeOK, Still, NoDocument, documents
  <1>10. Timed'
    BY <1>4, <1>7, <1>8, TimedKept DEF FillDepth, NoDocument, documents, Timed
  <1>11. Kinds'
    BY <1>8, KindsKept DEF Threads
  <1> QED BY <1>9, <1>10, <1>11

\* Serval takes what the document says, or keeps what it has.
LEMMA PutRight ==
  ASSUME IInv, NEW t \in Threads, Put(t)
  PROVE  IInv'
  <1> USE DEF IInv
  <1>0. failures' \in 0..MaxFailures
    BY FailureType DEF Put
  <1>1. config' \in Pushed /\ Fits(config'.set)
    BY DEF Put, TypeOK, Timed
  <1>2. CASE Return(t, "ok")
    <2>1. TypeOK'
      BY <1>0, <1>1, <1>2, ReturnRight DEF Put, TypeOK, Still, settings
    <2>2. Timed'
      BY <1>1, <1>2, ReturnRight, TimedKept
    <2>3. Kinds'
      BY <1>2, ReturnRight, KindsKept DEF Threads
    <2> QED BY <2>1, <2>2, <2>3
  <1>3. CASE Goto(t, "resync") /\ UNCHANGED form
    <2>1. /\ pc' \in [Threads -> Labels] /\ pc'[t] = "resync" /\ last' = last
          /\ \A u \in Threads \ {t} : pc'[u] = pc[u]
      BY <1>3, GotoRight DEF Labels
    <2>2. TypeOK'
      BY <1>0, <1>1, <1>3, <2>1 DEF Put, TypeOK, Still, settings
    <2>3. Timed'
      BY <1>1, <1>3, <2>1, TimedKept
    <2>4. Kinds'
      BY <2>1, KindsKept DEF Threads
    <2> QED BY <2>2, <2>3, <2>4
  <1> QED BY <1>2, <1>3 DEF Put

LEMMA ResyncRight ==
  ASSUME IInv, NEW t \in Threads, Resync(t)
  PROVE  IInv'
  <1> USE DEF IInv
  <1>0. failures' \in 0..MaxFailures
    BY FailureType DEF Resync
  <1>1. p' \in Settings
    <2>1. config.set.depth \in Int /\ config.set.gain \in Int
      BY DEF TypeOK, Pushed, Accepted
    <2> QED BY <2>1 DEF Resync, TypeOK, Settings
  <1>2. Return(t, "error")
    BY DEF Resync
  <1>3. TypeOK'
    BY <1>0, <1>1, <1>2, ReturnRight DEF Resync, TypeOK, Still, NoDocument, documents
  <1>4. Timed'
    BY <1>2, ReturnRight, TimedKept DEF Resync, NoDocument, documents, Timed
  <1>5. Kinds'
    BY <1>2, ReturnRight, KindsKept DEF Threads
  <1> QED BY <1>3, <1>4, <1>5

-----------------------------------------------------------------------------
(* getDetector, getMeasurementConfig. *)

LEMMA GetDetectorRight ==
  ASSUME IInv, NEW t \in Threads, GetDetector(t)
  PROVE  IInv'
  <1> USE DEF IInv
  <1>0. failures' \in 0..MaxFailures
    BY FailureType DEF GetDetector
  <1>1. PICK l \in {"learned", "readback", "trigger", "measure"} : Goto(t, l)
    BY DEF GetDetector
  <1>2. /\ pc' \in [Threads -> Labels] /\ pc'[t] = l /\ last' = last
        /\ \A u \in Threads \ {t} : pc'[u] = pc[u]
    BY <1>1, GotoRight DEF Labels
  <1>3. form' \in [Threads -> Pushed] /\ \A u \in Threads \ {t} : form'[u] = form[u]
    BY DEF GetDetector, TypeOK
  <1>4. TypeOK'
    BY <1>0, <1>2, <1>3 DEF GetDetector, TypeOK, Still, NoDocument, documents, settings
  <1>5. pc'[t] \notin {"mode", "depth", "put"} /\ pc'[t] # "adjust"
    BY <1>1, <1>2
  <1>6. Timed'
    BY <1>2, <1>3, <1>5, TimedKept DEF GetDetector, NoDocument, documents, Timed
  <1>7. Kinds'
    BY <1>2, <1>5, KindsKept DEF Threads
  <1> QED BY <1>4, <1>6, <1>7

LEMMA ReadBackRight ==
  ASSUME IInv, NEW t \in Threads, ReadBack(t)
  PROVE  IInv'
  <1> USE DEF IInv
  <1> DEFINE s == form[t].set
             q == FamilyDefaults(p, family')
  <1>1. family' \in {"TPX3", "MPX3", "Unknown"}
    BY FamilyType DEF ReadBack
  <1>2. p' \in Settings
    <2>1. /\ s.trigger \in Int /\ s.exposure \in Nat /\ s.period \in Nat /\ s.images \in Int
      BY DEF TypeOK, Pushed, Accepted
    <2>2. q \in Settings
      <3>1. p \in Settings
        BY DEF TypeOK
      <3>2. \A g \in Int : [p EXCEPT !.gain = g] \in Settings
        BY <3>1 DEF Settings
      <3>3. \A r \in Settings : \A d \in Int : [r EXCEPT !.depth = d] \in Settings
        BY DEF Settings
      <3>4. [p EXCEPT !.gain = 1] \in Settings /\ 12 \in Int
        BY <3>2
      <3>5. [[p EXCEPT !.gain = 1] EXCEPT !.depth = 12] \in Settings
        BY <3>3, <3>4, Zenon
      <3>6. [p EXCEPT !.gain = 1, !.depth = 12] \in Settings
        BY <3>5
      <3> QED BY <3>1, <3>6 DEF FamilyDefaults
    <2>3. p' = [q EXCEPT !.trigger = s.trigger, !.exposure = s.exposure,
                         !.period = s.period, !.images = s.images]
      BY DEF ReadBack
    <2> HIDE DEF q, s
    <2> QED BY <2>1, <2>2, <2>3 DEF Settings
  <1>3. PICK l \in {"learnedMode", "readbackMode"} : Goto(t, l)
    BY DEF ReadBack
  <1>4. /\ pc' \in [Threads -> Labels] /\ pc'[t] = l /\ last' = last
        /\ \A u \in Threads \ {t} : pc'[u] = pc[u]
    BY <1>3, GotoRight DEF Labels
  <1>5. TypeOK'
    BY <1>1, <1>2, <1>4 DEF ReadBack, TypeOK, Still, NoDocument, documents
  <1>6. Timed'
    BY <1>3, <1>4, TimedKept DEF ReadBack, NoDocument, documents, Timed
  <1>7. Kinds'
    BY <1>3, <1>4, KindsKept DEF Threads
  <1> QED BY <1>5, <1>6, <1>7

LEMMA ReadBackModeRight ==
  ASSUME IInv, NEW t \in Threads, ReadBackMode(t)
  PROVE  IInv'
  <1> USE DEF IInv
  <1>1. p' \in Settings
    <2>1. form[t].set.both \in BOOLEAN /\ form[t].set.gain \in Int /\ form[t].set.depth \in Int
      BY DEF TypeOK, Pushed, Accepted
    <2>2. p \in Settings
      BY DEF TypeOK
    <2>3. \/ p' = p
          \/ p' = [p EXCEPT !.both = form[t].set.both, !.gain = form[t].set.gain,
                            !.depth = form[t].set.depth]
      BY DEF ReadBackMode
    <2> QED BY <2>1, <2>2, <2>3 DEF Settings
  <1>2. PICK l \in {"trigger", "measure"} : Goto(t, l)
    BY DEF ReadBackMode
  <1>3. /\ pc' \in [Threads -> Labels] /\ pc'[t] = l /\ last' = last
        /\ \A u \in Threads \ {t} : pc'[u] = pc[u]
    BY <1>2, GotoRight DEF Labels
  <1>4. form' \in [Threads -> Pushed] /\ \A u \in Threads \ {t} : form'[u] = form[u]
    BY BlankRight DEF ReadBackMode, TypeOK
  <1>5. TypeOK'
    BY <1>1, <1>3, <1>4 DEF ReadBackMode, TypeOK, Still, NoDocument, documents
  <1>6. Timed'
    BY <1>2, <1>3, <1>4, TimedKept DEF ReadBackMode, NoDocument, documents, Timed
  <1>7. Kinds'
    BY <1>2, <1>3, KindsKept DEF Threads
  <1> QED BY <1>5, <1>6, <1>7

LEMMA GetMeasurementConfigRight ==
  ASSUME IInv, NEW t \in Threads, GetMeasurementConfig(t)
  PROVE  IInv'
  <1> USE DEF IInv
  <1>0. failures' \in 0..MaxFailures
    BY FailureType DEF GetMeasurementConfig
  <1>1. stem' \in {0, 1}
    BY DEF GetMeasurementConfig, TypeOK
  <1>2. PICK l \in {"dacFile", "rest"} : Goto(t, l)
    BY DEF GetMeasurementConfig
  <1>3. /\ pc' \in [Threads -> Labels] /\ pc'[t] = l /\ last' = last
        /\ \A u \in Threads \ {t} : pc'[u] = pc[u]
    BY <1>2, GotoRight DEF Labels
  <1>4. TypeOK'
    BY <1>0, <1>1, <1>3 DEF GetMeasurementConfig, TypeOK, Still, NoDocument, documents
  <1>5. Timed'
    BY <1>2, <1>3, TimedKept DEF GetMeasurementConfig, NoDocument, documents, Timed
  <1>6. Kinds'
    BY <1>2, <1>3, KindsKept DEF Threads
  <1> QED BY <1>4, <1>5, <1>6

LEMMA RequestRight ==
  ASSUME IInv, NEW t \in Threads, Request(t)
  PROVE  IInv'
  BY GetConfigRight, FillTriggerRight, FillTimingRight, FillModeRight, FillDepthRight, PutRight,
     ResyncRight, GetDetectorRight, ReadBackRight, ReadBackModeRight, GetMeasurementConfigRight
  DEF Request

-----------------------------------------------------------------------------
(* The port thread. *)

LEMMA WriteRight ==
  ASSUME IInv, NEW kind \in Writes,
         NEW l \in {"adjust", "config", "rest", "detector", "stemGet", "dacGet"},
         l = "adjust" => kind \in Adjustable, Write(kind, l),
         p' \in Settings, stem' \in {0, 1}, single' \in BOOLEAN
  PROVE  IInv'
  <1> USE DEF IInv
  <1>1. /\ pc' \in [Threads -> Labels] /\ pc'[Port] = l
        /\ \A u \in Threads \ {Port} : pc'[u] = pc[u]
    BY DEF Write, TypeOK, Labels, Threads
  <1>2. last' \in [kind : Writes, status : {"ok", "error"}] /\ last'.kind = kind
    BY DEF Write
  <1>3. writes' \in 0..MaxWrites
    BY ConfigAssumption DEF Write, TypeOK
  <1>4. TypeOK'
    BY <1>1, <1>2, <1>3 DEF Write, TypeOK, NoDocument, documents
  <1>5. Timed'
    <2>1. Port \in Threads
      BY DEF Threads
    <2> QED BY <1>1, <2>1, TimedKept DEF Write, NoDocument, documents, Timed
  <1>6. Kinds'
    BY <1>1, <1>2 DEF Kinds
  <1> QED BY <1>4, <1>5, <1>6

LEMMA WriteSettingRight ==
  ASSUME IInv, WriteSetting
  PROVE  IInv'
  <1> USE DEF IInv
  <1>0. p \in Settings /\ stem' \in {0, 1} /\ single' \in BOOLEAN
    BY DEF TypeOK, WriteSetting
  <1>1. ASSUME NEW v \in Triggers, p' = [p EXCEPT !.trigger = v], Write("trigger", "adjust")
        PROVE  IInv'
    <2>1. p' \in Settings
      BY <1>0, <1>1, ConfigAssumption DEF Settings
    <2> QED BY <1>0, <1>1, <2>1, WriteRight DEF Writes, Adjustable
  <1>2. ASSUME NEW b \in BOOLEAN, p' = [p EXCEPT !.both = b], Write("both", "adjust")
        PROVE  IInv'
    <2>1. p' \in Settings
      BY <1>0, <1>2 DEF Settings
    <2> QED BY <1>0, <1>2, <2>1, WriteRight DEF Writes, Adjustable
  <1>3. ASSUME NEW d \in Depths, p' = [p EXCEPT !.depth = d], Write("depth", "adjust")
        PROVE  IInv'
    <2>1. p' \in Settings
      BY <1>0, <1>3, ConfigAssumption DEF Settings
    <2> QED BY <1>0, <1>3, <2>1, WriteRight DEF Writes, Adjustable
  <1>4. ASSUME NEW g \in Gains, p' = [p EXCEPT !.gain = g], Write("gain", "adjust")
        PROVE  IInv'
    <2>1. p' \in Settings
      BY <1>0, <1>4, ConfigAssumption DEF Settings
    <2> QED BY <1>0, <1>4, <2>1, WriteRight DEF Writes, Adjustable
  <1>5. ASSUME NEW n \in Counts, p' = [p EXCEPT !.images = n], Write("images", "adjust")
        PROVE  IInv'
    <2>1. p' \in Settings
      BY <1>0, <1>5, ConfigAssumption DEF Settings
    <2> QED BY <1>0, <1>5, <2>1, WriteRight DEF Writes, Adjustable
  <1>6. ASSUME NEW x \in Times, Write("time", "config"),
               p' = [p EXCEPT !.exposure = x] \/ p' = [p EXCEPT !.period = x]
        PROVE  IInv'
    <2>1. p' \in Settings
      BY <1>0, <1>6, ConfigAssumption DEF Settings
    <2> QED BY <1>0, <1>6, <2>1, WriteRight DEF Writes
  <1> QED BY <1>1, <1>2, <1>3, <1>4, <1>5, <1>6 DEF WriteSetting

LEMMA WriteOtherRight ==
  ASSUME IInv, WriteImageMode \/ WriteDocument
  PROVE  IInv'
  <1> USE DEF IInv
  <1>1. p' \in Settings
    BY DEF TypeOK, Settings, WriteImageMode, WriteDocument
  <1>2. stem' \in {0, 1} /\ single' \in BOOLEAN
    BY DEF TypeOK, WriteImageMode, WriteDocument
  <1>3. \/ Write("images", "config") \/ Write("none", "rest") \/ Write("none", "detector")
        \/ Write("none", "stemGet") \/ Write("dac", "dacGet")
    BY DEF WriteImageMode, WriteDocument
  <1> QED BY <1>1, <1>2, <1>3, WriteRight DEF Writes, Adjustable

\* Whatever was written, the parameters are settings again.
LEMMA AdjustedType ==
  ASSUME p \in Settings, NEW kind \in Adjustable
  PROVE  Adjusted(kind) \in Settings
  <1> USE DEF Settings
  <1>1. CASE kind = "trigger"
    <2>1. NormTrigger(p.trigger) \in Int
      BY InRange
    <2> QED BY <1>1, <2>1 DEF Adjusted, TimerStop
  <1>2. CASE kind = "both"
    <2> DEFINE v == IF TriggerConflict(p.trigger) THEN TimerStop ELSE p.trigger
               d == IF DepthConflict(p.depth) THEN 12 ELSE p.depth
    <2>1. v \in Int /\ d \in Int
      BY DEF TimerStop
    <2>2. Adjusted(kind) = [p EXCEPT !.trigger = v, !.depth = d]
      BY <1>2 DEF Adjusted
    <2> HIDE DEF v, d
    <2> QED BY <2>1, <2>2
  <1>3. CASE kind = "depth"
    <2>1. NormDepth(p.depth) \in Int
      BY InRange
    <2> QED BY <1>3, <2>1 DEF Adjusted
  <1>4. CASE kind = "gain"
    <2>1. NormGain(p.gain) \in Int
      BY InRange
    <2> QED BY <1>4, <2>1 DEF Adjusted
  <1>5. CASE kind = "images"
    BY <1>5 DEF Adjusted
  <1> QED BY <1>1, <1>2, <1>3, <1>4, <1>5 DEF Adjustable

LEMMA AdjustRight ==
  ASSUME IInv, Adjust
  PROVE  IInv'
  <1> USE DEF IInv
  <1>0. Port \in Threads
    BY DEF Threads
  <1>1. p' \in Settings
    BY AdjustedType DEF Adjust, TypeOK, Kinds
  <1>2. CASE Return(Port, "error")
    <2>1. TypeOK'
      BY <1>0, <1>1, <1>2, ReturnRight DEF Adjust, TypeOK, Still, NoDocument, documents
    <2>2. Timed'
      BY <1>0, <1>2, ReturnRight, TimedKept DEF Adjust, NoDocument, documents, Timed
    <2>3. Kinds'
      BY <1>0, <1>2, ReturnRight, KindsKept
    <2> QED BY <2>1, <2>2, <2>3
  <1>3. CASE Goto(Port, "config") /\ UNCHANGED form
    <2>1. /\ pc' \in [Threads -> Labels] /\ pc'[Port] = "config" /\ last' = last
          /\ \A u \in Threads \ {Port} : pc'[u] = pc[u]
      BY <1>0, <1>3, GotoRight DEF Labels
    <2>2. TypeOK'
      BY <1>1, <1>3, <2>1 DEF Adjust, TypeOK, Still, NoDocument, documents
    <2>3. Timed'
      BY <1>0, <1>3, <2>1, TimedKept DEF Adjust, NoDocument, documents, Timed
    <2>4. Kinds'
      BY <2>1, KindsKept
    <2> QED BY <2>2, <2>3, <2>4
  <1> QED BY <1>2, <1>3 DEF Adjust

LEMMA StemRight ==
  ASSUME IInv, StemGet \/ StemPut
  PROVE  IInv'
  <1> USE DEF IInv
  <1>0. failures' \in 0..MaxFailures
    BY FailureType DEF StemGet, StemPut
  <1>1. PICK l \in {"stemPut", "rest"} : Goto(Port, l)
    BY DEF StemGet, StemPut
  <1>2. /\ pc' \in [Threads -> Labels] /\ pc'[Port] = l /\ last' = last
        /\ \A u \in Threads \ {Port} : pc'[u] = pc[u]
    BY <1>1, GotoRight DEF Labels, Threads
  <1>3. held' \in [others : {"set", "none"}, coarse : {"reset", "file"}]
    BY DEF StemGet, StemPut, TypeOK, Drops, Nothing
  <1>4. measurement' \in [stem : {0, 1}, others : {"set", "none"}]
    BY DEF StemGet, StemPut, TypeOK, NoDocument, documents
  <1>5. TypeOK'
    BY <1>0, <1>2, <1>3, <1>4
    DEF StemGet, StemPut, TypeOK, Drops, NoDocument, documents, settings
  <1>6. form' = form /\ config' = config
    BY DEF StemGet, StemPut, NoDocument, documents
  <1>7. Timed'
    BY <1>1, <1>2, <1>6 DEF Timed, Threads
  <1>8. Kinds'
    BY <1>1, <1>2, KindsKept
  <1> QED BY <1>5, <1>7, <1>8

LEMMA DacRight ==
  ASSUME IInv, DacGet \/ DacPut
  PROVE  IInv'
  <1> USE DEF IInv
  <1>0. failures' \in 0..MaxFailures /\ Port \in Threads
    BY FailureType DEF DacGet, DacPut, Threads
  <1>1. held' \in [others : {"set", "none"}, coarse : {"reset", "file"}]
    BY DEF DacGet, DacPut, TypeOK, Drops, Nothing
  <1>2. dacs' \in [fine : {0, 1}, coarse : {"reset", "file"}]
    BY DEF DacGet, DacPut, TypeOK, NoDocument, documents
  <1>3. /\ config' = config /\ UNCHANGED <<measurement, p, stem, single, family>>
        /\ UNCHANGED <<info, missed, writes, outages>>
    BY DEF DacGet, DacPut, Drops, NoDocument, documents, settings
  <1>4. CASE Goto(Port, "dacPut") /\ UNCHANGED form
    <2>1. /\ pc' \in [Threads -> Labels] /\ pc'[Port] = "dacPut" /\ last' = last
          /\ \A u \in Threads \ {Port} : pc'[u] = pc[u]
      BY <1>0, <1>4, GotoRight DEF Labels
    <2>2. TypeOK'
      BY <1>0, <1>1, <1>2, <1>3, <1>4, <2>1 DEF TypeOK
    <2>3. Timed'
      BY <1>0, <1>3, <1>4, <2>1, TimedKept DEF Timed
    <2>4. Kinds'
      BY <2>1, KindsKept
    <2> QED BY <2>2, <2>3, <2>4
  <1>5. ASSUME NEW s \in {"ok", "error"}, Return(Port, s)
        PROVE  IInv'
    <2>1. TypeOK'
      BY <1>0, <1>1, <1>2, <1>3, <1>5, ReturnRight DEF TypeOK, Threads
    <2>2. Timed'
      BY <1>0, <1>3, <1>5, ReturnRight, TimedKept DEF Timed
    <2>3. Kinds'
      BY <1>0, <1>5, ReturnRight, KindsKept
    <2> QED BY <2>1, <2>2, <2>3
  <1> QED BY <1>4, <1>5 DEF DacGet, DacPut

-----------------------------------------------------------------------------
(* The poll thread, and Serval. *)

LEMMA PollRight ==
  ASSUME IInv, PollStarts \/ UploadDACS
  PROVE  IInv'
  <1> USE DEF IInv
  <1>0. failures' \in 0..MaxFailures
    BY FailureType DEF PollStarts, UploadDACS, TypeOK
  <1>1. PICK l \in {"config", "rest"} : Goto(Poll, l)
    BY DEF PollStarts, UploadDACS
  <1>2. /\ pc' \in [Threads -> Labels] /\ pc'[Poll] = l /\ last' = last
        /\ \A u \in Threads \ {Poll} : pc'[u] = pc[u]
    BY <1>1, GotoRight DEF Labels, Threads
  <1>3. /\ dacs' \in [fine : {0, 1}, coarse : {"reset", "file"}]
        /\ missed' \in BOOLEAN
    <2>1. dacs' = dacs \/ dacs' = [fine |-> 0, coarse |-> "file"]
      BY DEF PollStarts, UploadDACS, NoDocument, documents
    <2>2. missed' = FALSE \/ missed' = missed
      BY DEF PollStarts, UploadDACS, Still
    <2>3. [fine |-> 0, coarse |-> "file"] \in [fine : {0, 1}, coarse : {"reset", "file"}]
      OBVIOUS
    <2>4. dacs \in [fine : {0, 1}, coarse : {"reset", "file"}] /\ missed \in BOOLEAN
      BY DEF TypeOK
    <2>5. dacs' \in [fine : {0, 1}, coarse : {"reset", "file"}]
      BY <2>1, <2>3, <2>4, Zenon
    <2>6. missed' \in BOOLEAN
      BY <2>2, <2>4
    <2> QED BY <2>5, <2>6
  <1>4. /\ form' = form /\ config' = config /\ held' = held
        /\ UNCHANGED <<measurement, p, stem, single, family>> /\ UNCHANGED <<info, writes, outages>>
    BY DEF PollStarts, UploadDACS, Still, NoDocument, documents, settings
  <1>5. TypeOK'
    BY <1>0, <1>2, <1>3, <1>4 DEF TypeOK
  <1>6. Timed'
    BY <1>1, <1>2, <1>4 DEF Timed, Threads
  <1>7. Kinds'
    BY <1>1, <1>2, KindsKept, ConfigAssumption DEF Threads
  <1> QED BY <1>5, <1>6, <1>7

LEMMA OutageRight ==
  ASSUME IInv, Outage
  PROVE  IInv'
  <1> USE DEF IInv
  <1>1. FreshConfig \in Pushed /\ Fits(FreshConfig.set)
    BY ConfigAssumption DEF FreshConfig, Pushed
  <1>2. config' \in Pushed /\ Fits(config'.set)
    BY <1>1 DEF Outage, TypeOK, Timed, NoDocument, documents
  <1>3. /\ measurement' \in [stem : {0, 1}, others : {"set", "none"}]
        /\ dacs' \in [fine : {0, 1}, coarse : {"reset", "file"}]
    BY DEF Outage, TypeOK, FreshMeasurement, FreshDacs, NoDocument, documents
  <1>4. outages' \in 0..MaxOutages
    BY ConfigAssumption DEF Outage, TypeOK
  <1>5. TypeOK'
    BY <1>2, <1>3, <1>4 DEF Outage, TypeOK, settings
  <1>6. Timed' /\ Kinds'
    BY <1>2 DEF Outage, Timed, Kinds
  <1> QED BY <1>5, <1>6

LEMMA StepRight == IInv /\ [Next]_vars => IInv'
  <1> SUFFICES ASSUME IInv, [Next]_vars PROVE IInv'
    OBVIOUS
  <1>1. CASE UNCHANGED vars
    BY <1>1 DEF vars, documents, settings, history, IInv, TypeOK, Timed, Kinds
  <1>2. CASE PortStep
    BY <1>2, WriteSettingRight, WriteOtherRight, AdjustRight, RequestRight, StemRight, DacRight
    DEF PortStep, Threads
  <1>3. CASE PollStep
    BY <1>3, PollRight, RequestRight DEF PollStep, Threads
  <1>4. CASE Outage
    BY <1>4, OutageRight
  <1> QED BY <1>1, <1>2, <1>3, <1>4 DEF Next

\* Type correctness: whatever is written, the settings that Serval is asked for are
\* in range (initAcquisition normalises TriggerMode, GainMode and PixelDepth).
THEOREM TypeCorrect == Spec => []TypeOK
  <1>1. IInv => TypeOK
    BY DEF IInv
  <1> QED BY <1>1, InitRight, StepRight, PTL DEF Spec

\* Serval never has a TriggerPeriod shorter than the exposure and its pause, or, in
\* continuous mode, other than the exposure (serval_http.cpp:2535), although two
\* threads fill and push documents from parameters that change meanwhile: the period
\* comes from the trigger mode in the document, not from the parameter.
THEOREM PeriodFitsHolds == Spec => []PeriodFits
  <1>1. IInv => PeriodFits
    BY DEF IInv, Timed, PeriodFits
  <1> QED BY <1>1, InitRight, StepRight, PTL DEF Spec

-----------------------------------------------------------------------------
(* What a thread that fills a push has put in it agrees with the parameters, *)
(* as long as no other thread has changed them meanwhile.                    *)

Agrees(t) ==
  LET s == form[t].set
  IN /\ s.trigger = p.trigger /\ ~TriggerConflict(p.trigger)
     /\ pc[t] \in {"mode", "depth", "put"} =>
          /\ s.exposure = p.exposure /\ s.images = p.images
          /\ s.period = PeriodFor(p.trigger, p.exposure, p.period)
     /\ pc[t] = "depth" => family = "MPX3" /\ form[t].tpx = FALSE
     /\ pc[t] = "put" => form[t].tpx = (family # "MPX3")
     /\ pc[t] \in {"depth", "put"} /\ family = "MPX3" => s.both = p.both /\ s.gain = NormGain(p.gain)
     /\ pc[t] = "put" /\ family = "MPX3" => s.depth = p.depth /\ ~DepthConflict(p.depth)

Consistent == \A t \in Threads : pc[t] \in Filling /\ ~torn[t] => Agrees(t)

LEMMA HistoryKept == Next => History
BY DEF Next, PortStep, PollStep, Request, GetConfig, FillTrigger, FillTiming, FillMode, FillDepth,
   Put, Resync, GetDetector, ReadBack, ReadBackMode, GetMeasurementConfig, WriteSetting,
   WriteImageMode, WriteDocument, Write, Adjust, StemGet, StemPut, DacGet, DacPut, PollStarts,
   UploadDACS, Outage

\* Only the push of the thread that moves has to be looked at.
LEMMA ConsistentKept ==
  ASSUME Consistent, History, NEW t \in Threads,
         \A u \in Threads \ {t} : pc'[u] = pc[u] /\ form'[u] = form[u],
         pc'[t] \in Filling /\ ~torn[t] => Agrees(t)'
  PROVE  Consistent'
<1> SUFFICES ASSUME NEW u \in Threads, pc'[u] \in Filling, ~torn'[u] PROVE Agrees(u)'
  BY DEF Consistent
<1>1. ~torn[u] /\ (pc'[u] = pc[u] => UNCHANGED <<p, family>>)
  BY DEF History
<1>2. CASE u = t
  BY <1>1, <1>2
<1>3. CASE u # t
  <2>1. pc'[u] = pc[u] /\ form'[u] = form[u] /\ UNCHANGED <<p, family>> /\ Agrees(u)
    BY <1>1, <1>3 DEF Consistent
  <2> QED BY <2>1 DEF Agrees, TriggerConflict, DepthConflict
<1> QED BY <1>2, <1>3

LEMMA FillTriggerAgrees ==
  ASSUME TypeOK, Consistent, NEW t \in Threads, FillTrigger(t)
  PROVE  Consistent'
<1> DEFINE v == NormTrigger(p.trigger)
<1>1. CASE Return(t, "error")
  BY <1>1, ReturnRight, ConsistentKept DEF FillTrigger, Filling
<1>2. CASE ~TriggerConflict(v) /\ Goto(t, "timing") /\ form' = [form EXCEPT ![t].set.trigger = v]
  <2>1. pc'[t] = "timing" /\ \A u \in Threads \ {t} : pc'[u] = pc[u]
    BY <1>2, GotoRight DEF Labels
  <2>2. p' = [p EXCEPT !.trigger = v] /\ family' = family
    BY DEF FillTrigger
  <2>3. p'.trigger = v /\ p'.both = p.both
    BY <2>2 DEF TypeOK, Settings
  <2>4. form'[t].set.trigger = v /\ \A u \in Threads \ {t} : form'[u] = form[u]
    BY <1>2 DEF TypeOK, Pushed, Accepted
  <2>5. Agrees(t)'
    BY <1>2, <2>1, <2>2, <2>3, <2>4 DEF Agrees, TriggerConflict
  <2> QED BY <2>1, <2>4, <2>5, ConsistentKept DEF FillTrigger
<1> QED BY <1>1, <1>2 DEF FillTrigger

LEMMA FillTimingAgrees ==
  ASSUME TypeOK, Consistent, NEW t \in Threads, FillTiming(t)
  PROVE  Consistent'
<1> DEFINE y == PeriodFor(form[t].set.trigger, p.exposure, p.period)
           s == [form[t].set EXCEPT !.exposure = p.exposure, !.images = p.images, !.period = y]
<1>1. pc[t] = "timing" /\ pc'[t] = "mode" /\ (\A u \in Threads \ {t} : pc'[u] = pc[u])
      /\ UNCHANGED <<p, family>>
  BY GotoRight DEF FillTiming, Labels, settings
<1>2. form' = [form EXCEPT ![t].set = s]
  BY DEF FillTiming
<1>3. /\ s.trigger = form[t].set.trigger /\ s.exposure = p.exposure /\ s.images = p.images
      /\ s.period = y
  <2> HIDE DEF y
  <2> QED BY DEF TypeOK, Pushed, Accepted
<1>4. form'[t].set = s /\ \A u \in Threads \ {t} : form'[u] = form[u]
  <2> HIDE DEF s
  <2> QED BY <1>2 DEF TypeOK, Pushed
<1>5. ASSUME ~torn[t] PROVE Agrees(t)'
  <2>1. Agrees(t)
    BY <1>1, <1>5 DEF Consistent, Filling
  <2> HIDE DEF s
  <2> QED BY <1>1, <1>3, <1>4, <2>1 DEF Agrees, TriggerConflict
<1> QED BY <1>1, <1>4, <1>5, ConsistentKept DEF FillTiming

LEMMA FillModeAgrees ==
  ASSUME TypeOK, Consistent, NEW t \in Threads, FillMode(t)
  PROVE  Consistent'
<1>1. pc[t] = "mode" /\ UNCHANGED <<p, family>>
  BY DEF FillMode, settings
<1>2. ASSUME ~torn[t] PROVE Agrees(t)
  BY <1>1, <1>2 DEF Consistent, Filling
<1>3. CASE family # "MPX3" /\ Goto(t, "put") /\ form' = [form EXCEPT ![t].tpx = TRUE]
  <2>1. pc'[t] = "put" /\ \A u \in Threads \ {t} : pc'[u] = pc[u]
    BY <1>3, GotoRight DEF Labels
  <2>2. /\ form'[t].set = form[t].set /\ form'[t].tpx = TRUE
        /\ \A u \in Threads \ {t} : form'[u] = form[u]
    BY <1>3 DEF TypeOK, Pushed
  <2>3. ~torn[t] => Agrees(t)'
    BY <1>1, <1>2, <1>3, <2>1, <2>2 DEF Agrees, TriggerConflict
  <2> QED BY <2>1, <2>2, <2>3, ConsistentKept DEF FillMode
<1>4. CASE /\ family = "MPX3" /\ Goto(t, "depth")
           /\ form' = [form EXCEPT ![t] =
                [set |-> [form[t].set EXCEPT !.both = p.both, !.gain = NormGain(p.gain)], tpx |-> FALSE]]
  <2> DEFINE s == [form[t].set EXCEPT !.both = p.both, !.gain = NormGain(p.gain)]
  <2>1. pc'[t] = "depth" /\ \A u \in Threads \ {t} : pc'[u] = pc[u]
    BY <1>4, GotoRight DEF Labels
  <2>2. /\ s.trigger = form[t].set.trigger /\ s.exposure = form[t].set.exposure
        /\ s.images = form[t].set.images /\ s.period = form[t].set.period
        /\ s.both = p.both /\ s.gain = NormGain(p.gain)
    BY DEF TypeOK, Pushed, Accepted
  <2>3. /\ form'[t].set = s /\ form'[t].tpx = FALSE
        /\ \A u \in Threads \ {t} : form'[u] = form[u]
    BY <1>4 DEF TypeOK
  <2>4. ~torn[t] => Agrees(t)'
    <3> HIDE DEF s
    <3> QED BY <1>1, <1>2, <1>4, <2>1, <2>2, <2>3 DEF Agrees, TriggerConflict
  <2> QED BY <2>1, <2>3, <2>4, ConsistentKept DEF FillMode
<1> QED BY <1>3, <1>4 DEF FillMode

LEMMA FillDepthAgrees ==
  ASSUME TypeOK, Consistent, NEW t \in Threads, FillDepth(t)
  PROVE  Consistent'
<1> DEFINE d == IF DepthConflict(NormDepth(p.depth)) THEN 12 ELSE NormDepth(p.depth)
           s == [form[t].set EXCEPT !.depth = d]
<1>1. /\ pc[t] = "depth" /\ pc'[t] = "put" /\ (\A u \in Threads \ {t} : pc'[u] = pc[u])
      /\ family' = family /\ p' = [p EXCEPT !.depth = d] /\ form' = [form EXCEPT ![t].set.depth = d]
  BY GotoRight DEF FillDepth, Labels
<1>2. ~DepthConflict(d)
  BY DEF DepthConflict
<1> HIDE DEF d
<1>3. /\ p'.depth = d /\ p'.trigger = p.trigger /\ p'.exposure = p.exposure /\ p'.images = p.images
      /\ p'.period = p.period /\ p'.both = p.both /\ p'.gain = p.gain
  BY <1>1 DEF TypeOK, Settings
<1>4. /\ s.trigger = form[t].set.trigger /\ s.exposure = form[t].set.exposure
      /\ s.images = form[t].set.images /\ s.period = form[t].set.period
      /\ s.both = form[t].set.both /\ s.gain = form[t].set.gain /\ s.depth = d
  BY DEF TypeOK, Pushed, Accepted
<1> HIDE DEF s
<1>5. /\ form'[t].set = s /\ form'[t].tpx = form[t].tpx
      /\ \A u \in Threads \ {t} : form'[u] = form[u]
  BY <1>1 DEF TypeOK, Pushed, s
<1>6. ASSUME ~torn[t] PROVE Agrees(t)'
  <2>1. Agrees(t)
    BY <1>1, <1>6 DEF Consistent, Filling
  <2>2. pc[t] = "depth" /\ pc'[t] = "put" /\ family' = family
    BY <1>1
  <2>3. ~TriggerConflict(p.trigger)' /\ ~DepthConflict(p.depth)'
    BY <1>2, <1>3, <2>1, <2>2 DEF Agrees, TriggerConflict, DepthConflict
  <2> QED BY <1>3, <1>4, <1>5, <2>1, <2>2, <2>3 DEF Agrees
<1> QED BY <1>1, <1>5, <1>6, ConsistentKept DEF FillDepth

\* The other steps fill nothing.
LEMMA StepAgrees == ASSUME IInv, Consistent, [Next]_vars PROVE Consistent'
<1> USE DEF IInv
<1>1. CASE UNCHANGED vars
  BY <1>1 DEF vars, settings, history, Consistent, Agrees, TriggerConflict, DepthConflict
<1>2. ASSUME Next,
             \E t \in Threads : /\ pc'[t] \notin Filling
                                /\ \A u \in Threads \ {t} : pc'[u] = pc[u] /\ form'[u] = form[u]
      PROVE  Consistent'
  BY <1>2, HistoryKept, ConsistentKept
<1>3. ASSUME NEW t \in Threads, Request(t) PROVE Consistent'
  <2>1. CASE GetConfig(t) \/ Put(t) \/ Resync(t)
    <3>1. CASE Return(t, "ok") \/ Return(t, "error")
      BY <2>1, <3>1, ReturnRight, ConsistentKept DEF GetConfig, Put, Resync, Filling
    <3>2. CASE ~(Return(t, "ok") \/ Return(t, "error"))
      <4>1. PICK l \in {"learn", "trigger", "resync"} : Goto(t, l)
        BY <2>1, <3>2 DEF GetConfig, Put, Resync
      <4>2. pc'[t] \notin Filling /\ \A u \in Threads \ {t} : pc'[u] = pc[u]
        BY <4>1, GotoRight DEF Labels, Filling
      <4>3. \A u \in Threads \ {t} : form'[u] = form[u]
        BY <2>1, <3>2 DEF GetConfig, Put, Resync, TypeOK
      <4> QED BY <2>1, <4>2, <4>3, ConsistentKept DEF GetConfig, Put, Resync
    <3> QED BY <3>1, <3>2
  <2>2. CASE GetDetector(t) \/ ReadBack(t) \/ ReadBackMode(t) \/ GetMeasurementConfig(t)
    <3>1. PICK l \in {"learned", "readback", "trigger", "measure", "learnedMode", "readbackMode",
                      "dacFile", "rest"} : Goto(t, l)
      BY <2>2 DEF GetDetector, ReadBack, ReadBackMode, GetMeasurementConfig
    <3>2. pc'[t] \notin Filling /\ \A u \in Threads \ {t} : pc'[u] = pc[u]
      BY <3>1, GotoRight DEF Labels, Filling
    <3>3. \A u \in Threads \ {t} : form'[u] = form[u]
      BY <2>2 DEF GetDetector, ReadBack, ReadBackMode, GetMeasurementConfig, TypeOK
    <3> QED BY <2>2, <3>2, <3>3, ConsistentKept
            DEF GetDetector, ReadBack, ReadBackMode, GetMeasurementConfig
  <2> QED BY <1>3, <2>1, <2>2, FillTriggerAgrees, FillTimingAgrees, FillModeAgrees, FillDepthAgrees
          DEF Request
<1>4. CASE PortStep /\ ~Request(Port)
  <2>1. Next /\ Port \in Threads
    BY <1>4 DEF Next, Threads
  <2>2. \/ \E l \in {"adjust", "config", "rest", "detector", "stemGet", "dacGet"}, k \in Writes : Write(k, l)
        \/ \E l \in {"config", "stemPut", "rest", "dacPut"} : Goto(Port, l) /\ UNCHANGED form
        \/ Return(Port, "ok") \/ Return(Port, "error")
    BY <1>4 DEF PortStep, WriteSetting, WriteImageMode, WriteDocument, Writes, Adjustable, Adjust,
       StemGet, StemPut, DacGet, DacPut
  <2>3. pc'[Port] \notin Filling /\ \A u \in Threads \ {Port} : pc'[u] = pc[u] /\ form'[u] = form[u]
    BY <2>1, <2>2, ReturnRight, GotoRight DEF Write, Filling, TypeOK, Labels
  <2> QED BY <1>2, <2>1, <2>3
<1>5. CASE PollStarts \/ UploadDACS
  <2>1. /\ Next /\ Poll \in Threads /\ UNCHANGED form
        /\ \E l \in {"config", "rest"} : Goto(Poll, l)
    BY <1>5 DEF PollStarts, UploadDACS, Next, PollStep, Threads
  <2>2. pc'[Poll] \notin Filling /\ \A u \in Threads \ {Poll} : pc'[u] = pc[u]
    BY <2>1, GotoRight DEF Filling, Labels
  <2> QED BY <1>2, <2>1, <2>2
<1>6. CASE Outage
  BY <1>6, ConsistentKept DEF Outage, settings, History, Consistent, Agrees, TriggerConflict, DepthConflict
<1> QED BY <1>1, <1>3, <1>4, <1>5, <1>6 DEF Next, PortStep, PollStep, Threads

\* Whatever the two threads have written and read back before, a push that no other
\* thread disturbs does not ask a Medipix3 for BothCounters together with continuous
\* triggering or 24 bits: it is filled from parameters that do not conflict.
THEOREM PushIsConsistentHolds == Spec => []PushIsConsistent
<1>1. Init => Consistent
  BY DEF Init, Consistent, Filling
<1>2. Consistent => PushIsConsistent
  BY DEF Consistent, PushIsConsistent, Filling, Agrees, TriggerConflict, DepthConflict
<1> QED BY <1>1, <1>2, InitRight, StepRight, StepAgrees, PTL DEF Spec

-----------------------------------------------------------------------------
(* A write alone: no poll thread and no outage has come between, and no      *)
(* request of it has failed.                                                 *)

\* A setting that is out of range is adjusted before it is sent.
Ranges ==
  /\ p.trigger \in 0..8 \/ (pc[Port] = "adjust" /\ last.kind = "trigger")
  /\ p.gain \in 0..3 \/ (pc[Port] = "adjust" /\ last.kind = "gain")

\* The detector does not change its family, and BothCounters is as it was while the
\* driver does not know it.
Family == family \in {"Unknown", DetectFamily(info)}

BothOff ==
  family # "MPX3" =>
    config.set.both = Default.both /\ \A t \in Threads : form[t].set.both = Default.both

Alone == clean /\ ~failed /\ last.kind \notin {"none", "dac"}

WriteLabels == {"adjust", "config", "learn", "learned", "learnedMode", "trigger"} \cup Filling

\* Nothing is sent before the PUT, and no conflict is left for the trigger mode
\* when it is written, or BothCounters.
AloneRight ==
  Alone =>
    /\ pc[Port] # "rest" => pc[Port] \in WriteLabels /\ ~sent
    /\ pc[Port] = "rest" => \/ last.status = "ok" /\ Sent
                            \/ /\ last.status = "error" /\ ~sent
                               /\ last.kind \notin {"trigger", "both"}
    /\ pc[Port] \in {"config", "learn", "trigger"} /\ last.kind \in {"trigger", "both"} =>
         ~TriggerConflict(p.trigger)
    /\ pc[Port] = "learn" => family = "Unknown"
    /\ pc[Port] \in {"learned", "learnedMode"} => ~form[Port].set.both

CleanKept == clean => pc[Poll] = "rest" /\ ~torn[Port]

\* What the port thread is to write back is what Serval has.
HeldRight ==
  /\ clean /\ ~failed /\ pc[Port] = "stemPut" => held.others = measurement.others
  /\ clean /\ pc[Port] = "dacPut" => held.coarse = dacs.coarse

\* Only a step of the port thread keeps a write alone.
LEMMA CleanStep ==
  ASSUME TypeOK, Next, clean'
  PROVE  /\ PortStep /\ pc[Poll] = "rest" /\ pc'[Poll] = "rest" /\ outages' = outages
         /\ writes' = writes => clean
<1>1. pc[Poll] = "rest" /\ pc'[Poll] = "rest" /\ outages' = outages /\ (writes' = writes => clean)
  BY HistoryKept DEF History
<1>2. ~PollStep
  <2>1. ~PollStarts
    BY <1>1 DEF PollStarts, Goto, TypeOK, Threads
  <2>2. ~Request(Poll) /\ ~UploadDACS
    BY <1>1 DEF Request, GetConfig, FillTrigger, FillTiming, FillMode, FillDepth, Put, Resync,
       GetDetector, ReadBack, ReadBackMode, GetMeasurementConfig, UploadDACS
  <2> QED BY <2>1, <2>2 DEF PollStep
<1>3. ~Outage
  BY <1>1, ConfigAssumption DEF Outage, TypeOK
<1> QED BY <1>1, <1>2, <1>3 DEF Next

\* Where the port thread goes: a write begins at rest, a request leads to another label.
LEMMA PortMoves ==
  ASSUME TypeOK, PortStep
  PROVE  \/ /\ WriteSetting \/ WriteImageMode \/ WriteDocument
            /\ pc[Port] = "rest" /\ writes' # writes /\ pc'[Port] \notin Filling
            /\ failures' = failures /\ config' = config
         \/ /\ ~(WriteSetting \/ WriteImageMode \/ WriteDocument)
            /\ pc[Port] # "rest" /\ writes' = writes /\ last'.kind = last.kind /\ pc'[Port] # pc[Port]
<1>0. Port \in Threads /\ Port # Poll
  BY ConfigAssumption DEF Threads
<1>1. CASE WriteSetting \/ WriteImageMode \/ WriteDocument
  <2>1. \E k \in Writes, l \in {"adjust", "config", "rest", "detector", "stemGet", "dacGet"} : Write(k, l)
    BY <1>1 DEF WriteSetting, WriteImageMode, WriteDocument, Writes, Adjustable
  <2> QED BY <1>0, <1>1, <2>1, ConfigAssumption
          DEF Write, TypeOK, Filling, NoDocument, documents
<1>2. CASE Adjust \/ StemGet \/ StemPut \/ DacGet \/ DacPut \/ Request(Port)
  <2>1. pc[Port] # "rest" /\ writes' = writes
    BY <1>2 DEF Adjust, StemGet, StemPut, DacGet, DacPut, Request, GetConfig, FillTrigger,
       FillTiming, FillMode, FillDepth, Put, Resync, GetDetector, ReadBack, ReadBackMode,
       GetMeasurementConfig, Still, Drops
  <2>2. last'.kind = last.kind /\ pc'[Port] # pc[Port]
    <3>1. \/ Return(Port, "ok") \/ Return(Port, "error")
          \/ \E l \in Labels : Goto(Port, l) /\ l # pc[Port]
      BY <1>2 DEF Adjust, StemGet, StemPut, DacGet, DacPut, Request, GetConfig, FillTrigger,
         FillTiming, FillMode, FillDepth, Put, Resync, GetDetector, ReadBack, ReadBackMode,
         GetMeasurementConfig, Labels
    <3>2. Return(Port, "ok") \/ Return(Port, "error") => pc'[Port] = "rest"
      BY <1>0 DEF Return, TypeOK
    <3> QED BY <1>0, <2>1, <3>1, <3>2, ReturnRight, GotoRight
  <2>3. ~(WriteSetting \/ WriteImageMode \/ WriteDocument)
    BY <2>1 DEF WriteSetting, WriteImageMode, WriteDocument, Write
  <2> QED BY <2>1, <2>2, <2>3
<1> QED BY <1>1, <1>2 DEF PortStep

LEMMA CleanStays == ASSUME TypeOK, CleanKept, Next PROVE CleanKept'
<1> SUFFICES ASSUME clean' PROVE pc'[Poll] = "rest" /\ ~torn'[Port]
  BY DEF CleanKept
<1>1. torn'[Port] = (pc'[Port] \in Filling /\ (torn[Port] \/ (pc'[Port] = pc[Port] /\ <<p, family>>' # <<p, family>>)))
  BY HistoryKept DEF History, Threads
<1> QED BY <1>1, CleanStep, PortMoves DEF CleanKept

LEMMA HeldStays == ASSUME TypeOK, CleanKept, HeldRight, Next PROVE HeldRight'
<1>1. CASE clean' /\ pc'[Port] = "stemPut" /\ ~failed'
  <2>1. PortStep /\ failures' = failures
    BY <1>1, CleanStep, HistoryKept DEF History
  <2>2. \/ \E k \in Writes, l \in {"adjust", "config", "rest", "detector", "stemGet", "dacGet"} : Write(k, l)
        \/ Return(Port, "ok") \/ Return(Port, "error")
        \/ StemGet
        \/ \E l \in Labels \ {"stemPut"} : Goto(Port, l)
    BY <2>1 DEF PortStep, WriteSetting, WriteImageMode, WriteDocument, Writes, Adjustable, Adjust,
       StemPut, DacGet, DacPut, Request, GetConfig, FillTrigger,
       FillTiming, FillMode, FillDepth, Put, Resync, GetDetector, ReadBack, ReadBackMode,
       GetMeasurementConfig, Labels
  <2>3. StemGet
    BY <1>1, <2>2, ReturnRight, GotoRight, ConfigAssumption DEF Write, TypeOK, Threads
  <2>4. held'.others = measurement.others /\ measurement' = measurement
    BY <2>1, <2>3, ConfigAssumption DEF StemGet, Fails, TypeOK, NoDocument, documents
  <2> QED BY <1>1, <2>4 DEF HeldRight
<1>2. CASE clean' /\ pc'[Port] = "dacPut"
  <2>1. PortStep
    BY <1>2, CleanStep
  <2>2. \/ \E k \in Writes, l \in {"adjust", "config", "rest", "detector", "stemGet", "dacGet"} : Write(k, l)
        \/ Return(Port, "ok") \/ Return(Port, "error")
        \/ DacGet /\ Goto(Port, "dacPut")
        \/ \E l \in Labels \ {"dacPut"} : Goto(Port, l)
    BY <2>1 DEF PortStep, WriteSetting, WriteImageMode, WriteDocument, Writes, Adjustable, Adjust,
       StemGet, StemPut, DacGet, DacPut, Request, GetConfig, FillTrigger,
       FillTiming, FillMode, FillDepth, Put, Resync, GetDetector, ReadBack, ReadBackMode,
       GetMeasurementConfig, Labels
  <2>3. DacGet /\ Goto(Port, "dacPut")
    BY <1>2, <2>2, ReturnRight, GotoRight, ConfigAssumption DEF Write, TypeOK, Threads
  <2>4. ~Return(Port, "error")
    BY <1>2, ReturnRight DEF Threads
  <2>5. held'.coarse = dacs.coarse /\ dacs' = dacs
    BY <2>3, <2>4 DEF DacGet, TypeOK, NoDocument, documents
  <2> QED BY <1>2, <2>5 DEF HeldRight
<1> QED BY <1>1, <1>2 DEF HeldRight

\* sendMeasurementConfig and writeDac write back what they have read: the parts of a
\* document that they do not know stay as they are.
THEOREM OthersKept == Spec => OthersKeptStep
<1> DEFINE Kept == (/\ pc[Port] \in {"stemPut", "dacPut"} /\ pc'[Port] = "rest"
                    /\ <<measurement.others, dacs.coarse>>' # <<measurement.others, dacs.coarse>>)
                   => (~clean \/ (failed /\ pc[Port] = "stemPut"))
<1>1. Init => CleanKept /\ HeldRight
  BY DEF Init, CleanKept, HeldRight
<1>2. IInv /\ CleanKept /\ HeldRight /\ [Next]_vars => (CleanKept /\ HeldRight)'
  <2>1. CASE UNCHANGED vars
    BY <2>1 DEF vars, settings, history, documents, CleanKept, HeldRight
  <2> QED BY <2>1, CleanStays, HeldStays DEF IInv
<1>3. IInv /\ CleanKept /\ HeldRight /\ [Next]_vars => [Kept]_vars
  <2> SUFFICES ASSUME IInv, CleanKept, HeldRight, Next, pc[Port] \in {"stemPut", "dacPut"},
                      pc'[Port] = "rest", clean, failed => pc[Port] # "stemPut"
               PROVE  <<measurement.others, dacs.coarse>>' = <<measurement.others, dacs.coarse>>
    OBVIOUS
  <2>0. TypeOK
    BY DEF IInv
  <2>1. StemPut \/ DacPut
    <3>1. ~Outage
      BY DEF Outage
    <3>2. ~PollStep
      <4>1. ~PollStarts
        BY <2>0, ConfigAssumption DEF PollStarts, Goto, TypeOK, Threads
      <4>2. ~Request(Poll) /\ ~UploadDACS
        BY DEF CleanKept, Request, GetConfig, FillTrigger, FillTiming, FillMode, FillDepth, Put, Resync,
           GetDetector, ReadBack, ReadBackMode, GetMeasurementConfig, UploadDACS
      <4> QED BY <4>1, <4>2 DEF PollStep
    <3>3. PortStep
      BY <3>1, <3>2 DEF Next
    <3> QED BY <3>3 DEF PortStep, WriteSetting, WriteImageMode, WriteDocument, Write, Adjust, StemGet,
            DacGet, Request, GetConfig, FillTrigger, FillTiming, FillMode, FillDepth, Put, Resync,
            GetDetector, ReadBack, ReadBackMode, GetMeasurementConfig
  <2>2. CASE StemPut
    BY <2>0, <2>2 DEF StemPut, HeldRight
  <2>3. CASE DacPut
    BY <2>0, <2>3 DEF DacPut, HeldRight
  <2> QED BY <2>1, <2>2, <2>3
<1> QED BY <1>1, <1>2, <1>3, InitRight, StepRight, PTL DEF Spec, OthersKeptStep

-----------------------------------------------------------------------------
(* A setting out of range is adjusted before the port thread sends it.       *)

\* A request moves its own thread only.
LEMMA RequestMoves ==
  ASSUME TypeOK, NEW t \in Threads, Request(t)
  PROVE  last'.kind = last.kind /\ \A u \in Threads \ {t} : pc'[u] = pc[u]
<1>1. \/ Return(t, "ok") \/ Return(t, "error")
      \/ \E l \in Labels : Goto(t, l)
  BY DEF Request, GetConfig, FillTrigger, FillTiming, FillMode, FillDepth, Put, Resync,
     GetDetector, ReadBack, ReadBackMode, GetMeasurementConfig, Labels
<1> QED BY <1>1, ReturnRight, GotoRight

LEMMA RangesStay == ASSUME IInv, Ranges, Next PROVE Ranges'
<1>0. TypeOK /\ Kinds /\ Port \in Threads /\ Port # Poll /\ p \in Settings
  BY ConfigAssumption DEF IInv, TypeOK, Threads
<1>1. ASSUME NEW t \in Threads, Request(t) PROVE Ranges'
  <2>1. pc[Port] = "adjust" => pc'[Port] = "adjust"
    <3>1. t = Port => pc[Port] # "adjust"
      BY <1>1 DEF Request, GetConfig, FillTrigger, FillTiming, FillMode, FillDepth, Put, Resync,
         GetDetector, ReadBack, ReadBackMode, GetMeasurementConfig
    <3>2. t # Port => pc'[Port] = pc[Port]
      BY <1>0, <1>1, RequestMoves
    <3> QED BY <3>1, <3>2
  <2>2. last'.kind = last.kind
    BY <1>0, <1>1, RequestMoves
  <2>3. p'.trigger \in {p.trigger} \cup 0..8 /\ p'.gain \in {p.gain} \cup 0..3
    <3>1. CASE UNCHANGED p
      BY <3>1
    <3>2. CASE FillTrigger(t) \/ FillDepth(t)
      BY <1>0, <3>2, InRange DEF FillTrigger, FillDepth, Settings
    <3>3. CASE Resync(t)
      BY <1>0, <3>3 DEF Resync, TypeOK, Pushed, Accepted, Settings
    <3>4. CASE ReadBack(t)
      <4> DEFINE q == FamilyDefaults(p, family')
      <4>1. form[t].set.trigger \in 0..8
        BY DEF IInv, TypeOK, Pushed, Accepted
      <4>2. q.gain \in {p.gain, 1} /\ DOMAIN q = DOMAIN p
        BY <1>0 DEF FamilyDefaults, Settings
      <4>3. DOMAIN p = {"trigger", "exposure", "period", "images", "both", "gain", "depth"}
        BY <1>0 DEF Settings
      <4>4. p' = [q EXCEPT !.trigger = form[t].set.trigger, !.exposure = form[t].set.exposure,
                           !.period = form[t].set.period, !.images = form[t].set.images]
        BY <3>4 DEF ReadBack
      <4>5. p'.trigger = form[t].set.trigger /\ p'.gain = q.gain
        <5> HIDE DEF q
        <5> QED BY <4>2, <4>3, <4>4
      <4> QED BY <4>1, <4>2, <4>5
    <3>5. CASE ReadBackMode(t)
      BY <1>0, <3>5 DEF ReadBackMode, TypeOK, Pushed, Accepted, Settings
    <3> QED BY <1>1, <3>1, <3>2, <3>3, <3>4, <3>5
            DEF Request, GetConfig, FillTiming, FillMode, Put, GetDetector, GetMeasurementConfig, settings
  <2> QED BY <2>1, <2>2, <2>3 DEF Ranges
<1>2. CASE WriteSetting \/ WriteImageMode \/ WriteDocument
  <2>1. \E k \in Writes, l \in {"adjust", "config", "rest", "detector", "stemGet", "dacGet"} :
          /\ Write(k, l)
          /\ p'.trigger = p.trigger \/ (k = "trigger" /\ l = "adjust")
          /\ p'.gain = p.gain \/ (k = "gain" /\ l = "adjust")
    BY <1>0, <1>2 DEF WriteSetting, WriteImageMode, WriteDocument, Writes, Adjustable, Settings
  <2> QED BY <1>0, <2>1 DEF Write, Ranges, TypeOK
<1>3. CASE Adjust
  <2>1. last.kind \in Adjustable /\ pc[Port] = "adjust" /\ p' = Adjusted(last.kind)
    BY <1>0, <1>3 DEF Adjust, Kinds
  <2>2. /\ p'.trigger \in 0..8 \/ (p'.trigger = p.trigger /\ last.kind # "trigger")
        /\ p'.gain \in 0..3 \/ (p'.gain = p.gain /\ last.kind # "gain")
    <3>1. CASE last.kind = "trigger"
      BY <1>0, <2>1, <3>1, InRange DEF Adjusted, Settings, TimerStop
    <3>2. CASE last.kind = "gain"
      BY <1>0, <2>1, <3>2, InRange DEF Adjusted, Settings
    <3>3. CASE last.kind = "both"
      <4> DEFINE v == IF TriggerConflict(p.trigger) THEN TimerStop ELSE p.trigger
                 d == IF DepthConflict(p.depth) THEN 12 ELSE p.depth
      <4>1. v \in {p.trigger} \cup 0..8
        BY DEF TimerStop
      <4>2. p' = [p EXCEPT !.trigger = v, !.depth = d]
        BY <2>1, <3>3 DEF Adjusted
      <4>3. p'.trigger = v /\ p'.gain = p.gain
        <5> HIDE DEF v, d
        <5> QED BY <1>0, <4>2 DEF Settings
      <4> QED BY <3>3, <4>1, <4>3
    <3>4. CASE last.kind \in {"depth", "images"}
      BY <1>0, <2>1, <3>4 DEF Adjusted, Settings
    <3> QED BY <2>1, <3>1, <3>2, <3>3, <3>4 DEF Adjustable
  <2> QED BY <2>1, <2>2 DEF Ranges
<1>4. CASE StemGet \/ StemPut \/ DacGet \/ DacPut
  BY <1>4 DEF StemGet, StemPut, DacGet, DacPut, settings, Ranges
<1>5. CASE PollStarts \/ UploadDACS \/ Outage
  BY <1>0, <1>5 DEF PollStarts, UploadDACS, Outage, settings, Ranges, Goto, TypeOK
<1> QED BY <1>0, <1>1, <1>2, <1>3, <1>4, <1>5 DEF Next, PortStep, PollStep, Threads

LEMMA FamilyStays == ASSUME Family, Next PROVE Family' /\ (family = "MPX3" => family' = "MPX3")
<1>1. info' = info /\ family' \in {family, DetectFamily(info)}
  BY DEF Next, PortStep, PollStep, Request, GetConfig, FillTrigger, FillTiming, FillMode, FillDepth,
     Put, Resync, GetDetector, ReadBack, ReadBackMode, GetMeasurementConfig, WriteSetting,
     WriteImageMode, WriteDocument, Write, Adjust, StemGet, StemPut, DacGet, DacPut, PollStarts,
     UploadDACS, Outage, Still, Drops, settings
<1> QED BY <1>1 DEF Family

\* Without a Medipix3 BothCounters goes round unchanged.
LEMMA BothStays == ASSUME TypeOK, Family, BothOff, Next PROVE BothOff'
<1> SUFFICES ASSUME family' # "MPX3"
             PROVE  config'.set.both = Default.both /\ \A u \in Threads : form'[u].set.both = Default.both
  BY DEF BothOff
<1>0. /\ family # "MPX3" /\ config.set.both = Default.both
      /\ \A u \in Threads : form[u].set.both = Default.both
  BY FamilyStays DEF BothOff
<1>1. ASSUME UNCHANGED <<config, form>>
      PROVE  config'.set.both = Default.both /\ \A u \in Threads : form'[u].set.both = Default.both
  BY <1>0, <1>1
<1>2. ASSUME NEW t \in Threads, config' \in {config, form[t]},
             \/ UNCHANGED form
             \/ \E e : form' = [form EXCEPT ![t] = e] /\ e \in {config, Blank}
      PROVE  config'.set.both = Default.both /\ \A u \in Threads : form'[u].set.both = Default.both
  BY <1>0, <1>2 DEF Blank, TypeOK
<1>3. ASSUME NEW t \in Threads, Request(t)
      PROVE  config'.set.both = Default.both /\ \A u \in Threads : form'[u].set.both = Default.both
  <2>1. CASE GetConfig(t) \/ Put(t) \/ Resync(t) \/ GetDetector(t) \/ ReadBackMode(t)
    BY <1>2, <2>1 DEF GetConfig, Put, Resync, GetDetector, ReadBackMode, Return, NoDocument, documents
  <2>2. CASE ReadBack(t) \/ GetMeasurementConfig(t)
    BY <1>1, <2>2 DEF ReadBack, GetMeasurementConfig, NoDocument, documents
  <2>3. CASE FillTrigger(t)
    <3>1. CASE Return(t, "error")
      BY <1>2, <2>3, <3>1 DEF FillTrigger, Return, NoDocument, documents
    <3>2. CASE form' = [form EXCEPT ![t].set.trigger = NormTrigger(p.trigger)]
      BY <1>0, <2>3, <3>2 DEF FillTrigger, NoDocument, documents, TypeOK, Pushed, Accepted
    <3> QED BY <2>3, <3>1, <3>2 DEF FillTrigger
  <2>4. CASE FillTiming(t)
    <3> DEFINE y == PeriodFor(form[t].set.trigger, p.exposure, p.period)
               s == [form[t].set EXCEPT !.exposure = p.exposure, !.images = p.images, !.period = y]
    <3>1. form' = [form EXCEPT ![t].set = s] /\ config' = config
      BY <2>4 DEF FillTiming, NoDocument, documents
    <3>2. s.both = form[t].set.both
      <4> HIDE DEF y
      <4> QED BY DEF TypeOK, Pushed, Accepted
    <3>3. form'[t].set = s /\ \A u \in Threads \ {t} : form'[u] = form[u]
      <4> HIDE DEF s
      <4> QED BY <3>1 DEF TypeOK, Pushed
    <3> QED BY <1>0, <3>1, <3>2, <3>3
  <2>5. CASE FillMode(t)
    BY <1>0, <2>5 DEF FillMode, NoDocument, documents, TypeOK, Pushed
  <2>6. CASE FillDepth(t)
    <3>1. PICK d : form' = [form EXCEPT ![t].set.depth = d] /\ config' = config
      BY <2>6 DEF FillDepth, NoDocument, documents
    <3> QED BY <1>0, <3>1 DEF TypeOK, Pushed, Accepted
  <2> QED BY <1>3, <2>1, <2>2, <2>3, <2>4, <2>5, <2>6 DEF Request
<1>4. CASE WriteSetting \/ WriteImageMode \/ WriteDocument
  BY <1>1, <1>4 DEF WriteSetting, WriteImageMode, WriteDocument, Write, NoDocument, documents
<1>5. CASE Adjust \/ StemGet \/ StemPut \/ DacGet \/ DacPut
  BY <1>2, <1>5 DEF Adjust, StemGet, StemPut, DacGet, DacPut, Return, NoDocument, documents, Threads
<1>6. CASE PollStarts \/ UploadDACS
  BY <1>1, <1>6 DEF PollStarts, UploadDACS, NoDocument, documents
<1>7. CASE Outage
  BY <1>0, <1>7 DEF Outage, FreshConfig, NoDocument, documents
<1> QED BY <1>3, <1>4, <1>5, <1>6, <1>7 DEF Next, PortStep, PollStep, Threads

-----------------------------------------------------------------------------
(* A write alone, from the parameter to Serval.                              *)

Writing == IInv /\ Consistent /\ CleanKept /\ Ranges /\ Family /\ BothOff /\ AloneRight

\* It was alone before, has no answer to miss, and sends only with its PUT.
LEMMA AloneBefore ==
  ASSUME TypeOK, AloneRight, Next, Alone', writes' = writes
  PROVE  /\ Alone /\ failures' = failures /\ last'.kind = last.kind
         /\ pc[Port] \in WriteLabels /\ ~sent /\ (config' = config => ~sent')
         /\ Adjust \/ Request(Port)
<1>1. clean /\ ~failed /\ failures' = failures /\ (sent' = (config' # config \/ sent))
  BY HistoryKept DEF History, Alone
<1>2. /\ PortStep /\ ~(WriteSetting \/ WriteImageMode \/ WriteDocument)
      /\ pc[Port] # "rest" /\ last'.kind = last.kind
  BY CleanStep, PortMoves DEF Alone
<1>3. Alone /\ pc[Port] \in WriteLabels /\ ~sent
  BY <1>1, <1>2 DEF Alone, AloneRight
<1>4. ~StemGet /\ ~StemPut /\ ~DacGet /\ ~DacPut
  BY <1>3 DEF WriteLabels, Filling, StemGet, StemPut, DacGet, DacPut
<1> QED BY <1>1, <1>2, <1>3, <1>4 DEF PortStep

LEMMA AdjustAlone ==
  ASSUME Writing, Adjust, Alone, Alone', ~sent', last'.kind = last.kind
  PROVE  AloneRight'
<1>0. TypeOK /\ Kinds /\ Port \in Threads /\ Port # Poll /\ p \in Settings /\ family' = family
  BY ConfigAssumption DEF Writing, IInv, TypeOK, Threads, Adjust
<1>1. CASE Return(Port, "error") /\ last.kind = "depth"
  <2>1. pc'[Port] = "rest" /\ last'.status = "error"
    BY <1>0, <1>1 DEF Return, TypeOK
  <2> QED BY <1>1, <2>1 DEF AloneRight
<1>2. CASE Goto(Port, "config")
  <2>1. pc'[Port] = "config"
    BY <1>0, <1>2 DEF Goto, TypeOK
  <2>2. last.kind \in {"trigger", "both"} => ~TriggerConflict(p.trigger)'
    <3>1. p' = Adjusted(last.kind)
      BY DEF Adjust
    <3>2. CASE last.kind = "trigger"
      BY <1>0, <3>1, <3>2 DEF Adjusted, TriggerConflict, TimerStop, Continuous, Settings
    <3>3. CASE last.kind = "both"
      <4> DEFINE v == IF TriggerConflict(p.trigger) THEN TimerStop ELSE p.trigger
                 d == IF DepthConflict(p.depth) THEN 12 ELSE p.depth
      <4>1. ~TriggerConflict(v)
        BY DEF TriggerConflict, TimerStop, Continuous
      <4>2. p' = [p EXCEPT !.trigger = v, !.depth = d]
        BY <3>1, <3>3 DEF Adjusted
      <4>3. p'.trigger = v /\ p'.both = p.both
        <5> HIDE DEF v, d
        <5> QED BY <1>0, <4>2 DEF Settings
      <4> HIDE DEF v, d
      <4> QED BY <1>0, <4>1, <4>3 DEF TriggerConflict
    <3> QED BY <3>2, <3>3
  <2> QED BY <2>1, <2>2 DEF AloneRight, WriteLabels
<1> QED BY <1>1, <1>2 DEF Adjust

LEMMA LearnAlone ==
  ASSUME Writing, ~Default.both, Alone, Alone', ~sent', last'.kind = last.kind,
         failures' = failures, pc[Port] \in WriteLabels,
         GetConfig(Port) \/ GetDetector(Port) \/ ReadBack(Port) \/ ReadBackMode(Port)
  PROVE  AloneRight'
<1>0. TypeOK /\ Port \in Threads /\ p \in Settings /\ form[Port] \in Pushed
  BY DEF Writing, IInv, TypeOK, Threads
<1>1. ~Fails
  BY <1>0, ConfigAssumption DEF Fails, TypeOK
<1>2. CASE GetConfig(Port)
  <2>1. PICK l \in {"learn", "trigger"} : Goto(Port, l) /\ (l = "learn" => family = "Unknown")
    BY <1>1, <1>2 DEF GetConfig
  <2>2. pc[Port] = "config" /\ pc'[Port] = l /\ UNCHANGED <<p, family>>
    BY <1>0, <1>2, <2>1 DEF GetConfig, Goto, TypeOK, settings
  <2>3. last.kind \in {"trigger", "both"} => ~TriggerConflict(p.trigger)'
    BY <2>2 DEF Writing, AloneRight, TriggerConflict
  <2> QED BY <2>1, <2>2, <2>3 DEF AloneRight, WriteLabels
<1>3. CASE GetDetector(Port)
  <2>1. pc[Port] = "learn"
    BY <1>3 DEF GetDetector, WriteLabels, Filling
  <2>2. pc'[Port] = "learned" /\ form'[Port] = config
    BY <1>0, <1>1, <1>3, <2>1 DEF GetDetector, Goto, TypeOK
  <2>3. ~config.set.both
    BY <2>1 DEF Writing, AloneRight, BothOff
  <2> QED BY <2>2, <2>3 DEF AloneRight, WriteLabels
<1>4. CASE ReadBack(Port)
  <2>1. pc[Port] = "learned" /\ UNCHANGED form
    BY <1>4 DEF ReadBack, WriteLabels, Filling
  <2>2. pc'[Port] = "learnedMode"
    BY <1>0, <1>4, <2>1 DEF ReadBack, Goto, TypeOK
  <2>3. ~form[Port].set.both
    BY <2>1 DEF Writing, AloneRight
  <2> QED BY <2>1, <2>2, <2>3 DEF AloneRight, WriteLabels
<1>5. CASE ReadBackMode(Port)
  <2>1. pc[Port] = "learnedMode" /\ UNCHANGED family
    BY <1>5 DEF ReadBackMode, WriteLabels, Filling
  <2>2. pc'[Port] = "trigger"
    BY <1>0, <1>5, <2>1 DEF ReadBackMode, Goto, TypeOK
  <2>3. ~form[Port].set.both
    BY <2>1 DEF Writing, AloneRight
  <2>4. ~TriggerConflict(p.trigger)'
    <3>1. CASE DetectFamily(info) # "MPX3"
      BY <2>1, <3>1 DEF Writing, Family, TriggerConflict
    <3>2. CASE DetectFamily(info) = "MPX3"
      <4>1. p' = [p EXCEPT !.both = form[Port].set.both, !.gain = form[Port].set.gain,
                           !.depth = form[Port].set.depth]
        BY <1>5, <3>2 DEF ReadBackMode
      <4>2. p'.both = form[Port].set.both
        BY <1>0, <4>1 DEF Settings
      <4> QED BY <2>3, <4>2 DEF TriggerConflict
    <3> QED BY <3>1, <3>2
  <2> QED BY <2>2, <2>4 DEF AloneRight, WriteLabels, Filling
<1> QED BY <1>2, <1>3, <1>4, <1>5

LEMMA FillAlone ==
  ASSUME Writing, Alone, Alone', ~sent', last'.kind = last.kind,
         FillTrigger(Port) \/ FillTiming(Port) \/ FillMode(Port) \/ FillDepth(Port)
  PROVE  AloneRight'
<1>0. TypeOK /\ Port \in Threads /\ Port # Poll
  BY ConfigAssumption DEF Writing, IInv, Threads
<1>1. CASE FillTrigger(Port) /\ TriggerConflict(NormTrigger(p.trigger)) /\ Return(Port, "error")
  <2>1. pc[Port] = "trigger" /\ pc'[Port] = "rest" /\ last'.status = "error"
    BY <1>0, <1>1 DEF FillTrigger, Return, TypeOK
  <2>2. NormTrigger(p.trigger) = p.trigger
    BY <2>1 DEF Writing, Ranges, NormTrigger
  <2>3. last.kind \notin {"trigger", "both"}
    BY <1>1, <2>1, <2>2 DEF Writing, AloneRight
  <2> QED BY <2>1, <2>3 DEF AloneRight
<1>2. CASE \E l \in Filling : Goto(Port, l)
  <2>1. pc'[Port] \in Filling
    BY <1>0, <1>2 DEF Goto, TypeOK
  <2> QED BY <2>1 DEF AloneRight, WriteLabels, Filling
<1> QED BY <1>1, <1>2 DEF FillTrigger, FillTiming, FillMode, FillDepth, Filling

\* The PUT brings what the parameters say.
LEMMA PutAlone ==
  ASSUME Writing, Alone, Alone', failures' = failures, Put(Port)
  PROVE  AloneRight'
<1>0. TypeOK /\ Port \in Threads /\ Port # Poll
  BY ConfigAssumption DEF Writing, IInv, Threads
<1>1. ~Fails
  BY <1>0, ConfigAssumption DEF Fails, TypeOK
<1>2. pc[Port] = "put" /\ config' = form[Port] /\ Return(Port, "ok") /\ UNCHANGED <<p, family>>
  BY <1>1 DEF Put, settings
<1>3. pc'[Port] = "rest" /\ last'.status = "ok"
  BY <1>0, <1>2 DEF Return, TypeOK
<1>4. Agrees(Port)
  BY <1>0, <1>2 DEF Writing, Consistent, CleanKept, Alone, Filling
<1>5. NormGain(p.gain) = p.gain
  BY <1>2 DEF Writing, Ranges, NormGain
<1>6. Sent'
  <2>1. config'.set = form[Port].set /\ config'.tpx = form[Port].tpx
    BY <1>2
  <2> QED BY <1>2, <1>4, <1>5, <2>1 DEF Agrees, Sent
<1> QED BY <1>3, <1>6 DEF AloneRight

LEMMA AloneStays == ASSUME Writing, ~Default.both, Next PROVE AloneRight'
<1> SUFFICES ASSUME Alone' PROVE AloneRight'
  BY DEF AloneRight
<1>0. TypeOK /\ AloneRight /\ Port \in Threads
  BY DEF Writing, IInv, Threads
<1>1. CASE writes' = writes
  <2>0. /\ Alone /\ failures' = failures /\ last'.kind = last.kind
        /\ pc[Port] \in WriteLabels /\ (config' = config => ~sent') /\ (Adjust \/ Request(Port))
    BY <1>0, <1>1, AloneBefore
  <2>1. CASE Put(Port)
    BY <2>0, <2>1, PutAlone
  <2>2. CASE ~Put(Port)
    <3>1. config' = config
      BY <2>0, <2>2 DEF Adjust, Request, GetConfig, FillTrigger, FillTiming, FillMode, FillDepth,
         Resync, GetDetector, ReadBack, ReadBackMode, GetMeasurementConfig, NoDocument, documents
    <3>2. ~Resync(Port) /\ ~GetMeasurementConfig(Port)
      BY <2>0 DEF WriteLabels, Filling, Resync, GetMeasurementConfig
    <3> QED BY <2>0, <2>2, <3>1, <3>2, AdjustAlone, LearnAlone, FillAlone DEF Request
  <2> QED BY <2>1, <2>2
<1>2. CASE writes' # writes
  <2>1. WriteSetting \/ WriteImageMode \/ WriteDocument
    BY <1>0, <1>2, CleanStep, PortMoves DEF Alone
  <2>2. ~sent'
    BY <1>0, <1>2, <2>1, HistoryKept, PortMoves, CleanStep DEF History, Alone
  <2>3. \E k \in Writes, l \in {"adjust", "config"} :
          Write(k, l) /\ (k \in {"trigger", "both"} => l = "adjust")
    BY <2>1 DEF WriteSetting, WriteImageMode, WriteDocument, Writes, Adjustable, Alone, Write
  <2>4. pc'[Port] \in {"adjust", "config"} /\ (last'.kind \in {"trigger", "both"} => pc'[Port] = "adjust")
    BY <1>0, <2>3 DEF Write, TypeOK
  <2> QED BY <2>2, <2>4 DEF AloneRight, WriteLabels
<1> QED BY <1>1, <1>2

\* A write that meets no failure, and neither an outage nor the poll thread, brings all
\* settings to Serval or returns an error and has sent nothing; TriggerMode and
\* BothCounters are never refused. (If BothCounters is off in a detector that has just
\* started: the driver learns of it, and of the family, only within the first write.)
THEOREM WriteIsSentOrRefusedHolds ==
  ASSUME ~Default.both PROVE Spec => []WriteIsSentOrRefused
<1>1. Init => Writing
  <2> SUFFICES ASSUME Init PROVE Writing
    OBVIOUS
  <2>1. IInv
    BY InitRight
  <2>2. Consistent /\ CleanKept /\ AloneRight
    BY DEF Init, Consistent, CleanKept, AloneRight, Alone, Filling
  <2>3. Ranges /\ Family
    BY DEF Init, Ranges, Family
  <2>4. BothOff
    BY DEF Init, BothOff, FreshConfig, Blank
  <2> QED BY <2>1, <2>2, <2>3, <2>4 DEF Writing
<1>2. Writing /\ [Next]_vars => Writing'
  <2>1. CASE Next
    <3>1. Writing => IInv' /\ Consistent'
      BY <2>1, StepRight, StepAgrees DEF Writing
    <3>2. Writing => CleanKept' /\ Ranges' /\ Family' /\ BothOff' /\ AloneRight'
      BY <2>1, CleanStays, RangesStay, FamilyStays, BothStays, AloneStays DEF Writing, IInv
    <3> QED BY <3>1, <3>2 DEF Writing
  <2>2. CASE UNCHANGED vars
    <3>1. Writing => IInv' /\ Consistent'
      BY <2>2, StepRight, StepAgrees DEF Writing
    <3>2. UNCHANGED <<info, config, family, p, pc, form, last, sent, clean, failed, torn>>
      BY <2>2 DEF vars, settings, history, documents
    <3>3. Writing => CleanKept' /\ Ranges' /\ Family' /\ BothOff'
      BY <3>2 DEF Writing, CleanKept, Ranges, Family, BothOff
    <3>4. Writing => AloneRight'
      BY <3>2 DEF Writing, AloneRight, Alone, Sent, TriggerConflict
    <3> QED BY <3>1, <3>3, <3>4 DEF Writing
  <2> QED BY <2>1, <2>2
<1>3. Writing => WriteIsSentOrRefused
  BY DEF Writing, AloneRight, Alone, WriteIsSentOrRefused
<1> QED BY <1>1, <1>2, <1>3, PTL DEF Spec
=============================================================================
