--------------------------- MODULE MCDetectorConfig ---------------------------
(***************************************************************************)
(* DetectorConfig for TLC: a Medipix3 that names its chip, a Timepix3 that *)
(* has to be told from its type. Fresh detectors are in continuous mode    *)
(* with 24 bits.                                                           *)
(***************************************************************************)
EXTENDS DetectorConfig

MCInfos == {[chip |-> "MPX3", mpx |-> 6, board |-> ""], [chip |-> "", mpx |-> 6, board |-> "5"]}
MCDefault == [trigger |-> 5, exposure |-> 1, period |-> 1, images |-> 1, both |-> FALSE,
              gain |-> 0, depth |-> 24]
MCTimes == {1, 4}
MCTriggers == {5, 9}
MCDepths == {7, 24}
MCGains == {4}
MCCounts == {0}
=============================================================================
