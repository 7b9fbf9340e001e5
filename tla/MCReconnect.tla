---------------------------- MODULE MCReconnect ----------------------------
(* What TLC needs of Reconnect: three values of the settings. "clash" is        *)
(* continuous mode with BothCounters and with a period of its own: a Medipix3   *)
(* refuses it, and a Timepix3 gets another period, and so "whole".              *)
EXTENDS Reconnect

MCSettings == {"default", "whole", "clash"}
MCDefault == [read |-> "default", tdc |-> 0]
MCWritten == {[read |-> "clash", tdc |-> 1], [read |-> "whole", tdc |-> 1]}
MCSent == [s \in MCSettings |-> IF s = "clash" THEN "whole" ELSE s]
MCNoted == [s \in MCSettings |-> s]
=============================================================================
