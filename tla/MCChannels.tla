------------------------------ MODULE MCChannels ------------------------------
(***************************************************************************)
(* Channels for TLC: both raw channels, so that one can be on without the  *)
(* other, and an image channel. (A histogram channel goes through the same *)
(* steps as an image, with less to convert.)                               *)
(***************************************************************************)
EXTENDS Channels

MCOrder == <<[group |-> "Raw", index |-> 0], [group |-> "Raw", index |-> 1],
             [group |-> "PreviewImage", index |-> 0]>>
MCBases == {"gone", "tcp", "short"}
=============================================================================
