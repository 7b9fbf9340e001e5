------------------------------- MODULE MCMasks -------------------------------
(***************************************************************************)
(* Masks for TLC: chips of two by two pixels.                              *)
(***************************************************************************)
EXTENDS Masks

MCMosaics == {<<1, 1>>, <<4, 2>>, <<8, 2>>}
MCOrientations == {0, 3}
MCCalibrations ==
  [chips : {1, 4}, bad : {{}, {0, 1}}] \cup [chips : {8}, bad : {{0, 1}}]
MCBoxes == {[x |-> -1, y |-> 1, sx |-> 2, sy |-> 1]}
MCDiscs == {[x |-> 1, y |-> 0, r |-> 1]}
=============================================================================
