--------------------------- MODULE MCAcquisition ---------------------------
(* Small instances of Acquisition for TLC: an Img channel and a PrvHst     *)
(* channel, one of which can have two worker threads at a time.            *)
EXTENDS Acquisition, TLC
CONSTANTS w1, w2, w3

TwoImgWorkers == w1 :> 1 @@ w2 :> 1
TwoHstWorkers == w1 :> 1 @@ w2 :> 2 @@ w3 :> 2

ImgSymmetry == Permutations({w1, w2})
HstSymmetry == Permutations({w2, w3})
=============================================================================
