------------------------------ MODULE MCShutdown ------------------------------
(* A small instance of Shutdown for TLC: an Img channel, and a PrvHst channel *)
(* that can have two worker threads at a time.                                *)
EXTENDS Shutdown, TLC
CONSTANTS w1, w2, w3

TwoHstWorkers == w1 :> 1 @@ w2 :> 2 @@ w3 :> 2
=============================================================================
