----------------------------- MODULE FrameOrder -----------------------------
(* What a preview, image or histogram stream promises its readers: frames  *)
(* come one at a time, each at most once, in the order Serval sent them.   *)
(* Frames may be missing, and what a frame holds is not promised here.     *)
EXTENDS Naturals, Sequences

CONSTANT NumFrames        \* Serval sends frames 1..NumFrames

VARIABLE delivered        \* the numbers of the frames the driver processed

Last == IF delivered = <<>> THEN 0 ELSE delivered[Len(delivered)]

Init == delivered = <<>>

Deliver(f) == f > Last /\ delivered' = Append(delivered, f)

Next == \E f \in 1..NumFrames : Deliver(f)

Spec == Init /\ [][Next]_delivered
=============================================================================
