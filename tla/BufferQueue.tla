---------------------------- MODULE BufferQueue ----------------------------
(***************************************************************************)
(* What a virtqueue promises a driver, whatever the device does with the   *)
(* buffers: a buffer the driver offers is the device's until the device    *)
(* returns it, buffers come back in the order they were offered, each one  *)
(* once, and none comes back that was not offered.                         *)
(***************************************************************************)
EXTENDS Naturals, Sequences

CONSTANT Buffers
VARIABLES offered,     \* buffers the device owns, oldest first
          returned     \* buffers given back that the driver has not collected

queue_vars == <<offered, returned>>

TypeInvariant == offered \in Seq(Buffers) /\ returned \in Seq(Buffers)

Init == offered = <<>> /\ returned = <<>>

Offer == \E b \in Buffers : offered' = Append(offered, b) /\ UNCHANGED returned

\* The device finishes with the oldest n buffers.
Return ==
  \E n \in 1..Len(offered) :
    /\ returned' = returned \o SubSeq(offered, 1, n)
    /\ offered' = SubSeq(offered, n + 1, Len(offered))

Collect == returned # <<>> /\ returned' = Tail(returned) /\ UNCHANGED offered

\* The driver stops the queue and takes every buffer back.
Stop == offered' = <<>> /\ returned' = <<>>

Next == Offer \/ Return \/ Collect \/ Stop

Spec == Init /\ [][Next]_queue_vars
=============================================================================
