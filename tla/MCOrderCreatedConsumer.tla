------------------------ MODULE MCOrderCreatedConsumer ------------------------
(* Two pods; both orders share a partition, so one can be left behind the other. *)
EXTENDS OrderCreatedConsumer, TLC

CONSTANTS t1, t2, p1, a1, a2

MCPartitionOf == a1 :> p1 @@ a2 :> p1
MCSymmetry == Permutations({t1, t2}) \cup Permutations({a1, a2})
===============================================================================
