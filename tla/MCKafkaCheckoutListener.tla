----------------------- MODULE MCKafkaCheckoutListener -----------------------
(* Two pods, one partition.  m1 and m3 are proper checkouts, m2 is one whose   *)
(* lists differ in length.                                                     *)
EXTENDS KafkaCheckoutListener, TLC

CONSTANTS r1, r2, w1, w2, m1, m2, m3, c1, c2, c3, p1

MCHome == w1 :> r1 @@ w2 :> r2
MCCorr == m1 :> c1 @@ m2 :> c2 @@ m3 :> c3
MCRequest == { [msg |-> m1, key |-> c1], [msg |-> m2, key |-> c2], [msg |-> m3, key |-> c3] }
MCPartitionOf == c1 :> p1 @@ c2 :> p1 @@ c3 :> p1
==============================================================================
