---------------------------- MODULE MCOrderService ----------------------------
(* Two pods, three concurrent callers.  m2 and m3 carry one correlation id: a  *)
(* client that sends its own x-correlation-id twice.  m4 repeats the           *)
(* correlation id of m1 with lists of unequal length.                          *)
EXTENDS OrderService, TLC

CONSTANTS r1, r2, w1, w2, w3, m1, m2, m3, m4, c1, c2, k1, o1, o2

MCHome == w1 :> r1 @@ w2 :> r1 @@ w3 :> r2
MCCorr == m1 :> c1 @@ m2 :> c2 @@ m3 :> c2 @@ m4 :> c1
(* c1 and c2 are keys of Kafka and HTTP deliveries, k1 a broker message id.    *)
MCRequest == { [msg |-> m1, key |-> c1], [msg |-> m2, key |-> c2],
               [msg |-> m3, key |-> k1], [msg |-> m4, key |-> c1] }
MCSymmetry == Permutations({w1, w2}) \cup Permutations({o1, o2})
===============================================================================
