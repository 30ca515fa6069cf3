------------------------ MODULE MCServiceBusListener ------------------------
(* Two pods.  b1 and b2 are two sends of checkout m1 that carry broker message *)
(* ids; b3 is malformed and has none, so its correlation id is the key.        *)
EXTENDS ServiceBusListener, TLC

CONSTANTS r1, r2, w1, w2, m1, m2, c1, c2, k1, k2, b1, b2, b3

MCHome == w1 :> r1 @@ w2 :> r2
MCCorr == m1 :> c1 @@ m2 :> c2
MCRequest == { [msg |-> m1, key |-> k1], [msg |-> m1, key |-> k2], [msg |-> m2, key |-> c2] }
MCCarries == b1 :> [msg |-> m1, key |-> k1] @@ b2 :> [msg |-> m1, key |-> k2]
               @@ b3 :> [msg |-> m2, key |-> c2]
==============================================================================
