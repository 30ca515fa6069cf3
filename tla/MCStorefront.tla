----------------------------- MODULE MCStorefront -----------------------------
(* One user in one tab, two requests in progress at a time. *)
EXTENDS Storefront, TLC

CONSTANTS alice, d1, d2, p1, p2, x1, x2, k1, k2, k3

MCSymmetry == Permutations({d1, d2}) \cup Permutations({x1, x2})
              \cup Permutations({p1, p2}) \cup Permutations({k1, k2, k3})
===============================================================================
