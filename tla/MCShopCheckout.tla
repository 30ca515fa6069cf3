---------------------------- MODULE MCShopCheckout ----------------------------
(* Two users, two requests at once.                                            *)
EXTENDS ShopCheckout, TLC

CONSTANTS alice, bob, d1, d2, p1, p2, x1, x2

MCSymmetry == Permutations({d1, d2}) \cup Permutations({x1, x2}) \cup Permutations({p1, p2})
===============================================================================
