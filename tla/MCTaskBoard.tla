----------------------------- MODULE MCTaskBoard -----------------------------
(* Two tasks and two list requests. *)
EXTENDS TaskBoard, TLC

CONSTANTS i1, i2, q1, q2, none

MCSymmetry == Permutations({i1, i2}) \cup Permutations({q1, q2})
==============================================================================
