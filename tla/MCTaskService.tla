---------------------------- MODULE MCTaskService ----------------------------
(* Three requests at once on one task: a reader and two writers. *)
EXTENDS TaskService, TLC

CONSTANTS t1, d1, d2, d3

MCSymmetry == Permutations({d1, d2, d3})
==============================================================================
