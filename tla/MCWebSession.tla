----------------------------- MODULE MCWebSession -----------------------------
(* Two tabs; two passwords for one e-mail and an account under another. *)
EXTENDS WebSession

CONSTANTS t1, t2, e1, e2, p1, p2, none

MCAccount == {[email |-> e1, password |-> p1], [email |-> e1, password |-> p2],
              [email |-> e2, password |-> p1]}
===============================================================================
