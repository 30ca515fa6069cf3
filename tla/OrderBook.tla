------------------------------ MODULE OrderBook ------------------------------
(***************************************************************************)
(* What order-svc promises its callers, whatever the interleaving of its   *)
(* replicas: a book with at most one accepted checkout per correlation id, *)
(* never rewritten, and at most one publication of OrderCreated for each   *)
(* accepted checkout (one publication may leave several copies there,      *)
(* because the producer retries a send whose acknowledgement was lost).    *)
(***************************************************************************)
EXTENDS Naturals

CONSTANTS Msg,      \* checkout messages (the CheckoutPayload values)
          CorrId,   \* correlation ids
          Corr,     \* Corr[m] is the correlation id message m carries
          NoMsg,    \* no checkout accepted
          MaxCopies \* copies one publication may leave

VARIABLES book,     \* book[c] is the checkout accepted for correlation id c
          copies    \* copies[c] is the number of OrderCreated events about it

vars == <<book, copies>>

Init == /\ book = [c \in CorrId |-> NoMsg]
        /\ copies = [c \in CorrId |-> 0]

Accept(m) == /\ book[Corr[m]] = NoMsg
             /\ book' = [book EXCEPT ![Corr[m]] = m]
             /\ UNCHANGED copies

Publish(c, n) == /\ book[c] # NoMsg
                 /\ copies[c] = 0
                 /\ copies' = [copies EXCEPT ![c] = n]
                 /\ UNCHANGED book

Next == \/ \E m \in Msg : Accept(m)
        \/ \E c \in CorrId, n \in 1..MaxCopies : Publish(c, n)

Spec == Init /\ [][Next]_vars
==============================================================================
